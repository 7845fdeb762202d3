----------------------------- MODULE ClientProofs -----------------------------
(***************************************************************************)
(* Proofs about the parts of the client whose state is their own, one      *)
(* after the other: Connection, for any transaction ids, settings and      *)
(* number of statements; ServerCursor, for any number of rows and any      *)
(* itersizes; Cursor, for any number of calls and of rows; Adapters, for   *)
(* any tree of contexts; Copy, for any sizes of the buffers and of the     *)
(* queue; Pq, for any threads that make calls.                             *)
(***************************************************************************)
EXTENDS Connection, ServerCursor, Cursor, Adapters, Copy, Pq, Counting, SequenceTheorems,
        FiniteSetTheorems, TLAPS

-----------------------------------------------------------------------------
(***************************************************************************)
(* The inductive invariant.  The command that is kept is the one of the    *)
(* present settings.                                                       *)
(***************************************************************************)
BeginKept == conn.begin \in {NoSettings, conn.settings}

\* A block is counted, and the outer one has a transaction, that is not in two
\* phases unless it is over.
BlockKnown ==
    /\ conn.num = IF block = "none" THEN 0 ELSE 1
    /\ block = "outer" /\ Usable =>
         /\ server.status # "idle"
         /\ conn.tpc = NoTpc \/ conn.tpc.prepared

\* Work is in an open transaction.
WorkOpen == server.status \in {"idle", "lost"} => server.work = {}

\* A statement is executed once.
WorkNumbered ==
    \A w \in Writes :
        w \in server.work \cup server.committed \/ (\E x \in Xids : w \in server.prepared[x])
            => w <= past.writes

\* The transaction that tpc_recover() has started holds no work but what was
\* done since.
WorkBetween ==
    recover \in {"idle", "rollback"} => server.work \subseteq past.between

\* Out of a two-phase transaction, no work of one is open, unless it was asked for.
WorkAsked ==
    conn.tpc = NoTpc \/ conn.tpc.prepared =>
        \A w \in server.work : past.origin[w] # NoXid => w \in past.asked

ConnIInv ==
    /\ ConnTypeOK /\ BeginKept /\ BlockKnown
    /\ WorkOpen /\ WorkNumbered /\ WorkBetween /\ WorkAsked
    /\ StartedAsSet /\ CommittedByTpc /\ TpcKnown /\ RecoverHarmless

-----------------------------------------------------------------------------
(* What the server does with a command *)

\* A session that is lost keeps what is prepared and committed
LEMMA LostSession ==
    ASSUME NEW srv \in Sessions
    PROVE  LET s == Lost(srv).srv
           IN  /\ s \in Sessions
               /\ s.status = "lost" /\ s.work = {} /\ s.begun = srv.begun
               /\ s.prepared = srv.prepared /\ s.exists = srv.exists
               /\ s.committed = srv.committed
               /\ ~Lost(srv).ok
  BY DEF Lost, Sessions

\* A command has one of its outcomes, after which the connection may be lost
LEMMA OneOutcome ==
    ASSUME NEW outs, NEW o \in Outcomes(outs)
    PROVE  \E p \in outs : o = p \/ o = Lost(p.srv)
  BY DEF Outcomes

\* BEGIN, which _start_query() may send first
LEMMA StartedOutcome ==
    ASSUME server \in Sessions, conn.begin \in Settings \cup {NoSettings},
           conn.settings \in Settings, NEW o \in Started
    PROVE  /\ o.srv \in Sessions /\ o.ok
           /\ o.srv.work = server.work /\ o.srv.committed = server.committed
           /\ o.srv.prepared = server.prepared /\ o.srv.exists = server.exists
           /\ Starts => o.srv.status = "intrans" /\ o.srv.begun = StartCommand
           /\ ~Starts => o.srv = server
<1>1. CASE Starts
  <2>1. StartCommand \in Settings \cup {NoSettings}
    BY DEF StartCommand
  <2>2. o = [srv |-> [server EXCEPT !.status = "intrans", !.begun = StartCommand], ok |-> TRUE]
    BY <1>1 DEF Started, Begin, Good
  <2> QED
    BY <1>1, <2>1, <2>2 DEF Sessions
<1>2. CASE ~Starts
  BY <1>2 DEF Started, Good
<1> QED
  BY <1>1, <1>2

\* A statement
LEMMA QueryOutcome ==
    ASSUME NEW srv \in Sessions, NEW w \in Writes, NEW o \in Query(srv, w)
    PROVE  /\ o.srv \in Sessions
           /\ o.srv.begun = srv.begun
           /\ o.srv.prepared = srv.prepared /\ o.srv.exists = srv.exists
           /\ o.srv.status = srv.status \/ (srv.status = "intrans" /\ o.srv.status = "inerror")
           /\ o.srv.work \subseteq srv.work \cup {w}
           /\ o.srv.committed \subseteq srv.committed \cup {w}
           /\ srv.status = "intrans" \/ o.srv.work = srv.work
           /\ srv.status = "idle" \/ o.srv.committed = srv.committed
<1>1. CASE srv.status = "intrans"
  BY <1>1 DEF Query, Good, Refused, Sessions
<1>2. CASE srv.status = "idle"
  BY <1>2 DEF Query, Good, Refused, Sessions
<1>3. CASE srv.status \notin {"intrans", "idle"}
  BY <1>3 DEF Query, Good, Refused, Sessions
<1> QED
  BY <1>1, <1>2, <1>3

\* A transaction that has ended
LEMMA EndedSession ==
    ASSUME NEW srv \in Sessions
    PROVE  LET s == Ended(srv)
           IN  /\ s \in Sessions
               /\ s.status = "idle" /\ s.work = {} /\ s.begun = srv.begun
               /\ s.prepared = srv.prepared /\ s.exists = srv.exists
               /\ s.committed = srv.committed
  BY DEF Ended, Sessions

\* The end of a transaction
LEMMA CommitOutcome ==
    ASSUME NEW srv \in Sessions, NEW o \in Commit(srv)
    PROVE  /\ o.srv \in Sessions
           /\ o.srv.status = "idle" /\ o.srv.work = {}
           /\ o.srv.prepared = srv.prepared /\ o.srv.exists = srv.exists
           /\ o.srv.committed \subseteq srv.committed \cup srv.work
<1> DEFINE s == Ended(srv)
<1>1. o.srv = s \/ o.srv = [s EXCEPT !.committed = @ \cup srv.work]
  BY DEF Commit, Good, Committed
<1>2. srv.work \in SUBSET Writes
  BY DEF Sessions
<1>3. s \in Sessions /\ s.status = "idle" /\ s.work = {} /\ s.prepared = srv.prepared
      /\ s.exists = srv.exists /\ s.committed = srv.committed
  BY EndedSession
<1> HIDE DEF s
<1>4. CASE o.srv = s
  BY <1>3, <1>4
<1>5. CASE o.srv = [s EXCEPT !.committed = @ \cup srv.work]
  BY <1>2, <1>3, <1>5 DEF Sessions
<1> QED
  BY <1>1, <1>4, <1>5

\* How the command that ends a two-phase transaction, or COMMIT or ROLLBACK, turns out
LEMMA EndingOutcome ==
    ASSUME server \in Sessions, WorkOpen,
           NEW a \in {"commit", "rollback"}, NEW o \in Ending(a)
    PROVE  /\ o.srv \in Sessions
           /\ o.srv.status = "idle" /\ o.srv.work = {}
           /\ o.srv.prepared = server.prepared /\ o.srv.exists = server.exists
           /\ o.srv.committed \subseteq server.committed \cup server.work
           /\ a = "rollback" => o.srv.committed = server.committed
<1>1. CASE server.status = "idle"
  BY <1>1 DEF Ending, Good, WorkOpen
<1>2. CASE server.status # "idle" /\ a = "commit"
  <2>1. o \in Commit(server)
    BY <1>2 DEF Ending
  <2> QED
    BY <1>2, <2>1, CommitOutcome
<1>3. CASE server.status # "idle" /\ a = "rollback"
  <2>1. o.srv = Ended(server)
    BY <1>3 DEF Ending, Good
  <2> QED
    BY <2>1, EndedSession
<1> QED
  BY <1>1, <1>2, <1>3

\* PREPARE TRANSACTION
LEMMA PrepareOutcome ==
    ASSUME NEW srv \in Sessions, NEW x \in Xids, NEW o \in PrepareTransaction(srv, x)
    PROVE  /\ o.srv \in Sessions
           /\ o.srv.status = "idle" /\ o.srv.work = {}
           /\ o.srv.committed = srv.committed
           /\ srv.exists \subseteq o.srv.exists
           /\ o.ok /\ srv.status = "intrans" => x \in o.srv.exists
           /\ \A y \in Xids : o.srv.prepared[y] \subseteq srv.prepared[y] \cup srv.work
<1> DEFINE s == Ended(srv)
           t == [s EXCEPT !.prepared[x] = srv.work, !.exists = @ \cup {x}]
<1>1. o.srv = s \/ o.srv = t
  BY DEF PrepareTransaction, Good
<1>2. o.ok /\ srv.status = "intrans" => o.srv = t
  BY DEF PrepareTransaction, Good
<1>3. srv.work \in SUBSET Writes /\ s \in Sessions
  BY EndedSession DEF Sessions
<1>4. s.status = "idle" /\ s.work = {} /\ s.prepared = srv.prepared
      /\ s.exists = srv.exists /\ s.committed = srv.committed
  BY EndedSession
<1> HIDE DEF s
<1>5. /\ t \in Sessions
      /\ t.status = "idle" /\ t.work = {} /\ t.committed = s.committed
      /\ t.exists = s.exists \cup {x}
      /\ t.prepared = [s.prepared EXCEPT ![x] = srv.work]
  BY <1>3, <1>4 DEF Sessions
<1>6. \A y \in Xids : t.prepared[y] \subseteq srv.prepared[y] \cup srv.work
  BY <1>3, <1>4, <1>5 DEF Sessions
<1> HIDE DEF t
<1> QED
  BY <1>1, <1>2, <1>3, <1>4, <1>5, <1>6

\* COMMIT PREPARED and ROLLBACK PREPARED
LEMMA FinishOutcome ==
    ASSUME NEW srv \in Sessions, NEW a \in {"commit", "rollback"},
           NEW x \in Xids, NEW o \in FinishPrepared(srv, a, x)
    PROVE  /\ o.srv \in Sessions
           /\ o.srv.begun = srv.begun /\ o.srv.work = srv.work
           /\ o.srv.status = srv.status \/ (srv.status = "intrans" /\ o.srv.status = "inerror")
           /\ a = "commit" => o.srv.committed \subseteq srv.committed \cup srv.prepared[x]
           /\ a = "rollback" => o.srv.committed = srv.committed
           /\ \A y \in Xids : o.srv.prepared[y] \subseteq srv.prepared[y]
           /\ ~o.ok => o.srv.exists = srv.exists
           /\ ~o.ok => o.srv.committed = srv.committed
<1>1. CASE srv.status = "idle" /\ x \in srv.exists
  <2> DEFINE more == IF a = "commit" THEN srv.prepared[x] ELSE {}
             t == [srv EXCEPT !.exists = @ \ {x}, !.prepared[x] = {},
                              !.committed = @ \cup more]
  <2>1. o = [srv |-> t, ok |-> TRUE]
    BY <1>1 DEF FinishPrepared, Good
  <2>2. more \in SUBSET Writes /\ (a = "rollback" => more = {})
        /\ (a = "commit" => more = srv.prepared[x])
    BY DEF Sessions
  <2> HIDE DEF more
  <2>3. /\ t \in Sessions
        /\ t.begun = srv.begun /\ t.work = srv.work /\ t.status = srv.status
        /\ t.committed = srv.committed \cup more
        /\ t.prepared = [srv.prepared EXCEPT ![x] = {}]
    BY <2>2 DEF Sessions
  <2>4. \A y \in Xids : t.prepared[y] \subseteq srv.prepared[y]
    BY <2>3 DEF Sessions
  <2> HIDE DEF t
  <2> QED
    BY <2>1, <2>2, <2>3, <2>4
<1>2. CASE ~(srv.status = "idle" /\ x \in srv.exists)
  BY <1>2 DEF FinishPrepared, Refused, Sessions
<1> QED
  BY <1>1, <1>2

-----------------------------------------------------------------------------
(* What the parts of the state are *)

\* The fields of the connection, in a state of the types
LEMMA ConnFields ==
    ASSUME ConnTypeOK
    PROVE  /\ conn.autocommit \in BOOLEAN /\ conn.settings \in Settings
           /\ conn.begin \in Settings \cup {NoSettings}
           /\ conn.tpc \in Tpcs /\ conn.num \in {0, 1}
           /\ StartCommand \in Settings
           /\ server \in Sessions
  BY DEF ConnTypeOK, StartCommand

\* A two-phase transaction, or none
LEMMA TpcFields ==
    ASSUME NEW t \in Tpcs
    PROVE  /\ t = NoTpc => t.xid = NoXid /\ ~t.prepared
           /\ t # NoTpc => t.xid \in Xids /\ t.xid # NoXid /\ t.prepared \in BOOLEAN
           /\ \A x \in Xids, p \in BOOLEAN : Tpc(x, p) \in Tpcs /\ Tpc(x, p) # NoTpc
                                           /\ Tpc(x, p).xid = x /\ Tpc(x, p).prepared = p
  BY ConnectionAssumption DEF ConnectionAssumption, Tpcs, NoTpc, Tpc

\* The fields of the server, in a state of the types
LEMMA SessionFields ==
    ASSUME NEW srv \in Sessions
    PROVE  /\ srv.status \in {"idle", "intrans", "inerror", "lost"}
           /\ srv.begun \in Settings \cup {NoSettings}
           /\ srv.work \in SUBSET Writes /\ srv.committed \in SUBSET Writes
           /\ srv.prepared \in [Xids -> SUBSET Writes] /\ srv.exists \in SUBSET Xids
  BY DEF Sessions

\* The fields of the history, in a state of the types
LEMMA PastFields ==
    ASSUME ConnTypeOK
    PROVE  /\ past.writes \in 0 .. MaxWrites
           /\ past.origin \in [Writes -> Xids \cup {NoXid}]
           /\ past.asked \in SUBSET Writes /\ past.doubtful \in BOOLEAN
           /\ past.between \in SUBSET Writes /\ past.undone \in SUBSET Writes
  BY DEF ConnTypeOK

-----------------------------------------------------------------------------
(* The invariant is inductive *)

\* The first state
LEMMA ConnInitIInv == ConnInit => ConnIInv
<1> SUFFICES ASSUME ConnInit PROVE ConnIInv
  OBVIOUS
<1>1. (CHOOSE s \in Settings : TRUE) \in Settings
  BY ConnectionAssumption DEF ConnectionAssumption
<1>2. NoTpc \in Tpcs /\ NoTpc.xid = NoXid /\ NoTpc.prepared = FALSE
  BY DEF Tpcs, NoTpc
<1>3. server \in Sessions
  BY DEF ConnInit, Sessions
<1>4. ConnTypeOK
  BY <1>1, <1>2, <1>3, ConnectionAssumption DEF ConnInit, ConnTypeOK, NewConn, ConnectionAssumption
<1>5. conn.begin = NoSettings /\ conn.tpc = NoTpc /\ conn.num = 0
  BY DEF ConnInit, NewConn
<1>6. server.status = "idle" /\ server.work = {} /\ server.committed = {}
      /\ (\A x \in Xids : server.prepared[x] = {}) /\ past.undone = {}
  BY DEF ConnInit
<1>7. BeginKept /\ BlockKnown /\ WorkOpen /\ WorkNumbered /\ WorkBetween /\ WorkAsked
  BY <1>5, <1>6 DEF ConnInit, BeginKept, BlockKnown, WorkOpen, WorkNumbered, WorkBetween, WorkAsked
<1>8. StartedAsSet /\ CommittedByTpc /\ TpcKnown /\ RecoverHarmless
  BY <1>5, <1>6 DEF StartedAsSet, CommittedByTpc, TpcKnown, RecoverHarmless
<1> QED
  BY <1>4, <1>7, <1>8 DEF ConnIInv

\* The setters, out of a transaction
LEMMA SetterStep ==
    ASSUME ConnIInv,
           (\E v \in BOOLEAN : SetAutocommit(v)) \/ (\E s \in Settings : SetSettings(s))
    PROVE  ConnIInv'
<1>1. ConnTypeOK
  BY DEF ConnIInv
<1>2. server.status = "idle" /\ UNCHANGED <<block, recover, server, past>>
  BY DEF SetAutocommit, SetSettings
<1>3. /\ conn' \in [autocommit : BOOLEAN, settings : Settings,
                    begin : Settings \cup {NoSettings}, tpc : Tpcs, num : {0, 1}]
      /\ conn'.tpc = conn.tpc /\ conn'.num = conn.num
      /\ conn'.begin = NoSettings \/ (conn'.begin = conn.begin /\ conn'.settings = conn.settings)
  BY <1>1, Zenon, Zenon DEF SetAutocommit, SetSettings, ConnTypeOK
<1>4. ConnTypeOK'
  BY <1>1, <1>2, <1>3 DEF ConnTypeOK
<1>5. BeginKept' /\ BlockKnown' /\ StartedAsSet' /\ TpcKnown'
  BY <1>2, <1>3 DEF ConnIInv, BeginKept, BlockKnown, StartedAsSet, TpcKnown, Usable
<1>6. WorkOpen' /\ WorkNumbered' /\ WorkBetween' /\ WorkAsked' /\ CommittedByTpc' /\ RecoverHarmless'
  BY <1>2, <1>3 DEF ConnIInv, WorkOpen, WorkNumbered, WorkBetween, WorkAsked, CommittedByTpc, RecoverHarmless
<1> QED
  BY <1>4, <1>5, <1>6 DEF ConnIInv

\* What a step that leaves all but the session as it is must keep: the
\* transaction may end, or fail, and the connection be lost
LEMMA ConnEndStep ==
    ASSUME ConnIInv, Usable, UNCHANGED <<conn, block, recover, past>>,
           server' \in Sessions,
           server'.prepared = server.prepared, server'.exists = server.exists,
           server'.work = {},
           server'.status = "lost" \/ (server'.status = "idle" /\ block # "outer"
                                        /\ (conn.tpc = NoTpc \/ conn.tpc.prepared)),
           server'.committed \subseteq server.committed \cup server.work,
           server'.committed \subseteq server.committed \/ conn.tpc = NoTpc
    PROVE  ConnIInv'
<1>1. ConnTypeOK /\ ConnTypeOK'
  BY DEF ConnIInv, ConnTypeOK
<1>2. BeginKept' /\ BlockKnown' /\ StartedAsSet' /\ TpcKnown'
  <2>1. NoTpc.prepared = FALSE /\ TpcKnown /\ BeginKept /\ BlockKnown
    BY DEF NoTpc, ConnIInv
  <2>2. TpcKnown'
    BY <2>1 DEF TpcKnown, Usable
  <2>3. BlockKnown'
    BY <2>1 DEF BlockKnown, Usable
  <2> QED
    BY <2>1, <2>2, <2>3 DEF BeginKept, StartedAsSet
<1>3. WorkOpen' /\ WorkNumbered' /\ WorkBetween' /\ WorkAsked' /\ RecoverHarmless'
  BY DEF ConnIInv, WorkOpen, WorkNumbered, WorkBetween, WorkAsked, RecoverHarmless
<1>4. CommittedByTpc'
  BY DEF ConnIInv, WorkAsked, CommittedByTpc
<1> QED
  BY <1>1, <1>2, <1>3, <1>4 DEF ConnIInv

\* commit(), rollback(), the context manager and close()
LEMMA EndingStep ==
    ASSUME ConnIInv,
           \/ \E a \in {"commit", "rollback"} : CommitOrRollback(a)
           \/ \E v \in BOOLEAN : ExitContext(v)
           \/ Close
    PROVE  ConnIInv'
<1>1. /\ server \in Sessions /\ ConnTypeOK /\ WorkOpen /\ BlockKnown
      /\ Usable /\ UNCHANGED <<conn, block, recover, past>>
  BY DEF ConnIInv, ConnTypeOK, CommitOrRollback, ExitContext, Close
<1>2. ASSUME NEW a \in {"commit", "rollback"}, CommitOrRollback(a) PROVE ConnIInv'
  <2>1. Usable /\ conn.num = 0 /\ conn.tpc = NoTpc
    BY <1>1, <1>2, ConnFields DEF CommitOrRollback, EndForbidden
  <2>2. PICK o \in Outcomes(Ending(a)) : server' = o.srv
    BY <1>2 DEF CommitOrRollback
  <2>3. PICK p \in Ending(a) : o = p \/ o = Lost(p.srv)
    BY OneOutcome
  <2>4. /\ p.srv \in Sessions /\ p.srv.status = "idle" /\ p.srv.work = {}
        /\ p.srv.prepared = server.prepared /\ p.srv.exists = server.exists
        /\ p.srv.committed \subseteq server.committed \cup server.work
    BY <1>1, EndingOutcome
  <2>5. block # "outer"
    BY <1>1, <2>1 DEF BlockKnown
  <2>6. CASE o = p
    BY <1>1, <2>1, <2>2, <2>4, <2>5, <2>6, ConnEndStep
  <2>7. CASE o = Lost(p.srv)
    BY <1>1, <2>1, <2>2, <2>4, <2>7, ConnEndStep, LostSession
  <2> QED
    BY <2>3, <2>6, <2>7
<1>3. ASSUME NEW v \in BOOLEAN, ExitContext(v) PROVE ConnIInv'
  <2> DEFINE a == IF v THEN "rollback" ELSE "commit"
  <2>1. a \in {"commit", "rollback"} /\ (v \/ ~EndForbidden) /\ (v => a = "rollback")
    BY <1>3 DEF ExitContext
  <2>2. PICK o \in IF EndForbidden THEN {Good(server)} ELSE Ending(a) :
               server' = IF o.ok \/ v THEN Lost(o.srv).srv ELSE o.srv
    BY <1>3 DEF ExitContext
  <2> HIDE DEF a
  <2>3. CASE EndForbidden
    <3>1. v /\ o = Good(server)
      BY <2>1, <2>2, <2>3
    <3>2. server' = Lost(server).srv
      BY <2>2, <3>1 DEF Good
    <3> QED
      BY <1>1, <3>2, ConnEndStep, LostSession
  <2>4. CASE ~EndForbidden
    <3>1. o \in Ending(a)
      BY <2>2, <2>4
    <3>2. /\ o.srv \in Sessions /\ o.srv.status = "idle" /\ o.srv.work = {}
          /\ o.srv.prepared = server.prepared /\ o.srv.exists = server.exists
          /\ o.srv.committed \subseteq server.committed \cup server.work
      BY <1>1, <2>1, <3>1, EndingOutcome
    <3>3. conn.num = 0 /\ conn.tpc = NoTpc
      BY <1>1, <2>4, ConnFields DEF EndForbidden
    <3>4. block # "outer"
      BY <1>1, <3>3 DEF BlockKnown
    <3>5. CASE o.ok \/ v
      BY <1>1, <2>2, <3>2, <3>3, <3>5, ConnEndStep, LostSession
    <3>6. CASE ~(o.ok \/ v)
      BY <1>1, <2>2, <3>2, <3>3, <3>4, <3>6, ConnEndStep
    <3> QED
      BY <3>5, <3>6
  <2> QED
    BY <2>3, <2>4
<1>4. CASE Close
  <2>1. server' = Lost(server).srv
    BY <1>4 DEF Close
  <2> QED
    BY <1>1, <2>1, ConnEndStep, LostSession
<1> QED
  BY <1>2, <1>3, <1>4

\* execute() of a statement
LEMMA ConnQueryStep == ConnIInv /\ ExecuteQuery => ConnIInv'
<1> SUFFICES ASSUME ConnIInv, ExecuteQuery PROVE ConnIInv'
  OBVIOUS
<1> DEFINE w == past.writes + 1
           next == IF Starts THEN StartCommand ELSE conn.begin
<1>1. /\ ConnTypeOK /\ BeginKept /\ BlockKnown /\ WorkOpen /\ WorkNumbered /\ WorkBetween
      /\ WorkAsked /\ StartedAsSet /\ CommittedByTpc /\ TpcKnown /\ RecoverHarmless
  BY DEF ConnIInv
<1>2. w \in Writes /\ w \in 0 .. MaxWrites /\ past.writes < w
  BY <1>1, PastFields, ConnectionAssumption DEF ExecuteQuery, Writes, ConnectionAssumption
<1>3. StartCommand = conn.settings /\ conn.settings \in Settings /\ server \in Sessions
      /\ conn.begin \in Settings \cup {NoSettings} /\ conn.tpc \in Tpcs
  BY <1>1, ConnFields DEF BeginKept, StartCommand
<1>4. PICK o \in Outcomes(UNION {Query(q.srv, w) : q \in Started}) :
        /\ server' = o.srv
        /\ past' = [past EXCEPT
               !.writes = w,
               !.between = IF recover # "none" THEN @ \cup {w} ELSE @,
               !.origin[w] = IF conn.tpc.prepared THEN NoXid ELSE conn.tpc.xid]
  BY DEF ExecuteQuery
<1>5. PICK p \in UNION {Query(q.srv, w) : q \in Started} : o = p \/ o = Lost(p.srv)
  BY OneOutcome
<1>6. PICK q \in Started : p \in Query(q.srv, w)
  BY <1>5
<1>7. /\ q.srv \in Sessions
      /\ q.srv.work = server.work /\ q.srv.committed = server.committed
      /\ q.srv.prepared = server.prepared /\ q.srv.exists = server.exists
      /\ Starts => q.srv.status = "intrans" /\ q.srv.begun = StartCommand
      /\ ~Starts => q.srv = server
  BY <1>3, StartedOutcome
<1>8. /\ p.srv \in Sessions
      /\ p.srv.begun = q.srv.begun
      /\ p.srv.prepared = server.prepared /\ p.srv.exists = server.exists
      /\ p.srv.status = q.srv.status \/ (q.srv.status = "intrans" /\ p.srv.status = "inerror")
      /\ p.srv.work \subseteq server.work \cup {w}
      /\ p.srv.committed \subseteq server.committed \cup {w}
      /\ q.srv.status = "intrans" \/ p.srv.work = server.work
      /\ q.srv.status = "idle" \/ p.srv.committed = server.committed
  BY <1>2, <1>6, <1>7, QueryOutcome
<1>9. /\ server' \in Sessions
      /\ server'.prepared = server.prepared /\ server'.exists = server.exists
      /\ server'.work \subseteq server.work \cup {w}
      /\ server'.committed \subseteq server.committed \cup {w}
      /\ q.srv.status = "idle" \/ server'.committed = server.committed
      /\ \/ server'.status = "lost" /\ server'.work = {}
         \/ server' = p.srv
  BY <1>4, <1>5, <1>8, LostSession
<1>10. Usable /\ UNCHANGED <<block, recover>> /\ conn' = [conn EXCEPT !.begin = next]
  <2>1. conn = [conn EXCEPT !.begin = conn.begin]
    BY <1>1 DEF ConnTypeOK
  <2> QED
    BY <2>1 DEF ExecuteQuery
<1>11. next \in {NoSettings, conn.settings} /\ next \in Settings \cup {NoSettings}
  BY <1>1, <1>3 DEF BeginKept
<1>12. /\ conn'.begin = next
       /\ conn'.settings = conn.settings /\ conn'.tpc = conn.tpc /\ conn'.num = conn.num
       /\ conn' \in [autocommit : BOOLEAN, settings : Settings,
                     begin : Settings \cup {NoSettings}, tpc : Tpcs, num : {0, 1}]
  BY <1>1, <1>10, <1>11 DEF ConnTypeOK
<1> DEFINE origin == IF conn.tpc.prepared THEN NoXid ELSE conn.tpc.xid
<1>13. origin \in Xids \cup {NoXid}
       /\ (conn.tpc = NoTpc \/ conn.tpc.prepared => origin = NoXid)
  BY <1>3, TpcFields
<1> HIDE DEF next, origin
<1>14. /\ past' \in [writes : 0 .. MaxWrites, origin : [Writes -> Xids \cup {NoXid}],
                     asked : SUBSET Writes, doubtful : BOOLEAN,
                     between : SUBSET Writes, undone : SUBSET Writes]
       /\ past'.writes = w /\ past'.origin = [past.origin EXCEPT ![w] = origin]
       /\ past'.asked = past.asked /\ past'.doubtful = past.doubtful
       /\ past'.undone = past.undone
       /\ past.between \subseteq past'.between
       /\ recover # "none" => w \in past'.between
  <2>1. past' = [past EXCEPT
               !.writes = w,
               !.between = IF recover # "none" THEN @ \cup {w} ELSE @,
               !.origin[w] = origin]
    BY <1>4 DEF origin
  <2> HIDE DEF w
  <2> QED
    BY <1>1, <1>2, <1>13, <2>1 DEF ConnTypeOK
<1>15. past'.origin[w] = origin
       /\ \A v \in Writes : v # w => past'.origin[v] = past.origin[v]
  BY <1>1, <1>2, <1>14, PastFields
<1>16. w \notin server.work /\ w \notin server.committed
  BY <1>1, <1>2, PastFields DEF WorkNumbered
<1>17. ConnTypeOK' /\ BeginKept'
  BY <1>1, <1>9, <1>10, <1>11, <1>12, <1>14 DEF ConnTypeOK, BeginKept
<1>18. BlockKnown' /\ TpcKnown'
  BY <1>1, <1>7, <1>8, <1>9, <1>10, <1>12, <1>14 DEF BlockKnown, TpcKnown, Usable, Starts
<1>19. WorkOpen' /\ WorkBetween' /\ RecoverHarmless'
  BY <1>1, <1>7, <1>8, <1>9, <1>10, <1>14
     DEF WorkOpen, WorkBetween, RecoverHarmless, Starts
<1>20. WorkNumbered'
  <2> HIDE DEF w
  <2>1. SUFFICES ASSUME NEW v \in Writes,
                        v \in server.work \cup server.committed \cup {w}
                            \/ (\E x \in Xids : v \in server.prepared[x])
                 PROVE  v <= w
    BY <1>9, <1>14 DEF WorkNumbered
  <2>2. v = w \/ v <= past.writes
    BY <1>1, <2>1 DEF WorkNumbered
  <2> QED
    BY <1>1, <1>2, <2>2, PastFields DEF Writes
<1>21. WorkAsked'
  <2> HIDE DEF w
  <2> QED
    BY <1>1, <1>9, <1>12, <1>13, <1>14, <1>15, SessionFields DEF WorkAsked
<1>22. StartedAsSet'
  BY <1>1, <1>3, <1>7, <1>8, <1>9, <1>12 DEF StartedAsSet, Starts
<1>23. CommittedByTpc'
  <2> HIDE DEF w
  <2>1. SUFFICES ASSUME NEW v \in server'.committed, past'.origin[v] # NoXid
                 PROVE  v \in past.asked
    BY <1>14 DEF CommittedByTpc
  <2>2. CASE v # w
    BY <1>1, <1>3, <1>9, <1>15, <2>1, <2>2, SessionFields DEF CommittedByTpc
  <2>3. CASE v = w
    <3>1. q.srv.status = "idle"
      BY <1>9, <1>16, <2>1, <2>3
    <3>2. server.status = "idle"
      BY <1>7, <3>1
    <3>3. conn.tpc = NoTpc \/ conn.tpc.prepared
      BY <1>1, <3>2 DEF TpcKnown, Usable
    <3> QED
      BY <1>13, <1>15, <2>1, <2>3, <3>3
  <2> QED
    BY <2>2, <2>3
<1> QED
  BY <1>17, <1>18, <1>19, <1>20, <1>21, <1>22, <1>23 DEF ConnIInv

\* The transaction() block
LEMMA EnterStep == ConnIInv /\ EnterBlock => ConnIInv'
<1> SUFFICES ASSUME ConnIInv, EnterBlock PROVE ConnIInv'
  OBVIOUS
<1>1. /\ ConnTypeOK /\ BeginKept /\ BlockKnown /\ WorkOpen /\ WorkNumbered /\ WorkBetween
      /\ WorkAsked /\ StartedAsSet /\ CommittedByTpc /\ TpcKnown /\ RecoverHarmless
      /\ server \in Sessions /\ StartCommand \in Settings /\ StartCommand = conn.settings
  BY ConnFields DEF ConnIInv, BeginKept, StartCommand
<1>2. UNCHANGED <<recover, past>> /\ Usable
  BY DEF EnterBlock
<1>3. /\ conn' \in [autocommit : BOOLEAN, settings : Settings,
                    begin : Settings \cup {NoSettings}, tpc : Tpcs, num : {0, 1}]
      /\ conn'.settings = conn.settings /\ conn'.tpc = conn.tpc /\ conn'.num = 1
      /\ conn'.begin \in {NoSettings, conn.settings}
  BY <1>1 DEF EnterBlock, ConnTypeOK, BeginKept
<1>4. /\ server' \in Sessions /\ server'.status = "intrans"
      /\ server'.work = server.work /\ server'.committed = server.committed
      /\ server'.prepared = server.prepared /\ server'.exists = server.exists
      /\ server'.begun = conn.settings
      /\ block' = "outer" => server.status = "idle"
      /\ block' \in {"outer", "inner"}
  BY <1>1 DEF EnterBlock, Sessions, StartedAsSet
<1>5. ConnTypeOK' /\ BeginKept' /\ StartedAsSet'
  BY <1>1, <1>2, <1>3, <1>4 DEF ConnTypeOK, BeginKept, StartedAsSet
<1>6. BlockKnown' /\ TpcKnown'
  BY <1>1, <1>2, <1>3, <1>4 DEF BlockKnown, TpcKnown, Usable
<1>7. WorkOpen' /\ WorkNumbered' /\ WorkBetween' /\ WorkAsked' /\ CommittedByTpc' /\ RecoverHarmless'
  BY <1>1, <1>2, <1>3, <1>4
     DEF WorkOpen, WorkNumbered, WorkBetween, WorkAsked, CommittedByTpc, RecoverHarmless
<1> QED
  BY <1>5, <1>6, <1>7 DEF ConnIInv

\* Leaving the context of the connection: COMMIT or ROLLBACK, then close()
LEMMA ExitStep == ConnIInv /\ ExitBlock => ConnIInv'
<1> SUFFICES ASSUME ConnIInv, ExitBlock PROVE ConnIInv'
  OBVIOUS
<1>1. /\ ConnTypeOK /\ BeginKept /\ BlockKnown /\ WorkOpen /\ WorkNumbered /\ WorkBetween
      /\ WorkAsked /\ StartedAsSet /\ CommittedByTpc /\ TpcKnown /\ RecoverHarmless
      /\ server \in Sessions
  BY ConnFields DEF ConnIInv
<1>2. UNCHANGED <<recover, past>> /\ Usable /\ block' = "none"
  BY DEF ExitBlock
<1>3. /\ conn' \in [autocommit : BOOLEAN, settings : Settings,
                    begin : Settings \cup {NoSettings}, tpc : Tpcs, num : {0, 1}]
      /\ conn'.settings = conn.settings /\ conn'.tpc = conn.tpc /\ conn'.num = 0
      /\ conn'.begin = conn.begin
  BY <1>1 DEF ExitBlock, ConnTypeOK
<1>4. /\ server' \in Sessions
      /\ server'.prepared = server.prepared /\ server'.exists = server.exists
      /\ \/ /\ server'.status = "idle" /\ server'.work = {}
            /\ server'.committed \subseteq server.committed \cup server.work
            /\ conn.tpc = NoTpc \/ conn.tpc.prepared
         \/ /\ server'.work = server.work /\ server'.committed = server.committed
            /\ server'.begun = server.begun
            /\ server'.status = server.status
               \/ (server.status = "intrans" /\ server'.status = "inerror")
  <2>1. CASE block = "outer"
    <3>1. PICK o \in Commit(server) : server' = o.srv
      BY <2>1 DEF ExitBlock
    <3> QED
      BY <1>1, <1>2, <2>1, <3>1, CommitOutcome DEF BlockKnown
  <2>2. CASE block # "outer"
    <3>1. server' = server \/ server' = Refused(server).srv
      BY <2>2 DEF ExitBlock, Good
    <3> QED
      BY <1>1, <3>1 DEF Refused, Sessions
  <2> QED
    BY <2>1, <2>2
<1>5. ConnTypeOK' /\ BeginKept' /\ StartedAsSet' /\ BlockKnown'
  BY <1>1, <1>2, <1>3, <1>4 DEF ConnTypeOK, BeginKept, StartedAsSet, BlockKnown
<1>6. TpcKnown'
  <2>1. NoTpc.prepared = FALSE
    BY DEF NoTpc
  <2> QED
    BY <1>1, <1>2, <1>3, <1>4, <2>1 DEF TpcKnown, Usable
<1>7. WorkOpen' /\ WorkNumbered' /\ WorkBetween' /\ WorkAsked' /\ RecoverHarmless'
  BY <1>1, <1>2, <1>3, <1>4
     DEF WorkOpen, WorkNumbered, WorkBetween, WorkAsked, RecoverHarmless
<1>8. CommittedByTpc'
  BY <1>1, <1>2, <1>4 DEF CommittedByTpc, WorkAsked
<1> QED
  BY <1>5, <1>6, <1>7, <1>8 DEF ConnIInv

\* Another connection
LEMMA ReconnectStep == ConnIInv /\ Reconnect => ConnIInv'
<1> SUFFICES ASSUME ConnIInv, Reconnect PROVE ConnIInv'
  OBVIOUS
<1>1. /\ ConnTypeOK /\ WorkNumbered /\ CommittedByTpc /\ RecoverHarmless /\ server \in Sessions
  BY ConnFields DEF ConnIInv
<1>2. UNCHANGED past /\ block' = "none" /\ recover' = "none"
  BY DEF Reconnect
<1>3. /\ conn' \in [autocommit : BOOLEAN, settings : Settings,
                    begin : Settings \cup {NoSettings}, tpc : Tpcs, num : {0, 1}]
      /\ conn'.begin = NoSettings /\ conn'.tpc = NoTpc /\ conn'.num = 0
  <2>1. (CHOOSE s \in Settings : TRUE) \in Settings
    BY ConnectionAssumption DEF ConnectionAssumption
  <2>2. NoTpc \in Tpcs
    BY DEF Tpcs
  <2> QED
    BY <2>1, <2>2 DEF Reconnect, NewConn
<1>4. /\ server' \in Sessions
      /\ server'.status = "idle" /\ server'.work = {}
      /\ server'.committed = server.committed
      /\ server'.prepared = server.prepared /\ server'.exists = server.exists
  BY <1>1 DEF Reconnect, NewSession, Sessions
<1>5. ConnTypeOK' /\ BeginKept' /\ StartedAsSet' /\ BlockKnown' /\ TpcKnown'
  BY <1>1, <1>2, <1>3, <1>4 DEF ConnTypeOK, BeginKept, StartedAsSet, BlockKnown, TpcKnown
<1>6. WorkOpen' /\ WorkNumbered' /\ WorkBetween' /\ WorkAsked' /\ CommittedByTpc' /\ RecoverHarmless'
  BY <1>1, <1>2, <1>4
     DEF WorkOpen, WorkNumbered, WorkBetween, WorkAsked, CommittedByTpc, RecoverHarmless
<1> QED
  BY <1>5, <1>6 DEF ConnIInv

-----------------------------------------------------------------------------
(* tpc_recover() *)

\* The call, and the query that fails
LEMMA RecoverCallStep == ConnIInv /\ (RecoverCall \/ RecoverFailed) => ConnIInv'
<1> SUFFICES ASSUME ConnIInv, RecoverCall \/ RecoverFailed PROVE ConnIInv'
  OBVIOUS
<1>1. UNCHANGED <<conn, block, server, past>>
  BY DEF RecoverCall, RecoverFailed
<1>2. recover' \in {"none", "idle", "other"}
      /\ (recover' \in {"idle", "rollback"} => server.status = "idle")
  BY DEF RecoverCall, RecoverFailed
<1>3. ConnTypeOK' /\ BeginKept' /\ BlockKnown' /\ StartedAsSet' /\ TpcKnown'
  BY <1>1, <1>2 DEF ConnIInv, ConnTypeOK, BeginKept, BlockKnown, StartedAsSet, TpcKnown, Usable
<1>4. WorkOpen' /\ WorkNumbered' /\ WorkBetween' /\ WorkAsked' /\ CommittedByTpc' /\ RecoverHarmless'
  BY <1>1, <1>2
     DEF ConnIInv, WorkOpen, WorkNumbered, WorkBetween, WorkAsked, CommittedByTpc, RecoverHarmless
<1> QED
  BY <1>3, <1>4 DEF ConnIInv

\* The query that starts a transaction, if there is none
LEMMA RecoverQueryStep == ConnIInv /\ RecoverQuery => ConnIInv'
<1> SUFFICES ASSUME ConnIInv, RecoverQuery PROVE ConnIInv'
  OBVIOUS
<1>1. /\ ConnTypeOK /\ BeginKept /\ BlockKnown /\ WorkOpen /\ WorkNumbered /\ WorkBetween
      /\ WorkAsked /\ StartedAsSet /\ CommittedByTpc /\ TpcKnown /\ RecoverHarmless
  BY DEF ConnIInv
<1>2. StartCommand = conn.settings /\ conn.settings \in Settings /\ server \in Sessions
      /\ conn.begin \in Settings \cup {NoSettings}
  BY <1>1, ConnFields DEF BeginKept, StartCommand
<1>3. UNCHANGED <<block, past>> /\ Usable
      /\ recover' \in {"none", "rollback"} /\ (recover' = "rollback" => recover = "idle")
  BY DEF RecoverQuery
<1>4. PICK o \in Started : server' = o.srv
  BY DEF RecoverQuery
<1>5. /\ server' \in Sessions
      /\ server'.work = server.work /\ server'.committed = server.committed
      /\ server'.prepared = server.prepared /\ server'.exists = server.exists
      /\ Starts => server'.status = "intrans" /\ server'.begun = StartCommand
      /\ ~Starts => server' = server
  BY <1>2, <1>4, StartedOutcome
<1>6. /\ conn' \in [autocommit : BOOLEAN, settings : Settings,
                    begin : Settings \cup {NoSettings}, tpc : Tpcs, num : {0, 1}]
      /\ conn'.settings = conn.settings /\ conn'.tpc = conn.tpc /\ conn'.num = conn.num
      /\ conn'.begin \in {NoSettings, conn.settings}
  BY <1>1, <1>2 DEF RecoverQuery, ConnTypeOK, BeginKept
<1>7. ConnTypeOK' /\ BeginKept' /\ StartedAsSet'
  BY <1>1, <1>2, <1>3, <1>5, <1>6 DEF ConnTypeOK, BeginKept, StartedAsSet
<1>8. BlockKnown' /\ TpcKnown'
  BY <1>1, <1>3, <1>5, <1>6 DEF BlockKnown, TpcKnown, Usable, Starts
<1>9. WorkOpen' /\ WorkNumbered' /\ WorkBetween' /\ WorkAsked' /\ CommittedByTpc' /\ RecoverHarmless'
  BY <1>1, <1>3, <1>5, <1>6
     DEF WorkOpen, WorkNumbered, WorkBetween, WorkAsked, CommittedByTpc, RecoverHarmless, Starts
<1> QED
  BY <1>7, <1>8, <1>9 DEF ConnIInv

\* The rollback
LEMMA RecoverRollbackStep == ConnIInv /\ RecoverRollback => ConnIInv'
<1> SUFFICES ASSUME ConnIInv, RecoverRollback PROVE ConnIInv'
  OBVIOUS
<1>1. /\ ConnTypeOK /\ BeginKept /\ BlockKnown /\ WorkOpen /\ WorkNumbered /\ WorkBetween
      /\ WorkAsked /\ StartedAsSet /\ CommittedByTpc /\ TpcKnown /\ RecoverHarmless
      /\ server \in Sessions /\ conn.num \in {0, 1}
  BY ConnFields DEF ConnIInv
<1>2. UNCHANGED <<conn, block>> /\ Usable /\ recover = "rollback" /\ recover' = "none"
  BY DEF RecoverRollback
<1>3. \/ server' = server
      \/ server' = Ended(server) /\ conn.num = 0 /\ conn.tpc = NoTpc
  BY <1>1 DEF RecoverRollback, EndForbidden
<1>4. /\ server' \in Sessions
      /\ server'.committed = server.committed
      /\ server'.prepared = server.prepared /\ server'.exists = server.exists
      /\ \/ server' = server
         \/ /\ server'.status = "idle" /\ server'.work = {}
            /\ conn.num = 0 /\ conn.tpc = NoTpc
  BY <1>1, <1>3, EndedSession
<1>5. server.work \subseteq past.between /\ server.work \subseteq Writes
  BY <1>1, <1>2, SessionFields DEF WorkBetween
<1>6. /\ past' \in [writes : 0 .. MaxWrites, origin : [Writes -> Xids \cup {NoXid}],
                    asked : SUBSET Writes, doubtful : BOOLEAN,
                    between : SUBSET Writes, undone : SUBSET Writes]
      /\ past'.writes = past.writes /\ past'.origin = past.origin
      /\ past'.asked = past.asked /\ past'.doubtful = past.doubtful
      /\ past'.between = past.between
      /\ past'.undone \subseteq past.undone \cup server.work
  BY <1>1, <1>5 DEF RecoverRollback, ConnTypeOK
<1>7. ConnTypeOK' /\ BeginKept' /\ StartedAsSet' /\ BlockKnown' /\ TpcKnown'
  BY <1>1, <1>2, <1>4, <1>6 DEF ConnTypeOK, BeginKept, StartedAsSet, BlockKnown, TpcKnown, Usable
<1>8. WorkOpen' /\ WorkNumbered' /\ WorkBetween' /\ WorkAsked' /\ CommittedByTpc' /\ RecoverHarmless'
  BY <1>1, <1>2, <1>4, <1>5, <1>6
     DEF WorkOpen, WorkNumbered, WorkBetween, WorkAsked, CommittedByTpc, RecoverHarmless
<1> QED
  BY <1>7, <1>8 DEF ConnIInv

-----------------------------------------------------------------------------
(* Two-phase commit *)

\* tpc_begin()
LEMMA TpcBeginStep == \A x \in Xids : ConnIInv /\ TpcBegin(x) => ConnIInv'
<1> SUFFICES ASSUME NEW x \in Xids, ConnIInv, TpcBegin(x) PROVE ConnIInv'
  OBVIOUS
<1>1. /\ ConnTypeOK /\ BeginKept /\ BlockKnown /\ WorkOpen /\ WorkNumbered /\ WorkBetween
      /\ WorkAsked /\ StartedAsSet /\ CommittedByTpc /\ TpcKnown /\ RecoverHarmless
      /\ server \in Sessions /\ StartCommand \in Settings /\ StartCommand = conn.settings
  BY ConnFields DEF ConnIInv, BeginKept, StartCommand
<1>2. UNCHANGED <<block, recover>> /\ server.status = "idle"
  BY DEF TpcBegin
<1>3. Tpc(x, FALSE) \in Tpcs /\ Tpc(x, FALSE) # NoTpc /\ Tpc(x, FALSE).prepared = FALSE
  BY TpcFields DEF Tpcs
<1>4. /\ conn' \in [autocommit : BOOLEAN, settings : Settings,
                    begin : Settings \cup {NoSettings}, tpc : Tpcs, num : {0, 1}]
      /\ conn'.settings = conn.settings /\ conn'.num = conn.num
      /\ conn'.tpc = Tpc(x, FALSE) /\ conn'.begin = conn.settings
  BY <1>1, <1>3 DEF TpcBegin, ConnTypeOK
<1>5. PICK o \in Outcomes(Begin(server, StartCommand)) : server' = o.srv
  BY DEF TpcBegin
<1>6. PICK p \in Begin(server, StartCommand) : o = p \/ o = Lost(p.srv)
  BY OneOutcome
<1>7. /\ p.srv \in Sessions
      /\ p.srv.status = "intrans" /\ p.srv.begun = conn.settings
      /\ p.srv.work = server.work /\ p.srv.committed = server.committed
      /\ p.srv.prepared = server.prepared /\ p.srv.exists = server.exists
  <2>1. p.srv = [server EXCEPT !.status = "intrans", !.begun = StartCommand]
    BY DEF Begin, Good
  <2> QED
    BY <1>1, <2>1 DEF Sessions
<1>8. /\ server' \in Sessions
      /\ server'.status \in {"intrans", "lost"} /\ server'.begun = conn.settings
      /\ server'.work = {} /\ server'.committed = server.committed
      /\ server'.prepared = server.prepared /\ server'.exists = server.exists
  BY <1>1, <1>2, <1>5, <1>6, <1>7, LostSession DEF WorkOpen
<1>9. /\ past' \in [writes : 0 .. MaxWrites, origin : [Writes -> Xids \cup {NoXid}],
                    asked : SUBSET Writes, doubtful : BOOLEAN,
                    between : SUBSET Writes, undone : SUBSET Writes]
      /\ past'.writes = past.writes /\ past'.origin = past.origin
      /\ past'.asked = past.asked /\ past'.between = past.between /\ past'.undone = past.undone
  BY <1>1 DEF TpcBegin, ConnTypeOK
<1>10. ConnTypeOK' /\ BeginKept' /\ StartedAsSet'
  BY <1>1, <1>2, <1>4, <1>8, <1>9 DEF ConnTypeOK, BeginKept, StartedAsSet
<1>11. BlockKnown' /\ TpcKnown'
  BY <1>1, <1>2, <1>3, <1>4, <1>8, <1>9 DEF BlockKnown, TpcKnown, Usable
<1>12. WorkOpen' /\ WorkNumbered' /\ WorkBetween' /\ WorkAsked' /\ CommittedByTpc' /\ RecoverHarmless'
  BY <1>1, <1>2, <1>8, <1>9
     DEF WorkOpen, WorkNumbered, WorkBetween, WorkAsked, CommittedByTpc, RecoverHarmless
<1> QED
  BY <1>10, <1>11, <1>12 DEF ConnIInv

\* tpc_prepare()
LEMMA TpcPrepareStep == ConnIInv /\ TpcPrepare => ConnIInv'
<1> SUFFICES ASSUME ConnIInv, TpcPrepare PROVE ConnIInv'
  OBVIOUS
<1> DEFINE x == conn.tpc.xid
<1>1. /\ ConnTypeOK /\ BeginKept /\ BlockKnown /\ WorkOpen /\ WorkNumbered /\ WorkBetween
      /\ WorkAsked /\ StartedAsSet /\ CommittedByTpc /\ TpcKnown /\ RecoverHarmless
      /\ server \in Sessions /\ conn.tpc \in Tpcs
  BY ConnFields DEF ConnIInv
<1>2. UNCHANGED <<block, recover>> /\ conn.tpc # NoTpc /\ ~conn.tpc.prepared /\ x \in Xids
      /\ Usable
  BY <1>1, TpcFields DEF TpcPrepare
<1>3. Tpc(x, TRUE) \in Tpcs /\ Tpc(x, TRUE).xid = x /\ Tpc(x, TRUE).prepared = TRUE
  BY <1>1, <1>2, TpcFields
<1>4. /\ conn' \in [autocommit : BOOLEAN, settings : Settings,
                    begin : Settings \cup {NoSettings}, tpc : Tpcs, num : {0, 1}]
      /\ conn'.settings = conn.settings /\ conn'.num = conn.num
      /\ conn'.tpc = Tpc(x, TRUE) /\ conn'.begin = conn.begin
  BY <1>1, <1>3 DEF TpcPrepare, ConnTypeOK
<1>5. PICK o \in Outcomes(PrepareTransaction(server, x)) :
         /\ server' = o.srv
         /\ past' = [past EXCEPT !.doubtful = ~o.ok \/ server.status # "intrans"]
  BY DEF TpcPrepare
<1>6. PICK p \in PrepareTransaction(server, x) : o = p \/ o = Lost(p.srv)
  BY OneOutcome
<1>7. /\ p.srv \in Sessions
      /\ p.srv.status = "idle" /\ p.srv.work = {}
      /\ p.srv.committed = server.committed
      /\ p.ok /\ server.status = "intrans" => x \in p.srv.exists
      /\ \A y \in Xids : p.srv.prepared[y] \subseteq server.prepared[y] \cup server.work
  BY <1>1, <1>2, PrepareOutcome
<1>8. /\ server' \in Sessions
      /\ server'.status \in {"idle", "lost"} /\ server'.work = {}
      /\ server'.committed = server.committed
      /\ o.ok /\ server.status = "intrans" => x \in server'.exists
      /\ \A y \in Xids : server'.prepared[y] \subseteq server.prepared[y] \cup server.work
  BY <1>5, <1>6, <1>7, LostSession
<1> HIDE DEF x
<1>9. /\ past'.writes = past.writes /\ past'.origin = past.origin
      /\ past'.asked = past.asked /\ past'.between = past.between /\ past'.undone = past.undone
      /\ past'.doubtful = (~o.ok \/ server.status # "intrans")
  BY <1>1, <1>5 DEF ConnTypeOK
<1>10. past' \in [writes : 0 .. MaxWrites, origin : [Writes -> Xids \cup {NoXid}],
                  asked : SUBSET Writes, doubtful : BOOLEAN,
                  between : SUBSET Writes, undone : SUBSET Writes]
  <2> DEFINE d == ~o.ok \/ server.status # "intrans"
  <2>1. d \in BOOLEAN
    OBVIOUS
  <2>2. past' = [past EXCEPT !.doubtful = d]
    BY <1>5
  <2> HIDE DEF d
  <2> QED
    BY <1>1, <2>1, <2>2 DEF ConnTypeOK
<1>11. ConnTypeOK' /\ BeginKept' /\ StartedAsSet'
  BY <1>1, <1>2, <1>4, <1>8, <1>10 DEF ConnTypeOK, BeginKept, StartedAsSet
<1>12. BlockKnown'
  BY <1>1, <1>2, <1>3, <1>4, <1>8 DEF BlockKnown, TpcKnown, Usable
<1>13. TpcKnown'
  BY <1>3, <1>4, <1>8, <1>9, Zenon, Zenon DEF TpcKnown
<1>14. WorkNumbered'
  BY <1>1, <1>8, <1>9 DEF WorkNumbered
<1>15. WorkOpen' /\ WorkBetween' /\ WorkAsked' /\ CommittedByTpc' /\ RecoverHarmless'
  BY <1>1, <1>2, <1>8, <1>9 DEF WorkOpen, WorkBetween, WorkAsked, CommittedByTpc, RecoverHarmless
<1> QED
  BY <1>11, <1>12, <1>13, <1>14, <1>15 DEF ConnIInv

\* tpc_commit() and tpc_rollback() of a transaction that is not prepared
LEMMA TpcOnePhaseStep == \A a \in {"commit", "rollback"} : ConnIInv /\ TpcFinishOnePhase(a) => ConnIInv'
<1> SUFFICES ASSUME NEW a \in {"commit", "rollback"}, ConnIInv, TpcFinishOnePhase(a) PROVE ConnIInv'
  OBVIOUS
<1> DEFINE outs == IF conn.num > 0 THEN {[srv |-> server, ok |-> FALSE]} ELSE Ending(a)
           more == IF a = "commit" \/ conn.num > 0 THEN server.work ELSE {}
<1>1. /\ ConnTypeOK /\ BeginKept /\ BlockKnown /\ WorkOpen /\ WorkNumbered /\ WorkBetween
      /\ WorkAsked /\ StartedAsSet /\ CommittedByTpc /\ TpcKnown /\ RecoverHarmless
      /\ server \in Sessions /\ conn.tpc \in Tpcs /\ conn.num \in {0, 1}
  BY ConnFields DEF ConnIInv
<1>2. UNCHANGED <<block, recover>> /\ conn.tpc # NoTpc /\ ~conn.tpc.prepared /\ Usable
  BY DEF TpcFinishOnePhase
<1>3. block # "outer"
  BY <1>1, <1>2 DEF BlockKnown
<1>4. /\ conn' \in [autocommit : BOOLEAN, settings : Settings,
                    begin : Settings \cup {NoSettings}, tpc : Tpcs, num : {0, 1}]
      /\ conn'.settings = conn.settings /\ conn'.num = conn.num
      /\ conn'.tpc = NoTpc /\ conn'.begin = conn.begin
  <2>1. NoTpc \in Tpcs
    BY DEF Tpcs
  <2> QED
    BY <1>1, <2>1 DEF TpcFinishOnePhase, ConnTypeOK
<1>5. PICK o \in Outcomes(outs) : server' = o.srv
  BY DEF TpcFinishOnePhase
<1>6. PICK p \in outs : o = p \/ o = Lost(p.srv)
  BY OneOutcome
<1>7. more \in SUBSET server.work /\ server.work \in SUBSET Writes
  BY <1>1, SessionFields
<1>8. /\ p.srv \in Sessions
      /\ p.srv.prepared = server.prepared /\ p.srv.exists = server.exists
      /\ p.srv.committed \subseteq server.committed \cup more
      /\ \/ p.srv.status = "idle" /\ p.srv.work = {}
         \/ p.srv = server /\ more = server.work
  <2>1. CASE conn.num > 0
    BY <1>1, <2>1
  <2>2. CASE ~(conn.num > 0)
    BY <1>1, <2>2, EndingOutcome
  <2> QED
    BY <2>1, <2>2
<1>9. /\ server' \in Sessions
      /\ server'.prepared = server.prepared /\ server'.exists = server.exists
      /\ server'.committed \subseteq server.committed \cup more
      /\ \/ server'.status \in {"idle", "lost"} /\ server'.work = {}
         \/ server' = server /\ more = server.work
  BY <1>5, <1>6, <1>8, LostSession
<1>10. past' = [past EXCEPT !.asked = @ \cup more]
  <2>1. past = [past EXCEPT !.asked = past.asked]
    BY <1>1 DEF ConnTypeOK
  <2> QED
    BY <1>1, <2>1, PastFields DEF TpcFinishOnePhase
<1> HIDE DEF more, outs
<1>11. /\ past' \in [writes : 0 .. MaxWrites, origin : [Writes -> Xids \cup {NoXid}],
                     asked : SUBSET Writes, doubtful : BOOLEAN,
                     between : SUBSET Writes, undone : SUBSET Writes]
       /\ past'.writes = past.writes /\ past'.origin = past.origin
       /\ past'.asked = past.asked \cup more
       /\ past'.between = past.between /\ past'.undone = past.undone
  BY <1>1, <1>7, <1>10 DEF ConnTypeOK
<1>12. ConnTypeOK' /\ BeginKept' /\ StartedAsSet'
  BY <1>1, <1>2, <1>4, <1>9, <1>11 DEF ConnTypeOK, BeginKept, StartedAsSet
<1>13. BlockKnown' /\ TpcKnown'
  BY <1>1, <1>2, <1>3, <1>4 DEF BlockKnown, TpcKnown
<1>14. WorkOpen' /\ WorkNumbered' /\ WorkBetween' /\ RecoverHarmless'
  BY <1>1, <1>2, <1>7, <1>9, <1>11 DEF WorkOpen, WorkNumbered, WorkBetween, RecoverHarmless
<1>15. WorkAsked' /\ CommittedByTpc'
  BY <1>1, <1>2, <1>7, <1>9, <1>11 DEF WorkAsked, CommittedByTpc
<1> QED
  BY <1>12, <1>13, <1>14, <1>15 DEF ConnIInv

\* tpc_commit() and tpc_rollback() of a prepared transaction
LEMMA TpcPreparedStep ==
    \A a \in {"commit", "rollback"}, xid \in Xids \cup {NoXid} :
        ConnIInv /\ TpcFinishPrepared(a, xid) => ConnIInv'
<1> SUFFICES ASSUME NEW a \in {"commit", "rollback"}, NEW xid \in Xids \cup {NoXid},
                    ConnIInv, TpcFinishPrepared(a, xid)
             PROVE  ConnIInv'
  OBVIOUS
<1> DEFINE x == IF xid = NoXid THEN conn.tpc.xid ELSE xid
           more == IF a = "commit" THEN server.prepared[x] ELSE {}
<1>1. /\ ConnTypeOK /\ BeginKept /\ BlockKnown /\ WorkOpen /\ WorkNumbered /\ WorkBetween
      /\ WorkAsked /\ StartedAsSet /\ CommittedByTpc /\ TpcKnown /\ RecoverHarmless
      /\ server \in Sessions /\ conn.tpc \in Tpcs
  BY ConnFields DEF ConnIInv
<1>2. UNCHANGED <<block, recover>> /\ Usable /\ (conn.tpc = NoTpc \/ conn.tpc.prepared)
  BY DEF TpcFinishPrepared
<1>3. x \in Xids
  BY <1>1, TpcFields DEF TpcFinishPrepared
<1>4. PICK o \in Outcomes(FinishPrepared(server, a, x)) :
         /\ server' = o.srv
         /\ conn' = IF o.ok THEN [conn EXCEPT !.tpc = NoTpc] ELSE conn
  BY DEF TpcFinishPrepared
<1>5. PICK p \in FinishPrepared(server, a, x) : o = p \/ o = Lost(p.srv)
  BY OneOutcome
<1>6. past' = [past EXCEPT !.asked = @ \cup more]
  <2>1. past = [past EXCEPT !.asked = past.asked]
    BY <1>1 DEF ConnTypeOK
  <2> QED
    BY <1>1, <2>1, PastFields DEF TpcFinishPrepared
<1> HIDE DEF x
<1>7. more \in SUBSET Writes /\ more \subseteq server.prepared[x]
      /\ (a = "commit" => more = server.prepared[x])
  BY <1>1, <1>3, SessionFields
<1>8. /\ p.srv \in Sessions
      /\ p.srv.begun = server.begun /\ p.srv.work = server.work
      /\ p.srv.status = server.status \/ (server.status = "intrans" /\ p.srv.status = "inerror")
      /\ p.srv.committed \subseteq server.committed \cup more
      /\ \A y \in Xids : p.srv.prepared[y] \subseteq server.prepared[y]
      /\ ~p.ok => p.srv.exists = server.exists
  BY <1>1, <1>3, <1>7, FinishOutcome
<1> HIDE DEF more
<1>9. /\ server' \in Sessions
      /\ server'.committed \subseteq server.committed \cup more
      /\ \A y \in Xids : server'.prepared[y] \subseteq server.prepared[y]
      /\ \/ server'.status = "lost" /\ server'.work = {}
         \/ /\ server'.begun = server.begun /\ server'.work = server.work
            /\ server'.status = server.status
               \/ (server.status = "intrans" /\ server'.status = "inerror")
            /\ ~o.ok => server'.exists = server.exists
  BY <1>4, <1>5, <1>8, LostSession
<1>10. /\ conn' \in [autocommit : BOOLEAN, settings : Settings,
                     begin : Settings \cup {NoSettings}, tpc : Tpcs, num : {0, 1}]
       /\ conn'.settings = conn.settings /\ conn'.num = conn.num /\ conn'.begin = conn.begin
       /\ \/ conn'.tpc = NoTpc
          \/ conn'.tpc = conn.tpc /\ ~o.ok
  <2>1. NoTpc \in Tpcs
    BY DEF Tpcs
  <2> QED
    BY <1>1, <1>4, <2>1 DEF ConnTypeOK
<1>11. /\ past' \in [writes : 0 .. MaxWrites, origin : [Writes -> Xids \cup {NoXid}],
                     asked : SUBSET Writes, doubtful : BOOLEAN,
                     between : SUBSET Writes, undone : SUBSET Writes]
       /\ past'.writes = past.writes /\ past'.origin = past.origin
       /\ past'.asked = past.asked \cup more /\ past'.doubtful = past.doubtful
       /\ past'.between = past.between /\ past'.undone = past.undone
  BY <1>1, <1>6, <1>7 DEF ConnTypeOK
<1>12. ConnTypeOK' /\ BeginKept' /\ StartedAsSet'
  BY <1>1, <1>2, <1>9, <1>10, <1>11 DEF ConnTypeOK, BeginKept, StartedAsSet
<1>13. BlockKnown' /\ TpcKnown'
  BY <1>1, <1>2, <1>9, <1>10, <1>11 DEF BlockKnown, TpcKnown, Usable
<1>14. WorkNumbered'
  <2>1. \A v \in more : v \in server.prepared[x]
    BY <1>7
  <2> QED
    BY <1>1, <1>3, <1>9, <1>11, <2>1 DEF WorkNumbered
<1>15. WorkOpen' /\ WorkBetween' /\ RecoverHarmless'
  BY <1>1, <1>2, <1>9, <1>11 DEF WorkOpen, WorkBetween, RecoverHarmless
<1>16. WorkAsked' /\ CommittedByTpc'
  BY <1>1, <1>2, <1>9, <1>11 DEF WorkAsked, CommittedByTpc
<1> QED
  BY <1>12, <1>13, <1>14, <1>15, <1>16 DEF ConnIInv

\* Another session ends a prepared transaction
LEMMA OthersStep ==
    \A a \in {"commit", "rollback"}, x \in Xids : ConnIInv /\ OthersFinish(a, x) => ConnIInv'
<1> SUFFICES ASSUME NEW a \in {"commit", "rollback"}, NEW x \in Xids, ConnIInv, OthersFinish(a, x)
             PROVE  ConnIInv'
  OBVIOUS
<1> DEFINE more == IF a = "commit" THEN server.prepared[x] ELSE {}
           d == past.doubtful \/ conn.tpc = Tpc(x, TRUE)
<1>1. /\ ConnTypeOK /\ BeginKept /\ BlockKnown /\ WorkOpen /\ WorkNumbered /\ WorkBetween
      /\ WorkAsked /\ StartedAsSet /\ CommittedByTpc /\ TpcKnown /\ RecoverHarmless
      /\ server \in Sessions /\ conn.tpc \in Tpcs
  BY ConnFields DEF ConnIInv
<1>2. UNCHANGED <<conn, block, recover>>
  BY DEF OthersFinish
<1>3. more \in SUBSET Writes /\ more \subseteq server.prepared[x] /\ d \in BOOLEAN
  BY <1>1, SessionFields, PastFields
<1>4. /\ server' = [server EXCEPT !.exists = @ \ {x}, !.prepared[x] = {},
                                  !.committed = @ \cup more]
      /\ past' = [past EXCEPT !.doubtful = d, !.asked = @ \cup more]
  <2>1. past = [past EXCEPT !.asked = past.asked] /\ past.asked \cup {} = past.asked
    BY <1>1 DEF ConnTypeOK
  <2> QED
    BY <1>1, <2>1, PastFields DEF OthersFinish, ConnTypeOK
<1>5. d => past.doubtful \/ conn.tpc = Tpc(x, TRUE)
  OBVIOUS
<1>6. past.doubtful \/ conn.tpc = Tpc(x, TRUE) => d
  OBVIOUS
<1> HIDE DEF more, d
<1>7. /\ server' \in Sessions
      /\ server'.status = server.status /\ server'.begun = server.begun
      /\ server'.work = server.work /\ server'.committed = server.committed \cup more
      /\ server'.exists = server.exists \ {x}
      /\ server'.prepared = [server.prepared EXCEPT ![x] = {}]
  BY <1>1, <1>3, <1>4 DEF Sessions
<1>8. \A y \in Xids : server'.prepared[y] \subseteq server.prepared[y]
  BY <1>1, <1>7 DEF Sessions
<1>9. /\ past' \in [writes : 0 .. MaxWrites, origin : [Writes -> Xids \cup {NoXid}],
                    asked : SUBSET Writes, doubtful : BOOLEAN,
                    between : SUBSET Writes, undone : SUBSET Writes]
      /\ past'.writes = past.writes /\ past'.origin = past.origin
      /\ past'.asked = past.asked \cup more /\ past'.doubtful = d
      /\ past'.between = past.between /\ past'.undone = past.undone
  BY <1>1, <1>3, <1>4 DEF ConnTypeOK
<1>10. ConnTypeOK' /\ BeginKept' /\ StartedAsSet' /\ BlockKnown'
  BY <1>1, <1>2, <1>7, <1>9 DEF ConnTypeOK, BeginKept, StartedAsSet, BlockKnown, Usable
<1>11. TpcKnown'
  <2>1. conn.tpc # NoTpc /\ conn.tpc.prepared /\ conn.tpc.xid = x => conn.tpc = Tpc(x, TRUE)
    BY <1>1 DEF Tpcs, Tpc
  <2> QED
    BY <1>1, <1>2, <1>6, <1>7, <1>9, <2>1 DEF TpcKnown, Usable
<1>12. WorkNumbered'
  <2>1. \A v \in more : v \in server.prepared[x]
    BY <1>3
  <2> QED
    BY <1>1, <1>7, <1>8, <1>9, <2>1 DEF WorkNumbered
<1>13. WorkOpen' /\ WorkBetween' /\ RecoverHarmless'
  BY <1>1, <1>2, <1>7, <1>9 DEF WorkOpen, WorkBetween, RecoverHarmless
<1>14. WorkAsked' /\ CommittedByTpc'
  BY <1>1, <1>2, <1>7, <1>9 DEF WorkAsked, CommittedByTpc
<1> QED
  BY <1>10, <1>11, <1>12, <1>13, <1>14 DEF ConnIInv

-----------------------------------------------------------------------------
\* Every step of the connection keeps the invariant
LEMMA ConnStepIInv == ConnIInv /\ [ConnNext]_connVars => ConnIInv'
<1> SUFFICES ASSUME ConnIInv, [ConnNext]_connVars PROVE ConnIInv'
  OBVIOUS
<1>1. CASE \E v \in BOOLEAN : SetAutocommit(v) \/ ExitContext(v)
  BY <1>1, SetterStep, EndingStep
<1>2. CASE \E s \in Settings : SetSettings(s)
  BY <1>2, SetterStep
<1>3. CASE ExecuteQuery
  BY <1>3, ConnQueryStep
<1>4. CASE EnterBlock \/ ExitBlock
  BY <1>4, EnterStep, ExitStep
<1>5. CASE Close
  BY <1>5, EndingStep
<1>6. CASE Reconnect
  BY <1>6, ReconnectStep
<1>7. CASE \E x \in Xids : TpcBegin(x)
  BY <1>7, TpcBeginStep
<1>8. CASE TpcPrepare
  BY <1>8, TpcPrepareStep
<1>9. ASSUME NEW a \in {"commit", "rollback"},
             \/ CommitOrRollback(a)
             \/ TpcFinishOnePhase(a)
             \/ \E x \in Xids : OthersFinish(a, x)
             \/ \E x \in Xids \cup {NoXid} : TpcFinishPrepared(a, x)
      PROVE  ConnIInv'
  BY <1>9, EndingStep, TpcOnePhaseStep, OthersStep, TpcPreparedStep
<1>10. CASE RecoverCall \/ RecoverQuery \/ RecoverFailed \/ RecoverRollback
  BY <1>10, RecoverCallStep, RecoverQueryStep, RecoverRollbackStep
<1>11. CASE UNCHANGED connVars
  <2>1. UNCHANGED <<conn, block, recover, server, past>>
    BY <1>11 DEF connVars
  <2>2. ConnTypeOK' /\ BeginKept' /\ BlockKnown' /\ StartedAsSet' /\ TpcKnown'
    BY <2>1 DEF ConnIInv, ConnTypeOK, BeginKept, BlockKnown, StartedAsSet, TpcKnown, Usable
  <2>3. WorkOpen' /\ WorkNumbered' /\ WorkBetween' /\ WorkAsked' /\ CommittedByTpc'
        /\ RecoverHarmless'
    BY <2>1 DEF ConnIInv, WorkOpen, WorkNumbered, WorkBetween, WorkAsked, CommittedByTpc,
                RecoverHarmless
  <2> QED
    BY <2>2, <2>3 DEF ConnIInv
<1> QED
  BY <1>1, <1>2, <1>3, <1>4, <1>5, <1>6, <1>7, <1>8, <1>9, <1>10, <1>11 DEF ConnNext

(***************************************************************************)
(* What the connection believes about its transaction is so, whatever the  *)
(* transaction ids, the settings and the number of statements: it runs     *)
(* with the settings that are shown, a two-phase one is committed only by  *)
(* a tpc_commit(), _tpc tells what the server has, and tpc_recover()       *)
(* undoes nothing that was done before it was called                       *)
(* (psycopg/_connection_base.py, psycopg/connection.py).                   *)
(***************************************************************************)
THEOREM TransactionsCorrect == ConnSpec => []TransactionsKept
<1>1. ConnIInv => TransactionsKept
  BY DEF ConnIInv, TransactionsKept
<1> QED
  BY <1>1, ConnInitIInv, ConnStepIInv, PTL DEF ConnSpec


-----------------------------------------------------------------------------
(***************************************************************************)
(* Server cursors.  First the two ends of a list of positions, and what a  *)
(* FETCH answers.                                                          *)
(***************************************************************************)

\* The smaller and the larger of two numbers
LEMMA TwoNumbers ==
    ASSUME NEW a \in Int, NEW b \in Int
    PROVE  /\ Min({a, b}) = IF a <= b THEN a ELSE b
           /\ Max({a, b}) = IF a >= b THEN a ELSE b
<1>1. Min({a, b}) = IF a <= b THEN a ELSE b
  <2> DEFINE m == IF a <= b THEN a ELSE b
  <2>1. m \in {a, b} /\ \A y \in {a, b} : m <= y
    OBVIOUS
  <2>2. ASSUME NEW x \in {a, b}, \A y \in {a, b} : x <= y PROVE x = m
    BY <2>2
  <2> QED
    BY <2>1, <2>2 DEF Min
<1>2. Max({a, b}) = IF a >= b THEN a ELSE b
  <2> DEFINE m == IF a >= b THEN a ELSE b
  <2>1. m \in {a, b} /\ \A y \in {a, b} : m >= y
    OBVIOUS
  <2>2. ASSUME NEW x \in {a, b}, \A y \in {a, b} : x >= y PROVE x = m
    BY <2>2
  <2> QED
    BY <2>1, <2>2 DEF Max
<1> QED
  BY <1>1, <1>2

\* How many rows the server has sent when the portal is at a position
Sent(at) == IF at <= TotalRows THEN at ELSE TotalRows

\* What FETCH answers follows what was sent, and is less than what was asked for
\* only at the end
LEMMA AnswerRows ==
    ASSUME NEW at \in 0 .. TotalRows + 1, NEW num \in Nat
    PROVE  LET rows == Answer(at, num)
           IN  /\ rows \in Seq(Nat)
               /\ \A i \in 1 .. Len(rows) : rows[i] = Sent(at) + i
               /\ Len(rows) = Sent(After(at, num)) - Sent(at)
               /\ Len(rows) < num => Sent(After(at, num)) = TotalRows
               /\ After(at, num) \in 0 .. TotalRows + 1
<1> USE DEF ServerCursorAssumption
<1> USE ServerCursorAssumption
<1> DEFINE last == IF at + num <= TotalRows THEN at + num ELSE TotalRows
           n == IF last - at >= 0 THEN last - at ELSE 0
<1>1. Min({at + num, TotalRows}) = last
  BY TwoNumbers
<1>2. Max({0, last - at}) = n
  <2>1. PICK d, z \in Int : d = last - at /\ z = 0
    OBVIOUS
  <2>2. Max({z, d}) = IF z >= d THEN z ELSE d
    BY <2>1, TwoNumbers
  <2> QED
    BY <2>1, <2>2
<1>3. Answer(at, num) = [i \in 1 .. n |-> at + i]
  BY <1>1, <1>2 DEF Answer
<1>4. n \in Nat /\ n = Sent(After(at, num)) - Sent(at)
  BY DEF Sent, After
<1>5. Len([i \in 1 .. n |-> at + i]) = n
  BY <1>4
<1>6. [i \in 1 .. n |-> at + i] \in Seq(Nat)
  BY <1>4
<1>7. \A i \in 1 .. n : [j \in 1 .. n |-> at + j][i] = Sent(at) + i
  BY DEF Sent
<1>8. n < num => Sent(After(at, num)) = TotalRows
  BY DEF Sent, After
<1>9. After(at, num) \in 0 .. TotalRows + 1
  BY DEF After
<1> HIDE DEF n
<1> QED
  BY <1>3, <1>4, <1>5, <1>6, <1>7, <1>8, <1>9

-----------------------------------------------------------------------------
(* The inductive invariant of the server cursors *)

PageStates == [rows : Seq(Nat), at : Nat, fetched : BOOLEAN]
ServerCursors == [closed : BOOLEAN, described : BOOLEAN, withhold : BOOLEAN,
            pos : Int, itersize : Itersizes, page : PageStates]
PortalStates == [life : {"none", "tx", "held"}, at : 0 .. TotalRows + 1]
TxStates == [status : {"idle", "intrans", "inerror"}, auto : BOOLEAN]
PortalHistories == [exact : BOOLEAN, next : Nat, alone : BOOLEAN, skipped : BOOLEAN,
              released : BOOLEAN]

PortalTypes ==
    /\ sc \in ServerCursors /\ sc.page.at <= Len(sc.page.rows)
    /\ portal \in PortalStates
    /\ tx \in TxStates
    /\ history \in PortalHistories

\* A portal is held if it was asked for, and is of a transaction that there is
PortalLives ==
    /\ portal.life = "held" => sc.withhold
    /\ portal.life = "tx" => tx.status # "idle"

\* A cursor that knows no portal has no rows to give
PageKnown == ~sc.described => Unread(sc.page) = 0

\* A position is exact only with a portal, and one that is known
PositionKept ==
    history.exact => Exists /\ sc.described /\ sc.pos + Unread(sc.page) = Sent(portal.at)

\* The rows of page p follow each other, and row n is the next to give
Follows(p, n) == \A i \in 1 .. Len(p.rows) : p.rows[i] = n + i - p.at - 1

\* What an iteration alone has given, the page and what the portal has still to
\* send follow each other; a short page is the last
RowsKept ==
    history.alone =>
        /\ sc.described
        /\ Follows(sc.page, history.next)
        /\ Exists => Sent(portal.at) = history.next - 1 + Unread(sc.page)
        /\ PageDone(sc.page, sc.itersize) =>
              TotalRows = history.next - 1 + Unread(sc.page)

PortalIInv ==
    /\ PortalTypes /\ PortalLives /\ PageKnown /\ PositionKept /\ RowsKept
    /\ ~history.skipped /\ history.released

\* The fields of a state of the types
LEMMA PortalFields ==
    ASSUME PortalTypes
    PROVE  /\ sc.closed \in BOOLEAN /\ sc.described \in BOOLEAN /\ sc.withhold \in BOOLEAN
           /\ sc.pos \in Int /\ sc.itersize \in Nat \ {0}
           /\ sc.page \in PageStates
           /\ sc.page.rows \in Seq(Nat) /\ sc.page.at \in 0 .. Len(sc.page.rows)
           /\ Unread(sc.page) \in Nat
           /\ portal.at \in 0 .. TotalRows + 1 /\ portal.life \in {"none", "tx", "held"}
           /\ Sent(portal.at) \in Nat
           /\ tx.status \in {"idle", "intrans", "inerror"}
           /\ history.next \in Nat
           /\ history.exact \in BOOLEAN /\ history.alone \in BOOLEAN
<1>1. sc \in ServerCursors /\ portal \in PortalStates /\ tx \in TxStates
      /\ history \in PortalHistories /\ sc.page.at <= Len(sc.page.rows)
  BY DEF PortalTypes
<1>2. sc.page \in PageStates /\ sc.itersize \in Itersizes
  BY <1>1 DEF ServerCursors
<1>3. sc.page.rows \in Seq(Nat) /\ sc.page.at \in 0 .. Len(sc.page.rows)
  BY <1>1, <1>2 DEF PageStates
<1>4. Unread(sc.page) \in Nat
  BY <1>3 DEF Unread
<1>5. portal.at \in 0 .. TotalRows + 1 /\ portal.life \in {"none", "tx", "held"}
  BY <1>1 DEF PortalStates
<1>6. TotalRows \in Nat /\ Itersizes \subseteq Nat \ {0}
  BY ServerCursorAssumption DEF ServerCursorAssumption
<1>7. Sent(portal.at) \in Nat
  BY <1>5, <1>6 DEF Sent
<1>8. sc.itersize \in Nat \ {0}
  BY <1>2, <1>6
<1> QED
  BY <1>1, <1>2, <1>3, <1>4, <1>5, <1>7, <1>8
     DEF ServerCursors, TxStates, PortalHistories

\* The invariant implies what the run checks
LEMMA PortalImplied == PortalIInv => PortalFollowed
<1> SUFFICES ASSUME PortalIInv PROVE PortalFollowed
  OBVIOUS
<1>1. Min({portal.at, TotalRows}) = Sent(portal.at)
  BY PortalFields, TwoNumbers, ServerCursorAssumption
     DEF PortalIInv, Sent, ServerCursorAssumption
<1> QED
  BY <1>1 DEF PortalIInv, PortalFollowed, PositionKept, PositionTrue, IterationComplete,
              CloseReleases

\* The types and the facts at the beginning
LEMMA PortalInit == ServerCursorInit => PortalIInv
<1> SUFFICES ASSUME ServerCursorInit PROVE PortalIInv
  OBVIOUS
<1>1. PICK withhold \in BOOLEAN, size \in Itersizes :
        sc = [closed |-> FALSE, described |-> FALSE, withhold |-> withhold,
              pos |-> 0, itersize |-> size, page |-> NoPage]
  BY DEF ServerCursorInit
<1>2. NoPage \in PageStates /\ NoPage.at = 0 /\ NoPage.rows = <<>> /\ Unread(NoPage) = 0
  BY DEF NoPage, PageStates, Unread
<1>3. PortalTypes
  BY <1>1, <1>2, ServerCursorAssumption
     DEF ServerCursorInit, PortalTypes, ServerCursors, PortalStates, TxStates, PortalHistories, NoPortal,
         ServerCursorAssumption
<1> QED
  BY <1>1, <1>2, <1>3
     DEF ServerCursorInit, PortalIInv, PortalLives, PageKnown, PositionKept, RowsKept, NoPortal,
         Exists

-----------------------------------------------------------------------------
(* Each action *)

\* A transaction that begins or fails does not end
LEMMA TxSteps ==
    ASSUME NEW t \in TxStates
    PROVE  /\ Fails(t) \in TxStates /\ (t.status # "idle" => Fails(t).status # "idle")
           /\ BeginIfIdle(t) \in TxStates
           /\ t.status # "idle" => BeginIfIdle(t).status # "idle"
  BY DEF TxStates, Fails, BeginIfIdle

\* What only the transaction changes, that does not end
LEMMA OnlyTx ==
    ASSUME PortalIInv, UNCHANGED <<sc, portal, history>>, tx' \in TxStates,
           tx.status # "idle" => tx'.status # "idle"
    PROVE  PortalIInv'
  BY DEF PortalIInv, PortalTypes, PortalLives, PageKnown, PositionKept, RowsKept, Exists

\* What a new portal gets: the page is empty, and the position the beginning
LEMMA DeclareStep == \A bad \in BOOLEAN : PortalIInv /\ Declare(bad) => PortalIInv'
<1> SUFFICES ASSUME NEW bad \in BOOLEAN, PortalIInv, Declare(bad) PROVE PortalIInv'
  OBVIOUS
<1>0. PortalTypes /\ tx \in TxStates /\ sc \in ServerCursors /\ portal \in PortalStates
      /\ history \in PortalHistories
  BY DEF PortalIInv, PortalTypes
<1>1. CASE sc.described /\ CloseFailed
  BY <1>0, <1>1, TxSteps, OnlyTx DEF Declare
<1>2. CASE ~(sc.described /\ CloseFailed)
  <2> DEFINE left == IF sc.described THEN Closed ELSE portal
             t == BeginIfIdle(tx)
             refused == \/ bad \/ t.status = "inerror" \/ left.life # "none"
                        \/ t.status = "idle" /\ ~sc.withhold
  <2>1. /\ tx' = IF refused THEN Fails(t) ELSE t
        /\ portal' = IF refused THEN left
                     ELSE [life |-> IF t.status = "idle" THEN "held" ELSE "tx", at |-> 0]
        /\ sc' = [sc EXCEPT !.described = ~refused, !.page = NoPage, !.pos = 0]
        /\ history' = [history EXCEPT !.exact = ~refused, !.next = 1, !.alone = ~refused]
    BY <1>2 DEF Declare
  <2>2. left \in PortalStates /\ (left = portal \/ left.life = "none")
    BY <1>0, ServerCursorAssumption
       DEF Closed, NoPortal, PortalStates, ServerCursorAssumption
  <2>3. t \in TxStates /\ Fails(t) \in TxStates
        /\ (tx.status # "idle" => t.status # "idle" /\ Fails(t).status # "idle")
    BY <1>0, TxSteps
  <2>4. NoPage \in PageStates /\ NoPage.at = 0 /\ NoPage.rows = <<>> /\ Len(NoPage.rows) = 0
        /\ NoPage.fetched = FALSE
    BY DEF NoPage, PageStates
  <2> HIDE DEF left, t
  <2>5. PortalTypes'
    <3>1. sc' \in ServerCursors /\ sc'.page = NoPage
      <4>1. PICK d \in BOOLEAN : sc' = [sc EXCEPT !.described = d, !.page = NoPage, !.pos = 0]
        BY <2>1
      <4>2. PICK q \in Int : q = 0
        OBVIOUS
      <4>3. PICK p \in PageStates : p = NoPage
        BY <2>4
      <4>4. sc' = [sc EXCEPT !.described = d, !.page = p, !.pos = q]
        BY <4>1, <4>2, <4>3, Zenon
      <4> QED
        BY <1>0, <4>3, <4>4 DEF ServerCursors
    <3>2. portal' \in PortalStates
      BY <2>1, <2>2, ServerCursorAssumption DEF PortalStates, ServerCursorAssumption
    <3>3. tx' \in TxStates /\ history' \in PortalHistories
      BY <1>0, <2>1, <2>3 DEF PortalHistories
    <3> QED
      BY <2>4, <3>1, <3>2, <3>3 DEF PortalTypes
  <2>6. PortalLives'
    <3>1. sc'.withhold = sc.withhold
      BY <1>0, <2>1 DEF ServerCursors
    <3>2. CASE refused
      BY <2>1, <2>2, <2>3, <3>1, <3>2 DEF PortalIInv, PortalLives
    <3>3. CASE ~refused
      BY <2>1, <3>1, <3>3 DEF PortalLives
    <3> QED
      BY <3>2, <3>3
  <2>7. sc'.page = NoPage /\ (~refused => sc'.described /\ sc'.pos = 0)
    BY <1>0, <2>1 DEF ServerCursors
  <2>8. /\ refused => ~history'.exact /\ ~history'.alone
        /\ history'.next = 1
        /\ history'.skipped = history.skipped /\ history'.released = history.released
    BY <1>0, <2>1 DEF PortalHistories
  <2>9. ~refused => portal'.at = 0 /\ portal'.life # "none"
    BY <2>1
  <2> HIDE DEF refused
  <2>10. Unread(sc'.page) = 0 /\ Sent(0) = 0
    BY <2>4, <2>7, ServerCursorAssumption DEF Unread, Sent, ServerCursorAssumption
  <2>11. PageKnown' /\ PositionKept'
    <3>1. PageKnown'
      BY <2>10 DEF PageKnown
    <3>2. CASE refused
      BY <2>8, <3>1, <3>2 DEF PositionKept
    <3>3. CASE ~refused
      BY <2>7, <2>9, <2>10, <3>1, <3>3 DEF PositionKept, Exists
    <3> QED
      BY <3>1, <3>2, <3>3
  <2>12. RowsKept'
    <3>1. CASE refused
      BY <2>8, <3>1 DEF RowsKept
    <3>2. CASE ~refused
      <4>1. Follows(sc'.page, 1) /\ ~PageDone(sc'.page, sc'.itersize)
        BY <2>4, <2>7 DEF Follows, PageDone
      <4> QED
        BY <2>7, <2>8, <2>9, <2>10, <3>2, <4>1 DEF RowsKept
    <3> QED
      BY <3>1, <3>2
  <2> QED
    BY <2>5, <2>6, <2>8, <2>11, <2>12 DEF PortalIInv
<1> QED
  BY <1>1, <1>2

\* close() leaves no portal: one that lives out of a transaction was asked for
LEMMA CloseStep == PortalIInv /\ CloseServerCursor => PortalIInv'
<1> SUFFICES ASSUME PortalIInv, CloseServerCursor PROVE PortalIInv'
  OBVIOUS
<1>0. PortalTypes /\ tx \in TxStates /\ sc \in ServerCursors /\ portal \in PortalStates
      /\ history \in PortalHistories
  BY DEF PortalIInv, PortalTypes
<1>1. CASE CloseFailed
  BY <1>0, <1>1, TxSteps, OnlyTx DEF CloseServerCursor
<1>2. CASE ~CloseFailed
  <2>1. /\ sc' = [sc EXCEPT !.closed = TRUE, !.described = FALSE, !.page = NoPage,
                            !.pos = 0]
        /\ portal' = Closed
        /\ history' = [history EXCEPT !.released = Closed.life = "none" \/ ~Sane,
                                      !.exact = FALSE, !.alone = FALSE]
        /\ tx' = tx
    BY <1>2 DEF CloseServerCursor
  <2>2. Closed \in PortalStates /\ (Closed = portal \/ Closed.life = "none")
    BY <1>0, ServerCursorAssumption
       DEF Closed, NoPortal, PortalStates, ServerCursorAssumption
  <2>3. Sane => Closed.life = "none"
    <3>1. ASSUME Sane, Exists PROVE Closing
      BY <1>0, <3>1 DEF PortalIInv, PortalLives, Closing, Exists, PortalStates
    <3> QED
      BY <3>1 DEF Closed, CloseSent, NoPortal, Exists
  <2>4. NoPage \in PageStates /\ NoPage.at = 0 /\ NoPage.rows = <<>> /\ Len(NoPage.rows) = 0
    BY DEF NoPage, PageStates
  <2>5. sc' \in ServerCursors /\ sc'.page = NoPage /\ sc'.withhold = sc.withhold
    <3>1. PICK q \in Int : q = 0
      OBVIOUS
    <3>2. PICK p \in PageStates : p = NoPage
      BY <2>4
    <3>3. sc' = [sc EXCEPT !.closed = TRUE, !.described = FALSE, !.page = p, !.pos = q]
      BY <2>1, <3>1, <3>2, Zenon
    <3> QED
      BY <1>0, <3>2, <3>3 DEF ServerCursors
  <2>6. /\ history' \in PortalHistories /\ history'.released /\ ~history'.exact
        /\ ~history'.alone /\ history'.skipped = history.skipped
    BY <1>0, <2>1, <2>3 DEF PortalHistories
  <2>7. PortalTypes'
    BY <1>0, <2>1, <2>2, <2>4, <2>5, <2>6 DEF PortalTypes
  <2>8. PortalLives'
    BY <2>1, <2>2, <2>5 DEF PortalIInv, PortalLives
  <2> QED
    BY <2>4, <2>5, <2>6, <2>7, <2>8
       DEF PortalIInv, PageKnown, PositionKept, RowsKept, Unread
<1> QED
  BY <1>1, <1>2

\* Rows fetched: the portal moves by as many as the page, or the program, gets;
\* one that is found is taken for new
LEMMA FetchedRows ==
    ASSUME PortalTypes, NEW num \in Nat
    PROVE  LET rows == Answer(portal.at, num)
           IN  /\ rows \in Seq(Nat) /\ Len(rows) \in Nat
               /\ \A i \in 1 .. Len(rows) : rows[i] = Sent(portal.at) + i
               /\ Sent(After(portal.at, num)) = Sent(portal.at) + Len(rows)
               /\ Len(rows) < num => Sent(After(portal.at, num)) = TotalRows
               /\ After(portal.at, num) \in 0 .. TotalRows + 1
               /\ Sent(After(portal.at, num)) \in Nat /\ Sent(0) = 0
<1>1. portal.at \in 0 .. TotalRows + 1 /\ TotalRows \in Nat /\ Sent(portal.at) \in Nat
  BY PortalFields, ServerCursorAssumption DEF ServerCursorAssumption
<1> DEFINE rows == Answer(portal.at, num)
           to == After(portal.at, num)
<1>2. /\ rows \in Seq(Nat)
      /\ \A i \in 1 .. Len(rows) : rows[i] = Sent(portal.at) + i
      /\ Len(rows) = Sent(to) - Sent(portal.at)
      /\ Len(rows) < num => Sent(to) = TotalRows
      /\ to \in 0 .. TotalRows + 1
  BY <1>1, AnswerRows
<1>3. Sent(to) \in Nat /\ Sent(0) = 0
  BY <1>1, <1>2 DEF Sent
<1> HIDE DEF rows, to
<1>4. Sent(to) = Sent(portal.at) + Len(rows) /\ Len(rows) \in Nat
  BY <1>1, <1>2, <1>3
<1> QED
  BY <1>2, <1>3, <1>4 DEF rows, to

\* A fetch that fails: the position of a portal that is not known is lost
LEMMA RefusedFetch == PortalIInv /\ FetchFails => PortalIInv'
<1> SUFFICES ASSUME PortalIInv, FetchFails PROVE PortalIInv'
  OBVIOUS
<1>1. /\ PortalTypes /\ tx \in TxStates /\ sc \in ServerCursors /\ portal' = portal
      /\ history' = history /\ sc' = [sc EXCEPT !.pos = FetchPos]
  BY DEF PortalIInv, PortalTypes, FetchFails
<1>2. tx' \in TxStates /\ (tx.status # "idle" => tx'.status # "idle")
  BY <1>1, TxSteps DEF FetchTx, FetchFails
<1>3. CASE sc.described
  BY <1>1, <1>2, <1>3, OnlyTx DEF FetchPos, Steals, ServerCursors
<1>4. CASE ~sc.described
  <2>1. /\ sc' \in ServerCursors /\ sc'.page = sc.page /\ sc'.withhold = sc.withhold
        /\ sc'.described = sc.described /\ ~history.exact /\ ~history.alone
    BY <1>1, <1>4 DEF FetchPos, Steals, ServerCursors, PortalIInv, PositionKept, RowsKept
  <2> QED
    BY <1>1, <1>2, <2>1
       DEF PortalIInv, PortalTypes, PortalLives, PageKnown, PositionKept, RowsKept
<1> QED
  BY <1>3, <1>4

\* fetchone(), fetchmany() and fetchall() move the position with the portal
LEMMA FetchStep == \A num \in Nat : PortalIInv /\ ServerFetch(num) => PortalIInv'
<1> SUFFICES ASSUME NEW num \in Nat, PortalIInv, ServerFetch(num) PROVE PortalIInv'
  OBVIOUS
<1>0. PortalTypes /\ tx \in TxStates /\ sc \in ServerCursors /\ portal \in PortalStates
      /\ history \in PortalHistories
  BY DEF PortalIInv, PortalTypes
<1>1. FetchTx \in TxStates /\ (tx.status # "idle" => FetchTx.status # "idle")
      /\ Fails(FetchTx) \in TxStates /\ (tx.status # "idle" => Fails(FetchTx).status # "idle")
  BY <1>0, TxSteps DEF FetchTx
<1>2. CASE ~FetchWorks
  BY <1>2, RefusedFetch DEF ServerFetch
<1>3. CASE FetchWorks
  <2> DEFINE rows == Answer(portal.at, num)
             to == After(portal.at, num)
  <2>1. /\ tx' = FetchTx
        /\ portal' = [portal EXCEPT !.at = to]
        /\ sc' = [sc EXCEPT !.described = TRUE, !.pos = FetchPos + Len(rows)]
        /\ history' = [history EXCEPT !.alone = FALSE,
                                !.exact = IF Steals THEN portal.at = 0 ELSE @]
    BY <1>3 DEF ServerFetch
  <2>2. /\ Len(rows) \in Nat /\ to \in 0 .. TotalRows + 1
        /\ Sent(to) = Sent(portal.at) + Len(rows) /\ Sent(to) \in Nat /\ Sent(0) = 0
    BY <1>0, FetchedRows
  <2> HIDE DEF rows, to
  <2>3. FetchPos \in Int /\ FetchPos + Len(rows) \in Int
    BY <1>0, <2>2, PortalFields DEF FetchPos
  <2>4. sc' \in ServerCursors /\ sc'.page = sc.page /\ sc'.pos = FetchPos + Len(rows)
        /\ sc'.described /\ sc'.withhold = sc.withhold
    BY <1>0, <2>1, <2>3 DEF ServerCursors
  <2>5. portal' \in PortalStates /\ portal'.life = portal.life /\ portal'.at = to
    BY <1>0, <2>1, <2>2 DEF PortalStates
  <2>6. /\ history' \in PortalHistories /\ ~history'.alone
        /\ history'.skipped = history.skipped /\ history'.released = history.released
        /\ history'.exact = IF Steals THEN portal.at = 0 ELSE history.exact
    BY <1>0, <2>1 DEF PortalHistories
  <2>7. PortalTypes'
    BY <1>0, <1>1, <2>1, <2>4, <2>5, <2>6 DEF PortalTypes
  <2>8. PortalLives'
    BY <1>1, <2>1, <2>4, <2>5 DEF PortalIInv, PortalLives
  <2>9. PositionKept'
    <3> SUFFICES ASSUME history'.exact
                 PROVE  Exists' /\ sc'.pos + Unread(sc'.page) = Sent(portal'.at)
      BY <2>4 DEF PositionKept
    <3>1. Exists'
      BY <1>3, <2>5 DEF FetchWorks, Exists
    <3>2. FetchPos + Unread(sc.page) = Sent(portal.at)
      <4>1. CASE Steals
        <5>1. portal.at = 0
          BY <2>6, <4>1
        <5>2. Unread(sc.page) = 0
          BY <4>1 DEF PortalIInv, PageKnown, Steals
        <5>3. FetchPos = 0
          BY <4>1 DEF FetchPos
        <5> QED
          BY <2>2, <5>1, <5>2, <5>3
      <4>2. CASE ~Steals
        BY <2>6, <4>2 DEF PortalIInv, PositionKept, FetchPos
      <4> QED
        BY <4>1, <4>2
    <3>3. Unread(sc.page) \in Nat /\ Sent(portal.at) \in Nat
      BY <1>0, PortalFields
    <3> QED
      BY <2>2, <2>3, <2>4, <2>5, <3>1, <3>2, <3>3
  <2> QED
    BY <2>4, <2>6, <2>7, <2>8, <2>9 DEF PortalIInv, PageKnown, RowsKept
<1> QED
  BY <1>2, <1>3

\* Iteration: a row of the page, a page, or the end.  The page is the one of which
\* the first row that was not given is next.
LEMMA IterateStep == PortalIInv /\ Next1 => PortalIInv'
<1> SUFFICES ASSUME PortalIInv, Next1 PROVE PortalIInv'
  OBVIOUS
<1> DEFINE p == sc.page
           fetch == Unread(p) = 0 /\ ~PageDone(p, sc.itersize)
           rows == Answer(portal.at, sc.itersize)
           to == After(portal.at, sc.itersize)
           page == IF fetch THEN [rows |-> rows, at |-> 0, fetched |-> TRUE] ELSE p
           base == IF fetch THEN FetchPos ELSE sc.pos
           d == sc.described \/ fetch
           exact == IF fetch /\ Steals THEN portal.at = 0 ELSE history.exact
           at == IF fetch THEN to ELSE portal.at
<1>0. PortalTypes /\ tx \in TxStates /\ sc \in ServerCursors /\ portal \in PortalStates
      /\ history \in PortalHistories
  BY DEF PortalIInv, PortalTypes
<1>1. FetchTx \in TxStates /\ (tx.status # "idle" => FetchTx.status # "idle")
      /\ Fails(FetchTx) \in TxStates /\ (tx.status # "idle" => Fails(FetchTx).status # "idle")
  BY <1>0, TxSteps DEF FetchTx
<1>2. CASE fetch /\ ~FetchWorks
  BY <1>2, RefusedFetch DEF Next1
<1>3. CASE ~(fetch /\ ~FetchWorks)
  <2>1. /\ IF fetch THEN tx' = FetchTx /\ portal' = [portal EXCEPT !.at = to]
           ELSE UNCHANGED <<tx, portal>>
        /\ IF Unread(page) = 0
           THEN /\ sc' = [sc EXCEPT !.page = page, !.pos = base, !.described = d]
                /\ history' = [history EXCEPT
                      !.exact = exact,
                      !.skipped = @ \/ (history.alone /\ history.next # TotalRows + 1)]
           ELSE LET row == page.rows[page.at + 1]
                IN  /\ sc' = [sc EXCEPT !.page = [page EXCEPT !.at = @ + 1],
                                        !.pos = base + 1, !.described = d]
                    /\ history' = [history EXCEPT
                          !.exact = exact, !.next = row + 1,
                          !.skipped = @ \/ (history.alone /\ row # history.next)]
    BY <1>3 DEF Next1
  <2>2. /\ rows \in Seq(Nat) /\ Len(rows) \in Nat
        /\ \A i \in 1 .. Len(rows) : rows[i] = Sent(portal.at) + i
        /\ Sent(to) = Sent(portal.at) + Len(rows)
        /\ Len(rows) < sc.itersize => Sent(to) = TotalRows
        /\ to \in 0 .. TotalRows + 1
        /\ Sent(to) \in Nat /\ Sent(0) = 0
    BY <1>0, FetchedRows, PortalFields
  <2>3. /\ p \in PageStates /\ p.rows \in Seq(Nat) /\ p.at \in 0 .. Len(p.rows)
        /\ Unread(p) \in Nat /\ Sent(portal.at) \in Nat /\ sc.pos \in Int
        /\ sc.itersize \in Nat \ {0} /\ history.next \in Nat
        /\ portal.at \in 0 .. TotalRows + 1 /\ TotalRows \in Nat
        /\ history.exact \in BOOLEAN /\ sc.described \in BOOLEAN
    BY <1>0, PortalFields, ServerCursorAssumption DEF ServerCursorAssumption
  <2> HIDE DEF rows, to
  <2>4. /\ page \in PageStates /\ page.rows \in Seq(Nat) /\ page.at \in 0 .. Len(page.rows)
        /\ Unread(page) = Len(page.rows) - page.at
        /\ fetch => page.rows = rows /\ page.at = 0 /\ page.fetched
        /\ ~fetch => page = p
    BY <2>2, <2>3 DEF PageStates, Unread
  <2>5. base \in Int /\ base + 1 \in Int /\ d \in BOOLEAN /\ exact \in BOOLEAN
    <3>1. FetchPos \in Int
      BY <2>3 DEF FetchPos
    <3>2. base \in Int
      BY <2>3, <3>1
    <3>3. d \in BOOLEAN
      OBVIOUS
    <3>4. exact \in BOOLEAN
      BY <2>3
    <3> HIDE DEF base
    <3> QED
      BY <3>2, <3>3, <3>4
  <2>6. /\ at \in 0 .. TotalRows + 1
        /\ portal' \in PortalStates /\ portal'.life = portal.life /\ portal'.at = at
        /\ tx' \in TxStates /\ (tx.status # "idle" => tx'.status # "idle")
    BY <1>0, <1>1, <2>1, <2>2, <2>3 DEF PortalStates
  \* The page and the position after a fetch, or as they were
  <2>7. exact => d /\ Exists' /\ base + Unread(page) = Sent(at) /\ Sent(at) \in Nat
    <3> SUFFICES ASSUME exact
                 PROVE  d /\ Exists' /\ base + Unread(page) = Sent(at) /\ Sent(at) \in Nat
      OBVIOUS
    <3>1. CASE ~fetch
      BY <2>3, <2>4, <2>6, <3>1 DEF PortalIInv, PositionKept, Exists
    <3>2. CASE fetch
      <4>1. Exists' /\ Unread(page) = Len(rows) /\ at = to /\ base = FetchPos
        BY <1>3, <2>2, <2>4, <2>6, <3>2 DEF FetchWorks, Exists
      <4>2. FetchPos = Sent(portal.at)
        <5>1. CASE Steals
          BY <2>2, <3>2, <5>1 DEF FetchPos
        <5>2. CASE ~Steals
          BY <2>3, <3>2, <5>2 DEF PortalIInv, PositionKept, FetchPos
        <5> QED
          BY <5>1, <5>2
      <4>3. d
        BY <3>2
      <4> HIDE DEF d, base, at, page
      <4> QED
        BY <2>2, <4>1, <4>2, <4>3
    <3> QED
      BY <3>1, <3>2
  <2>8. history.alone =>
          /\ sc.described
          /\ Follows(page, history.next)
          /\ Exists => Sent(at) = history.next - 1 + Unread(page)
          /\ PageDone(page, sc.itersize) => TotalRows = history.next - 1 + Unread(page)
    <3> SUFFICES ASSUME history.alone
                 PROVE  /\ sc.described
                        /\ Follows(page, history.next)
                        /\ Exists => Sent(at) = history.next - 1 + Unread(page)
                        /\ PageDone(page, sc.itersize) => TotalRows = history.next - 1 + Unread(page)
      OBVIOUS
    <3>1. CASE ~fetch
      BY <2>4, <3>1 DEF PortalIInv, RowsKept
    <3>2. CASE fetch
      <4>1. Exists /\ sc.described /\ Unread(p) = 0
        BY <1>3, <3>2 DEF PortalIInv, RowsKept, FetchWorks
      <4>2. Sent(portal.at) = history.next - 1
        BY <2>3, <4>1 DEF PortalIInv, RowsKept
      <4>3. Unread(page) = Len(rows) /\ at = to /\ page.rows = rows /\ page.at = 0
        BY <2>2, <2>4, <3>2
      <4>4. Follows(page, history.next)
        <5> HIDE DEF page
        <5> QED
          BY <2>2, <2>3, <4>2, <4>3, SMTT(40) DEF Follows
      <4>5. Sent(at) = history.next - 1 + Unread(page)
        BY <2>2, <2>3, <4>2, <4>3
      <4>6. PageDone(page, sc.itersize) => TotalRows = history.next - 1 + Unread(page)
        BY <2>2, <4>3, <4>5 DEF PageDone
      <4> QED
        BY <4>1, <4>4, <4>5, <4>6
    <3> QED
      BY <3>1, <3>2
  <2>9. fetch => page.fetched
    BY <2>4
  <2>10. d = (sc.described \/ fetch) /\ (~fetch => page = p)
         /\ (fetch => (Unread(page) = 0 => Sent(at) = Sent(portal.at)))
    BY <2>2, <2>3, <2>4
  <2>11. ~d => Unread(page) = 0
    BY <2>10 DEF PortalIInv, PageKnown
  <2>12. history.alone /\ Unread(page) = 0 => history.next = TotalRows + 1
    <3> SUFFICES ASSUME history.alone, Unread(page) = 0 PROVE history.next = TotalRows + 1
      OBVIOUS
    <3>1. PageDone(page, sc.itersize)
      <4>1. CASE ~fetch
        BY <2>4, <4>1
      <4>2. CASE fetch
        <5>1. Len(page.rows) = 0
          BY <2>2, <2>4, <4>2
        <5> QED
          BY <2>3, <2>9, <4>2, <5>1 DEF PageDone
      <4> QED
        BY <4>1, <4>2
    <3> QED
      BY <2>3, <2>8, <3>1
  <2> HIDE DEF fetch, page, base, d, exact, at
  <2>13. CASE Unread(page) = 0
    <3>1. /\ sc' = [sc EXCEPT !.page = page, !.pos = base, !.described = d]
          /\ history' = [history EXCEPT
                !.exact = exact,
                !.skipped = @ \/ (history.alone /\ history.next # TotalRows + 1)]
      BY <2>1, <2>13
    <3>2. /\ sc' \in ServerCursors /\ sc'.page = page /\ sc'.pos = base /\ sc'.described = d
          /\ sc'.withhold = sc.withhold /\ sc'.itersize = sc.itersize
      BY <1>0, <2>4, <2>5, <3>1 DEF ServerCursors
    <3>3. ~(history.skipped \/ (history.alone /\ history.next # TotalRows + 1))
      <4>1. ~history.skipped
        BY DEF PortalIInv
      <4> QED
        BY <2>12, <2>13, <4>1
    <3>4. /\ history' \in PortalHistories /\ history'.exact = exact /\ ~history'.skipped
          /\ history'.alone = history.alone /\ history'.next = history.next
          /\ history'.released = history.released
      BY <1>0, <2>5, <3>1, <3>3 DEF PortalHistories
    <3>5. PortalTypes'
      BY <2>4, <2>6, <3>2, <3>4 DEF PortalTypes
    <3>6. PortalLives' /\ PageKnown'
      BY <2>6, <2>11, <3>2 DEF PortalIInv, PortalLives, PageKnown
    <3>7. PositionKept'
      BY <2>6, <2>7, <3>2, <3>4 DEF PositionKept
    <3>8. Exists' <=> Exists
      BY <2>6 DEF Exists
    <3>9. history.alone => d
      BY <2>8 DEF d
    <3>10. RowsKept'
      BY <2>6, <2>8, <3>2, <3>4, <3>8, <3>9 DEF RowsKept
    <3> QED
      BY <3>4, <3>5, <3>6, <3>7, <3>10 DEF PortalIInv
  <2>14. CASE Unread(page) # 0
    <3> DEFINE row == page.rows[page.at + 1]
               next == [page EXCEPT !.at = @ + 1]
    <3>1. /\ sc' = [sc EXCEPT !.page = next, !.pos = base + 1, !.described = d]
          /\ history' = [history EXCEPT
                !.exact = exact, !.next = row + 1,
                !.skipped = @ \/ (history.alone /\ row # history.next)]
      BY <2>1, <2>14
    <3>2. /\ next \in PageStates /\ next.rows = page.rows /\ next.at = page.at + 1
          /\ next.fetched = page.fetched
          /\ next.at \in 0 .. Len(next.rows) /\ row \in Nat
          /\ Unread(next) = Unread(page) - 1
      BY <2>4, <2>14 DEF PageStates, Unread
    <3>3. history.alone => row = history.next
      <4> SUFFICES ASSUME history.alone PROVE row = history.next
        OBVIOUS
      <4>1. page.at + 1 \in 1 .. Len(page.rows)
        BY <2>4, <2>14
      <4>2. row = history.next + (page.at + 1) - page.at - 1
        BY <2>8, <4>1 DEF Follows
      <4>3. PICK a \in Int : a = page.at
        BY <2>4
      <4>4. row = history.next + (a + 1) - a - 1
        BY <4>2, <4>3
      <4> HIDE DEF row
      <4> QED
        BY <2>3, <4>4
    <3> HIDE DEF next, row
    <3>4. /\ sc' \in ServerCursors /\ sc'.page = next /\ sc'.pos = base + 1
          /\ sc'.described = d /\ sc'.withhold = sc.withhold /\ sc'.itersize = sc.itersize
      BY <1>0, <2>5, <3>1, <3>2 DEF ServerCursors
    <3>5. ~(history.skipped \/ (history.alone /\ row # history.next)) /\ row + 1 \in Nat
      <4>1. ~history.skipped
        BY DEF PortalIInv
      <4>2. row + 1 \in Nat
        BY <3>2
      <4> QED
        BY <3>3, <4>1, <4>2
    <3>6. /\ history' \in PortalHistories /\ history'.exact = exact /\ ~history'.skipped
          /\ history'.alone = history.alone /\ history'.next = row + 1
          /\ history'.released = history.released
      BY <1>0, <2>5, <3>1, <3>5 DEF PortalHistories
    <3>7. PortalTypes'
      BY <2>6, <3>2, <3>4, <3>6 DEF PortalTypes
    <3>8. PortalLives' /\ PageKnown'
      BY <2>6, <2>11, <2>14, <3>4 DEF PortalIInv, PortalLives, PageKnown
    <3>9. PositionKept'
      <4>1. Unread(page) \in Int
        BY <2>4
      <4> QED
        BY <2>5, <2>6, <2>7, <3>2, <3>4, <3>6, <4>1 DEF PositionKept
    <3>10. Exists' <=> Exists
      BY <2>6 DEF Exists
    <3>11. RowsKept'
      <4> SUFFICES ASSUME history'.alone PROVE RowsKept'
        BY DEF RowsKept
      <4>1. history.alone /\ d /\ row = history.next
        BY <2>8, <3>3, <3>6 DEF d
      <4>2. Follows(next, row + 1)
        <5>1. \A i \in 1 .. Len(page.rows) : page.rows[i] = history.next + i - page.at - 1
          BY <2>8, <4>1 DEF Follows
        <5>2. ASSUME NEW i \in 1 .. Len(next.rows)
              PROVE  next.rows[i] = (row + 1) + i - next.at - 1
          <6>1. next.rows[i] = history.next + i - page.at - 1
            BY <3>2, <5>1
          <6>2. next.at = page.at + 1 /\ page.at \in Int /\ i \in Int /\ row = history.next
            BY <2>4, <3>2, <4>1
          <6>3. \A n, k, a \in Int : n + k - a - 1 = (n + 1) + k - (a + 1) - 1
            OBVIOUS
          <6>4. history.next \in Int
            BY <2>3
          <6>5. history.next + i - page.at - 1
                  = (history.next + 1) + i - (page.at + 1) - 1
            BY <6>2, <6>3, <6>4
          <6> QED
            BY <6>1, <6>2, <6>5
        <5> QED
          BY <5>2 DEF Follows
      <4>3. PageDone(next, sc.itersize) => PageDone(page, sc.itersize)
        BY <3>2 DEF PageDone
      <4>4. Unread(page) \in Int
        BY <2>4
      <4>5. history'.next - 1 + Unread(sc'.page) = history.next - 1 + Unread(page)
        <5>1. \A n, u \in Int : (n + 1) - 1 + (u - 1) = n - 1 + u
          OBVIOUS
        <5>2. history.next \in Int /\ history'.next = history.next + 1
              /\ Unread(sc'.page) = Unread(page) - 1
          BY <2>3, <3>2, <3>4, <3>6, <4>1
        <5> QED
          BY <4>4, <5>1, <5>2
      <4>6. Exists' => Sent(portal'.at) = history'.next - 1 + Unread(sc'.page)
        BY <2>6, <2>8, <3>10, <4>1, <4>5
      <4>7. PageDone(sc'.page, sc'.itersize) =>
              TotalRows = history'.next - 1 + Unread(sc'.page)
        BY <2>8, <3>4, <4>1, <4>3, <4>5
      <4>8. sc'.described /\ Follows(sc'.page, history'.next)
        BY <3>4, <3>6, <4>1, <4>2
      <4> QED
        BY <4>6, <4>7, <4>8 DEF RowsKept
    <3> QED
      BY <3>6, <3>7, <3>8, <3>9, <3>11 DEF PortalIInv
  <2> QED
    BY <2>13, <2>14
<1> QED
  BY <1>2, <1>3

\* scroll() moves the position as far as the portal, if that stays in the result
LEMMA ScrollStep ==
    \A v \in Int, mode \in {"relative", "absolute"} :
        PortalIInv /\ ServerScroll(v, mode) => PortalIInv'
<1> SUFFICES ASSUME NEW v \in Int, NEW mode \in {"relative", "absolute"}, PortalIInv,
                    ServerScroll(v, mode)
             PROVE  PortalIInv'
  OBVIOUS
<1> DEFINE to == IF mode = "relative" THEN portal.at + v ELSE v
           pos == IF mode = "relative" THEN sc.pos + v ELSE v
<1>0. PortalTypes /\ tx \in TxStates /\ sc \in ServerCursors /\ portal \in PortalStates
      /\ history \in PortalHistories
  BY DEF PortalIInv, PortalTypes
<1>1. CASE ~Exists \/ ~Sane
  BY <1>0, <1>1, TxSteps, OnlyTx DEF ServerScroll
<1>2. CASE ~(~Exists \/ ~Sane)
  <2>1. /\ portal' = [portal EXCEPT !.at = Clamp(to)]
        /\ sc' = [sc EXCEPT !.pos = pos]
        /\ history' = [history EXCEPT
              !.alone = FALSE,
              !.exact = /\ @ /\ sc.described
                        /\ to \in 0 .. TotalRows /\ portal.at <= TotalRows
                        /\ mode = "absolute" => Unread(sc.page) = 0]
        /\ tx' = tx
    <3>1. [sc EXCEPT !.pos = IF mode = "relative" THEN @ + v ELSE v] = [sc EXCEPT !.pos = pos]
      OBVIOUS
    <3> QED
      BY <1>2, <3>1 DEF ServerScroll
  <2>2. /\ portal.at \in 0 .. TotalRows + 1 /\ TotalRows \in Nat /\ sc.pos \in Int
        /\ Unread(sc.page) \in Nat
    BY <1>0, PortalFields, ServerCursorAssumption DEF ServerCursorAssumption
  <2>3. to \in Int /\ pos \in Int
    BY <2>2
  <2>4. Clamp(to) \in 0 .. TotalRows + 1 /\ (to \in 0 .. TotalRows => Clamp(to) = to)
    <3> HIDE DEF to
    <3>1. PICK end, z \in Int : end = TotalRows + 1 /\ z = 0
      BY <2>2
    <3>2. Min({to, end}) = IF to <= end THEN to ELSE end
      BY <2>3, <3>1, TwoNumbers
    <3>3. PICK m \in Int : m = Min({to, end})
      BY <2>3, <3>1, <3>2
    <3>4. Max({z, m}) = IF z >= m THEN z ELSE m
      BY <3>1, <3>3, TwoNumbers
    <3>5. Clamp(to) = Max({z, m})
      BY <3>1, <3>3 DEF Clamp
    <3> QED
      BY <2>2, <2>3, <3>1, <3>2, <3>3, <3>4, <3>5
  <2> HIDE DEF to, pos
  <2>5. portal' \in PortalStates /\ portal'.life = portal.life /\ portal'.at = Clamp(to)
    BY <1>0, <2>1, <2>4 DEF PortalStates
  <2>6. /\ sc' \in ServerCursors /\ sc'.page = sc.page /\ sc'.pos = pos
        /\ sc'.described = sc.described /\ sc'.withhold = sc.withhold
    BY <1>0, <2>1, <2>3 DEF ServerCursors
  <2>7. /\ history' \in PortalHistories /\ ~history'.alone
        /\ history'.skipped = history.skipped /\ history'.released = history.released
        /\ history'.exact =>
              /\ history.exact /\ to \in 0 .. TotalRows /\ portal.at <= TotalRows
              /\ mode = "absolute" => Unread(sc.page) = 0
    <3>1. PICK e \in BOOLEAN :
            /\ history' = [history EXCEPT !.alone = FALSE, !.exact = e]
            /\ e => /\ history.exact /\ to \in 0 .. TotalRows /\ portal.at <= TotalRows
                    /\ mode = "absolute" => Unread(sc.page) = 0
      BY <1>0, <2>1 DEF PortalHistories
    <3> QED
      BY <1>0, <3>1 DEF PortalHistories
  <2>8. PortalTypes'
    BY <1>0, <2>1, <2>5, <2>6, <2>7 DEF PortalTypes
  <2>9. PortalLives' /\ PageKnown'
    BY <2>1, <2>5, <2>6 DEF PortalIInv, PortalLives, PageKnown
  <2>10. PositionKept'
    <3> SUFFICES ASSUME history'.exact
                 PROVE  Exists' /\ sc'.pos + Unread(sc'.page) = Sent(portal'.at)
      BY <2>6, <2>7 DEF PortalIInv, PositionKept
    <3>1. Exists' /\ to \in 0 .. TotalRows /\ portal.at <= TotalRows
          /\ (mode = "absolute" => Unread(sc.page) = 0)
      BY <1>2, <2>5, <2>7 DEF Exists
    <3>2. sc.pos + Unread(sc.page) = portal.at
      BY <2>7, <3>1 DEF PortalIInv, PositionKept, Sent
    <3>3. Sent(portal'.at) = to
      BY <2>4, <2>5, <3>1 DEF Sent
    <3>4. pos + Unread(sc.page) = to
      <4>1. CASE mode = "relative"
        <5>1. pos = sc.pos + v /\ to = portal.at + v
          BY <4>1 DEF to, pos
        <5>2. \A a, b, c, d \in Int : a + b = c => (a + d) + b = c + d
          OBVIOUS
        <5>3. portal.at \in Int /\ Unread(sc.page) \in Int
          BY <2>2
        <5> QED
          BY <2>2, <3>2, <5>1, <5>2, <5>3
      <4>2. CASE mode = "absolute"
        <5>1. pos = v /\ to = v /\ Unread(sc.page) = 0
          BY <3>1, <4>2 DEF to, pos
        <5> QED
          BY <5>1
      <4> QED
        BY <4>1, <4>2
    <3> QED
      BY <2>6, <3>1, <3>3, <3>4
  <2> QED
    BY <2>7, <2>8, <2>9, <2>10 DEF PortalIInv, RowsKept
<1> QED
  BY <1>1, <1>2

\* A larger itersize ends what is known of the pages
LEMMA SetItersizeStep == \A size \in Itersizes : PortalIInv /\ SetItersize(size) => PortalIInv'
<1> SUFFICES ASSUME NEW size \in Itersizes, PortalIInv, SetItersize(size) PROVE PortalIInv'
  OBVIOUS
<1>0. PortalTypes /\ tx \in TxStates /\ sc \in ServerCursors /\ portal \in PortalStates
      /\ history \in PortalHistories
  BY DEF PortalIInv, PortalTypes
<1>1. /\ sc' = [sc EXCEPT !.itersize = size]
      /\ history' = [history EXCEPT !.alone = @ /\ (size <= sc.itersize \/ ~sc.page.fetched)]
      /\ portal' = portal /\ tx' = tx
  BY DEF SetItersize
<1>2. /\ sc' \in ServerCursors /\ sc'.page = sc.page /\ sc'.pos = sc.pos
      /\ sc'.described = sc.described /\ sc'.withhold = sc.withhold /\ sc'.itersize = size
  BY <1>0, <1>1 DEF ServerCursors
<1>3. PICK a \in BOOLEAN :
        /\ history' = [history EXCEPT !.alone = a]
        /\ a => history.alone /\ (size <= sc.itersize \/ ~sc.page.fetched)
  BY <1>0, <1>1 DEF PortalHistories
<1>4. /\ history' \in PortalHistories /\ history'.alone = a
      /\ history'.exact = history.exact /\ history'.next = history.next
      /\ history'.skipped = history.skipped /\ history'.released = history.released
  BY <1>0, <1>3 DEF PortalHistories
<1>5. PortalTypes' /\ PortalLives' /\ PageKnown' /\ PositionKept'
  BY <1>0, <1>1, <1>2, <1>4
     DEF PortalIInv, PortalTypes, PortalLives, PageKnown, PositionKept, Exists
<1>6. a => (PageDone(sc.page, size) => PageDone(sc.page, sc.itersize))
  <2>1. size \in Nat /\ sc.itersize \in Nat
    BY <1>0, PortalFields, ServerCursorAssumption DEF ServerCursorAssumption
  <2>2. Len(sc.page.rows) \in Nat
    BY <1>0, PortalFields
  <2> QED
    BY <1>3, <2>1, <2>2 DEF PageDone
<1>7. RowsKept'
  BY <1>1, <1>2, <1>3, <1>4, <1>6 DEF PortalIInv, RowsKept, Exists
<1> QED
  BY <1>4, <1>5, <1>7 DEF PortalIInv

\* A transaction ends: a portal that stays was asked for, and stays where it is
LEMMA EndTransactionStep == \A b \in BOOLEAN : PortalIInv /\ EndTransaction(b) => PortalIInv'
<1> SUFFICES ASSUME NEW b \in BOOLEAN, PortalIInv, EndTransaction(b) PROVE PortalIInv'
  OBVIOUS
<1>0. PortalTypes /\ tx \in TxStates /\ sc \in ServerCursors /\ portal \in PortalStates
      /\ history \in PortalHistories
  BY DEF PortalIInv, PortalTypes
<1>1. /\ tx' = [tx EXCEPT !.status = "idle"]
      /\ portal' = IF portal.life # "tx" THEN portal
                   ELSE IF b /\ Sane /\ sc.withhold THEN [portal EXCEPT !.life = "held"]
                   ELSE NoPortal
      /\ history' = [history EXCEPT !.exact = @ /\ portal'.life # "none"]
      /\ sc' = sc
  BY DEF EndTransaction
<1>2. tx' \in TxStates
  BY <1>0, <1>1 DEF TxStates
<1>3. /\ portal' \in PortalStates /\ portal'.life # "tx"
      /\ portal'.life = "held" => sc.withhold
      /\ portal'.life # "none" => portal'.at = portal.at /\ portal.life # "none"
  <2>1. NoPortal \in PortalStates /\ NoPortal.life = "none"
    BY ServerCursorAssumption DEF NoPortal, PortalStates, ServerCursorAssumption
  <2> QED
    BY <1>0, <1>1, <2>1 DEF PortalIInv, PortalLives, PortalStates
<1>4. PICK e \in BOOLEAN :
        history' = [history EXCEPT !.exact = e] /\ (e => history.exact /\ portal'.life # "none")
  BY <1>0, <1>1 DEF PortalHistories
<1>5. /\ history' \in PortalHistories /\ history'.exact = e
      /\ history'.alone = history.alone /\ history'.next = history.next
      /\ history'.skipped = history.skipped /\ history'.released = history.released
  BY <1>0, <1>4 DEF PortalHistories
<1>6. PortalTypes' /\ PortalLives' /\ PageKnown'
  BY <1>0, <1>1, <1>2, <1>3, <1>5 DEF PortalIInv, PortalTypes, PortalLives, PageKnown
<1>7. PositionKept' /\ RowsKept'
  BY <1>1, <1>3, <1>4, <1>5 DEF PortalIInv, PositionKept, RowsKept, Exists
<1> QED
  BY <1>5, <1>6, <1>7 DEF PortalIInv

\* Another cursor changes the transaction only
LEMMA OtherStatementStep == \A b \in BOOLEAN : PortalIInv /\ OtherStatement(b) => PortalIInv'
<1> SUFFICES ASSUME NEW b \in BOOLEAN, PortalIInv, OtherStatement(b) PROVE PortalIInv'
  OBVIOUS
<1>1. tx \in TxStates
  BY DEF PortalIInv, PortalTypes
<1> QED
  BY <1>1, TxSteps, OnlyTx DEF OtherStatement

\* A portal is opened otherwise only where there is none
LEMMA OtherDeclaresStep == PortalIInv /\ OtherDeclares => PortalIInv'
<1> SUFFICES ASSUME PortalIInv, OtherDeclares PROVE PortalIInv'
  OBVIOUS
<1>1. PortalTypes'
  BY ServerCursorAssumption
     DEF PortalIInv, PortalTypes, OtherDeclares, PortalStates, ServerCursorAssumption
<1> QED
  BY <1>1 DEF PortalIInv, PortalLives, PageKnown, PositionKept, RowsKept, OtherDeclares, Exists

\* The step of any action
LEMMA PortalStep == PortalIInv /\ [ServerCursorNext]_serverCursorVars => PortalIInv'
<1> SUFFICES ASSUME PortalIInv, [ServerCursorNext]_serverCursorVars PROVE PortalIInv'
  OBVIOUS
<1>1. CASE \E bad \in BOOLEAN : Declare(bad)
  BY <1>1, DeclareStep
<1>2. CASE CloseServerCursor
  BY <1>2, CloseStep
<1>3. CASE \E num \in {1, 2, TotalRows + 1} : ServerFetch(num)
  <2>1. {1, 2, TotalRows + 1} \subseteq Nat
    BY ServerCursorAssumption DEF ServerCursorAssumption
  <2> QED
    BY <1>3, <2>1, FetchStep
<1>4. CASE Next1
  BY <1>4, IterateStep
<1>5. CASE \E v \in -1 .. 2, mode \in {"relative", "absolute"} : ServerScroll(v, mode)
  BY <1>5, ScrollStep
<1>6. CASE \E size \in Itersizes : SetItersize(size)
  BY <1>6, SetItersizeStep
<1>7. CASE \E b \in BOOLEAN : EndTransaction(b) \/ OtherStatement(b)
  BY <1>7, EndTransactionStep, OtherStatementStep
<1>8. CASE OtherDeclares
  BY <1>8, OtherDeclaresStep
<1>9. CASE UNCHANGED serverCursorVars
  BY <1>9
     DEF serverCursorVars, PortalIInv, PortalTypes, PortalLives, PageKnown, PositionKept,
         RowsKept, Exists
<1> QED
  BY <1>1, <1>2, <1>3, <1>4, <1>5, <1>6, <1>7, <1>8, <1>9 DEF ServerCursorNext

(***************************************************************************)
(* A server cursor follows its portal: rownumber agrees with the position  *)
(* on the server, iteration alone gives every row once and in order, and   *)
(* close() leaves no portal (_server_cursor.py, _server_cursor_base.py).   *)
(***************************************************************************)
THEOREM PortalCorrect == ServerCursorSpec => []PortalFollowed
<1>1. ServerCursorSpec => []PortalIInv
  BY PortalInit, PortalStep, PTL DEF ServerCursorSpec
<1> QED
  BY <1>1, PortalImplied, PTL

-----------------------------------------------------------------------------
(***************************************************************************)
(* Client-side cursors.  The results the cursor holds and those still to   *)
(* come are the ones of the last call, in order, unless that was made      *)
(* before the answers to another one had come.                             *)
(***************************************************************************)

\* What the results are: an error has no rows
CurResults == {r \in [call : Nat, kind : {"tuples", "command", "error"}, n : Nat] :
                r.kind = "error" => r.n = 0}

\* What comes later is one result for each statement
Batches == {<<r>> : r \in CurResults}

\* The results the cursor holds, the one it is at and its position there
CurTypes(c) ==
    /\ c \in [closed : BOOLEAN, results : Seq(CurResults), selected : BOOLEAN,
              ires : Nat, pos : Nat, rowcount : Int,
              many : {"no", "returning", "count"}, single : BOOLEAN]
    /\ c.selected <=> c.results # <<>>
    /\ IF c.selected THEN c.ires \in DOMAIN c.results /\ c.pos <= c.results[c.ires].n
       ELSE c.ires = 1 /\ c.pos = 0
    /\ c.closed => c.many = "no" /\ c.pos = 0
    /\ c.many = "count" => c.results = <<>>

\* All the rows that some batches have or affected
TotalOf(q) == SumOf([i \in DOMAIN q |-> RowsOf(q[i])])

\* What the cursor holds and what is still to come, q, are all of the last
\* call; the program was given the rows of the current result up to the
\* position, and no others
Expecting(c, q, s) ==
    ~s.overlap =>
        /\ \A i \in DOMAIN c.results : c.results[i].call = s.calls
        /\ \A i \in DOMAIN q : q[i][1].call = s.calls
        /\ c.many = "count" => c.rowcount + TotalOf(q) = s.count
        /\ ~c.closed =>
            /\ c.selected => c.pos = s.next
            /\ q # <<>> /\ ~c.selected => s.next = 0
            /\ q # <<>> /\ c.many = "no" => ~c.selected /\ Len(q) = 1

\* The rows of a stream, its end and the null result
StreamResults == {"single", "tuples", "command", "error", "null", "copy"}
StreamLeft(q) ==
    /\ q \in Seq(StreamResults) /\ Len(q) >= 2
    /\ q[Len(q)] = "null" /\ q[Len(q) - 1] \in {"tuples", "command", "error"}
    /\ \A i \in 1 .. Len(q) - 2 : q[i] = "single"

CursorIInv ==
    /\ CurTypes(cur)
    /\ pipe \in [on : BOOLEAN, pending : Seq(Batches)]
    /\ seen \in [calls : Nat, next : Nat, inorder : BOOLEAN, overlap : BOOLEAN,
                 count : Nat, foreign : BOOLEAN]
    /\ stream.at \in {"off", "yielded"}
    /\ IF stream.at = "off" THEN stream.queue \in {<<>>, Copying}
       ELSE (StreamLeft(stream.queue) \/ stream.queue = Copying) /\ ~pipe.on /\ ~cur.selected
    /\ ~pipe.on => pipe.pending = <<>>
    /\ Expecting(cur, pipe.pending, seen)
    /\ ~seen.overlap => seen.inorder /\ ~seen.foreign

-----------------------------------------------------------------------------
(* Sums *)

\* f sums up the first m numbers one by one
SumsUp(f, ns, m) == f = [i \in 0 .. m |-> IF i = 0 THEN 0 ELSE f[i - 1] + ns[i]]

\* The first numbers of a sequence can be summed up
LEMMA SumExists ==
    ASSUME NEW ns, NEW n \in Nat
    PROVE  \E f : SumsUp(f, ns, n)
<1> DEFINE bad == {m \in Nat : ~ \E f : SumsUp(f, ns, m)}
<1> SUFFICES ASSUME bad # {} PROVE FALSE
  OBVIOUS
<1>1. PICK m \in bad : \A k \in bad : m <= k
  BY LeastNat
<1>2. CASE m = 0
  <2>1. SumsUp([i \in 0 .. 0 |-> 0], ns, 0)
    BY DEF SumsUp
  <2> QED
    BY <1>2, <2>1
<1>3. CASE m # 0
  <2>1. m - 1 \in Nat /\ m - 1 \notin bad /\ m \in Nat
    BY <1>1, <1>3
  <2>2. PICK f : SumsUp(f, ns, m - 1)
    BY <2>1
  <2> DEFINE g == [i \in 0 .. m |-> IF i = m THEN f[m - 1] + ns[m] ELSE f[i]]
  <2>3. \A i \in 0 .. m - 1 : f[i] = IF i = 0 THEN 0 ELSE f[i - 1] + ns[i]
    BY <2>2 DEF SumsUp
  <2>4. \A i \in 0 .. m : g[i] = IF i = 0 THEN 0 ELSE g[i - 1] + ns[i]
    <3> SUFFICES ASSUME NEW i \in 0 .. m
                 PROVE  g[i] = IF i = 0 THEN 0 ELSE g[i - 1] + ns[i]
      OBVIOUS
    <3>1. i # 0 => i - 1 \in 0 .. m - 1 /\ g[i - 1] = f[i - 1]
      BY <2>1
    <3>2. i # m => i \in 0 .. m - 1 /\ g[i] = f[i]
      BY <2>1
    <3>3. i = m => g[i] = f[m - 1] + ns[m]
      OBVIOUS
    <3> HIDE DEF g
    <3> QED
      BY <1>3, <2>3, <3>1, <3>2, <3>3
  <2>5. g = [i \in 0 .. m |-> g[i]]
    OBVIOUS
  <2> HIDE DEF g
  <2>6. SumsUp(g, ns, m)
    BY <2>4, <2>5 DEF SumsUp
  <2> QED
    BY <2>6
<1> QED
  BY <1>2, <1>3

\* What SumOf() sums up
LEMMA SumDef ==
    ASSUME NEW ns, Len(ns) \in Nat
    PROVE  \E f : SumsUp(f, ns, Len(ns)) /\ SumOf(ns) = f[Len(ns)]
<1>1. \E f : f = [i \in 0 .. Len(ns) |-> IF i = 0 THEN 0 ELSE f[i - 1] + ns[i]]
  BY SumExists DEF SumsUp
<1> DEFINE total == CHOOSE sum : sum = [i \in 0 .. Len(ns) |-> IF i = 0 THEN 0
                                                          ELSE sum[i - 1] + ns[i]]
<1>2. total = [i \in 0 .. Len(ns) |-> IF i = 0 THEN 0 ELSE total[i - 1] + ns[i]]
  BY <1>1, Zenon
<1>3. SumOf(ns) = total[Len(ns)]
  BY Zenon DEF SumOf
<1> HIDE DEF total
<1> QED
  BY <1>2, <1>3 DEF SumsUp

\* The sums are numbers
LEMMA SumsTyped ==
    ASSUME NEW n \in Nat, NEW s \in [1 .. n -> Nat], NEW f, SumsUp(f, s, n)
    PROVE  \A m \in 0 .. n : f[m] \in Nat
<1>1. \A i \in 0 .. n : f[i] = IF i = 0 THEN 0 ELSE f[i - 1] + s[i]
  BY DEF SumsUp
<1> DEFINE bad == {m \in Nat : m <= n /\ f[m] \notin Nat}
<1> SUFFICES ASSUME bad # {} PROVE FALSE
  OBVIOUS
<1>2. PICK m \in bad : \A k \in bad : m <= k
  BY LeastNat
<1>3. m \in 0 .. n /\ f[m] \notin Nat
  BY <1>2
<1>4. m # 0
  BY <1>1, <1>3
<1>5. m - 1 \in 0 .. n /\ m - 1 \notin bad /\ s[m] \in Nat
  BY <1>2, <1>3, <1>4
<1>6. f[m - 1] \in Nat
  BY <1>5
<1> QED
  BY <1>1, <1>3, <1>4, <1>5, <1>6

\* The n numbers s without the first one
Without(s, t, n) == n # 0 /\ \A i \in 1 .. n - 1 : t[i] = s[i + 1]

\* Those of a sequence without its first element are less by it
LEMMA SumsShifted ==
    ASSUME NEW n \in Nat, NEW s \in [1 .. n -> Nat], NEW f, SumsUp(f, s, n),
           NEW t, NEW g, SumsUp(g, t, n - 1), Without(s, t, n)
    PROVE  \A m \in 0 .. n - 1 : g[m] \in Nat /\ f[m + 1] = s[1] + g[m]
<1> n # 0 /\ \A i \in 1 .. n - 1 : t[i] = s[i + 1]
  BY DEF Without
<1>1. \A i \in 0 .. n : f[i] = IF i = 0 THEN 0 ELSE f[i - 1] + s[i]
  BY DEF SumsUp
<1> DEFINE bad == {m \in 0 .. n - 1 : ~(g[m] \in Nat /\ f[m + 1] = s[1] + g[m])}
<1> SUFFICES ASSUME bad # {} PROVE FALSE
  OBVIOUS
<1>2. PICK m \in bad : \A k \in bad : m <= k
  <2>1. bad \in SUBSET Nat
    OBVIOUS
  <2> HIDE DEF bad
  <2> QED
    BY <2>1, LeastNat
<1>3. m \in 0 .. n - 1 /\ ~(g[m] \in Nat /\ f[m + 1] = s[1] + g[m])
  BY <1>2
<1>4. \A i \in 0 .. n - 1 : g[i] = IF i = 0 THEN 0 ELSE g[i - 1] + t[i]
  BY DEF SumsUp
<1>5. s[1] \in Nat /\ s[m + 1] \in Nat /\ m + 1 \in 0 .. n /\ m + 1 # 0 /\ (m + 1) - 1 = m
  BY <1>3
<1>6. f[m + 1] = f[m] + s[m + 1]
  BY <1>1, <1>5
<1>7. m # 0
  <2>1. ASSUME m = 0 PROVE FALSE
    <3>1. f[0] = 0 /\ g[0] = 0
      BY <1>1, <1>4
    <3>2. f[1] = 0 + s[1]
      BY <1>6, <2>1, <3>1
    <3> QED
      BY <1>3, <1>5, <2>1, <3>1, <3>2
  <2> QED
    BY <2>1
<1>8. m - 1 \in 0 .. n - 1 /\ m - 1 \notin bad /\ (m - 1) + 1 = m /\ m \in 1 .. n - 1
  BY <1>2, <1>3, <1>7
<1>9. g[m - 1] \in Nat /\ f[m] = s[1] + g[m - 1]
  BY <1>8
<1>10. g[m] = g[m - 1] + s[m + 1]
  BY <1>4, <1>7, <1>8
<1>11. \A a, b, c \in Nat : (a + b) + c = a + (b + c) /\ b + c \in Nat
  OBVIOUS
<1> QED
  BY <1>3, <1>5, <1>6, <1>9, <1>10, <1>11

\* A sum, of nothing, of one number, and of one number and others
LEMMA SumFacts ==
    /\ SumOf(<<>>) = 0
    /\ \A s \in Seq(Nat) : SumOf(s) \in Nat /\ (s # <<>> => SumOf(s) = s[1] + SumOf(Tail(s)))
    /\ \A x \in Nat : SumOf(<<x>>) = x
<1>1. SumOf(<<>>) = 0
  <2>1. Len(<<>>) = 0
    OBVIOUS
  <2>2. PICK f : SumsUp(f, <<>>, 0) /\ SumOf(<<>>) = f[0]
    BY <2>1, SumDef
  <2> QED
    BY <2>2 DEF SumsUp
<1>2. ASSUME NEW s \in Seq(Nat)
      PROVE  SumOf(s) \in Nat /\ (s # <<>> => SumOf(s) = s[1] + SumOf(Tail(s)))
  <2> DEFINE n == Len(s)
  <2>1. n \in Nat /\ s \in [1 .. n -> Nat]
    OBVIOUS
  <2>2. PICK f : SumsUp(f, s, n) /\ SumOf(s) = f[n]
    BY <2>1, SumDef
  <2>3. \A m \in 0 .. n : f[m] \in Nat
    BY <2>1, <2>2, SumsTyped
  <2>4. SumOf(s) \in Nat
    BY <2>1, <2>2, <2>3
  <2>5. ASSUME s # <<>> PROVE SumOf(s) = s[1] + SumOf(Tail(s))
    <3> DEFINE t == Tail(s)
    <3>1. n # 0 /\ Len(t) = n - 1 /\ n - 1 \in Nat /\ \A i \in 1 .. n - 1 : t[i] = s[i + 1]
      BY <2>5
    <3>a. Without(s, t, n)
      BY <3>1 DEF Without
    <3> HIDE DEF t, n
    <3>2. PICK g : SumsUp(g, t, n - 1) /\ SumOf(t) = g[n - 1]
      BY <3>1, SumDef
    <3>3. \A m \in 0 .. n - 1 : f[m + 1] = s[1] + g[m]
      BY <2>1, <2>2, <3>a, <3>2, SumsShifted, SMTT(40)
    <3>4. n - 1 \in 0 .. n - 1 /\ (n - 1) + 1 = n
      BY <2>1, <3>1
    <3> QED
      BY <2>2, <3>2, <3>3, <3>4 DEF t
  <2> QED
    BY <2>4, <2>5
<1>3. ASSUME NEW x \in Nat PROVE SumOf(<<x>>) = x
  <2>1. <<x>> \in Seq(Nat) /\ <<x>> # <<>> /\ <<x>>[1] = x /\ Tail(<<x>>) = <<>>
    OBVIOUS
  <2>2. SumOf(<<x>>) = <<x>>[1] + SumOf(Tail(<<x>>))
    BY <1>2, <2>1
  <2>3. SumOf(<<x>>) = x + 0
    BY <1>1, <2>1, <2>2
  <2> QED
    BY <2>3
<1> QED
  BY <1>1, <1>2, <1>3

\* The rows of one result, and those of batches of one result each
LEMMA TotalFacts ==
    /\ TotalOf(<<>>) = 0
    /\ \A b \in Batches : RowsOf(b) = b[1].n /\ RowsOf(b) \in Nat
    /\ \A q \in Seq(Batches) :
        TotalOf(q) \in Nat /\ (q # <<>> => TotalOf(q) = q[1][1].n + TotalOf(Tail(q)))
<1>1. TotalOf(<<>>) = 0
  <2>1. [i \in DOMAIN <<>> |-> RowsOf(<<>>[i])] = <<>>
    OBVIOUS
  <2> QED
    BY <2>1, SumFacts DEF TotalOf
<1>2. ASSUME NEW b \in Batches PROVE RowsOf(b) = b[1].n /\ RowsOf(b) \in Nat
  <2>1. PICK r \in CurResults : b = <<r>>
    BY DEF Batches
  <2>2. r.n \in Nat
    BY DEF CurResults
  <2>3. [i \in DOMAIN b |-> b[i].n] = <<r.n>>
    BY <2>1
  <2> QED
    BY <2>1, <2>2, <2>3, SumFacts DEF RowsOf
<1>3. ASSUME NEW q \in Seq(Batches)
      PROVE  TotalOf(q) \in Nat /\ (q # <<>> => TotalOf(q) = q[1][1].n + TotalOf(Tail(q)))
  <2> DEFINE ns == [i \in DOMAIN q |-> RowsOf(q[i])]
  <2>1. Len(q) \in Nat /\ DOMAIN q = 1 .. Len(q) /\ \A i \in 1 .. Len(q) : q[i] \in Batches
    OBVIOUS
  <2>2. ns \in Seq(Nat) /\ Len(ns) = Len(q)
    BY <1>2, <2>1
  <2>3. TotalOf(q) = SumOf(ns)
    BY DEF TotalOf
  <2>4. ASSUME q # <<>> PROVE TotalOf(q) = q[1][1].n + TotalOf(Tail(q))
    <3>1. Tail(q) \in Seq(Batches) /\ Len(Tail(q)) = Len(q) - 1 /\ Len(q) # 0
          /\ \A i \in 1 .. Len(q) - 1 : Tail(q)[i] = q[i + 1]
      BY <2>4
    <3>2. DOMAIN Tail(q) = 1 .. Len(q) - 1 /\ 1 \in DOMAIN q
      BY <2>1, <3>1
    <3>3. /\ Tail(ns) \in Seq(Nat) /\ Len(Tail(ns)) = Len(q) - 1
          /\ \A i \in 1 .. Len(q) - 1 : Tail(ns)[i] = ns[i + 1]
      <4>1. ns # <<>>
        BY <2>2, <3>1
      <4> HIDE DEF ns
      <4> QED
        BY <2>2, <4>1
    <3>4. \A i \in 1 .. Len(q) - 1 : i + 1 \in DOMAIN q /\ ns[i + 1] = RowsOf(Tail(q)[i])
      BY <2>1, <3>1
    <3>5. Tail(ns) = [i \in DOMAIN Tail(q) |-> RowsOf(Tail(q)[i])]
      <4> DEFINE ms == [i \in DOMAIN Tail(q) |-> RowsOf(Tail(q)[i])]
      <4>1. \A i \in 1 .. Len(q) - 1 : RowsOf(Tail(q)[i]) \in Nat
        BY <1>2, <2>1, <3>1, <3>4
      <4>2. ms \in Seq(Nat) /\ Len(ms) = Len(q) - 1
            /\ \A i \in 1 .. Len(q) - 1 : ms[i] = RowsOf(Tail(q)[i])
        BY <2>1, <3>1, <3>2, <4>1
      <4> HIDE DEF ms, ns
      <4>3. \A i \in 1 .. Len(q) - 1 : Tail(ns)[i] = ms[i]
        BY <3>3, <3>4, <4>2
      <4>4. Tail(ns) = ms
        BY <3>3, <4>2, <4>3, SeqEqual
      <4> QED
        BY <4>4 DEF ms
    <3>6. TotalOf(Tail(q)) = SumOf(Tail(ns))
      BY <3>5 DEF TotalOf
    <3>7. ns # <<>> /\ ns[1] = RowsOf(q[1]) /\ q[1] \in Batches
      BY <2>1, <2>2, <3>1, <3>2
    <3> HIDE DEF ns
    <3> QED
      BY <1>2, <2>2, <2>3, <3>6, <3>7, SumFacts
  <2> QED
    BY <2>2, <2>3, <2>4, SumFacts
<1> QED
  BY <1>1, <1>2, <1>3


-----------------------------------------------------------------------------
(* The results that arrive are processed *)

\* f processes the first m batches one by one
Processing(f, c, q, m) ==
    f = [i \in 0 .. m |-> IF i = 0 THEN c ELSE Process(f[i - 1], q[i])]

\* The first batches can be processed
LEMMA ProcessExists ==
    ASSUME NEW c, NEW q, NEW n \in Nat
    PROVE  \E f : Processing(f, c, q, n)
<1> DEFINE bad == {m \in Nat : ~ \E f : Processing(f, c, q, m)}
<1> SUFFICES ASSUME bad # {} PROVE FALSE
  OBVIOUS
<1>1. PICK m \in bad : \A k \in bad : m <= k
  BY LeastNat
<1>2. CASE m = 0
  <2>1. Processing([i \in 0 .. 0 |-> c], c, q, 0)
    BY DEF Processing
  <2> QED
    BY <1>2, <2>1
<1>3. CASE m # 0
  <2>1. m - 1 \in Nat /\ m - 1 \notin bad /\ m \in Nat
    BY <1>1, <1>3
  <2>2. PICK f : Processing(f, c, q, m - 1)
    BY <2>1
  <2> DEFINE g == [i \in 0 .. m |-> IF i = m THEN Process(f[m - 1], q[m]) ELSE f[i]]
  <2>3. \A i \in 0 .. m - 1 : f[i] = IF i = 0 THEN c ELSE Process(f[i - 1], q[i])
    BY <2>2 DEF Processing
  <2>4. \A i \in 0 .. m : g[i] = IF i = 0 THEN c ELSE Process(g[i - 1], q[i])
    <3> SUFFICES ASSUME NEW i \in 0 .. m
                 PROVE  g[i] = IF i = 0 THEN c ELSE Process(g[i - 1], q[i])
      OBVIOUS
    <3>1. i # 0 => i - 1 \in 0 .. m - 1 /\ g[i - 1] = f[i - 1]
      BY <2>1
    <3>2. i # m => i \in 0 .. m - 1 /\ g[i] = f[i]
      BY <2>1
    <3>3. i = m => g[i] = Process(f[m - 1], q[m])
      OBVIOUS
    <3> HIDE DEF g
    <3> QED
      BY <1>3, <2>3, <3>1, <3>2, <3>3
  <2>5. g = [i \in 0 .. m |-> g[i]]
    OBVIOUS
  <2> HIDE DEF g
  <2>6. Processing(g, c, q, m)
    BY <2>4, <2>5 DEF Processing
  <2> QED
    BY <2>6
<1> QED
  BY <1>2, <1>3

\* What ProcessAll() does
LEMMA ProcessAllDef ==
    ASSUME NEW c, NEW q, Len(q) \in Nat
    PROVE  \E f : Processing(f, c, q, Len(q)) /\ ProcessAll(c, q) = f[Len(q)]
<1>0. PICK f : Processing(f, c, q, Len(q))
  BY ProcessExists
<1>1. f = [i \in 0 .. Len(q) |-> IF i = 0 THEN c ELSE Process(f[i - 1], q[i])]
  BY <1>0, Zenon DEF Processing
<1> DEFINE all == CHOOSE after : after = [i \in 0 .. Len(q) |->
                                            IF i = 0 THEN c ELSE Process(after[i - 1], q[i])]
<1>2. all = [i \in 0 .. Len(q) |-> IF i = 0 THEN c ELSE Process(all[i - 1], q[i])]
  BY <1>1, Zenon
<1>3. ProcessAll(c, q) = all[Len(q)]
  BY Zenon DEF ProcessAll
<1> HIDE DEF all
<1> QED
  BY <1>2, <1>3 DEF Processing

\* The fields of a cursor
CursorRecords == [closed : BOOLEAN, results : Seq(CurResults), selected : BOOLEAN,
            ires : Nat, pos : Nat, rowcount : Int,
            many : {"no", "returning", "count"}, single : BOOLEAN]

\* A result is selected
LEMMA SelectTypes ==
    ASSUME NEW c \in CursorRecords, NEW rs \in Seq(CurResults), NEW i \in DOMAIN rs, c.many # "count"
    PROVE  LET d == Select([c EXCEPT !.results = rs], i)
           IN  /\ CurTypes(d) <=> (c.closed => c.many = "no")
               /\ d \in CursorRecords /\ d.results = rs /\ d.selected /\ d.ires = i /\ d.pos = 0
               /\ d.closed = c.closed /\ d.many = c.many
<1> DEFINE e == [c EXCEPT !.results = rs]
           d == Select(e, i)
<1>1. i \in Nat /\ rs[i] \in CurResults /\ rs # <<>>
  OBVIOUS
<1>2. PICK n \in Nat : n = rs[i].n
  BY <1>1 DEF CurResults
<1>3. e \in CursorRecords /\ e.results = rs /\ e.closed = c.closed /\ e.many = c.many
  BY DEF CursorRecords
<1> HIDE DEF e
<1>a. d = [e EXCEPT !.ires = i, !.selected = TRUE, !.single = FALSE, !.pos = 0, !.rowcount = n]
  BY <1>2, <1>3 DEF Select
<1> HIDE DEF d
<1>4. /\ d \in CursorRecords /\ d.results = rs /\ d.selected /\ d.ires = i /\ d.pos = 0
      /\ d.closed = c.closed /\ d.many = c.many
  <2>1. d.results = rs /\ d.selected /\ d.ires = i /\ d.pos = 0 /\ d.closed = c.closed /\ d.many = c.many
    BY <1>3, <1>a DEF CursorRecords
  <2>2. d = [closed |-> e.closed, results |-> e.results, selected |-> TRUE, ires |-> i,
             pos |-> 0, rowcount |-> n, many |-> e.many, single |-> FALSE]
    BY <1>3, <1>a DEF CursorRecords
  <2>3. d \in CursorRecords
    BY <1>1, <1>3, <2>2 DEF CursorRecords
  <2> QED
    BY <2>1, <2>3
<1>5. CurTypes(d) <=> (c.closed => c.many = "no")
  BY <1>1, <1>2, <1>4 DEF CurTypes, CursorRecords
<1> QED
  BY <1>4, <1>5 DEF d, e

\* A batch is processed: the types
LEMMA ProcessTypes ==
    ASSUME NEW c, CurTypes(c), NEW b \in Batches
    PROVE  /\ CurTypes(Process(c, b))
           /\ Process(c, b).closed = c.closed /\ Process(c, b).many = c.many
           /\ IF Failed(b) THEN Process(c, b) = c /\ b[1].n = 0
              ELSE CASE c.many = "no" -> /\ Process(c, b).results = b /\ Process(c, b).selected
                                         /\ Process(c, b).pos = 0
                     [] c.many = "returning" ->
                            /\ Process(c, b).results = c.results \o b
                            /\ Process(c, b).selected /\ Process(c, b).pos = c.pos
                     [] c.many = "count" ->
                            /\ Process(c, b).results = c.results /\ ~Process(c, b).selected
                            /\ Process(c, b).pos = c.pos
                            /\ Process(c, b).rowcount = c.rowcount + b[1].n
<1> DEFINE d == Process(c, b)
<1>1. c \in CursorRecords /\ c.many \in {"no", "returning", "count"}
  BY DEF CurTypes, CursorRecords
<1>2. PICK r \in CurResults : b = <<r>>
  BY DEF Batches
<1>3. /\ b \in Seq(CurResults) /\ 1 \in DOMAIN b /\ b # <<>> /\ b[1] = r
      /\ Failed(b) <=> r.kind = "error"
  BY <1>2 DEF Failed
<1>4. CASE Failed(b)
  <2>1. d = c
    BY <1>4 DEF Process
  <2>2. b[1].n = 0
    BY <1>3, <1>4 DEF CurResults
  <2> HIDE DEF d
  <2> QED
    BY <1>4, <2>1, <2>2 DEF d
<1>5. CASE ~Failed(b) /\ c.many = "no"
  <2>1. d = Select([c EXCEPT !.results = b], 1)
    BY <1>5 DEF Process, SetResults
  <2> HIDE DEF d
  <2>2. CurTypes(d) /\ d.results = b /\ d.selected /\ d.pos = 0 /\ d.closed = c.closed /\ d.many = c.many
    BY <1>1, <1>3, <1>5, <2>1, SelectTypes
  <2> QED
    BY <1>5, <2>2 DEF d
<1>6. CASE ~Failed(b) /\ c.many = "returning" /\ c.results = <<>>
  <2>1. d = Select([c EXCEPT !.results = b], 1)
    BY <1>6 DEF Process, SetResults
  <2>2. ~c.closed /\ c.pos = 0 /\ c.results \o b = b
    BY <1>3, <1>6 DEF CurTypes
  <2> HIDE DEF d
  <2>3. CurTypes(d) /\ d.results = b /\ d.selected /\ d.pos = 0 /\ d.closed = c.closed /\ d.many = c.many
    BY <1>1, <1>3, <1>6, <2>1, <2>2, SelectTypes
  <2> QED
    BY <1>6, <2>2, <2>3 DEF d
<1>7. CASE ~Failed(b) /\ c.many = "returning" /\ c.results # <<>>
  <2>1. d = [c EXCEPT !.results = c.results \o b]
    BY <1>7 DEF Process, SetResults
  <2> HIDE DEF d
  <2>2. /\ c.results \in Seq(CurResults) /\ c.selected /\ c.ires \in DOMAIN c.results
        /\ c.pos <= c.results[c.ires].n
    BY <1>1, <1>7 DEF CurTypes, CursorRecords
  <2>3. /\ c.results \o b \in Seq(CurResults) /\ c.results \o b # <<>>
        /\ c.ires \in DOMAIN (c.results \o b) /\ (c.results \o b)[c.ires] = c.results[c.ires]
    <3>1. PICK s \in Seq(CurResults) : s = c.results
      BY <2>2
    <3>2. /\ s \o b \in Seq(CurResults) /\ Len(s \o b) = Len(s) + Len(b)
          /\ \A i \in 1 .. Len(s) : (s \o b)[i] = s[i]
      BY <1>3
    <3>3. c.ires \in 1 .. Len(s) /\ Len(s) \in Nat /\ Len(b) \in Nat
      BY <1>3, <2>2, <3>1
    <3>4. c.ires \in DOMAIN (s \o b) /\ s \o b # <<>>
      BY <3>2, <3>3
    <3> QED
      BY <3>1, <3>2, <3>3, <3>4
  <2>4. PICK t : t = c.results \o b
    OBVIOUS
  <2>5. /\ d \in CursorRecords /\ d.results = t /\ d.selected = c.selected /\ d.ires = c.ires
        /\ d.pos = c.pos /\ d.closed = c.closed /\ d.many = c.many
    BY <1>1, <2>1, <2>3, <2>4 DEF CursorRecords
  <2>6. CurTypes(d)
    BY <1>7, <2>2, <2>3, <2>4, <2>5 DEF CurTypes, CursorRecords
  <2> QED
    BY <1>7, <2>2, <2>4, <2>5, <2>6 DEF d
<1>8. CASE ~Failed(b) /\ c.many = "count"
  <2>1. d = [c EXCEPT !.rowcount = c.rowcount + RowsOf(b)]
    BY <1>8 DEF Process, SetResults
  <2>2. RowsOf(b) = b[1].n /\ RowsOf(b) \in Nat /\ c.rowcount \in Int
    BY <1>1, TotalFacts DEF CursorRecords
  <2>a. PICK n \in Int : n = c.rowcount + RowsOf(b)
    BY <2>2
  <2> HIDE DEF d
  <2>3. /\ d \in CursorRecords /\ d.results = c.results /\ d.selected = c.selected /\ d.ires = c.ires
        /\ d.pos = c.pos /\ d.closed = c.closed /\ d.many = c.many
        /\ d.rowcount = c.rowcount + b[1].n
    BY <1>1, <2>1, <2>2, <2>a DEF CursorRecords
  <2>4. CurTypes(d) /\ ~c.selected
    BY <1>8, <2>3 DEF CurTypes, CursorRecords
  <2> QED
    BY <1>8, <2>3, <2>4 DEF d
<1> QED
  BY <1>1, <1>4, <1>5, <1>6, <1>7, <1>8

\* A batch is processed: what the cursor holds is still of the last call
LEMMA ProcessExpected ==
    ASSUME NEW c, CurTypes(c), NEW q \in Seq(Batches), q # <<>>, NEW s, Expecting(c, q, s)
    PROVE  CurTypes(Process(c, q[1])) /\ Expecting(Process(c, q[1]), Tail(q), s)
           /\ Process(c, q[1]).closed = c.closed
<1> DEFINE b == q[1]
           d == Process(c, b)
<1>1. /\ b \in Batches /\ Tail(q) \in Seq(Batches) /\ 1 \in DOMAIN q
      /\ \A i \in DOMAIN Tail(q) : i + 1 \in DOMAIN q /\ Tail(q)[i] = q[i + 1]
      /\ Len(q) = 1 => Tail(q) = <<>>
  <2>1. /\ Len(q) \in Nat /\ Len(q) # 0 /\ DOMAIN q = 1 .. Len(q)
        /\ \A i \in 1 .. Len(q) : q[i] \in Batches
    OBVIOUS
  <2>2. /\ Tail(q) \in Seq(Batches) /\ Len(Tail(q)) = Len(q) - 1
        /\ \A i \in 1 .. Len(q) - 1 : Tail(q)[i] = q[i + 1]
    OBVIOUS
  <2>3. DOMAIN Tail(q) = 1 .. Len(q) - 1
    BY <2>2
  <2>4. Len(q) = 1 => Tail(q) = <<>>
    <3>1. \A z \in Seq(Batches) : Len(z) = 0 => z = <<>>
      OBVIOUS
    <3>2. ASSUME Len(q) = 1 PROVE Len(Tail(q)) = 0
      BY <2>2, <3>2
    <3> QED
      BY <2>2, <3>1, <3>2, Zenon
  <2> QED
    BY <2>1, <2>2, <2>3, <2>4
<1>2. /\ CurTypes(d) /\ d.closed = c.closed /\ d.many = c.many
      /\ IF Failed(b) THEN d = c /\ b[1].n = 0
         ELSE CASE c.many = "no" -> d.results = b /\ d.selected /\ d.pos = 0
                [] c.many = "returning" -> d.results = c.results \o b /\ d.selected /\ d.pos = c.pos
                [] c.many = "count" -> /\ d.results = c.results /\ ~d.selected /\ d.pos = c.pos
                                       /\ d.rowcount = c.rowcount + b[1].n
  BY <1>1, ProcessTypes
<1> HIDE DEF d
<1>3. c \in CursorRecords /\ (c.selected <=> c.results # <<>>) /\ (~c.selected => c.pos = 0)
      /\ c.many \in {"no", "returning", "count"} /\ (c.many = "count" => c.results = <<>>)
  BY DEF CurTypes, CursorRecords
<1>4. TotalOf(q) = b[1].n + TotalOf(Tail(q)) /\ TotalOf(Tail(q)) \in Nat /\ b[1].n \in Nat
      /\ c.rowcount \in Int
  <2>1. b[1].n \in Nat
    BY <1>1, TotalFacts
  <2> QED
    BY <1>1, <1>3, <2>1, TotalFacts DEF CursorRecords
<1>5. ASSUME ~s.overlap
      PROVE  /\ \A i \in DOMAIN d.results : d.results[i].call = s.calls
             /\ \A i \in DOMAIN Tail(q) : Tail(q)[i][1].call = s.calls
             /\ d.many = "count" => d.rowcount + TotalOf(Tail(q)) = s.count
             /\ ~d.closed =>
                 /\ d.selected => d.pos = s.next
                 /\ Tail(q) # <<>> /\ ~d.selected => s.next = 0
                 /\ Tail(q) # <<>> /\ d.many = "no" => ~d.selected /\ Len(Tail(q)) = 1
  <2>1. /\ \A i \in DOMAIN c.results : c.results[i].call = s.calls
        /\ \A i \in DOMAIN q : q[i][1].call = s.calls
        /\ c.many = "count" => c.rowcount + TotalOf(q) = s.count
        /\ ~c.closed =>
            /\ c.selected => c.pos = s.next
            /\ ~c.selected => s.next = 0
            /\ c.many = "no" => ~c.selected /\ Len(q) = 1
    BY <1>5 DEF Expecting
  <2>2. \A i \in DOMAIN Tail(q) : Tail(q)[i][1].call = s.calls
    BY <1>1, <2>1
  <2>3. PICK r \in CurResults : b = <<r>> /\ r.call = s.calls
    BY <1>1, <2>1 DEF Batches
  <2>4. \A i \in DOMAIN d.results : d.results[i].call = s.calls
    <3>1. CASE Failed(b)
      BY <1>2, <2>1, <3>1
    <3>2. CASE ~Failed(b) /\ c.many = "no"
      <4>1. d.results = <<r>>
        BY <1>2, <2>3, <3>2
      <4> QED
        BY <2>3, <4>1
    <3>3. CASE ~Failed(b) /\ c.many = "returning"
      <4>1. PICK t \in Seq(CurResults) : t = c.results
        BY <1>3 DEF CursorRecords
      <4>2. d.results = t \o <<r>>
        BY <1>2, <2>3, <3>3, <4>1
      <4>3. \A i \in DOMAIN (t \o <<r>>) : (i \in DOMAIN t /\ (t \o <<r>>)[i] = t[i])
                                          \/ (t \o <<r>>)[i] = r
        OBVIOUS
      <4> QED
        BY <2>1, <2>3, <4>1, <4>2, <4>3
    <3>4. CASE ~Failed(b) /\ c.many = "count"
      BY <1>2, <2>1, <3>4
    <3> QED
      BY <1>3, <3>1, <3>2, <3>3, <3>4
  <2>5. d.many = "count" => d.rowcount + TotalOf(Tail(q)) = s.count
    <3> SUFFICES ASSUME d.many = "count" PROVE d.rowcount + TotalOf(Tail(q)) = s.count
      OBVIOUS
    <3>1. c.rowcount + (b[1].n + TotalOf(Tail(q))) = s.count
      BY <1>2, <1>4, <2>1
    <3>2. d.rowcount = c.rowcount + b[1].n
      <4>1. CASE Failed(b)
        BY <1>2, <1>4, <4>1
      <4>2. CASE ~Failed(b)
        BY <1>2, <4>2
      <4> QED
        BY <4>1, <4>2
    <3>3. \A x \in Int : \A y, z \in Nat : (x + y) + z = x + (y + z)
      OBVIOUS
    <3> QED
      BY <1>4, <3>1, <3>2, <3>3
  <2>6. ASSUME ~d.closed
        PROVE  /\ d.selected => d.pos = s.next
               /\ Tail(q) # <<>> /\ ~d.selected => s.next = 0
               /\ Tail(q) # <<>> /\ d.many = "no" => ~d.selected /\ Len(Tail(q)) = 1
    <3>1. d.many = "no" => Tail(q) = <<>>
      BY <1>1, <1>2, <2>1, <2>6
    <3>2. c.pos = s.next
      BY <1>2, <1>3, <2>1, <2>6
    <3>3. ~d.selected => ~c.selected
      BY <1>2, <1>3, <2>1, <2>6
    <3>4. d.selected => d.pos = s.next
      BY <1>2, <1>3, <2>1, <2>6, <3>2
    <3>5. Tail(q) # <<>> /\ ~d.selected => s.next = 0
      BY <1>2, <2>1, <2>6, <3>3
    <3> QED
      BY <3>1, <3>4, <3>5
  <2> QED
    BY <2>2, <2>4, <2>5, <2>6
<1>6. Expecting(d, Tail(q), s)
  BY <1>5 DEF Expecting
<1> QED
  BY <1>2, <1>6 DEF d

\* What is left of a sequence from its j-th element on
LEMMA SuffixFacts ==
    ASSUME NEW q \in Seq(Batches)
    PROVE  /\ \A j \in 1 .. Len(q) :
                /\ SubSeq(q, j, Len(q)) \in Seq(Batches) /\ SubSeq(q, j, Len(q)) # <<>>
                /\ SubSeq(q, j, Len(q))[1] = q[j]
                /\ Tail(SubSeq(q, j, Len(q))) = SubSeq(q, j + 1, Len(q))
           /\ SubSeq(q, 1, Len(q)) = q
           /\ SubSeq(q, Len(q) + 1, Len(q)) = <<>>
           /\ \A k \in 0 .. Len(q) :
                /\ SubSeq(q, 1, k) \in Seq(Batches) /\ Len(SubSeq(q, 1, k)) = k
                /\ \A i \in 1 .. k : SubSeq(q, 1, k)[i] = q[i]
                /\ SubSeq(q, k + 1, Len(q)) \in Seq(Batches)
<1> DEFINE n == Len(q)
<1>1. n \in Nat /\ \A i \in 1 .. n : q[i] \in Batches
  OBVIOUS
<1>2. ASSUME NEW j \in 1 .. n + 1
      PROVE  /\ SubSeq(q, j, n) \in Seq(Batches) /\ Len(SubSeq(q, j, n)) = n - j + 1
             /\ \A i \in 1 .. n - j + 1 : SubSeq(q, j, n)[i] = q[j + i - 1]
  <2>1. j \in Nat /\ j \in 1 .. n + 1 /\ n - j + 1 \in 0 .. n
    BY <1>1
  <2>2. \A i \in j .. n : q[i] \in Batches
    BY <1>1, <2>1
  <2> QED
    BY <1>1, <2>1, <2>2
<1>3. ASSUME NEW j \in 1 .. n
      PROVE  /\ SubSeq(q, j, n) \in Seq(Batches) /\ SubSeq(q, j, n) # <<>>
             /\ SubSeq(q, j, n)[1] = q[j]
             /\ Tail(SubSeq(q, j, n)) = SubSeq(q, j + 1, n)
  <2>1. j \in 1 .. n + 1 /\ j + 1 \in 1 .. n + 1 /\ n - j + 1 \in Nat /\ n - j + 1 # 0
        /\ j + 1 - 1 = j /\ n - (j + 1) + 1 = (n - j + 1) - 1
    BY <1>1
  <2>2. PICK t \in Seq(Batches) : t = SubSeq(q, j, n)
    BY <1>2, <2>1
  <2>3. PICK u \in Seq(Batches) : u = SubSeq(q, j + 1, n)
    BY <1>2, <2>1
  <2>4. Len(t) = n - j + 1 /\ \A i \in 1 .. n - j + 1 : t[i] = q[j + i - 1]
    BY <1>2, <2>1, <2>2
  <2>5. Len(u) = (n - j + 1) - 1 /\ \A i \in 1 .. (n - j + 1) - 1 : u[i] = q[(j + 1) + i - 1]
    BY <1>2, <2>1, <2>3
  <2>6. t # <<>> /\ t[1] = q[j]
    BY <2>1, <2>4
  <2>7. /\ Tail(t) \in Seq(Batches) /\ Len(Tail(t)) = Len(t) - 1
        /\ \A i \in 1 .. Len(t) - 1 : Tail(t)[i] = t[i + 1]
    BY <2>6
  <2>8. \A i \in 1 .. (n - j + 1) - 1 : i + 1 \in 1 .. n - j + 1 /\ j + (i + 1) - 1 = (j + 1) + i - 1
    BY <1>1, <2>1
  <2>9. Len(Tail(t)) = Len(u) /\ \A i \in 1 .. Len(u) : Tail(t)[i] = u[i]
    BY <2>4, <2>5, <2>7, <2>8
  <2>10. Tail(t) = u
    BY <2>7, <2>9, SeqEqual
  <2> QED
    BY <2>2, <2>3, <2>6, <2>10
<1>4. ASSUME NEW k \in 0 .. n
      PROVE  /\ SubSeq(q, 1, k) \in Seq(Batches) /\ Len(SubSeq(q, 1, k)) = k
             /\ \A i \in 1 .. k : SubSeq(q, 1, k)[i] = q[i]
             /\ SubSeq(q, k + 1, n) \in Seq(Batches)
  <2>1. \A i \in 1 .. k : q[i] \in Batches
    BY <1>1
  <2>2. k + 1 \in 1 .. n + 1
    BY <1>1
  <2>3. /\ SubSeq(q, 1, k) \in Seq(Batches) /\ Len(SubSeq(q, 1, k)) = k
        /\ \A i \in 1 .. k : SubSeq(q, 1, k)[i] = q[i]
    BY <1>1, <2>1
  <2> QED
    BY <1>2, <2>2, <2>3
<1>5. SubSeq(q, 1, n) = q
  <2>1. PICK t \in Seq(Batches) : t = SubSeq(q, 1, n)
    BY <1>1, <1>4
  <2>2. n \in 0 .. n
    BY <1>1
  <2>3. Len(t) = Len(q) /\ \A i \in 1 .. Len(q) : t[i] = q[i]
    BY <1>4, <2>1, <2>2
  <2>4. t = q
    BY <2>3, SeqEqual
  <2> QED
    BY <2>1, <2>4
<1>6. SubSeq(q, n + 1, n) = <<>>
  <2>1. n + 1 \in 1 .. n + 1 /\ n - (n + 1) + 1 = 0
    BY <1>1
  <2>2. PICK t \in Seq(Batches) : t = SubSeq(q, n + 1, n) /\ Len(t) = 0
    BY <1>2, <2>1
  <2>3. t = <<>>
    BY <2>2
  <2> QED
    BY <2>2, <2>3
<1> QED
  BY <1>3, <1>4, <1>5, <1>6

\* The cursor d that c becomes, with q still to come
Becomes(c, d, q, s) == CurTypes(d) /\ Expecting(d, q, s) /\ d.closed = c.closed

\* The first k batches are processed
LEMMA Processed ==
    ASSUME NEW c, CurTypes(c), NEW q \in Seq(Batches), NEW s, Expecting(c, q, s),
           NEW k \in 0 .. Len(q)
    PROVE  Becomes(c, ProcessAll(c, SubSeq(q, 1, k)), SubSeq(q, k + 1, Len(q)), s)
<1>1. PICK p \in Seq(Batches) : p = SubSeq(q, 1, k)
  BY SuffixFacts
<1>2. Len(p) = k /\ \A i \in 1 .. k : p[i] = q[i]
  BY <1>1, SuffixFacts
<1>3. k \in Nat /\ Len(q) \in Nat /\ k <= Len(q)
  OBVIOUS
<1>4. PICK f : Processing(f, c, p, k) /\ ProcessAll(c, p) = f[k]
  <2>1. Len(p) \in Nat
    BY <1>2, <1>3
  <2> QED
    BY <1>2, <2>1, ProcessAllDef
<1>5. \A i \in 0 .. k : f[i] = IF i = 0 THEN c ELSE Process(f[i - 1], p[i])
  BY <1>4 DEF Processing
<1> DEFINE bad == {j \in 0 .. k : ~Becomes(c, f[j], SubSeq(q, j + 1, Len(q)), s)}
<1>6. ASSUME bad # {} PROVE FALSE
  <2>1. PICK j \in bad : \A i \in bad : j <= i
    <3>1. bad \in SUBSET Nat
      OBVIOUS
    <3> HIDE DEF bad
    <3> QED
      BY <1>6, <3>1, LeastNat
  <2>2. j \in 0 .. k /\ ~Becomes(c, f[j], SubSeq(q, j + 1, Len(q)), s)
    BY <2>1
  <2>3. CASE j = 0
    <3>1. f[0] = c
      BY <1>3, <1>5
    <3>2. SubSeq(q, j + 1, Len(q)) = q
      <4>1. j + 1 = 1
        BY <2>3
      <4> QED
        BY <4>1, SuffixFacts
    <3>3. Becomes(c, f[j], q, s)
      BY <2>3, <3>1 DEF Becomes
    <3> QED
      BY <2>2, <3>2, <3>3
  <2>4. CASE j # 0
    <3>1. j \in 1 .. k /\ j \in 1 .. Len(q) /\ j - 1 \in 0 .. k /\ (j - 1) + 1 = j /\ ~(j <= j - 1)
      BY <1>3, <2>2, <2>4
    <3>2. j - 1 \notin bad
      BY <2>1, <3>1
    <3>3. Becomes(c, f[j - 1], SubSeq(q, j, Len(q)), s)
      BY <3>1, <3>2
    <3>4. PICK r \in Seq(Batches) : r = SubSeq(q, j, Len(q))
      BY <3>1, SuffixFacts
    <3>5. r # <<>> /\ r[1] = p[j] /\ Tail(r) = SubSeq(q, j + 1, Len(q))
      BY <1>2, <3>1, <3>4, SuffixFacts
    <3>6. PICK e : e = f[j - 1]
      OBVIOUS
    <3>7. CurTypes(e) /\ Expecting(e, r, s) /\ e.closed = c.closed
      BY <3>3, <3>4, <3>6 DEF Becomes
    <3>8. CurTypes(Process(e, r[1])) /\ Expecting(Process(e, r[1]), Tail(r), s)
          /\ Process(e, r[1]).closed = e.closed
      BY <3>5, <3>7, ProcessExpected
    <3>9. f[j] = Process(e, r[1])
      BY <1>5, <2>2, <2>4, <3>5, <3>6
    <3>10. Becomes(c, f[j], SubSeq(q, j + 1, Len(q)), s)
      BY <3>5, <3>7, <3>8, <3>9 DEF Becomes
    <3> QED
      BY <2>2, <3>10
  <2> QED
    BY <2>3, <2>4
<1>7. k \in 0 .. k
  BY <1>3
<1>8. Becomes(c, f[k], SubSeq(q, k + 1, Len(q)), s)
  BY <1>6, <1>7
<1> QED
  BY <1>1, <1>4, <1>8

\* All of them are
LEMMA ProcessedAll ==
    ASSUME NEW c, CurTypes(c), NEW q \in Seq(Batches), NEW s, Expecting(c, q, s)
    PROVE  Becomes(c, ProcessAll(c, q), <<>>, s)
<1>1. Len(q) \in 0 .. Len(q)
  OBVIOUS
<1>2. SubSeq(q, 1, Len(q)) = q /\ SubSeq(q, Len(q) + 1, Len(q)) = <<>>
  BY SuffixFacts
<1> QED
  BY <1>1, <1>2, Processed

-----------------------------------------------------------------------------
(* The steps of the cursor *)

\* The history of a program
Histories == [calls : Nat, next : Nat, inorder : BOOLEAN, overlap : BOOLEAN,
              count : Nat, foreign : BOOLEAN]

\* A history with no row out of order and none of another call
Honest(s) == s \in Histories /\ (~s.overlap => s.inorder /\ ~s.foreign)

\* What the invariant says
LEMMA CursorFacts ==
    ASSUME CursorIInv
    PROVE  /\ CurTypes(cur) /\ cur \in CursorRecords /\ Honest(seen)
           /\ pipe \in [on : BOOLEAN, pending : Seq(Batches)]
           /\ ~pipe.on => pipe.pending = <<>>
           /\ Expecting(cur, pipe.pending, seen)
           /\ Free => stream.queue \in {<<>>, Copying}
  BY DEF CursorIInv, CurTypes, CursorRecords, Honest, Histories, Free

\* The invariant, when no stream is under way and the steps leave it so
LEMMA CursorFree ==
    ASSUME CurTypes(cur'), Honest(seen'), pipe' \in [on : BOOLEAN, pending : Seq(Batches)],
           (~pipe.on => pipe.pending = <<>>)', Expecting(cur', pipe'.pending, seen'),
           CursorIInv, Free, UNCHANGED stream
    PROVE  CursorIInv'
  BY DEF CursorIInv, Honest, Histories, Free

\* The cursor is reset: it holds nothing
LEMMA ResetFacts ==
    ASSUME NEW c \in CursorRecords
    PROVE  /\ Reset(c) \in CursorRecords /\ Reset(c).closed = c.closed /\ Reset(c).results = <<>>
           /\ ~Reset(c).selected /\ Reset(c).ires = 1 /\ Reset(c).pos = 0
           /\ Reset(c).many = "no" /\ CurTypes(Reset(c))
<1> DEFINE d == Reset(c)
<1>b. PICK n \in Int : n = -1
  <2>1. -1 \in Int
    OBVIOUS
  <2> QED
    BY <2>1
<1>0. PICK e \in Seq(CurResults) : e = <<>>
  <2>1. <<>> \in Seq(CurResults)
    OBVIOUS
  <2> QED
    BY <2>1
<1>a. d = [c EXCEPT !.results = e, !.selected = FALSE, !.pos = 0, !.ires = 1, !.rowcount = n,
                    !.many = "no", !.single = FALSE]
  BY <1>0, <1>b DEF Reset
<1> HIDE DEF d
<1>1. d = [closed |-> c.closed, results |-> e, selected |-> FALSE, ires |-> 1, pos |-> 0,
           rowcount |-> n, many |-> "no", single |-> FALSE]
  BY <1>a DEF CursorRecords
<1>2. c.closed \in BOOLEAN
  BY DEF CursorRecords
<1>3. d \in CursorRecords
  BY <1>1, <1>2 DEF CursorRecords
<1>4. CurTypes(d)
  BY <1>0, <1>1, <1>3 DEF CurTypes, CursorRecords
<1>5. /\ d.closed = c.closed /\ d.results = <<>> /\ ~d.selected /\ d.ires = 1 /\ d.pos = 0
      /\ d.many = "no"
  BY <1>0, <1>1
<1> QED
  BY <1>3, <1>4, <1>5 DEF d

\* The results of any statements have rows that can be counted
LEMMA RowsTyped ==
    ASSUME NEW rs \in Seq(CurResults)
    PROVE  RowsOf(rs) \in Nat /\ TotalOf(<<rs>>) = RowsOf(rs)
<1> DEFINE ns == [i \in DOMAIN rs |-> rs[i].n]
<1>1. \A i \in DOMAIN rs : rs[i].n \in Nat
  BY DEF CurResults
<1>2. ns \in Seq(Nat)
  BY <1>1
<1>3. RowsOf(rs) \in Nat
  <2> HIDE DEF ns
  <2>1. SumOf(ns) \in Nat
    BY <1>2, SumFacts
  <2> QED
    BY <2>1 DEF RowsOf, ns
<1>4. [i \in DOMAIN <<rs>> |-> RowsOf(<<rs>>[i])] = <<RowsOf(rs)>>
  OBVIOUS
<1>5. TotalOf(<<rs>>) = SumOf(<<RowsOf(rs)>>)
  BY <1>4 DEF TotalOf
<1> QED
  BY <1>3, <1>5, SumFacts

\* A call starts, its history
LEMMA CalledFacts ==
    ASSUME CursorIInv, NEW q, TotalOf(q) \in Nat
    PROVE  /\ Honest(Called(q)) /\ Called(q).calls = Call /\ Called(q).next = 0
           /\ Called(q).count = TotalOf(q)
           /\ ~Called(q).overlap => pipe.pending = <<>>
           /\ Call \in Nat
<1>1. PICK n \in Nat : n = TotalOf(q)
  OBVIOUS
<1>2. Called(q) = [calls |-> Call, next |-> 0, inorder |-> TRUE,
                   overlap |-> pipe.pending # <<>>, foreign |-> FALSE, count |-> n]
  BY <1>1 DEF Called, Call, TotalOf
<1>3. Call \in Nat
  BY DEF CursorIInv, Call
<1>4. PICK v \in BOOLEAN : v = (pipe.pending # <<>>)
  OBVIOUS
<1>5. Called(q) = [calls |-> Call, next |-> 0, inorder |-> TRUE, overlap |-> v,
                   foreign |-> FALSE, count |-> n]
  BY <1>2, <1>4
<1>6. Honest(Called(q))
  BY <1>3, <1>5 DEF Honest, Histories
<1>7. PICK s : s = Called(q)
  OBVIOUS
<1>8. s.calls = Call /\ s.next = 0 /\ s.count = n /\ s.overlap = v
  BY <1>5, <1>7
<1>9. ~s.overlap => pipe.pending = <<>>
  BY <1>4, <1>8
<1> QED
  BY <1>1, <1>3, <1>6, <1>7, <1>8, <1>9

\* Some answers arrive, of those that are expected
LEMMA ArriveExpected ==
    ASSUME NEW c, CurTypes(c), NEW q \in Seq(Batches), NEW s, Expecting(c, q, s),
           NEW k \in 0 .. Len(q), Arrive(c, q, k),
           pipe \in [on : BOOLEAN, pending : Seq(Batches)]
    PROVE  /\ CurTypes(cur') /\ Expecting(cur', pipe'.pending, s)
           /\ pipe' \in [on : BOOLEAN, pending : Seq(Batches)] /\ pipe'.on = pipe.on
<1>1. PICK r \in Seq(Batches) : r = SubSeq(q, k + 1, Len(q))
  BY SuffixFacts
<1>2. cur' = ProcessAll(c, SubSeq(q, 1, k)) /\ pipe' = [pipe EXCEPT !.pending = r]
  BY <1>1 DEF Arrive
<1>3. /\ pipe'.pending = r /\ pipe'.on = pipe.on
      /\ pipe' \in [on : BOOLEAN, pending : Seq(Batches)]
  BY <1>2
<1>4. Becomes(c, ProcessAll(c, SubSeq(q, 1, k)), r, s)
  BY <1>1, Processed
<1> QED
  BY <1>2, <1>3, <1>4 DEF Becomes

\* The answers of the next call
LEMMA AnswersFacts ==
    ASSUME CursorAssumption, CursorIInv
    PROVE  /\ \A rs \in Answers : rs \in Batches /\ rs \in Seq(CurResults) /\ rs[1].call = Call
           /\ \A rs \in Scripts :
                /\ rs \in Seq(CurResults) /\ Len(rs) = 2 /\ ~Failed(rs)
                /\ \A i \in DOMAIN rs : rs[i].call = Call
<1>1. Call \in Nat /\ Rows \subseteq Nat
  BY DEF CursorIInv, Call, CursorAssumption
<1>2. \A k \in {"tuples", "command"}, n \in Rows :
        /\ Result(Call, k, n) \in CurResults /\ Result(Call, k, n).call = Call
        /\ Result(Call, k, n).kind = k
  BY <1>1 DEF Result, CurResults
<1>3. Result(Call, "error", 0) \in CurResults /\ Result(Call, "error", 0).call = Call
  BY <1>1 DEF Result, CurResults
<1>4. ASSUME NEW rs \in Answers
      PROVE  rs \in Batches /\ rs \in Seq(CurResults) /\ rs[1].call = Call
  <2>1. PICK r \in CurResults : rs = <<r>> /\ r.call = Call
    BY <1>2, <1>3 DEF Answers
  <2> QED
    BY <2>1 DEF Batches
<1>5. ASSUME NEW rs \in Scripts
      PROVE  /\ rs \in Seq(CurResults) /\ Len(rs) = 2 /\ ~Failed(rs)
             /\ \A i \in DOMAIN rs : rs[i].call = Call
  <2>1. PICK n \in Rows, m \in Rows : rs = <<Result(Call, "tuples", n), Result(Call, "tuples", m)>>
    BY DEF Scripts
  <2>2. PICK x \in CurResults : x = Result(Call, "tuples", n) /\ x.call = Call /\ x.kind = "tuples"
    BY <1>2
  <2>3. PICK y \in CurResults : y = Result(Call, "tuples", m) /\ y.call = Call /\ y.kind = "tuples"
    BY <1>2
  <2>4. rs = <<x, y>>
    BY <2>1, <2>2, <2>3
  <2> QED
    BY <2>2, <2>3, <2>4 DEF Failed
<1> QED
  BY <1>4, <1>5

\* execute()
LEMMA ExecuteStep ==
    ASSUME CursorAssumption, CursorIInv, NEW rs \in Answers \cup Scripts, Execute(rs)
    PROVE  CursorIInv'
<1> DEFINE c == Reset(cur)
           s == Called(<<rs>>)
<1>1. /\ Callable /\ (Len(rs) = 1 \/ ~pipe.on) /\ seen' = s /\ UNCHANGED stream
      /\ Free /\ ~cur.closed
  BY DEF Execute, Callable, Asked
<1>2. /\ c \in CursorRecords /\ CurTypes(c) /\ ~c.closed /\ c.results = <<>> /\ ~c.selected
      /\ c.pos = 0 /\ c.many = "no"
  BY <1>1, CursorFacts, ResetFacts
<1>3. rs \in Seq(CurResults) /\ TotalOf(<<rs>>) \in Nat
  BY AnswersFacts, RowsTyped
<1>4. Honest(s) /\ s.calls = Call /\ s.next = 0 /\ (~s.overlap => pipe.pending = <<>>)
  BY <1>3, CalledFacts
<1>5. pipe \in [on : BOOLEAN, pending : Seq(Batches)] /\ (~pipe.on => pipe.pending = <<>>)
  BY CursorFacts
<1>6. IF pipe.on THEN \E k \in 0 .. Len(pipe.pending) + 1 : Arrive(c, Append(pipe.pending, rs), k)
      ELSE cur' = Process(c, rs) /\ UNCHANGED pipe
  BY DEF Execute
<1> HIDE DEF c, s
<1>7. ASSUME rs \in Answers
      PROVE  Expecting(c, <<rs>>, s) /\ <<rs>> \in Seq(Batches)
  <2>1. rs \in Batches /\ rs[1].call = s.calls
    BY <1>4, <1>7, AnswersFacts
  <2>2. <<rs>> # <<>> /\ Len(<<rs>>) = 1 /\ \A i \in DOMAIN <<rs>> : <<rs>>[i] = rs
    OBVIOUS
  <2>3. Expecting(c, <<rs>>, s)
    BY <1>2, <1>4, <2>1, <2>2 DEF Expecting
  <2> QED
    BY <2>1, <2>3
<1>8. CASE pipe.on
  <2>1. rs \in Answers
    BY <1>1, <1>8, AnswersFacts
  <2>a. PICK p \in Seq(Batches) : p = pipe.pending
    BY <1>5
  <2>b. rs \in Batches
    BY <2>1, AnswersFacts
  <2>c. Append(p, rs) \in Seq(Batches) /\ Len(Append(p, rs)) = Len(p) + 1
        /\ Append(<<>>, rs) = <<rs>>
    BY <2>b
  <2>2. PICK q \in Seq(Batches) : q = Append(pipe.pending, rs)
    BY <2>a, <2>c
  <2>3. Len(q) = Len(pipe.pending) + 1
    BY <2>2, <2>a, <2>c
  <2>4. PICK k \in 0 .. Len(q) : Arrive(c, q, k)
    BY <1>6, <1>8, <2>2, <2>3
  <2>5. Expecting(c, q, s)
    <3>1. ASSUME ~s.overlap PROVE q = <<rs>>
      BY <1>4, <2>2, <2>c, <3>1
    <3> QED
      BY <1>7, <2>1, <3>1 DEF Expecting
  <2>6. /\ CurTypes(cur') /\ Expecting(cur', pipe'.pending, s)
        /\ pipe' \in [on : BOOLEAN, pending : Seq(Batches)] /\ pipe'.on
    BY <1>2, <1>5, <1>8, <2>4, <2>5, ArriveExpected
  <2> QED
    BY <1>1, <1>4, <2>6, CursorFree
<1>9. CASE ~pipe.on
  <2>1. cur' = Process(c, rs) /\ UNCHANGED pipe /\ pipe.pending = <<>>
    BY <1>5, <1>6, <1>9
  <2>2. CurTypes(Process(c, rs)) /\ Expecting(Process(c, rs), <<>>, s)
    <3>1. CASE rs \in Answers
      <4>1. <<rs>> # <<>> /\ <<rs>>[1] = rs /\ Tail(<<rs>>) = <<>>
        OBVIOUS
      <4>2. PICK q \in Seq(Batches) : q = <<rs>>
        BY <1>7, <3>1
      <4>3. q # <<>> /\ q[1] = rs /\ Tail(q) = <<>> /\ Expecting(c, q, s)
        BY <1>7, <3>1, <4>1, <4>2
      <4> QED
        BY <1>2, <4>3, ProcessExpected
    <3>2. CASE rs \in Scripts
      <4>1. ~Failed(rs) /\ 1 \in DOMAIN rs /\ \A i \in DOMAIN rs : rs[i].call = s.calls
        BY <1>3, <1>4, <3>2, AnswersFacts
      <4>2. PICK d : d = Select([c EXCEPT !.results = rs], 1)
        OBVIOUS
      <4>3. Process(c, rs) = d
        BY <1>2, <4>1, <4>2 DEF Process, SetResults
      <4>4. /\ CurTypes(d) /\ d.results = rs /\ d.pos = 0 /\ d.closed = c.closed
            /\ d.many = c.many /\ d.selected
        BY <1>2, <1>3, <4>1, <4>2, SelectTypes
      <4>5. Expecting(d, <<>>, s)
        BY <1>2, <1>4, <4>1, <4>4 DEF Expecting
      <4> QED
        BY <4>3, <4>4, <4>5
    <3> QED
      BY <3>1, <3>2
  <2>3. Expecting(cur', pipe'.pending, seen')
    BY <1>1, <2>1, <2>2
  <2> QED
    BY <1>1, <1>4, <1>5, <2>1, <2>2, <2>3, CursorFree
<1> QED
  BY <1>8, <1>9

\* The answers up to the first error
LEMMA UntilErrorFacts ==
    ASSUME NEW b1 \in Batches, NEW b2 \in Batches, NEW n, b1[1].call = n, b2[1].call = n
    PROVE  /\ UntilError(<<b1, b2>>) \in Seq(Batches)
           /\ \A i \in DOMAIN UntilError(<<b1, b2>>) : UntilError(<<b1, b2>>)[i][1].call = n
<1> DEFINE b == <<b1, b2>>
           bad == {i \in DOMAIN b : Failed(b[i])}
<1>1. b \in Seq(Batches) /\ Len(b) = 2 /\ DOMAIN b = 1 .. 2 /\ \A i \in DOMAIN b : b[i][1].call = n
  OBVIOUS
<1>2. CASE bad = {}
  <2>1. UntilError(b) = b
    BY <1>2 DEF UntilError
  <2> QED
    BY <1>1, <2>1
<1>3. CASE bad # {}
  <2>1. bad \in SUBSET Nat /\ bad \subseteq 1 .. 2
    BY <1>1
  <2> DEFINE i == CHOOSE i \in bad : \A j \in bad : i <= j
  <2>2. UntilError(b) = SubSeq(b, 1, i)
    BY <1>3 DEF UntilError
  <2>3. \E k \in bad : \A j \in bad : k <= j
    <3> HIDE DEF bad
    <3> QED
      BY <1>3, <2>1, LeastNat
  <2>4. i \in bad
    <3> HIDE DEF bad
    <3> QED
      BY <2>3, Zenon
  <2>5. PICK k \in 0 .. 2 : k = i
    BY <2>1, <2>4
  <2> HIDE DEF i, bad
  <2>6. PICK p \in Seq(Batches) : p = b
    BY <1>1
  <2> HIDE DEF b
  <2>7. /\ SubSeq(p, 1, k) \in Seq(Batches) /\ Len(SubSeq(p, 1, k)) = k
        /\ \A j \in 1 .. k : SubSeq(p, 1, k)[j] = p[j]
    <3>1. k \in 0 .. Len(p)
      BY <1>1, <2>6
    <3> QED
      BY <3>1, SuffixFacts
  <2>8. PICK t \in Seq(Batches) : t = SubSeq(p, 1, k)
    BY <2>7
  <2>9. \A j \in DOMAIN t : j \in DOMAIN p /\ t[j] = p[j]
    BY <1>1, <2>6, <2>7, <2>8
  <2>10. \A j \in DOMAIN t : t[j][1].call = n
    BY <1>1, <2>6, <2>9
  <2>11. UntilError(b) = t
    BY <2>2, <2>5, <2>6, <2>8
  <2> QED
    BY <2>10, <2>11 DEF b
<1> QED
  BY <1>2, <1>3

\* executemany()
LEMMA ExecuteManyStep ==
    ASSUME CursorAssumption, CursorIInv, NEW r1 \in Answers, NEW r2 \in Answers,
           NEW returning \in BOOLEAN, ExecuteMany(<<r1, r2>>, returning)
    PROVE  CursorIInv'
<1> DEFINE r == Reset(cur)
           c == [r EXCEPT !.many = IF returning THEN "returning" ELSE "count",
                          !.rowcount = IF returning THEN @ ELSE 0]
           sent == UntilError(<<r1, r2>>)
           s == Called(sent)
           pending == pipe.pending \o sent
<1>1. /\ Callable /\ seen' = s /\ UNCHANGED stream /\ Free /\ ~cur.closed
  BY DEF ExecuteMany, Callable, Asked
<1>2. /\ r \in CursorRecords /\ CurTypes(r) /\ ~r.closed /\ r.results = <<>> /\ ~r.selected
      /\ r.pos = 0 /\ r.ires = 1
  BY <1>1, CursorFacts, ResetFacts
<1>3. IF pipe.on
      THEN \E k \in (IF returning THEN {Len(pending)} ELSE 0 .. Len(pending)) : Arrive(c, pending, k)
      ELSE cur' = ProcessAll(c, sent) /\ UNCHANGED pipe
  BY DEF ExecuteMany
<1>4. sent \in Seq(Batches) /\ \A i \in DOMAIN sent : sent[i][1].call = Call
  BY AnswersFacts, UntilErrorFacts
<1> HIDE DEF r, sent
<1>5. /\ CurTypes(c) /\ ~c.closed /\ c.results = <<>> /\ ~c.selected /\ c.many # "no"
      /\ c.many = "count" => c.rowcount = 0
  <2>1. PICK m \in {"returning", "count"} : m = IF returning THEN "returning" ELSE "count"
    OBVIOUS
  <2>2. PICK n \in Int : n = (IF returning THEN r.rowcount ELSE 0)
    BY <1>2 DEF CursorRecords
  <2>3. c = [r EXCEPT !.many = m, !.rowcount = n] /\ (m = "count" => n = 0)
    BY <2>1, <2>2
  <2> HIDE DEF c
  <2>4. c = [closed |-> FALSE, results |-> <<>>, selected |-> FALSE, ires |-> 1, pos |-> 0,
             rowcount |-> n, many |-> m, single |-> r.single]
    BY <1>2, <2>3 DEF CursorRecords
  <2>5. r.single \in BOOLEAN /\ <<>> \in Seq(CurResults)
    BY <1>2 DEF CursorRecords
  <2>6. c \in CursorRecords
    BY <2>4, <2>5 DEF CursorRecords
  <2>7. CurTypes(c)
    BY <2>4, <2>6 DEF CurTypes, CursorRecords
  <2>8. /\ ~c.closed /\ c.results = <<>> /\ ~c.selected /\ c.many = m /\ c.rowcount = n
    BY <2>4
  <2>9. c.many # "no" /\ (c.many = "count" => c.rowcount = 0)
    BY <2>3, <2>8
  <2> QED
    BY <2>7, <2>8, <2>9
<1> HIDE DEF c
<1>6. TotalOf(sent) \in Nat
  BY <1>4, TotalFacts
<1>7. /\ Honest(s) /\ s.calls = Call /\ s.next = 0 /\ s.count = TotalOf(sent)
      /\ ~s.overlap => pipe.pending = <<>>
  BY <1>6, CalledFacts
<1>8. pipe \in [on : BOOLEAN, pending : Seq(Batches)] /\ (~pipe.on => pipe.pending = <<>>)
  BY CursorFacts
<1> HIDE DEF s
<1>9. Expecting(c, sent, s)
  <2>1. c.many = "count" => c.rowcount + TotalOf(sent) = s.count
    BY <1>5, <1>6, <1>7
  <2> QED
    BY <1>4, <1>5, <1>7, <2>1 DEF Expecting
<1>10. CASE pipe.on
  <2>a. PICK p \in Seq(Batches) : p = pipe.pending
    BY <1>8
  <2>b. PICK t \in Seq(Batches) : t = sent
    BY <1>4
  <2>c. p \o t \in Seq(Batches) /\ <<>> \o t = t
    OBVIOUS
  <2>1. PICK q \in Seq(Batches) : q = pending
    BY <2>a, <2>b, <2>c
  <2>2. ~s.overlap => q = sent
    BY <1>7, <2>1, <2>a, <2>b, <2>c
  <2>3. Expecting(c, q, s)
    BY <1>9, <2>2 DEF Expecting
  <2>4. PICK k \in 0 .. Len(q) : Arrive(c, q, k)
    <3>1. Len(q) \in 0 .. Len(q)
      OBVIOUS
    <3> QED
      BY <1>3, <1>10, <2>1, <3>1
  <2>5. /\ CurTypes(cur') /\ Expecting(cur', pipe'.pending, s)
        /\ pipe' \in [on : BOOLEAN, pending : Seq(Batches)] /\ pipe'.on
    BY <1>5, <1>8, <1>10, <2>3, <2>4, ArriveExpected
  <2> QED
    BY <1>1, <1>7, <2>5, CursorFree
<1>11. CASE ~pipe.on
  <2>1. cur' = ProcessAll(c, sent) /\ UNCHANGED pipe /\ pipe.pending = <<>>
    BY <1>3, <1>8, <1>11
  <2>2. Becomes(c, ProcessAll(c, sent), <<>>, s)
    BY <1>4, <1>5, <1>9, ProcessedAll
  <2>3. CurTypes(cur') /\ Expecting(cur', pipe'.pending, seen')
    BY <1>1, <2>1, <2>2 DEF Becomes
  <2> QED
    BY <1>1, <1>7, <1>8, <2>1, <2>3, CursorFree
<1> QED
  BY <1>10, <1>11

\* A call that a COPY makes fail
LEMMA RefusedStep ==
    ASSUME CursorIInv, ExecuteRefused
    PROVE  CursorIInv'
<1> DEFINE c == Reset(cur)
           s == Called(<<>>)
<1>1. /\ Free /\ cur' = c /\ seen' = s /\ UNCHANGED stream /\ pipe' = pipe
  BY DEF ExecuteRefused, Asked
<1>2. /\ cur \in CursorRecords /\ pipe \in [on : BOOLEAN, pending : Seq(Batches)]
      /\ ~pipe.on => pipe.pending = <<>>
      /\ ~s.overlap => pipe.pending = <<>>
  BY CursorFacts DEF Called
<1>3. CurTypes(c) /\ ~c.selected /\ c.results = <<>> /\ c.many = "no"
  BY <1>2, ResetFacts
<1>4. Honest(s)
  BY TotalFacts, CalledFacts
<1> HIDE DEF c, s
<1>5. Expecting(c, pipe.pending, s)
  BY <1>2, <1>3 DEF Expecting
<1> QED
  BY <1>1, <1>2, <1>3, <1>4, <1>5, CursorFree

\* The pipeline starts
LEMMA EnterPipelineStep ==
    ASSUME CursorIInv, EnterPipeline
    PROVE  CursorIInv'
<1>1. /\ Free /\ ~pipe.on /\ pipe' = [pipe EXCEPT !.on = TRUE]
      /\ UNCHANGED stream /\ cur' = cur /\ seen' = seen
  BY DEF EnterPipeline
<1>2. /\ CurTypes(cur) /\ Honest(seen) /\ pipe \in [on : BOOLEAN, pending : Seq(Batches)]
      /\ Expecting(cur, pipe.pending, seen)
  BY CursorFacts
<1>3. /\ pipe' \in [on : BOOLEAN, pending : Seq(Batches)] /\ pipe'.on
      /\ pipe'.pending = pipe.pending
  BY <1>1, <1>2
<1>4. Expecting(cur', pipe'.pending, seen')
  BY <1>1, <1>2, <1>3
<1> QED
  BY <1>1, <1>2, <1>3, <1>4, CursorFree

\* The pipeline is synchronised, or ends
LEMMA SyncPipelineStep ==
    ASSUME CursorIInv, NEW exit \in BOOLEAN, SyncPipeline(exit)
    PROVE  CursorIInv'
<1>1. /\ Free /\ cur' = ProcessAll(cur, pipe.pending) /\ seen' = seen /\ UNCHANGED stream
      /\ pipe' = [on |-> ~exit, pending |-> <<>>]
  BY DEF SyncPipeline
<1>2. /\ CurTypes(cur) /\ Honest(seen) /\ pipe.pending \in Seq(Batches)
      /\ Expecting(cur, pipe.pending, seen)
  BY CursorFacts
<1>3. Becomes(cur, ProcessAll(cur, pipe.pending), <<>>, seen)
  BY <1>2, ProcessedAll
<1>4. CurTypes(cur') /\ Expecting(cur', <<>>, seen')
  BY <1>1, <1>3 DEF Becomes
<1>5. pipe' \in [on : BOOLEAN, pending : Seq(Batches)] /\ pipe'.pending = <<>>
  BY <1>1
<1> QED
  BY <1>1, <1>2, <1>4, <1>5, CursorFree

\* The results that a fetch waits for have come
LEMMA FetchedFacts ==
    ASSUME CursorIInv, Free, FetchPipeline
    PROVE  /\ CurTypes(Fetched) /\ Expecting(Fetched, pipe'.pending, seen)
           /\ pipe' \in [on : BOOLEAN, pending : Seq(Batches)]
           /\ (~pipe.on => pipe.pending = <<>>)'
<1>1. /\ CurTypes(cur) /\ pipe \in [on : BOOLEAN, pending : Seq(Batches)]
      /\ Expecting(cur, pipe.pending, seen) /\ (~pipe.on => pipe.pending = <<>>)
  BY CursorFacts
<1>2. CASE Fetches
  <2>1. PICK e \in Seq(Batches) : e = <<>>
    <3>1. <<>> \in Seq(Batches)
      OBVIOUS
    <3> QED
      BY <3>1
  <2>2. Fetched = ProcessAll(cur, pipe.pending) /\ pipe' = [pipe EXCEPT !.pending = e]
    BY <1>2, <2>1 DEF Fetched, FetchPipeline
  <2>3. pipe' \in [on : BOOLEAN, pending : Seq(Batches)] /\ pipe'.pending = e
    BY <1>1, <2>2
  <2>4. Becomes(cur, ProcessAll(cur, pipe.pending), <<>>, seen)
    <3>1. PICK q \in Seq(Batches) : q = pipe.pending
      BY <1>1
    <3> QED
      BY <1>1, <3>1, ProcessedAll
  <2> QED
    BY <2>1, <2>2, <2>3, <2>4 DEF Becomes
<1>3. CASE ~Fetches
  <2>1. Fetched = cur /\ pipe' = pipe
    BY <1>3 DEF Fetched, FetchPipeline
  <2> QED
    BY <1>1, <2>1
<1> QED
  BY <1>2, <1>3

\* The position moves within the current result, and so does the row the
\* program expects
LEMMA MovedTypes ==
    ASSUME NEW c, CurTypes(c), ~c.closed, c.selected, NEW m \in Nat, m <= Current(c).n,
           NEW q \in Seq(Batches), NEW s, Expecting(c, q, s), NEW t,
           t.calls = s.calls, t.next = m, t.count = s.count, t.overlap = s.overlap
    PROVE  CurTypes([c EXCEPT !.pos = m]) /\ Expecting([c EXCEPT !.pos = m], q, t)
<1> DEFINE d == [c EXCEPT !.pos = m]
<1>1. /\ c \in CursorRecords /\ c.ires \in DOMAIN c.results /\ c.results # <<>>
      /\ c.many = "count" => c.results = <<>>
  BY DEF CurTypes, CursorRecords
<1>2. /\ d \in CursorRecords /\ d.closed = c.closed /\ d.results = c.results /\ d.selected = c.selected
      /\ d.ires = c.ires /\ d.pos = m /\ d.rowcount = c.rowcount /\ d.many = c.many
  BY <1>1 DEF CursorRecords
<1> HIDE DEF d
<1>3. CurTypes(d)
  BY <1>1, <1>2 DEF CurTypes, CursorRecords, Current
<1>4. Expecting(d, q, t)
  BY <1>1, <1>2 DEF Expecting
<1> QED
  BY <1>3, <1>4 DEF d

\* What a fetch gives, and where it leaves the cursor
LEMMA FetchRowsStep ==
    ASSUME CursorIInv, NEW size \in Nat, Fetch(size)
    PROVE  CursorIInv'
<1> DEFINE c == Fetched
           n == Current(c).n - c.pos
           k == IF size < n THEN size ELSE n
<1>1. /\ Free /\ FetchPipeline /\ UNCHANGED stream
      /\ IF Fetchable(c) THEN Given(c, k) ELSE cur' = c /\ UNCHANGED seen
  BY DEF Fetch
<1>2. /\ CurTypes(c) /\ Expecting(c, pipe'.pending, seen)
      /\ pipe' \in [on : BOOLEAN, pending : Seq(Batches)] /\ (~pipe.on => pipe.pending = <<>>)'
  BY <1>1, FetchedFacts
<1>3. Honest(seen)
  BY CursorFacts
<1> HIDE DEF c
<1>4. CASE ~Fetchable(c)
  <2>1. cur' = c /\ seen' = seen
    BY <1>1, <1>4
  <2> QED
    BY <1>1, <1>2, <1>3, <2>1, CursorFree
<1>5. CASE Fetchable(c)
  <2>1. ~c.closed /\ c.selected /\ Given(c, k)
    BY <1>1, <1>5 DEF Fetchable
  <2>2. /\ c \in CursorRecords /\ c.ires \in DOMAIN c.results /\ c.pos <= Current(c).n
        /\ Current(c) \in CurResults /\ Current(c).n \in Nat /\ c.pos \in Nat
    <3>1. c \in CursorRecords /\ c.ires \in DOMAIN c.results /\ c.pos <= c.results[c.ires].n
      BY <1>2, <2>1 DEF CurTypes, CursorRecords
    <3>2. PICK rs \in Seq(CurResults) : rs = c.results
      BY <3>1 DEF CursorRecords
    <3>3. rs[c.ires] \in CurResults
      BY <3>1, <3>2
    <3>4. rs[c.ires].n \in Nat /\ c.pos \in Nat
      BY <3>1, <3>3 DEF CurResults, CursorRecords
    <3> QED
      BY <3>1, <3>2, <3>3, <3>4 DEF Current
  <2>3. k \in Nat /\ c.pos + k \in Nat /\ c.pos + k <= Current(c).n
    BY <2>2
  <2>4. PICK m \in Nat : m = c.pos + k
    BY <2>3
  <2>5. PICK v \in BOOLEAN : v = (seen.inorder /\ c.pos = seen.next)
    OBVIOUS
  <2>6. PICK w \in BOOLEAN : w = (seen.foreign \/ (k > 0 /\ Current(c).call # seen.calls))
    OBVIOUS
  <2>7. /\ cur' = [c EXCEPT !.pos = m]
        /\ seen' = [seen EXCEPT !.next = m, !.inorder = v, !.foreign = w]
    <3> HIDE DEF k
    <3> QED
      BY <2>1, <2>4, <2>5, <2>6 DEF Given
  <2>8. /\ seen' \in Histories /\ seen'.calls = seen.calls /\ seen'.next = m
        /\ seen'.count = seen.count /\ seen'.overlap = seen.overlap
        /\ seen'.inorder = v /\ seen'.foreign = w
    BY <1>3, <2>7 DEF Honest, Histories
  <2>9. ASSUME ~seen.overlap PROVE v /\ ~w
    <3>1. /\ \A i \in DOMAIN c.results : c.results[i].call = seen.calls
          /\ c.pos = seen.next
      BY <1>2, <2>1, <2>9 DEF Expecting
    <3>2. Current(c).call = seen.calls
      BY <2>2, <3>1 DEF Current
    <3>3. seen.inorder /\ ~seen.foreign
      BY <1>3, <2>9 DEF Honest
    <3> QED
      BY <2>5, <2>6, <3>1, <3>2, <3>3
  <2>10. Honest(seen')
    BY <2>8, <2>9 DEF Honest
  <2>11. PICK q \in Seq(Batches) : q = pipe'.pending
    BY <1>2
  <2>12. m <= Current(c).n
    BY <2>3, <2>4
  <2> HIDE DEF k
  <2>13. CurTypes([c EXCEPT !.pos = m]) /\ Expecting([c EXCEPT !.pos = m], q, seen')
    BY <1>2, <2>1, <2>8, <2>11, <2>12, MovedTypes
  <2>14. CurTypes(cur') /\ Expecting(cur', pipe'.pending, seen')
    BY <2>7, <2>11, <2>13
  <2> QED
    BY <1>1, <1>2, <2>10, <2>14, CursorFree
<1> QED
  BY <1>4, <1>5

\* scroll()
LEMMA ScrollRowsStep ==
    ASSUME CursorIInv, NEW value \in Int, NEW mode, Scroll(value, mode)
    PROVE  CursorIInv'
<1> DEFINE c == Fetched
           newpos == IF mode = "relative" THEN c.pos + value ELSE value
<1>1. /\ Free /\ FetchPipeline /\ UNCHANGED stream
      /\ IF Fetchable(c) /\ newpos \in 0 .. Current(c).n - 1
         THEN cur' = [c EXCEPT !.pos = newpos] /\ seen' = [seen EXCEPT !.next = newpos]
         ELSE cur' = c /\ UNCHANGED seen
  BY DEF Scroll
<1>2. /\ CurTypes(c) /\ Expecting(c, pipe'.pending, seen)
      /\ pipe' \in [on : BOOLEAN, pending : Seq(Batches)] /\ (~pipe.on => pipe.pending = <<>>)'
  BY <1>1, FetchedFacts
<1>3. Honest(seen)
  BY CursorFacts
<1> HIDE DEF c
<1>4. CASE ~(Fetchable(c) /\ newpos \in 0 .. Current(c).n - 1)
  <2>1. cur' = c /\ seen' = seen
    BY <1>1, <1>4
  <2> QED
    BY <1>1, <1>2, <1>3, <2>1, CursorFree
<1>5. CASE Fetchable(c) /\ newpos \in 0 .. Current(c).n - 1
  <2>1. ~c.closed /\ c.selected
    BY <1>5 DEF Fetchable
  <2>2. Current(c).n \in Nat
    <3>1. c \in CursorRecords /\ c.ires \in DOMAIN c.results
      BY <1>2, <2>1 DEF CurTypes, CursorRecords
    <3>2. PICK rs \in Seq(CurResults) : rs = c.results
      BY <3>1 DEF CursorRecords
    <3>3. rs[c.ires] \in CurResults
      BY <3>1, <3>2
    <3>4. rs[c.ires].n \in Nat
      BY <3>3 DEF CurResults
    <3> QED
      BY <3>2, <3>4 DEF Current
  <2>3. PICK m \in Nat : m = newpos /\ m <= Current(c).n
    <3> HIDE DEF newpos
    <3>1. newpos \in Nat /\ newpos <= Current(c).n
      BY <1>5, <2>2
    <3> QED
      BY <3>1
  <2>4. cur' = [c EXCEPT !.pos = m] /\ seen' = [seen EXCEPT !.next = m]
    BY <1>1, <1>5, <2>3
  <2>5. /\ seen' \in Histories /\ seen'.calls = seen.calls /\ seen'.next = m
        /\ seen'.count = seen.count /\ seen'.overlap = seen.overlap
        /\ seen'.inorder = seen.inorder /\ seen'.foreign = seen.foreign
    BY <1>3, <2>4 DEF Honest, Histories
  <2>6. Honest(seen')
    BY <1>3, <2>5 DEF Honest
  <2>7. PICK q \in Seq(Batches) : q = pipe'.pending
    BY <1>2
  <2>8. CurTypes([c EXCEPT !.pos = m]) /\ Expecting([c EXCEPT !.pos = m], q, seen')
    BY <1>2, <2>1, <2>3, <2>5, <2>7, MovedTypes
  <2>9. CurTypes(cur') /\ Expecting(cur', pipe'.pending, seen')
    BY <2>4, <2>7, <2>8
  <2> QED
    BY <1>1, <1>2, <2>6, <2>9, CursorFree
<1> QED
  BY <1>4, <1>5

\* A result is selected, of those the cursor holds, and maybe a position in it
LEMMA SelectedExpected ==
    ASSUME CursorIInv, NEW i \in DOMAIN cur.results, NEW m \in Nat, NEW s,
           m = 0 \/ (i = cur.ires /\ m = cur.pos),
           s.calls = seen.calls, s.next = m \/ (m = cur.pos /\ s.next = seen.next),
           s.count = seen.count, s.overlap = seen.overlap
    PROVE  /\ CurTypes([Select(cur, i) EXCEPT !.pos = m])
           /\ Expecting([Select(cur, i) EXCEPT !.pos = m], pipe.pending, s)
<1> DEFINE d == Select(cur, i)
           e == [d EXCEPT !.pos = m]
<1>1. /\ cur \in CursorRecords /\ cur.results # <<>> /\ cur.selected /\ cur.many # "count"
      /\ Expecting(cur, pipe.pending, seen) /\ (cur.closed => cur.many = "no" /\ cur.pos = 0)
      /\ cur.ires \in DOMAIN cur.results /\ cur.pos <= cur.results[cur.ires].n
  <2>1. i \in DOMAIN cur.results
    OBVIOUS
  <2>2. cur.results # <<>>
    BY <2>1
  <2> QED
    BY <2>2, CursorFacts DEF CurTypes
<1>2. PICK rs \in Seq(CurResults) : rs = cur.results
  BY <1>1 DEF CursorRecords
<1>3. [cur EXCEPT !.results = rs] = cur
  BY <1>1, <1>2 DEF CursorRecords
<1>4. /\ CurTypes(d) /\ d \in CursorRecords /\ d.results = rs /\ d.selected /\ d.ires = i
      /\ d.closed = cur.closed /\ d.many = cur.many
  <2>1. i \in DOMAIN rs
    BY <1>2
  <2> HIDE DEF d
  <2>2. LET x == Select([cur EXCEPT !.results = rs], i)
        IN  /\ CurTypes(x) <=> (cur.closed => cur.many = "no")
            /\ x \in CursorRecords /\ x.results = rs /\ x.selected /\ x.ires = i /\ x.pos = 0
            /\ x.closed = cur.closed /\ x.many = cur.many
    BY <1>1, <2>1, SelectTypes
  <2>3. Select([cur EXCEPT !.results = rs], i) = d
    BY <1>3 DEF d
  <2> QED
    BY <1>1, <2>2, <2>3
<1> HIDE DEF d
<1>5. /\ e \in CursorRecords /\ e.results = rs /\ e.selected /\ e.ires = i /\ e.pos = m
      /\ e.closed = cur.closed /\ e.many = cur.many
  BY <1>4 DEF CursorRecords
<1>6. i \in DOMAIN rs /\ rs[i] \in CurResults /\ rs # <<>>
  BY <1>1, <1>2
<1>7. m <= rs[i].n /\ (cur.closed => m = 0)
  <2>1. rs[i].n \in Nat
    BY <1>6 DEF CurResults
  <2> QED
    BY <1>1, <1>2, <2>1
<1> HIDE DEF e
<1>8. CurTypes(e)
  BY <1>1, <1>5, <1>6, <1>7 DEF CurTypes, CursorRecords
<1>9. Expecting(e, pipe.pending, s)
  <2> SUFFICES ASSUME ~s.overlap
               PROVE  /\ \A j \in DOMAIN e.results : e.results[j].call = s.calls
                      /\ \A j \in DOMAIN pipe.pending : pipe.pending[j][1].call = s.calls
                      /\ ~e.closed =>
                          /\ e.pos = s.next
                          /\ pipe.pending # <<>> => e.many # "no"
    BY <1>1, <1>5 DEF Expecting
  <2>1. /\ \A j \in DOMAIN cur.results : cur.results[j].call = seen.calls
        /\ \A j \in DOMAIN pipe.pending : pipe.pending[j][1].call = seen.calls
        /\ ~cur.closed =>
            /\ cur.pos = seen.next
            /\ pipe.pending # <<>> => cur.many # "no"
    BY <1>1 DEF Expecting
  <2> QED
    BY <1>2, <1>5, <2>1
<1> QED
  BY <1>8, <1>9 DEF e, d

\* nextset() and set_result()
LEMMA SetResultStep ==
    ASSUME CursorIInv, NEW i, SetResult(i)
    PROVE  CursorIInv'
<1>1. /\ Free /\ i \in DOMAIN cur.results /\ cur' = Select(cur, i) /\ pipe' = pipe
      /\ UNCHANGED stream /\ seen' = [seen EXCEPT !.next = 0]
  BY DEF SetResult
<1>2. /\ cur \in CursorRecords /\ Honest(seen) /\ pipe \in [on : BOOLEAN, pending : Seq(Batches)]
      /\ ~pipe.on => pipe.pending = <<>>
  BY CursorFacts
<1>3. /\ seen' \in Histories /\ seen'.calls = seen.calls /\ seen'.next = 0
      /\ seen'.count = seen.count /\ seen'.overlap = seen.overlap
      /\ seen'.inorder = seen.inorder /\ seen'.foreign = seen.foreign
  BY <1>1, <1>2 DEF Honest, Histories
<1>4. /\ CurTypes([Select(cur, i) EXCEPT !.pos = 0])
      /\ Expecting([Select(cur, i) EXCEPT !.pos = 0], pipe.pending, seen')
  BY <1>1, <1>3, SelectedExpected
<1>5. [Select(cur, i) EXCEPT !.pos = 0] = Select(cur, i)
  BY <1>2 DEF Select, CursorRecords
<1>6. CurTypes(cur') /\ Expecting(cur', pipe'.pending, seen')
  BY <1>1, <1>4, <1>5
<1>7. Honest(seen')
  BY <1>2, <1>3 DEF Honest
<1> QED
  BY <1>1, <1>2, <1>6, <1>7, CursorFree

\* A loader changes
LEMMA LoadersChangedStep ==
    ASSUME CursorIInv, LoadersChanged
    PROVE  CursorIInv'
<1>1. /\ Free /\ cur.ires <= Len(cur.results)
      /\ cur' = [Select(cur, cur.ires) EXCEPT !.pos = cur.pos] /\ pipe' = pipe
      /\ UNCHANGED stream /\ seen' = seen
  BY DEF LoadersChanged
<1>2. /\ cur \in CursorRecords /\ Honest(seen) /\ pipe \in [on : BOOLEAN, pending : Seq(Batches)]
      /\ ~pipe.on => pipe.pending = <<>>
  BY CursorFacts
<1>3. cur.ires \in DOMAIN cur.results /\ cur.pos \in Nat
  <2>1. PICK rs \in Seq(CurResults) : rs = cur.results
    BY <1>2 DEF CursorRecords
  <2>2. CASE cur.selected
    BY <1>2, <2>2, CursorFacts DEF CurTypes, CursorRecords
  <2>3. CASE ~cur.selected
    <3>1. cur.ires = 1 /\ rs = <<>>
      BY <2>1, <2>3, CursorFacts DEF CurTypes
    <3>2. Len(<<>>) = 0
      OBVIOUS
    <3> QED
      BY <1>1, <2>1, <3>1, <3>2
  <2> QED
    BY <2>2, <2>3
<1>4. /\ CurTypes([Select(cur, cur.ires) EXCEPT !.pos = cur.pos])
      /\ Expecting([Select(cur, cur.ires) EXCEPT !.pos = cur.pos], pipe.pending, seen)
  BY <1>3, SelectedExpected
<1>5. CurTypes(cur') /\ Expecting(cur', pipe'.pending, seen')
  BY <1>1, <1>4
<1> QED
  BY <1>1, <1>2, <1>5, CursorFree

\* close()
LEMMA CloseCursorStep ==
    ASSUME CursorIInv, CloseCursor
    PROVE  CursorIInv'
<1> DEFINE r == Reset(cur)
           d == [r EXCEPT !.closed = TRUE]
<1>1. /\ Free /\ cur' = d /\ pipe' = pipe /\ UNCHANGED stream /\ seen' = seen
  BY DEF CloseCursor
<1>2. /\ cur \in CursorRecords /\ Honest(seen) /\ pipe \in [on : BOOLEAN, pending : Seq(Batches)]
      /\ (~pipe.on => pipe.pending = <<>>) /\ Expecting(cur, pipe.pending, seen)
  BY CursorFacts
<1>3. /\ r \in CursorRecords /\ r.results = <<>> /\ ~r.selected /\ r.ires = 1 /\ r.pos = 0
      /\ r.many = "no"
  BY <1>2, ResetFacts
<1> HIDE DEF r
<1>4. /\ d \in CursorRecords /\ d.results = <<>> /\ ~d.selected /\ d.ires = 1 /\ d.pos = 0
      /\ d.many = "no" /\ d.closed
  BY <1>3 DEF CursorRecords
<1> HIDE DEF d
<1>5. CurTypes(d)
  BY <1>4 DEF CurTypes, CursorRecords
<1>6. Expecting(d, pipe.pending, seen)
  BY <1>2, <1>4 DEF Expecting
<1>7. CurTypes(cur') /\ Expecting(cur', pipe'.pending, seen')
  BY <1>1, <1>5, <1>6
<1> QED
  BY <1>1, <1>2, <1>7, CursorFree

\* A sequence without its first element, and one with two elements more
LEMMA StreamSequences ==
    ASSUME NEW S
    PROVE  /\ \A q \in Seq(S) : q # <<>> =>
                /\ Tail(q) \in Seq(S) /\ Len(Tail(q)) = Len(q) - 1 /\ Head(q) = q[1]
                /\ \A i \in 1 .. Len(q) - 1 : Tail(q)[i] = q[i + 1]
           /\ \A s, t \in Seq(S) : Len(t) = 2 =>
                /\ s \o t \in Seq(S) /\ Len(s \o t) = Len(s) + 2
                /\ \A i \in 1 .. Len(s) : (s \o t)[i] = s[i]
                /\ (s \o t)[Len(s) + 1] = t[1] /\ (s \o t)[Len(s) + 2] = t[2]
<1>1. ASSUME NEW s \in Seq(S), NEW t \in Seq(S), Len(t) = 2
      PROVE  /\ s \o t \in Seq(S) /\ Len(s \o t) = Len(s) + 2
             /\ \A i \in 1 .. Len(s) : (s \o t)[i] = s[i]
             /\ (s \o t)[Len(s) + 1] = t[1] /\ (s \o t)[Len(s) + 2] = t[2]
  <2>1. /\ s \o t \in Seq(S) /\ Len(s \o t) = Len(s) + Len(t)
        /\ \A i \in 1 .. Len(s) + Len(t) :
             (s \o t)[i] = IF i <= Len(s) THEN s[i] ELSE t[i - Len(s)]
    OBVIOUS
  <2>2. PICK n \in Nat : n = Len(s)
    OBVIOUS
  <2>3. /\ n + 1 \in 1 .. n + 2 /\ ~(n + 1 <= n) /\ (n + 1) - n = 1
        /\ n + 2 \in 1 .. n + 2 /\ ~(n + 2 <= n) /\ (n + 2) - n = 2
        /\ \A i \in 1 .. n : i \in 1 .. n + 2 /\ i <= n
    OBVIOUS
  <2> QED
    BY <1>1, <2>1, <2>2, <2>3
<1>2. ASSUME NEW q \in Seq(S), q # <<>>
      PROVE  /\ Tail(q) \in Seq(S) /\ Len(Tail(q)) = Len(q) - 1 /\ Head(q) = q[1]
             /\ \A i \in 1 .. Len(q) - 1 : Tail(q)[i] = q[i + 1]
  BY <1>2
<1> QED
  BY <1>1, <1>2

\* The end of the rows of a stream is read to the null result, at most in two
\* attempts
LEMMA StreamRecovered ==
    /\ \A q : StreamLeft(q) => Recovered(q) = <<>>
    /\ Recovered(<<"null">>) = <<>>
<1>1. FetchOne(<<>>) = <<>> /\ FetchOne(<<"null">>) = <<>>
  BY DEF FetchOne
<1>2. \A e \in {"tuples", "command", "error"} :
        FetchOne(<<e, "null">>) = IF e = "error" THEN <<"null">> ELSE <<>>
  BY DEF FetchOne
<1>3. ASSUME NEW q, StreamLeft(q) PROVE Recovered(q) = <<>>
  <2> DEFINE n == Len(q)
             rows == {i \in DOMAIN q : \A j \in 1 .. i : q[j] = "single"}
  <2>1. /\ q \in Seq(StreamResults) /\ n \in Nat /\ n >= 2 /\ DOMAIN q = 1 .. n
        /\ q[n] = "null" /\ q[n - 1] \in {"tuples", "command", "error"}
        /\ \A i \in 1 .. n - 2 : q[i] = "single"
    BY <1>3 DEF StreamLeft
  <2>2. rows = 1 .. n - 2
    <3>1. ASSUME NEW i \in rows PROVE i \in 1 .. n - 2
      <4>1. i \in 1 .. n /\ \A j \in 1 .. i : q[j] = "single"
        BY <2>1
      <4>2. n - 1 \notin 1 .. i
        BY <2>1, <4>1
      <4> HIDE DEF n
      <4> QED
        BY <2>1, <4>1, <4>2
    <3>2. ASSUME NEW i \in 1 .. n - 2 PROVE i \in rows
      <4>1. i \in DOMAIN q /\ \A j \in 1 .. i : j \in 1 .. n - 2
        BY <2>1
      <4> QED
        BY <2>1, <4>1
    <3> QED
      BY <3>1, <3>2
  <2>3. Cardinality(rows) = n - 2
    <3>1. 1 \in Int /\ n - 2 \in Int /\ (1 > n - 2 <=> n = 2)
      BY <2>1
    <3>2. Cardinality(1 .. n - 2) = IF 1 > n - 2 THEN 0 ELSE (n - 2) - 1 + 1
      BY <3>1, FS_Interval
    <3> HIDE DEF n, rows
    <3> QED
      BY <2>1, <2>2, <3>1, <3>2
  <2>4. Consumed(q) = FetchOne(SubSeq(q, n - 1, n))
    <3>1. Cardinality(rows) + 1 = n - 1
      BY <2>1, <2>3
    <3> QED
      BY <3>1 DEF Consumed
  <2>5. PICK e \in {"tuples", "command", "error"} : e = q[n - 1]
    BY <2>1
  <2>6. SubSeq(q, n - 1, n) = <<e, "null">>
    <3>1. /\ SubSeq(q, n - 1, n) \in Seq(StreamResults) /\ Len(SubSeq(q, n - 1, n)) = 2
          /\ \A i \in 1 .. 2 : SubSeq(q, n - 1, n)[i] = q[(n - 1) + i - 1]
      <4>1. n - 1 \in 1 .. n + 1 /\ n - (n - 1) + 1 = 2 /\ \A i \in n - 1 .. n : q[i] \in StreamResults
        BY <2>1
      <4> QED
        BY <2>1, <4>1
    <3>2. PICK t \in Seq(StreamResults) : t = SubSeq(q, n - 1, n)
      BY <3>1
    <3>3. (n - 1) + 1 - 1 = n - 1 /\ (n - 1) + 2 - 1 = n /\ 1 \in 1 .. 2 /\ 2 \in 1 .. 2
      BY <2>1
    <3>4. Len(t) = 2 /\ t[1] = e /\ t[2] = "null"
      BY <2>1, <2>5, <3>1, <3>2, <3>3
    <3>5. t = <<e, "null">>
      <4>1. <<e, "null">> \in Seq(StreamResults) /\ Len(<<e, "null">>) = 2
        BY DEF StreamResults
      <4>2. \A i \in 1 .. Len(t) : t[i] = <<e, "null">>[i]
        BY <3>4
      <4> QED
        BY <3>4, <4>1, <4>2, SeqEqual
    <3> QED
      BY <3>2, <3>5
  <2>7. Consumed(q) = <<>> \/ Consumed(q) = <<"null">>
    BY <1>2, <2>4, <2>6
  <2> QED
    BY <1>1, <2>7 DEF Recovered
<1>4. Recovered(<<"null">>) = <<>>
  <2> DEFINE q == <<"null">>
             rows == {i \in DOMAIN q : \A j \in 1 .. i : q[j] = "single"}
  <2>1. rows = {}
    <3>1. DOMAIN q = 1 .. 1 /\ q[1] # "single" /\ \A i \in 1 .. 1 : 1 \in 1 .. i
      OBVIOUS
    <3> QED
      BY <3>1
  <2>2. Cardinality(rows) + 1 = 1
    BY <2>1, FS_EmptySet
  <2>3. SubSeq(q, 1, Len(q)) = <<"null">>
    <3>1. \A x : SubSeq(<<x>>, 1, Len(<<x>>)) = <<x>>
      <4> SUFFICES ASSUME NEW x PROVE SubSeq(<<x>>, 1, Len(<<x>>)) = <<x>>
        OBVIOUS
      <4>a. <<x>> \in Seq({x}) /\ Len(<<x>>) = 1 /\ <<x>>[1] = x
        OBVIOUS
      <4>1. PICK s \in Seq({x}) : s = <<x>> /\ Len(s) = 1 /\ s[1] = x
        BY <4>a, Zenon
      <4>b. SubSeq(s, 1, 1) \in Seq({x}) /\ Len(SubSeq(s, 1, 1)) = 1 /\ SubSeq(s, 1, 1)[1] = s[1]
        <5>1. \A i \in 1 .. 1 : s[i] \in {x}
          BY <4>1
        <5> QED
          BY <4>1, <5>1
      <4>2. PICK t \in Seq({x}) : t = SubSeq(s, 1, 1) /\ Len(t) = 1 /\ t[1] = s[1]
        BY <4>b, Zenon
      <4>3. \A i \in 1 .. Len(t) : t[i] = s[i]
        BY <4>2
      <4>4. t = s
        BY <4>1, <4>2, <4>3, SeqEqual
      <4> QED
        BY <4>1, <4>2, <4>4
    <3> QED
      BY <3>1, Zenon
  <2>4. Consumed(q) = FetchOne(<<"null">>)
    <3> HIDE DEF rows
    <3>1. Consumed(q) = FetchOne(SubSeq(q, Cardinality(rows) + 1, Len(q)))
      BY Zenon DEF Consumed, rows
    <3> QED
      BY <2>2, <2>3, <3>1
  <2> QED
    BY <1>1, <2>4 DEF Recovered
<1> QED
  BY <1>3, <1>4

\* No attempt takes a COPY out of the way
LEMMA CopyStays == Recovered(Copying) = Copying /\ Copying \in Seq(StreamResults)
<1>1. PICK q \in Seq(StreamResults) : q = Copying /\ Len(q) = 1 /\ q[1] = "copy"
  <2>1. <<"copy">> \in Seq(StreamResults) /\ Len(<<"copy">>) = 1 /\ <<"copy">>[1] = "copy"
    BY DEF StreamResults
  <2> QED
    BY <2>1 DEF Copying
<1>2. FetchOne(Copying) = Copying
  BY <1>1 DEF FetchOne
<1>3. SubSeq(q, 1, 1) \in Seq(StreamResults) /\ Len(SubSeq(q, 1, 1)) = 1 /\ SubSeq(q, 1, 1)[1] = q[1]
  BY <1>1
<1>4. SubSeq(q, 1, 1) = q
  <2>1. PICK s \in Seq(StreamResults) : s = SubSeq(q, 1, 1) /\ Len(s) = 1 /\ s[1] = q[1]
    BY <1>3
  <2> QED
    BY <1>1, <2>1, SeqEqual
<1>5. {i \in DOMAIN q : \A j \in 1 .. i : q[j] = "single"} = {}
  BY <1>1
<1>6. Consumed(q) = FetchOne(SubSeq(q, 1, 1))
  <2>1. 0 + 1 = 1
    OBVIOUS
  <2>2. Consumed(q) = FetchOne(SubSeq(q, 0 + 1, Len(q)))
    BY <1>5, FS_EmptySet DEF Consumed
  <2> QED
    BY <1>1, <2>1, <2>2, Zenon
<1>7. Consumed(Copying) = Copying
  BY <1>1, <1>2, <1>4, <1>6, Zenon
<1> QED
  BY <1>1, <1>2, <1>7 DEF Recovered

\* The answers to a streamed query
LEMMA StreamAnswersFacts ==
    ASSUME NEW n \in Nat, NEW q \in StreamAnswers(n)
    PROVE  StreamLeft(q) \/ q = Copying
<1>1. CASE q = <<"command", "null">>
  <2>1. q \in Seq(StreamResults) /\ Len(q) = 2 /\ q[1] = "command" /\ q[2] = "null"
    BY <1>1 DEF StreamResults
  <2> HIDE <1>1
  <2> QED
    BY <2>1 DEF StreamLeft
<1>2. ASSUME NEW e \in {"tuples", "error"}, q = Singles(n) \o <<e, "null">> PROVE StreamLeft(q)
  <2> DEFINE t == <<e, "null">>
  <2>1. PICK s \in Seq(StreamResults) : s = Singles(n) /\ Len(s) = n /\ \A i \in 1 .. n : s[i] = "single"
    <3>1. Singles(n) \in Seq(StreamResults) /\ Len(Singles(n)) = n
          /\ \A i \in 1 .. n : Singles(n)[i] = "single"
      BY DEF Singles, StreamResults
    <3> QED
      BY <3>1
  <2>2. t \in Seq(StreamResults) /\ Len(t) = 2 /\ t[1] = e /\ t[2] = "null"
    BY DEF StreamResults
  <2> HIDE DEF t
  <2>3. /\ s \o t \in Seq(StreamResults) /\ Len(s \o t) = n + 2
        /\ \A i \in 1 .. n : (s \o t)[i] = s[i]
        /\ (s \o t)[n + 1] = t[1] /\ (s \o t)[n + 2] = t[2]
    BY <2>1, <2>2, StreamSequences
  <2>4. q = s \o t
    BY <1>2, <2>1 DEF t
  <2>5. /\ q \in Seq(StreamResults) /\ Len(q) = n + 2
        /\ \A i \in 1 .. n : q[i] = "single"
        /\ q[n + 1] = e /\ q[n + 2] = "null"
    BY <2>1, <2>2, <2>3, <2>4
  <2>6. (n + 2) - 2 = n /\ (n + 2) - 1 = n + 1 /\ n + 2 >= 2
    OBVIOUS
  <2> QED
    BY <2>5, <2>6 DEF StreamLeft
<1> QED
  BY <1>1, <1>2 DEF StreamAnswers

\* stream() starts
LEMMA StreamStartStep ==
    ASSUME CursorIInv, NEW q, StreamLeft(q) \/ q = Copying, StreamStart(q)
    PROVE  CursorIInv'
<1> DEFINE c == Reset(cur)
           s == Called(<<>>)
<1>1. /\ Callable /\ ~pipe.on /\ cur' = c /\ stream' = [at |-> "yielded", queue |-> q]
      /\ seen' = s /\ pipe' = pipe
  BY DEF StreamStart
<1>2. /\ cur \in CursorRecords /\ pipe \in [on : BOOLEAN, pending : Seq(Batches)]
      /\ pipe.pending = <<>>
  BY <1>1, CursorFacts
<1>3. CurTypes(c) /\ ~c.selected /\ c.results = <<>> /\ c.many = "no"
  BY <1>2, ResetFacts
<1>4. Honest(s)
  BY TotalFacts, CalledFacts
<1> HIDE DEF c, s
<1>5. Expecting(c, <<>>, s)
  BY <1>3 DEF Expecting
<1>6. stream'.at = "yielded" /\ stream'.queue = q
  BY <1>1
<1> QED
  BY <1>1, <1>2, <1>3, <1>4, <1>5, <1>6 DEF CursorIInv, Honest, Histories

\* A row of the stream, or its end
LEMMA StreamNextStep ==
    ASSUME CursorIInv, StreamNext, StreamLeft(stream.queue)
    PROVE  CursorIInv'
<1>1. /\ CurTypes(cur) /\ cur \in CursorRecords /\ Honest(seen) /\ pipe' = pipe
      /\ pipe \in [on : BOOLEAN, pending : Seq(Batches)] /\ ~pipe.on /\ pipe.pending = <<>>
      /\ ~cur.selected /\ StreamLeft(stream.queue) /\ stream.at = "yielded"
      /\ Expecting(cur, pipe.pending, seen)
  BY CursorFacts DEF StreamNext, CursorIInv
<1>2. PICK q \in Seq(StreamResults) : q = stream.queue
  BY <1>1 DEF StreamLeft
<1>3. /\ Len(q) \in Nat /\ Len(q) >= 2 /\ q[Len(q)] = "null"
      /\ q[Len(q) - 1] \in {"tuples", "command", "error"}
      /\ \A i \in 1 .. Len(q) - 2 : q[i] = "single"
      /\ Head(q) = q[1] /\ q # <<>>
  BY <1>1, <1>2 DEF StreamLeft
<1>4. CASE Head(q) = "single"
  <2>1. /\ stream' = [stream EXCEPT !.queue = Tail(q)] /\ cur' = [cur EXCEPT !.single = TRUE]
        /\ seen' = [seen EXCEPT !.next = seen.next + 1]
    BY <1>2, <1>4 DEF StreamNext
  <2>2. StreamLeft(Tail(q))
    <3>1. Len(q) # 2
      <4>1. ASSUME Len(q) = 2 PROVE FALSE
        <5>1. 2 - 1 = 1
          OBVIOUS
        <5> QED
          BY <1>3, <1>4, <4>1, <5>1
      <4> QED
        BY <4>1
    <3>2. PICK t \in Seq(StreamResults) : t = Tail(q)
      BY <1>3, StreamSequences
    <3>3. Len(t) = Len(q) - 1 /\ \A i \in 1 .. Len(q) - 1 : t[i] = q[i + 1]
      BY <1>3, <3>2, StreamSequences
    <3>4. /\ Len(q) - 1 \in 1 .. Len(q) - 1 /\ (Len(q) - 1) + 1 = Len(q)
          /\ Len(q) - 2 \in 1 .. Len(q) - 1 /\ (Len(q) - 2) + 1 = Len(q) - 1
          /\ Len(q) - 1 >= 2 /\ (Len(q) - 1) - 1 = Len(q) - 2
          /\ \A i \in 1 .. (Len(q) - 1) - 2 : i \in 1 .. Len(q) - 1 /\ i + 1 \in 1 .. Len(q) - 2
      <4>1. PICK n \in Nat : n = Len(q) /\ n >= 2 /\ n # 2
        BY <1>3, <3>1
      <4>2. /\ n - 1 \in 1 .. n - 1 /\ (n - 1) + 1 = n
            /\ n - 2 \in 1 .. n - 1 /\ (n - 2) + 1 = n - 1
            /\ n - 1 >= 2 /\ (n - 1) - 1 = n - 2
            /\ \A i \in 1 .. (n - 1) - 2 : i \in 1 .. n - 1 /\ i + 1 \in 1 .. n - 2
        BY <4>1
      <4> QED
        BY <4>1, <4>2
    <3>5. /\ t[Len(q) - 1] = "null" /\ t[Len(q) - 2] \in {"tuples", "command", "error"}
          /\ \A i \in 1 .. (Len(q) - 1) - 2 : t[i] = "single"
      BY <1>3, <3>3, <3>4
    <3> QED
      BY <3>2, <3>3, <3>4, <3>5 DEF StreamLeft
  <2>3. /\ CurTypes(cur') /\ ~cur'.selected /\ cur'.results = cur.results
        /\ cur'.many = cur.many /\ cur'.rowcount = cur.rowcount
    <3>1. /\ cur' \in CursorRecords /\ cur'.closed = cur.closed /\ cur'.results = cur.results
          /\ cur'.selected = cur.selected /\ cur'.ires = cur.ires /\ cur'.pos = cur.pos
          /\ cur'.many = cur.many /\ cur'.rowcount = cur.rowcount
      BY <1>1, <2>1 DEF CursorRecords
    <3>2. CurTypes(cur')
      BY <1>1, <3>1 DEF CurTypes, CursorRecords
    <3> QED
      BY <1>1, <3>1, <3>2
  <2>4. /\ seen' \in Histories /\ seen'.calls = seen.calls /\ seen'.overlap = seen.overlap
        /\ seen'.inorder = seen.inorder /\ seen'.foreign = seen.foreign
        /\ seen'.count = seen.count
    <3>1. PICK m \in Nat : m = seen.next + 1
      BY <1>1 DEF Honest, Histories
    <3> QED
      BY <1>1, <2>1, <3>1 DEF Honest, Histories
  <2>5. Honest(seen')
    BY <1>1, <2>4 DEF Honest
  <2>6. Expecting(cur', <<>>, seen')
    <3>1. Expecting(cur, <<>>, seen)
      BY <1>1
    <3> QED
      BY <2>3, <2>4, <3>1 DEF Expecting
  <2>7. stream'.queue = Tail(q) /\ (stream'.at = "off" \/ stream'.at = "yielded")
        /\ stream'.at = stream.at
    <3>1. /\ stream' = [stream EXCEPT !.queue = Tail(q)]
          /\ \E v : stream = v /\ stream.queue = q /\ stream.at = "yielded"
      BY <1>1, <1>2, <2>1
    <3> QED
      BY <1>1, <3>1
  <2> QED
    BY <1>1, <2>2, <2>3, <2>5, <2>6, <2>7 DEF CursorIInv, Honest, Histories
<1>5. CASE Head(q) # "single"
  <2>1. /\ stream' = [at |-> "off",
                      queue |-> IF FetchOne(q) = <<>> THEN FetchOne(q) ELSE Recovered(FetchOne(q))]
        /\ cur' = cur /\ seen' = seen
    BY <1>2, <1>5 DEF StreamNext
  <2>2. Len(q) = 2
    <3>1. ASSUME Len(q) # 2 PROVE FALSE
      <4>0. PICK n \in Nat : n = Len(q) /\ n >= 2 /\ n # 2
        BY <1>3, <3>1
      <4>1. 1 \in 1 .. n - 2
        BY <4>0
      <4> QED
        BY <1>3, <1>5, <4>0, <4>1
    <3> QED
      BY <3>1
  <2>3. PICK t \in Seq(StreamResults) : t = Tail(q)
    BY <1>3, StreamSequences
  <2>4. Len(t) = 1 /\ t[1] = q[2]
    <3>1. 1 \in 1 .. 2 - 1 /\ 1 + 1 = 2 /\ 2 - 1 = 1
      OBVIOUS
    <3>2. Len(t) = 2 - 1 /\ \A i \in 1 .. 2 - 1 : t[i] = q[i + 1]
      BY <1>3, <2>2, <2>3, StreamSequences
    <3>3. t[1] = q[1 + 1]
      BY <3>1, <3>2
    <3> QED
      BY <3>1, <3>2, <3>3
  <2>5. t = <<"null">>
    <3>1. <<"null">> \in Seq(StreamResults) /\ Len(<<"null">>) = 1 /\ <<"null">>[1] = "null"
      BY DEF StreamResults
    <3>2. t[1] = "null"
      BY <1>3, <2>2, <2>4
    <3>3. \A i \in 1 .. Len(t) : t[i] = <<"null">>[i]
      BY <2>4, <3>1, <3>2
    <3> QED
      BY <2>4, <3>1, <3>3, SeqEqual
  <2>6. FetchOne(q) = <<>> \/ FetchOne(q) = <<"null">>
    <3>1. Head(q) # "copy"
      <4>1. 2 - 1 = 1
        OBVIOUS
      <4> QED
        BY <1>3, <2>2, <4>1
    <3> QED
      BY <2>3, <2>5, <3>1 DEF FetchOne
  <2>7. stream'.at = "off" /\ stream'.queue = <<>>
    BY <2>1, <2>6, StreamRecovered
  <2> QED
    BY <1>1, <2>1, <2>7 DEF CursorIInv, Honest, Histories
<1> QED
  BY <1>4, <1>5

\* The generator is closed
LEMMA StreamCloseStep ==
    ASSUME CursorIInv, StreamClose
    PROVE  CursorIInv'
<1>1. /\ stream.at = "yielded" /\ (StreamLeft(stream.queue) \/ stream.queue = Copying)
      /\ cur' = cur /\ pipe' = pipe /\ seen' = seen
  BY DEF StreamClose, CursorIInv
<1>2. PICK p \in Seq(StreamResults) : p = stream.queue
  BY <1>1, CopyStays DEF StreamLeft
<1>3. PICK q : /\ stream' = [at |-> "off", queue |-> Recovered(q)]
               /\ \/ q = p
                  \/ \E k \in 0 .. Len(p) : /\ \A j \in 1 .. k : p[j] = "single"
                                            /\ q = SubSeq(p, 1, k) \o <<"error", "null">>
  BY <1>2 DEF StreamClose
<1>4. StreamLeft(q) \/ q = Copying
  <2>1. CASE q = p
    BY <1>1, <1>2, <2>1
  <2>2. ASSUME NEW k \in 0 .. Len(p), \A j \in 1 .. k : p[j] = "single",
               q = SubSeq(p, 1, k) \o <<"error", "null">>
        PROVE  StreamLeft(q)
    <3>0. Len(p) \in Nat /\ k \in Nat /\ k <= Len(p)
      OBVIOUS
    <3>1. /\ SubSeq(p, 1, k) \in Seq(StreamResults) /\ Len(SubSeq(p, 1, k)) = k
          /\ \A i \in 1 .. k : SubSeq(p, 1, k)[i] = p[i]
      <4>1. \A i \in 1 .. k : p[i] \in StreamResults
        BY <3>0
      <4> QED
        BY <3>0, <4>1
    <3>2. PICK s \in Seq(StreamResults) : s = SubSeq(p, 1, k) /\ Len(s) = k
                                   /\ \A i \in 1 .. k : s[i] = "single"
      BY <2>2, <3>1
    <3> DEFINE t == <<"error", "null">>
    <3>3. t \in Seq(StreamResults) /\ Len(t) = 2 /\ t[1] = "error" /\ t[2] = "null"
      BY DEF StreamResults
    <3> HIDE DEF t
    <3>4. /\ s \o t \in Seq(StreamResults) /\ Len(s \o t) = k + 2
          /\ \A i \in 1 .. k : (s \o t)[i] = s[i]
          /\ (s \o t)[k + 1] = t[1] /\ (s \o t)[k + 2] = t[2]
      <4>1. /\ s \o t \in Seq(StreamResults) /\ Len(s \o t) = Len(s) + 2
            /\ \A i \in 1 .. Len(s) : (s \o t)[i] = s[i]
            /\ (s \o t)[Len(s) + 1] = t[1] /\ (s \o t)[Len(s) + 2] = t[2]
        BY <3>3, StreamSequences
      <4> QED
        BY <3>2, <4>1, Zenon
    <3>5. q = s \o t
      BY <2>2, <3>2 DEF t
    <3>6. /\ q \in Seq(StreamResults) /\ Len(q) = k + 2
          /\ \A i \in 1 .. k : q[i] = "single"
          /\ q[k + 1] = "error" /\ q[k + 2] = "null"
      BY <3>2, <3>3, <3>4, <3>5
    <3>7. (k + 2) - 2 = k /\ (k + 2) - 1 = k + 1 /\ k + 2 >= 2
      BY <3>0
    <3> QED
      BY <3>6, <3>7 DEF StreamLeft
  <2> QED
    BY <1>3, <2>1, <2>2
<1>5. stream'.at = "off" /\ stream'.queue \in {<<>>, Copying}
  BY <1>3, <1>4, StreamRecovered, CopyStays
<1> QED
  BY <1>1, <1>5 DEF CursorIInv

-----------------------------------------------------------------------------
(* The theorem *)

\* The cursor starts with no results, no call made and no stream
LEMMA CursorStarts ==
    CursorInit => CursorIInv
<1> SUFFICES ASSUME CursorInit PROVE CursorIInv
  OBVIOUS
<1>1. PICK n \in Int : n = -1
  <2>1. -1 \in Int
    OBVIOUS
  <2> QED
    BY <2>1
<1>2. PICK e \in Seq(CurResults) : e = <<>>
  <2>1. <<>> \in Seq(CurResults)
    OBVIOUS
  <2> QED
    BY <2>1
<1>3. PICK p \in Seq(Batches) : p = <<>>
  <2>1. <<>> \in Seq(Batches)
    OBVIOUS
  <2> QED
    BY <2>1
<1>4. cur = [closed |-> FALSE, results |-> e, selected |-> FALSE, ires |-> 1,
             pos |-> 0, rowcount |-> n, many |-> "no", single |-> FALSE]
  BY <1>1, <1>2 DEF CursorInit
<1>5. /\ pipe = [on |-> FALSE, pending |-> p] /\ stream = [at |-> "off", queue |-> <<>>]
      /\ seen = [calls |-> 0, next |-> 0, inorder |-> TRUE, overlap |-> FALSE,
                 count |-> 0, foreign |-> FALSE]
  BY <1>3 DEF CursorInit
<1>6. cur \in CursorRecords
  BY <1>4 DEF CursorRecords
<1>7. CurTypes(cur)
  BY <1>2, <1>4, <1>6 DEF CurTypes, CursorRecords
<1>8. pipe \in [on : BOOLEAN, pending : Seq(Batches)] /\ pipe.pending = <<>> /\ ~pipe.on
  BY <1>3, <1>5
<1>9. Honest(seen)
  BY <1>5 DEF Honest, Histories
<1>10. Expecting(cur, <<>>, seen)
  BY <1>2, <1>4 DEF Expecting
<1> QED
  BY <1>5, <1>7, <1>8, <1>9, <1>10 DEF CursorIInv, Honest, Histories

\* Every step keeps the cursor and what is still to come of the last call
LEMMA CursorSteps ==
    ASSUME CursorAssumption
    PROVE  CursorIInv /\ [CursorNext]_cursorVars => CursorIInv'
<1> SUFFICES ASSUME CursorIInv, [CursorNext]_cursorVars PROVE CursorIInv'
  OBVIOUS
<1>1. ASSUME NEW rs \in Answers \cup Scripts, Execute(rs) PROVE CursorIInv'
  BY <1>1, ExecuteStep
<1>2. ASSUME NEW r1 \in Answers, NEW r2 \in Answers, NEW returning \in BOOLEAN,
             ExecuteMany(<<r1, r2>>, returning)
      PROVE  CursorIInv'
  BY <1>2, ExecuteManyStep
<1>3. CASE EnterPipeline
  BY <1>3, EnterPipelineStep
<1>4. ASSUME NEW exit \in BOOLEAN, SyncPipeline(exit) PROVE CursorIInv'
  BY <1>4, SyncPipelineStep
<1>5. ASSUME NEW size \in {1, 2, 9}, Fetch(size) PROVE CursorIInv'
  <2>1. size \in Nat
    OBVIOUS
  <2> QED
    BY <1>5, <2>1, FetchRowsStep
<1>6. ASSUME NEW v \in -1 .. 2, NEW mode \in {"relative", "absolute"}, Scroll(v, mode)
      PROVE  CursorIInv'
  <2>1. v \in Int
    OBVIOUS
  <2> QED
    BY <1>6, <2>1, ScrollRowsStep
<1>7. ASSUME NEW i \in 1 .. 2, SetResult(i) PROVE CursorIInv'
  BY <1>7, SetResultStep
<1>8. CASE LoadersChanged
  BY <1>8, LoadersChangedStep
<1>9. CASE CloseCursor
  BY <1>9, CloseCursorStep
<1>10. ASSUME NEW q \in UNION {StreamAnswers(n) : n \in Rows}, StreamStart(q) PROVE CursorIInv'
  <2>1. PICK n \in Nat : q \in StreamAnswers(n)
    BY DEF CursorAssumption
  <2>2. StreamLeft(q) \/ q = Copying
    BY <2>1, StreamAnswersFacts
  <2> QED
    BY <1>10, <2>2, StreamStartStep
<1>11. CASE StreamNext
  <2>1. CASE StreamLeft(stream.queue)
    BY <1>11, <2>1, StreamNextStep
  <2>2. CASE stream.queue = Copying
    <3>1. /\ stream' = [at |-> "off", queue |-> Copying] /\ UNCHANGED <<cur, seen, pipe>>
      <4>1. FetchOne(Copying) = Copying /\ Copying # <<>> /\ Head(Copying) # "single"
        BY DEF FetchOne, Copying
      <4> QED
        BY <1>11, <2>2, <4>1, CopyStays DEF StreamNext
    <3> QED
      BY <3>1 DEF CursorIInv
  <2> QED
    BY <1>11, <2>1, <2>2 DEF StreamNext, CursorIInv
<1>12. CASE StreamClose
  BY <1>12, StreamCloseStep
<1>13. CASE UNCHANGED cursorVars
  BY <1>13 DEF cursorVars, CursorIInv
<1>14. CASE ExecuteRefused
  BY <1>14, RefusedStep
<1> QED
  BY <1>1, <1>2, <1>3, <1>4, <1>5, <1>6, <1>7, <1>8, <1>9, <1>10, <1>11, <1>12, <1>13, <1>14
     DEF CursorNext

\* What the invariant implies
LEMMA CursorShows ==
    CursorIInv => ResultsOfCall
<1> SUFFICES ASSUME CursorIInv PROVE ResultsOfCall
  OBVIOUS
<1>1. /\ CurTypes(cur) /\ cur \in CursorRecords /\ Honest(seen)
      /\ Expecting(cur, pipe.pending, seen) /\ (Free => stream.queue \in {<<>>, Copying})
  BY CursorFacts
<1>2. RowsInOrder
  BY <1>1 DEF RowsInOrder, Honest, CurTypes, Current
<1>3. AnswersLastCall
  BY <1>1 DEF AnswersLastCall, Honest, Expecting
<1>4. CountsAll
  <2> SUFFICES ASSUME cur.many = "count", pipe.pending = <<>>, ~seen.overlap
               PROVE  cur.rowcount = seen.count
    BY DEF CountsAll
  <2>1. cur.rowcount + TotalOf(<<>>) = seen.count
    BY <1>1 DEF Expecting
  <2>2. TotalOf(<<>>) = 0 /\ cur.rowcount \in Int
    BY <1>1, TotalFacts DEF CursorRecords
  <2> QED
    BY <2>1, <2>2
<1>5. StreamReleased
  BY <1>1 DEF StreamReleased, Free
<1> QED
  BY <1>2, <1>3, <1>4, <1>5 DEF ResultsOfCall

\* The cursor shows the rows, the results and the count of the call it is
\* asked about: however the results arrive in pipeline mode, fetchone(),
\* scroll(), nextset() and executemany() show those of the last call, in order
\* and counted once, and a stream() that is over leaves nothing to read, unless
\* it was given a COPY (_cursor_base.py, cursor.py)
THEOREM ResultsCorrect == CursorInit /\ [][CursorNext]_cursorVars => []ResultsOfCall
<1>1. CursorAssumption
  BY CursorAssumption
<1>2. CursorIInv /\ [CursorNext]_cursorVars => CursorIInv'
  BY <1>1, CursorSteps
<1> QED
  BY <1>2, CursorStarts, CursorShows, PTL

-----------------------------------------------------------------------------
(***************************************************************************)
(* The maps of the adapters, of a program that registers nothing by name,  *)
(* and nothing while another thread is looking for a dumper.               *)
(***************************************************************************)

Maps == [Keys2 -> Int]
Places == [dict : Nat, own : BOOLEAN]
TransformerStates == [dumper : Int, loader : Int, rowLoader : Int, query : Int]
LookStates == [at : {"none", "class", "name", "set", "pop", "super", "done"},
               dict : Nat, got : Int]

AdaptTypes ==
    /\ dicts \in Seq(Maps)
    /\ Made \subseteq Contexts
    /\ ctx \in [Made -> [Kinds2 -> Places]]
    /\ \A c \in Made, k \in Kinds2 : ctx[c][k].dict \in DOMAIN dicts
    /\ own \in [Made -> [Kinds2 -> Maps]]
    /\ transformers \in [Cursors -> TransformerStates]
    /\ look \in [Threads -> LookStates]
    /\ \A t \in Threads : look[t].at # "none" => look[t].dict \in DOMAIN dicts
    /\ regs \in Nat

\* The dictionary of a context that owns it is of no other
MapsOwned ==
    \A c, d \in Made, k \in Kinds2 :
        ctx[c][k].own /\ ctx[c][k].dict = ctx[d][k].dict => c = d

\* Nothing was registered on the name
NamesKept == \A i \in DOMAIN dicts : dicts[i]["name"] \in {-1, 0}

\* Map m finds what map o does, where the name was never replaced: either the dumper
\* registered on the class, or the one of the library, on the name or on the class
Stands(m, o) ==
    /\ o["C"] \in Nat /\ o["name"] = -1
    /\ IF o["C"] # 0 THEN m["C"] = o["C"]
       ELSE m["C"] = -1 \/ (m["C"] = 0 /\ m["name"] = -1)

MapsStand ==
    \A c \in Made :
        /\ Stands(DictOf(c, "dumpers"), own[c]["dumpers"])
        /\ DictOf(c, "loaders")["oid"] = own[c]["loaders"]["oid"]

\* What a thread that is looking has read still holds: there is no dumper on the
\* class but the one of the library, that it sets too
LooksHold ==
    \A t \in Threads :
        /\ look[t].at \in {"name", "set"} => dicts[look[t].dict]["C"] \in {-1, 0}
        /\ look[t].at = "set" => look[t].got = -1
        /\ look[t].at = "pop" => dicts[look[t].dict]["C"] # 0

\* A transformer knows no loader, or the present one
LoadersKept ==
    \A u \in Cursors :
        IF u \in Made
        THEN /\ transformers[u].loader \in {0, DictOf(u, "loaders")["oid"]}
             /\ transformers[u].rowLoader \in {0, DictOf(u, "loaders")["oid"]}
        ELSE transformers[u] = NewTx

AdaptIInv ==
    /\ AdaptTypes /\ MapsOwned /\ NamesKept /\ MapsStand /\ LooksHold /\ LoadersKept

\* The invariant implies what the run checks
LEMMA AdaptImplied == AdaptIInv => AdaptersCurrent
<1> SUFFICES ASSUME AdaptIInv PROVE AdaptersCurrent
  OBVIOUS
<1>1. ASSUME NEW m, NEW o, Stands(m, o) PROVE Found(m) = Found(o)
  BY <1>1 DEF Stands, Found
<1>2. MapsIndependent
  BY <1>1 DEF AdaptIInv, MapsStand, MapsIndependent
<1>3. LoadersCurrent
  BY DEF AdaptIInv, LoadersKept, LoadersCurrent
<1> QED
  BY <1>2, <1>3 DEF AdaptersCurrent

\* The maps of the library
LEMMA DefaultMaps == Defaults \in Maps /\ Defaults["C"] = 0 /\ Defaults["name"] = -1
                     /\ Stands(Defaults, Defaults)
<1>1. Defaults \in Maps /\ Defaults["C"] = 0 /\ Defaults["name"] = -1
  BY DEF Defaults, Maps, Keys2
<1> QED
  BY <1>1 DEF Stands

\* The first state
LEMMA AdaptInitIInv == AdaptInit => AdaptIInv
<1> SUFFICES ASSUME AdaptInit PROVE AdaptIInv
  OBVIOUS
<1>1. /\ dicts = <<Defaults, Defaults>> /\ regs = 0
      /\ ctx = [c \in {Global} |->
                [k \in Kinds2 |-> [dict |-> IF k = "dumpers" THEN 1 ELSE 2, own |-> TRUE]]]
      /\ own = [c \in {Global} |-> [k \in Kinds2 |-> Defaults]]
      /\ transformers = [u \in Cursors |-> NewTx]
      /\ look = [t \in Threads |-> NoLook]
  BY DEF AdaptInit
<1>2. /\ dicts \in Seq(Maps) /\ DOMAIN dicts = 1 .. 2
      /\ dicts[1] = Defaults /\ dicts[2] = Defaults
  BY <1>1, DefaultMaps
<1>3. Made = {Global} /\ Global \in Contexts
  BY <1>1 DEF Made, Contexts
<1>4. /\ ctx \in [Made -> [Kinds2 -> Places]]
      /\ \A c \in Made, k \in Kinds2 :
            ctx[c][k].dict \in 1 .. 2 /\ own[c][k] = Defaults
  BY <1>1, <1>3 DEF Places
<1>5. own \in [Made -> [Kinds2 -> Maps]]
  BY <1>1, <1>3, DefaultMaps
<1>6. transformers \in [Cursors -> TransformerStates] /\ look \in [Threads -> LookStates]
  BY <1>1 DEF NewTx, TransformerStates, NoLook, LookStates
<1>7. AdaptTypes
  BY <1>1, <1>2, <1>3, <1>4, <1>5, <1>6 DEF AdaptTypes, NoLook
<1>8. MapsOwned
  BY <1>3 DEF MapsOwned
<1>9. NamesKept
  BY <1>2, DefaultMaps DEF NamesKept
<1>10. MapsStand
  <2>1. \A c \in Made, k \in Kinds2 : DictOf(c, k) = Defaults /\ own[c][k] = Defaults
    BY <1>2, <1>4 DEF DictOf
  <2> QED
    BY <2>1, DefaultMaps DEF MapsStand, Kinds2
<1>11. LooksHold
  BY <1>1 DEF LooksHold, NoLook
<1>12. LoadersKept
  BY <1>1 DEF LoadersKept, NewTx
<1> QED
  BY <1>7, <1>8, <1>9, <1>10, <1>11, <1>12 DEF AdaptIInv

\* The fields of a state of the types
LEMMA AdaptFields ==
    ASSUME AdaptTypes
    PROVE  /\ \A c \in Made, k \in Kinds2 :
                  /\ ctx[c][k] \in Places /\ ctx[c][k].dict \in DOMAIN dicts
                  /\ DictOf(c, k) \in Maps /\ own[c][k] \in Maps
           /\ \A i \in DOMAIN dicts : dicts[i] \in Maps
           /\ DOMAIN dicts = 1 .. Len(dicts) /\ Len(dicts) \in Nat
  BY DEF AdaptTypes, DictOf

-----------------------------------------------------------------------------
(* A lookup changes a dictionary *)

\* Map m1 can take the place of m: it stands for whatever m does, and keeps what a
\* lookup has read
Replaces(m1, m) ==
    /\ \A o \in Maps : Stands(m, o) => Stands(m1, o)
    /\ m1["oid"] = m["oid"] /\ m1["name"] \in {-1, 0}
    /\ m["C"] \in {-1, 0} => m1["C"] \in {-1, 0}
    /\ m["C"] # 0 => m1["C"] # 0

\* The three changes that a lookup makes to a map
LEMMA LookupReplaces ==
    ASSUME NEW m \in Maps, m["name"] \in {-1, 0}
    PROVE  /\ Resolved(m) \in Maps /\ Replaces(Resolved(m), m)
           /\ m["C"] \in {-1, 0} =>
                 [m EXCEPT !["C"] = -1] \in Maps /\ Replaces([m EXCEPT !["C"] = -1], m)
           /\ m["C"] # 0 =>
                 [m EXCEPT !["name"] = 0] \in Maps /\ Replaces([m EXCEPT !["name"] = 0], m)
<1>1. DOMAIN m = Keys2 /\ {"C", "name", "oid"} \subseteq Keys2
  BY DEF Maps, Keys2
<1>2. ASSUME m["C"] \in {-1, 0}
      PROVE  [m EXCEPT !["C"] = -1] \in Maps /\ Replaces([m EXCEPT !["C"] = -1], m)
  <2>1. [m EXCEPT !["C"] = -1] \in Maps
    BY <1>1 DEF Maps
  <2>2. /\ [m EXCEPT !["C"] = -1]["C"] = -1 /\ [m EXCEPT !["C"] = -1]["name"] = m["name"]
        /\ [m EXCEPT !["C"] = -1]["oid"] = m["oid"]
    BY <1>1
  <2> QED
    BY <1>2, <2>1, <2>2 DEF Replaces, Stands
<1>3. ASSUME m["C"] # 0
      PROVE  [m EXCEPT !["name"] = 0] \in Maps /\ Replaces([m EXCEPT !["name"] = 0], m)
  <2>1. [m EXCEPT !["name"] = 0] \in Maps
    BY <1>1 DEF Maps
  <2>2. /\ [m EXCEPT !["name"] = 0]["C"] = m["C"] /\ [m EXCEPT !["name"] = 0]["name"] = 0
        /\ [m EXCEPT !["name"] = 0]["oid"] = m["oid"]
    BY <1>1
  <2> QED
    BY <1>3, <2>1, <2>2 DEF Replaces, Stands
<1>4. Resolved(m) \in Maps /\ Replaces(Resolved(m), m)
  <2>1. CASE m["C"] = 0 /\ m["name"] # 0
    <3>1. Resolved(m) = [m EXCEPT !["C"] = -1, !["name"] = 0]
      BY <2>1 DEF Resolved
    <3>2. Resolved(m) \in Maps
      BY <1>1, <3>1 DEF Maps
    <3>3. Resolved(m)["C"] = -1 /\ Resolved(m)["name"] = 0 /\ Resolved(m)["oid"] = m["oid"]
      BY <1>1, <3>1
    <3> QED
      BY <2>1, <3>2, <3>3 DEF Replaces, Stands
  <2>2. CASE ~(m["C"] = 0 /\ m["name"] # 0)
    <3>1. Resolved(m) = m
      BY <2>2 DEF Resolved
    <3> QED
      BY <3>1 DEF Replaces
  <2> QED
    BY <2>1, <2>2
<1> QED
  BY <1>2, <1>3, <1>4

\* What remains when the dictionary i becomes m
LEMMA MapReplaced ==
    ASSUME AdaptIInv, NEW i \in DOMAIN dicts, NEW m \in Maps, Replaces(m, dicts[i]),
           dicts' = [dicts EXCEPT ![i] = m], UNCHANGED <<ctx, own, regs>>,
           transformers' \in [Cursors -> TransformerStates],
           look' \in [Threads -> LookStates],
           \A t \in Threads : look'[t].at # "none" => look'[t].dict \in DOMAIN dicts
    PROVE  /\ AdaptTypes' /\ MapsOwned' /\ NamesKept' /\ MapsStand'
           /\ \A u \in Made : DictOf(u, "loaders")'["oid"] = DictOf(u, "loaders")["oid"]
           /\ \A j \in DOMAIN dicts :
                 /\ dicts[j]["C"] \in {-1, 0} => dicts'[j]["C"] \in {-1, 0}
                 /\ dicts[j]["C"] # 0 => dicts'[j]["C"] # 0
           /\ dicts'[i] = m
<1>0. AdaptTypes
  BY DEF AdaptIInv
<1>1. dicts \in Seq(Maps) /\ dicts[i] \in Maps
  BY <1>0 DEF AdaptTypes
<1>2. /\ dicts' \in Seq(Maps) /\ DOMAIN dicts' = DOMAIN dicts
      /\ dicts'[i] = m /\ \A j \in DOMAIN dicts : j # i => dicts'[j] = dicts[j]
  BY <1>1
<1>3. Made' = Made
  BY DEF Made
<1>4. AdaptTypes'
  BY <1>0, <1>2, <1>3 DEF AdaptTypes
<1>5. MapsOwned'
  BY <1>3 DEF AdaptIInv, MapsOwned
<1>6. NamesKept'
  BY <1>2 DEF AdaptIInv, NamesKept, Replaces
<1>7. ASSUME NEW c \in Made, NEW k \in Kinds2
      PROVE  DictOf(c, k)' = DictOf(c, k)
             \/ (DictOf(c, k)' = m /\ DictOf(c, k) = dicts[i])
  BY <1>0, <1>2, AdaptFields DEF DictOf
<1>8. \A c \in Made, k \in Kinds2 : DictOf(c, k)'["oid"] = DictOf(c, k)["oid"]
  BY <1>7 DEF Replaces
<1>9. "dumpers" \in Kinds2 /\ "loaders" \in Kinds2
  BY DEF Kinds2
<1>10. MapsStand'
  <2> SUFFICES ASSUME NEW c \in Made
               PROVE  /\ Stands(DictOf(c, "dumpers")', own[c]["dumpers"])
                      /\ DictOf(c, "loaders")'["oid"] = own[c]["loaders"]["oid"]
    BY <1>3 DEF MapsStand
  <2>1. /\ Stands(DictOf(c, "dumpers"), own[c]["dumpers"])
        /\ DictOf(c, "loaders")["oid"] = own[c]["loaders"]["oid"]
    BY DEF AdaptIInv, MapsStand
  <2>2. own[c]["dumpers"] \in Maps
    BY <1>0, <1>9, AdaptFields
  <2> QED
    BY <1>7, <1>8, <1>9, <2>1, <2>2 DEF Replaces
<1> QED
  BY <1>2, <1>4, <1>5, <1>6, <1>8, <1>9, <1>10 DEF Replaces

\* The loaders that transformers know, when neither they nor the oids change
LEMMA LoadersStay ==
    ASSUME LoadersKept, transformers' = transformers, Made' = Made,
           \A u \in Made : DictOf(u, "loaders")'["oid"] = DictOf(u, "loaders")["oid"]
    PROVE  LoadersKept'
<1> SUFFICES ASSUME NEW u \in Cursors
             PROVE  IF u \in Made
                    THEN /\ transformers'[u].loader \in {0, DictOf(u, "loaders")'["oid"]}
                         /\ transformers'[u].rowLoader \in {0, DictOf(u, "loaders")'["oid"]}
                    ELSE transformers'[u] = NewTx
  BY DEF LoadersKept
<1> QED
  BY DEF LoadersKept

\* The lookup of one thread goes on without a change of the dictionaries
LEMMA LookOnly ==
    ASSUME AdaptIInv, UNCHANGED <<dicts, ctx, own, transformers, regs>>, NEW t \in Threads,
           NEW x \in LookStates, look' = [look EXCEPT ![t] = x],
           x.at # "none" => x.dict \in DOMAIN dicts,
           x.at \in {"name", "set"} => dicts[x.dict]["C"] \in {-1, 0},
           x.at = "set" => x.got = -1,
           x.at = "pop" => dicts[x.dict]["C"] # 0
    PROVE  AdaptIInv'
<1>1. look \in [Threads -> LookStates]
  BY DEF AdaptIInv, AdaptTypes
<1>2. look'[t] = x /\ \A t1 \in Threads : t1 # t => look'[t1] = look[t1]
  BY <1>1
<1>3. look' \in [Threads -> LookStates]
  BY <1>1
<1>4. AdaptTypes'
  BY <1>2, <1>3 DEF AdaptIInv, AdaptTypes, Made
<1>5. LooksHold'
  BY <1>2 DEF AdaptIInv, LooksHold
<1>6. MapsOwned' /\ NamesKept' /\ MapsStand' /\ LoadersKept'
  BY DEF AdaptIInv, MapsOwned, NamesKept, MapsStand, LoadersKept, Made, DictOf
<1> QED
  BY <1>4, <1>5, <1>6 DEF AdaptIInv

\* Looking up, in another thread: what is read, and what is set
LEMMA LookStep ==
    ASSUME AdaptIInv, NEW t \in Threads,
           \/ \E c \in Contexts : LookStart(t, c)
           \/ LookClass(t) \/ LookName(t) \/ LookSet(t) \/ LookPop(t) \/ LookSuper(t)
    PROVE  AdaptIInv'
<1>0. AdaptTypes /\ look \in [Threads -> LookStates] /\ look[t] \in LookStates
  BY DEF AdaptIInv, AdaptTypes
<1>1. /\ DOMAIN look[t] = {"at", "dict", "got"} /\ look[t].dict \in Nat
      /\ look[t].at # "none" => look[t].dict \in DOMAIN dicts
      /\ look[t].at # "none" => dicts[look[t].dict] \in Maps
                               /\ dicts[look[t].dict]["name"] \in {-1, 0}
  <2>1. look[t].at # "none" => look[t].dict \in DOMAIN dicts
    BY <1>0 DEF AdaptTypes
  <2> QED
    BY <1>0, <2>1, AdaptFields DEF LookStates, AdaptIInv, NamesKept
<1>2. "dumpers" \in Kinds2 /\ {"C", "name", "S"} \subseteq Keys2
  BY DEF Kinds2, Keys2
<1>3. CASE \E c \in Contexts : LookStart(t, c)
  <2>1. PICK c \in Contexts : LookStart(t, c)
    BY <1>3
  <2> DEFINE x == [at |-> "class", dict |-> ctx[c]["dumpers"].dict, got |-> 0]
  <2>2. ctx[c]["dumpers"].dict \in DOMAIN dicts /\ ctx[c]["dumpers"].dict \in Nat
    BY <1>0, <1>2, <2>1, AdaptFields DEF LookStart, Places
  <2>3. x \in LookStates
    BY <2>2 DEF LookStates
  <2> QED
    BY <2>1, <2>2, <2>3, LookOnly DEF LookStart
<1>4. CASE LookClass(t)
  <2> DEFINE d == dicts[look[t].dict]["C"]
             x == [look[t] EXCEPT !.at = IF d # 0 THEN "done" ELSE "name", !.got = d]
  <2>1. look[t].at = "class" /\ UNCHANGED <<dicts, ctx, own, transformers, regs>>
        /\ look' = [look EXCEPT ![t] = x]
    <3>1. look' = [look EXCEPT ![t].at = IF d # 0 THEN "done" ELSE "name", ![t].got = d]
      BY <1>4 DEF LookClass
    <3>2. look' = [look EXCEPT ![t] = x]
      BY <1>0, <3>1
    <3> QED
      BY <1>4, <3>2 DEF LookClass
  <2>2. d \in Int
    BY <1>1, <1>2, <2>1 DEF Maps
  <2> HIDE DEF d
  <2>3. x \in LookStates /\ x.dict = look[t].dict /\ (x.at = IF d # 0 THEN "done" ELSE "name")
    BY <1>0, <2>2 DEF LookStates
  <2>4. x.at = "name" => dicts[x.dict]["C"] = 0
    BY <2>3 DEF d
  <2> HIDE DEF x
  <2> QED
    BY <1>1, <2>1, <2>3, <2>4, LookOnly
<1>5. CASE LookName(t)
  <2> DEFINE d == dicts[look[t].dict]["name"]
             x == [look[t] EXCEPT !.at = IF d # 0 THEN "set" ELSE "super", !.got = d]
  <2>1. look[t].at = "name" /\ UNCHANGED <<dicts, ctx, own, transformers, regs>>
        /\ look' = [look EXCEPT ![t] = x]
    <3>1. look' = [look EXCEPT ![t].at = IF d # 0 THEN "set" ELSE "super", ![t].got = d]
      BY <1>5 DEF LookName
    <3>2. look' = [look EXCEPT ![t] = x]
      BY <1>0, <3>1
    <3> QED
      BY <1>5, <3>2 DEF LookName
  <2>2. d \in {-1, 0} /\ d \in Int
    BY <1>1, <2>1
  <2> HIDE DEF d
  <2>3. /\ x \in LookStates /\ x.dict = look[t].dict /\ x.got = d
        /\ x.at = IF d # 0 THEN "set" ELSE "super"
    BY <1>0, <2>2 DEF LookStates
  <2>4. dicts[x.dict]["C"] \in {-1, 0}
    BY <2>1, <2>3 DEF AdaptIInv, LooksHold
  <2>5. x.at = "set" => x.got = -1
    BY <2>2, <2>3
  <2>6. x.at \in {"set", "super"}
    BY <2>3
  <2> HIDE DEF x
  <2> QED
    BY <1>1, <2>1, <2>3, <2>4, <2>5, <2>6, LookOnly
<1>6. CASE LookSuper(t)
  <2> DEFINE d == dicts[look[t].dict]["S"]
             x == [look[t] EXCEPT !.at = "done", !.got = d]
  <2>1. look[t].at = "super" /\ UNCHANGED <<dicts, ctx, own, transformers, regs>>
        /\ look' = [look EXCEPT ![t] = x]
    <3>1. look' = [look EXCEPT ![t].at = "done", ![t].got = d]
      BY <1>6 DEF LookSuper
    <3>2. look' = [look EXCEPT ![t] = x]
      BY <1>0, <3>1
    <3> QED
      BY <1>6, <3>2 DEF LookSuper
  <2>2. d \in Int
    BY <1>1, <1>2, <2>1 DEF Maps
  <2> HIDE DEF d
  <2>3. x \in LookStates /\ x.dict = look[t].dict /\ x.at = "done"
    BY <1>0, <2>2 DEF LookStates
  <2> HIDE DEF x
  <2> QED
    BY <1>1, <2>1, <2>3, LookOnly
\* The thread sets the class, or forgets the name
<1>7. ASSUME NEW m \in Maps, NEW a \in {"pop", "done"}, look[t].at # "none",
             Replaces(m, dicts[look[t].dict]), a = "pop" => m["C"] # 0,
             dicts' = [dicts EXCEPT ![look[t].dict] = m],
             look' = [look EXCEPT ![t].at = a],
             UNCHANGED <<ctx, own, transformers, regs>>
      PROVE  AdaptIInv'
  <2>1. PICK i \in DOMAIN dicts : i = look[t].dict
    BY <1>1, <1>7
  <2>2. /\ look' \in [Threads -> LookStates]
        /\ look'[t].at = a /\ look'[t].dict = i
        /\ \A t1 \in Threads : t1 # t => look'[t1] = look[t1]
    BY <1>0, <1>7, <2>1 DEF LookStates
  <2>3. \A t1 \in Threads : look'[t1].at # "none" => look'[t1].dict \in DOMAIN dicts
    BY <1>0, <2>2 DEF AdaptTypes
  <2>4. transformers' \in [Cursors -> TransformerStates]
    BY <1>0, <1>7 DEF AdaptTypes
  <2>5. /\ AdaptTypes' /\ MapsOwned' /\ NamesKept' /\ MapsStand'
        /\ \A u \in Made : DictOf(u, "loaders")'["oid"] = DictOf(u, "loaders")["oid"]
        /\ \A j \in DOMAIN dicts :
              /\ dicts[j]["C"] \in {-1, 0} => dicts'[j]["C"] \in {-1, 0}
              /\ dicts[j]["C"] # 0 => dicts'[j]["C"] # 0
        /\ dicts'[i] = m
    BY <1>7, <2>1, <2>2, <2>3, <2>4, MapReplaced
  <2>6. LooksHold'
    <3> SUFFICES ASSUME NEW t1 \in Threads
                 PROVE  /\ look'[t1].at \in {"name", "set"} =>
                              dicts'[look'[t1].dict]["C"] \in {-1, 0}
                        /\ look'[t1].at = "set" => look'[t1].got = -1
                        /\ look'[t1].at = "pop" => dicts'[look'[t1].dict]["C"] # 0
      BY DEF LooksHold
    <3>1. CASE t1 = t
      BY <1>7, <2>2, <2>5, <3>1
    <3>2. CASE t1 # t
      <4>1. look'[t1] = look[t1]
        BY <2>2, <3>2
      <4>2. look[t1].at # "none" => look[t1].dict \in DOMAIN dicts
        BY <1>0 DEF AdaptTypes
      <4> QED
        BY <2>5, <4>1, <4>2 DEF AdaptIInv, LooksHold
    <3> QED
      BY <3>1, <3>2
  <2>7. LoadersKept'
    <3>1. Made' = Made
      BY <1>7 DEF Made
    <3> QED
      BY <1>7, <2>5, <3>1, LoadersStay DEF AdaptIInv
  <2> QED
    BY <2>5, <2>6, <2>7 DEF AdaptIInv
<1>8. CASE LookSet(t)
  <2> DEFINE m == dicts[look[t].dict]
  <2>1. look[t].at = "set" /\ look[t].got = -1 /\ m["C"] \in {-1, 0}
    BY <1>8 DEF LookSet, AdaptIInv, LooksHold
  <2>2. dicts' = [dicts EXCEPT ![look[t].dict] = [m EXCEPT !["C"] = -1]]
    BY <1>8, <2>1 DEF LookSet
  <2>3. m \in Maps /\ m["name"] \in {-1, 0}
    BY <1>1, <2>1
  <2>4. [m EXCEPT !["C"] = -1] \in Maps /\ Replaces([m EXCEPT !["C"] = -1], m)
    BY <2>1, <2>3, LookupReplaces
  <2>5. [m EXCEPT !["C"] = -1]["C"] # 0
    BY <1>2, <2>3 DEF Maps
  <2>6. look' = [look EXCEPT ![t].at = "pop"] /\ UNCHANGED <<ctx, own, transformers, regs>>
    BY <1>8 DEF LookSet
  <2> QED
    BY <1>7, <2>1, <2>2, <2>4, <2>5, <2>6
<1>9. CASE LookPop(t)
  <2> DEFINE m == dicts[look[t].dict]
  <2>1. look[t].at = "pop" /\ m["C"] # 0
    BY <1>9 DEF LookPop, AdaptIInv, LooksHold
  <2>2. dicts' = [dicts EXCEPT ![look[t].dict] = [m EXCEPT !["name"] = 0]]
    BY <1>9, <2>1 DEF LookPop
  <2>3. m \in Maps /\ m["name"] \in {-1, 0}
    BY <1>1, <2>1
  <2>4. [m EXCEPT !["name"] = 0] \in Maps /\ Replaces([m EXCEPT !["name"] = 0], m)
    BY <2>1, <2>3, LookupReplaces
  <2>5. look' = [look EXCEPT ![t].at = "done"] /\ UNCHANGED <<ctx, own, transformers, regs>>
    BY <1>9 DEF LookPop
  <2> QED
    BY <1>7, <2>1, <2>2, <2>4, <2>5
<1> QED
  BY <1>3, <1>4, <1>5, <1>6, <1>8, <1>9

\* A query is executed: the dumper is looked up at once, and the transformer, new or
\* not, knows the present loader
LEMMA ExecuteWithStep ==
    \A u \in Cursors, query \in 1 .. 2 : AdaptIInv /\ ExecuteWith(u, query) => AdaptIInv'
<1> SUFFICES ASSUME NEW u \in Cursors, NEW query \in 1 .. 2, AdaptIInv, ExecuteWith(u, query)
             PROVE  AdaptIInv'
  OBVIOUS
<1> DEFINE x == QueryTx(transformers[u], query)
           id == ctx[u]["dumpers"].dict
           y == IF x.dumper # 0 THEN x ELSE [x EXCEPT !.dumper = Found(dicts[id])]
           z == ReadLoaders(y, DictOf(u, "loaders"))
           oid == DictOf(u, "loaders")["oid"]
           m == IF x.dumper # 0 THEN dicts[id] ELSE Resolved(dicts[id])
<1>0. AdaptTypes /\ u \in Made /\ transformers \in [Cursors -> TransformerStates]
  BY DEF AdaptIInv, AdaptTypes, ExecuteWith
<1>1. {"dumpers", "loaders"} \subseteq Kinds2 /\ Keys2 = {"C", "name", "S", "oid"}
  BY DEF Kinds2, Keys2
<1>2. /\ id \in DOMAIN dicts /\ dicts[id] \in Maps /\ dicts[id]["name"] \in {-1, 0}
      /\ DictOf(u, "loaders") \in Maps /\ oid \in Int /\ Found(dicts[id]) \in Int
  <2>1. id \in DOMAIN dicts /\ dicts[id] \in Maps /\ DictOf(u, "loaders") \in Maps
    BY <1>0, <1>1, AdaptFields
  <2>2. dicts[id]["name"] \in {-1, 0}
    BY <2>1 DEF AdaptIInv, NamesKept
  <2>3. oid \in Int /\ Found(dicts[id]) \in Int
    BY <1>1, <2>1 DEF Maps, Found
  <2> QED
    BY <2>1, <2>2, <2>3
<1>3. transformers' = [transformers EXCEPT ![u] = z]
      /\ dicts' = [dicts EXCEPT ![id] = m]
  <2>1. transformers' = [transformers EXCEPT ![u] = z]
        /\ dicts' = IF x.dumper # 0 THEN dicts ELSE [dicts EXCEPT ![id] = Resolved(@)]
    BY DEF ExecuteWith
  <2>2. dicts = [dicts EXCEPT ![id] = dicts[id]]
    BY <1>0, <1>2 DEF AdaptTypes
  <2> HIDE DEF x, z, id
  <2> QED
    BY <2>1, <2>2
<1>4. m \in Maps /\ Replaces(m, dicts[id])
  <2>1. Replaces(dicts[id], dicts[id])
    BY <1>2 DEF Replaces
  <2>2. Resolved(dicts[id]) \in Maps /\ Replaces(Resolved(dicts[id]), dicts[id])
    BY <1>2, LookupReplaces
  <2> HIDE DEF x, id
  <2> QED
    BY <1>2, <2>1, <2>2
<1>5. /\ x \in TransformerStates /\ x.loader \in {0, oid} /\ x.rowLoader \in {0, oid}
  <2>1. transformers[u] \in TransformerStates /\ transformers[u].loader \in {0, oid}
        /\ transformers[u].rowLoader \in {0, oid}
    BY <1>0 DEF AdaptIInv, LoadersKept
  <2>2. /\ [NewTx EXCEPT !.query = query] \in TransformerStates
        /\ [NewTx EXCEPT !.query = query].loader = 0
        /\ [NewTx EXCEPT !.query = query].rowLoader = 0
    BY DEF NewTx, TransformerStates
  <2> HIDE DEF oid
  <2> QED
    BY <2>1, <2>2 DEF QueryTx
<1>6. y \in TransformerStates /\ y.loader \in {0, oid}
  <2> HIDE DEF x, id, oid
  <2> QED
    BY <1>2, <1>5 DEF TransformerStates
<1>7. z \in TransformerStates /\ z.loader \in {0, oid} /\ z.rowLoader \in {0, oid}
  <2> HIDE DEF y
  <2> QED
    BY <1>2, <1>6 DEF ReadLoaders, GetLoader, TransformerStates
<1> HIDE DEF z, y, x, m, id, oid
<1>8. /\ transformers' \in [Cursors -> TransformerStates] /\ transformers'[u] = z
      /\ \A v \in Cursors : v # u => transformers'[v] = transformers[v]
  BY <1>0, <1>3, <1>7
<1>9. UNCHANGED <<ctx, own, look, regs>>
  BY DEF ExecuteWith
<1>10. look' \in [Threads -> LookStates]
       /\ \A t \in Threads : look'[t].at # "none" => look'[t].dict \in DOMAIN dicts
  BY <1>0, <1>9 DEF AdaptTypes
<1>11. /\ AdaptTypes' /\ MapsOwned' /\ NamesKept' /\ MapsStand'
       /\ \A v \in Made : DictOf(v, "loaders")'["oid"] = DictOf(v, "loaders")["oid"]
       /\ \A j \in DOMAIN dicts :
             /\ dicts[j]["C"] \in {-1, 0} => dicts'[j]["C"] \in {-1, 0}
             /\ dicts[j]["C"] # 0 => dicts'[j]["C"] # 0
  BY <1>2, <1>3, <1>4, <1>8, <1>9, <1>10, MapReplaced
<1>12. LooksHold'
  <2>1. \A t \in Threads : look[t].at # "none" => look[t].dict \in DOMAIN dicts
    BY <1>0 DEF AdaptTypes
  <2> QED
    BY <1>9, <1>11, <2>1 DEF AdaptIInv, LooksHold
<1>13. LoadersKept'
  <2>1. Made' = Made
    BY <1>9 DEF Made
  <2>2. \A v \in Cursors : v \in Made => DictOf(v, "loaders")'["oid"] = DictOf(v, "loaders")["oid"]
    BY <1>11
  <2>3. transformers'[u].loader \in {0, DictOf(u, "loaders")'["oid"]}
        /\ transformers'[u].rowLoader \in {0, DictOf(u, "loaders")'["oid"]}
    BY <1>0, <1>7, <1>8, <1>11 DEF oid
  <2> SUFFICES ASSUME NEW v \in Cursors
               PROVE  IF v \in Made
                      THEN /\ transformers'[v].loader \in {0, DictOf(v, "loaders")'["oid"]}
                           /\ transformers'[v].rowLoader \in {0, DictOf(v, "loaders")'["oid"]}
                      ELSE transformers'[v] = NewTx
    BY <2>1 DEF LoadersKept
  <2>4. CASE v = u
    BY <1>0, <2>3, <2>4
  <2>5. CASE v # u
    BY <1>8, <2>2, <2>5 DEF AdaptIInv, LoadersKept
  <2> QED
    BY <2>4, <2>5
<1> QED
  BY <1>11, <1>12, <1>13 DEF AdaptIInv

-----------------------------------------------------------------------------
(* A context is made, or written *)

\* A key of a map is set: of this context, and of no other
LEMMA WriteDoes ==
    ASSUME AdaptTypes, MapsOwned, NEW c \in Made, NEW kind \in Kinds2, NEW key \in Keys2,
           NEW value \in Int, Write(c, kind, key, value)
    PROVE  /\ dicts' \in Seq(Maps) /\ DOMAIN dicts \subseteq DOMAIN dicts'
           /\ Made' = Made /\ ctx' \in [Made -> [Kinds2 -> Places]]
           /\ \A d \in Made, k \in Kinds2 : ctx'[d][k].dict \in DOMAIN dicts'
           /\ MapsOwned'
           /\ DictOf(c, kind)' = [DictOf(c, kind) EXCEPT ![key] = value]
           /\ \A d \in Made : d # c => DictOf(d, kind)' = DictOf(d, kind)
           /\ \A d \in Made, k \in Kinds2, x \in Keys2 :
                 x # key => DictOf(d, k)'[x] = DictOf(d, k)[x]
           /\ \A i \in DOMAIN dicts, x \in Keys2 : x # key => dicts'[i][x] = dicts[i][x]
           /\ \A i \in DOMAIN dicts', x \in Keys2 : x # key =>
                 \E j \in DOMAIN dicts : dicts'[i][x] = dicts[j][x]
<1>0. /\ dicts \in Seq(Maps) /\ Len(dicts) \in Nat /\ DOMAIN dicts = 1 .. Len(dicts)
      /\ ctx \in [Made -> [Kinds2 -> Places]]
      /\ \A d \in Made, k \in Kinds2 : ctx[d][k].dict \in DOMAIN dicts
                                       /\ DictOf(d, k) \in Maps
  BY AdaptFields DEF AdaptTypes
<1> DEFINE i0 == ctx[c][kind].dict
           m == [DictOf(c, kind) EXCEPT ![key] = value]
<1>1. /\ m \in Maps /\ m[key] = value
      /\ \A x \in Keys2 : x # key => m[x] = DictOf(c, kind)[x]
  BY <1>0 DEF Maps
<1>2. CASE ctx[c][kind].own
  <2>1. dicts' = [dicts EXCEPT ![i0] = m] /\ ctx' = ctx
    BY <1>2 DEF Write, DictOf
  <2>2. i0 \in DOMAIN dicts /\ DictOf(c, kind) = dicts[i0]
    BY <1>0 DEF DictOf
  <2> HIDE DEF m, i0
  <2>3. /\ dicts' \in Seq(Maps) /\ DOMAIN dicts' = DOMAIN dicts /\ dicts'[i0] = m
        /\ \A i \in DOMAIN dicts : i # i0 => dicts'[i] = dicts[i]
    BY <1>0, <1>1, <2>1, <2>2
  <2>4. Made' = Made /\ MapsOwned'
    BY <2>1 DEF Made, MapsOwned
  <2>5. DictOf(c, kind)' = m
    BY <2>1, <2>3 DEF DictOf, i0
  <2>6. ASSUME NEW d \in Made, d # c PROVE DictOf(d, kind)' = DictOf(d, kind)
    <3>1. ctx[d][kind].dict # i0
      BY <1>2, <2>6 DEF MapsOwned, i0
    <3> QED
      BY <1>0, <2>1, <2>3, <3>1 DEF DictOf
  <2>7. \A i \in DOMAIN dicts, x \in Keys2 : x # key => dicts'[i][x] = dicts[i][x]
    BY <1>1, <2>2, <2>3
  <2>8. \A d \in Made, k \in Kinds2, x \in Keys2 :
          x # key => DictOf(d, k)'[x] = DictOf(d, k)[x]
    BY <1>0, <2>1, <2>7 DEF DictOf
  <2>9. \A i \in DOMAIN dicts', x \in Keys2 : x # key =>
          \E j \in DOMAIN dicts : dicts'[i][x] = dicts[j][x]
    BY <2>3, <2>7
  <2>10. \A d \in Made, k \in Kinds2 : ctx'[d][k].dict \in DOMAIN dicts'
    BY <1>0, <2>1, <2>3
  <2> QED
    BY <1>0, <2>1, <2>3, <2>4, <2>5, <2>6, <2>7, <2>8, <2>9, <2>10 DEF m
<1>3. CASE ~ctx[c][kind].own
  <2> DEFINE new == [dict |-> Len(dicts) + 1, own |-> TRUE]
  <2>1. dicts' = Append(dicts, m) /\ ctx' = [ctx EXCEPT ![c][kind] = new]
    BY <1>3 DEF Write
  <2> HIDE DEF m
  <2>2. /\ dicts' \in Seq(Maps) /\ DOMAIN dicts' = 1 .. Len(dicts) + 1
        /\ dicts'[Len(dicts) + 1] = m
        /\ \A i \in DOMAIN dicts : dicts'[i] = dicts[i] /\ i \in DOMAIN dicts' /\ i # Len(dicts) + 1
    BY <1>0, <1>1, <2>1
  <2>3. new \in Places /\ new.own /\ new.dict = Len(dicts) + 1
    BY <1>0 DEF Places
  <2> HIDE DEF new
  <2>4. /\ ctx' \in [Made -> [Kinds2 -> Places]] /\ ctx'[c][kind] = new
        /\ \A d \in Made, k \in Kinds2 : d # c \/ k # kind => ctx'[d][k] = ctx[d][k]
    BY <1>0, <2>1, <2>3
  <2>5. Made' = Made
    BY <1>0, <2>4 DEF Made
  <2>6. MapsOwned'
    <3> SUFFICES ASSUME NEW d \in Made, NEW e \in Made, NEW k \in Kinds2,
                        ctx'[d][k].own, ctx'[d][k].dict = ctx'[e][k].dict
                 PROVE  d = e
      BY <2>5 DEF MapsOwned
    <3>1. CASE k = kind
      <4>1. ctx[d][k].dict \in DOMAIN dicts /\ ctx[e][k].dict \in DOMAIN dicts
        BY <1>0
      <4>2. ASSUME NEW f \in Made, f # c, NEW g \in Made, g = c
            PROVE  ctx'[f][k].dict # ctx'[g][k].dict
        <5>1. ctx'[f][k].dict \in DOMAIN dicts /\ ctx'[g][k].dict = Len(dicts) + 1
          BY <1>0, <2>3, <2>4, <3>1, <4>2
        <5> QED
          BY <2>2, <5>1
      <4>3. CASE d # c /\ e # c
        BY <2>4, <4>3 DEF MapsOwned
      <4> QED
        BY <4>2, <4>3
    <3>2. CASE k # kind
      BY <2>4, <3>2 DEF MapsOwned
    <3> QED
      BY <3>1, <3>2
  <2>7. DictOf(c, kind)' = m
    BY <2>2, <2>3, <2>4 DEF DictOf
  <2>8. \A d \in Made, k \in Kinds2 : d # c \/ k # kind => DictOf(d, k)' = DictOf(d, k)
    BY <1>0, <2>2, <2>4 DEF DictOf
  <2>9. \A d \in Made, k \in Kinds2, x \in Keys2 :
          x # key => DictOf(d, k)'[x] = DictOf(d, k)[x]
    BY <1>1, <2>7, <2>8
  <2>10. \A i \in DOMAIN dicts', x \in Keys2 : x # key =>
          \E j \in DOMAIN dicts : dicts'[i][x] = dicts[j][x]
    <3> SUFFICES ASSUME NEW i \in DOMAIN dicts', NEW x \in Keys2, x # key
                 PROVE  \E j \in DOMAIN dicts : dicts'[i][x] = dicts[j][x]
      OBVIOUS
    <3>1. CASE i = Len(dicts) + 1
      BY <1>0, <1>1, <2>2, <3>1 DEF DictOf
    <3>2. CASE i # Len(dicts) + 1
      <4>1. i \in DOMAIN dicts
        BY <1>0, <2>2, <3>2
      <4> QED
        BY <2>2, <4>1
    <3> QED
      BY <3>1, <3>2
  <2>11. \A d \in Made, k \in Kinds2 : ctx'[d][k].dict \in DOMAIN dicts'
    <3>1. Len(dicts) + 1 \in DOMAIN dicts'
      BY <1>0, <2>2
    <3>2. ASSUME NEW d \in Made, NEW k \in Kinds2 PROVE ctx'[d][k].dict \in DOMAIN dicts'
      <4>1. CASE d = c /\ k = kind
        BY <2>3, <2>4, <3>1, <4>1
      <4>2. CASE d # c \/ k # kind
        <5>1. ctx'[d][k] = ctx[d][k]
          BY <2>4, <4>2
        <5> QED
          BY <1>0, <2>2, <5>1
      <4> QED
        BY <4>1, <4>2
    <3> QED
      BY <3>2
  <2> QED
    BY <2>2, <2>4, <2>5, <2>6, <2>7, <2>8, <2>9, <2>10, <2>11 DEF m
<1> QED
  BY <1>2, <1>3

\* What a registration does to the maps that each context thinks it has
Registered(c, kind, key, n) ==
    /\ own' = [own EXCEPT ![c][kind][key] = n]
    /\ n = regs + 1 /\ regs' = n /\ look' = look
    /\ transformers' \in [Cursors -> TransformerStates]

\* The dictionaries and the places that refer to them are well formed after a write
WellWritten ==
    /\ dicts' \in Seq(Maps) /\ DOMAIN dicts \subseteq DOMAIN dicts'
    /\ Made' = Made /\ ctx' \in [Made -> [Kinds2 -> Places]]
    /\ \A d \in Made, k \in Kinds2 : ctx'[d][k].dict \in DOMAIN dicts'

\* The types after a registration
LEMMA RegisterTypes ==
    ASSUME AdaptTypes, NEW c \in Made, NEW kind \in Kinds2, NEW key \in Keys2, NEW n,
           Registered(c, kind, key, n), WellWritten
    PROVE  /\ AdaptTypes' /\ n \in Nat \ {0}
           /\ own'[c][kind] = [own[c][kind] EXCEPT ![key] = n]
           /\ own[c][kind] \in Maps
           /\ \A d \in Made, k \in Kinds2 : d # c \/ k # kind => own'[d][k] = own[d][k]
<1>1. own \in [Made -> [Kinds2 -> Maps]] /\ n \in Nat \ {0} /\ own[c] \in [Kinds2 -> Maps]
  BY DEF AdaptTypes, Registered
<1>2. own[c][kind] \in Maps /\ [own[c][kind] EXCEPT ![key] = n] \in Maps
  BY <1>1 DEF Maps
<1>3. PICK m \in Maps : m = [own[c][kind] EXCEPT ![key] = n]
  BY <1>2
<1>4. own' = [own EXCEPT ![c][kind] = m]
  BY <1>3 DEF Registered
<1>5. /\ own' \in [Made -> [Kinds2 -> Maps]] /\ own'[c][kind] = m
      /\ \A d \in Made, k \in Kinds2 : d # c \/ k # kind => own'[d][k] = own[d][k]
  <2> DEFINE row == [own[c] EXCEPT ![kind] = m]
  <2>1. /\ row \in [Kinds2 -> Maps] /\ row[kind] = m
        /\ \A k \in Kinds2 : k # kind => row[k] = own[c][k]
    BY <1>1
  <2>2. own' = [own EXCEPT ![c] = row]
    BY <1>4
  <2> HIDE DEF row
  <2>3. /\ own' \in [Made -> [Kinds2 -> Maps]] /\ own'[c] = row
        /\ \A d \in Made : d # c => own'[d] = own[d]
    BY <1>1, <2>1, <2>2
  <2> QED
    BY <2>1, <2>3
<1>6. AdaptTypes'
  BY <1>1, <1>5 DEF AdaptTypes, Registered, WellWritten
<1> QED
  BY <1>1, <1>2, <1>3, <1>5, <1>6

\* A dumper is registered on a class, when nobody is looking
LEMMA RegisterDumperStep ==
    ASSUME AdaptIInv, ~ByName, ~Racing, NEW c \in Contexts, NEW key \in {"C", "name", "S"},
           RegisterDumper(c, key)
    PROVE  AdaptIInv'
<1>0. AdaptTypes /\ MapsOwned /\ c \in Made /\ key \in {"C", "S"} /\ regs \in Nat
  BY DEF RegisterDumper, AdaptIInv, AdaptTypes
<1>1. /\ {"dumpers", "loaders"} \subseteq Kinds2 /\ "dumpers" # "loaders"
      /\ {"C", "S", "name", "oid"} \subseteq Keys2 /\ key \in Keys2 /\ regs + 1 \in Int
      /\ key # "name" /\ key # "oid"
  BY <1>0 DEF Kinds2, Keys2
<1>2. /\ Write(c, "dumpers", key, regs + 1) /\ regs' = regs + 1
      /\ own' = [own EXCEPT ![c]["dumpers"][key] = regs + 1]
      /\ UNCHANGED <<transformers, look>>
      /\ \A t \in Threads : look[t].at \in {"none", "done"}
  BY DEF RegisterDumper
<1>3. PICK kind \in Kinds2, n \in Int : kind = "dumpers" /\ n = regs + 1
  BY <1>1
<1>4. /\ dicts' \in Seq(Maps) /\ DOMAIN dicts \subseteq DOMAIN dicts'
      /\ Made' = Made /\ ctx' \in [Made -> [Kinds2 -> Places]]
      /\ \A d \in Made, k \in Kinds2 : ctx'[d][k].dict \in DOMAIN dicts'
      /\ MapsOwned'
      /\ DictOf(c, kind)' = [DictOf(c, kind) EXCEPT ![key] = n]
      /\ \A d \in Made : d # c => DictOf(d, kind)' = DictOf(d, kind)
      /\ \A d \in Made, k \in Kinds2, x \in Keys2 :
            x # key => DictOf(d, k)'[x] = DictOf(d, k)[x]
      /\ \A i \in DOMAIN dicts', x \in Keys2 : x # key =>
            \E j \in DOMAIN dicts : dicts'[i][x] = dicts[j][x]
  <2>1. Write(c, kind, key, n)
    BY <1>2, <1>3
  <2>2. AdaptTypes /\ MapsOwned /\ c \in Made /\ key \in Keys2
    BY <1>0, <1>1
  <2> QED
    BY <2>1, <2>2, WriteDoes
<1>5. /\ AdaptTypes' /\ n \in Nat \ {0}
      /\ own'[c][kind] = [own[c][kind] EXCEPT ![key] = n] /\ own[c][kind] \in Maps
      /\ \A d \in Made, k \in Kinds2 : d # c \/ k # kind => own'[d][k] = own[d][k]
  <2>1. own' = [own EXCEPT ![c][kind][key] = n]
    BY <1>2, <1>3
  <2>2. transformers' \in [Cursors -> TransformerStates]
    BY <1>0, <1>2 DEF AdaptTypes
  <2>3. Registered(c, kind, key, n)
    BY <1>2, <1>3, <2>1, <2>2 DEF Registered
  <2>4. WellWritten
    BY <1>4 DEF WellWritten
  <2> QED
    BY <1>0, <1>1, <2>3, <2>4, RegisterTypes
<1>6. NamesKept'
  BY <1>1, <1>4 DEF AdaptIInv, NamesKept
<1>7. DictOf(c, kind) \in Maps
  BY <1>0, AdaptFields
<1>8. MapsStand'
  <2> SUFFICES ASSUME NEW d \in Made
               PROVE  /\ Stands(DictOf(d, "dumpers")', own'[d]["dumpers"])
                      /\ DictOf(d, "loaders")'["oid"] = own'[d]["loaders"]["oid"]
    BY <1>4 DEF MapsStand
  <2>1. Stands(DictOf(d, "dumpers"), own[d]["dumpers"])
        /\ DictOf(d, "loaders")["oid"] = own[d]["loaders"]["oid"]
    BY DEF AdaptIInv, MapsStand
  <2>2. DictOf(d, "loaders")'["oid"] = own'[d]["loaders"]["oid"]
    <3>1. DictOf(d, "loaders")'["oid"] = DictOf(d, "loaders")["oid"]
      BY <1>1, <1>4
    <3>2. own'[d]["loaders"] = own[d]["loaders"]
      BY <1>1, <1>3, <1>5
    <3> QED
      BY <2>1, <3>1, <3>2
  <2>3. CASE d # c
    BY <1>3, <1>4, <1>5, <2>1, <2>2, <2>3
  <2>4. CASE d = c
    <3>1. Stands(DictOf(c, kind), own[c][kind])
      BY <1>3, <2>1, <2>4
    <3>2. CASE key = "C"
      <4>1. /\ DictOf(c, kind)'["C"] = n /\ own'[c][kind]["C"] = n
            /\ own'[c][kind]["name"] = own[c][kind]["name"]
        BY <1>1, <1>4, <1>5, <1>7, <3>2 DEF Maps
      <4>2. n \in Nat /\ n # 0
        BY <1>5
      <4>3. own'[c][kind]["name"] = -1
        BY <3>1, <4>1 DEF Stands
      <4> QED
        BY <1>3, <2>2, <2>4, <4>1, <4>2, <4>3 DEF Stands
    <3>3. CASE key = "S"
      <4>1. /\ DictOf(c, kind)'["C"] = DictOf(c, kind)["C"]
            /\ DictOf(c, kind)'["name"] = DictOf(c, kind)["name"]
            /\ own'[c][kind]["C"] = own[c][kind]["C"]
            /\ own'[c][kind]["name"] = own[c][kind]["name"]
        BY <1>1, <1>4, <1>5, <1>7, <3>3 DEF Maps
      <4>2. Stands(DictOf(c, kind)', own'[c][kind])
        BY <3>1, <4>1 DEF Stands
      <4> QED
        BY <1>3, <2>2, <2>4, <4>2
    <3> QED
      BY <1>0, <3>2, <3>3
  <2> QED
    BY <2>3, <2>4
<1>9. LooksHold'
  BY <1>2 DEF LooksHold
<1>10. LoadersKept'
  BY <1>1, <1>2, <1>4, LoadersStay DEF AdaptIInv
<1> QED
  BY <1>4, <1>5, <1>6, <1>8, <1>9, <1>10 DEF AdaptIInv

\* A loader is registered: a cursor's result is loaded with it from now on
LEMMA RegisterLoaderStep ==
    ASSUME AdaptIInv, NEW c \in Contexts, RegisterLoader(c)
    PROVE  AdaptIInv'
<1>0. AdaptTypes /\ MapsOwned /\ c \in Made /\ regs \in Nat
      /\ transformers \in [Cursors -> TransformerStates]
  BY DEF RegisterLoader, AdaptIInv, AdaptTypes
<1>1. /\ {"dumpers", "loaders"} \subseteq Kinds2 /\ "dumpers" # "loaders"
      /\ {"C", "S", "name", "oid"} \subseteq Keys2 /\ regs + 1 \in Int
  BY <1>0 DEF Kinds2, Keys2
<1>2. /\ Write(c, "loaders", "oid", regs + 1) /\ regs' = regs + 1
      /\ own' = [own EXCEPT ![c]["loaders"]["oid"] = regs + 1]
      /\ transformers' = IF c \in Cursors
             THEN [transformers EXCEPT ![c] = CacheReset(@, dicts'[ctx'[c]["loaders"].dict])]
             ELSE transformers
      /\ look' = look
  BY DEF RegisterLoader
<1>3. PICK kind \in Kinds2, key \in Keys2, n \in Int :
        kind = "loaders" /\ key = "oid" /\ n = regs + 1
  BY <1>1
<1>4. /\ dicts' \in Seq(Maps) /\ DOMAIN dicts \subseteq DOMAIN dicts'
      /\ Made' = Made /\ ctx' \in [Made -> [Kinds2 -> Places]]
      /\ \A d \in Made, k \in Kinds2 : ctx'[d][k].dict \in DOMAIN dicts'
      /\ MapsOwned'
      /\ DictOf(c, kind)' = [DictOf(c, kind) EXCEPT ![key] = n]
      /\ \A d \in Made : d # c => DictOf(d, kind)' = DictOf(d, kind)
      /\ \A d \in Made, k \in Kinds2, x \in Keys2 :
            x # key => DictOf(d, k)'[x] = DictOf(d, k)[x]
      /\ \A i \in DOMAIN dicts, x \in Keys2 : x # key => dicts'[i][x] = dicts[i][x]
      /\ \A i \in DOMAIN dicts', x \in Keys2 : x # key =>
            \E j \in DOMAIN dicts : dicts'[i][x] = dicts[j][x]
  <2>1. Write(c, kind, key, n)
    BY <1>2, <1>3
  <2> QED
    BY <1>0, <2>1, WriteDoes
<1>5. DictOf(c, kind) \in Maps /\ DictOf(c, kind)'["oid"] = n
  <2>1. DictOf(c, kind) \in Maps
    BY <1>0, AdaptFields
  <2> QED
    BY <1>3, <1>4, <2>1 DEF Maps
\* The transformers
<1>6. /\ transformers' \in [Cursors -> TransformerStates]
      /\ \A u \in Cursors : u # c => transformers'[u] = transformers[u]
      /\ c \in Cursors => /\ transformers'[c].loader \in {0, n}
                          /\ transformers'[c].rowLoader \in {0, n}
  <2>1. CASE c \notin Cursors
    BY <1>0, <1>2, <2>1
  <2>2. CASE c \in Cursors
    <3> DEFINE map == dicts'[ctx'[c]["loaders"].dict]
               x == transformers[c]
               new == [NewTx EXCEPT !.query = x.query]
               y == CacheReset(x, map)
    <3>1. map["oid"] = n
      BY <1>3, <1>5 DEF DictOf
    <3>2. transformers' = [transformers EXCEPT ![c] = y]
      BY <1>2, <2>2
    <3>3. x \in TransformerStates
      BY <1>0, <2>2
    <3> HIDE DEF x, map
    <3>4. new \in TransformerStates /\ new.loader = 0 /\ new.rowLoader = 0
      BY <3>3 DEF NewTx, TransformerStates
    <3> HIDE DEF new
    <3>5. /\ ReadLoaders(new, map) \in TransformerStates
          /\ ReadLoaders(new, map).loader = n /\ ReadLoaders(new, map).rowLoader = n
      BY <3>1, <3>4 DEF ReadLoaders, GetLoader, TransformerStates
    <3>6. y \in TransformerStates /\ y.loader \in {0, n} /\ y.rowLoader \in {0, n}
      <4>1. y = IF x.rowLoader = 0 THEN new ELSE ReadLoaders(new, map)
        BY DEF CacheReset, new
      <4> HIDE DEF y
      <4> QED
        BY <3>4, <3>5, <4>1
    <3> HIDE DEF y
    <3> QED
      BY <1>0, <2>2, <3>2, <3>6
  <2> QED
    BY <2>1, <2>2
<1>7. /\ AdaptTypes' /\ n \in Nat \ {0}
      /\ own'[c][kind] = [own[c][kind] EXCEPT ![key] = n] /\ own[c][kind] \in Maps
      /\ \A d \in Made, k \in Kinds2 : d # c \/ k # kind => own'[d][k] = own[d][k]
  <2>1. own' = [own EXCEPT ![c][kind][key] = n]
    BY <1>2, <1>3
  <2>2. Registered(c, kind, key, n)
    BY <1>2, <1>3, <1>6, <2>1 DEF Registered
  <2>3. WellWritten
    BY <1>4 DEF WellWritten
  <2> QED
    BY <1>0, <2>2, <2>3, RegisterTypes
<1>8. NamesKept'
  BY <1>1, <1>3, <1>4, SMTT(40) DEF AdaptIInv, NamesKept
<1>9. MapsStand'
  <2> SUFFICES ASSUME NEW d \in Made
               PROVE  /\ Stands(DictOf(d, "dumpers")', own'[d]["dumpers"])
                      /\ DictOf(d, "loaders")'["oid"] = own'[d]["loaders"]["oid"]
    BY <1>4 DEF MapsStand
  <2>1. Stands(DictOf(d, "dumpers"), own[d]["dumpers"])
        /\ DictOf(d, "loaders")["oid"] = own[d]["loaders"]["oid"]
    BY DEF AdaptIInv, MapsStand
  <2>2. own'[d]["dumpers"] = own[d]["dumpers"]
    BY <1>1, <1>3, <1>7
  <2>3. DictOf(d, "dumpers")'["C"] = DictOf(d, "dumpers")["C"]
        /\ DictOf(d, "dumpers")'["name"] = DictOf(d, "dumpers")["name"]
    BY <1>1, <1>3, <1>4
  <2>4. Stands(DictOf(d, "dumpers")', own'[d]["dumpers"])
    BY <2>1, <2>2, <2>3 DEF Stands
  <2>5. CASE d # c
    BY <1>3, <1>4, <1>7, <2>1, <2>4, <2>5
  <2>6. CASE d = c
    BY <1>3, <1>5, <1>7, <2>4, <2>6 DEF Maps
  <2> QED
    BY <2>5, <2>6
<1>10. LooksHold'
  <2>1. \A t \in Threads : look[t].at # "none" => look[t].dict \in DOMAIN dicts
    BY <1>0 DEF AdaptTypes
  <2>2. \A i \in DOMAIN dicts : dicts'[i]["C"] = dicts[i]["C"]
    BY <1>1, <1>3, <1>4
  <2> QED
    BY <1>2, <2>1, <2>2 DEF AdaptIInv, LooksHold
<1>11. LoadersKept'
  <2> SUFFICES ASSUME NEW u \in Cursors
               PROVE  IF u \in Made
                      THEN /\ transformers'[u].loader \in {0, DictOf(u, "loaders")'["oid"]}
                           /\ transformers'[u].rowLoader \in {0, DictOf(u, "loaders")'["oid"]}
                      ELSE transformers'[u] = NewTx
    BY <1>4 DEF LoadersKept
  <2>1. CASE u = c
    BY <1>0, <1>3, <1>5, <1>6, <2>1
  <2>2. CASE u # c
    <3>1. transformers'[u] = transformers[u]
          /\ (u \in Made => DictOf(u, "loaders")' = DictOf(u, "loaders"))
      BY <1>3, <1>4, <1>6, <2>2
    <3> QED
      BY <3>1 DEF AdaptIInv, LoadersKept
  <2> QED
    BY <2>1, <2>2
<1> QED
  BY <1>4, <1>7, <1>8, <1>9, <1>10, <1>11 DEF AdaptIInv

\* A context is made: it shares the maps of its template, that owns them no more
LEMMA NewContextStep ==
    ASSUME AdaptIInv, NEW c \in Connections \cup Cursors, NewContext(c)
    PROVE  AdaptIInv'
<1>0. /\ AdaptTypes /\ c \notin Made /\ c \in Contexts
      /\ ctx' = Shared(c) /\ UNCHANGED <<dicts, transformers, look, regs>>
      /\ own' = [d \in Made \cup {c} |-> IF d = c THEN own[Template(c)] ELSE own[d]]
  BY DEF NewContext, AdaptIInv, Contexts
<1>1. PICK t \in Made : t = Template(c)
  BY DEF NewContext
<1>2. /\ c # t
      /\ ctx' = [d \in Made \cup {c} |->
                    IF d \in {c, t} THEN [k \in Kinds2 |-> [dict |-> ctx[t][k].dict, own |-> FALSE]]
                    ELSE ctx[d]]
      /\ own' = [d \in Made \cup {c} |-> IF d = c THEN own[t] ELSE own[d]]
  BY <1>0, <1>1 DEF Shared
<1>3. Made' = Made \cup {c}
  BY <1>2 DEF Made
<1>4. /\ \A d \in Made, k \in Kinds2 :
            /\ ctx[d][k] \in Places /\ ctx[d][k].dict \in DOMAIN dicts
            /\ DictOf(d, k) = dicts[ctx[d][k].dict] /\ own[d][k] \in Maps
      /\ ctx \in [Made -> [Kinds2 -> Places]] /\ own \in [Made -> [Kinds2 -> Maps]]
  BY <1>0, AdaptFields DEF AdaptTypes, DictOf
<1>5. \A d \in Made, k \in Kinds2 :
        /\ ctx'[d][k].dict = ctx[d][k].dict /\ ctx'[d][k].dict \in DOMAIN dicts
        /\ ctx'[d][k].own => ctx[d][k].own /\ d # t
  <2> SUFFICES ASSUME NEW d \in Made, NEW k \in Kinds2
               PROVE  /\ ctx'[d][k].dict = ctx[d][k].dict /\ ctx'[d][k].dict \in DOMAIN dicts
                      /\ ctx'[d][k].own => ctx[d][k].own /\ d # t
    OBVIOUS
  <2>1. CASE d = t
    BY <1>2, <1>4, <2>1
  <2>2. CASE d # t
    BY <1>0, <1>2, <1>4, <2>2
  <2> QED
    BY <2>1, <2>2
<1>6. \A k \in Kinds2 : ctx'[c][k].dict = ctx[t][k].dict /\ ~ctx'[c][k].own
  BY <1>2
<1>7. /\ \A d \in Made, k \in Kinds2 : DictOf(d, k)' = DictOf(d, k) /\ own'[d][k] = own[d][k]
      /\ \A k \in Kinds2 : DictOf(c, k)' = DictOf(t, k) /\ own'[c][k] = own[t][k]
  BY <1>0, <1>2, <1>5, <1>6 DEF DictOf
<1>8. AdaptTypes'
  <2>1. ctx' \in [Made' -> [Kinds2 -> Places]]
    <3>1. [k \in Kinds2 |-> [dict |-> ctx[t][k].dict, own |-> FALSE]] \in [Kinds2 -> Places]
      BY <1>4 DEF Places
    <3> QED
      BY <1>2, <1>3, <1>4, <3>1
  <2>2. own' \in [Made' -> [Kinds2 -> Maps]]
    BY <1>2, <1>3, <1>4
  <2>3. \A d \in Made', k \in Kinds2 : ctx'[d][k].dict \in DOMAIN dicts
    BY <1>3, <1>4, <1>5, <1>6
  <2>4. Made' \subseteq Contexts
    BY <1>0, <1>3 DEF AdaptTypes
  <2> QED
    BY <1>0, <2>1, <2>2, <2>3, <2>4 DEF AdaptTypes
<1>9. MapsOwned'
  <2> SUFFICES ASSUME NEW d \in Made', NEW e \in Made', NEW k \in Kinds2,
                      ctx'[d][k].own, ctx'[d][k].dict = ctx'[e][k].dict
               PROVE  d = e
    BY DEF MapsOwned
  <2>1. d \in Made /\ d # t /\ ctx[d][k].own /\ ctx'[d][k].dict = ctx[d][k].dict
    BY <1>3, <1>5, <1>6
  <2>2. \A a \in Made, b \in Made :
          ctx[a][k].own /\ ctx[a][k].dict = ctx[b][k].dict => a = b
    BY DEF AdaptIInv, MapsOwned
  <2>3. CASE e = c
    <3>1. ctx[d][k].dict = ctx[t][k].dict
      BY <1>6, <2>1, <2>3
    <3> QED
      BY <1>1, <2>1, <2>2, <3>1
  <2>4. CASE e # c
    <3>1. e \in Made
      BY <1>3, <2>4
    <3>2. ctx[d][k].dict = ctx[e][k].dict
      BY <1>5, <2>1, <3>1
    <3> QED
      BY <2>1, <2>2, <3>1, <3>2
  <2> QED
    BY <2>3, <2>4
<1>10. NamesKept' /\ LooksHold'
  BY <1>0 DEF AdaptIInv, NamesKept, LooksHold
<1>11. MapsStand'
  <2>1. {"dumpers", "loaders"} \subseteq Kinds2
    BY DEF Kinds2
  <2>2. \A d \in Made : /\ Stands(DictOf(d, "dumpers")', own'[d]["dumpers"])
                       /\ DictOf(d, "loaders")'["oid"] = own'[d]["loaders"]["oid"]
    BY <1>7, <2>1 DEF AdaptIInv, MapsStand
  <2>3. /\ Stands(DictOf(c, "dumpers")', own'[c]["dumpers"])
        /\ DictOf(c, "loaders")'["oid"] = own'[c]["loaders"]["oid"]
    BY <1>7, <2>1 DEF AdaptIInv, MapsStand
  <2> QED
    BY <1>3, <2>2, <2>3 DEF MapsStand
<1>12. LoadersKept'
  <2> SUFFICES ASSUME NEW u \in Cursors
               PROVE  IF u \in Made'
                      THEN /\ transformers[u].loader \in {0, DictOf(u, "loaders")'["oid"]}
                           /\ transformers[u].rowLoader \in {0, DictOf(u, "loaders")'["oid"]}
                      ELSE transformers[u] = NewTx
    BY <1>0 DEF LoadersKept
  <2>1. CASE u \in Made
    BY <1>3, <1>7, <2>1 DEF AdaptIInv, LoadersKept, Kinds2
  <2>2. CASE u \notin Made
    BY <1>3, <2>2 DEF AdaptIInv, LoadersKept, NewTx
  <2> QED
    BY <2>1, <2>2
<1> QED
  BY <1>8, <1>9, <1>10, <1>11, <1>12 DEF AdaptIInv

\* No step of the specification breaks the invariant
LEMMA AdaptStep ==
    ASSUME ~ByName, ~Racing, AdaptIInv, [AdaptNext]_adaptVars
    PROVE  AdaptIInv'
<1>1. CASE AdaptNext
  <2>1. ASSUME NEW c \in Connections \cup Cursors, NewContext(c) PROVE AdaptIInv'
    BY <2>1, NewContextStep
  <2>2. ASSUME NEW c \in Contexts, NEW key \in {"C", "name", "S"}, RegisterDumper(c, key)
        PROVE  AdaptIInv'
    BY <2>2, RegisterDumperStep
  <2>3. ASSUME NEW c \in Contexts, RegisterLoader(c) PROVE AdaptIInv'
    BY <2>3, RegisterLoaderStep
  <2>4. ASSUME NEW u \in Cursors, NEW query \in 1 .. 2, ExecuteWith(u, query)
        PROVE  AdaptIInv'
    BY <2>4, ExecuteWithStep
  <2>5. ASSUME NEW t \in Threads,
               \/ \E c \in Contexts : LookStart(t, c)
               \/ LookClass(t) \/ LookName(t) \/ LookSet(t) \/ LookPop(t) \/ LookSuper(t)
        PROVE  AdaptIInv'
    BY <2>5, LookStep
  <2> QED
    BY <1>1, <2>1, <2>2, <2>3, <2>4, <2>5 DEF AdaptNext
<1>2. CASE UNCHANGED adaptVars
  BY <1>2 DEF adaptVars, AdaptIInv, AdaptTypes, MapsOwned, NamesKept, MapsStand, LooksHold,
              LoadersKept, Made, DictOf
<1> QED
  BY <1>1, <1>2

(***************************************************************************)
(* Of a program that registers nothing by name, and no dumper while        *)
(* another thread looks for one: every context dumps and loads as if it    *)
(* had maps of its own, and a result is loaded with the loader the cursor  *)
(* has now (_adapters_map.py, _cursor_base.py).                            *)
(***************************************************************************)
THEOREM AdaptersStayCurrent ==
    ASSUME ~ByName, ~Racing
    PROVE  AdaptSpec => []AdaptersCurrent
<1>1. AdaptInit => AdaptIInv
  BY AdaptInitIInv
<1>2. AdaptIInv /\ [AdaptNext]_adaptVars => AdaptIInv'
  BY AdaptStep
<1>3. AdaptIInv => AdaptersCurrent
  BY AdaptImplied
<1> QED
  BY <1>1, <1>2, <1>3, PTL DEF AdaptSpec

\* Each cursor has one transformer
LEMMA TransformerOfCursors ==
    DOMAIN transformers = Cursors /\ [AdaptNext]_adaptVars => (DOMAIN transformers = Cursors)'
  BY DEF AdaptNext, NewContext, RegisterDumper, RegisterLoader, ExecuteWith, LookStart, LookClass,
         LookName, LookSet, LookPop, LookSuper, adaptVars

\* The dumper of a query that the transformer has not seen
LEMMA NewQueryDumper ==
    ASSUME DOMAIN transformers = Cursors, NEW u \in Cursors, NEW query \in 1 .. 2,
           ExecuteWith(u, query), transformers[u].query # query
    PROVE  transformers'[u].dumper = Found(DictOf(u, "dumpers"))
<1> DEFINE f == Found(DictOf(u, "dumpers"))
           map == DictOf(u, "loaders")
           x == [dumper |-> 0, loader |-> 0, rowLoader |-> 0, query |-> query]
           y == [dumper |-> f, loader |-> 0, rowLoader |-> 0, query |-> query]
<1>1. QueryTx(transformers[u], query) = x
  BY DEF QueryTx, NewTx
<1>2. x.dumper = 0 /\ [x EXCEPT !.dumper = f] = y
  OBVIOUS
<1> HIDE DEF x, f
<1>3. transformers' = [transformers EXCEPT ![u] = ReadLoaders(y, map)]
  BY <1>1, <1>2 DEF ExecuteWith, f, DictOf
<1>4. ReadLoaders(y, map).dumper = f
  BY DEF ReadLoaders, GetLoader
<1> QED
  BY <1>3, <1>4 DEF f

(***************************************************************************)
(* Of every program, those that register by name and while other threads   *)
(* look included: a query not executed before by the cursor is dumped with *)
(* the dumper the cursor has now (BaseCursor._start_query()).              *)
(***************************************************************************)
THEOREM NewQueriesCurrent == AdaptSpec => NewQueryCurrent
<1>1. AdaptInit => DOMAIN transformers = Cursors
  BY DEF AdaptInit
<1>2. DOMAIN transformers = Cursors /\ [AdaptNext]_adaptVars => (DOMAIN transformers = Cursors)'
  BY TransformerOfCursors
<1>3. DOMAIN transformers = Cursors /\ [AdaptNext]_adaptVars =>
        [\A u \in Cursors, query \in 1 .. 2 :
           ExecuteWith(u, query) /\ transformers[u].query # query =>
               transformers'[u].dumper = Found(DictOf(u, "dumpers"))]_adaptVars
  BY NewQueryDumper
<1> QED
  BY <1>1, <1>2, <1>3, PTL DEF AdaptSpec, NewQueryCurrent

-----------------------------------------------------------------------------
(* Sequences of numbers *)

\* The elements of a concatenation
LEMMA CatElements ==
    \A a, b \in Seq(Nat) :
        /\ a \o b \in Seq(Nat) /\ Len(a \o b) = Len(a) + Len(b)
        /\ \A i \in 1 .. Len(a) : (a \o b)[i] = a[i]
        /\ \A i \in 1 .. Len(b) : (a \o b)[Len(a) + i] = b[i]
  OBVIOUS

\* Concatenation, of sequences of numbers, is associative
LEMMA CatAssociative == \A s, t, u \in Seq(Nat) : (s \o t) \o u = s \o (t \o u)
<1> SUFFICES ASSUME NEW s \in Seq(Nat), NEW t \in Seq(Nat), NEW u \in Seq(Nat)
             PROVE  (s \o t) \o u = s \o (t \o u)
  OBVIOUS
<1>2. PICK l, m, n \in Nat : l = Len(s) /\ m = Len(t) /\ n = Len(u)
  OBVIOUS
<1>3. PICK st : st = s \o t
  OBVIOUS
<1>4. PICK tu : tu = t \o u
  OBVIOUS
<1>5. PICK x : x = st \o u
  OBVIOUS
<1>6. PICK y : y = s \o tu
  OBVIOUS
<1>7. /\ st \in Seq(Nat) /\ Len(st) = l + m
      /\ \A i \in 1 .. l : st[i] = s[i]
      /\ \A i \in 1 .. m : st[l + i] = t[i]
  BY <1>2, <1>3, CatElements
<1>8. /\ tu \in Seq(Nat) /\ Len(tu) = m + n
      /\ \A i \in 1 .. m : tu[i] = t[i]
      /\ \A i \in 1 .. n : tu[m + i] = u[i]
  BY <1>2, <1>4, CatElements
<1>9. /\ x \in Seq(Nat) /\ Len(x) = (l + m) + n
      /\ \A i \in 1 .. l + m : x[i] = st[i]
      /\ \A i \in 1 .. n : x[(l + m) + i] = u[i]
  <2>1. /\ x \in Seq(Nat) /\ Len(x) = Len(st) + Len(u)
        /\ \A i \in 1 .. Len(st) : x[i] = st[i]
        /\ \A i \in 1 .. Len(u) : x[Len(st) + i] = u[i]
    BY <1>5, <1>7, CatElements, Zenon, Zenon
  <2>2. Len(st) = l + m /\ Len(u) = n
    BY <1>2, <1>7
  <2> QED
    BY <2>1, <2>2
<1>10. /\ y \in Seq(Nat) /\ Len(y) = l + (m + n)
       /\ \A i \in 1 .. l : y[i] = s[i]
       /\ \A i \in 1 .. m + n : y[l + i] = tu[i]
  <2>1. /\ y \in Seq(Nat) /\ Len(y) = Len(s) + Len(tu)
        /\ \A i \in 1 .. Len(s) : y[i] = s[i]
        /\ \A i \in 1 .. Len(tu) : y[Len(s) + i] = tu[i]
    BY <1>6, <1>8, CatElements
  <2>2. Len(tu) = m + n /\ Len(s) = l
    BY <1>2, <1>8
  <2> QED
    BY <2>1, <2>2
<1>11. ASSUME NEW i \in 1 .. l + m + n PROVE x[i] = y[i]
  <2>1. CASE i <= l
    BY <1>7, <1>9, <1>10, <2>1
  <2>2. CASE l < i /\ i <= l + m
    <3>1. PICK j \in 1 .. m : i = l + j
      <4>1. i - l \in 1 .. m /\ i = l + (i - l)
        BY <2>2
      <4> QED
        BY <4>1
    <3>2. l + j \in 1 .. l + m /\ j \in 1 .. m + n
      OBVIOUS
    <3> QED
      BY <1>7, <1>8, <1>9, <1>10, <3>1, <3>2, Zenon
  <2>3. CASE l + m < i
    <3>1. PICK j \in 1 .. n : i = (l + m) + j
      <4>1. i - (l + m) \in 1 .. n /\ i = (l + m) + (i - (l + m))
        BY <2>3
      <4> QED
        BY <4>1
    <3>2. m + j \in 1 .. m + n /\ (l + m) + j = l + (m + j)
      OBVIOUS
    <3>3. x[i] = u[j]
      BY <1>9, <3>1
    <3>4. y[i] = tu[m + j]
      BY <1>10, <3>1, <3>2
    <3> QED
      BY <1>8, <3>3, <3>4
  <2> QED
    BY <2>1, <2>2, <2>3
<1>12. Len(x) = l + m + n /\ Len(y) = l + m + n
  BY <1>9, <1>10
<1>13. x = y
  BY <1>9, <1>10, <1>11, <1>12, SeqEqual
<1> QED
  BY <1>3, <1>4, <1>5, <1>6, <1>13

\* So are four of them
FourParts(a, b, c, d) == (a \o (b \o c)) \o d = a \o (b \o (c \o d))

\* Four sequences, one after the other
LEMMA CatFour == \A a, b, c, d \in Seq(Nat) : FourParts(a, b, c, d)
<1> SUFFICES ASSUME NEW a \in Seq(Nat), NEW b \in Seq(Nat), NEW c \in Seq(Nat), NEW d \in Seq(Nat)
             PROVE  (a \o (b \o c)) \o d = a \o (b \o (c \o d))
  BY DEF FourParts
<1>1. PICK x \in Seq(Nat) : x = b \o c
  BY CatElements
<1>2. (a \o x) \o d = a \o (x \o d)
  BY CatAssociative, Zenon, Zenon
<1>3. (b \o c) \o d = b \o (c \o d)
  BY CatAssociative, Zenon, Zenon
<1> QED
  BY <1>1, <1>2, <1>3

-----------------------------------------------------------------------------
(***************************************************************************)
(* Copy.  First, what it is for a sequence to be the concatenation of      *)
(* pieces: each piece is found between two cuts.                           *)
(***************************************************************************)
Cuts(P, s, c) ==
    /\ c[0] = 0 /\ c[Len(P)] = Len(s)
    /\ \A i, j \in 0 .. Len(P) : i <= j => c[i] <= c[j]
    /\ \A i \in 1 .. Len(P) :
          /\ c[i] = c[i - 1] + Len(P[i])
          /\ \A j \in 1 .. Len(P[i]) : s[c[i - 1] + j] = P[i][j]

Joins(P, s) == \E c \in [0 .. Len(P) -> Nat] : Cuts(P, s, c)

\* No piece
LEMMA JoinsNothing == \A s \in Seq(Nat) : Joins(<<>>, s) <=> s = <<>>
<1> SUFFICES ASSUME NEW s \in Seq(Nat) PROVE Joins(<<>>, s) <=> s = <<>>
  OBVIOUS
<1>1. ASSUME Joins(<<>>, s) PROVE s = <<>>
  BY <1>1 DEF Joins, Cuts
<1>2. ASSUME s = <<>> PROVE Joins(<<>>, s)
  <2> DEFINE c == [i \in 0 .. 0 |-> 0]
  <2>1. c \in [0 .. 0 -> Nat] /\ c[0] = 0
    OBVIOUS
  <2> HIDE DEF c
  <2>2. Cuts(<<>>, s, c)
    BY <1>2, <2>1 DEF Cuts
  <2> QED
    BY <2>1, <2>2 DEF Joins
<1> QED
  BY <1>1, <1>2

\* A piece more, at the end
LEMMA JoinsAppend ==
    ASSUME NEW P \in Seq(Seq(Nat)), NEW s \in Seq(Nat), NEW x \in Seq(Nat), Joins(P, s)
    PROVE  Joins(Append(P, x), s \o x)
<1> DEFINE n == Len(P)
           Q == Append(P, x)
           t == s \o x
<1>1. /\ n \in Nat /\ Q \in Seq(Seq(Nat)) /\ Len(Q) = n + 1
      /\ \A i \in 1 .. n : Q[i] = P[i]
      /\ Q[n + 1] = x
  BY AppendProperties
<1>2. /\ t \in Seq(Nat) /\ Len(t) = Len(s) + Len(x) /\ Len(s) \in Nat /\ Len(x) \in Nat
      /\ \A j \in 1 .. Len(s) : t[j] = s[j]
      /\ \A j \in 1 .. Len(x) : t[Len(s) + j] = x[j]
  OBVIOUS
<1>3. PICK c \in [0 .. n -> Nat] :
        /\ c[0] = 0 /\ c[n] = Len(s)
        /\ \A i, j \in 0 .. n : i <= j => c[i] <= c[j]
        /\ \A i \in 1 .. n :
              /\ c[i] = c[i - 1] + Len(P[i])
              /\ \A j \in 1 .. Len(P[i]) : s[c[i - 1] + j] = P[i][j]
  BY DEF Joins, Cuts
<1> DEFINE d == [i \in 0 .. n + 1 |-> IF i = n + 1 THEN Len(s) + Len(x) ELSE c[i]]
<1>4. /\ d \in [0 .. n + 1 -> Nat] /\ d[n + 1] = Len(s) + Len(x)
      /\ \A i \in 0 .. n : d[i] = c[i]
  BY <1>1, <1>2
<1> HIDE DEF Q, t, d, n
<1>5. \A i, j \in 0 .. n + 1 : i <= j => d[i] <= d[j]
  <2> SUFFICES ASSUME NEW i \in 0 .. n + 1, NEW j \in 0 .. n + 1, i <= j PROVE d[i] <= d[j]
    OBVIOUS
  <2>1. CASE j = n + 1
    <3>1. CASE i = n + 1
      BY <1>2, <1>4, <2>1, <3>1
    <3>2. CASE i # n + 1
      <4>1. i \in 0 .. n /\ n \in 0 .. n
        BY <1>1, <3>2
      <4>2. c[i] <= c[n] /\ c[i] \in Nat
        BY <1>3, <4>1
      <4> QED
        BY <1>2, <1>3, <1>4, <2>1, <4>1, <4>2
    <3> QED
      BY <3>1, <3>2
  <2>2. CASE j # n + 1
    <3>1. i \in 0 .. n /\ j \in 0 .. n
      BY <1>1, <2>2
    <3> QED
      BY <1>3, <1>4, <3>1
  <2> QED
    BY <2>1, <2>2
<1>6. ASSUME NEW i \in 1 .. n + 1
      PROVE  /\ d[i] = d[i - 1] + Len(Q[i])
             /\ \A j \in 1 .. Len(Q[i]) : t[d[i - 1] + j] = Q[i][j]
  <2>1. CASE i = n + 1
    <3>1. d[i - 1] = Len(s) /\ d[i] = Len(s) + Len(x) /\ Q[i] = x
      <4>1. n \in 0 .. n /\ i - 1 = n
        BY <1>1, <2>1
      <4> QED
        BY <1>1, <1>3, <1>4, <2>1, <4>1
    <3> QED
      BY <1>2, <3>1
  <2>2. CASE i # n + 1
    <3>1. i \in 1 .. n /\ i - 1 \in 0 .. n /\ i \in 0 .. n /\ n \in 0 .. n
      BY <1>1, <2>2
    <3>2. Q[i] = P[i] /\ d[i] = c[i] /\ d[i - 1] = c[i - 1] /\ c[i - 1] \in Nat
      BY <1>1, <1>3, <1>4, <3>1
    <3>3. P[i] \in Seq(Nat) /\ Len(P[i]) \in Nat
      BY <3>1 DEF n
    <3>4. c[i] <= Len(s)
      <4>1. i <= n
        BY <1>1, <3>1
      <4>2. c[i] <= c[n]
        BY <1>3, <3>1, <4>1
      <4> QED
        BY <1>3, <4>2
    <3>5. c[i] = c[i - 1] + Len(P[i]) /\ \A j \in 1 .. Len(P[i]) : s[c[i - 1] + j] = P[i][j]
      BY <1>3, <3>1
    <3>6. ASSUME NEW j \in 1 .. Len(P[i]) PROVE t[c[i - 1] + j] = P[i][j]
      <4>1. \A a, l, b, e \in Nat : b = a + l /\ b <= e /\ j \in 1 .. l => a + j \in 1 .. e
        OBVIOUS
      <4>2. c[i] \in Nat
        BY <1>3, <3>1
      <4>3. c[i - 1] + j \in 1 .. Len(s)
        BY <1>2, <3>2, <3>3, <3>4, <3>5, <4>1, <4>2
      <4> QED
        BY <1>2, <3>5, <4>3
    <3> QED
      BY <3>2, <3>5, <3>6
  <2> QED
    BY <2>1, <2>2
<1>7. d[0] = 0
  <2>1. 0 \in 0 .. n
    BY <1>1
  <2> QED
    BY <1>3, <1>4, <2>1
<1>8. Cuts(Q, t, d)
  BY <1>1, <1>2, <1>4, <1>5, <1>6, <1>7 DEF Cuts
<1>9. Joins(Q, t)
  BY <1>1, <1>4, <1>8 DEF Joins
<1> QED
  BY <1>9 DEF Q, t

\* The first piece, and the others
LEMMA JoinsHead ==
    ASSUME NEW P \in Seq(Seq(Nat)), P # <<>>, NEW s \in Seq(Nat), Joins(P, s)
    PROVE  /\ Head(P) \in Seq(Nat) /\ Tail(P) \in Seq(Seq(Nat))
           /\ \E t \in Seq(Nat) : s = Head(P) \o t /\ Joins(Tail(P), t)
<1> DEFINE n == Len(P)
           x == Head(P)
           Q == Tail(P)
<1>1. /\ n \in Nat /\ n >= 1 /\ x \in Seq(Nat) /\ Q \in Seq(Seq(Nat)) /\ Len(Q) = n - 1
      /\ \A i \in 1 .. n - 1 : Q[i] = P[i + 1]
      /\ x = P[1]
      /\ \A i \in 1 .. n : P[i] \in Seq(Nat)
  OBVIOUS
<1>2. PICK c \in [0 .. n -> Nat] :
        /\ c[0] = 0 /\ c[n] = Len(s)
        /\ \A i, j \in 0 .. n : i <= j => c[i] <= c[j]
        /\ \A i \in 1 .. n :
              /\ c[i] = c[i - 1] + Len(P[i])
              /\ \A j \in 1 .. Len(P[i]) : s[c[i - 1] + j] = P[i][j]
  BY DEF Joins, Cuts
<1> HIDE DEF n, x, Q
<1>3. PICK m \in Nat : m = Len(x) /\ c[1] = m /\ m <= Len(s) /\ Len(s) \in Nat
  <2>1. 1 \in 1 .. n /\ 1 \in 0 .. n /\ n \in 0 .. n /\ 1 <= n
    BY <1>1
  <2>2. c[1] = c[1 - 1] + Len(P[1])
    BY <1>2, <2>1
  <2>3. c[1] <= c[n]
    BY <1>2, <2>1
  <2>4. Len(x) \in Nat /\ 1 - 1 = 0 /\ Len(s) \in Nat
    BY <1>1
  <2> QED
    BY <1>1, <1>2, <2>2, <2>3, <2>4
<1>4. PICK k \in Nat : k = Len(s) - m /\ Len(s) = m + k
  <2>1. \A a, b \in Nat : b <= a => a - b \in Nat /\ a = b + (a - b)
    OBVIOUS
  <2> QED
    BY <1>3, <2>1
<1> DEFINE t == [j \in 1 .. k |-> s[m + j]]
<1>5. /\ t \in Seq(Nat) /\ Len(t) = k
      /\ \A j \in 1 .. k : t[j] = s[m + j]
  BY <1>3, <1>4
<1> HIDE DEF t
<1>6. \A j \in 1 .. m : s[j] = x[j]
  <2>1. 1 \in 1 .. n /\ 1 - 1 = 0
    BY <1>1
  <2>2. \A j \in 1 .. Len(P[1]) : s[c[1 - 1] + j] = P[1][j]
    BY <1>2, <2>1
  <2>3. c[1 - 1] = 0
    BY <1>2, <2>1
  <2>4. \A j \in 1 .. m : s[0 + j] = x[j]
    BY <1>1, <1>3, <2>2, <2>3
  <2> QED
    BY <2>4
<1>7. s = x \o t
  <2>1. /\ x \o t \in Seq(Nat) /\ Len(x \o t) = m + k
        /\ \A i \in 1 .. m + k : (x \o t)[i] = IF i <= m THEN x[i] ELSE t[i - m]
    <3>1. x \in Seq(Nat) /\ t \in Seq(Nat)
      BY <1>1, <1>5
    <3>2. /\ x \o t \in Seq(Nat) /\ Len(x \o t) = Len(x) + Len(t)
          /\ \A i \in 1 .. Len(x) + Len(t) :
                (x \o t)[i] = IF i <= Len(x) THEN x[i] ELSE t[i - Len(x)]
      BY <3>1, ConcatProperties
    <3>3. Len(x) = m /\ Len(t) = k
      BY <1>3, <1>5
    <3> QED
      BY <3>2, <3>3
  <2>2. ASSUME NEW j \in 1 .. m + k PROVE s[j] = (x \o t)[j]
    <3>1. CASE j <= m
      <4>1. j \in 1 .. m
        BY <3>1
      <4> QED
        BY <1>6, <2>1, <3>1, <4>1
    <3>2. CASE ~(j <= m)
      <4>1. j - m \in 1 .. k /\ m + (j - m) = j
        BY <3>2
      <4> QED
        BY <1>5, <2>1, <3>2, <4>1
    <3> QED
      BY <3>1, <3>2
  <2>3. Len(s) = m + k
    BY <1>4
  <2> QED
    BY <2>1, <2>2, <2>3, SeqEqual
<1> DEFINE d == [i \in 0 .. n - 1 |-> c[i + 1] - m]
<1>8. ASSUME NEW i \in 0 .. n - 1
      PROVE  d[i] \in Nat /\ c[i + 1] = d[i] + m /\ c[i + 1] \in Nat
  <2>1. i + 1 \in 0 .. n /\ 1 \in 0 .. n /\ 1 <= i + 1
    BY <1>1
  <2>2. c[1] <= c[i + 1] /\ c[i + 1] \in Nat
    BY <1>2, <2>1
  <2>3. d[i] = c[i + 1] - m
    OBVIOUS
  <2> QED
    BY <1>3, <2>2, <2>3
<1>9. d \in [0 .. n - 1 -> Nat]
  BY <1>8
<1> HIDE DEF d
<1>10. \A i, j \in 0 .. n - 1 : i <= j => d[i] <= d[j]
  <2> SUFFICES ASSUME NEW i \in 0 .. n - 1, NEW j \in 0 .. n - 1, i <= j PROVE d[i] <= d[j]
    OBVIOUS
  <2>1. i + 1 \in 0 .. n /\ j + 1 \in 0 .. n /\ i + 1 <= j + 1
    BY <1>1
  <2>2. c[i + 1] <= c[j + 1]
    BY <1>2, <2>1
  <2>3. /\ d[i] \in Nat /\ c[i + 1] = d[i] + m
        /\ d[j] \in Nat /\ c[j + 1] = d[j] + m
    BY <1>8
  <2> QED
    BY <2>2, <2>3
<1>11. ASSUME NEW i \in 1 .. n - 1
       PROVE  /\ d[i] = d[i - 1] + Len(Q[i])
              /\ \A j \in 1 .. Len(Q[i]) : t[d[i - 1] + j] = Q[i][j]
  <2>1. /\ i \in 0 .. n - 1 /\ i - 1 \in 0 .. n - 1 /\ i + 1 \in 1 .. n /\ i + 1 \in 0 .. n
        /\ (i - 1) + 1 = i /\ (i + 1) - 1 = i /\ i \in 0 .. n /\ i + 1 <= n /\ n \in 0 .. n
    BY <1>1
  <2>2. Q[i] = P[i + 1] /\ Len(Q[i]) \in Nat
    <3>1. Q[i] = P[i + 1] /\ P[i + 1] \in Seq(Nat)
      BY <1>1, <2>1
    <3> QED
      BY <3>1
  <2>3. /\ d[i] \in Nat /\ c[i + 1] = d[i] + m
        /\ d[i - 1] \in Nat /\ c[i] = d[i - 1] + m
    BY <1>8, <2>1
  <2>4. /\ c[i + 1] = c[i] + Len(P[i + 1])
        /\ \A j \in 1 .. Len(P[i + 1]) : s[c[i] + j] = P[i + 1][j]
    BY <1>2, <2>1
  <2>5. c[i + 1] <= Len(s)
    BY <1>2, <2>1
  <2>6. d[i] + m = (d[i - 1] + m) + Len(Q[i]) /\ d[i] + m <= m + k
    BY <1>4, <2>2, <2>3, <2>4, <2>5
  <2>7. ASSUME NEW j \in 1 .. Len(Q[i]) PROVE t[d[i - 1] + j] = Q[i][j]
    <3>1. \A a, l, b, e \in Nat : b + m = (a + m) + l /\ b + m <= m + e /\ j \in 1 .. l =>
              a + j \in 1 .. e /\ m + (a + j) = (a + m) + j
      OBVIOUS
    <3>2. d[i - 1] + j \in 1 .. k /\ m + (d[i - 1] + j) = c[i] + j
      BY <2>2, <2>3, <2>6, <3>1
    <3> QED
      BY <1>5, <2>2, <2>4, <3>2
  <2>8. \A a, l, b \in Nat : b + m = (a + m) + l => b = a + l
    OBVIOUS
  <2>9. d[i] = d[i - 1] + Len(Q[i])
    BY <2>2, <2>3, <2>8, <2>6, Zenon, Zenon
  <2> QED
    BY <2>7, <2>9
<1>12. d[0] = 0 /\ d[n - 1] = k
  <2>1. 0 \in 0 .. n - 1 /\ n - 1 \in 0 .. n - 1 /\ 0 + 1 = 1 /\ (n - 1) + 1 = n
    BY <1>1
  <2>2. /\ d[0] \in Nat /\ c[1] = d[0] + m
        /\ d[n - 1] \in Nat /\ c[n] = d[n - 1] + m
    BY <1>8, <2>1
  <2>3. \A a, b \in Nat : a + m = m + b => a = b
    OBVIOUS
  <2>4. d[0] = 0
    <3>1. \A a \in Nat : m = a + m => a = 0
      OBVIOUS
    <3> QED
      BY <1>3, <2>2, <3>1
  <2>5. d[n - 1] = k
    BY <1>2, <1>4, <2>2, <2>3
  <2> QED
    BY <2>4, <2>5
<1>13. Joins(Q, t)
  <2>1. Cuts(Q, t, d)
    BY <1>1, <1>5, <1>10, <1>11, <1>12 DEF Cuts
  <2> QED
    BY <1>1, <1>9, <2>1 DEF Joins
<1> QED
  BY <1>1, <1>5, <1>7, <1>13 DEF x, Q

\* An end marker alone
LEMMA JoinsEnd == \A s \in Seq(Nat) : Joins(<<End>>, s) => s = <<>>
<1> SUFFICES ASSUME NEW s \in Seq(Nat), Joins(<<End>>, s) PROVE s = <<>>
  OBVIOUS
<1>1. <<End>> \in Seq(Seq(Nat)) /\ <<End>> # <<>> /\ Head(<<End>>) = <<>> /\ Tail(<<End>>) = <<>>
  BY DEF End
<1>2. PICK t \in Seq(Nat) : s = <<>> \o t /\ Joins(<<>>, t)
  BY <1>1, JoinsHead
<1>3. t = <<>>
  BY <1>2, JoinsNothing
<1> QED
  BY <1>2, <1>3

\* How many chunks there are
LEMMA ChunkCount ==
    ASSUME NEW l \in Nat, NEW m \in Nat \ {0}
    PROVE  LET n == (l + m - 1) \div m
           IN  n \in Nat /\ l <= n * m /\ (n >= 1 => (n - 1) * m < l)
<1> DEFINE n == (l + m - 1) \div m
<1>1. l + m - 1 \in Nat
  OBVIOUS
<1>2. n \in Nat /\ n * m <= l + m - 1 /\ l + m - 1 < n * m + m
  BY <1>1
<1>3. (n - 1) * m = n * m - m
  BY <1>2
<1> QED
  BY <1>2, <1>3

\* The data are cut, into chunks that are not empty
LEMMA ChunksJoin ==
    ASSUME NEW data \in Seq(Nat)
    PROVE  /\ Chunks(data) \in Seq(Seq(Nat))
           /\ \A i \in 1 .. Len(Chunks(data)) : Chunks(data)[i] # End
           /\ Joins(Chunks(data), data)
<1>1. PICK m \in Nat \ {0} : m = MaxBuffer
  BY CopyAssumption DEF CopyAssumption
<1>2. PICK l \in Nat : l = Len(data)
  OBVIOUS
<1>3. PICK n \in Nat : /\ n = (l + m - 1) \div m
                       /\ l <= n * m /\ (n >= 1 => (n - 1) * m < l)
  BY ChunkCount
<1> DEFINE c == [i \in 0 .. n |-> IF i * m < l THEN i * m ELSE l]
           P == Chunks(data)
<1>4. P = [i \in 1 .. n |-> SubSeq(data, (i - 1) * m + 1, IF i * m < l THEN i * m ELSE l)]
  BY <1>1, <1>2, <1>3 DEF Chunks
<1>5. ASSUME NEW i \in 0 .. n, NEW j \in 0 .. n, i <= j PROVE i * m <= j * m /\ i * m \in Nat
  BY <1>5
<1>6. c \in [0 .. n -> Nat] /\ \A i, j \in 0 .. n : i <= j => c[i] <= c[j]
  <2>1. \A i \in 0 .. n : i * m \in Nat
    BY <1>5
  <2>2. ASSUME NEW i \in 0 .. n, NEW j \in 0 .. n, i <= j PROVE c[i] <= c[j]
    <3>1. i * m \in Nat /\ j * m \in Nat /\ i * m <= j * m
      BY <1>5, <2>1, <2>2
    <3> QED
      BY <3>1
  <2> QED
    BY <2>1, <2>2
<1>7. c[0] = 0 /\ c[n] = l
  BY <1>3
<1>8. ASSUME NEW i \in 1 .. n
      PROVE  c[i - 1] \in Nat /\ c[i] \in Nat /\ c[i - 1] < c[i] /\ c[i] <= l
             /\ P[i] = SubSeq(data, c[i - 1] + 1, c[i])
  <2>1. i - 1 \in 0 .. n /\ i \in 0 .. n /\ n - 1 \in 0 .. n /\ i - 1 <= n - 1 /\ n >= 1
    OBVIOUS
  <2>2. (i - 1) * m <= (n - 1) * m /\ (i - 1) * m \in Nat
    BY <1>5, <2>1
  <2>3. (i - 1) * m < l
    <3>1. (n - 1) * m \in Nat
      BY <1>5, <2>1
    <3> QED
      BY <1>3, <2>1, <2>2, <3>1
  <2>4. i * m = (i - 1) * m + m
    OBVIOUS
  <2>5. c[i - 1] = (i - 1) * m
    BY <2>1, <2>3
  <2>6. c[i] = IF i * m < l THEN i * m ELSE l
    BY <2>1
  <2>7. P[i] = SubSeq(data, (i - 1) * m + 1, IF i * m < l THEN i * m ELSE l)
    BY <1>4
  <2> HIDE DEF c
  <2>8. P[i] = SubSeq(data, c[i - 1] + 1, c[i])
    BY <2>5, <2>6, <2>7
  <2>9. \A a, b, d, e \in Nat : /\ b = a + d /\ d > 0 /\ a < l /\ e = IF b < l THEN b ELSE l
                                => a < e /\ e <= l
    OBVIOUS
  <2>10. i * m \in Nat /\ c[i] \in Nat
    BY <1>5, <2>1, <2>6
  <2> QED
    BY <2>2, <2>3, <2>4, <2>5, <2>6, <2>8, <2>9, <2>10
<1> HIDE DEF c, P
<1>9. ASSUME NEW i \in 1 .. n
      PROVE  /\ P[i] \in Seq(Nat) /\ P[i] # <<>>
             /\ c[i] = c[i - 1] + Len(P[i])
             /\ \A j \in 1 .. Len(P[i]) : data[c[i - 1] + j] = P[i][j]
  <2>1. PICK a \in Nat, b \in Nat : a = c[i - 1] /\ b = c[i]
    BY <1>8
  <2>2. a < b /\ b <= Len(data) /\ P[i] = SubSeq(data, a + 1, b)
    BY <1>2, <1>8, <2>1
  <2>3. PICK p \in Int : p = a + 1
    BY <2>1
  <2>4. PICK t : t = SubSeq(data, p, b)
    OBVIOUS
  <2>5. ASSUME NEW k \in p .. b PROVE data[k] \in Nat
    <3>1. b <= l
      BY <1>2, <2>2
    <3>2. k \in 1 .. l
      BY <2>3, <3>1
    <3> QED
      BY <1>2, <3>2
  <2>6. /\ t \in Seq(Nat) /\ Len(t) = b - a /\ b - a \in Nat \ {0} /\ b - p + 1 = b - a
        /\ \A k \in 1 .. b - p + 1 : t[k] = data[p + k - 1]
    <3>1. /\ t \in Seq(Nat)
          /\ Len(t) = IF p <= b THEN b - p + 1 ELSE 0
          /\ \A k \in 1 .. b - p + 1 : t[k] = data[p + k - 1]
      BY <2>4, <2>5, SubSeqProperties
    <3>2. p <= b /\ b - a \in Nat \ {0} /\ b - p + 1 = b - a
      BY <2>3, <2>2
    <3> QED
      BY <3>1, <3>2
  <2>7. t # <<>> /\ b = a + Len(t)
    <3>1. Len(t) # 0 /\ b = a + Len(t)
      BY <2>6
    <3> QED
      BY <3>1
  <2>8. ASSUME NEW j \in 1 .. Len(t) PROVE data[a + j] = t[j]
    <3>1. j \in 1 .. b - p + 1 /\ p + j - 1 = a + j
      BY <2>3, <2>6
    <3> QED
      BY <2>6, <3>1
  <2> QED
    BY <2>1, <2>2, <2>3, <2>4, <2>6, <2>7, <2>8
<1>10. P \in Seq(Seq(Nat)) /\ Len(P) = n
  <2>1. DOMAIN P = 1 .. n
    BY <1>4
  <2>2. P \in [1 .. n -> Seq(Nat)]
    BY <1>4, <1>9
  <2> QED
    BY <2>2
<1>11. Cuts(P, data, c)
  BY <1>2, <1>6, <1>7, <1>9, <1>10 DEF Cuts
<1>12. Joins(P, data)
  BY <1>6, <1>10, <1>11 DEF Joins
<1> QED
  BY <1>9, <1>10, <1>12 DEF P, End

-----------------------------------------------------------------------------
(***************************************************************************)
(* The inductive invariant.  What was handed over to the writer is what    *)
(* the server has arrived, what the worker is sending, what is in the queue    *)
(* and the chunks still to put there: with the buffer, it is what the      *)
(* program has written.                                                    *)
(***************************************************************************)
Copies == [dir : {"none", "in", "out"}, binary : BOOLEAN, queued : BOOLEAN,
           at : {"out", "block", "write", "last", "finish", "join", "left"},
           chunks : Seq(Seq(Nat)), exc : BOOLEAN, finished : BOOLEAN]
Formatters == [buffer : Seq(Nat), rows : BOOLEAN, blocks : BOOLEAN, signature : BOOLEAN]
CopyWorkers == [state : {"none", "running", "done"}, data : Seq(Nat), error : BOOLEAN]
Wires == [state : {"idle", "active", "lost", "copied", "aborted"}, got : Seq(Nat), left : Nat]

CopyTypes ==
    /\ cop \in Copies /\ fmt \in Formatters /\ asked \in Seq(Nat)
    /\ queue \in Seq(Seq(Nat)) /\ worker \in CopyWorkers /\ wire \in Wires

\* Where the program, the worker and the server may be together
CopyPhases ==
    /\ cop.at = "out" <=> cop.dir = "none"
    /\ cop.dir # "in" =>
         /\ cop.at \in {"out", "block", "left"}
         /\ asked = <<>> /\ fmt.buffer = <<>> /\ ~fmt.rows /\ ~fmt.blocks /\ ~fmt.signature
         /\ cop.chunks = <<>> /\ queue = <<>> /\ worker.state = "none"
    /\ cop.dir = "none" => wire.got = <<>> /\ ~cop.exc /\ ~cop.finished
    /\ cop.dir = "in" /\ cop.at \in {"block", "write", "last"} => ~cop.exc
    /\ cop.dir = "in" /\ cop.at # "left" =>
         /\ wire.state \in {"active", "lost"}
         /\ wire.state = "lost" => worker.error \/ (cop.at = "finish" /\ cop.exc /\ ~cop.queued)
    /\ worker.error => wire.state = "lost" /\ worker.state = "done"

\* The chunks, the queue and its end marker
QueuePhases ==
    /\ cop.chunks # <<>> => cop.at \in {"write", "last"}
    /\ \A i \in 1 .. Len(cop.chunks) : cop.chunks[i] # End
    /\ \A i \in 1 .. Len(queue) :
          queue[i] = End => i = Len(queue) /\ cop.at \in {"join", "left"}
    /\ ~cop.queued => queue = <<>> /\ worker.state = "none" /\ cop.at # "join"
    /\ worker.state = "none" =>
         /\ ~worker.error /\ worker.data = End
         /\ \A i \in 1 .. Len(queue) : queue[i] = End
         /\ cop.queued => cop.chunks = <<>>
    /\ worker.state = "done" =>
         /\ worker.data = End
         /\ worker.error \/ (queue = <<>> /\ cop.at \in {"join", "left"})
    /\ cop.at = "left" => worker.state # "running"

\* The signature is written first, and nothing without a call
FormatPhases ==
    /\ ~fmt.rows => fmt.buffer = <<>>
    /\ ~fmt.rows /\ ~fmt.blocks => asked = <<>>
    /\ cop.binary => (fmt.signature <=> fmt.rows \/ fmt.blocks)

BothKinds == fmt.rows /\ fmt.blocks

\* s is a beginning of t
Begins(s, t) == \E rest \in Seq(Nat) : s \o rest = t

\* What is written before the end
WrittenSoFar == IF cop.binary /\ fmt.rows THEN <<Sig>> \o asked ELSE asked

\* What is written when nothing is left to hand over
Target == IF cop.at \in {"block", "write"} THEN WrittenSoFar ELSE Expected

\* h was handed over to the writer
HandedBy(P, Q, arrived, data, h) ==
    \E s1, s2 \in Seq(Nat) :
        Joins(P, s1) /\ Joins(Q, s2) /\ h = arrived \o (data \o (s1 \o s2))

HandedOver(h) == HandedBy(queue, cop.chunks, wire.got, worker.data, h)

\* Nothing was lost
WholeKept(h) ==
    /\ cop.at \in {"block", "write"} =>
         IF BothKinds THEN Range(asked) \subseteq Range(h) \cup Range(fmt.buffer)
         ELSE h \o fmt.buffer = WrittenSoFar
    /\ cop.at \in {"last", "finish", "join"} /\ ~cop.exc =>
         IF BothKinds THEN Range(asked) \subseteq Range(h) ELSE h = Expected
    /\ ~BothKinds => Begins(h, Target)

DataKept ==
    cop.dir = "in" =>
        /\ cop.at # "left" /\ wire.state # "lost" =>
             \E h \in Seq(Nat) : HandedOver(h) /\ WholeKept(h)
        /\ ~BothKinds => Begins(wire.got, Target)

CopyIInv ==
    /\ CopyTypes /\ CopyPhases /\ QueuePhases /\ FormatPhases /\ DataKept
    /\ CopiedExactly
    /\ cop.dir = "out" /\ cop.finished => wire.state # "active"
    /\ OutReleased

\* What was sent is a beginning of what was handed over
LEMMA SentFirst ==
    \A P, Q, h : \A arrived, data \in Seq(Nat) :
        HandedBy(P, Q, arrived, data, h) => h \in Seq(Nat) /\ Begins(arrived, h)
<1> SUFFICES ASSUME NEW P, NEW Q, NEW h, NEW arrived \in Seq(Nat), NEW data \in Seq(Nat),
                    HandedBy(P, Q, arrived, data, h)
             PROVE  h \in Seq(Nat) /\ Begins(arrived, h)
  OBVIOUS
<1>1. PICK s1, s2 \in Seq(Nat) : h = arrived \o (data \o (s1 \o s2))
  BY DEF HandedBy
<1>2. data \o (s1 \o s2) \in Seq(Nat)
  BY ConcatProperties
<1> QED
  BY <1>1, <1>2, ConcatProperties DEF Begins

\* A chunk is put in the queue
LEMMA HandedPut ==
    ASSUME NEW P \in Seq(Seq(Nat)), NEW Q \in Seq(Seq(Nat)), Q # <<>>,
           NEW arrived \in Seq(Nat), NEW data \in Seq(Nat), NEW h, HandedBy(P, Q, arrived, data, h)
    PROVE  HandedBy(Append(P, Head(Q)), Tail(Q), arrived, data, h)
<1>1. PICK s1, s2 \in Seq(Nat) : Joins(P, s1) /\ Joins(Q, s2) /\ h = arrived \o (data \o (s1 \o s2))
  BY DEF HandedBy
<1>2. PICK t \in Seq(Nat) : s2 = Head(Q) \o t /\ Joins(Tail(Q), t) /\ Head(Q) \in Seq(Nat)
  BY <1>1, JoinsHead
<1>3. Joins(Append(P, Head(Q)), s1 \o Head(Q)) /\ s1 \o Head(Q) \in Seq(Nat)
  BY <1>1, <1>2, JoinsAppend, ConcatProperties
<1>4. s1 \o s2 = (s1 \o Head(Q)) \o t
  <2>1. PICK x \in Seq(Nat) : x = Head(Q)
    BY <1>2
  <2>2. (s1 \o x) \o t = s1 \o (x \o t)
    BY CatAssociative, Zenon, Zenon
  <2> QED
    BY <1>2, <2>1, <2>2
<1> QED
  BY <1>1, <1>2, <1>3, <1>4 DEF HandedBy

\* The worker takes one
LEMMA HandedGet ==
    ASSUME NEW P \in Seq(Seq(Nat)), P # <<>>, NEW Q,
           NEW arrived \in Seq(Nat), NEW h, HandedBy(P, Q, arrived, <<>>, h)
    PROVE  HandedBy(Tail(P), Q, arrived, Head(P), h)
<1>1. PICK s1, s2 \in Seq(Nat) : Joins(P, s1) /\ Joins(Q, s2) /\ h = arrived \o (<<>> \o (s1 \o s2))
  BY DEF HandedBy
<1>2. PICK t \in Seq(Nat) : s1 = Head(P) \o t /\ Joins(Tail(P), t) /\ Head(P) \in Seq(Nat)
  BY <1>1, JoinsHead
<1>3. <<>> \o (s1 \o s2) = s1 \o s2
  <2>1. s1 \o s2 \in Seq(Nat)
    BY ConcatProperties
  <2> QED
    BY <2>1, ConcatEmptySeq
<1>4. s1 \o s2 = Head(P) \o (t \o s2)
  <2>1. PICK x \in Seq(Nat) : x = Head(P)
    BY <1>2
  <2>2. (x \o t) \o s2 = x \o (t \o s2)
    BY CatAssociative
  <2> QED
    BY <1>2, <2>1, <2>2
<1> QED
  BY <1>1, <1>2, <1>3, <1>4 DEF HandedBy

\* The worker sends it
LEMMA HandedSend ==
    ASSUME NEW P, NEW Q, NEW arrived \in Seq(Nat), NEW data \in Seq(Nat), NEW h,
           HandedBy(P, Q, arrived, data, h)
    PROVE  arrived \o data \in Seq(Nat) /\ HandedBy(P, Q, arrived \o data, <<>>, h)
<1>1. PICK s1, s2 \in Seq(Nat) : Joins(P, s1) /\ Joins(Q, s2) /\ h = arrived \o (data \o (s1 \o s2))
  BY DEF HandedBy
<1>2. s1 \o s2 \in Seq(Nat) /\ arrived \o data \in Seq(Nat)
  BY ConcatProperties
<1>3. /\ <<>> \o (s1 \o s2) = s1 \o s2
      /\ (arrived \o data) \o (s1 \o s2) = arrived \o (data \o (s1 \o s2))
  <2>1. PICK x \in Seq(Nat) : x = s1 \o s2
    BY <1>2
  <2>2. <<>> \o x = x
    BY ConcatEmptySeq
  <2>3. (arrived \o data) \o x = arrived \o (data \o x)
    BY CatAssociative, Zenon, Zenon
  <2> QED
    BY <2>1, <2>2, <2>3
<1> QED
  BY <1>1, <1>2, <1>3 DEF HandedBy

\* A chunk is sent without the queue
LEMMA HandedChunk ==
    ASSUME NEW Q \in Seq(Seq(Nat)), Q # <<>>, NEW arrived \in Seq(Nat), NEW h,
           HandedBy(<<>>, Q, arrived, <<>>, h)
    PROVE  /\ Head(Q) \in Seq(Nat) /\ arrived \o Head(Q) \in Seq(Nat)
           /\ HandedBy(<<>>, Tail(Q), arrived \o Head(Q), <<>>, h)
<1>1. PICK s1, s2 \in Seq(Nat) : /\ Joins(<<>>, s1) /\ Joins(Q, s2)
                                /\ h = arrived \o (<<>> \o (s1 \o s2))
  BY DEF HandedBy
<1>2. s1 = <<>>
  BY <1>1, JoinsNothing
<1>3. PICK t \in Seq(Nat) : s2 = Head(Q) \o t /\ Joins(Tail(Q), t) /\ Head(Q) \in Seq(Nat)
  BY <1>1, JoinsHead
<1>4. <<>> \o (s1 \o s2) = s2 /\ <<>> \o (s1 \o t) = t
  BY <1>2, ConcatEmptySeq
<1>5. arrived \o Head(Q) \in Seq(Nat)
  BY <1>3, ConcatProperties
<1>6. arrived \o s2 = (arrived \o Head(Q)) \o t
  <2>1. PICK x \in Seq(Nat) : x = Head(Q)
    BY <1>3
  <2>2. (arrived \o x) \o t = arrived \o (x \o t)
    BY CatAssociative, Zenon, Zenon
  <2> QED
    BY <1>3, <2>1, <2>2
<1>7. h = (arrived \o Head(Q)) \o (<<>> \o (s1 \o t))
  BY <1>1, <1>4, <1>6
<1> QED
  BY <1>1, <1>3, <1>5, <1>7 DEF HandedBy

\* Data are handed over, when nothing is left of those before
LEMMA HandedMore ==
    ASSUME NEW P, NEW arrived \in Seq(Nat), NEW data \in Seq(Nat), NEW h,
           HandedBy(P, <<>>, arrived, data, h), NEW d \in Seq(Nat)
    PROVE  h \o d \in Seq(Nat) /\ HandedBy(P, Chunks(d), arrived, data, h \o d)
<1>1. PICK s1, s2 \in Seq(Nat) : /\ Joins(P, s1) /\ Joins(<<>>, s2)
                                /\ h = arrived \o (data \o (s1 \o s2))
  BY DEF HandedBy
<1>2. s2 = <<>> /\ s1 \o s2 = s1
  BY <1>1, JoinsNothing, ConcatEmptySeq
<1>3. data \o s1 \in Seq(Nat) /\ h = arrived \o (data \o s1) /\ h \in Seq(Nat)
  BY <1>1, <1>2, ConcatProperties
<1>4. h \o d = arrived \o (data \o (s1 \o d)) /\ h \o d \in Seq(Nat)
  <2>1. h \o d \in Seq(Nat)
    BY <1>3, CatElements
  <2>2. FourParts(arrived, data, s1, d)
    BY CatFour
  <2> QED
    BY <1>3, <2>1, <2>2 DEF FourParts
<1>5. Joins(Chunks(d), d)
  BY ChunksJoin
<1> QED
  BY <1>1, <1>4, <1>5 DEF HandedBy

\* The end marker is queued
LEMMA HandedEnd ==
    ASSUME NEW P \in Seq(Seq(Nat)), NEW Q, NEW arrived, NEW data, NEW h,
           HandedBy(P, Q, arrived, data, h)
    PROVE  HandedBy(Append(P, End), Q, arrived, data, h)
<1>1. PICK s1, s2 \in Seq(Nat) : Joins(P, s1) /\ Joins(Q, s2) /\ h = arrived \o (data \o (s1 \o s2))
  BY DEF HandedBy
<1>2. End \in Seq(Nat) /\ s1 \o End = s1
  BY ConcatEmptySeq DEF End
<1>3. Joins(Append(P, End), s1)
  BY <1>1, <1>2, JoinsAppend
<1> QED
  BY <1>1, <1>3 DEF HandedBy

\* All was sent
LEMMA HandedAll ==
    ASSUME NEW P, P = <<>> \/ P = <<End>>, NEW arrived \in Seq(Nat), NEW h,
           HandedBy(P, <<>>, arrived, <<>>, h)
    PROVE  h = arrived
<1>1. PICK s1, s2 \in Seq(Nat) : /\ Joins(P, s1) /\ Joins(<<>>, s2)
                                /\ h = arrived \o (<<>> \o (s1 \o s2))
  BY DEF HandedBy
<1>2. s1 = <<>> /\ s2 = <<>>
  BY <1>1, JoinsNothing, JoinsEnd
<1> QED
  BY <1>1, <1>2, ConcatEmptySeq

-----------------------------------------------------------------------------
\* The fields, in a state of the types
LEMMA CopyFields ==
    ASSUME CopyTypes
    PROVE  /\ cop.dir \in {"none", "in", "out"} /\ cop.binary \in BOOLEAN
           /\ cop.queued \in BOOLEAN /\ cop.exc \in BOOLEAN /\ cop.finished \in BOOLEAN
           /\ cop.at \in {"out", "block", "write", "last", "finish", "join", "left"}
           /\ cop.chunks \in Seq(Seq(Nat))
           /\ fmt.buffer \in Seq(Nat) /\ fmt.rows \in BOOLEAN /\ fmt.blocks \in BOOLEAN
           /\ fmt.signature \in BOOLEAN
           /\ asked \in Seq(Nat) /\ queue \in Seq(Seq(Nat))
           /\ worker.state \in {"none", "running", "done"} /\ worker.data \in Seq(Nat)
           /\ worker.error \in BOOLEAN
           /\ wire.state \in {"idle", "active", "lost", "copied", "aborted"}
           /\ wire.got \in Seq(Nat) /\ wire.left \in Nat
  BY DEF CopyTypes, Copies, Formatters, CopyWorkers, Wires

\* The marks of the format
LEMMA Marks == Sig \in Nat /\ Trailer \in Nat /\ <<Sig>> \in Seq(Nat) /\ <<Trailer>> \in Seq(Nat)
               /\ <<Sig, Trailer>> \in Seq(Nat) /\ End \in Seq(Nat)
<1>1. Sig \in Nat /\ Trailer \in Nat
  BY CopyAssumption DEF CopyAssumption, Sig, Trailer
<1> QED
  BY <1>1 DEF End

\* The empty sequence adds nothing
LEMMA CatNothing == \A s \in Seq(Nat) : s \o <<>> = s /\ <<>> \o s = s
  BY ConcatEmptySeq

\* Two sequences of one number
LEMMA PairJoined == \A a, b \in Nat : <<a>> \o <<b>> = <<a, b>>
<1> SUFFICES ASSUME NEW a \in Nat, NEW b \in Nat PROVE <<a>> \o <<b>> = <<a, b>>
  OBVIOUS
<1>1. PICK x : x = <<a>> \o <<b>>
  OBVIOUS
<1>2. <<a>> \in Seq(Nat) /\ <<b>> \in Seq(Nat) /\ Len(<<a>>) = 1 /\ Len(<<b>>) = 1
  OBVIOUS
<1>3. x \in Seq(Nat) /\ Len(x) = 2 /\ x[1] = a /\ x[2] = b
  BY <1>1, <1>2, CatElements
<1>4. PICK y : y = <<a, b>>
  OBVIOUS
<1>5. y \in Seq(Nat) /\ Len(y) = 2 /\ y[1] = a /\ y[2] = b
  BY <1>4
<1>6. ASSUME NEW i \in 1 .. 2 PROVE x[i] = y[i]
  BY <1>3, <1>5
<1>7. x = y
  BY <1>3, <1>5, <1>6, SeqEqual
<1> QED
  BY <1>1, <1>4, <1>7

\* What write_row() adds to the buffer
LEMMA RowAppended ==
    \A s \in Seq(Nat), a, b \in Nat :
        /\ Append(s, b) = s \o <<b>>
        /\ Append(Append(s, a), b) = s \o <<a, b>>
<1> SUFFICES ASSUME NEW s \in Seq(Nat), NEW a \in Nat, NEW b \in Nat
             PROVE  /\ Append(s, b) = s \o <<b>>
                    /\ Append(Append(s, a), b) = s \o <<a, b>>
  OBVIOUS
<1>1. \A t \in Seq(Nat), n \in Nat : Append(t, n) = t \o <<n>> /\ Append(t, n) \in Seq(Nat)
  OBVIOUS
<1>2. <<a>> \in Seq(Nat) /\ <<b>> \in Seq(Nat)
  OBVIOUS
<1>3. Append(Append(s, a), b) = (s \o <<a>>) \o <<b>>
  BY <1>1
<1>4. (s \o <<a>>) \o <<b>> = s \o (<<a>> \o <<b>>)
  BY <1>2, CatAssociative
<1> QED
  BY <1>1, <1>3, <1>4, PairJoined

\* What is written, at the end, is what was written before and what end() adds
CopyEnding ==
    CASE ~cop.binary -> <<>>
      [] cop.binary /\ ~fmt.signature -> <<Sig, Trailer>>
      [] cop.binary /\ fmt.signature /\ fmt.rows -> <<Trailer>>
      [] OTHER -> <<>>

\* The end of the data is added to what the buffer and the writer have
LEMMA EndingAdded ==
    ASSUME CopyTypes, FormatPhases
    PROVE  /\ CopyEnding \in Seq(Nat) /\ WrittenSoFar \in Seq(Nat) /\ Expected \in Seq(Nat)
           /\ CopyEnded = fmt.buffer \o CopyEnding
           /\ ~BothKinds => Expected = WrittenSoFar \o CopyEnding
<1>1. /\ asked \in Seq(Nat) /\ fmt.buffer \in Seq(Nat) /\ cop.binary \in BOOLEAN
      /\ fmt.rows \in BOOLEAN /\ fmt.blocks \in BOOLEAN /\ fmt.signature \in BOOLEAN
  BY CopyFields
<1>2. CopyEnding \in Seq(Nat)
  BY Marks DEF CopyEnding
<1>3. <<Sig>> \o asked \in Seq(Nat) /\ <<Sig>> \o asked \o <<Trailer>> \in Seq(Nat)
  <2>1. PICK x \in Seq(Nat) : x = <<Sig>> \o asked
    BY <1>1, Marks, CatElements
  <2> QED
    BY <2>1, Marks, CatElements
<1>4. WrittenSoFar \in Seq(Nat) /\ Expected \in Seq(Nat)
  BY <1>1, <1>3 DEF WrittenSoFar, Expected
<1>5. CopyEnded = fmt.buffer \o CopyEnding
  <2>1. CASE ~cop.binary
    BY <1>1, <2>1, CatNothing DEF CopyEnded, CopyEnding
  <2>2. CASE cop.binary /\ ~fmt.signature
    BY <2>2 DEF CopyEnded, CopyEnding
  <2>3. CASE cop.binary /\ fmt.signature /\ fmt.rows
    <3>1. \A s \in Seq(Nat), n \in Nat : Append(s, n) = s \o <<n>>
      OBVIOUS
    <3>2. Append(fmt.buffer, Trailer) = fmt.buffer \o <<Trailer>>
      BY <1>1, <3>1, Marks
    <3> QED
      BY <2>3, <3>2 DEF CopyEnded, CopyEnding
  <2>4. CASE cop.binary /\ fmt.signature /\ ~fmt.rows
    BY <1>1, <2>4, CatNothing DEF CopyEnded, CopyEnding
  <2> QED
    BY <1>1, <2>1, <2>2, <2>3, <2>4
<1>6. ASSUME ~BothKinds PROVE Expected = WrittenSoFar \o CopyEnding
  <2>1. CASE ~cop.binary
    BY <1>1, <2>1, CatNothing DEF Expected, WrittenSoFar, CopyEnding
  <2>2. CASE cop.binary /\ ~fmt.signature
    <3>1. ~fmt.rows /\ ~fmt.blocks /\ asked = <<>>
      BY <1>1, <2>2 DEF FormatPhases
    <3>2. WrittenSoFar = <<>> /\ Expected = <<Sig>> \o <<>> \o <<Trailer>> /\ CopyEnding = <<Sig, Trailer>>
      BY <2>2, <3>1 DEF Expected, WrittenSoFar, CopyEnding
    <3>3. <<Sig>> \o <<>> = <<Sig>> /\ <<>> \o <<Sig, Trailer>> = <<Sig, Trailer>>
      BY Marks, CatNothing
    <3> QED
      BY <3>2, <3>3, PairJoined, Marks
  <2>3. CASE cop.binary /\ fmt.signature /\ fmt.rows
    BY <1>1, <1>6, <2>3 DEF Expected, WrittenSoFar, CopyEnding, BothKinds
  <2>4. CASE cop.binary /\ fmt.signature /\ ~fmt.rows
    <3>1. fmt.blocks
      BY <1>1, <2>4 DEF FormatPhases
    <3> QED
      BY <1>1, <2>4, <3>1, CatNothing DEF Expected, WrittenSoFar, CopyEnding
  <2> QED
    BY <1>1, <2>1, <2>2, <2>3, <2>4
<1> QED
  BY <1>2, <1>4, <1>5, <1>6

\* A beginning of a sequence
LEMMA FirstPart == \A s, r \in Seq(Nat) : IsPrefix(s, s \o r)
<1> SUFFICES ASSUME NEW s \in Seq(Nat), NEW r \in Seq(Nat) PROVE IsPrefix(s, s \o r)
  OBVIOUS
<1>1. PICK x : x = s \o r
  OBVIOUS
<1>2. x \in Seq(Nat) /\ Len(x) = Len(s) + Len(r) /\ \A i \in 1 .. Len(s) : x[i] = s[i]
  BY <1>1, CatElements
<1>3. PICK m, n \in Nat : m = Len(s) /\ n = Len(r)
  OBVIOUS
<1>4. m <= m + n /\ Len(x) = m + n /\ 1 .. m \subseteq 1 .. m + n
  BY <1>2, <1>3
<1>5. SubSeq(s, 1, m) = [i \in 1 .. m |-> s[i]] /\ SubSeq(x, 1, m) = [i \in 1 .. m |-> x[i]]
  BY <1>2, <1>3, <1>4
<1>6. SubSeq(s, 1, m) = SubSeq(x, 1, m)
  BY <1>2, <1>3, <1>5
<1> QED
  BY <1>1, <1>3, <1>4, <1>6 DEF IsPrefix

\* What begins a sequence begins those that go on with it
LEMMA BeginsMore ==
    \A g, w, x \in Seq(Nat) : Begins(g, w) => Begins(g, w \o x) /\ w \o x \in Seq(Nat)
<1> SUFFICES ASSUME NEW g \in Seq(Nat), NEW w \in Seq(Nat), NEW x \in Seq(Nat), Begins(g, w)
             PROVE  Begins(g, w \o x) /\ w \o x \in Seq(Nat)
  OBVIOUS
<1>1. PICK r \in Seq(Nat) : g \o r = w
  BY DEF Begins
<1>2. (g \o r) \o x = g \o (r \o x)
  BY CatAssociative
<1>3. r \o x \in Seq(Nat) /\ w \o x \in Seq(Nat)
  BY CatElements
<1> QED
  BY <1>1, <1>2, <1>3 DEF Begins

\* A sequence begins itself
LEMMA BeginsSelf == \A w \in Seq(Nat) : Begins(w, w)
<1>1. <<>> \in Seq(Nat)
  OBVIOUS
<1> QED
  BY <1>1, CatNothing DEF Begins

\* A beginning of a beginning
LEMMA BeginsFirst == \A g, h, w \in Seq(Nat) : Begins(g, h) /\ Begins(h, w) => Begins(g, w)
<1> SUFFICES ASSUME NEW g \in Seq(Nat), NEW h \in Seq(Nat), NEW w \in Seq(Nat),
                    Begins(g, h), Begins(h, w)
             PROVE  Begins(g, w)
  OBVIOUS
<1>1. PICK r \in Seq(Nat) : h \o r = w
  BY DEF Begins
<1> QED
  BY <1>1, BeginsMore

\* A beginning is a prefix
LEMMA BeginsPrefix == \A g, w \in Seq(Nat) : Begins(g, w) => IsPrefix(g, w)
  BY FirstPart DEF Begins

\* What is sent is a beginning of what must be, in the end
LEMMA SentExpected ==
    ASSUME CopyTypes, FormatPhases, ~BothKinds, NEW g \in Seq(Nat), Begins(g, Target)
    PROVE  Begins(g, Expected)
<1>1. CopyEnding \in Seq(Nat) /\ WrittenSoFar \in Seq(Nat) /\ Expected = WrittenSoFar \o CopyEnding
  BY EndingAdded
<1> QED
  BY <1>1, BeginsMore DEF Target

\* The invariant implies what the run checks
LEMMA CopyImplied == CopyIInv => CopyFaithful
<1> SUFFICES ASSUME CopyIInv PROVE CopyFaithful
  OBVIOUS
<1>1. CopyTypes /\ FormatPhases /\ DataKept /\ CopiedExactly /\ OutReleased
  BY DEF CopyIInv
<1>2. ASSUME cop.dir = "in", ~(fmt.rows /\ fmt.blocks) PROVE IsPrefix(wire.got, Expected)
  <2>1. wire.got \in Seq(Nat) /\ Expected \in Seq(Nat)
    BY <1>1, CopyFields, EndingAdded
  <2>2. Begins(wire.got, Expected)
    BY <1>1, <1>2, <2>1, SentExpected DEF DataKept, BothKinds
  <2> QED
    BY <2>1, <2>2, BeginsPrefix
<1> QED
  BY <1>1, <1>2 DEF CopyFaithful, SentPrefix

\* If nothing that was handed over is lost, what was sent is a part of it
LEMMA DataFrom ==
    CopyTypes /\ FormatPhases /\ (\E h \in Seq(Nat) : HandedOver(h) /\ WholeKept(h)) => DataKept
<1> SUFFICES ASSUME CopyTypes, FormatPhases, NEW h \in Seq(Nat), HandedOver(h), WholeKept(h)
             PROVE  DataKept
  OBVIOUS
<1>1. wire.got \in Seq(Nat) /\ worker.data \in Seq(Nat) /\ WrittenSoFar \in Seq(Nat)
      /\ Expected \in Seq(Nat)
  BY CopyFields, EndingAdded
<1>2. Begins(wire.got, h)
  <2>1. PICK g, d \in Seq(Nat) : g = wire.got /\ d = worker.data
    BY <1>1
  <2>2. HandedBy(queue, cop.chunks, g, d, h)
    BY <2>1 DEF HandedOver
  <2> QED
    BY <2>1, <2>2, SentFirst
<1>3. Target \in Seq(Nat)
  BY <1>1 DEF Target
<1>4. ~BothKinds => Begins(wire.got, Target)
  BY <1>1, <1>2, <1>3, BeginsFirst DEF WholeKept
<1> QED
  BY <1>4 DEF DataKept

\* The same of the next state
LEMMA DataFromNext ==
    (CopyTypes /\ FormatPhases /\ (\E h \in Seq(Nat) : HandedOver(h) /\ WholeKept(h)) => DataKept)'
  BY DataFrom, PTL

\* What end() adds, as an implication
LEMMA EndingAdds ==
    CopyTypes /\ FormatPhases =>
        /\ CopyEnding \in Seq(Nat) /\ WrittenSoFar \in Seq(Nat) /\ Expected \in Seq(Nat)
        /\ ~BothKinds => Expected = WrittenSoFar \o CopyEnding
  BY EndingAdded

\* The same of the next state
LEMMA EndingAddsNext ==
    (CopyTypes /\ FormatPhases =>
        /\ CopyEnding \in Seq(Nat) /\ WrittenSoFar \in Seq(Nat) /\ Expected \in Seq(Nat)
        /\ ~BothKinds => Expected = WrittenSoFar \o CopyEnding)'
  BY EndingAdds, PTL

\* The first state
LEMMA CopyInitIInv == CopyInit => CopyIInv
<1> SUFFICES ASSUME CopyInit PROVE CopyIInv
  OBVIOUS
<1>1. <<>> \in Seq(Nat) /\ <<>> \in Seq(Seq(Nat)) /\ Len(<<>>) = 0
  OBVIOUS
<1>2. CopyTypes
  BY <1>1 DEF CopyInit, CopyTypes, Copies, Formatters, CopyWorkers, Wires, End
<1> QED
  BY <1>1, <1>2 DEF CopyInit, CopyIInv, CopyPhases, QueuePhases, FormatPhases, DataKept,
                    CopiedExactly, OutReleased, End

-----------------------------------------------------------------------------
(* The steps *)

\* A copy starts
LEMMA StartCopyStep ==
    ASSUME NEW dir \in {"in", "out"}, NEW binary \in BOOLEAN, NEW queued \in BOOLEAN,
           NEW rows \in 0 .. MaxRows, CopyIInv, StartCopy(dir, binary, queued, rows)
    PROVE  CopyIInv'
<1>1. /\ CopyTypes /\ CopyPhases /\ QueuePhases /\ FormatPhases
      /\ cop.dir = "none" /\ cop.at = "out"
  BY DEF CopyIInv, CopyPhases, StartCopy
<1>2. /\ asked = <<>> /\ fmt.buffer = <<>> /\ ~fmt.rows /\ ~fmt.blocks /\ ~fmt.signature
      /\ cop.chunks = <<>> /\ queue = <<>> /\ worker.state = "none" /\ worker.data = End
      /\ ~worker.error /\ ~cop.exc /\ ~cop.finished
  BY <1>1 DEF CopyPhases, QueuePhases
<1>3. UNCHANGED <<fmt, asked, queue, worker>>
  BY DEF StartCopy, writeVars
<1>4. /\ cop' \in Copies /\ cop'.at = "block" /\ cop'.dir = dir /\ cop'.binary = binary
      /\ cop'.queued = queued /\ cop'.chunks = <<>> /\ ~cop'.exc /\ ~cop'.finished
  BY <1>1, <1>2 DEF StartCopy, CopyTypes, Copies
<1>5. wire' \in Wires /\ wire'.state = "active" /\ wire'.got = <<>>
  BY CopyAssumption DEF StartCopy, Wires, CopyAssumption
<1>6. CopyTypes'
  BY <1>1, <1>3, <1>4, <1>5 DEF CopyTypes
<1>7. CopyPhases' /\ QueuePhases' /\ FormatPhases'
  BY <1>2, <1>3, <1>4, <1>5 DEF CopyPhases, QueuePhases, FormatPhases
<1>8. DataKept'
  <2>1. <<>> \in Seq(Nat) /\ <<>> \o <<>> = <<>>
    BY CatNothing
  <2>2. HandedOver(<<>>)'
    BY <1>2, <1>3, <1>4, <1>5, <2>1, JoinsNothing DEF HandedOver, HandedBy, End
  <2>3. WrittenSoFar' = <<>> /\ Target' = <<>>
    BY <1>2, <1>3, <1>4 DEF WrittenSoFar, Target
  <2>4. WholeKept(<<>>)'
    BY <1>2, <1>3, <1>4, <2>1, <2>3, BeginsSelf DEF WholeKept, BothKinds
  <2> QED
    BY <1>6, <1>7, <2>1, <2>2, <2>4, DataFromNext
<1> QED
  BY <1>4, <1>5, <1>6, <1>7, <1>8 DEF CopyIInv, CopiedExactly, OutReleased

\* What the steps of the writers and of the worker leave alone
LEMMA WritersKeep ==
    ASSUME CopyIInv,
           (\E ok \in BOOLEAN : SendChunk(ok)) \/ PutChunk \/ WorkerGet
              \/ (\E ok \in BOOLEAN : WorkerSend(ok))
    PROVE  /\ cop.dir = "in" /\ cop.at # "left"
           /\ UNCHANGED <<fmt, asked>> /\ FormatPhases'
           /\ cop'.dir = cop.dir /\ cop'.binary = cop.binary /\ cop'.queued = cop.queued
<1>1. CopyTypes /\ CopyPhases /\ QueuePhases /\ FormatPhases
  BY DEF CopyIInv
<1>2. UNCHANGED <<fmt, asked>>
  BY DEF SendChunk, PutChunk, WorkerGet, WorkerSend, writeVars
<1>3. cop'.dir = cop.dir /\ cop'.binary = cop.binary /\ cop'.queued = cop.queued
  BY <1>1 DEF SendChunk, PutChunk, WorkerGet, WorkerSend, CopyTypes, Copies
<1>4. cop.dir = "in" /\ cop.at # "left"
  BY <1>1 DEF SendChunk, PutChunk, WorkerGet, WorkerSend, CopyPhases, QueuePhases
<1> QED
  BY <1>1, <1>2, <1>3, <1>4 DEF FormatPhases

\* A chunk is put in the queue
LEMMA PutChunkStep == CopyIInv /\ PutChunk => CopyIInv'
<1> SUFFICES ASSUME CopyIInv, PutChunk PROVE CopyIInv'
  OBVIOUS
<1>1. CopyTypes /\ CopyPhases /\ QueuePhases /\ DataKept
  BY DEF CopyIInv
<1>2. /\ cop.dir = "in" /\ cop.at \in {"write", "last"} /\ UNCHANGED <<fmt, asked, worker, wire>>
      /\ FormatPhases' /\ cop.chunks # <<>> /\ cop.queued
      /\ cop'.dir = cop.dir /\ cop'.binary = cop.binary /\ cop'.queued = cop.queued
  BY WritersKeep DEF PutChunk
<1>3. PICK x : x = Head(cop.chunks)
  OBVIOUS
<1>4. PICK rest : rest = Tail(cop.chunks)
  OBVIOUS
<1>5. /\ x \in Seq(Nat) /\ x # End /\ rest \in Seq(Seq(Nat))
      /\ \A i \in 1 .. Len(rest) : rest[i] # End
  <2>1. cop.chunks \in Seq(Seq(Nat)) /\ \A i \in 1 .. Len(cop.chunks) : cop.chunks[i] # End
    BY <1>1, CopyFields DEF QueuePhases
  <2>2. PICK chunks \in Seq(Seq(Nat)) : chunks = cop.chunks /\ chunks # <<>>
    BY <1>2, <2>1
  <2>3. x = chunks[1] /\ 1 \in 1 .. Len(chunks) /\ x \in Seq(Nat)
    BY <1>3, <2>2
  <2>4. rest \in Seq(Seq(Nat)) /\ \A i \in 1 .. Len(rest) : i + 1 \in 1 .. Len(chunks)
                                                         /\ rest[i] = chunks[i + 1]
    BY <1>4, <2>2
  <2> QED
    BY <2>1, <2>2, <2>3, <2>4
<1>6. /\ cop' \in Copies /\ cop'.at = cop.at /\ cop'.chunks = rest
      /\ cop'.exc = cop.exc /\ cop'.finished = cop.finished
  <2>1. cop \in Copies /\ cop' = [cop EXCEPT !.chunks = rest]
    BY <1>1, <1>4 DEF PutChunk, CopyTypes
  <2> QED
    BY <1>5, <2>1 DEF Copies
<1>7. queue' = Append(queue, x) /\ queue \in Seq(Seq(Nat))
  BY <1>1, <1>3, CopyFields DEF PutChunk
<1>8. \A i \in 1 .. Len(queue') : queue'[i] # End
  BY <1>1, <1>2, <1>5, <1>7 DEF QueuePhases
<1>9. CopyTypes'
  BY <1>1, <1>2, <1>5, <1>6, <1>7 DEF CopyTypes
<1>10. CopyPhases'
  BY <1>1, <1>2, <1>6 DEF CopyPhases
<1>11. QueuePhases'
  BY <1>1, <1>2, <1>5, <1>6, <1>8 DEF QueuePhases
<1>12. DataKept'
  <2>1. Target' = Target /\ WrittenSoFar' = WrittenSoFar /\ Expected' = Expected /\ BothKinds' = BothKinds
    BY <1>2, <1>6 DEF Target, WrittenSoFar, Expected, BothKinds
  <2>2. CASE wire.state = "lost"
    BY <1>1, <1>2, <1>6, <2>1, <2>2 DEF DataKept
  <2>3. CASE wire.state # "lost"
    <3>1. PICK h \in Seq(Nat) : HandedOver(h) /\ WholeKept(h)
      BY <1>1, <1>2, <2>3 DEF DataKept
    <3>2. HandedOver(h)'
      <4>1. wire.got \in Seq(Nat) /\ worker.data \in Seq(Nat) /\ cop.chunks \in Seq(Seq(Nat))
        BY <1>1, CopyFields
      <4>2. HandedBy(Append(queue, Head(cop.chunks)), Tail(cop.chunks), wire.got, worker.data, h)
        BY <1>2, <1>7, <3>1, <4>1, HandedPut DEF HandedOver
      <4> QED
        BY <1>2, <1>3, <1>4, <1>6, <1>7, <4>2 DEF HandedOver
    <3>3. WholeKept(h)'
      BY <1>2, <1>6, <2>1, <3>1 DEF WholeKept
    <3> QED
      BY <1>2, <1>9, <3>2, <3>3, DataFromNext
  <2> QED
    BY <2>2, <2>3
<1> QED
  BY <1>2, <1>6, <1>9, <1>10, <1>11, <1>12 DEF CopyIInv, CopiedExactly, OutReleased

\* A chunk is sent, or the connection fails
LEMMA SendChunkStep == \A ok \in BOOLEAN : CopyIInv /\ SendChunk(ok) => CopyIInv'
<1> SUFFICES ASSUME NEW ok \in BOOLEAN, CopyIInv, SendChunk(ok) PROVE CopyIInv'
  OBVIOUS
<1>1. CopyTypes /\ CopyPhases /\ QueuePhases /\ FormatPhases /\ DataKept
  BY DEF CopyIInv
<1>2. /\ cop.dir = "in" /\ cop.at \in {"write", "last"} /\ UNCHANGED <<fmt, asked, queue, worker>>
      /\ FormatPhases' /\ cop.chunks # <<>> /\ ~cop.queued
      /\ cop'.dir = cop.dir /\ cop'.binary = cop.binary /\ cop'.queued = cop.queued
  BY WritersKeep DEF SendChunk, writeVars
<1>3. /\ cop \in Copies /\ wire \in Wires /\ cop.chunks \in Seq(Seq(Nat))
      /\ wire.got \in Seq(Nat)
  BY <1>1, CopyFields DEF CopyTypes
<1>4. /\ queue = <<>> /\ worker.state = "none" /\ worker.data = End /\ ~worker.error
      /\ wire.state = "active" /\ ~cop.exc
      /\ \A i \in 1 .. Len(cop.chunks) : cop.chunks[i] # End
  BY <1>1, <1>2 DEF CopyPhases, QueuePhases
<1>5. WrittenSoFar' = WrittenSoFar /\ Expected' = Expected /\ BothKinds' = BothKinds
  BY <1>2 DEF WrittenSoFar, Expected, BothKinds
<1>6. PICK h \in Seq(Nat) : HandedOver(h) /\ WholeKept(h)
  BY <1>1, <1>2, <1>4 DEF DataKept
<1>7. ASSUME ok PROVE CopyIInv'
  <2>1. PICK x : x = Head(cop.chunks)
    OBVIOUS
  <2>2. PICK rest : rest = Tail(cop.chunks)
    OBVIOUS
  <2>3. HandedBy(<<>>, cop.chunks, wire.got, <<>>, h)
    BY <1>4, <1>6 DEF HandedOver, End
  <2>4. /\ x \in Seq(Nat) /\ wire.got \o x \in Seq(Nat)
        /\ HandedBy(<<>>, rest, wire.got \o x, <<>>, h)
    BY <1>2, <1>3, <2>1, <2>2, <2>3, HandedChunk
  <2>5. rest \in Seq(Seq(Nat)) /\ \A i \in 1 .. Len(rest) : rest[i] # End
    BY <1>2, <1>3, <1>4, <2>2
  <2>6. /\ cop' \in Copies /\ cop'.at = cop.at /\ cop'.chunks = rest
        /\ cop'.exc = cop.exc /\ cop'.finished = cop.finished
    <3>1. cop' = [cop EXCEPT !.chunks = rest]
      BY <1>7, <2>2 DEF SendChunk
    <3> QED
      BY <1>3, <2>5, <3>1 DEF Copies
  <2>7. wire' \in Wires /\ wire'.state = wire.state /\ wire'.got = wire.got \o x
    <3>1. wire' = [wire EXCEPT !.got = wire.got \o x]
      BY <1>7, <2>1 DEF SendChunk
    <3> QED
      BY <1>3, <2>4, <3>1 DEF Wires
  <2>8. CopyTypes'
    BY <1>1, <1>2, <2>6, <2>7 DEF CopyTypes
  <2>9. CopyPhases'
    BY <1>1, <1>2, <1>4, <2>6, <2>7 DEF CopyPhases
  <2>10. QueuePhases'
    BY <1>1, <1>2, <1>4, <2>5, <2>6 DEF QueuePhases
  <2>11. HandedOver(h)'
    BY <1>2, <1>4, <2>4, <2>6, <2>7 DEF HandedOver, End
  <2>12. WholeKept(h)'
    <3>1. Target' = Target
      BY <1>5, <2>6 DEF Target
    <3> QED
      BY <1>2, <1>5, <1>6, <2>6, <3>1 DEF WholeKept
  <2>13. DataKept'
    BY <1>2, <2>8, <2>11, <2>12, DataFromNext
  <2> QED
    BY <1>2, <2>6, <2>8, <2>9, <2>10, <2>13 DEF CopyIInv, CopiedExactly, OutReleased
<1>8. ASSUME ~ok PROVE CopyIInv'
  <2>1. /\ cop' \in Copies /\ cop'.at = Raised(cop.at) /\ cop'.chunks = <<>> /\ cop'.exc
        /\ Raised(cop.at) \in {"finish", "left"}
    <3>1. cop' = [cop EXCEPT !.chunks = <<>>, !.exc = TRUE, !.at = Raised(cop.at)]
      BY <1>8 DEF SendChunk
    <3>2. Raised(cop.at) \in {"finish", "left"} /\ <<>> \in Seq(Seq(Nat))
      BY DEF Raised
    <3> QED
      BY <1>3, <3>1, <3>2 DEF Copies
  <2>2. wire' \in Wires /\ wire'.state = "lost" /\ wire'.got = wire.got
    <3>1. wire' = [wire EXCEPT !.state = "lost"]
      BY <1>8 DEF SendChunk
    <3> QED
      BY <1>3, <3>1 DEF Wires
  <2>3. CopyTypes'
    BY <1>1, <1>2, <2>1, <2>2 DEF CopyTypes
  <2>4. CopyPhases' /\ QueuePhases'
    BY <1>1, <1>2, <1>4, <2>1, <2>2 DEF CopyPhases, QueuePhases
  <2>5. ~BothKinds => Begins(wire.got, Expected)
    BY <1>1, <1>2, <1>3, SentExpected DEF DataKept
  <2>6. Target' = Expected
    BY <1>5, <2>1 DEF Target
  <2>7. DataKept'
    BY <1>5, <2>2, <2>5, <2>6 DEF DataKept
  <2> QED
    BY <1>2, <2>1, <2>2, <2>3, <2>4, <2>7 DEF CopyIInv, CopiedExactly, OutReleased
<1> QED
  BY <1>7, <1>8

\* The worker takes a chunk, or the end marker
LEMMA WorkerGetStep == CopyIInv /\ WorkerGet => CopyIInv'
<1> SUFFICES ASSUME CopyIInv, WorkerGet PROVE CopyIInv'
  OBVIOUS
<1>1. CopyTypes /\ CopyPhases /\ QueuePhases /\ DataKept
  BY DEF CopyIInv
<1>2. /\ cop.dir = "in" /\ cop.at # "left" /\ UNCHANGED <<cop, fmt, asked, wire>>
      /\ FormatPhases' /\ worker.state = "running" /\ worker.data = End /\ queue # <<>>
  BY WritersKeep DEF WorkerGet
<1>3. worker \in CopyWorkers /\ queue \in Seq(Seq(Nat)) /\ wire.got \in Seq(Nat)
  BY <1>1, CopyFields DEF CopyTypes
<1>4. PICK x : x = Head(queue)
  OBVIOUS
<1>5. PICK rest : rest = Tail(queue)
  OBVIOUS
<1>6. /\ x \in Seq(Nat) /\ rest \in Seq(Seq(Nat)) /\ queue' = rest /\ x = queue[1]
      /\ Len(queue) >= 1 /\ Len(rest) = Len(queue) - 1
      /\ \A i \in 1 .. Len(rest) : rest[i] = queue[i + 1]
  BY <1>2, <1>3, <1>4, <1>5 DEF WorkerGet
<1>7. cop.queued /\ ~worker.error /\ wire.state # "lost"
  BY <1>1, <1>2 DEF CopyPhases, QueuePhases
<1>8. x = End => rest = <<>> /\ cop.at = "join"
  <2> SUFFICES ASSUME x = End PROVE rest = <<>> /\ cop.at = "join"
    OBVIOUS
  <2>1. 1 \in 1 .. Len(queue) /\ queue[1] = End
    BY <1>6
  <2>2. 1 = Len(queue) /\ cop.at \in {"join", "left"}
    BY <1>1, <2>1 DEF QueuePhases
  <2>3. Len(rest) = 0
    <3>1. Len(queue) = 1
      BY <2>2
    <3>2. Len(rest) = Len(queue) - 1
      BY <1>6
    <3>3. 1 - 1 = 0
      OBVIOUS
    <3> QED
      BY <3>1, <3>2, <3>3
  <2> QED
    BY <1>2, <1>6, <2>2, <2>3
<1>9. /\ worker' \in CopyWorkers /\ worker'.data = x /\ ~worker'.error
      /\ worker'.state = IF x = End THEN "done" ELSE "running"
  <2>1. CASE x = End
    <3>1. worker' = [worker EXCEPT !.state = "done"]
      BY <1>4, <2>1 DEF WorkerGet
    <3> QED
      BY <1>2, <1>3, <1>7, <2>1, <3>1 DEF CopyWorkers
  <2>2. CASE x # End
    <3>1. worker' = [worker EXCEPT !.data = x]
      BY <1>4, <2>2 DEF WorkerGet
    <3> QED
      BY <1>2, <1>3, <1>6, <1>7, <2>2, <3>1 DEF CopyWorkers
  <2> QED
    BY <2>1, <2>2
<1>10. CopyTypes'
  BY <1>1, <1>2, <1>6, <1>9 DEF CopyTypes
<1>11. CopyPhases'
  BY <1>1, <1>2, <1>9 DEF CopyPhases
<1>12. \A i \in 1 .. Len(queue') : queue'[i] = End => i = Len(queue') /\ cop.at \in {"join", "left"}
  <2> SUFFICES ASSUME NEW i \in 1 .. Len(rest), rest[i] = End
               PROVE  i = Len(rest) /\ cop.at \in {"join", "left"}
    BY <1>6
  <2>1. i + 1 \in 1 .. Len(queue) /\ queue[i + 1] = End
    BY <1>6
  <2>2. i + 1 = Len(queue) /\ cop.at \in {"join", "left"}
    BY <1>1, <2>1 DEF QueuePhases
  <2> QED
    BY <1>6, <2>2
<1>13. QueuePhases'
  BY <1>1, <1>2, <1>6, <1>7, <1>8, <1>9, <1>12 DEF QueuePhases
<1>14. DataKept'
  <2>1. PICK h \in Seq(Nat) : HandedOver(h) /\ WholeKept(h)
    BY <1>1, <1>2, <1>7 DEF DataKept
  <2>2. HandedBy(rest, cop.chunks, wire.got, x, h)
    <3>1. HandedBy(queue, cop.chunks, wire.got, <<>>, h)
      BY <1>2, <2>1 DEF HandedOver, End
    <3> QED
      BY <1>2, <1>3, <1>4, <1>5, <3>1, HandedGet
  <2>3. HandedOver(h)'
    BY <1>2, <1>6, <1>9, <2>2 DEF HandedOver
  <2>4. WholeKept(h)'
    BY <1>2, <2>1 DEF WholeKept, Target, WrittenSoFar, Expected, BothKinds
  <2> QED
    BY <1>2, <1>10, <2>3, <2>4, DataFromNext
<1> QED
  BY <1>2, <1>10, <1>11, <1>13, <1>14 DEF CopyIInv, CopiedExactly, OutReleased

\* The worker sends what it took, or fails
LEMMA WorkerSendStep == \A ok \in BOOLEAN : CopyIInv /\ WorkerSend(ok) => CopyIInv'
<1> SUFFICES ASSUME NEW ok \in BOOLEAN, CopyIInv, WorkerSend(ok) PROVE CopyIInv'
  OBVIOUS
<1>1. CopyTypes /\ CopyPhases /\ QueuePhases /\ DataKept
  BY DEF CopyIInv
<1>2. /\ cop.dir = "in" /\ cop.at # "left" /\ UNCHANGED <<cop, fmt, asked, queue>>
      /\ FormatPhases' /\ worker.state = "running" /\ worker.data # End
  BY WritersKeep DEF WorkerSend
<1>3. /\ worker \in CopyWorkers /\ wire \in Wires /\ wire.got \in Seq(Nat)
      /\ worker.data \in Seq(Nat)
  BY <1>1, CopyFields DEF CopyTypes
<1>4. cop.queued /\ ~worker.error /\ wire.state = "active"
  BY <1>1, <1>2 DEF CopyPhases, QueuePhases
<1>5. Target' = Target /\ WrittenSoFar' = WrittenSoFar /\ Expected' = Expected /\ BothKinds' = BothKinds
  BY <1>2 DEF Target, WrittenSoFar, Expected, BothKinds
<1>6. ASSUME ok PROVE CopyIInv'
  <2>1. PICK h \in Seq(Nat) : HandedOver(h) /\ WholeKept(h)
    BY <1>1, <1>2, <1>4 DEF DataKept
  <2>2. PICK data \in Seq(Nat) : data = worker.data
    BY <1>3
  <2>3. /\ wire.got \o data \in Seq(Nat)
        /\ HandedBy(queue, cop.chunks, wire.got \o data, <<>>, h)
    BY <1>3, <2>1, <2>2, HandedSend DEF HandedOver
  <2>4. /\ worker' \in CopyWorkers /\ worker'.data = <<>> /\ worker'.state = "running"
        /\ ~worker'.error
    <3>1. worker' = [worker EXCEPT !.data = <<>>] /\ <<>> \in Seq(Nat)
      BY <1>6 DEF WorkerSend, End
    <3> QED
      BY <1>2, <1>3, <1>4, <3>1 DEF CopyWorkers
  <2>5. wire' \in Wires /\ wire'.got = wire.got \o data /\ wire'.state = "active"
    <3>1. wire' = [wire EXCEPT !.got = wire.got \o data]
      BY <1>6, <2>2 DEF WorkerSend
    <3> QED
      BY <1>3, <1>4, <2>3, <3>1 DEF Wires
  <2>6. CopyTypes'
    BY <1>1, <1>2, <2>4, <2>5 DEF CopyTypes
  <2>7. CopyPhases' /\ QueuePhases'
    BY <1>1, <1>2, <1>4, <2>4, <2>5 DEF CopyPhases, QueuePhases
  <2>8. HandedOver(h)' /\ WholeKept(h)'
    <3>1. HandedOver(h)'
      BY <1>2, <2>3, <2>4, <2>5 DEF HandedOver
    <3> QED
      BY <1>2, <1>5, <2>1, <3>1 DEF WholeKept
  <2>9. DataKept'
    BY <1>2, <2>6, <2>8, DataFromNext
  <2> QED
    BY <1>2, <2>6, <2>7, <2>9 DEF CopyIInv, CopiedExactly, OutReleased
<1>7. ASSUME ~ok PROVE CopyIInv'
  <2>1. worker' = [state |-> "done", data |-> End, error |-> TRUE] /\ worker' \in CopyWorkers
    <3>1. worker' = [state |-> "done", data |-> End, error |-> TRUE]
      BY <1>7 DEF WorkerSend
    <3>2. \A d \in Seq(Nat) : [state |-> "done", data |-> d, error |-> TRUE] \in CopyWorkers
      BY DEF CopyWorkers
    <3> QED
      BY <3>1, <3>2, Marks
  <2>2. wire' \in Wires /\ wire'.got = wire.got /\ wire'.state = "lost"
    <3>1. wire' = [wire EXCEPT !.state = "lost"]
      BY <1>7 DEF WorkerSend
    <3> QED
      BY <1>3, <3>1 DEF Wires
  <2>3. CopyTypes'
    BY <1>1, <1>2, <2>1, <2>2 DEF CopyTypes
  <2>4. CopyPhases' /\ QueuePhases'
    BY <1>1, <1>2, <1>4, <2>1, <2>2 DEF CopyPhases, QueuePhases
  <2>5. DataKept'
    BY <1>1, <1>2, <1>5, <2>2 DEF DataKept
  <2> QED
    BY <1>2, <2>2, <2>3, <2>4, <2>5 DEF CopyIInv, CopiedExactly, OutReleased
<1> QED
  BY <1>6, <1>7

\* write() returns
LEMMA WrittenStep == CopyIInv /\ Written => CopyIInv'
<1> SUFFICES ASSUME CopyIInv, Written PROVE CopyIInv'
  OBVIOUS
<1>1. CopyTypes /\ CopyPhases /\ QueuePhases /\ FormatPhases /\ DataKept
  BY DEF CopyIInv
<1>2. /\ cop.at \in {"write", "last"} /\ cop.chunks = <<>>
      /\ UNCHANGED <<fmt, asked, queue, worker, wire>>
  BY DEF Written, writeVars
<1>3. PICK at : at = IF cop.at = "write" THEN "block" ELSE "finish"
  OBVIOUS
<1>4. /\ cop' \in Copies /\ cop'.at = at /\ cop'.chunks = <<>> /\ cop'.exc = cop.exc
      /\ cop'.finished = cop.finished /\ cop'.dir = cop.dir /\ cop'.binary = cop.binary
      /\ cop'.queued = cop.queued
  <2>1. cop \in Copies /\ cop' = [cop EXCEPT !.at = at] /\ at \in {"block", "finish"}
    BY <1>1, <1>3 DEF Written, CopyTypes
  <2> QED
    BY <1>2, <2>1 DEF Copies
<1>5. cop.dir = "in" /\ ~cop.exc /\ (wire.state = "lost" => worker.error)
  BY <1>1, <1>2 DEF CopyPhases
<1>6. CopyTypes' /\ FormatPhases'
  BY <1>1, <1>2, <1>4 DEF CopyTypes, FormatPhases
<1>7. CopyPhases' /\ QueuePhases'
  <2>1. CopyPhases'
    BY <1>1, <1>2, <1>3, <1>4, <1>5 DEF CopyPhases
  <2>2. QueuePhases'
    BY <1>1, <1>2, <1>3, <1>4 DEF QueuePhases
  <2> QED
    BY <2>1, <2>2
<1>8. Target' = Target /\ WrittenSoFar' = WrittenSoFar /\ Expected' = Expected /\ BothKinds' = BothKinds
  BY <1>2, <1>3, <1>4 DEF Target, WrittenSoFar, Expected, BothKinds
<1>9. DataKept'
  <2>1. CASE wire.state = "lost"
    BY <1>1, <1>2, <1>5, <1>8, <2>1 DEF DataKept
  <2>2. CASE wire.state # "lost"
    <3>1. PICK h \in Seq(Nat) : HandedOver(h) /\ WholeKept(h)
      BY <1>1, <1>2, <1>5, <2>2 DEF DataKept
    <3>2. HandedOver(h)'
      BY <1>2, <1>4, <3>1 DEF HandedOver
    <3>3. WholeKept(h)'
      BY <1>2, <1>3, <1>4, <1>5, <1>8, <3>1 DEF WholeKept
    <3> QED
      BY <1>6, <3>2, <3>3, DataFromNext
  <2> QED
    BY <2>1, <2>2
<1> QED
  BY <1>3, <1>4, <1>5, <1>6, <1>7, <1>9 DEF CopyIInv, CopiedExactly, OutReleased

\* The end marker is put in the queue
LEMMA PutEndStep == CopyIInv /\ PutEnd => CopyIInv'
<1> SUFFICES ASSUME CopyIInv, PutEnd PROVE CopyIInv'
  OBVIOUS
<1>1. CopyTypes /\ CopyPhases /\ QueuePhases /\ FormatPhases /\ DataKept
  BY DEF CopyIInv
<1>2. cop.at = "finish" /\ cop.queued /\ UNCHANGED <<fmt, asked, worker, wire>>
  BY DEF PutEnd
<1>3. /\ cop' \in Copies /\ cop'.at = "join" /\ cop'.chunks = cop.chunks /\ cop'.exc = cop.exc
      /\ cop'.finished = cop.finished /\ cop'.dir = cop.dir /\ cop'.binary = cop.binary
      /\ cop'.queued = cop.queued
  <2>1. cop \in Copies /\ cop' = [cop EXCEPT !.at = "join"]
    BY <1>1 DEF PutEnd, CopyTypes
  <2> QED
    BY <2>1 DEF Copies
<1>4. queue' = Append(queue, End) /\ queue \in Seq(Seq(Nat)) /\ End \in Seq(Nat)
  BY <1>1, CopyFields, Marks DEF PutEnd
<1>5. cop.dir = "in" /\ cop.chunks = <<>> /\ \A i \in 1 .. Len(queue) : queue[i] # End
  BY <1>1, <1>2 DEF CopyPhases, QueuePhases
<1>6. CopyTypes' /\ FormatPhases'
  BY <1>1, <1>2, <1>3, <1>4 DEF CopyTypes, FormatPhases
<1>7. CopyPhases'
  BY <1>1, <1>2, <1>3, <1>5 DEF CopyPhases
<1>8. /\ \A i \in 1 .. Len(queue') : queue'[i] = End => i = Len(queue')
      /\ worker.state = "none" => \A i \in 1 .. Len(queue') : queue'[i] = End
  <2>1. Len(queue') = Len(queue) + 1 /\ queue'[Len(queue) + 1] = End
        /\ \A i \in 1 .. Len(queue) : queue'[i] = queue[i]
    BY <1>4
  <2>2. worker.state = "none" => \A i \in 1 .. Len(queue) : queue[i] = End
    BY <1>1 DEF QueuePhases
  <2>3. Len(queue) \in Nat
    BY <1>4
  <2>4. \A i \in 1 .. Len(queue') : i \in 1 .. Len(queue) \/ i = Len(queue) + 1
    BY <2>1, <2>3
  <2> QED
    BY <1>5, <2>1, <2>2, <2>4
<1>9. QueuePhases'
  BY <1>1, <1>2, <1>3, <1>5, <1>8 DEF QueuePhases
<1>10. Target' = Target /\ WrittenSoFar' = WrittenSoFar /\ Expected' = Expected /\ BothKinds' = BothKinds
  BY <1>2, <1>3 DEF Target, WrittenSoFar, Expected, BothKinds
<1>11. DataKept'
  <2>1. CASE wire.state = "lost"
    BY <1>1, <1>2, <1>3, <1>10, <2>1 DEF DataKept
  <2>2. CASE wire.state # "lost"
    <3>1. PICK h \in Seq(Nat) : HandedOver(h) /\ WholeKept(h)
      BY <1>1, <1>2, <1>5, <2>2 DEF DataKept
    <3>2. HandedBy(Append(queue, End), cop.chunks, wire.got, worker.data, h)
      BY <1>4, <3>1, HandedEnd DEF HandedOver
    <3>3. HandedOver(h)'
      BY <1>2, <1>3, <1>4, <3>2 DEF HandedOver
    <3>4. WholeKept(h)'
      BY <1>2, <1>3, <1>10, <3>1 DEF WholeKept
    <3> QED
      BY <1>6, <3>3, <3>4, DataFromNext
  <2> QED
    BY <2>1, <2>2
<1> QED
  BY <1>3, <1>5, <1>6, <1>7, <1>9, <1>11 DEF CopyIInv, CopiedExactly, OutReleased

\* Of two sequences one after the other, the elements are those of both
LEMMA RangeOfBoth == \A s, t \in Seq(Nat) : Range(s \o t) = Range(s) \cup Range(t)
<1> SUFFICES ASSUME NEW s \in Seq(Nat), NEW t \in Seq(Nat)
             PROVE  Range(s \o t) = Range(s) \cup Range(t)
  OBVIOUS
<1>1. PICK x : x = s \o t
  OBVIOUS
<1>2. PICK m, n \in Nat : m = Len(s) /\ n = Len(t)
  OBVIOUS
<1>3. /\ x \in Seq(Nat) /\ Len(x) = m + n
      /\ \A i \in 1 .. m : x[i] = s[i]
      /\ \A i \in 1 .. n : x[m + i] = t[i]
  BY <1>1, <1>2, CatElements
<1>4. DOMAIN x = 1 .. m + n /\ DOMAIN s = 1 .. m /\ DOMAIN t = 1 .. n
  BY <1>2, <1>3
<1>5. ASSUME NEW e \in Range(x) PROVE e \in Range(s) \cup Range(t)
  <2>1. PICK i \in 1 .. m + n : e = x[i]
    BY <1>4 DEF Range
  <2>2. CASE i \in 1 .. m
    BY <1>3, <1>4, <2>1, <2>2 DEF Range
  <2>3. CASE ~(i \in 1 .. m)
    <3>1. i - m \in 1 .. n /\ i = m + (i - m)
      BY <2>3
    <3>2. e = t[i - m]
      BY <1>3, <2>1, <3>1
    <3> QED
      BY <1>4, <3>1, <3>2 DEF Range
  <2> QED
    BY <2>2, <2>3
<1>6. ASSUME NEW e \in Range(s) \cup Range(t) PROVE e \in Range(x)
  <2>1. CASE e \in Range(s)
    <3>1. PICK i \in 1 .. m : e = s[i]
      BY <1>4, <2>1 DEF Range
    <3>2. i \in 1 .. m + n /\ x[i] = e
      BY <1>3, <3>1
    <3> QED
      BY <1>4, <3>2 DEF Range
  <2>2. CASE e \in Range(t)
    <3>1. PICK i \in 1 .. n : e = t[i]
      BY <1>4, <2>2 DEF Range
    <3>2. m + i \in 1 .. m + n /\ x[m + i] = e
      BY <1>3, <3>1
    <3> QED
      BY <1>4, <3>2 DEF Range
  <2> QED
    BY <2>1, <2>2
<1> QED
  BY <1>1, <1>5, <1>6

\* Only two empty sequences make an empty one
LEMMA NothingAdded == \A s, t \in Seq(Nat) : s \o t = <<>> => s = <<>> /\ t = <<>>
<1> SUFFICES ASSUME NEW s \in Seq(Nat), NEW t \in Seq(Nat), s \o t = <<>>
             PROVE  s = <<>> /\ t = <<>>
  OBVIOUS
<1>1. PICK m, n \in Nat : m = Len(s) /\ n = Len(t)
  OBVIOUS
<1>2. m + n = 0
  <2>1. Len(s \o t) = m + n
    BY <1>1, CatElements
  <2> QED
    BY <2>1
<1>3. m = 0 /\ n = 0
  BY <1>2
<1> QED
  BY <1>1, <1>3

\* What was written is handed over or in the buffer, in a block
LEMMA AskedSomewhere ==
    ASSUME CopyTypes, NEW h \in Seq(Nat), WholeKept(h), cop.at \in {"block", "write"}
    PROVE  Range(asked) \subseteq Range(h) \cup Range(fmt.buffer)
<1>1. asked \in Seq(Nat) /\ fmt.buffer \in Seq(Nat)
  BY CopyFields
<1>2. CASE ~BothKinds
  <2>1. h \o fmt.buffer = WrittenSoFar
    BY <1>2 DEF WholeKept
  <2>2. Range(WrittenSoFar) = Range(h) \cup Range(fmt.buffer)
    BY <1>1, <2>1, RangeOfBoth
  <2>3. Range(asked) \subseteq Range(WrittenSoFar)
    BY <1>1, Marks, RangeOfBoth DEF WrittenSoFar
  <2> QED
    BY <2>2, <2>3
<1> QED
  BY <1>2 DEF WholeKept

\* write() of the writer, of data d: the error of the worker is raised, or all that was
\* handed over is followed by d
WriterTakes(d, at) ==
    \/ /\ worker.error /\ cop.queued /\ cop'.at = Raised(at) /\ cop'.exc
       /\ cop'.chunks = <<>> /\ worker' = worker
    \/ /\ ~(worker.error /\ cop.queued) /\ cop'.at = at /\ ~cop'.exc
       /\ cop'.chunks = Chunks(d)
       /\ worker'.error = worker.error /\ worker'.data = worker.data
       /\ worker'.state = IF cop.queued /\ worker.state = "none" THEN "running" ELSE worker.state

\* What write() of the writer does
LEMMA WriterWriteTakes ==
    ASSUME CopyIInv, NEW d \in Seq(Nat), NEW at \in {"write", "last"}, InBlock, WriterWrite(d, at)
    PROVE  /\ cop' \in Copies /\ worker' \in CopyWorkers
           /\ cop'.dir = "in" /\ cop'.binary = cop.binary /\ cop'.queued = cop.queued
           /\ cop'.finished = cop.finished
           /\ WriterTakes(d, at)
<1>1. CopyTypes /\ CopyPhases /\ QueuePhases
  BY DEF CopyIInv
<1>2. cop \in Copies /\ worker \in CopyWorkers /\ cop.dir = "in" /\ cop.at = "block"
      /\ cop.chunks = <<>> /\ ~cop.exc
  BY <1>1 DEF CopyTypes, InBlock, QueuePhases, CopyPhases
<1>3. CASE cop.queued /\ worker.error
  <2>1. cop' = [cop EXCEPT !.at = Raised(at), !.exc = TRUE] /\ worker' = worker
        /\ Raised(at) \in {"finish", "left"}
    BY <1>3 DEF WriterWrite, Raised
  <2>2. PICK r \in {"finish", "left"} : r = Raised(at)
    BY <2>1
  <2>3. /\ cop' \in Copies
        /\ cop'.dir = "in" /\ cop'.binary = cop.binary /\ cop'.queued = cop.queued
        /\ cop'.finished = cop.finished /\ cop'.at = r /\ cop'.exc /\ cop'.chunks = <<>>
    BY <1>2, <2>1, <2>2 DEF Copies
  <2> QED
    BY <1>2, <1>3, <2>1, <2>2, <2>3 DEF WriterTakes
<1>4. CASE ~(cop.queued /\ worker.error)
  <2>1. PICK c \in Seq(Seq(Nat)) : c = Chunks(d)
    BY ChunksJoin
  <2>2. cop' = [cop EXCEPT !.at = at, !.chunks = c]
    BY <1>4, <2>1 DEF WriterWrite
  <2>3. /\ cop' \in Copies
        /\ cop'.dir = "in" /\ cop'.binary = cop.binary /\ cop'.queued = cop.queued
        /\ cop'.finished = cop.finished /\ cop'.at = at /\ ~cop'.exc /\ cop'.chunks = c
    BY <1>2, <2>2 DEF Copies
  <2>4. /\ worker' \in CopyWorkers
        /\ worker'.error = worker.error /\ worker'.data = worker.data
        /\ worker'.state = IF cop.queued /\ worker.state = "none" THEN "running" ELSE worker.state
    <3>1. worker' = IF cop.queued /\ worker.state = "none"
                    THEN [worker EXCEPT !.state = "running"] ELSE worker
      BY <1>4 DEF WriterWrite
    <3> QED
      BY <1>2, <3>1 DEF CopyWorkers
  <2> QED
    BY <1>4, <2>1, <2>3, <2>4 DEF WriterTakes
<1> QED
  BY <1>3, <1>4

\* After it, the queue and the worker are where they may be
LEMMA WriterPhases ==
    ASSUME CopyIInv, NEW d \in Seq(Nat), NEW at \in {"write", "last"}, InBlock,
           WriterTakes(d, at), cop'.dir = "in", cop'.queued = cop.queued,
           UNCHANGED <<queue, wire>>
    PROVE  CopyPhases' /\ QueuePhases' /\ wire'.state # "copied"
<1>1. CopyTypes /\ CopyPhases /\ QueuePhases
  BY DEF CopyIInv
<1>2. /\ cop.dir = "in" /\ cop.at = "block" /\ cop.chunks = <<>> /\ ~cop.exc
      /\ wire.state \in {"active", "lost"} /\ (wire.state = "lost" <=> worker.error)
      /\ \A i \in 1 .. Len(queue) : queue[i] # End
      /\ worker.state = "none" => ~worker.error /\ worker.data = End
      /\ worker.error => worker.state = "done" /\ worker.data = End
      /\ worker.state = "done" => worker.error
      /\ ~cop.queued => queue = <<>> /\ worker.state = "none"
  BY <1>1 DEF InBlock, QueuePhases, CopyPhases
<1>3. \A i \in 1 .. Len(Chunks(d)) : Chunks(d)[i] # End
  BY ChunksJoin
<1>4. worker.state \in {"none", "running", "done"} /\ worker.error \in BOOLEAN
      /\ cop.queued \in BOOLEAN
  BY <1>1, CopyFields
<1>5. CASE worker.error /\ cop.queued /\ cop'.at = Raised(at) /\ cop'.exc
           /\ cop'.chunks = <<>> /\ worker' = worker
  <2>1. cop'.at \in {"finish", "left"}
    BY <1>5 DEF Raised
  <2>2. CopyPhases'
    BY <1>2, <1>5, <2>1 DEF CopyPhases
  <2>3. QueuePhases'
    BY <1>2, <1>5, <2>1 DEF QueuePhases
  <2> QED
    BY <1>2, <2>2, <2>3
<1>6. CASE /\ ~(worker.error /\ cop.queued) /\ cop'.at = at /\ ~cop'.exc
           /\ cop'.chunks = Chunks(d)
           /\ worker'.error = worker.error /\ worker'.data = worker.data
           /\ worker'.state = IF cop.queued /\ worker.state = "none" THEN "running"
                              ELSE worker.state
  <2>1. PICK c : c = Chunks(d)
    OBVIOUS
  <2>2. \A i \in 1 .. Len(c) : c[i] # End
    BY <1>3, <2>1
  <2>3. CopyPhases'
    BY <1>2, <1>4, <1>6 DEF CopyPhases
  <2>4. QueuePhases'
    <3>1. cop'.chunks = c /\ cop'.at \in {"write", "last"}
      BY <1>6, <2>1
    <3>2. /\ cop.queued => worker'.state # "none"
          /\ ~cop.queued => worker'.state = "none"
          /\ worker'.state # "done"
      BY <1>2, <1>4, <1>6
    <3> QED
      BY <1>2, <1>4, <1>6, <2>2, <3>1, <3>2 DEF QueuePhases
  <2> QED
    BY <1>2, <2>3, <2>4
<1> QED
  BY <1>5, <1>6 DEF WriterTakes

\* A row is written
LEMMA WriteRowStep == CopyIInv /\ WriteRow => CopyIInv'
<1> SUFFICES ASSUME CopyIInv, WriteRow PROVE CopyIInv'
  OBVIOUS
<1>1. CopyTypes /\ CopyPhases /\ QueuePhases /\ FormatPhases /\ DataKept
  BY DEF CopyIInv
<1>2. /\ InBlock /\ cop.dir = "in" /\ cop.at = "block" /\ cop.chunks = <<>>
      /\ UNCHANGED <<queue, wire>>
  BY <1>1 DEF WriteRow, InBlock, QueuePhases
<1>3. /\ asked \in Seq(Nat) /\ fmt.buffer \in Seq(Nat) /\ fmt \in Formatters
      /\ cop \in Copies /\ cop.binary \in BOOLEAN /\ fmt.signature \in BOOLEAN
      /\ fmt.rows \in BOOLEAN /\ fmt.blocks \in BOOLEAN /\ cop.queued \in BOOLEAN
      /\ worker.error \in BOOLEAN /\ wire.got \in Seq(Nat) /\ cop.chunks \in Seq(Seq(Nat))
  BY <1>1, CopyFields DEF CopyTypes
<1>4. PICK mark \in Nat : mark = Len(asked) + 1
  BY <1>3
<1>5. PICK add : add = IF cop.binary /\ ~fmt.signature THEN <<Sig, mark>> ELSE <<mark>>
  OBVIOUS
<1>6. PICK buffer : buffer = fmt.buffer \o add
  OBVIOUS
<1>7. PICK large \in BOOLEAN : large <=> Len(buffer) > BufferSize
  OBVIOUS
<1>8. add \in Seq(Nat) /\ mark \in Range(add) /\ buffer \in Seq(Nat)
  <2>1. <<mark>> \in Seq(Nat) /\ <<Sig, mark>> \in Seq(Nat)
    BY Marks
  <2>2. mark \in Range(<<mark>>) /\ mark \in Range(<<Sig, mark>>)
    <3>1. <<mark>>[1] = mark /\ 1 \in DOMAIN <<mark>>
      OBVIOUS
    <3>2. <<Sig, mark>>[2] = mark /\ 2 \in DOMAIN <<Sig, mark>>
      OBVIOUS
    <3> QED
      BY <3>1, <3>2 DEF Range
  <2>3. add \in Seq(Nat) /\ mark \in Range(add)
    BY <1>5, <2>1, <2>2
  <2> QED
    BY <1>3, <1>6, <2>3, CatElements
<1>9. /\ buffer = Append(IF cop.binary /\ ~fmt.signature THEN Append(fmt.buffer, Sig)
                         ELSE fmt.buffer, mark)
  BY <1>3, <1>4, <1>5, <1>6, RowAppended, Marks
<1>10. /\ asked' = Append(asked, mark)
       /\ fmt' = [fmt EXCEPT !.rows = TRUE, !.signature = cop.binary,
                             !.buffer = IF large THEN <<>> ELSE buffer]
       /\ IF large THEN WriterWrite(buffer, "write") ELSE UNCHANGED <<cop, worker>>
  BY <1>4, <1>7, <1>9 DEF WriteRow
<1>11. /\ fmt' \in Formatters /\ fmt'.rows /\ fmt'.blocks = fmt.blocks
       /\ fmt'.signature = cop.binary
       /\ fmt'.buffer = IF large THEN <<>> ELSE buffer
  <2>1. (IF large THEN <<>> ELSE buffer) \in Seq(Nat)
    BY <1>8
  <2>2. PICK b \in Seq(Nat) : b = IF large THEN <<>> ELSE buffer
    BY <2>1
  <2> QED
    BY <1>3, <1>10, <2>2 DEF Formatters
<1>12. asked' = asked \o <<mark>> /\ asked' \in Seq(Nat) /\ <<mark>> \in Seq(Nat)
  BY <1>3, <1>10
<1>13. /\ cop' \in Copies /\ worker' \in CopyWorkers
       /\ cop'.dir = "in" /\ cop'.binary = cop.binary /\ cop'.queued = cop.queued
       /\ cop'.finished = cop.finished
       /\ IF large THEN WriterTakes(buffer, "write") ELSE UNCHANGED <<cop, worker>>
  <2>1. CASE large
    BY <1>2, <1>8, <1>10, <2>1, WriterWriteTakes
  <2>2. CASE ~large
    BY <1>1, <1>2, <1>10, <2>2 DEF CopyTypes
  <2> QED
    BY <2>1, <2>2
<1>14. CopyTypes'
  BY <1>1, <1>2, <1>11, <1>12, <1>13 DEF CopyTypes
<1>15. FormatPhases'
  BY <1>3, <1>11, <1>13 DEF FormatPhases
<1>16. CopyPhases' /\ QueuePhases' /\ wire'.state # "copied"
  <2>1. CASE large
    BY <1>2, <1>8, <1>13, <2>1, WriterPhases
  <2>2. CASE ~large
    BY <1>1, <1>2, <1>10, <1>13, <2>2 DEF CopyPhases, QueuePhases
  <2> QED
    BY <2>1, <2>2
<1>17. ~BothKinds' => ~BothKinds /\ WrittenSoFar' = WrittenSoFar \o add /\ WrittenSoFar \in Seq(Nat)
  <2> SUFFICES ASSUME ~BothKinds' PROVE ~BothKinds /\ WrittenSoFar' = WrittenSoFar \o add /\ WrittenSoFar \in Seq(Nat)
    OBVIOUS
  <2>1. ~fmt.blocks /\ ~BothKinds
    BY <1>11 DEF BothKinds
  <2>2. WrittenSoFar \in Seq(Nat)
    BY <1>1, EndingAdded
  <2>3. CASE ~cop.binary
    BY <1>5, <1>12, <1>13, <2>1, <2>2, <2>3 DEF WrittenSoFar
  <2>4. CASE cop.binary /\ ~fmt.signature
    <3>1. asked = <<>> /\ ~fmt.rows
      BY <1>1, <2>4 DEF FormatPhases
    <3>2. WrittenSoFar = <<>> /\ add = <<Sig, mark>>
      BY <1>5, <2>4, <3>1 DEF WrittenSoFar
    <3>3. asked' = <<mark>>
      BY <1>12, <3>1, CatNothing
    <3>4. WrittenSoFar' = <<Sig>> \o <<mark>>
      BY <1>11, <1>13, <2>4, <3>3 DEF WrittenSoFar
    <3>5. WrittenSoFar' = <<Sig, mark>> /\ <<>> \o <<Sig, mark>> = <<Sig, mark>>
      BY <1>8, <3>2, <3>4, Marks, PairJoined, CatNothing
    <3> QED
      BY <2>1, <2>2, <3>2, <3>5
  <2>5. CASE cop.binary /\ fmt.signature
    <3>1. fmt.rows
      BY <1>1, <2>1, <2>5 DEF FormatPhases
    <3>2. WrittenSoFar = <<Sig>> \o asked /\ WrittenSoFar' = <<Sig>> \o (asked \o <<mark>>) /\ add = <<mark>>
      BY <1>5, <1>11, <1>12, <1>13, <2>5, <3>1 DEF WrittenSoFar
    <3>3. (<<Sig>> \o asked) \o <<mark>> = <<Sig>> \o (asked \o <<mark>>)
      BY <1>3, <1>12, Marks, CatAssociative
    <3> QED
      BY <2>1, <2>2, <3>2, <3>3
  <2> QED
    BY <1>3, <2>1, <2>2, <2>3, <2>4, <2>5
<1>18. Target = WrittenSoFar
  BY <1>2 DEF Target
<1>19. ~BothKinds' => Begins(wire.got, WrittenSoFar')
  BY <1>1, <1>2, <1>3, <1>8, <1>17, <1>18, BeginsMore, Zenon DEF DataKept
<1>20. DataKept'
  <2>1. CASE large /\ worker.error /\ cop.queued
    <3>1. cop'.at = "finish" /\ wire.state = "lost"
      BY <1>1, <1>13, <2>1 DEF WriterTakes, Raised, CopyPhases
    <3>2. ~BothKinds' => Begins(wire.got, Expected')
      BY <1>3, <1>14, <1>15, <1>19, BeginsMore, EndingAddsNext
    <3>3. Target' = Expected'
      BY <3>1 DEF Target
    <3> QED
      BY <1>2, <3>1, <3>2, <3>3 DEF DataKept
  <2>2. CASE ~(large /\ worker.error /\ cop.queued)
    <3>1. cop'.at \in {"block", "write"} /\ worker'.data = worker.data
          /\ cop'.chunks = IF large THEN Chunks(buffer) ELSE <<>>
      BY <1>2, <1>13, <2>2 DEF WriterTakes
    <3>2. Target' = WrittenSoFar'
      BY <3>1 DEF Target
    <3>3. CASE wire.state = "lost"
      BY <1>2, <1>19, <3>2, <3>3 DEF DataKept
    <3>4. CASE wire.state # "lost"
      <4>1. PICK h \in Seq(Nat) : HandedOver(h) /\ WholeKept(h)
        BY <1>1, <1>2, <3>4 DEF DataKept
      <4>2. PICK k : k = IF large THEN h \o buffer ELSE h
        OBVIOUS
      <4>3. k \in Seq(Nat) /\ HandedOver(k)'
        <5>1. HandedBy(queue, <<>>, wire.got, worker.data, h)
          BY <1>2, <4>1 DEF HandedOver
        <5>2. worker.data \in Seq(Nat)
          BY <1>1, CopyFields
        <5>3. CASE large
          <6>1. h \o buffer \in Seq(Nat)
                /\ HandedBy(queue, Chunks(buffer), wire.got, worker.data, h \o buffer)
            BY <1>3, <1>8, <5>1, <5>2, HandedMore
          <6> QED
            BY <1>2, <3>1, <4>2, <5>3, <6>1 DEF HandedOver
        <5>4. CASE ~large
          BY <1>2, <3>1, <4>1, <4>2, <5>1, <5>4 DEF HandedOver
        <5> QED
          BY <5>3, <5>4
      <4>4. k \o fmt'.buffer = (h \o fmt.buffer) \o add
        <5>1. (h \o fmt.buffer) \o add = h \o (fmt.buffer \o add)
          BY <1>3, <1>8, CatAssociative
        <5>2. CASE large
          BY <1>6, <1>11, <4>2, <4>3, <5>1, <5>2, CatNothing
        <5>3. CASE ~large
          BY <1>6, <1>11, <4>2, <5>1, <5>3
        <5> QED
          BY <5>2, <5>3
      <4>5. ASSUME BothKinds' PROVE Range(asked') \subseteq Range(k) \cup Range(fmt'.buffer)
        <5>1. Range(asked) \subseteq Range(h) \cup Range(fmt.buffer)
          BY <1>1, <1>2, <4>1, AskedSomewhere
        <5>2. Range(asked') = Range(asked) \cup Range(<<mark>>)
          BY <1>3, <1>12, RangeOfBoth
        <5>3. Range(<<mark>>) = {mark}
          BY DEF Range
        <5>4. h \o fmt.buffer \in Seq(Nat) /\ fmt'.buffer \in Seq(Nat)
          BY <1>3, <1>11, CatElements DEF Formatters
        <5>5. Range(k) \cup Range(fmt'.buffer) = Range(h) \cup Range(fmt.buffer) \cup Range(add)
          <6>1. Range(k \o fmt'.buffer) = Range(k) \cup Range(fmt'.buffer)
            BY <4>3, <5>4, RangeOfBoth
          <6>2. Range((h \o fmt.buffer) \o add) = Range(h \o fmt.buffer) \cup Range(add)
            BY <1>8, <5>4, RangeOfBoth
          <6>3. Range(h \o fmt.buffer) = Range(h) \cup Range(fmt.buffer)
            BY <1>3, RangeOfBoth
          <6> QED
            BY <4>4, <6>1, <6>2, <6>3
        <5> QED
          BY <1>8, <5>1, <5>2, <5>3, <5>5
      <4>6. ASSUME ~BothKinds' PROVE k \o fmt'.buffer = WrittenSoFar'
        BY <1>2, <1>17, <4>1, <4>4, <4>6 DEF WholeKept
      <4>7. ASSUME ~BothKinds' PROVE Begins(k, Target')
        <5>1. fmt'.buffer \in Seq(Nat)
          BY <1>11 DEF Formatters
        <5> QED
          BY <3>2, <4>6, <4>7, <5>1 DEF Begins
      <4>8. WholeKept(k)'
        BY <3>1, <4>5, <4>6, <4>7 DEF WholeKept
      <4> QED
        BY <1>14, <1>15, <4>3, <4>8, DataFromNext
    <3> QED
      BY <3>3, <3>4
  <2> QED
    BY <2>1, <2>2
<1> QED
  BY <1>2, <1>13, <1>14, <1>15, <1>16, <1>20 DEF CopyIInv, CopiedExactly, OutReleased

\* A block is written
LEMMA WriteBlockStep == \A n \in 1 .. MaxCalls : CopyIInv /\ WriteBlock(n) => CopyIInv'
<1> SUFFICES ASSUME NEW n \in 1 .. MaxCalls, CopyIInv, WriteBlock(n) PROVE CopyIInv'
  OBVIOUS
<1>1. CopyTypes /\ CopyPhases /\ QueuePhases /\ FormatPhases /\ DataKept
  BY DEF CopyIInv
<1>2. /\ InBlock /\ cop.dir = "in" /\ cop.at = "block" /\ cop.chunks = <<>>
      /\ UNCHANGED <<queue, wire>>
  BY <1>1 DEF WriteBlock, InBlock, QueuePhases
<1>3. /\ asked \in Seq(Nat) /\ fmt.buffer \in Seq(Nat) /\ fmt \in Formatters
      /\ cop.binary \in BOOLEAN /\ fmt.rows \in BOOLEAN /\ fmt.blocks \in BOOLEAN
      /\ wire.got \in Seq(Nat) /\ worker.data \in Seq(Nat)
  BY <1>1, CopyFields DEF CopyTypes
<1>4. PICK data : data = [i \in 1 .. n |-> Len(asked) + i]
  OBVIOUS
<1>5. data \in Seq(Nat)
  <2>1. n \in Nat /\ Len(asked) \in Nat
    BY <1>3, CopyAssumption DEF CopyAssumption
  <2>2. \A i \in 1 .. n : Len(asked) + i \in Nat
    BY <2>1
  <2> QED
    BY <1>4, <2>1, <2>2
<1>6. /\ asked' = asked \o data
      /\ fmt' = [fmt EXCEPT !.blocks = TRUE, !.signature = TRUE]
      /\ WriterWrite(data, "write")
  BY <1>4 DEF WriteBlock
<1>7. /\ cop' \in Copies /\ worker' \in CopyWorkers
      /\ cop'.dir = "in" /\ cop'.binary = cop.binary /\ cop'.queued = cop.queued
      /\ cop'.finished = cop.finished /\ WriterTakes(data, "write")
  BY <1>2, <1>5, <1>6, WriterWriteTakes
<1>8. /\ fmt' \in Formatters /\ fmt'.rows = fmt.rows /\ fmt'.blocks /\ fmt'.signature
      /\ fmt'.buffer = fmt.buffer
  BY <1>3, <1>6 DEF Formatters
<1>9. asked' \in Seq(Nat)
  BY <1>3, <1>5, <1>6, CatElements
<1>10. CopyTypes'
  BY <1>1, <1>2, <1>7, <1>8, <1>9 DEF CopyTypes
<1>11. FormatPhases'
  BY <1>1, <1>3, <1>7, <1>8 DEF FormatPhases
<1>12. CopyPhases' /\ QueuePhases' /\ wire'.state # "copied"
  BY <1>2, <1>5, <1>7, WriterPhases
<1>13. ~BothKinds' => /\ ~BothKinds /\ fmt.buffer = <<>> /\ WrittenSoFar \in Seq(Nat)
                  /\ WrittenSoFar' = WrittenSoFar \o data
  <2> SUFFICES ASSUME ~BothKinds' PROVE /\ ~BothKinds /\ fmt.buffer = <<>> /\ WrittenSoFar \in Seq(Nat)
                                    /\ WrittenSoFar' = WrittenSoFar \o data
    OBVIOUS
  <2>1. ~fmt.rows /\ ~BothKinds /\ fmt.buffer = <<>>
    BY <1>1, <1>8 DEF BothKinds, FormatPhases
  <2> QED
    BY <1>3, <1>6, <1>8, <2>1 DEF WrittenSoFar
<1>14. Target = WrittenSoFar
  BY <1>2 DEF Target
<1>15. ~BothKinds' => Begins(wire.got, WrittenSoFar')
  BY <1>1, <1>2, <1>3, <1>5, <1>13, <1>14, BeginsMore, Zenon DEF DataKept
<1>16. DataKept'
  <2>1. CASE worker.error /\ cop.queued
    <3>1. cop'.at = "finish" /\ wire.state = "lost"
      BY <1>1, <1>7, <2>1 DEF WriterTakes, Raised, CopyPhases
    <3>2. ~BothKinds' => Begins(wire.got, Expected')
      BY <1>3, <1>10, <1>11, <1>15, BeginsMore, EndingAddsNext, Zenon
    <3>3. Target' = Expected'
      BY <3>1 DEF Target
    <3> QED
      BY <1>2, <3>1, <3>2, <3>3 DEF DataKept
  <2>2. CASE ~(worker.error /\ cop.queued)
    <3>1. cop'.at = "write" /\ worker'.data = worker.data /\ cop'.chunks = Chunks(data)
      BY <1>7, <2>2 DEF WriterTakes
    <3>2. Target' = WrittenSoFar'
      BY <3>1 DEF Target
    <3>3. CASE wire.state = "lost"
      BY <1>2, <1>15, <3>2, <3>3 DEF DataKept
    <3>4. CASE wire.state # "lost"
      <4>1. PICK h \in Seq(Nat) : HandedOver(h) /\ WholeKept(h)
        BY <1>1, <1>2, <3>4 DEF DataKept
      <4>2. PICK k : k = h \o data
        OBVIOUS
      <4>3. k \in Seq(Nat) /\ HandedOver(k)'
        <5>1. HandedBy(queue, <<>>, wire.got, worker.data, h)
          BY <1>2, <4>1 DEF HandedOver
        <5>2. h \o data \in Seq(Nat) /\ HandedBy(queue, Chunks(data), wire.got, worker.data, h \o data)
          BY <1>3, <1>5, <5>1, HandedMore
        <5> QED
          BY <1>2, <3>1, <4>2, <5>2 DEF HandedOver
      <4>4. Range(asked') \subseteq Range(k) \cup Range(fmt'.buffer)
        <5>1. Range(asked) \subseteq Range(h) \cup Range(fmt.buffer)
          BY <1>1, <1>2, <4>1, AskedSomewhere
        <5>2. Range(asked') = Range(asked) \cup Range(data) /\ Range(k) = Range(h) \cup Range(data)
          BY <1>3, <1>5, <1>6, <4>2, RangeOfBoth
        <5> QED
          BY <1>8, <5>1, <5>2
      <4>5. ASSUME ~BothKinds' PROVE k = WrittenSoFar' /\ k \o fmt'.buffer = WrittenSoFar'
        <5>1. h = WrittenSoFar
          BY <1>2, <1>13, <4>1, <4>5, CatNothing DEF WholeKept
        <5> QED
          BY <1>8, <1>13, <4>2, <4>3, <4>5, <5>1, CatNothing
      <4>6. WholeKept(k)'
        BY <3>1, <3>2, <4>3, <4>4, <4>5, BeginsSelf DEF WholeKept
      <4> QED
        BY <1>10, <1>11, <4>3, <4>6, DataFromNext
    <3> QED
      BY <3>3, <3>4
  <2> QED
    BY <2>1, <2>2
<1> QED
  BY <1>2, <1>7, <1>10, <1>11, <1>12, <1>16 DEF CopyIInv, CopiedExactly, OutReleased

\* The block ends
LEMMA ExitInStep == \A exc \in BOOLEAN : CopyIInv /\ ExitIn(exc) => CopyIInv'
<1> SUFFICES ASSUME NEW exc \in BOOLEAN, CopyIInv, ExitIn(exc) PROVE CopyIInv'
  OBVIOUS
<1>1. CopyTypes /\ CopyPhases /\ QueuePhases /\ FormatPhases /\ DataKept
  BY DEF CopyIInv
<1>2. /\ InBlock /\ cop.dir = "in" /\ cop.at = "block" /\ cop.chunks = <<>> /\ ~cop.exc
      /\ UNCHANGED <<asked, queue, wire>>
      /\ wire.state = "lost" => worker.error
  BY <1>1 DEF ExitIn, InBlock, QueuePhases, CopyPhases
<1>3. /\ asked \in Seq(Nat) /\ fmt.buffer \in Seq(Nat) /\ fmt \in Formatters
      /\ cop \in Copies /\ worker \in CopyWorkers
      /\ wire.got \in Seq(Nat) /\ worker.data \in Seq(Nat)
  BY <1>1, CopyFields DEF CopyTypes
<1>4. PICK e \in Seq(Nat) : /\ e = CopyEnding /\ CopyEnded = fmt.buffer \o e
                            /\ ~BothKinds => Expected = WrittenSoFar \o e
  BY <1>1, EndingAdded
<1>5. WrittenSoFar \in Seq(Nat) /\ Expected \in Seq(Nat) /\ fmt.buffer \o e \in Seq(Nat)
  BY <1>1, <1>3, EndingAdded, CatElements
<1>6. /\ fmt' \in Formatters /\ fmt'.rows = fmt.rows /\ fmt'.blocks = fmt.blocks
      /\ fmt'.signature = fmt.signature
      /\ fmt'.buffer = IF exc THEN fmt.buffer ELSE <<>>
  <2>1. <<>> \in Seq(Nat)
    OBVIOUS
  <2>2. fmt' = IF exc THEN fmt ELSE [fmt EXCEPT !.buffer = <<>>]
    BY DEF ExitIn
  <2> QED
    BY <1>3, <2>1, <2>2 DEF Formatters
<1>7. Target = WrittenSoFar
  BY <1>2 DEF Target
<1>8. ~BothKinds => Begins(wire.got, Expected)
  <2> SUFFICES ASSUME ~BothKinds PROVE Begins(wire.got, Expected)
    OBVIOUS
  <2>1. Begins(wire.got, WrittenSoFar)
    BY <1>1, <1>2, <1>7 DEF DataKept
  <2>2. Begins(wire.got, WrittenSoFar \o e)
    BY <1>3, <1>5, <2>1, BeginsMore
  <2> QED
    BY <1>4, <2>2
<1>9. CASE exc \/ CopyEnded = <<>>
  <2>1. cop' = [cop EXCEPT !.at = "finish", !.exc = exc] /\ worker' = worker
    BY <1>9 DEF ExitIn
  <2>2. /\ cop' \in Copies /\ cop'.at = "finish" /\ cop'.exc = exc /\ cop'.chunks = <<>>
        /\ cop'.dir = "in" /\ cop'.binary = cop.binary /\ cop'.queued = cop.queued
        /\ cop'.finished = cop.finished
    BY <1>2, <1>3, <2>1 DEF Copies
  <2>3. CopyTypes'
    BY <1>1, <1>2, <1>6, <2>1, <2>2 DEF CopyTypes
  <2>4. FormatPhases'
    BY <1>1, <1>2, <1>6, <2>2 DEF FormatPhases
  <2>5. CopyPhases' /\ QueuePhases'
    <3>1. CopyPhases'
      BY <1>1, <1>2, <2>1, <2>2 DEF CopyPhases
    <3>2. QueuePhases'
      BY <1>1, <1>2, <2>1, <2>2 DEF QueuePhases
    <3> QED
      BY <3>1, <3>2
  <2>6. Target' = Expected /\ Expected' = Expected /\ BothKinds' = BothKinds
    BY <1>2, <1>6, <2>2 DEF Target, Expected, BothKinds
  <2>7. DataKept'
    <3>1. CASE wire.state = "lost"
      BY <1>2, <1>8, <2>6, <3>1 DEF DataKept
    <3>2. CASE wire.state # "lost"
      <4>1. PICK h \in Seq(Nat) : HandedOver(h) /\ WholeKept(h)
        BY <1>1, <1>2, <3>2 DEF DataKept
      <4>2. HandedOver(h)'
        BY <1>2, <2>1, <2>2, <4>1 DEF HandedOver
      <4>3. ~BothKinds => Begins(h, Expected)
        <5> SUFFICES ASSUME ~BothKinds PROVE Begins(h, Expected)
          OBVIOUS
        <5>1. Begins(h, WrittenSoFar)
          BY <1>7, <4>1 DEF WholeKept
        <5>2. Begins(h, WrittenSoFar \o e)
          BY <1>5, <4>1, <5>1, BeginsMore
        <5> QED
          BY <1>4, <5>2
      <4>4. ASSUME ~exc PROVE IF BothKinds THEN Range(asked) \subseteq Range(h) ELSE h = Expected
        <5>1. fmt.buffer = <<>> /\ e = <<>>
          BY <1>3, <1>4, <1>9, <4>4, NothingAdded
        <5>2. Range(asked) \subseteq Range(h) \cup Range(fmt.buffer)
          BY <1>1, <1>2, <4>1, AskedSomewhere
        <5>3. Range(<<>>) = {}
          BY DEF Range
        <5>4. ~BothKinds => h = WrittenSoFar
          BY <1>2, <4>1, <5>1, CatNothing DEF WholeKept
        <5>5. ~BothKinds => Expected = WrittenSoFar
          BY <1>4, <1>5, <5>1, CatNothing
        <5> QED
          BY <5>1, <5>2, <5>3, <5>4, <5>5
      <4>5. WholeKept(h)'
        BY <1>2, <2>2, <2>6, <4>3, <4>4 DEF WholeKept
      <4> QED
        BY <2>3, <2>4, <4>2, <4>5, DataFromNext
    <3> QED
      BY <3>1, <3>2
  <2> QED
    BY <1>2, <2>2, <2>3, <2>4, <2>5, <2>7 DEF CopyIInv, CopiedExactly, OutReleased
<1>10. CASE ~(exc \/ CopyEnded = <<>>)
  <2>1. PICK d \in Seq(Nat) : d = fmt.buffer \o e /\ WriterWrite(d, "last")
    BY <1>4, <1>5, <1>10 DEF ExitIn
  <2>2. /\ cop' \in Copies /\ worker' \in CopyWorkers
        /\ cop'.dir = "in" /\ cop'.binary = cop.binary /\ cop'.queued = cop.queued
        /\ cop'.finished = cop.finished /\ WriterTakes(d, "last")
    BY <1>2, <2>1, WriterWriteTakes
  <2>3. CopyTypes'
    BY <1>1, <1>2, <1>6, <2>2 DEF CopyTypes
  <2>4. FormatPhases'
    BY <1>1, <1>2, <1>6, <1>10, <2>2 DEF FormatPhases
  <2>5. CopyPhases' /\ QueuePhases' /\ wire'.state # "copied"
    BY <1>2, <2>2, WriterPhases
  <2>6. cop'.at \in {"last", "left"}
    BY <2>2 DEF WriterTakes, Raised
  <2>7. Target' = Expected /\ Expected' = Expected /\ BothKinds' = BothKinds
    BY <1>2, <1>6, <2>2, <2>6 DEF Target, Expected, BothKinds
  <2>8. DataKept'
    <3>1. CASE wire.state = "lost"
      BY <1>2, <1>8, <2>7, <3>1 DEF DataKept
    <3>2. CASE wire.state # "lost"
      <4>1. PICK h \in Seq(Nat) : HandedOver(h) /\ WholeKept(h)
        BY <1>1, <1>2, <3>2 DEF DataKept
      <4>2. ~worker.error
        BY <1>1, <3>2 DEF CopyPhases
      <4>3. cop'.at = "last" /\ cop'.chunks = Chunks(d) /\ worker'.data = worker.data
        BY <2>2, <4>2 DEF WriterTakes
      <4>4. PICK k : k = h \o d
        OBVIOUS
      <4>5. k \in Seq(Nat) /\ HandedOver(k)'
        <5>1. HandedBy(queue, <<>>, wire.got, worker.data, h)
          BY <1>2, <4>1 DEF HandedOver
        <5>2. h \o d \in Seq(Nat) /\ HandedBy(queue, Chunks(d), wire.got, worker.data, h \o d)
          BY <1>3, <2>1, <5>1, HandedMore
        <5> QED
          BY <1>2, <4>3, <4>4, <5>2 DEF HandedOver
      <4>6. k = (h \o fmt.buffer) \o e
        BY <1>3, <2>1, <4>4, CatAssociative, Zenon, Zenon
      <4>7. BothKinds => Range(asked) \subseteq Range(k)
        <5>1. Range(asked) \subseteq Range(h) \cup Range(fmt.buffer)
          BY <1>1, <1>2, <4>1, AskedSomewhere
        <5>2. Range(k) = Range(h) \cup Range(d) /\ Range(d) = Range(fmt.buffer) \cup Range(e)
          BY <1>3, <2>1, <4>4, RangeOfBoth
        <5> QED
          BY <5>1, <5>2
      <4>8. ~BothKinds => k = Expected
        BY <1>2, <1>4, <4>1, <4>6 DEF WholeKept
      <4>9. WholeKept(k)'
        BY <1>2, <1>5, <2>7, <4>3, <4>7, <4>8, BeginsSelf DEF WholeKept
      <4> QED
        BY <2>3, <2>4, <4>5, <4>9, DataFromNext
    <3> QED
      BY <3>1, <3>2
  <2> QED
    BY <1>2, <2>2, <2>3, <2>4, <2>5, <2>8 DEF CopyIInv, CopiedExactly, OutReleased
<1> QED
  BY <1>9, <1>10

\* copy_end()
LEMMA FinishInStep == \A ok \in BOOLEAN : CopyIInv /\ FinishIn(ok) => CopyIInv'
<1> SUFFICES ASSUME NEW ok \in BOOLEAN, CopyIInv, FinishIn(ok) PROVE CopyIInv'
  OBVIOUS
<1>1. CopyTypes /\ CopyPhases /\ QueuePhases /\ FormatPhases /\ DataKept
  BY DEF CopyIInv
<1>2. /\ cop.dir = "in" /\ Joined /\ cop.at \in {"finish", "join"}
      /\ UNCHANGED <<fmt, asked, queue, worker>>
  BY DEF FinishIn, Joined, writeVars
<1>3. /\ cop \in Copies /\ wire \in Wires /\ wire.got \in Seq(Nat)
      /\ queue \in Seq(Seq(Nat)) /\ worker.state \in {"none", "running", "done"}
  BY <1>1, CopyFields DEF CopyTypes
<1>4. cop.chunks = <<>> /\ worker.state # "running" /\ worker.data = End
  BY <1>1, <1>2, <1>3 DEF QueuePhases, Joined
<1>5. /\ cop' \in Copies /\ cop'.at = "left" /\ cop'.chunks = <<>> /\ cop'.dir = "in"
      /\ cop'.binary = cop.binary /\ cop'.queued = cop.queued
  <2>1. PICK f \in BOOLEAN : f = ~worker.error
    BY <1>1, CopyFields
  <2>2. cop' = [cop EXCEPT !.at = "left", !.finished = f]
    BY <2>1 DEF FinishIn
  <2> QED
    BY <1>2, <1>3, <1>4, <2>2 DEF Copies
<1>6. /\ wire' \in Wires /\ wire'.got = wire.got
      /\ wire'.state = "copied" => ~worker.error /\ wire.state # "lost" /\ ~cop.exc
      /\ worker.error => wire'.state = "lost"
  <2>1. wire.state \in {"active", "lost"} /\ (worker.error => wire.state = "lost")
    BY <1>1, <1>2 DEF CopyPhases
  <2>2. CASE worker.error \/ wire.state = "lost"
    <3>1. wire' = wire
      BY <2>2 DEF FinishIn
    <3> QED
      BY <1>3, <2>1, <2>2, <3>1
  <2>3. CASE ~(worker.error \/ wire.state = "lost") /\ cop.exc
    <3>1. wire' = [wire EXCEPT !.state = "aborted"]
      BY <2>3 DEF FinishIn
    <3> QED
      BY <1>3, <2>3, <3>1 DEF Wires
  <2>4. CASE ~(worker.error \/ wire.state = "lost") /\ ~cop.exc
    <3>1. PICK st \in {"copied", "lost"} : st = IF ok THEN "copied" ELSE "lost"
      OBVIOUS
    <3>2. wire' = [wire EXCEPT !.state = st]
      BY <2>4, <3>1 DEF FinishIn
    <3> QED
      BY <1>3, <2>4, <3>2 DEF Wires
  <2> QED
    BY <2>2, <2>3, <2>4
<1>7. CopyTypes' /\ FormatPhases'
  BY <1>1, <1>2, <1>5, <1>6 DEF CopyTypes, FormatPhases
<1>8. CopyPhases' /\ QueuePhases'
  <2>1. CopyPhases'
    BY <1>1, <1>2, <1>5, <1>6 DEF CopyPhases
  <2>2. worker.state = "done" => worker.error \/ queue = <<>>
    BY <1>1 DEF QueuePhases
  <2>3. QueuePhases'
    BY <1>1, <1>2, <1>4, <1>5, <2>2 DEF QueuePhases
  <2> QED
    BY <2>1, <2>3
<1>9. Expected' = Expected /\ BothKinds' = BothKinds /\ Target' = Target
  BY <1>2, <1>5 DEF Expected, BothKinds, Target
<1>10. DataKept'
  BY <1>1, <1>2, <1>5, <1>6, <1>9 DEF DataKept
<1>11. CopiedExactly'
  <2> SUFFICES ASSUME wire'.state = "copied"
               PROVE  IF BothKinds THEN Range(asked) \subseteq Range(wire.got)
                      ELSE wire.got = Expected
    BY <1>2, <1>6, <1>9 DEF CopiedExactly, BothKinds
  <2>1. ~worker.error /\ wire.state # "lost" /\ ~cop.exc
    BY <1>6
  <2>2. PICK h \in Seq(Nat) : HandedOver(h) /\ WholeKept(h)
    BY <1>1, <1>2, <2>1 DEF DataKept
  <2>3. IF BothKinds THEN Range(asked) \subseteq Range(h) ELSE h = Expected
    BY <1>2, <2>1, <2>2 DEF WholeKept
  <2>4. queue = <<>> \/ queue = <<End>>
    <3>1. worker.state = "done" => queue = <<>>
      BY <1>1, <2>1 DEF QueuePhases
    <3>2. ASSUME worker.state = "none", queue # <<>> PROVE queue = <<End>>
      <4>1. PICK n \in Nat : n = Len(queue) /\ n >= 1
        BY <1>3, <3>2
      <4>2. 1 \in 1 .. Len(queue)
        BY <4>1
      <4>3. queue[1] = End
        BY <1>1, <3>2, <4>2 DEF QueuePhases
      <4>4. 1 = Len(queue)
        BY <1>1, <4>2, <4>3 DEF QueuePhases
      <4> QED
        BY <1>3, <4>3, <4>4
    <3> QED
      BY <1>3, <1>4, <3>1, <3>2
  <2>5. PICK arrived \in Seq(Nat) : arrived = wire.got
    BY <1>3
  <2>6. HandedBy(queue, <<>>, arrived, <<>>, h)
    BY <1>4, <2>2, <2>5 DEF HandedOver, End
  <2>7. h = arrived
    BY <2>4, <2>6, HandedAll
  <2> QED
    BY <2>3, <2>5, <2>7
<1> QED
  BY <1>5, <1>7, <1>8, <1>10, <1>11 DEF CopyIInv, OutReleased

\* The steps of a COPY TO
LEMMA CopyOutStep ==
    CopyIInv /\ (ReadRow \/ ReadFailed \/ (\E exc \in BOOLEAN : ExitOut(exc))) => CopyIInv'
<1> SUFFICES ASSUME CopyIInv, ReadRow \/ ReadFailed \/ (\E exc \in BOOLEAN : ExitOut(exc))
             PROVE  CopyIInv'
  OBVIOUS
<1>1. CopyTypes /\ CopyPhases /\ QueuePhases /\ FormatPhases
      /\ (cop.dir = "out" /\ cop.finished => wire.state # "active")
  BY DEF CopyIInv
<1>2. /\ cop.dir = "out" /\ cop.at = "block" /\ UNCHANGED <<fmt, asked, queue, worker>>
      /\ cop \in Copies /\ wire \in Wires /\ wire.got \in Seq(Nat) /\ wire.left \in Nat
      /\ cop.chunks = <<>> /\ worker.state = "none"
  BY <1>1, CopyFields DEF ReadRow, ReadFailed, ExitOut, OutBlock, writeVars, CopyTypes, CopyPhases
<1>3. /\ cop' \in Copies /\ cop'.dir = "out" /\ cop'.at \in {"block", "left"}
      /\ cop'.chunks = <<>> /\ cop'.binary = cop.binary /\ cop'.queued = cop.queued
      /\ wire' \in Wires
      /\ cop'.finished => wire'.state # "active"
      /\ cop'.at = "left" /\ cop'.exc => wire'.state # "active"
  <2>1. CASE ReadRow
    <3>1. CASE wire.left > 0
      <4>1. cop' = cop /\ ~cop.finished
        BY <2>1, <3>1 DEF ReadRow
      <4>2. PICK l \in Nat : l = wire.left - 1
        BY <1>2, <3>1
      <4>3. PICK g \in Seq(Nat) : g = Append(wire.got, Len(wire.got) + 1)
        <5>1. \A s \in Seq(Nat) : Len(s) + 1 \in Nat /\ Append(s, Len(s) + 1) \in Seq(Nat)
          OBVIOUS
        <5> QED
          BY <1>2, <5>1
      <4>4. wire' = [wire EXCEPT !.left = l, !.got = g]
        BY <2>1, <3>1, <4>2, <4>3 DEF ReadRow
      <4>5. wire' \in Wires
        BY <1>2, <4>4 DEF Wires
      <4> QED
        BY <1>2, <4>1, <4>5
    <3>2. CASE ~(wire.left > 0)
      <4>1. wire' = [wire EXCEPT !.state = "copied"] /\ cop' = [cop EXCEPT !.finished = TRUE]
        BY <2>1, <3>2 DEF ReadRow
      <4> QED
        BY <1>2, <4>1 DEF Wires, Copies
    <3> QED
      BY <3>1, <3>2
  <2>2. CASE ReadFailed
    <3>1. /\ wire' = [wire EXCEPT !.state = "aborted"]
          /\ cop' = [cop EXCEPT !.at = "left", !.exc = TRUE]
      BY <2>2 DEF ReadFailed
    <3> QED
      BY <1>2, <3>1 DEF Wires, Copies
  <2>3. ASSUME NEW exc \in BOOLEAN, ExitOut(exc)
        PROVE  /\ cop' \in Copies /\ cop'.dir = "out" /\ cop'.at \in {"block", "left"}
               /\ cop'.chunks = <<>> /\ cop'.binary = cop.binary /\ cop'.queued = cop.queued
               /\ wire' \in Wires
               /\ cop'.finished => wire'.state # "active"
               /\ cop'.at = "left" /\ cop'.exc => wire'.state # "active"
    <3>1. cop' = [cop EXCEPT !.at = "left", !.exc = exc]
      BY <2>3 DEF ExitOut
    <3>2. /\ cop' \in Copies /\ cop'.dir = "out" /\ cop'.at = "left"
          /\ cop'.chunks = <<>> /\ cop'.binary = cop.binary /\ cop'.queued = cop.queued
          /\ cop'.finished = cop.finished /\ cop'.exc = exc
      BY <1>2, <3>1 DEF Copies
    <3>3. CASE exc /\ wire.state = "active"
      <4>1. wire' = [wire EXCEPT !.state = "aborted"]
        BY <2>3, <3>3 DEF ExitOut
      <4>2. wire' \in Wires /\ wire'.state = "aborted"
        BY <1>2, <4>1 DEF Wires
      <4> QED
        BY <3>2, <4>2
    <3>4. CASE ~(exc /\ wire.state = "active")
      <4>1. wire' = wire
        BY <2>3, <3>4 DEF ExitOut
      <4> QED
        BY <1>1, <1>2, <3>2, <3>4, <4>1
    <3> QED
      BY <3>3, <3>4
  <2> QED
    BY <2>1, <2>2, <2>3
<1>4. CopyTypes' /\ FormatPhases'
  BY <1>1, <1>2, <1>3 DEF CopyTypes, FormatPhases
<1>5. CopyPhases' /\ QueuePhases'
  <2>1. ~worker.error
    BY <1>1, <1>2 DEF QueuePhases
  <2>2. CopyPhases'
    BY <1>1, <1>2, <1>3, <2>1 DEF CopyPhases
  <2>3. QueuePhases'
    BY <1>1, <1>2, <1>3 DEF QueuePhases, CopyPhases
  <2> QED
    BY <2>2, <2>3
<1> QED
  BY <1>3, <1>4, <1>5 DEF CopyIInv, DataKept, CopiedExactly, OutReleased

\* Every step of a copy keeps the invariant
LEMMA CopyStep == CopyIInv /\ [CopyNext]_copyVars => CopyIInv'
<1> SUFFICES ASSUME CopyIInv, [CopyNext]_copyVars PROVE CopyIInv'
  OBVIOUS
<1>1. CASE UNCHANGED copyVars
  <2>1. UNCHANGED <<cop, fmt, asked, queue, worker, wire>>
    BY <1>1 DEF copyVars
  <2>2. CopyTypes' /\ CopyPhases' /\ QueuePhases' /\ FormatPhases'
    BY <2>1 DEF CopyIInv, CopyTypes, CopyPhases, QueuePhases, FormatPhases
  <2>3. DataKept'
    BY <2>1 DEF CopyIInv, DataKept, HandedOver, WholeKept, Target, WrittenSoFar, Expected, BothKinds
  <2> QED
    BY <2>1, <2>2, <2>3 DEF CopyIInv, CopiedExactly, OutReleased, Expected
<1>2. CASE \E dir \in {"in", "out"}, binary, queued \in BOOLEAN, rows \in 0 .. MaxRows :
              StartCopy(dir, binary, queued, rows)
  BY <1>2, StartCopyStep
<1>3. CASE WriteRow
  BY <1>3, WriteRowStep
<1>4. CASE \E n \in 1 .. MaxCalls : WriteBlock(n)
  BY <1>4, WriteBlockStep
<1>5. CASE \E exc \in BOOLEAN : ExitIn(exc)
  BY <1>5, ExitInStep
<1>6. CASE ReadRow \/ ReadFailed \/ (\E exc \in BOOLEAN : ExitOut(exc))
  BY <1>6, CopyOutStep
<1>7. CASE \E ok \in BOOLEAN : SendChunk(ok)
  BY <1>7, SendChunkStep
<1>8. CASE \E ok \in BOOLEAN : FinishIn(ok)
  BY <1>8, FinishInStep
<1>9. CASE PutChunk
  BY <1>9, PutChunkStep
<1>10. CASE Written
  BY <1>10, WrittenStep
<1>11. CASE PutEnd
  BY <1>11, PutEndStep
<1>12. CASE WorkerGet
  BY <1>12, WorkerGetStep
<1>13. CASE \E ok \in BOOLEAN : WorkerSend(ok)
  BY <1>13, WorkerSendStep
<1> QED
  BY <1>1, <1>2, <1>3, <1>4, <1>5, <1>6, <1>7, <1>8, <1>9, <1>10, <1>11, <1>12, <1>13
     DEF CopyNext, Producer, Consumer

(***************************************************************************)
(* A COPY FROM that succeeds has sent what the program wrote, each piece   *)
(* once and in order between the marks of the format, whatever the sizes   *)
(* of the buffers and of the queue; one that fails has sent a part of it,  *)
(* from its beginning; a COPY TO left by an exception, or at its end, does *)
(* not keep the connection busy (_copy.py, _copy_base.py).                 *)
(***************************************************************************)
THEOREM CopyCorrect == CopySpec => []CopyFaithful
<1>1. CopyInit => CopyIInv
  BY CopyInitIInv
<1>2. CopyIInv /\ [CopyNext]_copyVars => CopyIInv'
  BY CopyStep
<1>3. CopyIInv => CopyFaithful
  BY CopyImplied
<1>4. CopySpec => CopyInit /\ [][CopyNext]_copyVars
  BY PTL DEF CopySpec
<1> QED
  BY <1>1, <1>2, <1>3, <1>4, PTL

-----------------------------------------------------------------------------
(***************************************************************************)
(* The inductive invariant of Pq, per process: of its memory, its objects  *)
(* and the calls its threads are in.                                       *)
(***************************************************************************)
ObjectKinds == {"conn", "result", "cancel", "cancelconn", "buffer"}
CellKinds == {"none", "args", "lent"} \cup ObjectKinds
Cells == [kind : CellKinds, frees : Nat]
PqObjects == {NoObj} \cup [kind : ObjectKinds, ptr : 0 .. MaxCells, pid : Procs]
PqCalls == {Idle} \cup [row : AllCalls, ptr : 0 .. MaxCells, args : 0 .. MaxCells,
                        raced : BOOLEAN]

PqTypes ==
    /\ pqBuild \in {"python", "c"}
    /\ mem \in [Procs -> [Slots -> Cells]]
    /\ objs \in [Procs -> [ObjSlots -> PqObjects]]
    /\ running \in [Actors -> PqCalls]
    /\ forked \in BOOLEAN

\* A pointer is in one object, and its memory is of the object's kind, not freed.
Owned(cells, objects) ==
    /\ \A o \in ObjSlots :
        objects[o].ptr # Null => cells[objects[o].ptr] = Cell(objects[o].kind)
    /\ \A o1, o2 \in ObjSlots :
        objects[o1].ptr # Null /\ objects[o1].ptr = objects[o2].ptr => o1 = o2

CallsIn(p, calls) == {a \in Actors : calls[a] # Idle /\ ProcOf(a) = p}

\* The arrays of arguments are of one call.
ArraysHeld(p, cells, calls) ==
    /\ \A a \in CallsIn(p, calls) :
        calls[a].args # Null => cells[calls[a].args] = Cell("args")
    /\ \A a, b \in CallsIn(p, calls) :
        calls[a].args # Null /\ calls[a].args = calls[b].args => a = b

\* The pointer a call was given is still in an object, unless it was overtaken,
\* and a function that cannot stand NULL was given one.
PointersHeld(p, objects, calls) ==
    \A a \in CallsIn(p, calls) :
        /\ calls[a].row.strict => calls[a].ptr # Null
        /\ calls[a].ptr # Null /\ ~calls[a].raced =>
            \E o \in ObjSlots : objects[o].ptr = calls[a].ptr

\* Memory that nobody has is freed, and once.
NoneLeaked(p, cells, objects, calls) ==
    \A i \in Slots :
        /\ cells[i].frees <= 1
        /\ cells[i] # NoCell /\ cells[i].frees = 0 =>
            \/ \E o \in ObjSlots : objects[o].ptr = i
            \/ \E a \in CallsIn(p, calls) : calls[a].args = i

Sound(p, cells, objects, calls) ==
    /\ Owned(cells, objects)
    /\ ArraysHeld(p, cells, calls)
    /\ PointersHeld(p, objects, calls)
    /\ NoneLeaked(p, cells, objects, calls)

PqIInv ==
    /\ PqTypes
    /\ \A p \in Procs : Sound(p, mem[p], objs[p], running)
    /\ ~forked => running["c1"] = Idle
    /\ NoBadPointer /\ SessionKept

-----------------------------------------------------------------------------
(* The types *)

CallRow == [on : {"any", "conn", "result", "cancel", "cancelconn"}, checked : BOOLEAN,
            gives : {"none", "temp", "lost", "empty"} \cup ObjectKinds, args : BOOLEAN,
            strict : BOOLEAN, notices : BOOLEAN]

\* What the calls are: a function that cannot stand NULL is on an object whose
\* pointer is tested.
LEMMA RowsKnown ==
    \A row \in AllCalls : row \in CallRow /\ (row.strict => row.checked /\ row.on # "any")
<1> USE DEF ObjectKinds, CallRow, Row
<1> DEFINE names ==
                {"property", "server_info", "conninfo", "status", "info",
                  "exec", "exec_params", "exec_prepared", "describe",
                  "get_result", "flush", "cancel_conn", "get_cancel",
                  "notifies", "get_copy_data", "encrypt_password",
                  "change_password", "make_empty_result", "pipeline",
                  "escape", "result", "start", "poll", "cancel"}
<1>d. DOMAIN Calls = names
  BY DEF Calls
<1>a. /\ {Property, ServerInfo, ConninfoCall, Status, Info, Exec, ExecParams, ExecPrepared,
            Describe, GetResult, FlushCall, CancelConn, GetCancel, NotifiesCall, GetCopyData,
            EncryptPassword, ChangePassword, MakeEmptyResult, PipelineCalls, Escape,
            ResultCall, CancelStart, CancelPoll, Cancel} \subseteq CallRow
      /\ FlushCall.checked /\ FlushCall.on # "any" /\ CancelPoll.checked /\ CancelPoll.on # "any"
  BY DEF Property, ServerInfo, ConninfoCall, Status, Info, Exec,
         ExecParams, ExecPrepared, Describe, GetResult, FlushCall, CancelConn, GetCancel,
         NotifiesCall, GetCopyData, EncryptPassword, ChangePassword, MakeEmptyResult,
         PipelineCalls, Escape, ResultCall, CancelStart, CancelPoll, Cancel
<1>b. /\ {PropertyC, ServerInfoC, ConninfoCallC, StatusC, InfoC, ExecC, ExecParamsC, ExecPreparedC,
            DescribeC, GetResultC, FlushC, CancelConnC, GetCopyDataC, ChangePasswordC,
            PipelineCallsC, EscapeC, ResultCallC, CancelCallC} \subseteq CallRow
      /\ FlushC.checked /\ FlushC.on # "any" /\ CancelCallC.checked /\ CancelCallC.on # "any"
  BY DEF PropertyC, ServerInfoC, ConninfoCallC, StatusC, InfoC,
         ExecC, ExecParamsC, ExecPreparedC, DescribeC, GetResultC, FlushC, CancelConnC,
         GetCopyDataC, ChangePasswordC, PipelineCallsC, EscapeC, ResultCallC, CancelCallC
<1> HIDE DEF CallRow, Row
<1>e. Calls \in [names -> CallRow] /\ Calls["flush"] = FlushCall /\ Calls["poll"] = CancelPoll
  <2>1. \A f \in names : Calls[f] \in CallRow
    BY <1>a DEF Calls
  <2>2. Calls = [f \in names |-> Calls[f]]
    BY DEF Calls
  <2>3. Calls["flush"] = FlushCall /\ Calls["poll"] = CancelPoll
    BY DEF Calls
  <2> HIDE DEF names
  <2> QED
    BY <2>1, <2>2, <2>3
<1>f. CallsC \in [names -> CallRow] /\ CallsC["flush"] = FlushC /\ CallsC["poll"] = CancelCallC
  BY <1>e, <1>b DEF CallsC
<1>3. ASSUME NEW f \in names
      PROVE  CallOf(f) \in CallRow
             /\ (CallOf(f).strict => CallOf(f).checked /\ CallOf(f).on # "any")
  <2>1. PICK given \in CallRow :
            /\ given = IF pqBuild = "python" THEN Calls[f] ELSE CallsC[f]
            /\ f \in Intolerant => given.checked /\ given.on # "any"
    <3>1. f \in Intolerant => f = "flush" \/ f = "poll"
      BY DEF Intolerant
    <3> QED
      BY <3>1, <1>e, <1>f, <1>a, <1>b
  <2>2. CallOf(f) = [given EXCEPT !.strict = f \in Intolerant, !.notices = f \in Noticing]
    BY <2>1 DEF CallOf
  <2> HIDE DEF names
  <2>3. \A s, n \in BOOLEAN : \A row :
            row = [given EXCEPT !.strict = s, !.notices = n] =>
                row \in CallRow /\ row.strict = s /\ row.checked = given.checked /\ row.on = given.on
    BY DEF CallRow
  <2>4. (f \in Intolerant) \in BOOLEAN /\ (f \in Noticing) \in BOOLEAN
    OBVIOUS
  <2>5. CallOf(f) \in CallRow /\ CallOf(f).strict = (f \in Intolerant)
        /\ CallOf(f).checked = given.checked /\ CallOf(f).on = given.on
    BY <2>2, <2>3, <2>4, Zenon
  <2> QED
    BY <2>1, <2>5
<1> HIDE DEF names
<1> QED
  BY <1>3, <1>d DEF AllCalls

\* A call in course is not Idle
LEMMA CallNotIdle ==
    \A row, ptr, args, raced :
        [row |-> row, ptr |-> ptr, args |-> args, raced |-> raced] # Idle
<1> SUFFICES ASSUME NEW row, NEW ptr, NEW args, NEW raced,
                    [row |-> row, ptr |-> ptr, args |-> args, raced |-> raced] = Idle
             PROVE  FALSE
  OBVIOUS
<1>1. DOMAIN Idle = {"row"}
  BY DEF Idle
<1>2. "ptr" \in DOMAIN [row |-> row, ptr |-> ptr, args |-> args, raced |-> raced]
  OBVIOUS
<1> QED
  BY <1>1, <1>2

-----------------------------------------------------------------------------
(* One process *)

Typed(cells, objects, calls) ==
    /\ cells \in [Slots -> Cells]
    /\ objects \in [ObjSlots -> PqObjects]
    /\ calls \in [Actors -> PqCalls]

\* The fields of what is typed
LEMMA PqFields ==
    ASSUME NEW cells, NEW objects, NEW calls, Typed(cells, objects, calls)
    PROVE  /\ \A i \in Slots : cells[i] \in Cells /\ cells[i].frees \in Nat
           /\ \A o \in ObjSlots :
                /\ objects[o] \in PqObjects
                /\ objects[o].ptr \in 0 .. MaxCells
                /\ objects[o].ptr # Null => objects[o].ptr \in Slots
                                            /\ objects[o].kind \in ObjectKinds
           /\ \A a \in Actors : calls[a] # Idle =>
                /\ calls[a].row \in AllCalls /\ calls[a].raced \in BOOLEAN
                /\ calls[a].ptr \in 0 .. MaxCells /\ calls[a].args \in 0 .. MaxCells
                /\ calls[a].ptr # Null => calls[a].ptr \in Slots
                /\ calls[a].args # Null => calls[a].args \in Slots
<1>1. \A n \in 0 .. MaxCells : n # Null => n \in Slots
  BY PqAssumption DEF Null, Slots
<1>2. \A o \in PqObjects : o.ptr \in 0 .. MaxCells /\ (o.ptr # Null => o.kind \in ObjectKinds)
  BY PqAssumption DEF PqObjects, NoObj, Null
<1>3. \A c \in PqCalls : c # Idle =>
        /\ c.row \in AllCalls /\ c.raced \in BOOLEAN
        /\ c.ptr \in 0 .. MaxCells /\ c.args \in 0 .. MaxCells
  BY DEF PqCalls
<1>4. \A c \in Cells : c.frees \in Nat
  BY DEF Cells
<1> QED
  BY <1>1, <1>2, <1>3, <1>4 DEF Typed

\* What is freed and unknown may be forgotten
LEMMA TidySound ==
    ASSUME NEW p \in Procs, NEW cells, NEW objects, NEW calls,
           Typed(cells, objects, calls), Sound(p, cells, objects, calls)
    PROVE  LET tidy == Tidy(p, cells, objects, calls)
           IN  Typed(tidy, objects, calls) /\ Sound(p, tidy, objects, calls)
<1> DEFINE tidy == Tidy(p, cells, objects, calls)
<1>0. NoCell \in Cells /\ NoCell.frees = 0 /\ \A k : Cell(k).frees = 0
  BY DEF NoCell, Cell, Cells, CellKinds
<1>1. \A i \in Slots : tidy[i] = cells[i] \/ (cells[i].frees = 1 /\ tidy[i] = NoCell)
  BY DEF Tidy
<1>2. tidy \in [Slots -> Cells]
  BY <1>0, PqFields DEF Tidy
<1> HIDE DEF tidy
<1>3. Typed(tidy, objects, calls)
  BY <1>2 DEF Typed
<1>4. Owned(tidy, objects)
  BY <1>0, <1>1, PqFields DEF Sound, Owned
<1>5. ArraysHeld(p, tidy, calls)
  <2>1. \A a \in CallsIn(p, calls) : calls[a].args # Null => calls[a].args \in Slots
    BY PqFields DEF CallsIn
  <2> QED
    BY <2>1, <1>0, <1>1 DEF Sound, ArraysHeld
<1>6. NoneLeaked(p, tidy, objects, calls)
  BY <1>0, <1>1, PqFields DEF Sound, NoneLeaked
<1> QED
  BY <1>3, <1>4, <1>5, <1>6 DEF Sound, tidy

\* A process is not touched by the calls of the other
LEMMA OtherSound ==
    ASSUME NEW p, NEW cells, NEW objects, NEW calls, NEW after,
           Sound(p, cells, objects, calls),
           \A a \in Actors : ProcOf(a) = p => after[a] = calls[a]
    PROVE  Sound(p, cells, objects, after)
<1>1. CallsIn(p, after) = CallsIn(p, calls)
  BY DEF CallsIn
<1>2. \A a \in CallsIn(p, calls) : after[a] = calls[a]
  BY DEF CallsIn
<1>3. ArraysHeld(p, cells, after)
  BY <1>1, <1>2 DEF Sound, ArraysHeld
<1>4. PointersHeld(p, objects, after)
  BY <1>1, <1>2 DEF Sound, PointersHeld
<1>5. NoneLeaked(p, cells, objects, after)
  BY <1>1, <1>2 DEF Sound, NoneLeaked
<1> QED
  BY <1>3, <1>4, <1>5 DEF Sound

\* New memory comes with an object that owns it
LEMMA GivenSound ==
    ASSUME NEW p \in Procs, NEW cells, NEW objects, NEW calls,
           Typed(cells, objects, calls), Sound(p, cells, objects, calls),
           NEW i \in Slots, cells[i] = NoCell,
           NEW o \in ObjSlots, objects[o] = NoObj,
           NEW kind \in ObjectKinds, NEW pid \in Procs
    PROVE  LET given == [cells EXCEPT ![i] = Cell(kind)]
               held == [objects EXCEPT ![o] = Object(kind, i, pid)]
           IN  Typed(given, held, calls) /\ Sound(p, given, held, calls)
<1> DEFINE given == [cells EXCEPT ![i] = Cell(kind)]
           held == [objects EXCEPT ![o] = Object(kind, i, pid)]
<1>1. Cell(kind) \in Cells /\ Cell(kind).frees = 0 /\ NoCell.frees = 0 /\ NoCell.kind = "none"
  BY DEF Cell, Cells, CellKinds, NoCell
<1>2. /\ Object(kind, i, pid) \in PqObjects /\ Object(kind, i, pid).ptr = i
      /\ Object(kind, i, pid).kind = kind /\ i # Null
  BY PqAssumption DEF Object, PqObjects, Slots, Null
<1>3. /\ \A j \in Slots : given[j] = IF j = i THEN Cell(kind) ELSE cells[j]
      /\ \A q \in ObjSlots : held[q] = IF q = o THEN Object(kind, i, pid) ELSE objects[q]
  BY DEF Typed
<1>4. Typed(given, held, calls)
  BY <1>1, <1>2 DEF Typed
<1> HIDE DEF given, held
<1>5. objects[o].ptr = Null /\ \A k : k # "none" => Cell(k) # NoCell
  BY DEF NoObj, Cell, NoCell, Null
<1>6. \A q \in ObjSlots : objects[q].ptr # Null => objects[q].ptr # i /\ objects[q].ptr \in Slots
  BY <1>5, PqFields DEF Sound, Owned, ObjectKinds
<1>7. \A a \in CallsIn(p, calls) :
        calls[a].args # Null => calls[a].args # i /\ calls[a].args \in Slots
  BY <1>5, PqFields DEF Sound, ArraysHeld, CallsIn
<1>8. Owned(given, held)
  BY <1>2, <1>3, <1>6 DEF Sound, Owned
<1>9. ArraysHeld(p, given, calls)
  BY <1>3, <1>7 DEF Sound, ArraysHeld
<1>10. PointersHeld(p, held, calls)
  <2>1. ASSUME NEW q \in ObjSlots, objects[q].ptr # Null PROVE held[q] = objects[q]
    BY <1>3, <1>5, <2>1
  <2> QED
    BY <2>1 DEF Sound, PointersHeld
<1>11. NoneLeaked(p, given, held, calls)
  <2>1. ASSUME NEW q \in ObjSlots, objects[q].ptr # Null PROVE held[q] = objects[q]
    BY <1>3, <1>5, <2>1
  <2>2. \A j \in Slots : j # Null
    BY PqAssumption DEF Slots, Null
  <2> QED
    BY <1>1, <1>2, <1>3, <2>1, <2>2 DEF Sound, NoneLeaked
<1> QED
  BY <1>4, <1>8, <1>9, <1>10, <1>11 DEF Sound, given, held

\* What Freed() does to each piece of memory
LEMMA FreedCells ==
    ASSUME NEW cells \in [Slots -> Cells], NEW i \in 0 .. MaxCells
    PROVE  /\ Freed(cells, i) \in [Slots -> Cells]
           /\ \A j \in Slots : j # i => Freed(cells, i)[j] = cells[j]
           /\ i # Null => Freed(cells, i)[i].frees = cells[i].frees + 1
<1>1. CASE i = Null
  BY <1>1 DEF Freed
<1>2. CASE i # Null
  <2>1. i \in Slots
    BY <1>2, PqAssumption DEF Slots, Null
  <2>2. Freed(cells, i) = [cells EXCEPT ![i] = [cells[i] EXCEPT !.frees = cells[i].frees + 1]]
    BY <1>2 DEF Freed
  <2>3. [cells[i] EXCEPT !.frees = cells[i].frees + 1] \in Cells
        /\ [cells[i] EXCEPT !.frees = cells[i].frees + 1].frees = cells[i].frees + 1
    BY <2>1 DEF Cells
  <2> QED
    BY <1>2, <2>1, <2>2, <2>3
<1> QED
  BY <1>1, <1>2

\* The calls of process p that are overtaken by the release of i
LateCalls(p, calls, i) ==
    [a \in Actors |->
        IF calls[a] # Idle /\ ProcOf(a) = p /\ calls[a].ptr = i /\ i # Null
        THEN [calls[a] EXCEPT !.raced = TRUE]
        ELSE calls[a]]

\* Only the mark is changed
LEMMA LateFields ==
    ASSUME NEW p \in Procs, NEW calls \in [Actors -> PqCalls], NEW i
    PROVE  LET late == LateCalls(p, calls, i)
           IN  /\ late \in [Actors -> PqCalls]
               /\ \A a \in Actors :
                    /\ late[a] = Idle <=> calls[a] = Idle
                    /\ ProcOf(a) # p => late[a] = calls[a]
                    /\ calls[a] # Idle =>
                        /\ late[a].row = calls[a].row /\ late[a].ptr = calls[a].ptr
                        /\ late[a].args = calls[a].args
                        /\ calls[a].raced => late[a].raced
                        /\ ProcOf(a) = p /\ calls[a].ptr = i /\ i # Null => late[a].raced
<1> DEFINE late == LateCalls(p, calls, i)
<1>1. ASSUME NEW c \in PqCalls, c # Idle
      PROVE  LET marked == [c EXCEPT !.raced = TRUE]
             IN  /\ marked \in PqCalls /\ marked # Idle
                 /\ marked.row = c.row /\ marked.ptr = c.ptr /\ marked.args = c.args
                 /\ marked.raced
  <2>1. c \in [row : AllCalls, ptr : 0 .. MaxCells, args : 0 .. MaxCells, raced : BOOLEAN]
    BY <1>1 DEF PqCalls
  <2> DEFINE marked == [c EXCEPT !.raced = TRUE]
  <2>2. /\ marked \in [row : AllCalls, ptr : 0 .. MaxCells, args : 0 .. MaxCells, raced : BOOLEAN]
        /\ marked.row = c.row /\ marked.ptr = c.ptr /\ marked.args = c.args /\ marked.raced
    BY <2>1
  <2> HIDE DEF marked
  <2>3. marked = [row |-> marked.row, ptr |-> marked.ptr, args |-> marked.args,
                  raced |-> marked.raced]
    BY <2>2
  <2>4. marked # Idle
    BY <2>3, CallNotIdle
  <2> QED
    BY <2>2, <2>4 DEF PqCalls, marked
<1>2. ASSUME NEW a \in Actors
      PROVE  /\ late[a] \in PqCalls
             /\ late[a] = Idle <=> calls[a] = Idle
             /\ ProcOf(a) # p => late[a] = calls[a]
             /\ calls[a] # Idle =>
                /\ late[a].row = calls[a].row /\ late[a].ptr = calls[a].ptr
                /\ late[a].args = calls[a].args
                /\ calls[a].raced => late[a].raced
                /\ ProcOf(a) = p /\ calls[a].ptr = i /\ i # Null => late[a].raced
  <2>1. late[a] = IF calls[a] # Idle /\ ProcOf(a) = p /\ calls[a].ptr = i /\ i # Null
                  THEN [calls[a] EXCEPT !.raced = TRUE] ELSE calls[a]
    BY DEF LateCalls
  <2>2. calls[a] \in PqCalls
    OBVIOUS
  <2> HIDE DEF late
  <2> QED
    BY <2>1, <2>2, <1>1
<1>3. late = [a \in Actors |-> late[a]]
  BY DEF LateCalls
<1> HIDE DEF late
<1>4. late \in [Actors -> PqCalls]
  BY <1>2, <1>3
<1> QED
  BY <1>2, <1>4 DEF late

\* An object gives up its pointer: the memory is freed, and what is in a call
\* with it is overtaken
LEMMA ReleasedSound ==
    ASSUME NEW p \in Procs, NEW cells, NEW objects, NEW calls,
           Typed(cells, objects, calls), Sound(p, cells, objects, calls),
           NEW o \in ObjSlots, NEW left \in PqObjects, left.ptr = Null
    PROVE  LET freed == Freed(cells, objects[o].ptr)
               kept == [objects EXCEPT ![o] = left]
               late == LateCalls(p, calls, objects[o].ptr)
           IN  Typed(freed, kept, late) /\ Sound(p, freed, kept, late)
<1> DEFINE i == objects[o].ptr
           freed == Freed(cells, i)
           kept == [objects EXCEPT ![o] = left]
           late == LateCalls(p, calls, i)
<1>1. i \in 0 .. MaxCells /\ cells \in [Slots -> Cells] /\ calls \in [Actors -> PqCalls]
  BY PqFields DEF Typed
<1>2. /\ freed \in [Slots -> Cells]
      /\ \A j \in Slots : j # i => freed[j] = cells[j]
      /\ i # Null => freed[i].frees = cells[i].frees + 1
  BY <1>1, FreedCells
<1>3. /\ late \in [Actors -> PqCalls]
      /\ \A a \in Actors :
            /\ late[a] = Idle <=> calls[a] = Idle
            /\ calls[a] # Idle =>
                /\ late[a].row = calls[a].row /\ late[a].ptr = calls[a].ptr
                /\ late[a].args = calls[a].args
                /\ calls[a].raced => late[a].raced
                /\ ProcOf(a) = p /\ calls[a].ptr = i /\ i # Null => late[a].raced
  BY <1>1, LateFields
<1>4. \A q \in ObjSlots : kept[q] = IF q = o THEN left ELSE objects[q]
  BY DEF Typed
<1>5. Typed(freed, kept, late)
  BY <1>2, <1>3 DEF Typed
<1>6. i # Null => i \in Slots /\ cells[i] = Cell(objects[o].kind) /\ cells[i].frees = 0
                  /\ objects[o].kind \in ObjectKinds
  <2>1. i # Null => i \in Slots /\ objects[o].kind \in ObjectKinds
    BY PqFields
  <2>2. i # Null => cells[i] = Cell(objects[o].kind)
    BY DEF Sound, Owned
  <2>3. Cell(objects[o].kind).frees = 0
    BY DEF Cell
  <2> QED
    BY <2>1, <2>2, <2>3
<1> HIDE DEF i, freed, kept, late
<1>7. CallsIn(p, late) = CallsIn(p, calls)
  BY <1>3 DEF CallsIn
<1>8. \A a \in CallsIn(p, calls) :
        /\ late[a].row = calls[a].row /\ late[a].ptr = calls[a].ptr
        /\ late[a].args = calls[a].args
        /\ calls[a].raced => late[a].raced
        /\ calls[a].ptr = i /\ i # Null => late[a].raced
        /\ calls[a].args # Null => calls[a].args \in Slots
        /\ calls[a].raced \in BOOLEAN /\ late[a].raced \in BOOLEAN
  <2>1. \A a \in Actors : late[a] # Idle => late[a].raced \in BOOLEAN
    BY <1>5, PqFields
  <2>2. \A a \in CallsIn(p, calls) : calls[a].args # Null => calls[a].args \in Slots
    BY PqFields DEF CallsIn
  <2>3. \A a \in CallsIn(p, calls) : calls[a].raced \in BOOLEAN
    BY PqFields DEF CallsIn
  <2> QED
    BY <1>3, <2>1, <2>2, <2>3 DEF CallsIn
<1>9. Owned(freed, kept)
  <2>1. \A q \in ObjSlots : kept[q].ptr # Null =>
            q # o /\ kept[q] = objects[q] /\ kept[q].ptr # i /\ kept[q].ptr \in Slots
    BY <1>4, PqFields DEF Sound, Owned, i
  <2> QED
    BY <1>2, <2>1 DEF Sound, Owned
<1>10. ArraysHeld(p, freed, late)
  <2>1. \A a \in CallsIn(p, calls) : calls[a].args # Null => calls[a].args # i
    BY <1>6 DEF Sound, ArraysHeld, Cell, ObjectKinds
  <2> QED
    BY <1>2, <1>7, <1>8, <2>1 DEF Sound, ArraysHeld
<1>11. PointersHeld(p, kept, late)
  <2> SUFFICES ASSUME NEW a \in CallsIn(p, calls)
               PROVE  /\ late[a].row.strict => late[a].ptr # Null
                      /\ late[a].ptr # Null /\ ~late[a].raced =>
                            \E q \in ObjSlots : kept[q].ptr = late[a].ptr
    BY <1>7 DEF PointersHeld
  <2>1. late[a].row.strict => late[a].ptr # Null
    BY <1>8 DEF Sound, PointersHeld
  <2>2. ASSUME late[a].ptr # Null, ~late[a].raced
        PROVE  \E q \in ObjSlots : kept[q].ptr = late[a].ptr
    <3>1. calls[a].ptr # Null /\ ~calls[a].raced /\ calls[a].ptr # i
      BY <1>8, <2>2
    <3>2. PICK q \in ObjSlots : objects[q].ptr = calls[a].ptr
      BY <3>1 DEF Sound, PointersHeld
    <3>3. q # o
      BY <3>1, <3>2 DEF i
    <3> QED
      BY <1>4, <1>8, <3>2, <3>3
  <2> QED
    BY <2>1, <2>2
<1>12. NoneLeaked(p, freed, kept, late)
  <2> SUFFICES ASSUME NEW j \in Slots
               PROVE  /\ freed[j].frees <= 1
                      /\ freed[j] # NoCell /\ freed[j].frees = 0 =>
                            \/ \E q \in ObjSlots : kept[q].ptr = j
                            \/ \E a \in CallsIn(p, late) : late[a].args = j
    BY DEF NoneLeaked
  <2>1. CASE j = i
    <3>1. i # Null
      BY <2>1, PqAssumption DEF Slots, Null
    <3> QED
      BY <1>2, <1>6, <2>1, <3>1
  <2>2. CASE j # i
    <3>1. freed[j] = cells[j]
      BY <1>2, <2>2
    <3>2. \A q \in ObjSlots : objects[q].ptr = j => kept[q].ptr = j
      BY <1>4, <2>2 DEF i
    <3>3. \A a \in CallsIn(p, calls) : calls[a].args = j => late[a].args = j
      BY <1>8
    <3> QED
      BY <1>7, <3>1, <3>2, <3>3 DEF Sound, NoneLeaked
  <2> QED
    BY <2>1, <2>2
<1> QED
  BY <1>5, <1>9, <1>10, <1>11, <1>12 DEF Sound, i, freed, kept, late

\* A call begins, with arrays of arguments or without
LEMMA EnteredSound ==
    ASSUME NEW p \in Procs, NEW cells, NEW objects, NEW calls,
           Typed(cells, objects, calls), Sound(p, cells, objects, calls),
           NEW a \in Actors, ProcOf(a) = p, calls[a] = Idle,
           NEW call \in PqCalls, call # Idle, ~call.raced,
           call.row.strict => call.ptr # Null,
           call.ptr # Null => \E o \in ObjSlots : objects[o].ptr = call.ptr,
           call.args # Null => cells[call.args] = NoCell
    PROVE  LET given == IF call.args = Null THEN cells
                        ELSE [cells EXCEPT ![call.args] = Cell("args")]
               after == [calls EXCEPT ![a] = call]
           IN  Typed(given, objects, after) /\ Sound(p, given, objects, after)
<1> DEFINE given == IF call.args = Null THEN cells
                    ELSE [cells EXCEPT ![call.args] = Cell("args")]
           after == [calls EXCEPT ![a] = call]
<1>1. /\ Cell("args") \in Cells /\ Cell("args") # NoCell /\ Cell("args").frees = 0
      /\ \A k \in ObjectKinds : Cell(k) # Cell("args") /\ Cell(k) # NoCell
  BY DEF Cell, Cells, CellKinds, NoCell, ObjectKinds
<1>2. \A b \in Actors : after[b] = IF b = a THEN call ELSE calls[b]
  BY DEF Typed
<1>3. after \in [Actors -> PqCalls]
  BY DEF Typed
<1>4. call.args # Null => call.args \in Slots
  BY PqAssumption DEF PqCalls, Slots, Null
<1>5. /\ given \in [Slots -> Cells]
      /\ \A j \in Slots : given[j] = IF j = call.args THEN Cell("args") ELSE cells[j]
  <2>1. CASE call.args = Null
    BY <2>1, PqAssumption DEF Typed, Slots, Null
  <2>2. CASE call.args # Null
    BY <2>2, <1>1, <1>4 DEF Typed
  <2> QED
    BY <2>1, <2>2
<1>6. Typed(given, objects, after)
  BY <1>3, <1>5 DEF Typed
<1> HIDE DEF given, after
<1>7. CallsIn(p, after) \subseteq CallsIn(p, calls) \cup {a} /\ a \notin CallsIn(p, calls)
      /\ CallsIn(p, calls) \subseteq CallsIn(p, after)
  BY <1>2 DEF CallsIn
<1>8. \A b \in CallsIn(p, calls) : after[b] = calls[b]
  BY <1>2, <1>7 DEF CallsIn
<1>9. Owned(given, objects)
  <2>1. \A o \in ObjSlots : objects[o].ptr # Null =>
            objects[o].ptr \in Slots /\ objects[o].ptr # call.args
    BY <1>1, PqFields DEF Sound, Owned
  <2> QED
    BY <1>5, <2>1 DEF Sound, Owned
<1>10. ArraysHeld(p, given, after)
  <2>1. \A b \in CallsIn(p, calls) : calls[b].args # Null =>
            calls[b].args \in Slots /\ calls[b].args # call.args
    BY <1>1, PqFields DEF Sound, ArraysHeld, CallsIn
  <2>2. \A b \in CallsIn(p, after) : after[b].args # Null => given[after[b].args] = Cell("args")
    BY <1>2, <1>4, <1>5, <1>7, <1>8, <2>1 DEF Sound, ArraysHeld
  <2>3. \A b, c \in CallsIn(p, after) :
            after[b].args # Null /\ after[b].args = after[c].args => b = c
    BY <1>2, <1>7, <1>8, <2>1 DEF Sound, ArraysHeld
  <2> QED
    BY <2>2, <2>3 DEF ArraysHeld
<1>11. PointersHeld(p, objects, after)
  BY <1>2, <1>7, <1>8 DEF Sound, PointersHeld
<1>12. NoneLeaked(p, given, objects, after)
  <2> SUFFICES ASSUME NEW j \in Slots
               PROVE  /\ given[j].frees <= 1
                      /\ given[j] # NoCell /\ given[j].frees = 0 =>
                            \/ \E q \in ObjSlots : objects[q].ptr = j
                            \/ \E b \in CallsIn(p, after) : after[b].args = j
    BY DEF NoneLeaked
  <2>0. \A b \in CallsIn(p, calls) : b \in CallsIn(p, after) /\ after[b].args = calls[b].args
    BY <1>7, <1>8
  <2>1. CASE j = call.args
    <3>1. a \in CallsIn(p, after) /\ after[a].args = j
      BY <1>2, <2>1 DEF CallsIn
    <3> QED
      BY <1>1, <1>5, <2>1, <3>1
  <2>2. CASE j # call.args
    BY <1>5, <2>0, <2>2 DEF Sound, NoneLeaked
  <2> QED
    BY <2>1, <2>2
<1> QED
  BY <1>6, <1>9, <1>10, <1>11, <1>12 DEF Sound, given, after

\* A call returns, and its arrays of arguments are freed
LEMMA ReturnedSound ==
    ASSUME NEW p \in Procs, NEW cells, NEW objects, NEW calls,
           Typed(cells, objects, calls), Sound(p, cells, objects, calls),
           NEW a \in Actors, ProcOf(a) = p, calls[a] # Idle
    PROVE  LET freed == Freed(cells, calls[a].args)
               after == [calls EXCEPT ![a] = Idle]
           IN  /\ Typed(freed, objects, after) /\ Sound(p, freed, objects, after)
               /\ \A i \in Slots : cells[i] = NoCell => freed[i] = NoCell
<1> DEFINE args == calls[a].args
           freed == Freed(cells, args)
           after == [calls EXCEPT ![a] = Idle]
<1>1. args \in 0 .. MaxCells /\ (args # Null => args \in Slots)
  BY PqFields
<1>2. /\ freed \in [Slots -> Cells]
      /\ \A j \in Slots : j # args => freed[j] = cells[j]
      /\ args # Null => freed[args].frees = cells[args].frees + 1
  BY <1>1, FreedCells DEF Typed
<1>3. \A b \in Actors : after[b] = IF b = a THEN Idle ELSE calls[b]
  BY DEF Typed
<1>4. Typed(freed, objects, after)
  BY <1>2 DEF Typed, PqCalls
<1>5. args # Null => cells[args] = Cell("args")
  BY DEF Sound, ArraysHeld, CallsIn
<1> HIDE DEF freed, after
<1>6. CallsIn(p, after) = CallsIn(p, calls) \ {a}
  BY <1>3 DEF CallsIn
<1>7. \A b \in CallsIn(p, after) : after[b] = calls[b]
  BY <1>3, <1>6 DEF CallsIn
<1>8. Cell("args").frees = 0 /\ Cell("args") # NoCell
      /\ \A k \in ObjectKinds : Cell(k) # Cell("args")
  BY DEF Cell, NoCell, ObjectKinds
<1>9. Owned(freed, objects)
  <2>1. \A o \in ObjSlots : objects[o].ptr # Null =>
            objects[o].ptr \in Slots /\ objects[o].ptr # args
    BY <1>5, <1>8, PqFields DEF Sound, Owned
  <2> QED
    BY <1>2, <2>1 DEF Sound, Owned
<1>10. ArraysHeld(p, freed, after)
  <2>1. \A b \in CallsIn(p, after) :
            calls[b].args # Null => calls[b].args # args /\ calls[b].args \in Slots
    <3>1. a \in CallsIn(p, calls)
      BY DEF CallsIn
    <3>2. \A b \in CallsIn(p, after) :
            calls[b].args # Null => calls[b].args # args
      BY <1>6, <3>1 DEF Sound, ArraysHeld
    <3>3. \A b \in CallsIn(p, after) : calls[b].args # Null => calls[b].args \in Slots
      BY <1>6, PqFields DEF CallsIn
    <3> QED
      BY <3>2, <3>3
  <2> QED
    BY <1>2, <1>6, <1>7, <2>1 DEF Sound, ArraysHeld
<1>11. PointersHeld(p, objects, after)
  BY <1>6, <1>7 DEF Sound, PointersHeld
<1>12. NoneLeaked(p, freed, objects, after)
  <2> SUFFICES ASSUME NEW j \in Slots
               PROVE  /\ freed[j].frees <= 1
                      /\ freed[j] # NoCell /\ freed[j].frees = 0 =>
                            \/ \E q \in ObjSlots : objects[q].ptr = j
                            \/ \E b \in CallsIn(p, after) : after[b].args = j
    BY DEF NoneLeaked
  <2>1. CASE j = args
    <3>1. args # Null
      BY <2>1, PqAssumption DEF Slots, Null
    <3> QED
      BY <1>2, <1>5, <1>8, <2>1, <3>1
  <2>2. CASE j # args
    <3>1. \A b \in CallsIn(p, calls) :
            calls[b].args = j => b \in CallsIn(p, after) /\ after[b].args = j
      BY <1>6, <1>7, <2>2
    <3> QED
      BY <1>2, <2>2, <3>1 DEF Sound, NoneLeaked
  <2> QED
    BY <2>1, <2>2
<1>13. \A i \in Slots : cells[i] = NoCell => freed[i] = NoCell
  BY <1>2, <1>5, <1>8, PqAssumption DEF Slots, Null
<1> QED
  BY <1>4, <1>9, <1>10, <1>11, <1>12, <1>13 DEF Sound, freed, after

\* A result is lent for the time of a notice: the wrapper that is left has no
\* pointer, and libpq frees the memory
LEMMA LentSound ==
    ASSUME NEW p \in Procs, NEW cells, NEW objects, NEW calls,
           Typed(cells, objects, calls), Sound(p, cells, objects, calls),
           NEW i \in Slots, cells[i] = NoCell,
           NEW o \in ObjSlots, objects[o] = NoObj
    PROVE  LET lent == [cells EXCEPT ![i] = [kind |-> "lent", frees |-> 1]]
               held == [objects EXCEPT ![o] = Object("result", Null, p)]
           IN  Typed(lent, held, calls) /\ Sound(p, lent, held, calls)
<1> DEFINE cell == [kind |-> "lent", frees |-> 1]
           lent == [cells EXCEPT ![i] = cell]
           held == [objects EXCEPT ![o] = Object("result", Null, p)]
<1>1. cell \in Cells /\ cell.frees = 1 /\ \A k : k # "none" => Cell(k) # NoCell
  BY DEF Cells, CellKinds, Cell, NoCell
<1>2. Object("result", Null, p) \in PqObjects /\ Object("result", Null, p).ptr = Null
      /\ NoObj.ptr = Null
  BY PqAssumption DEF Object, PqObjects, ObjectKinds, Null, NoObj
<1>3. /\ \A j \in Slots : lent[j] = IF j = i THEN cell ELSE cells[j]
      /\ \A q \in ObjSlots : held[q] = IF q = o THEN Object("result", Null, p) ELSE objects[q]
  BY DEF Typed
<1>4. Typed(lent, held, calls)
  BY <1>1, <1>2 DEF Typed
<1> HIDE DEF cell, lent, held
<1>5. \A q \in ObjSlots : objects[q].ptr # Null =>
        /\ objects[q].ptr # i /\ objects[q].ptr \in Slots
        /\ held[q] = objects[q]
  BY <1>1, <1>2, <1>3, PqFields DEF Sound, Owned, ObjectKinds
<1>6. \A a \in CallsIn(p, calls) :
        calls[a].args # Null => calls[a].args # i /\ calls[a].args \in Slots
  BY <1>1, PqFields DEF Sound, ArraysHeld, CallsIn
<1>7. \A q \in ObjSlots : held[q].ptr # Null => held[q] = objects[q]
  BY <1>2, <1>3
<1>8. Owned(lent, held)
  BY <1>3, <1>5, <1>7 DEF Sound, Owned
<1>9. ArraysHeld(p, lent, calls)
  BY <1>3, <1>6 DEF Sound, ArraysHeld
<1>10. PointersHeld(p, held, calls)
  BY <1>5 DEF Sound, PointersHeld
<1>11. NoneLeaked(p, lent, held, calls)
  <2>1. \A j \in Slots : j # Null
    BY PqAssumption DEF Slots, Null
  <2> QED
    BY <1>1, <1>3, <1>5, <2>1 DEF Sound, NoneLeaked
<1> QED
  BY <1>4, <1>8, <1>9, <1>10, <1>11 DEF Sound, cell, lent, held

\* The copy of a parent's connection goes in the child with its memory
LEMMA DroppedSound ==
    ASSUME NEW p \in Procs, NEW cells, NEW objects, NEW calls,
           Typed(cells, objects, calls), Sound(p, cells, objects, calls),
           NEW o \in ObjSlots,
           \A a \in CallsIn(p, calls) : calls[a].ptr # objects[o].ptr
    PROVE  LET dropped == IF objects[o].ptr = Null THEN cells
                          ELSE [cells EXCEPT ![objects[o].ptr] = NoCell]
               kept == [objects EXCEPT ![o] = NoObj]
           IN  Typed(dropped, kept, calls) /\ Sound(p, dropped, kept, calls)
<1> DEFINE i == objects[o].ptr
           dropped == IF i = Null THEN cells ELSE [cells EXCEPT ![i] = NoCell]
           kept == [objects EXCEPT ![o] = NoObj]
<1>1. NoCell \in Cells /\ NoCell.frees = 0 /\ NoObj \in PqObjects /\ NoObj.ptr = Null
      /\ \A k \in ObjectKinds : Cell(k) # Cell("args")
  BY DEF NoCell, Cells, CellKinds, NoObj, PqObjects, Null, Cell, ObjectKinds
<1>2. i # Null => i \in Slots /\ objects[o].kind \in ObjectKinds
  BY PqFields
<1>3. /\ dropped \in [Slots -> Cells]
      /\ \A j \in Slots : dropped[j] = IF j = i THEN NoCell ELSE cells[j]
  <2>1. CASE i = Null
    BY <2>1, PqAssumption DEF Typed, Slots, Null
  <2>2. CASE i # Null
    BY <2>2, <1>1, <1>2 DEF Typed
  <2> QED
    BY <2>1, <2>2
<1>4. \A q \in ObjSlots : kept[q] = IF q = o THEN NoObj ELSE objects[q]
  BY DEF Typed
<1>5. Typed(dropped, kept, calls)
  BY <1>1, <1>3 DEF Typed
<1>6. i # Null => cells[i] = Cell(objects[o].kind)
  BY DEF Sound, Owned
<1>7. \A q \in ObjSlots : q # o /\ objects[q].ptr # Null => objects[q].ptr # i
  BY DEF Sound, Owned
<1>8. \A q \in ObjSlots : objects[q].ptr # Null => objects[q].ptr \in Slots
  BY PqFields
<1>9. \A a \in CallsIn(p, calls) : calls[a].ptr # i
  OBVIOUS
<1>10. \A q \in ObjSlots : objects[q].ptr # i => kept[q] = objects[q]
  BY <1>4
<1> HIDE DEF i, dropped, kept
<1>11. Owned(dropped, kept)
  <2>1. \A q \in ObjSlots : kept[q].ptr # Null =>
            q # o /\ kept[q] = objects[q] /\ kept[q].ptr # i /\ kept[q].ptr \in Slots
    BY <1>1, <1>4, <1>7, <1>8
  <2> QED
    BY <1>3, <2>1 DEF Sound, Owned
<1>12. ArraysHeld(p, dropped, calls)
  <2>1. \A a \in CallsIn(p, calls) : calls[a].args # Null =>
            calls[a].args # i /\ calls[a].args \in Slots
    BY <1>1, <1>2, <1>6, PqFields DEF Sound, ArraysHeld, CallsIn
  <2> QED
    BY <1>3, <2>1 DEF Sound, ArraysHeld
<1>13. PointersHeld(p, kept, calls)
  BY <1>9, <1>10 DEF Sound, PointersHeld
<1>14. NoneLeaked(p, dropped, kept, calls)
  BY <1>1, <1>3, <1>10 DEF Sound, NoneLeaked
<1> QED
  BY <1>5, <1>11, <1>12, <1>13, <1>14 DEF Sound, i, dropped, kept

-----------------------------------------------------------------------------
(* The steps *)

\* What the calls are does not change
LEMMA SameCalls ==
    ASSUME pqBuild' = pqBuild
    PROVE  AllCalls' = AllCalls /\ PqCalls' = PqCalls
<1>1. AllCalls' = AllCalls
  BY DEF AllCalls, CallOf
<1> QED
  BY <1>1 DEF PqCalls

\* The types in terms of the processes
LEMMA PqTyped ==
    ASSUME PqTypes
    PROVE  \A p \in Procs : Typed(mem[p], objs[p], running)
BY DEF PqTypes, Typed

\* A step of one process
LEMMA OwnStep ==
    ASSUME PqTypes, \A q \in Procs : Sound(q, mem[q], objs[q], running),
           pqBuild' = pqBuild, forked' \in BOOLEAN,
           NEW p \in Procs, NEW cells, NEW objects,
           mem' = [mem EXCEPT ![p] = cells], objs' = [objs EXCEPT ![p] = objects],
           Typed(cells, objects, running'), Sound(p, cells, objects, running'),
           \A a \in Actors : ProcOf(a) # p => running'[a] = running[a]
    PROVE  PqTypes' /\ \A q \in Procs : Sound(q, mem[q], objs[q], running)'
<1>1. /\ \A q \in Procs : mem'[q] = IF q = p THEN cells ELSE mem[q]
      /\ \A q \in Procs : objs'[q] = IF q = p THEN objects ELSE objs[q]
  BY DEF PqTypes
<1>2. ASSUME NEW q \in Procs PROVE Sound(q, mem[q], objs[q], running)'
  <2>1. CASE q = p
    BY <1>1, <2>1
  <2>2. CASE q # p
    <3>1. Sound(q, mem[q], objs[q], running')
      BY <2>2, OtherSound
    <3> QED
      BY <1>1, <2>2, <3>1
  <2> QED
    BY <2>1, <2>2
<1>3. PqTypes'
  <2>1. mem' \in [Procs -> [Slots -> Cells]]
    BY <1>1 DEF PqTypes, Typed
  <2>2. objs' \in [Procs -> [ObjSlots -> PqObjects]]
    BY <1>1 DEF PqTypes, Typed
  <2>3. running' \in [Actors -> PqCalls']
    BY SameCalls DEF Typed
  <2> QED
    BY <2>1, <2>2, <2>3 DEF PqTypes
<1> QED
  BY <1>2, <1>3

\* Where there is room there is a slot of each kind
LEMMA RoomSlots ==
    ASSUME NEW p, Room(p)
    PROVE  /\ NewPtr(p) \in Slots /\ mem[p][NewPtr(p)] = NoCell
           /\ NewObj(p) \in ObjSlots /\ objs[p][NewObj(p)] = NoObj
<1>1. NewPtr(p) \in Slots /\ mem[p][NewPtr(p)] = NoCell
  BY DEF Room, NewPtr
<1>2. NewObj(p) \in ObjSlots /\ objs[p][NewObj(p)] = NoObj
  BY DEF Room, NewObj
<1> QED
  BY <1>1, <1>2

\* Each thread is in a process
LEMMA ProcKnown == \A a \in Actors : ProcOf(a) \in Procs
BY DEF ProcOf, Actors, Procs

\* A connection is made
LEMMA PgConnectStep ==
    ASSUME PqIInv, NEW a \in Actors, PgConnect(a)
    PROVE  PqIInv'
<1> DEFINE p == ProcOf(a)
           cells == [mem[p] EXCEPT ![NewPtr(p)] = Cell("conn")]
           objects == [objs[p] EXCEPT ![NewObj(p)] = Object("conn", NewPtr(p), p)]
<1>1. p \in Procs /\ PqTypes /\ (\A q \in Procs : Sound(q, mem[q], objs[q], running))
      /\ forked \in BOOLEAN
  BY ProcKnown DEF PqIInv, PqTypes
<1>2. Room(p)
  BY DEF PgConnect
<1>3. /\ NewPtr(p) \in Slots /\ mem[p][NewPtr(p)] = NoCell
      /\ NewObj(p) \in ObjSlots /\ objs[p][NewObj(p)] = NoObj
  BY <1>2, RoomSlots
<1>4. Typed(cells, objects, running) /\ Sound(p, cells, objects, running)
  BY <1>1, <1>3, PqTyped, GivenSound DEF ObjectKinds
<1>5. /\ mem' = [mem EXCEPT ![p] = cells] /\ objs' = [objs EXCEPT ![p] = objects]
      /\ UNCHANGED <<pqBuild, running, forked, ended, badUse>>
  BY DEF PgConnect
<1> HIDE DEF p, cells, objects
<1>6. PqTypes' /\ \A q \in Procs : Sound(q, mem[q], objs[q], running)'
  BY <1>1, <1>4, <1>5, OwnStep
<1> QED
  BY <1>5, <1>6 DEF PqIInv, NoBadPointer, SessionKept

\* A call enters libpq
LEMMA CallEnterStep ==
    ASSUME PqIInv, NEW a \in Actors, NEW o \in ObjSlots, NEW row \in AllCalls,
           CallEnter(a, o, row)
    PROVE  PqIInv'
<1> DEFINE p == ProcOf(a)
           ptr == IF row.on = "any" THEN Null ELSE objs[p][o].ptr
           arrays == ParamArrays(p, row)
           call == [row |-> row, ptr |-> ptr, args |-> arrays, raced |-> FALSE]
           given == IF call.args = Null THEN mem[p]
                    ELSE [mem[p] EXCEPT ![call.args] = Cell("args")]
           after == [running EXCEPT ![a] = call]
<1>1. p \in Procs /\ PqTypes /\ (\A q \in Procs : Sound(q, mem[q], objs[q], running))
      /\ forked \in BOOLEAN
  BY ProcKnown DEF PqIInv, PqTypes
<1>2. Typed(mem[p], objs[p], running) /\ Sound(p, mem[p], objs[p], running)
  BY <1>1, PqTyped
<1>3. NewPtr(p) \in Slots /\ mem[p][NewPtr(p)] = NoCell
  BY RoomSlots DEF CallEnter
<1>4. arrays \in 0 .. MaxCells /\ (arrays # Null => mem[p][arrays] = NoCell)
  BY <1>3, PqAssumption DEF ParamArrays, Slots, Null
<1>5. ptr \in 0 .. MaxCells /\ (ptr # Null => ptr = objs[p][o].ptr)
  BY <1>2, PqFields, PqAssumption DEF Null
<1>6. row.strict => ptr # Null
  BY RowsKnown DEF CallEnter, Raises
<1>7. /\ call.row = row /\ call.ptr = ptr /\ call.args = arrays /\ call.raced = FALSE
      /\ call \in PqCalls /\ call # Idle
  <2> HIDE DEF p, ptr, arrays
  <2>1. call \in PqCalls
    BY <1>4, <1>5 DEF PqCalls
  <2> QED
    BY <2>1, CallNotIdle
<1>8. running[a] = Idle /\ (a = "c1" => forked) /\ running' = after
      /\ UNCHANGED <<pqBuild, objs, forked, ended, badUse>>
  BY DEF CallEnter, Live
<1>9. mem' = [mem EXCEPT ![p] = given]
  <2>1. mem' = IF arrays = Null THEN mem ELSE [mem EXCEPT ![p][arrays] = Cell("args")]
    BY DEF CallEnter
  <2> HIDE DEF arrays, ptr, p
  <2> QED
    BY <1>1, <1>7, <2>1 DEF PqTypes
<1>10. objs' = [objs EXCEPT ![p] = objs[p]]
  BY <1>1, <1>8 DEF PqTypes
<1>11. Typed(given, objs[p], after) /\ Sound(p, given, objs[p], after)
  <2> HIDE DEF call, arrays, ptr
  <2>1. ProcOf(a) = p
    OBVIOUS
  <2> HIDE DEF p
  <2>2. call.row.strict => call.ptr # Null
    BY <1>6, <1>7
  <2>3. call.ptr # Null => \E q \in ObjSlots : objs[p][q].ptr = call.ptr
    BY <1>5, <1>7
  <2>4. call.args # Null => mem[p][call.args] = NoCell
    BY <1>4, <1>7
  <2> QED
    BY <1>1, <1>2, <1>7, <1>8, <2>1, <2>2, <2>3, <2>4, EnteredSound
<1>12. \A b \in Actors : ProcOf(b) # p => after[b] = running[b]
  BY <1>1 DEF PqTypes
<1>13. ~forked => after["c1"] = running["c1"]
  BY <1>1, <1>8 DEF PqTypes, Actors
<1> HIDE DEF p, ptr, arrays, call, given, after
<1>14. PqTypes' /\ \A q \in Procs : Sound(q, mem[q], objs[q], running)'
  BY <1>1, <1>8, <1>9, <1>10, <1>11, <1>12, OwnStep
<1> QED
  BY <1>8, <1>13, <1>14 DEF PqIInv, NoBadPointer, SessionKept

\* A notice comes inside a call
LEMMA NoticeStep ==
    ASSUME PqIInv, NEW a \in Actors, Notice(a)
    PROVE  PqIInv'
<1> DEFINE p == ProcOf(a)
           lent == [mem[p] EXCEPT ![NewPtr(p)] = [kind |-> "lent", frees |-> 1]]
           objects == [objs[p] EXCEPT ![NewObj(p)] = Object("result", Null, p)]
           cells == Tidy(p, lent, objects, running)
<1>1. p \in Procs /\ PqTypes /\ (\A q \in Procs : Sound(q, mem[q], objs[q], running))
      /\ forked \in BOOLEAN
  BY ProcKnown DEF PqIInv, PqTypes
<1>2. /\ NewPtr(p) \in Slots /\ mem[p][NewPtr(p)] = NoCell
      /\ NewObj(p) \in ObjSlots /\ objs[p][NewObj(p)] = NoObj
  BY RoomSlots DEF Notice
<1>3. Typed(lent, objects, running) /\ Sound(p, lent, objects, running)
  BY <1>1, <1>2, PqTyped, LentSound
<1>4. objs' = [objs EXCEPT ![p] = objects] /\ UNCHANGED <<pqBuild, running, forked, ended, badUse>>
  BY <1>1 DEF Notice, Borrowed, PqTypes
<1>5. objs'[p] = objects
  BY <1>1, <1>4 DEF PqTypes
<1>6. mem' = [mem EXCEPT ![p] = cells]
  BY <1>1, <1>5 DEF Notice, PqTypes
<1>7. Typed(cells, objects, running) /\ Sound(p, cells, objects, running)
  <2> HIDE DEF lent, objects, p
  <2> QED
    BY <1>1, <1>3, TidySound
<1> HIDE DEF p, lent, cells, objects
<1>8. PqTypes' /\ \A q \in Procs : Sound(q, mem[q], objs[q], running)'
  BY <1>1, <1>4, <1>6, <1>7, OwnStep
<1> QED
  BY <1>4, <1>8 DEF PqIInv, NoBadPointer, SessionKept

\* A pointer that libpq cannot stand was released during the call
LEMMA MisuseRaced ==
    ASSUME PqTypes, NEW p \in Procs, Sound(p, mem[p], objs[p], running),
           NEW a \in Actors, ProcOf(a) = p, running[a] # Idle
    PROVE  \A use \in Misuse(p, running[a]) : use.raced /\ use.why = "freed"
<1>1. /\ running[a].row.strict => running[a].ptr # Null
      /\ running[a].ptr # Null /\ ~running[a].raced =>
            \E o \in ObjSlots : objs[p][o].ptr = running[a].ptr
  BY DEF Sound, PointersHeld, CallsIn
<1>2. running[a].ptr # Null /\ ~running[a].raced => mem[p][running[a].ptr].frees = 0
  <2>1. \A k : Cell(k).frees = 0
    BY DEF Cell
  <2> QED
    BY <1>1, <2>1 DEF Sound, Owned
<1> QED
  BY <1>1, <1>2 DEF Misuse

\* A call returns
LEMMA CallReturnStep ==
    ASSUME PqIInv, NEW a \in Actors, NEW fails \in BOOLEAN, CallReturn(a, fails)
    PROVE  PqIInv'
<1> DEFINE p == ProcOf(a)
           call == running[a]
           kind == IF call.row.gives = "empty" THEN "result" ELSE call.row.gives
           owned == kind \in {"result", "cancel", "cancelconn", "buffer"}
           after == [running EXCEPT ![a] = Idle]
           freed == Freed(mem[p], call.args)
           given == IF fails \/ ~owned THEN freed ELSE [freed EXCEPT ![NewPtr(p)] = Cell(kind)]
           objects == IF fails \/ ~owned THEN objs[p]
                      ELSE [objs[p] EXCEPT ![NewObj(p)] = Object(kind, NewPtr(p), p)]
           cells == Tidy(p, given, objects, after)
<1>1. p \in Procs /\ PqTypes /\ (\A q \in Procs : Sound(q, mem[q], objs[q], running))
      /\ forked \in BOOLEAN
  BY ProcKnown DEF PqIInv, PqTypes
<1>2. Typed(mem[p], objs[p], running) /\ Sound(p, mem[p], objs[p], running) /\ call # Idle
  BY <1>1, PqTyped DEF CallReturn
<1>3. /\ Typed(freed, objs[p], after) /\ Sound(p, freed, objs[p], after)
      /\ \A i \in Slots : mem[p][i] = NoCell => freed[i] = NoCell
  BY <1>1, <1>2, ReturnedSound
<1>4. Typed(given, objects, after) /\ Sound(p, given, objects, after)
  <2>1. CASE fails \/ ~owned
    BY <1>3, <2>1
  <2>2. CASE ~fails /\ owned
    <3>1. Room(p)
      BY <2>2 DEF CallReturn
    <3>2. /\ NewPtr(p) \in Slots /\ freed[NewPtr(p)] = NoCell
          /\ NewObj(p) \in ObjSlots /\ objs[p][NewObj(p)] = NoObj
      BY <1>3, <3>1, RoomSlots
    <3>3. kind \in ObjectKinds
      BY <2>2 DEF ObjectKinds
    <3> HIDE DEF freed, after, kind, p
    <3>4. LET g == [freed EXCEPT ![NewPtr(p)] = Cell(kind)]
              h == [objs[p] EXCEPT ![NewObj(p)] = Object(kind, NewPtr(p), p)]
          IN  Typed(g, h, after) /\ Sound(p, g, h, after)
      BY <1>1, <1>3, <3>2, <3>3, GivenSound
    <3> QED
      BY <2>2, <3>4
  <2> QED
    BY <2>1, <2>2
<1>5. objs' = [objs EXCEPT ![p] = objects] /\ running' = after
      /\ UNCHANGED <<pqBuild, forked, ended>>
  <2>1. objs' = IF fails \/ ~owned THEN objs
                ELSE [objs EXCEPT ![p][NewObj(p)] = Object(kind, NewPtr(p), p)]
    BY DEF CallReturn
  <2>2. objs = [objs EXCEPT ![p] = objs[p]]
    BY <1>1 DEF PqTypes
  <2>3. running' = after /\ UNCHANGED <<pqBuild, forked, ended>>
    BY DEF CallReturn
  <2> HIDE DEF owned, kind, p, after
  <2> QED
    BY <1>1, <2>1, <2>2, <2>3 DEF PqTypes
<1>6. objs'[p] = objects
  <2> HIDE DEF objects, p
  <2> QED
    BY <1>1, <1>5 DEF PqTypes
<1>7. mem' = [mem EXCEPT ![p] = cells]
  <2>1. mem' = [mem EXCEPT ![p] = Tidy(p, given, objs'[p], running')]
    BY DEF CallReturn
  <2> HIDE DEF given, objects, p, after
  <2> QED
    BY <1>5, <1>6, <2>1
<1>8. Typed(cells, objects, after) /\ Sound(p, cells, objects, after)
  <2> HIDE DEF given, objects, p, after
  <2> QED
    BY <1>1, <1>4, TidySound
<1>9. \A b \in Actors : ProcOf(b) # p => after[b] = running[b]
  BY <1>1 DEF PqTypes
<1>10. ~forked => after["c1"] = Idle
  BY <1>1 DEF PqIInv, PqTypes, Actors
<1>11. NoBadPointer'
  <2>1. badUse' = badUse \cup Misuse(p, call)
    BY DEF CallReturn
  <2>2. \A use \in Misuse(p, call) : use.raced /\ use.why = "freed"
    BY <1>1, <1>2, MisuseRaced
  <2> QED
    BY <2>1, <2>2 DEF PqIInv, NoBadPointer
<1> HIDE DEF p, call, kind, owned, after, freed, given, objects, cells
<1>12. PqTypes' /\ \A q \in Procs : Sound(q, mem[q], objs[q], running)'
  BY <1>1, <1>5, <1>7, <1>8, <1>9, OwnStep
<1> QED
  BY <1>5, <1>10, <1>11, <1>12 DEF PqIInv, SessionKept

\* The pointer of an object is freed
LEMMA ReleaseObjStep ==
    ASSUME PqIInv, NEW a \in Actors, Live(a), NEW o \in ObjSlots, NEW how,
           NEW left \in PqObjects, left.ptr = Null,
           ReleaseObj(ProcOf(a), o, how, left), UNCHANGED <<pqBuild, forked, badUse>>
    PROVE  /\ PqTypes' /\ \A q \in Procs : Sound(q, mem[q], objs[q], running)'
           /\ ~forked' => running'["c1"] = Idle
           /\ NoBadPointer'
<1> DEFINE p == ProcOf(a)
           ptr == objs[p][o].ptr
           freed == Freed(mem[p], ptr)
           objects == [objs[p] EXCEPT ![o] = left]
           late == LateCalls(p, running, ptr)
           cells == Tidy(p, freed, objects, late)
<1>1. p \in Procs /\ PqTypes /\ (\A q \in Procs : Sound(q, mem[q], objs[q], running))
      /\ forked \in BOOLEAN
  BY ProcKnown DEF PqIInv, PqTypes
<1>2. Typed(freed, objects, late) /\ Sound(p, freed, objects, late)
  BY <1>1, PqTyped, ReleasedSound
<1>3. objs' = [objs EXCEPT ![p] = objects] /\ running' = late
  BY <1>1 DEF ReleaseObj, PqTypes, Overtaken, LateCalls
<1>4. objs'[p] = objects
  <2> HIDE DEF objects, p
  <2> QED
    BY <1>1, <1>3 DEF PqTypes
<1>5. mem' = [mem EXCEPT ![p] = cells]
  <2>1. mem' = [mem EXCEPT ![p] = Tidy(p, freed, objs'[p], running')]
    BY DEF ReleaseObj
  <2> HIDE DEF freed, objects, p, late
  <2> QED
    BY <1>3, <1>4, <2>1
<1>6. Typed(cells, objects, late) /\ Sound(p, cells, objects, late)
  <2> HIDE DEF freed, objects, p, late
  <2> QED
    BY <1>1, <1>2, TidySound
<1>7. \A b \in Actors : (ProcOf(b) # p => late[b] = running[b])
                         /\ (late[b] = Idle <=> running[b] = Idle)
  BY <1>1, LateFields DEF PqTypes
<1>8. ~forked' => late["c1"] = Idle
  BY <1>1, <1>7 DEF PqIInv, Actors
<1> HIDE DEF p, ptr, freed, objects, late, cells
<1>9. PqTypes' /\ \A q \in Procs : Sound(q, mem[q], objs[q], running)'
  BY <1>1, <1>3, <1>5, <1>6, <1>7, OwnStep
<1> QED
  BY <1>3, <1>8, <1>9 DEF PqIInv, NoBadPointer

\* The program releases a pointer
LEMMA ReleaseStep ==
    ASSUME PqIInv, NEW a \in Actors, NEW o \in ObjSlots, Release(a, o)
    PROVE  PqIInv'
<1> DEFINE p == ProcOf(a)
           obj == objs[p][o]
<1>1. p \in Procs /\ obj \in PqObjects
  BY ProcKnown DEF PqIInv, PqTypes
<1>2. obj.kind \in {"conn", "result", "cancel", "cancelconn"} /\ Live(a)
      /\ ReleaseObj(p, o, "call", Forgotten(obj)) /\ UNCHANGED <<pqBuild, forked, badUse>>
  BY DEF Release
<1>3. Forgotten(obj) \in PqObjects /\ Forgotten(obj).ptr = Null
  <2>1. obj \in [kind : ObjectKinds, ptr : 0 .. MaxCells, pid : Procs]
    BY <1>1, <1>2 DEF PqObjects, NoObj
  <2> HIDE DEF obj
  <2> QED
    BY <2>1, PqAssumption DEF Forgotten, PqObjects, Null
<1>4. "gc" \notin ended'
  BY <1>2 DEF ReleaseObj, Terminates, PqIInv, SessionKept
<1> HIDE DEF obj
<1> QED
  BY <1>2, <1>3, <1>4, ReleaseObjStep DEF PqIInv, SessionKept

\* An object is collected
LEMMA CollectStep ==
    ASSUME PqIInv, NEW a \in Actors, NEW o \in ObjSlots, Collect(a, o)
    PROVE  PqIInv'
<1> DEFINE p == ProcOf(a)
           obj == objs[p][o]
<1>1. p \in Procs /\ PqTypes /\ (\A q \in Procs : Sound(q, mem[q], objs[q], running))
      /\ forked \in BOOLEAN
  BY ProcKnown DEF PqIInv, PqTypes
<1>2. CASE Finalises(p, obj)
  <2>1. Live(a) /\ ReleaseObj(p, o, "gc", NoObj) /\ UNCHANGED <<pqBuild, forked, badUse>>
    BY <1>2 DEF Collect
  <2>2. NoObj \in PqObjects /\ NoObj.ptr = Null
    BY DEF PqObjects, NoObj, Null
  <2>3. "gc" \notin ended'
    BY <1>2, <2>1 DEF ReleaseObj, Terminates, Finalises, PqIInv, SessionKept
  <2> QED
    BY <2>1, <2>2, <2>3, ReleaseObjStep DEF PqIInv, SessionKept
<1>3. CASE ~Finalises(p, obj)
  <2> DEFINE cells == IF obj.ptr = Null THEN mem[p] ELSE [mem[p] EXCEPT ![obj.ptr] = NoCell]
             objects == [objs[p] EXCEPT ![o] = NoObj]
  <2>1. /\ \A b \in Actors : running[b] # Idle /\ ProcOf(b) = p => running[b].ptr # obj.ptr
        /\ objs' = [objs EXCEPT ![p][o] = NoObj]
        /\ mem' = IF obj.ptr = Null THEN mem ELSE [mem EXCEPT ![p][obj.ptr] = NoCell]
        /\ UNCHANGED <<pqBuild, running, forked, ended, badUse>>
    BY <1>3 DEF Collect
  <2>2. Typed(cells, objects, running) /\ Sound(p, cells, objects, running)
    BY <1>1, <2>1, PqTyped, DroppedSound DEF CallsIn
  <2>3. mem' = [mem EXCEPT ![p] = cells] /\ objs' = [objs EXCEPT ![p] = objects]
    <3> HIDE DEF obj, p
    <3> QED
      BY <1>1, <2>1 DEF PqTypes
  <2> HIDE DEF obj, p, cells, objects
  <2>4. PqTypes' /\ \A q \in Procs : Sound(q, mem[q], objs[q], running)'
    BY <1>1, <2>1, <2>2, <2>3, OwnStep
  <2> QED
    BY <2>1, <2>4 DEF PqIInv, NoBadPointer, SessionKept
<1> QED
  BY <1>2, <1>3

\* The process forks
LEMMA ForkStep ==
    ASSUME PqIInv, Fork
    PROVE  PqIInv'
<1> DEFINE cells == [i \in Slots |-> IF running["p2"] # Idle /\ running["p2"].args = i
                                     THEN NoCell ELSE mem["parent"][i]]
           objects == objs["parent"]
<1>1. /\ PqTypes /\ (\A q \in Procs : Sound(q, mem[q], objs[q], running))
      /\ running["c1"] = Idle /\ running["p1"] = Idle
      /\ "parent" \in Procs /\ "child" \in Procs /\ "p2" \in Actors
  BY DEF PqIInv, Fork, Procs, Actors
<1>2. /\ mem' = [mem EXCEPT !["child"] = cells] /\ objs' = [objs EXCEPT !["child"] = objects]
      /\ forked' = TRUE /\ UNCHANGED <<pqBuild, running, ended, badUse>>
  BY DEF Fork
<1>3. Typed(mem["parent"], objects, running) /\ Sound("parent", mem["parent"], objects, running)
  BY <1>1, PqTyped
<1>4. NoCell \in Cells /\ NoCell.frees = 0 /\ \A k \in ObjectKinds : Cell(k) # Cell("args")
  BY DEF NoCell, Cells, CellKinds, Cell, ObjectKinds
<1>5. Typed(cells, objects, running)
  BY <1>3, <1>4 DEF Typed
<1>6. CallsIn("child", running) = {}
  BY <1>1 DEF CallsIn, ProcOf, Actors
<1>7. \A b \in CallsIn("parent", running) : b = "p2"
  BY <1>1 DEF CallsIn, ProcOf, Actors
<1>8. running["p2"] # Idle /\ running["p2"].args # Null =>
        mem["parent"][running["p2"].args] = Cell("args")
  BY <1>1, <1>3 DEF Sound, ArraysHeld, CallsIn, ProcOf
<1>9. Sound("child", cells, objects, running)
  <2>1. Owned(cells, objects)
    <3>1. \A o \in ObjSlots : objects[o].ptr # Null =>
            /\ objects[o].ptr \in Slots /\ objects[o].kind \in ObjectKinds
            /\ mem["parent"][objects[o].ptr] = Cell(objects[o].kind)
      BY <1>3, PqFields DEF Sound, Owned
    <3>2. \A o \in ObjSlots : objects[o].ptr # Null =>
            cells[objects[o].ptr] = mem["parent"][objects[o].ptr]
      BY <1>4, <1>8, <3>1
    <3> HIDE DEF cells
    <3> QED
      BY <1>3, <3>1, <3>2 DEF Sound, Owned
  <2>2. ArraysHeld("child", cells, running) /\ PointersHeld("child", objects, running)
    BY <1>6 DEF ArraysHeld, PointersHeld
  <2>3. NoneLeaked("child", cells, objects, running)
    <3> SUFFICES ASSUME NEW i \in Slots
                 PROVE  /\ cells[i].frees <= 1
                        /\ cells[i] # NoCell /\ cells[i].frees = 0 =>
                            \E o \in ObjSlots : objects[o].ptr = i
      BY DEF NoneLeaked
    <3>1. CASE running["p2"] # Idle /\ running["p2"].args = i
      BY <1>4, <3>1
    <3>2. CASE ~(running["p2"] # Idle /\ running["p2"].args = i)
      <4>1. cells[i] = mem["parent"][i]
        BY <3>2
      <4>2. ~ \E b \in CallsIn("parent", running) : running[b].args = i
        BY <1>7, <3>2 DEF CallsIn
      <4> HIDE DEF cells, objects
      <4> QED
        BY <1>3, <4>1, <4>2 DEF Sound, NoneLeaked
    <3> QED
      BY <3>1, <3>2
  <2> QED
    BY <2>1, <2>2, <2>3 DEF Sound
<1> HIDE DEF cells, objects
<1>10. PqTypes' /\ \A q \in Procs : Sound(q, mem[q], objs[q], running)'
  <2>1. forked' \in BOOLEAN /\ \A b \in Actors : running'[b] = running[b]
    BY <1>2
  <2> QED
    BY <1>1, <1>2, <1>5, <1>9, <2>1, OwnStep
<1> QED
  BY <1>2, <1>10 DEF PqIInv, NoBadPointer, SessionKept

-----------------------------------------------------------------------------
\* The first state
LEMMA PqInitIInv == PqInit => PqIInv
<1> SUFFICES ASSUME PqInit PROVE PqIInv
  OBVIOUS
<1>1. NoCell \in Cells /\ NoCell.frees = 0 /\ NoObj.ptr = Null
  BY DEF NoCell, Cells, CellKinds, NoObj
<1>2. PqTypes
  BY <1>1, PqAssumption DEF PqInit, PqTypes, PqObjects, PqCalls
<1>3. ASSUME NEW p \in Procs PROVE Sound(p, mem[p], objs[p], running)
  <2>1. \A i \in Slots : mem[p][i] = NoCell
    BY DEF PqInit
  <2>2. \A o \in ObjSlots : objs[p][o].ptr = Null
    BY <1>1 DEF PqInit
  <2>3. CallsIn(p, running) = {}
    BY DEF PqInit, CallsIn
  <2> QED
    BY <1>1, <2>1, <2>2, <2>3 DEF Sound, Owned, ArraysHeld, PointersHeld, NoneLeaked
<1> QED
  BY <1>2, <1>3 DEF PqInit, PqIInv, NoBadPointer, SessionKept, Actors

\* What it gives
LEMMA PqImplied == PqIInv => PointersSafe
<1> SUFFICES ASSUME PqIInv PROVE PointersSafe
  OBVIOUS
<1>1. PqTypes /\ \A p \in Procs : Typed(mem[p], objs[p], running)
                                 /\ Sound(p, mem[p], objs[p], running)
  BY PqTyped DEF PqIInv
<1>2. PqTypeOK
  <2>1. \A o \in PqObjects : o.pid \in Procs \cup {"none"}
    BY DEF PqObjects, NoObj
  <2>2. \A p \in Procs : \A o \in ObjSlots :
            objs[p][o].ptr \in 0 .. MaxCells /\ objs[p][o].pid \in Procs \cup {"none"}
    BY <1>1, <2>1, PqFields DEF Typed
  <2>3. \A p \in Procs : \A i \in Slots : mem[p][i].frees \in Nat
    BY <1>1, PqFields
  <2>4. \A a \in Actors : running[a] = Idle \/ running[a].row \in AllCalls
    BY <1>1, PqFields, ProcKnown
  <2> QED
    BY <1>1, <2>2, <2>3, <2>4 DEF PqTypes, PqTypeOK
<1>3. FreedOnce
  <2> SUFFICES ASSUME NEW p \in Procs, NEW i \in Slots
               PROVE  /\ mem[p][i].frees <= 1
                      /\ mem[p][i] # NoCell /\ mem[p][i].frees = 0 =>
                            \/ \E o \in ObjSlots : objs[p][o].ptr = i
                            \/ \E a \in Actors : /\ running[a] # Idle
                                                 /\ ProcOf(a) = p
                                                 /\ running[a].args = i
    BY DEF FreedOnce
  <2> QED
    BY <1>1 DEF Sound, NoneLeaked, CallsIn
<1> QED
  BY <1>2, <1>3 DEF PqIInv, PointersSafe

\* Each step
LEMMA PqStep == PqIInv /\ [PqNext]_pqVars => PqIInv'
<1> SUFFICES ASSUME PqIInv, [PqNext]_pqVars PROVE PqIInv'
  OBVIOUS
<1>1. CASE Fork
  BY <1>1, ForkStep
<1>2. ASSUME NEW a \in Actors, PgConnect(a) PROVE PqIInv'
  BY <1>2, PgConnectStep
<1>3. ASSUME NEW a \in Actors, NEW fails \in BOOLEAN, CallReturn(a, fails) PROVE PqIInv'
  BY <1>3, CallReturnStep
<1>4. ASSUME NEW a \in Actors, Notice(a) PROVE PqIInv'
  BY <1>4, NoticeStep
<1>5. ASSUME NEW a \in Actors, NEW o \in ObjSlots, Release(a, o) PROVE PqIInv'
  BY <1>5, ReleaseStep
<1>6. ASSUME NEW a \in Actors, NEW o \in ObjSlots, Collect(a, o) PROVE PqIInv'
  BY <1>6, CollectStep
<1>7. ASSUME NEW a \in Actors, NEW o \in ObjSlots, NEW row \in AllCalls, CallEnter(a, o, row)
      PROVE  PqIInv'
  BY <1>7, CallEnterStep
<1>8. CASE UNCHANGED pqVars
  <2>1. pqBuild' = pqBuild /\ mem' = mem /\ objs' = objs /\ running' = running
        /\ forked' = forked /\ ended' = ended /\ badUse' = badUse
    BY <1>8 DEF pqVars
  <2>2. PqTypes'
    BY <2>1, SameCalls DEF PqIInv, PqTypes
  <2>3. (\A p \in Procs : Sound(p, mem[p], objs[p], running))'
    BY <2>1 DEF PqIInv
  <2> QED
    BY <2>1, <2>2, <2>3 DEF PqIInv, NoBadPointer, SessionKept
<1> QED
  BY <1>1, <1>2, <1>3, <1>4, <1>5, <1>6, <1>7, <1>8 DEF PqNext

\* Every pointer of libpq has one owner for as long as it lives, in both
\* implementations, in a process and its child, for any threads that make calls
\* and any number of pieces of memory and objects (pq_ctypes.py, pgconn.pyx).
\* Not shown: that a call in course is safe when another thread releases its
\* object, as it is not, and that nothing leaks on the paths known to leak
\* (change_password(), pgconn.pyx:969), which the model does not follow.
THEOREM PointersCorrect == PqSpec => []PointersSafe
<1>1. PqInit => PqIInv
  BY PqInitIInv
<1>2. PqIInv /\ [PqNext]_pqVars => PqIInv'
  BY PqStep
<1>3. PqIInv => PointersSafe
  BY PqImplied
<1> QED
  BY <1>1, <1>2, <1>3, PTL DEF PqSpec

=============================================================================

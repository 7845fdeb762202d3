----------------------------- MODULE Connection -----------------------------
(***************************************************************************)
(* The transactions of a connection (psycopg/_connection_base.py and       *)
(* psycopg/connection.py) when the program manages them by itself: the     *)
(* settings a transaction starts with, commit() and rollback(), the        *)
(* context manager, the two-phase commit and its recovery, the loss of the *)
(* connection and the next one.                                            *)
(*                                                                         *)
(* The methods hold the connection's lock: they are one step each.  Only   *)
(* tpc_recover() takes the lock more than once, so that a thread that      *)
(* shares the connection may use it in between.  Blocks of transaction()   *)
(* are modelled by Transaction; here there is one, to meet the two-phase   *)
(* methods.                                                                *)
(***************************************************************************)
EXTENDS Naturals, FiniteSets

CONSTANTS
    Xids,           \* the transaction ids the program uses
    Settings,       \* values of isolation_level, read_only and deferrable
    NoXid,          \* None, for _tpc, an xid argument or a gid not prepared
    NoSettings,     \* an empty _begin_statement
    MaxWrites       \* bound: statements executed

ASSUME ConnectionAssumption ==
    /\ NoXid \notin Xids /\ NoSettings \notin Settings /\ Settings # {}
    /\ MaxWrites \in Nat

VARIABLES
    conn,           \* the attributes of the Connection
    block,          \* the transaction() block: "none", "outer" or "inner"
    recover,        \* where tpc_recover() is
    server,         \* the session, the prepared and the committed transactions
    past            \* history, for the properties

connVars == <<conn, block, recover, server, past>>

Writes == 1 .. MaxWrites
NoTpc == [xid |-> NoXid, prepared |-> FALSE]
Tpc(x, prepared) == [xid |-> x, prepared |-> prepared]

NewConn(s) ==
    [autocommit |-> FALSE, settings |-> s, begin |-> NoSettings, tpc |-> NoTpc,
     num |-> 0]

NewSession(srv) == [srv EXCEPT !.status = "idle", !.work = {}]

ConnInit ==
    /\ conn = NewConn(CHOOSE s \in Settings : TRUE)
    /\ block = "none"
    /\ recover = "none"
    /\ server = [status |-> "idle", begun |-> NoSettings, work |-> {},
                 prepared |-> [x \in Xids |-> {}], exists |-> {}, committed |-> {}]
    /\ past = [writes |-> 0, origin |-> [w \in Writes |-> NoXid], asked |-> {},
               doubtful |-> FALSE, between |-> {}, undone |-> {}]

-----------------------------------------------------------------------------
(***************************************************************************)
(* The server.  A command has a set of outcomes: the state after it and    *)
(* whether it succeeded.  An aborted transaction refuses all but its end.  *)
(***************************************************************************)
Good(srv) == [srv |-> srv, ok |-> TRUE]
Refused(srv) ==
    [srv |-> [srv EXCEPT !.status = IF @ = "intrans" THEN "inerror" ELSE @], ok |-> FALSE]
Lost(srv) == [srv |-> [srv EXCEPT !.status = "lost", !.work = {}], ok |-> FALSE]

Ended(srv) == [srv EXCEPT !.status = "idle", !.work = {}]
Committed(srv) == [Ended(srv) EXCEPT !.committed = @ \cup srv.work]

Begin(srv, s) == {Good([srv EXCEPT !.status = "intrans", !.begun = s])}

Query(srv, w) ==
    CASE srv.status = "intrans" -> {Good([srv EXCEPT !.work = @ \cup {w}]), Refused(srv)}
      [] srv.status = "idle" -> {Good([srv EXCEPT !.committed = @ \cup {w}]), Refused(srv)}
      [] OTHER -> {Refused(srv)}

\* COMMIT of an aborted transaction is a rollback; one that fails ends it too
Commit(srv) ==
    IF srv.status = "intrans"
    THEN {Good(Committed(srv)), [srv |-> Ended(srv), ok |-> FALSE]}
    ELSE {Good(Ended(srv))}

\* PREPARE TRANSACTION of an aborted transaction rolls it back without an error
PrepareTransaction(srv, x) ==
    IF srv.status = "intrans"
    THEN {[srv |-> Ended(srv), ok |-> FALSE]}
         \cup IF x \in srv.exists THEN {}
              ELSE {Good([Ended(srv) EXCEPT !.prepared[x] = srv.work,
                                            !.exists = @ \cup {x}])}
    ELSE {Good(Ended(srv))}

\* COMMIT PREPARED and ROLLBACK PREPARED: not in a transaction
FinishPrepared(srv, action, x) ==
    IF srv.status = "idle" /\ x \in srv.exists
    THEN {Good([srv EXCEPT !.exists = @ \ {x}, !.prepared[x] = {},
                           !.committed = @ \cup IF action = "commit"
                                                THEN srv.prepared[x] ELSE {}])}
    ELSE {Refused(srv)}

\* A command sent on the connection: it may also be lost, executed or not
Outcomes(outs) == outs \cup {Lost(o.srv) : o \in outs}

-----------------------------------------------------------------------------
Usable == server.status # "lost"

\* _get_tx_start_command(): what is sent, and what is kept
StartCommand == IF conn.begin # NoSettings THEN conn.begin ELSE conn.settings

\* _check_intrans_gen() refuses a change in a transaction
SetAutocommit(value) ==
    /\ server.status = "idle"
    /\ conn' = [conn EXCEPT !.autocommit = value]
    /\ UNCHANGED <<block, recover, server, past>>

SetSettings(s) ==
    /\ server.status = "idle"
    /\ conn' = [conn EXCEPT !.settings = s, !.begin = NoSettings]
    /\ UNCHANGED <<block, recover, server, past>>

\* _start_query(): BEGIN if there is no transaction, out of autocommit
Starts == ~conn.autocommit /\ server.status = "idle"
Started == IF Starts THEN Begin(server, StartCommand) ELSE {Good(server)}

\* execute() of a statement that writes w
ExecuteQuery ==
    LET w == past.writes + 1
        outs == UNION {Query(o.srv, w) : o \in Started}
    IN  /\ Usable /\ past.writes < MaxWrites
        /\ \E o \in Outcomes(outs) :
             /\ server' = o.srv
             /\ past' = [past EXCEPT
                    !.writes = w,
                    !.between = IF recover # "none" THEN @ \cup {w} ELSE @,
                    !.origin[w] = IF conn.tpc.prepared THEN NoXid ELSE conn.tpc.xid]
        /\ conn' = IF Starts THEN [conn EXCEPT !.begin = StartCommand] ELSE conn
        /\ UNCHANGED <<block, recover>>

-----------------------------------------------------------------------------
(***************************************************************************)
(* _commit_gen() and _rollback_gen()                                       *)
(***************************************************************************)
EndForbidden == conn.num > 0 \/ conn.tpc # NoTpc

Ending(action) ==
    IF server.status = "idle" THEN {Good(server)}
    ELSE IF action = "commit" THEN Commit(server) ELSE {Good(Ended(server))}

CommitOrRollback(action) ==
    /\ Usable /\ ~EndForbidden
    /\ \E o \in Outcomes(Ending(action)) : server' = o.srv
    /\ UNCHANGED <<conn, block, recover, past>>

\* mutant: __exit__() commits whatever the transaction, and closes anyway
ExitContext_Unchecked(raised) ==
    /\ Usable
    /\ raised \/ conn.num = 0
    /\ \E o \in Ending(IF raised THEN "rollback" ELSE "commit") :
          server' = Lost(o.srv).srv
    /\ UNCHANGED <<conn, block, recover, past>>

\* __exit__(): commit, or a rollback whose error is ignored, then close(). A
\* commit() that is forbidden raises before close() and leaves all as it is.
ExitContext(raised) ==
    /\ Usable
    /\ raised \/ ~EndForbidden
    /\ LET outs == IF EndForbidden THEN {Good(server)}
                   ELSE Ending(IF raised THEN "rollback" ELSE "commit")
       IN  \E o \in outs : server' = IF o.ok \/ raised THEN Lost(o.srv).srv ELSE o.srv
    /\ UNCHANGED <<conn, block, recover, past>>

\* close(): the server forgets what was not committed nor prepared
Close ==
    /\ Usable
    /\ server' = Lost(server).srv
    /\ UNCHANGED <<conn, block, recover, past>>

\* The program connects again: a new object, the prepared transactions are there
Reconnect ==
    /\ ~Usable
    /\ conn' = NewConn(CHOOSE s \in Settings : TRUE)
    /\ server' = NewSession(server)
    /\ block' = "none" /\ recover' = "none"
    /\ UNCHANGED past

-----------------------------------------------------------------------------
(***************************************************************************)
(* A transaction() block                                                   *)
(***************************************************************************)
EnterBlock ==
    /\ Usable /\ block = "none"
    /\ server.status \in {"idle", "intrans"}
    /\ conn' = [conn EXCEPT !.num = 1,
                            !.begin = IF server.status = "idle" THEN StartCommand ELSE @]
    /\ block' = IF server.status = "idle" THEN "outer" ELSE "inner"
    /\ server' = IF server.status = "idle"
                 THEN [server EXCEPT !.status = "intrans", !.begun = StartCommand]
                 ELSE server
    /\ UNCHANGED <<recover, past>>

\* Leaving it without an exception: COMMIT, or RELEASE, which fails if the
\* transaction is aborted or no longer there
ExitBlock ==
    /\ Usable /\ block # "none"
    /\ conn' = [conn EXCEPT !.num = 0]
    /\ block' = "none"
    /\ LET outs == IF block = "outer" THEN Commit(server)
                   ELSE IF server.status = "intrans" THEN {Good(server)}
                        ELSE {Refused(server)}
       IN  \E o \in outs : server' = o.srv
    /\ UNCHANGED <<recover, past>>

-----------------------------------------------------------------------------
(***************************************************************************)
(* Two-phase commit                                                        *)
(***************************************************************************)
TpcBegin(x) ==
    /\ server.status = "idle"
    /\ ~conn.autocommit
    /\ conn' = [conn EXCEPT !.tpc = Tpc(x, FALSE), !.begin = StartCommand]
    /\ \E o \in Outcomes(Begin(server, StartCommand)) : server' = o.srv
    /\ past' = [past EXCEPT !.doubtful = FALSE]
    /\ UNCHANGED <<block, recover>>

\* The flag is set before PREPARE TRANSACTION is executed
TpcPrepare ==
    LET x == conn.tpc.xid
        outs == PrepareTransaction(server, x)
    IN  /\ Usable
        /\ conn.tpc # NoTpc /\ ~conn.tpc.prepared
        /\ conn' = [conn EXCEPT !.tpc = Tpc(x, TRUE)]
        /\ \E o \in Outcomes(outs) :
             /\ server' = o.srv
             /\ past' = [past EXCEPT !.doubtful = ~o.ok \/ server.status # "intrans"]
        /\ UNCHANGED <<block, recover>>

\* Out of the prepared state: the transaction is forgotten, then commit() or
\* rollback() is tried, which transaction() forbids
TpcFinishOnePhase(action) ==
    LET outs == IF conn.num > 0 THEN {[srv |-> server, ok |-> FALSE]} ELSE Ending(action)
    IN  /\ Usable
        /\ conn.tpc # NoTpc /\ ~conn.tpc.prepared
        /\ conn' = [conn EXCEPT !.tpc = NoTpc]
        /\ \E o \in Outcomes(outs) : server' = o.srv
        /\ past' = [past EXCEPT !.asked = IF action = "commit" \/ conn.num > 0
                                          THEN @ \cup server.work ELSE @]
        /\ UNCHANGED <<block, recover>>

\* COMMIT PREPARED or ROLLBACK PREPARED, of this transaction or, in a
\* recovery, of the one the program names
TpcFinishPrepared(action, xid) ==
    LET x == IF xid = NoXid THEN conn.tpc.xid ELSE xid
        outs == FinishPrepared(server, action, x)
    IN  /\ Usable
        /\ IF xid = NoXid THEN conn.tpc.prepared ELSE conn.tpc = NoTpc
        /\ \E o \in Outcomes(outs) :
             /\ server' = o.srv
             /\ conn' = IF o.ok THEN [conn EXCEPT !.tpc = NoTpc] ELSE conn
        /\ past' = [past EXCEPT !.asked = IF action = "commit"
                                          THEN @ \cup server.prepared[x] ELSE @]
        /\ UNCHANGED <<block, recover>>

\* Another session finishes a prepared transaction
OthersFinish(action, x) ==
    /\ x \in server.exists
    /\ server' = [server EXCEPT !.exists = @ \ {x}, !.prepared[x] = {},
                     !.committed = @ \cup IF action = "commit"
                                          THEN server.prepared[x] ELSE {}]
    /\ past' = [past EXCEPT !.doubtful = @ \/ conn.tpc = Tpc(x, TRUE),
                            !.asked = IF action = "commit"
                                      THEN @ \cup server.prepared[x] ELSE @]
    /\ UNCHANGED <<conn, block, recover>>

-----------------------------------------------------------------------------
(***************************************************************************)
(* tpc_recover(): the status is read, then a query is executed, then the   *)
(* status is read again and the transaction rolled back if it was not      *)
(* there at first.                                                         *)
(***************************************************************************)

RecoverCall ==
    /\ Usable /\ recover = "none"
    /\ recover' = IF server.status = "idle" THEN "idle" ELSE "other"
    /\ UNCHANGED <<conn, block, server, past>>

RecoverQuery ==
    /\ Usable /\ recover \in {"idle", "other"}
    /\ server.status # "inerror"
    /\ \E o \in Started : server' = o.srv
    /\ conn' = IF Starts THEN [conn EXCEPT !.begin = StartCommand] ELSE conn
    /\ recover' = IF recover = "idle" THEN "rollback" ELSE "none"
    /\ UNCHANGED <<block, past>>

\* The query fails in an aborted transaction, or the connection was lost
RecoverFailed ==
    /\ recover # "none"
    /\ server.status = "inerror" \/ ~Usable
    /\ recover' = "none"
    /\ UNCHANGED <<conn, block, server, past>>

RecoverRollback ==
    /\ Usable /\ recover = "rollback"
    /\ recover' = "none"
    /\ server' = IF server.status = "intrans" /\ ~EndForbidden THEN Ended(server) ELSE server
    /\ past' = [past EXCEPT !.undone =
                   @ \cup (IF server'.work # server.work THEN server.work ELSE {})]
    /\ UNCHANGED <<conn, block>>

-----------------------------------------------------------------------------
ConnNext ==
    \/ \E v \in BOOLEAN : SetAutocommit(v) \/ ExitContext(v)
    \/ \E s \in Settings : SetSettings(s)
    \/ ExecuteQuery
    \/ EnterBlock \/ ExitBlock
    \/ Close \/ Reconnect
    \/ \E x \in Xids : TpcBegin(x)
    \/ TpcPrepare
    \/ \E a \in {"commit", "rollback"} :
          \/ CommitOrRollback(a)
          \/ TpcFinishOnePhase(a)
          \/ \E x \in Xids : OthersFinish(a, x)
          \/ \E x \in Xids \cup {NoXid} : TpcFinishPrepared(a, x)
    \/ RecoverCall \/ RecoverQuery \/ RecoverFailed \/ RecoverRollback

ConnSpec == ConnInit /\ [][ConnNext]_connVars

-----------------------------------------------------------------------------
Sessions ==
    [status : {"idle", "intrans", "inerror", "lost"}, begun : Settings \cup {NoSettings},
     work : SUBSET Writes, prepared : [Xids -> SUBSET Writes], exists : SUBSET Xids,
     committed : SUBSET Writes]

Tpcs == {NoTpc} \cup [xid : Xids, prepared : BOOLEAN]

(***************************************************************************)
(* The attributes keep their types: _tpc is None or a pair whose xid is    *)
(* one of the program's (_connection_base.py:620-661).                     *)
(***************************************************************************)
ConnTypeOK ==
    /\ conn \in [autocommit : BOOLEAN, settings : Settings,
                 begin : Settings \cup {NoSettings}, tpc : Tpcs, num : {0, 1}]
    /\ block \in {"none", "outer", "inner"}
    /\ recover \in {"none", "idle", "other", "rollback"}
    /\ server \in Sessions
    /\ past \in [writes : 0 .. MaxWrites, origin : [Writes -> Xids \cup {NoXid}],
                 asked : SUBSET Writes, doubtful : BOOLEAN,
                 between : SUBSET Writes, undone : SUBSET Writes]

(***************************************************************************)
(* A transaction runs with the isolation level, the access mode and the    *)
(* deferrable mode that the attributes of the connection show: the BEGIN   *)
(* kept in _begin_statement (_connection_base.py:550-568) is never stale,  *)
(* as no setting changes while a transaction is open.                      *)
(***************************************************************************)
StartedAsSet ==
    server.status \in {"intrans", "inerror"} => server.begun = conn.settings

(***************************************************************************)
(* What is written in a two-phase transaction is committed by a            *)
(* tpc_commit(), of this session or of the one that recovers it, and by    *)
(* nothing else: not by commit(), by the context manager, by a block or by *)
(* tpc_recover().  The exception is a transaction that tpc_commit() or     *)
(* tpc_rollback() forgot in a block (_connection_base.py:688-690).         *)
(***************************************************************************)
CommittedByTpc ==
    \A w \in server.committed :
        past.origin[w] # NoXid => w \in past.asked

(***************************************************************************)
(* The connection knows about its two-phase transaction: as long as _tpc   *)
(* is not prepared the transaction is open, and once it is prepared the    *)
(* server has it.  The exceptions are a PREPARE that failed, or that the   *)
(* server took as a rollback, after the flag was set                       *)
(* (_connection_base.py:660-661), and a transaction finished by others.    *)
(***************************************************************************)
TpcKnown ==
    conn.tpc # NoTpc /\ Usable =>
        IF conn.tpc.prepared THEN conn.tpc.xid \in server.exists \/ past.doubtful
        ELSE server.status \in {"intrans", "inerror"}

(***************************************************************************)
(* tpc_recover() starts a transaction only to end it: what its rollback()  *)
(* undoes was written by another thread between its steps                  *)
(* (connection.py:559-569), never before it was called.                    *)
(***************************************************************************)
RecoverHarmless == past.undone \subseteq past.between

(***************************************************************************)
(* What the connection believes about its transaction is so: with the      *)
(* settings it shows, in its two phases, across lost connections, failed   *)
(* commands and the recovery (_connection_base.py, connection.py).         *)
(***************************************************************************)
TransactionsKept ==
    /\ ConnTypeOK
    /\ StartedAsSet
    /\ CommittedByTpc
    /\ TpcKnown
    /\ RecoverHarmless
=============================================================================

-------------------------- MODULE TransactionProofs --------------------------
(***************************************************************************)
(* Proofs about Transaction, for any number of blocks, names and           *)
(* statements: its state keeps its types, the assertions of transaction.py *)
(* on _num_transactions never fail, the stack of the server follows the    *)
(* one of the client, and blocks are atomic.                               *)
(***************************************************************************)
EXTENDS Transaction, SequenceTheorems, TLAPS

\* What a command of the server may answer
Results == [state : ServerStates, ok : BOOLEAN]

\* The outer block is the first of the stack
OuterFirst == \A b \in Blocks : tx[b].outer => tx[b].index = 0

\* Every block to be left is counted
AllCounted == Len(open) <= num

IInv == TypeOK /\ OuterFirst /\ AllCounted /\ AssertionsHold

-----------------------------------------------------------------------------
(* The commands of the server answer with a state of the server *)

\* A prefix of the savepoints is a sequence of savepoints
LEMMA PrefixType ==
    ASSUME NEW S, NEW q \in Seq(S), NEW i \in Int, i <= Len(q)
    PROVE  SubSeq(q, 1, i) \in Seq(S)
  BY SMT

\* A command that succeeds in a state, or fails in it, answers with a result
LEMMA AnswerType ==
    ASSUME NEW s \in ServerStates
    PROVE  /\ Good(s) \in Results /\ Good(s).state = s
           /\ Failed(s) \in Results
           /\ s.status = "idle" <=> Failed(s).state.status = "idle"
  BY DEF Good, Failed, Results, ServerStates

\* The end of a transaction is a state of the server
LEMMA EndType ==
    ASSUME NEW s \in ServerStates
    PROVE  End(s) \in ServerStates /\ End(s).status = "idle"
  <1>1. <<>> \in Seq(Savepoints)
    OBVIOUS
  <1> QED BY <1>1 DEF End, ServerStates

\* BEGIN starts a transaction (transaction.py:170)
LEMMA BeginType ==
    ASSUME NEW s \in ServerStates, NEW r \in Begin(s)
    PROVE  r \in Results /\ r.state.status # "idle"
  <1> DEFINE t == [s EXCEPT !.status = IF s.status = "idle" THEN "intrans" ELSE s.status]
  <1>1. t \in ServerStates /\ t.status # "idle"
    BY DEF ServerStates
  <1>2. r = Good(t)
    BY DEF Begin
  <1> HIDE DEF t
  <1> QED BY <1>1, <1>2, AnswerType

\* SAVEPOINT does not end the transaction
LEMMA SavepointType ==
    ASSUME NEW s \in ServerStates, NEW name \in Int, NEW r \in Savepoint(s, name)
    PROVE  r \in Results /\ (s.status # "idle" => r.state.status # "idle")
  <1>1. CASE s.status = "intrans"
    <2> DEFINE q == Append(s.saves, [name |-> name, work |-> s.work])
    <2>1. r = Good([s EXCEPT !.saves = q])
      BY <1>1 DEF Savepoint
    <2>2. q \in Seq(Savepoints)
      BY DEF ServerStates, Savepoints
    <2> HIDE DEF q
    <2>3. [s EXCEPT !.saves = q] \in ServerStates
      BY <2>2 DEF ServerStates
    <2> QED BY <2>1, <2>3, <1>1, AnswerType DEF Good, ServerStates
  <1>2. CASE s.status # "intrans"
    BY <1>2, AnswerType DEF Savepoint
  <1> QED BY <1>1, <1>2

\* ROLLBACK TO a savepoint does not end the transaction
LEMMA RollbackToType ==
    ASSUME NEW s \in ServerStates, NEW name \in Int, NEW r \in RollbackTo(s, name)
    PROVE  r \in Results /\ (s.status # "idle" => r.state.status # "idle")
  <1>1. CASE Latest(s, name) # {}
    <2>1. PICK i \in Latest(s, name) :
             r = Good([s EXCEPT !.status = "intrans", !.saves = SubSeq(s.saves, 1, i),
                                !.work = s.saves[i].work])
      BY <1>1 DEF RollbackTo
    <2>2. i \in 1 .. Len(s.saves)
      BY DEF Latest, ServerStates
    <2> DEFINE q == SubSeq(s.saves, 1, i)
               v == s.saves[i].work
               t == [s EXCEPT !.status = "intrans", !.saves = q, !.work = v]
    <2>3. s.saves \in Seq(Savepoints)
      BY DEF ServerStates
    <2>4. q \in Seq(Savepoints)
      BY <2>2, <2>3, PrefixType
    <2>5. v \in SUBSET Writes
      <3>1. s.saves[i] \in Savepoints
        BY <2>2, <2>3
      <3> QED BY <3>1 DEF Savepoints
    <2>6. r = Good(t)
      BY <2>1
    <2> HIDE DEF q, v
    <2>7. t \in ServerStates /\ t.status = "intrans"
      BY <2>4, <2>5 DEF ServerStates
    <2> HIDE DEF t
    <2> QED BY <2>6, <2>7, AnswerType
  <1>2. CASE Latest(s, name) = {}
    BY <1>2, AnswerType DEF RollbackTo
  <1> QED BY <1>1, <1>2

\* RELEASE does not end the transaction
LEMMA ReleaseType ==
    ASSUME NEW s \in ServerStates, NEW name \in Int, NEW r \in Release(s, name)
    PROVE  r \in Results /\ (s.status # "idle" => r.state.status # "idle")
  <1>1. CASE s.status = "intrans" /\ Latest(s, name) # {}
    <2>1. PICK i \in Latest(s, name) :
             r = Good([s EXCEPT !.saves = SubSeq(s.saves, 1, i - 1)])
      BY <1>1 DEF Release
    <2>2. i \in 1 .. Len(s.saves)
      BY DEF Latest, ServerStates
    <2> DEFINE q == SubSeq(s.saves, 1, i - 1)
               t == [s EXCEPT !.saves = q]
    <2>3. s.saves \in Seq(Savepoints)
      BY DEF ServerStates
    <2>4. q \in Seq(Savepoints)
      BY <2>2, <2>3, PrefixType
    <2>5. r = Good(t)
      BY <2>1
    <2> HIDE DEF q
    <2>6. t \in ServerStates /\ t.status = s.status
      BY <2>4 DEF ServerStates
    <2> HIDE DEF t
    <2> QED BY <2>5, <2>6, AnswerType
  <1>2. CASE ~(s.status = "intrans" /\ Latest(s, name) # {})
    BY <1>2, AnswerType DEF Release
  <1> QED BY <1>1, <1>2

\* COMMIT ends the transaction
LEMMA CommitType ==
    ASSUME NEW s \in ServerStates, NEW r \in Commit(s)
    PROVE  r \in Results /\ r.state.status = "idle"
  <1> DEFINE t == [s EXCEPT !.committed = s.committed \cup s.work]
  <1>1. t \in ServerStates
    BY DEF ServerStates
  <1>2. r \in {Good(End(t)), [state |-> End(s), ok |-> FALSE], Good(End(s))}
    BY DEF Commit
  <1> HIDE DEF t
  <1>3. End(t) \in ServerStates /\ End(t).status = "idle"
    BY <1>1, EndType
  <1>4. End(s) \in ServerStates /\ End(s).status = "idle"
    BY EndType
  <1>5. CASE r = Good(End(t))
    BY <1>3, <1>5, AnswerType
  <1>6. CASE r = [state |-> End(s), ok |-> FALSE]
    BY <1>4, <1>6 DEF Results
  <1>7. CASE r = Good(End(s))
    BY <1>4, <1>7, AnswerType
  <1> QED BY <1>2, <1>5, <1>6, <1>7

\* ROLLBACK too
LEMMA RollbackType ==
    ASSUME NEW s \in ServerStates, NEW r \in Rollback(s)
    PROVE  r \in Results /\ r.state.status = "idle"
  BY EndType, AnswerType DEF Rollback

\* A statement neither starts nor ends a transaction
LEMMA StatementType ==
    ASSUME NEW s \in ServerStates, NEW w \in Writes, NEW r \in Statement(s, w)
    PROVE  r \in Results /\ (r.state.status = "idle" => s.status = "idle")
  <1> DEFINE t == [s EXCEPT !.committed = s.committed \cup {w}]
             u == [s EXCEPT !.work = s.work \cup {w}]
  <1>1. t \in ServerStates /\ t.status = s.status /\ u \in ServerStates
          /\ u.status = s.status
    BY DEF ServerStates
  <1>2. r \in {Good(t), Good(u), Failed(s)}
    BY DEF Statement, ServerStates
  <1> HIDE DEF t, u
  <1>3. CASE r = Good(t)
    BY <1>1, <1>3, AnswerType
  <1>4. CASE r = Good(u)
    BY <1>1, <1>4, AnswerType
  <1>5. CASE r = Failed(s)
    BY <1>5, AnswerType
  <1> QED BY <1>2, <1>3, <1>4, <1>5

-----------------------------------------------------------------------------
(* The commands of a block *)

\* A block that is entered, or not, leaves a transaction (transaction.py:169-178)
LEMMA EnterType ==
    ASSUME NEW s \in ServerStates, NEW outer \in BOOLEAN, NEW name \in Int,
           outer \/ s.status # "idle", NEW r \in EnterCommands(s, outer, name)
    PROVE  r \in Results /\ r.state.status # "idle"
  <1> DEFINE Save(t) == IF name = NoName THEN {Good(t)} ELSE Savepoint(t, name)
  <1>1. ASSUME NEW t \in ServerStates, t.status # "idle", NEW a \in Save(t)
        PROVE  a \in Results /\ a.state.status # "idle"
    BY <1>1, AnswerType, SavepointType
  <1>2. CASE outer
    <2>1. r \in UNION {IF a.ok THEN Save(a.state) ELSE {a} : a \in Begin(s)}
      BY <1>2 DEF EnterCommands, Then
    <2>2. PICK a \in Begin(s) : r \in IF a.ok THEN Save(a.state) ELSE {a}
      BY <2>1
    <2>3. a \in Results /\ a.state.status # "idle"
      BY BeginType
    <2>4. a.state \in ServerStates
      BY <2>3 DEF Results
    <2> HIDE DEF Save
    <2> QED BY <1>1, <2>2, <2>3, <2>4
  <1>3. CASE ~outer
    <2>1. r \in Save(s)
      BY <1>3 DEF EnterCommands
    <2> HIDE DEF Save
    <2> QED BY <1>1, <1>3, <2>1
  <1> QED BY <1>2, <1>3

\* A block that is committed ends the transaction only if it is the outer one
\* (transaction.py:180-190)
LEMMA CommitCommandsType ==
    ASSUME TypeOK, NEW b \in Blocks, NEW r \in CommitCommands(b, server)
    PROVE  /\ r \in Results
           /\ server.status # "idle" /\ ~tx[b].outer => r.state.status # "idle"
  BY CommitType, ReleaseType DEF TypeOK, CommitCommands

\* ... and so one that is rolled back (transaction.py:192-207)
LEMMA RollbackCommandsType ==
    ASSUME TypeOK, NEW b \in Blocks, NEW r \in RollbackCommands(b, server)
    PROVE  /\ r \in Results
           /\ server.status # "idle" /\ ~tx[b].outer => r.state.status # "idle"
  <1>1. server \in ServerStates /\ tx[b].name \in Int
    BY DEF TypeOK
  <1>2. CASE tx[b].outer
    BY <1>1, <1>2, RollbackType DEF RollbackCommands
  <1>3. CASE ~tx[b].outer
    <2> DEFINE name == tx[b].name
    <2>1. r \in UNION {IF a.ok THEN Release(a.state, name) ELSE {a} :
                          a \in RollbackTo(server, name)}
      BY <1>3 DEF RollbackCommands, Then
    <2>2. PICK a \in RollbackTo(server, name) :
             r \in IF a.ok THEN Release(a.state, name) ELSE {a}
      BY <2>1
    <2>3. /\ a \in Results
          /\ server.status # "idle" => a.state.status # "idle"
      BY <1>1, RollbackToType
    <2>4. a.state \in ServerStates
      BY <2>3 DEF Results
    <2>5. CASE a.ok
      BY <1>1, <2>2, <2>3, <2>4, <2>5, ReleaseType
    <2>6. CASE ~a.ok
      BY <2>2, <2>3, <2>6
    <2> QED BY <2>5, <2>6
  <1> QED BY <1>2, <1>3

-----------------------------------------------------------------------------
(* The inductive invariant *)

\* A block to be left is counted (transaction.py:228-240)
LEMMA LeaveType ==
    ASSUME IInv, NEW b \in Blocks, Leave(b)
    PROVE  /\ open' \in Seq(Blocks) /\ Len(open') <= num - 1
           /\ num - 1 \in Nat /\ server.status # "idle"
           /\ ordered' \in BOOLEAN
  <1>1. open \in Seq(Blocks) /\ num \in Nat /\ Len(open) <= num
    BY DEF IInv, TypeOK, AllCounted
  <1>2. PICK i \in DOMAIN open :
           open' = SubSeq(open, 1, i - 1) \o SubSeq(open, i + 1, Len(open))
    BY DEF Leave
  <1>3. open' \in Seq(Blocks) /\ Len(open') = Len(open) - 1 /\ Len(open) >= 1
    <2>1. i \in 1 .. Len(open)
      BY <1>1
    <2> DEFINE p == SubSeq(open, 1, i - 1)
               q == SubSeq(open, i + 1, Len(open))
    <2>2. p \in Seq(Blocks) /\ Len(p) = i - 1
      BY <1>1, <2>1
    <2>3. q \in Seq(Blocks) /\ Len(q) = Len(open) - i
      BY <1>1, <2>1
    <2>4. open' = p \o q
      BY <1>2
    <2> HIDE DEF p, q
    <2>5. p \o q \in Seq(Blocks) /\ Len(p \o q) = Len(p) + Len(q)
      BY <2>2, <2>3
    <2> QED BY <1>1, <2>1, <2>2, <2>3, <2>4, <2>5, SMTT(40)
  <1>4. num - 1 \in Nat /\ Len(open') <= num - 1 /\ num # 0
    BY <1>1, <1>3
  <1>5. server.status # "idle"
    BY <1>4 DEF IInv, AssertionsHold
  <1>6. ordered' \in BOOLEAN
    BY Zenon DEF Leave, IInv, TypeOK
  <1> QED BY <1>3, <1>4, <1>5, <1>6

\* The initial state
LEMMA InitInv == Init => IInv
  BY TransactionAssumption DEF Init, ServerStates, NewBlock, Statuses, NoName, TypeOK,
     OuterFirst, AllCounted, AssertionsHold, IInv

\* execute()
LEMMA ExecuteInv == ASSUME IInv, Execute PROVE IInv'
  <1> DEFINE w == Len(around) + 1
             Run(s) == Statement(s, w)
             outcomes == IF ~autocommit /\ server.status = "idle"
                         THEN Then(Begin(server), Run) ELSE Run(server)
  <1>1. TypeOK /\ server \in ServerStates /\ w \in Writes
    BY DEF IInv, TypeOK, Execute
  <1>2. PICK r \in outcomes :
           /\ server' = r.state /\ forsaken' = forsaken
           /\ raising' = IF r.ok THEN "none" ELSE "error"
           /\ around' = IF r.ok THEN Append(around, {open[i] : i \in DOMAIN open}) ELSE around
    BY DEF Execute, Answered
  <1>3. r \in Results /\ (r.state.status = "idle" => server.status = "idle")
    BY <1>2, <1>1, BeginType, StatementType DEF Then, Results
  <1>4. server' \in ServerStates /\ r.ok \in BOOLEAN
    BY <1>2, <1>3 DEF Results
  <1>5. around' \in Seq(SUBSET Blocks) /\ Len(around') <= MaxWrites
    BY <1>1, TransactionAssumption, <1>2 DEF TypeOK, Writes
  <1>6. raising' \in {"none", "error", "rollback", "nesting"} \cup Blocks
    BY <1>2, <1>4
  <1>7. UNCHANGED <<autocommit, num, tx, open, ordered, distinct, forsaken>>
    BY <1>2 DEF Execute
  <1>8. TypeOK'
    BY <1>1, <1>4, <1>5, <1>6, <1>7 DEF TypeOK
  <1>9. OuterFirst' /\ AllCounted'
    BY <1>7 DEF IInv, OuterFirst, AllCounted
  <1>10. AssertionsHold'
    BY <1>2, <1>3, <1>7 DEF IInv, AssertionsHold
  <1> QED BY <1>8, <1>9, <1>10 DEF IInv

\* __enter__()
LEMMA EnterInv ==
    ASSUME IInv, NEW b \in Blocks, NEW name \in Names, NEW force \in BOOLEAN,
           Enter(b, name, force)
    PROVE  IInv'
  <1> DEFINE outer == server.status = "idle"
             sp == NameFor(outer, name)
             t == [status |-> "active", outer |-> outer, index |-> num, name |-> sp,
                   force |-> force]
  <1>1. TypeOK /\ server \in ServerStates /\ num \in Nat /\ open \in Seq(Blocks)
    BY DEF IInv, TypeOK
  <1>2. sp \in Int /\ outer \in BOOLEAN
    BY <1>1, TransactionAssumption DEF NameFor, NoName
  <1>3. tx' = [tx EXCEPT ![b] = t] /\ num' = num + 1
    BY DEF Enter, Push
  <1>4. PICK r \in EnterCommands(server, outer, sp) :
           /\ server' = r.state /\ forsaken' = forsaken
           /\ raising' = IF r.ok THEN "none" ELSE "error"
           /\ open' = IF r.ok THEN Append(open, b) ELSE open
    BY DEF Enter, Answered
  <1>5. r \in Results /\ r.state.status # "idle"
    BY <1>1, <1>2, <1>4, EnterType
  <1>6. server' \in ServerStates /\ r.ok \in BOOLEAN
    BY <1>4, <1>5 DEF Results
  <1>7. open' \in Seq(Blocks) /\ Len(open') <= Len(open) + 1
    BY <1>1, <1>4
  <1>8. distinct' \in BOOLEAN
    BY Zenon DEF Enter
  <1>9. t \in [status : Statuses, outer : BOOLEAN, index : Int, name : Int, force : BOOLEAN]
    BY <1>1, <1>2 DEF Statuses
  <1>10. outer => num = 0
    BY DEF IInv, AssertionsHold
  <1> HIDE DEF outer, sp
  <1>11. t.outer = outer /\ t.index = num
    OBVIOUS
  <1> HIDE DEF t
  <1>12. TypeOK'
    BY <1>1, <1>3, <1>9, <1>4, <1>6, <1>7, <1>8 DEF TypeOK, Enter
  <1>13. OuterFirst'
    BY <1>1, <1>3, <1>10, <1>11 DEF IInv, OuterFirst, TypeOK
  <1>14. AllCounted'
    BY <1>1, <1>3, <1>7 DEF IInv, AllCounted
  <1>15. AssertionsHold'
    BY <1>4, <1>5 DEF AssertionsHold
  <1> QED BY <1>12, <1>13, <1>14, <1>15 DEF IInv

\* __exit__(), once the commands have been executed, or not
LEMMA ExitInv ==
    ASSUME IInv, NEW b \in Blocks, NEW st \in Statuses, Leave(b),
           num' = num - 1, tx' = [tx EXCEPT ![b].status = st],
           raising' \in {"none", "error", "rollback", "nesting"} \cup Blocks,
           server' \in ServerStates,
           server'.status # "idle" \/ (Popped(b) /\ tx[b].outer),
           forsaken' \subseteq Writes,
           UNCHANGED <<autocommit, around, distinct>>
    PROVE  IInv'
  BY LeaveType DEF IInv, TypeOK, OuterFirst, AllCounted, Popped, AssertionsHold

\* __exit__() of a block to commit
LEMMA ExitCommitInv ==
    ASSUME IInv, NEW b \in Blocks, ExitCommit(b)
    PROVE  IInv'
  <1>1. TypeOK /\ server \in ServerStates /\ forsaken \subseteq Writes
    BY DEF IInv, TypeOK
  <1>2. Leave(b) /\ server.status # "idle"
    BY LeaveType DEF ExitCommit
  <1>3. /\ num' = num - 1
        /\ tx' = [tx EXCEPT ![b].status = "committed"]
        /\ UNCHANGED <<autocommit, around, distinct>>
    BY DEF ExitCommit
  <1>4. "committed" \in Statuses
    BY DEF Statuses
  <1>5. CASE ~Popped(b)
    BY <1>5, <1>1, <1>2, <1>3, <1>4, ExitInv DEF ExitCommit
  <1>6. CASE Popped(b)
    <2>1. PICK r \in CommitCommands(b, server) :
             Ended(r) /\ raising' = IF r.ok THEN "none" ELSE "error"
      BY <1>6 DEF ExitCommit
    <2>2. r \in Results /\ (~tx[b].outer => r.state.status # "idle")
      BY <1>1, <1>2, CommitCommandsType
    <2>3. server' \in ServerStates
            /\ (server'.status # "idle" \/ (Popped(b) /\ tx[b].outer))
      BY <1>6, <2>1, <2>2 DEF Ended, Results
    <2>4. forsaken' \subseteq Writes
      BY <1>1, <2>1 DEF Ended, ServerStates
    <2>5. raising' \in {"none", "error", "rollback", "nesting"} \cup Blocks
      BY <2>1
    <2> QED BY <1>2, <1>3, <1>4, <2>3, <2>4, <2>5, ExitInv
  <1> QED BY <1>5, <1>6

\* __exit__() of a block to roll back
LEMMA ExitRollbackInv ==
    ASSUME IInv, NEW b \in Blocks, ExitRollback(b)
    PROVE  IInv'
  <1> DEFINE explicit == raising = "rollback" \/ raising \in Blocks
             st == IF explicit \/ tx[b].force THEN "rolled_back_explicitly"
                   ELSE "rolled_back_with_error"
  <1>1. TypeOK /\ server \in ServerStates /\ forsaken \subseteq Writes
          /\ raising \in {"none", "error", "rollback", "nesting"} \cup Blocks
    BY DEF IInv, TypeOK
  <1>2. Leave(b) /\ server.status # "idle"
    BY LeaveType DEF ExitRollback
  <1>3. /\ num' = num - 1
        /\ tx' = [tx EXCEPT ![b].status = st]
        /\ UNCHANGED <<autocommit, around, distinct>>
    BY DEF ExitRollback
  <1>4. st \in Statuses
    BY DEF Statuses
  <1>5. CASE ~Popped(b)
    <2>1. raising' = "nesting" /\ server' = server /\ forsaken' = forsaken
      BY <1>5 DEF ExitRollback
    <2> HIDE DEF st
    <2> QED BY <1>1, <1>2, <1>3, <1>4, <2>1, ExitInv
  <1>6. CASE Popped(b)
    <2>1. PICK r \in RollbackCommands(b, server) :
             /\ Answered(r)
             /\ raising' = IF r.ok /\ raising \in {"rollback", b} THEN "none" ELSE raising
      BY <1>6 DEF ExitRollback
    <2>2. r \in Results /\ (~tx[b].outer => r.state.status # "idle")
      BY <1>1, <1>2, RollbackCommandsType
    <2>3. server' \in ServerStates
            /\ (server'.status # "idle" \/ (Popped(b) /\ tx[b].outer))
      BY <1>6, <2>1, <2>2 DEF Answered, Results
    <2>4. forsaken' \subseteq Writes
      BY <1>1, <2>1 DEF Answered
    <2>5. raising' \in {"none", "error", "rollback", "nesting"} \cup Blocks
      BY <1>1, <2>1
    <2> HIDE DEF st
    <2> QED BY <1>2, <1>3, <1>4, <2>3, <2>4, <2>5, ExitInv
  <1> QED BY <1>5, <1>6

\* A step that only changes the exception
LEMMA RaisingInv ==
    ASSUME IInv, UNCHANGED <<autocommit, num, tx, open, server, historyVars>>,
           raising' \in {"none", "error", "rollback", "nesting"} \cup Blocks
    PROVE  IInv'
  BY DEF IInv, TypeOK, OuterFirst, AllCounted, AssertionsHold, historyVars

\* commit() and rollback() of the connection, out of any block
LEMMA ConnEndInv ==
    ASSUME IInv, num = 0, server' \in ServerStates, forsaken' \subseteq Writes,
           raising' \in {"none", "error", "rollback", "nesting"} \cup Blocks,
           UNCHANGED <<autocommit, num, tx, open, around, ordered, distinct>>
    PROVE  IInv'
  BY DEF IInv, TypeOK, OuterFirst, AllCounted, AssertionsHold

\* Every step keeps the invariant
LEMMA NextInv == IInv /\ [Next]_vars => IInv'
  <1> SUFFICES ASSUME IInv, [Next]_vars PROVE IInv'
    OBVIOUS
  <1>1. TypeOK /\ server \in ServerStates /\ forsaken \subseteq Writes
          /\ raising \in {"none", "error", "rollback", "nesting"} \cup Blocks
    BY DEF IInv, TypeOK
  <1>2. CASE Execute
    BY <1>2, ExecuteInv
  <1>3. CASE \E b \in Blocks, name \in Names, force \in BOOLEAN : Enter(b, name, force)
    BY <1>3, EnterInv
  <1>4. CASE \E b \in Blocks : ExitCommit(b)
    BY <1>4, ExitCommitInv
  <1>5. CASE \E b \in Blocks : ExitRollback(b)
    BY <1>5, ExitRollbackInv
  <1>6. CASE \E e \in {"error", "rollback"} \cup {open[i] : i \in DOMAIN open} : Raise(e)
    BY <1>6, <1>1, RaisingInv DEF TypeOK, Raise
  <1>7. CASE Handle
    BY <1>7, RaisingInv DEF Handle
  <1>8. CASE Forbidden
    BY <1>8, RaisingInv DEF Forbidden
  <1>9. CASE ConnCommit
    BY <1>9, <1>1, CommitType, ConnEndInv DEF ConnCommit, Ended, Results, ServerStates
  <1>10. CASE ConnRollback
    BY <1>10, <1>1, RollbackType, ConnEndInv DEF ConnRollback, Results, ServerStates,
       clientVars
  <1>11. CASE UNCHANGED vars
    BY <1>1, <1>11, RaisingInv DEF vars, clientVars, historyVars
  <1> QED
    BY <1>2, <1>3, <1>4, <1>5, <1>6, <1>7, <1>8, <1>9, <1>10, <1>11 DEF Next

\* The inductive invariant holds: the outer block is the first of the stack, and
\* every block to be left is counted
THEOREM Inductive == Spec => []IInv
  BY InitInv, NextInv, PTL DEF Spec

\* The state keeps its types; in particular _num_transactions is never negative,
\* in whatever order the blocks are left (transaction.py:226,234)
THEOREM TypeCorrect == Spec => []TypeOK
  <1>1. IInv => TypeOK
    BY DEF IInv
  <1> QED BY <1>1, Inductive, PTL

\* The assertions on _num_transactions never fail: out of a transaction no block is
\* counted (transaction.py:189,206,219)
THEOREM AssertionsCorrect == Spec => []AssertionsHold
  <1>1. IInv => AssertionsHold
    BY DEF IInv
  <1> QED BY <1>1, Inductive, PTL

-----------------------------------------------------------------------------
(* What the commands of the server do, field by field *)

SameData(t, s) == t.saves = s.saves /\ t.work = s.work /\ t.committed = s.committed

\* The fields of an answer
LEMMA AnswerDoes ==
    ASSUME NEW s \in ServerStates
    PROVE  /\ Good(s).ok /\ Good(s).state = s
           /\ ~Failed(s).ok /\ SameData(Failed(s).state, s)
           /\ Failed(s).state.status = IF s.status = "idle" THEN "idle" ELSE "inerror"
  BY DEF Good, Failed, SameData, ServerStates

\* BEGIN succeeds
LEMMA BeginDoes ==
    ASSUME NEW s \in ServerStates, NEW r \in Begin(s)
    PROVE  /\ r.ok /\ SameData(r.state, s)
           /\ r.state.status = IF s.status = "idle" THEN "intrans" ELSE s.status
  <1> DEFINE t == [s EXCEPT !.status = IF s.status = "idle" THEN "intrans" ELSE s.status]
  <1>1. /\ t \in ServerStates /\ SameData(t, s)
        /\ t.status = IF s.status = "idle" THEN "intrans" ELSE s.status
    BY DEF ServerStates, SameData
  <1>2. r = Good(t)
    BY DEF Begin
  <1> HIDE DEF t
  <1> QED BY <1>1, <1>2, AnswerDoes

\* SAVEPOINT succeeds in a transaction that is not aborted
LEMMA SavepointDoes ==
    ASSUME NEW s \in ServerStates, NEW name \in Int, NEW r \in Savepoint(s, name)
    PROVE  /\ s.status = "intrans" =>
                /\ r.ok /\ r.state.status = "intrans"
                /\ r.state.saves = Append(s.saves, [name |-> name, work |-> s.work])
                /\ r.state.work = s.work /\ r.state.committed = s.committed
           /\ s.status = "inerror" =>
                ~r.ok /\ SameData(r.state, s) /\ r.state.status = "inerror"
  <1>1. CASE s.status = "intrans"
    <2> DEFINE q == Append(s.saves, [name |-> name, work |-> s.work])
    <2>1. r = Good([s EXCEPT !.saves = q])
      BY <1>1 DEF Savepoint
    <2>2. q \in Seq(Savepoints)
      BY DEF ServerStates, Savepoints
    <2> DEFINE t == [s EXCEPT !.saves = q]
    <2> HIDE DEF q
    <2>3. /\ t \in ServerStates /\ t.saves = q /\ t.status = s.status
          /\ t.work = s.work /\ t.committed = s.committed
      BY <2>2 DEF ServerStates
    <2>4. r = Good(t)
      BY <2>1
    <2> HIDE DEF t
    <2>5. r.ok /\ r.state = t
      BY <2>3, <2>4, AnswerDoes
    <2> QED BY <1>1, <2>3, <2>5 DEF q
  <1>2. CASE s.status # "intrans"
    <2>1. r = Failed(s)
      BY <1>2 DEF Savepoint
    <2> QED BY <1>2, <2>1, AnswerDoes
  <1> QED BY <1>1, <1>2

\* No two savepoints have a name in common
OneOfEach(s) == \A i, j \in DOMAIN s.saves : s.saves[i].name = s.saves[j].name => i = j

\* ... and then the most recent one of a name is the only one
LEMMA LatestOne ==
    ASSUME NEW s \in ServerStates, OneOfEach(s), NEW k \in DOMAIN s.saves
    PROVE  Latest(s, s.saves[k].name) = {k}
  BY DEF ServerStates, Latest, OneOfEach

\* ROLLBACK TO drops the savepoints after the one it finds
LEMMA RollbackToDoes ==
    ASSUME NEW s \in ServerStates, OneOfEach(s), NEW k \in DOMAIN s.saves,
           NEW r \in RollbackTo(s, s.saves[k].name)
    PROVE  /\ r.ok /\ r.state.status = "intrans"
           /\ r.state.saves = SubSeq(s.saves, 1, k) /\ r.state.work = s.saves[k].work
           /\ r.state.committed = s.committed
  <1> DEFINE q == SubSeq(s.saves, 1, k)
             v == s.saves[k].work
             t == [s EXCEPT !.status = "intrans", !.saves = q, !.work = v]
  <1>1. r = Good(t)
    <2>1. RollbackTo(s, s.saves[k].name) =
             {Good([s EXCEPT !.status = "intrans", !.saves = SubSeq(s.saves, 1, i),
                             !.work = s.saves[i].work]) : i \in {k}}
      BY LatestOne DEF RollbackTo
    <2> QED BY <2>1
  <1> HIDE DEF q, v
  <1>2. /\ t.status = "intrans" /\ t.saves = q /\ t.work = v
        /\ t.committed = s.committed
    BY DEF ServerStates
  <1> HIDE DEF t
  <1>3. r.ok /\ r.state = t
    BY <1>1 DEF Good
  <1> QED BY <1>2, <1>3 DEF q, v

\* RELEASE drops that one too
LEMMA ReleaseDoes ==
    ASSUME NEW s \in ServerStates, OneOfEach(s), NEW k \in DOMAIN s.saves,
           NEW r \in Release(s, s.saves[k].name)
    PROVE  /\ s.status = "intrans" =>
                /\ r.ok /\ r.state.status = "intrans"
                /\ r.state.saves = SubSeq(s.saves, 1, k - 1)
                /\ r.state.work = s.work /\ r.state.committed = s.committed
           /\ s.status = "inerror" =>
                ~r.ok /\ SameData(r.state, s) /\ r.state.status = "inerror"
  <1>1. CASE s.status = "intrans"
    <2> DEFINE q == SubSeq(s.saves, 1, k - 1)
               t == [s EXCEPT !.saves = q]
    <2>1. r = Good(t)
      <3>1. Release(s, s.saves[k].name) =
               {Good([s EXCEPT !.saves = SubSeq(s.saves, 1, i - 1)]) : i \in {k}}
        BY <1>1, LatestOne DEF Release
      <3> QED BY <3>1
    <2> HIDE DEF q
    <2>2. /\ t.status = s.status /\ t.saves = q /\ t.work = s.work
          /\ t.committed = s.committed
      BY DEF ServerStates
    <2> HIDE DEF t
    <2>3. r.ok /\ r.state = t
      BY <2>1 DEF Good
    <2> QED BY <1>1, <2>2, <2>3 DEF q
  <1>2. CASE s.status # "intrans"
    <2>1. r = Failed(s)
      BY <1>2 DEF Release
    <2> QED BY <1>2, <2>1, AnswerDoes
  <1> QED BY <1>1, <1>2

Ending(t) == t.status = "idle" /\ t.saves = <<>> /\ t.work = {}

\* COMMIT keeps the work, unless it fails or the transaction is aborted
LEMMA CommitDoes ==
    ASSUME NEW s \in ServerStates, NEW r \in Commit(s)
    PROVE  /\ Ending(r.state)
           /\ \/ s.status = "intrans" /\ r.state.committed = s.committed \cup s.work
              \/ /\ r.state.committed = s.committed
                 /\ ~r.ok \/ s.status # "intrans"
  <1> DEFINE t == [s EXCEPT !.committed = s.committed \cup s.work]
  <1>1. /\ Ending(End(s)) /\ End(s).committed = s.committed
        /\ Ending(End(t)) /\ End(t).committed = s.committed \cup s.work
    BY DEF End, Ending, ServerStates
  <1>2. \/ s.status = "intrans" /\ r = Good(End(t))
        \/ s.status = "intrans" /\ r = [state |-> End(s), ok |-> FALSE]
        \/ s.status # "intrans" /\ r = Good(End(s))
    BY DEF Commit
  <1> HIDE DEF t
  <1> QED BY <1>1, <1>2 DEF Good

\* ROLLBACK drops the work
LEMMA RollbackDoes ==
    ASSUME NEW s \in ServerStates, NEW r \in Rollback(s)
    PROVE  Ending(r.state) /\ r.state.committed = s.committed
  <1>1. Ending(End(s)) /\ End(s).committed = s.committed
    BY DEF End, Ending, ServerStates
  <1>2. r = Good(End(s))
    BY DEF Rollback
  <1> QED BY <1>1, <1>2 DEF Good

\* A statement is part of the transaction, or permanent out of one
LEMMA StatementDoes ==
    ASSUME NEW s \in ServerStates, NEW w, NEW r \in Statement(s, w)
    PROVE  /\ r.state.saves = s.saves
           /\ \/ /\ ~r.ok /\ SameData(r.state, s)
                 /\ r.state.status = IF s.status = "idle" THEN "idle" ELSE "inerror"
              \/ /\ r.ok /\ s.status = "intrans" /\ r.state.status = "intrans"
                 /\ r.state.work = s.work \cup {w} /\ r.state.committed = s.committed
              \/ /\ r.ok /\ s.status = "idle" /\ r.state.status = "idle"
                 /\ r.state.work = s.work /\ r.state.committed = s.committed \cup {w}
  <1> DEFINE t == [s EXCEPT !.committed = s.committed \cup {w}]
             u == [s EXCEPT !.work = s.work \cup {w}]
  <1>1. /\ t.status = s.status /\ t.saves = s.saves /\ t.work = s.work
        /\ t.committed = s.committed \cup {w}
        /\ u.status = s.status /\ u.saves = s.saves /\ u.work = s.work \cup {w}
        /\ u.committed = s.committed
    BY DEF ServerStates
  <1>2. \/ s.status = "idle" /\ r = Good(t)
        \/ s.status = "intrans" /\ r = Good(u)
        \/ r = Failed(s)
    BY DEF Statement
  <1> HIDE DEF t, u
  <1>3. CASE s.status = "idle" /\ r = Good(t)
    BY <1>1, <1>3 DEF Good
  <1>4. CASE s.status = "intrans" /\ r = Good(u)
    BY <1>1, <1>4 DEF Good
  <1>5. CASE r = Failed(s)
    BY <1>5, AnswerDoes DEF SameData
  <1> QED BY <1>2, <1>3, <1>4, <1>5

-----------------------------------------------------------------------------
(* What the steps of the program do *)

\* Where the writes that a statement makes are executed
Here == {open[i] : i \in DOMAIN open}

\* execute(): the statement is done in the transaction, or alone, or it fails
\* (_connection_base.py: _start_query)
LEMMA ExecuteDoes ==
    ASSUME TypeOK, Execute
    PROVE  /\ UNCHANGED <<autocommit, num, tx, open, ordered, distinct, forsaken>>
           /\ server'.saves = server.saves
           /\ \/ /\ around' = around
                 /\ server'.work = server.work /\ server'.committed = server.committed
                 /\ server.status # "idle" => server'.status = "inerror"
                 /\ server.status = "idle" /\ autocommit => server'.status = "idle"
              \/ /\ around' = Append(around, Here) /\ server'.status = "intrans"
                 /\ server.status # "inerror" /\ (server.status = "idle" => ~autocommit)
                 /\ server'.work = server.work \cup {Len(around) + 1}
                 /\ server'.committed = server.committed
              \/ /\ around' = Append(around, Here)
                 /\ server.status = "idle" /\ server'.status = "idle"
                 /\ server'.work = server.work
                 /\ server'.committed = server.committed \cup {Len(around) + 1}
  <1> DEFINE w == Len(around) + 1
             Run(s) == Statement(s, w)
             outcomes == IF ~autocommit /\ server.status = "idle"
                         THEN Then(Begin(server), Run) ELSE Run(server)
  <1>1. server \in ServerStates /\ w \in Writes /\ autocommit \in BOOLEAN
    BY DEF TypeOK, Execute
  <1>2. PICK r \in outcomes :
           /\ server' = r.state /\ forsaken' = forsaken
           /\ around' = IF r.ok THEN Append(around, Here) ELSE around
    BY DEF Execute, Answered, Here
  <1>3. UNCHANGED <<autocommit, num, tx, open, ordered, distinct, forsaken>>
    BY <1>2 DEF Execute
  <1>4. CASE ~autocommit /\ server.status = "idle"
    <2>1. PICK a \in Begin(server) : r \in IF a.ok THEN Run(a.state) ELSE {a}
      BY <1>2, <1>4 DEF Then
    <2>2. a.state \in ServerStates
      BY <1>1, BeginType DEF Results
    <2>3. a.ok /\ SameData(a.state, server) /\ a.state.status = "intrans"
      BY <1>1, <1>4, BeginDoes
    <2>4. r \in Statement(a.state, w)
      BY <2>1, <2>3
    <2> HIDE DEF w
    <2> QED BY <1>2, <1>3, <1>4, <2>2, <2>3, <2>4, StatementDoes DEF SameData, w
  <1>5. CASE ~(~autocommit /\ server.status = "idle")
    <2>1. r \in Statement(server, w)
      BY <1>2, <1>5
    <2>2. server.status \in {"idle", "intrans", "inerror"}
      BY <1>1 DEF ServerStates
    <2> HIDE DEF w
    <2> QED BY <1>1, <1>2, <1>3, <1>5, <2>1, <2>2, StatementDoes DEF SameData, w
  <1> QED BY <1>4, <1>5

\* __enter__(): the block is entered, unless the transaction is aborted; it is counted
\* in both cases (transaction.py:165-178, 209-224)
LEMMA EnterDoes ==
    ASSUME TypeOK, NEW b \in Blocks, NEW name \in Names, NEW force \in BOOLEAN,
           Enter(b, name, force)
    PROVE  LET outer == server.status = "idle"
               sp == NameFor(outer, name)
           IN  /\ tx[b].status = "not_started" /\ Push(b, outer, sp, force)
               /\ sp \in Int /\ (sp = NoName => outer)
               /\ UNCHANGED <<autocommit, around, ordered, forsaken>>
               /\ server'.work = server.work /\ server'.committed = server.committed
               /\ \/ /\ server.status = "inerror" /\ server'.status = "inerror"
                     /\ open' = open /\ server'.saves = server.saves
                  \/ /\ server.status # "inerror" /\ server'.status = "intrans"
                     /\ open' = Append(open, b)
                     /\ server'.saves =
                            IF sp = NoName THEN server.saves
                            ELSE Append(server.saves, [name |-> sp, work |-> server.work])
  <1> DEFINE outer == server.status = "idle"
             sp == NameFor(outer, name)
             Save(t) == IF sp = NoName THEN {Good(t)} ELSE Savepoint(t, sp)
  <1>1. /\ server \in ServerStates /\ num \in Nat
        /\ server.status \in {"idle", "intrans", "inerror"}
    BY DEF TypeOK, ServerStates
  <1>2. sp \in Int /\ (sp = NoName => outer)
    BY <1>1, TransactionAssumption DEF NameFor, NoName
  <1>3. /\ tx[b].status = "not_started" /\ Push(b, outer, sp, force)
        /\ UNCHANGED <<autocommit, around, ordered>>
    BY DEF Enter
  <1>4. PICK r \in EnterCommands(server, outer, sp) :
           /\ server' = r.state /\ forsaken' = forsaken
           /\ open' = IF r.ok THEN Append(open, b) ELSE open
    BY DEF Enter, Answered
  <1>5. ASSUME NEW t \in ServerStates, SameData(t, server), t.status = "intrans", r \in Save(t)
        PROVE  /\ r.ok /\ r.state.status = "intrans"
               /\ r.state.work = server.work /\ r.state.committed = server.committed
               /\ r.state.saves =
                      IF sp = NoName THEN server.saves
                      ELSE Append(server.saves, [name |-> sp, work |-> server.work])
    <2> HIDE DEF sp
    <2>1. CASE sp = NoName
      BY <1>5, <2>1, AnswerDoes DEF SameData
    <2>2. CASE sp # NoName
      BY <1>5, <2>2, <1>2, SavepointDoes DEF SameData
    <2> QED BY <2>1, <2>2
  <1>6. CASE outer
    <2>1. PICK a \in Begin(server) : r \in IF a.ok THEN Save(a.state) ELSE {a}
      BY <1>4, <1>6 DEF EnterCommands, Then
    <2>2. a.state \in ServerStates
      BY <1>1, BeginType DEF Results
    <2>3. a.ok /\ SameData(a.state, server) /\ a.state.status = "intrans"
      BY <1>1, <1>6, BeginDoes
    <2>4. r \in Save(a.state)
      BY <2>1, <2>3
    <2> HIDE DEF sp, Save
    <2>5. /\ r.ok /\ r.state.status = "intrans"
          /\ r.state.work = server.work /\ r.state.committed = server.committed
          /\ r.state.saves =
                 IF sp = NoName THEN server.saves
                 ELSE Append(server.saves, [name |-> sp, work |-> server.work])
      BY <1>5, <2>2, <2>3, <2>4
    <2> QED BY <1>2, <1>3, <1>4, <1>6, <2>5 DEF sp
  <1>7. CASE ~outer
    <2>1. r \in Save(server)
      BY <1>4, <1>7 DEF EnterCommands
    <2>2. CASE server.status = "intrans"
      <3> HIDE DEF sp, Save
      <3>1. SameData(server, server)
        BY DEF SameData
      <3>2. /\ r.ok /\ r.state.status = "intrans"
            /\ r.state.work = server.work /\ r.state.committed = server.committed
            /\ r.state.saves =
                   IF sp = NoName THEN server.saves
                   ELSE Append(server.saves, [name |-> sp, work |-> server.work])
        BY <1>1, <1>5, <2>1, <2>2, <3>1
      <3> QED BY <1>2, <1>3, <1>4, <2>2, <3>2 DEF sp
    <2>3. CASE server.status = "inerror"
      <3>1. r \in Savepoint(server, sp)
        BY <1>2, <1>7, <2>1
      <3> HIDE DEF sp
      <3>2. ~r.ok /\ SameData(r.state, server) /\ r.state.status = "inerror"
        BY <1>1, <1>2, <2>3, <3>1, SavepointDoes
      <3> QED BY <1>2, <1>3, <1>4, <2>3, <3>2 DEF sp, SameData
    <2> QED BY <1>1, <1>7, <2>2, <2>3
  <1> QED BY <1>6, <1>7

-----------------------------------------------------------------------------
(* The stack of blocks, when they are left in order *)

\* The blocks open are counted from 0 in the order of entering
BlocksCounted ==
    \A i \in DOMAIN open :
        /\ tx[open[i]].status = "active" /\ tx[open[i]].index = i - 1
        /\ tx[open[i]].name = NoName => tx[open[i]].outer

\* A block that failed to be entered stays counted; then the transaction is aborted,
\* and will be for ever, since no block is the last one of the stack any more
NoneLeaked == server.status # "inerror" => num = Len(open)

\* In autocommit mode a transaction belongs to the outer block, unless it is stuck so
Owned ==
    autocommit /\ server.status # "idle" =>
        num > Len(open) \/ (open # <<>> /\ tx[open[1]].outer)

Stacked == ordered => BlocksCounted /\ NoneLeaked /\ Owned

\* Out of a transaction there is nothing to undo
IdleEmpty == server.status = "idle" => Ending(server)

\* The names that blocks got for their place are not those of other places, and the
\* names that the program gave them are different
NamesDiffer ==
    Proper =>
        /\ \A i \in DOMAIN open : tx[open[i]].name <= 0 \/ tx[open[i]].name = i
        /\ \A i, j \in DOMAIN open : tx[open[i]].name = tx[open[j]].name => i = j

StackInv == Stacked /\ IdleEmpty /\ NamesDiffer

\* A block that is left in order is the last one, and the others stay where they are
LEMMA LeaveLast ==
    ASSUME IInv, Stacked, NEW b \in Blocks, Leave(b), ordered'
    PROVE  /\ ordered /\ open # <<>> /\ open[Len(open)] = b
           /\ Len(open) \in Nat /\ Len(open') = Len(open) - 1
           /\ \A i \in DOMAIN open' : i \in DOMAIN open /\ i < Len(open) /\ open'[i] = open[i]
           /\ DOMAIN open' = 1 .. Len(open) - 1
  <1>1. open \in Seq(Blocks) /\ ordered \in BOOLEAN
    BY DEF IInv, TypeOK
  <1>2. ordered /\ Innermost(b)
    BY <1>1 DEF Leave
  <1>3. PICK i \in DOMAIN open :
           open[i] = b /\ open' = SubSeq(open, 1, i - 1) \o SubSeq(open, i + 1, Len(open))
    BY DEF Leave
  <1>4. i = Len(open) /\ Len(open) \in DOMAIN open
    <2>1. Len(open) \in DOMAIN open /\ open[Len(open)] = b
      BY <1>1, <1>2 DEF Innermost
    <2>2. tx[open[i]].index = i - 1 /\ tx[open[Len(open)]].index = Len(open) - 1
      BY <1>2, <2>1 DEF Stacked, BlocksCounted
    <2> QED BY <1>1, <1>3, <2>1, <2>2
  <1>5. open' = SubSeq(open, 1, Len(open) - 1)
    <2> DEFINE n == Len(open)
               p == SubSeq(open, 1, n - 1)
    <2>1. SubSeq(open, n + 1, n) = <<>> /\ p \in Seq(Blocks)
      BY <1>1, <1>4
    <2>2. open' = p \o <<>>
      BY <1>3, <1>4, <2>1
    <2> HIDE DEF p
    <2> QED BY <2>1, <2>2 DEF p
  <1> QED BY <1>1, <1>2, <1>4, <1>5 DEF Innermost

\* It is the last one counted too, unless another one failed to be entered
LEMMA LastPopped ==
    ASSUME IInv, Stacked, NEW b \in Blocks, Leave(b), ordered'
    PROVE  /\ Popped(b) <=> num = Len(open)
           /\ ~Popped(b) => server.status = "inerror" /\ num > Len(open)
           /\ tx[b].outer => Len(open) = 1
           /\ tx[b].name = NoName => tx[b].outer
           /\ tx[b].status = "active"
  <1>1. /\ ordered /\ open # <<>> /\ open[Len(open)] = b /\ Len(open) \in Nat
        /\ Len(open) \in DOMAIN open
    BY LeaveLast DEF IInv, TypeOK
  <1>2. num \in Nat /\ Len(open) <= num
    BY DEF IInv, TypeOK, AllCounted
  <1>3. /\ tx[b].index = Len(open) - 1 /\ (tx[b].name = NoName => tx[b].outer)
        /\ tx[b].status = "active"
        /\ server.status # "inerror" => num = Len(open)
    BY <1>1 DEF Stacked, BlocksCounted, NoneLeaked
  <1>4. tx[b].outer => tx[b].index = 0
    BY DEF IInv, OuterFirst
  <1> QED BY <1>1, <1>2, <1>3, <1>4 DEF Popped

\* Only the status of a block changes when it is left
Marked(b, st) ==
    \A c \in Blocks :
        /\ tx'[c].index = tx[c].index /\ tx'[c].name = tx[c].name
        /\ tx'[c].outer = tx[c].outer
        /\ tx'[c].status = IF c = b THEN st ELSE tx[c].status

\* ... when the status is all that was assigned
LEMMA StatusOnly ==
    ASSUME TypeOK, NEW b \in Blocks, NEW st, tx' = [tx EXCEPT ![b].status = st]
    PROVE  Marked(b, st)
  BY DEF TypeOK, Marked

\* Leaving a block keeps the stack
LEMMA ExitStack ==
    ASSUME IInv, StackInv, NEW b \in Blocks, NEW st, Leave(b),
           num' = num - 1, Marked(b, st),
           UNCHANGED <<autocommit, distinct>>,
           ~Popped(b) => server' = server,
           Popped(b) /\ tx[b].outer => server'.status = "idle",
           server'.status = "idle" => Ending(server')
    PROVE  StackInv'
  <1>1. TypeOK /\ open \in Seq(Blocks) /\ num \in Nat
    BY DEF IInv, TypeOK
  <1>2. \A c \in Blocks :
              /\ tx'[c].index = tx[c].index /\ tx'[c].name = tx[c].name
              /\ tx'[c].outer = tx[c].outer
              /\ tx'[c].status = IF c = b THEN st ELSE tx[c].status
    BY DEF Marked
  <1>3. Stacked'
    <2> SUFFICES ASSUME ordered' PROVE (BlocksCounted /\ NoneLeaked /\ Owned)'
      BY DEF Stacked
    <2>1. /\ ordered /\ open # <<>> /\ open[Len(open)] = b
          /\ Len(open) \in Nat /\ Len(open') = Len(open) - 1
          /\ \A i \in DOMAIN open' : i \in DOMAIN open /\ i < Len(open) /\ open'[i] = open[i]
          /\ DOMAIN open' = 1 .. Len(open) - 1
      BY LeaveLast DEF StackInv
    <2>2. /\ Popped(b) <=> num = Len(open)
          /\ ~Popped(b) => server.status = "inerror" /\ num > Len(open)
          /\ tx[b].outer => Len(open) = 1
      BY LastPopped DEF StackInv
    <2>3. BlocksCounted /\ Owned
      BY <2>1 DEF StackInv, Stacked
    <2>4. BlocksCounted'
      BY <1>1, <2>1, <2>3, <1>2 DEF BlocksCounted
    <2>5. NoneLeaked'
      BY <1>1, <2>1, <2>2 DEF NoneLeaked
    <2>6. Owned'
      BY LeaveType, <2>3, <1>1, <2>1, <2>2, <1>2 DEF Owned
    <2> QED BY <2>4, <2>5, <2>6
  <1>4. IdleEmpty'
    BY DEF IdleEmpty, Ending
  <1>5. NamesDiffer'
    BY LeaveLast, <1>1, <1>2 DEF NamesDiffer, Proper, StackInv
  <1> QED BY <1>3, <1>4, <1>5 DEF StackInv

\* The initial state
LEMMA InitStack == Init => StackInv
  BY DEF Init, Ending, StackInv, Stacked, BlocksCounted, NoneLeaked, Owned, IdleEmpty,
     NamesDiffer

\* execute() starts no transaction in autocommit mode
LEMMA ExecuteStack == ASSUME IInv, StackInv, Execute PROVE StackInv'
  <1>1. TypeOK /\ server.status \in {"idle", "intrans", "inerror"}
    BY DEF IInv, TypeOK, ServerStates
  <1>2. /\ UNCHANGED <<autocommit, num, tx, open, ordered, distinct>>
        /\ server'.saves = server.saves
        /\ server.status # "idle" => server'.status # "idle"
        /\ autocommit /\ server'.status # "idle" => server.status # "idle"
        /\ server'.status = "idle" => server'.work = server.work
        /\ server'.status # "inerror" => server.status # "inerror"
    BY <1>1, ExecuteDoes
  <1>3. Stacked'
    BY <1>2 DEF StackInv, Stacked, BlocksCounted, NoneLeaked, Owned
  <1>4. IdleEmpty'
    BY <1>2 DEF StackInv, IdleEmpty, Ending
  <1>5. NamesDiffer'
    BY <1>2 DEF StackInv, NamesDiffer, Proper
  <1> QED BY <1>3, <1>4, <1>5 DEF StackInv

\* __enter__() gives the block the next place, and a name of its own
LEMMA EnterStack ==
    ASSUME IInv, StackInv, NEW b \in Blocks, NEW name \in Names, NEW force \in BOOLEAN,
           Enter(b, name, force)
    PROVE  StackInv'
  <1> DEFINE outer == server.status = "idle"
             sp == NameFor(outer, name)
             n == Len(open)
  <1>1. /\ TypeOK /\ open \in Seq(Blocks) /\ num \in Nat /\ n \in Nat /\ n <= num
        /\ ordered \in BOOLEAN
    BY DEF IInv, TypeOK, AllCounted
  <1>2. /\ tx[b].status = "not_started" /\ sp \in Int /\ (sp = NoName => outer)
        /\ Push(b, outer, sp, force)
        /\ UNCHANGED <<autocommit, ordered>>
        /\ \/ /\ server.status = "inerror" /\ server'.status = "inerror"
              /\ open' = open
           \/ /\ server.status # "inerror" /\ server'.status = "intrans"
              /\ open' = Append(open, b)
    BY <1>1, EnterDoes
  <1>3. /\ \A c \in Blocks : c # b => tx'[c] = tx[c]
        /\ tx'[b].status = "active" /\ (outer => tx'[b].outer) /\ tx'[b].index = num
        /\ tx'[b].name = sp /\ num' = num + 1
    <2>1. /\ num' = num + 1
          /\ tx' = [tx EXCEPT ![b] = [status |-> "active", outer |-> outer, index |-> num,
                                      name |-> sp, force |-> force]]
      BY <1>2 DEF Push
    <2> HIDE DEF outer, sp
    <2> QED BY <1>1, <2>1 DEF TypeOK
  <1>4. distinct' = (distinct /\ ~\E i \in DOMAIN open :
                                     name # NoName /\ tx[open[i]].name = name)
    BY DEF Enter
  <1>5. sp = name \/ (~outer /\ name = NoName /\ sp = num + 1)
    BY DEF NameFor
  <1>6. name <= 0 /\ name \in Int
    BY TransactionAssumption
  <1> HIDE DEF outer, sp
  <1>7. IdleEmpty'
    BY <1>2 DEF IdleEmpty
  <1>8. ordered => \A i \in DOMAIN open : open[i] \in Blocks /\ tx'[open[i]] = tx[open[i]]
    BY <1>1, <1>2, <1>3 DEF StackInv, Stacked, BlocksCounted
  <1>9. CASE server.status = "inerror" /\ server'.status = "inerror" /\ open' = open
    <2>1. Stacked'
      BY <1>2, <1>8, <1>9, <1>1, <1>3 DEF Stacked, BlocksCounted, StackInv, NoneLeaked, Owned
    <2>2. NamesDiffer'
      <3> SUFFICES ASSUME Proper'
                   PROVE  /\ \A i \in DOMAIN open' :
                                tx'[open'[i]].name <= 0 \/ tx'[open'[i]].name = i
                          /\ \A i, j \in DOMAIN open' :
                                tx'[open'[i]].name = tx'[open'[j]].name => i = j
        BY DEF NamesDiffer
      <3>1. Proper
        BY <1>2, <1>4 DEF Proper
      <3> QED BY <1>8, <1>9, <3>1 DEF Proper, StackInv, NamesDiffer
    <2> QED BY <1>7, <2>1, <2>2 DEF StackInv
  <1>10. CASE /\ server.status # "inerror" /\ server'.status = "intrans"
              /\ open' = Append(open, b)
    <2>1. /\ DOMAIN open' = 1 .. n + 1 /\ Len(open') = n + 1 /\ open'[n + 1] = b
          /\ \A i \in DOMAIN open : open'[i] = open[i]
          /\ DOMAIN open = 1 .. n
      BY <1>1, <1>10
    <2>2. ordered => num = n
      BY <1>10 DEF StackInv, Stacked, NoneLeaked
    <2>3. Stacked'
      <3> SUFFICES ASSUME ordered PROVE (BlocksCounted /\ NoneLeaked /\ Owned)'
        BY <1>2 DEF Stacked
      <3>1. BlocksCounted'
        BY <1>1, <1>2, <1>3, <2>1, <2>2, <1>8 DEF BlocksCounted, StackInv, Stacked
      <3>2. NoneLeaked'
        BY <1>3, <2>1, <2>2 DEF NoneLeaked
      <3>3. Owned'
        BY <1>2, <1>1, <2>1, <2>2, <1>3, <1>8 DEF Owned, StackInv, Stacked, outer, IInv,
           AssertionsHold
      <3> QED BY <3>1, <3>2, <3>3
    <2>4. NamesDiffer'
      <3> SUFFICES ASSUME Proper'
                   PROVE  /\ \A i \in DOMAIN open' :
                                tx'[open'[i]].name <= 0 \/ tx'[open'[i]].name = i
                          /\ \A i, j \in DOMAIN open' :
                                tx'[open'[i]].name = tx'[open'[j]].name => i = j
        BY DEF NamesDiffer
      <3>1. Proper /\ ordered /\ ~\E i \in DOMAIN open :
                                     name # NoName /\ tx[open[i]].name = name
        BY <1>2, <1>4 DEF Proper
      <3>2. /\ \A i \in DOMAIN open : tx[open[i]].name <= 0 \/ tx[open[i]].name = i
            /\ \A i, j \in DOMAIN open : tx[open[i]].name = tx[open[j]].name => i = j
        BY <3>1 DEF StackInv, NamesDiffer
      <3>3. \A i \in DOMAIN open : i <= n /\ i \in Nat /\ tx[open[i]].name \in Int
        BY <1>1, <2>1 DEF TypeOK
      <3>4. outer => n = 0
        BY <1>1, <2>2, <3>1 DEF IInv, AssertionsHold, outer
      <3>5. \A i \in DOMAIN open : tx[open[i]].name # sp
        BY <1>1, <1>2, <1>5, <1>6, <2>1, <2>2, <3>1, <3>2, <3>3, <3>4
      <3>6. sp <= 0 \/ sp = n + 1
        BY <1>5, <1>6, <2>2, <3>1
      <3>7. \A i \in DOMAIN open' : i = n + 1 \/ i \in DOMAIN open
        BY <1>1, <2>1
      <3>8. /\ \A i \in DOMAIN open : tx'[open'[i]].name = tx[open[i]].name
            /\ tx'[open'[n + 1]].name = sp
        BY <1>3, <1>8, <2>1, <3>1
      <3> QED BY <3>2, <3>5, <3>6, <3>7, <3>8
    <2> QED BY <1>7, <2>3, <2>4 DEF StackInv
  <1> QED BY <1>2, <1>9, <1>10

\* __exit__() of a block to commit: what was sent ended the transaction, or not
LEMMA ExitCommitStack ==
    ASSUME IInv, StackInv, NEW b \in Blocks, ExitCommit(b)
    PROVE  StackInv'
  <1>1. TypeOK /\ server \in ServerStates
    BY DEF IInv, TypeOK
  <1>2. /\ Leave(b) /\ num' = num - 1 /\ tx' = [tx EXCEPT ![b].status = "committed"]
        /\ UNCHANGED <<autocommit, distinct>> /\ server.status # "idle"
    BY LeaveType DEF ExitCommit
  <1>3. Marked(b, "committed")
    BY <1>1, <1>2, StatusOnly
  <1>4. CASE ~Popped(b)
    <2>1. server' = server
      BY <1>4 DEF ExitCommit
    <2> QED BY <1>2, <1>3, <1>4, <2>1, ExitStack
  <1>5. CASE Popped(b)
    BY <1>5, <1>1, <1>2, CommitCommandsType, CommitDoes, <1>3, ExitStack DEF ExitCommit,
       CommitCommands, Ended, Ending
  <1> QED BY <1>4, <1>5

\* __exit__() of a block to roll back
LEMMA ExitRollbackStack ==
    ASSUME IInv, StackInv, NEW b \in Blocks, ExitRollback(b)
    PROVE  StackInv'
  <1>1. TypeOK /\ server \in ServerStates
    BY DEF IInv, TypeOK
  <1>2. PICK st : tx' = [tx EXCEPT ![b].status = st]
    BY DEF ExitRollback
  <1>3. /\ Leave(b) /\ num' = num - 1
        /\ UNCHANGED <<autocommit, distinct>> /\ server.status # "idle"
    BY LeaveType DEF ExitRollback
  <1>4. Marked(b, st)
    BY <1>1, <1>2, StatusOnly
  <1>5. CASE ~Popped(b)
    <2>1. server' = server
      BY <1>5 DEF ExitRollback
    <2> QED BY <1>3, <1>4, <1>5, <2>1, ExitStack
  <1>6. CASE Popped(b)
    BY <1>6, <1>1, <1>3, RollbackCommandsType, RollbackDoes, <1>4, ExitStack DEF ExitRollback,
       RollbackCommands, Answered, Ending
  <1> QED BY <1>5, <1>6

\* Exceptions and forbidden calls change neither the blocks nor the server
LEMMA RaisingStack ==
    ASSUME StackInv, UNCHANGED <<autocommit, num, tx, open, server, ordered, distinct>>
    PROVE  StackInv'
  BY DEF StackInv, Stacked, BlocksCounted, NoneLeaked, Owned, IdleEmpty, Ending,
         NamesDiffer, Proper

\* commit() and rollback() end a transaction that no block is part of
LEMMA ConnEndStack ==
    ASSUME IInv, StackInv, num = 0, Ending(server'),
           UNCHANGED <<autocommit, num, tx, open, ordered, distinct>>
    PROVE  StackInv'
  BY DEF IInv, TypeOK, AllCounted, StackInv, Stacked, BlocksCounted, NoneLeaked, Owned,
     IdleEmpty, Ending, NamesDiffer

\* Every step keeps the stack
LEMMA NextStack == IInv /\ StackInv /\ [Next]_vars => StackInv'
  BY ExecuteStack, EnterStack, ExitCommitStack, ExitRollbackStack, RaisingStack, ConnEndStack,
     CommitDoes, RollbackDoes DEF IInv, TypeOK, Raise, Handle, Forbidden, historyVars, vars,
     clientVars, ConnCommit, Ended, ConnRollback, Next

\* When blocks are left in order, those open are the ones counted, unless the
\* transaction is aborted and one failed to be entered: only then does
\* _pop_savepoint() find a block that is not the last one (transaction.py:209-240)
THEOREM StackCorrect == Spec => []StackInv
  BY InitStack, NextStack, Inductive, PTL DEF Spec

\* In autocommit mode no transaction is left when all the blocks are
\* (docs/basic/transactions.rst: "leave a connection in the state it found it")
THEOREM LeavesCorrect == Spec => []LeavesAsFound
  <1>1. IInv /\ StackInv => LeavesAsFound
    BY DEF LeavesAsFound, StackInv, Stacked, Owned
  <1> QED BY <1>1, Inductive, StackCorrect, PTL

-----------------------------------------------------------------------------
(* The savepoints of the server are those of the blocks, in the same order; an *)
(* aborted transaction may still have those of blocks that were left meanwhile *)

Depth == Len(open) - Bare

Saved ==
    Proper =>
        /\ Depth <= Len(server.saves)
        /\ server.status # "inerror" => Len(server.saves) = Depth
        /\ \A k \in 1 .. Depth : server.saves[k].name = tx[open[k + Bare]].name
        /\ OneOfEach(server)

\* A prefix of a sequence
LEMMA PrefixIs ==
    ASSUME NEW S, NEW q \in Seq(S), NEW k \in Nat, k <= Len(q)
    PROVE  /\ SubSeq(q, 1, k) \in Seq(S) /\ Len(SubSeq(q, 1, k)) = k
           /\ DOMAIN SubSeq(q, 1, k) = 1 .. k
           /\ \A i \in 1 .. k : SubSeq(q, 1, k)[i] = q[i]
  OBVIOUS

\* A prefix of a prefix
LEMMA PrefixTwice ==
    ASSUME NEW S, NEW q \in Seq(S), NEW k \in Nat, k # 0, k <= Len(q)
    PROVE  SubSeq(SubSeq(q, 1, k), 1, k - 1) = SubSeq(q, 1, k - 1)
  <1> DEFINE u == SubSeq(q, 1, k)
  <1>1. u \in Seq(S) /\ Len(u) = k /\ \A i \in 1 .. k : u[i] = q[i]
    BY PrefixIs
  <1> HIDE DEF u
  <1>2. /\ SubSeq(u, 1, k - 1) \in Seq(S) /\ Len(SubSeq(u, 1, k - 1)) = k - 1
        /\ \A i \in 1 .. k - 1 : SubSeq(u, 1, k - 1)[i] = u[i]
    BY <1>1, PrefixIs
  <1>3. /\ SubSeq(q, 1, k - 1) \in Seq(S) /\ Len(SubSeq(q, 1, k - 1)) = k - 1
        /\ \A i \in 1 .. k - 1 : SubSeq(q, 1, k - 1)[i] = q[i]
    BY PrefixIs
  <1> DEFINE x == SubSeq(u, 1, k - 1)
             y == SubSeq(q, 1, k - 1)
  <1> HIDE DEF x, y
  <1>4. \A i \in 1 .. Len(x) : x[i] = y[i]
    BY <1>1, <1>2, <1>3 DEF x, y
  <1>5. x \in Seq(S) /\ y \in Seq(S) /\ Len(x) = Len(y)
    BY <1>2, <1>3 DEF x, y
  <1>6. x = y
    BY <1>4, <1>5, SeqEqual
  <1> QED BY <1>6 DEF x, y, u

\* A prefix has no name twice either
LEMMA PrefixOneOfEach ==
    ASSUME NEW s \in ServerStates, OneOfEach(s), NEW k \in Nat, k <= Len(s.saves),
           NEW t, t.saves = SubSeq(s.saves, 1, k)
    PROVE  OneOfEach(t)
  BY PrefixIs DEF ServerStates, OneOfEach

\* Where the blocks that stay open are
LEMMA LeavePlaces ==
    ASSUME IInv, StackInv, NEW b \in Blocks, NEW st, Leave(b), Marked(b, st),
           UNCHANGED distinct, Proper'
    PROVE  /\ Proper /\ Depth \in Nat /\ Depth' \in Nat /\ Depth' <= Depth
           /\ \A k \in 1 .. Depth' :
                 /\ k \in 1 .. Depth /\ open'[k + Bare'] = open[k + Bare]
                 /\ open[k + Bare] \in Blocks /\ k + Bare \in DOMAIN open
           /\ tx[b].outer => Depth' = 0 /\ open' = <<>>
           /\ ~tx[b].outer => /\ Depth' = Depth - 1 /\ open[Depth + Bare] = b
                              /\ Depth + Bare = Len(open)
  <1>1. /\ open \in Seq(Blocks) /\ open' \in Seq(Blocks)
        /\ DOMAIN open = 1 .. Len(open)
    BY LeaveType DEF IInv, TypeOK
  <1>2. /\ ordered /\ open # <<>> /\ open[Len(open)] = b
        /\ Len(open) \in Nat /\ Len(open') = Len(open) - 1
        /\ \A i \in DOMAIN open' : i \in DOMAIN open /\ i < Len(open) /\ open'[i] = open[i]
        /\ DOMAIN open' = 1 .. Len(open) - 1
    BY LeaveLast DEF StackInv, Proper
  <1>3. (tx[b].outer => Len(open) = 1) /\ (tx[b].name = NoName => tx[b].outer)
    BY LastPopped DEF StackInv, Proper
  <1>4. Proper
    BY <1>2 DEF Proper
  <1>5. Len(open) # 0
    BY <1>1, <1>2
  <1>6. CASE Len(open) = 1
    <2>1. Len(open') = 0
      BY <1>2, <1>6
    <2>2. open' = <<>>
      BY <1>1, <2>1
    <2>3. Bare' = 0 /\ Depth' = 0
      <3>1. Bare' = 0
        BY <2>2 DEF Bare
      <3> QED BY <2>1, <3>1 DEF Depth
    <2>4. Bare = IF tx[b].name = NoName THEN 1 ELSE 0
      BY <1>2, <1>6 DEF Bare
    <2>5. CASE tx[b].name = NoName
      BY <1>3, <1>4, <1>6, <2>2, <2>3, <2>4, <2>5 DEF Depth
    <2>6. CASE tx[b].name # NoName
      <3>1. Depth = 1 /\ Bare = 0
        BY <1>6, <2>4, <2>6 DEF Depth
      <3> QED BY <1>2, <1>4, <1>6, <2>2, <2>3, <3>1
    <2> QED BY <2>5, <2>6
  <1>7. CASE Len(open) # 1
    <2>1. /\ 1 \in DOMAIN open' /\ open' # <<>> /\ open'[1] = open[1] /\ open[1] \in Blocks
          /\ open # <<>>
      BY <1>1, <1>2, <1>5, <1>7
    <2>2. Bare' = Bare /\ Bare \in {0, 1}
      BY <2>1 DEF Bare, Marked
    <2>3. /\ Depth' = Depth - 1 /\ Depth \in Nat /\ Depth' \in Nat
          /\ Depth + Bare = Len(open)
      BY <1>2, <1>5, <1>7, <2>2 DEF Depth
    <2>4. ASSUME NEW k \in 1 .. Depth'
          PROVE  /\ k \in 1 .. Depth /\ open'[k + Bare'] = open[k + Bare]
                 /\ open[k + Bare] \in Blocks /\ k + Bare \in DOMAIN open
      <3>1. k \in 1 .. Depth /\ k + Bare \in 1 .. Len(open) - 1
        BY <1>2, <2>2, <2>3
      <3> QED BY <1>1, <1>2, <2>2, <3>1
    <2> QED BY <1>2, <1>3, <1>4, <1>7, <2>3, <2>4
  <1> QED BY <1>6, <1>7

\* The block that is left has the last savepoint of those that blocks have
LEMMA LastSaved ==
    ASSUME IInv, StackInv, Saved, NEW b \in Blocks, NEW st, Leave(b), Marked(b, st),
           UNCHANGED distinct, Proper', ~tx[b].outer
    PROVE  /\ OneOfEach(server) /\ Depth \in DOMAIN server.saves
           /\ server.saves[Depth].name = tx[b].name
           /\ Depth \in Nat /\ Depth # 0 /\ Depth <= Len(server.saves)
           /\ server.saves \in Seq(Savepoints)
  <1>1. /\ Proper /\ Depth \in Nat /\ Depth' \in Nat
        /\ Depth' = Depth - 1 /\ open[Depth + Bare] = b
    BY LeavePlaces
  <1>2. server.saves \in Seq(Savepoints)
    BY DEF IInv, TypeOK, ServerStates
  <1>3. /\ Depth <= Len(server.saves) /\ OneOfEach(server)
        /\ \A k \in 1 .. Depth : server.saves[k].name = tx[open[k + Bare]].name
    BY <1>1 DEF Saved
  <1>4. Depth \in 1 .. Depth /\ Depth \in DOMAIN server.saves
    BY <1>1, <1>2, <1>3
  <1> QED BY <1>1, <1>2, <1>3, <1>4

\* What leaving a block to commit does to the server (transaction.py:180-190)
LEMMA ExitCommitDoes ==
    ASSUME IInv, StackInv, Saved, NEW b \in Blocks, ExitCommit(b), Proper'
    PROVE  /\ forsaken \subseteq forsaken'
           /\ \/ /\ server' = server /\ num > Len(open) /\ server.status = "inerror"
              \/ /\ tx[b].outer /\ Ending(server') /\ num = Len(open)
                 /\ \/ /\ server.status = "intrans"
                       /\ server'.committed = server.committed \cup server.work
                    \/ /\ server'.committed = server.committed
                       /\ \A w \in server.work : w \in server.committed \/ w \in forsaken'
              \/ /\ ~tx[b].outer /\ server.status = "intrans" /\ server'.status = "intrans"
                 /\ server'.saves = SubSeq(server.saves, 1, Depth - 1)
                 /\ server'.work = server.work /\ server'.committed = server.committed
              \/ /\ ~tx[b].outer /\ server.status = "inerror" /\ server'.status = "inerror"
                 /\ SameData(server', server)
  <1>1. TypeOK /\ server \in ServerStates /\ server.status \in {"idle", "intrans", "inerror"}
    BY DEF IInv, TypeOK, ServerStates
  <1>2. /\ Leave(b) /\ tx' = [tx EXCEPT ![b].status = "committed"]
        /\ UNCHANGED distinct /\ server.status # "idle"
    BY LeaveType DEF ExitCommit
  <1>3. Marked(b, "committed")
    BY <1>1, <1>2, StatusOnly
  <1>4. /\ Popped(b) <=> num = Len(open)
        /\ ~Popped(b) => server.status = "inerror" /\ num > Len(open)
    BY <1>2, LastPopped DEF StackInv, Proper
  <1>5. CASE ~Popped(b)
    BY <1>4, <1>5 DEF ExitCommit
  <1>6. CASE Popped(b)
    BY <1>6, <1>1, CommitDoes, <1>2, <1>4, <1>3, LastSaved, ReleaseDoes DEF ExitCommit, Ended,
       CommitCommands, Ending
  <1> QED BY <1>5, <1>6

\* What leaving a block to roll back does to it (transaction.py:192-207)
LEMMA ExitRollbackDoes ==
    ASSUME IInv, StackInv, Saved, NEW b \in Blocks, ExitRollback(b), Proper'
    PROVE  /\ forsaken' = forsaken /\ server'.committed = server.committed
           /\ \/ /\ server' = server /\ num > Len(open) /\ server.status = "inerror"
              \/ /\ tx[b].outer /\ Ending(server') /\ num = Len(open)
              \/ /\ ~tx[b].outer /\ server'.status = "intrans" /\ num = Len(open)
                 /\ server'.saves = SubSeq(server.saves, 1, Depth - 1)
                 /\ server'.work = server.saves[Depth].work
  <1>1. TypeOK /\ server \in ServerStates
    BY DEF IInv, TypeOK
  <1>2. Leave(b) /\ UNCHANGED distinct
    BY DEF ExitRollback
  <1>3. PICK st : tx' = [tx EXCEPT ![b].status = st]
    BY DEF ExitRollback
  <1>4. Marked(b, st)
    BY <1>1, <1>3, StatusOnly
  <1>5. /\ Popped(b) <=> num = Len(open)
        /\ ~Popped(b) => server.status = "inerror" /\ num > Len(open)
    BY <1>2, LastPopped DEF StackInv, Proper
  <1>6. CASE ~Popped(b)
    BY <1>5, <1>6 DEF ExitRollback
  <1>7. CASE Popped(b)
    <2>1. PICK r \in RollbackCommands(b, server) : Answered(r)
      BY <1>7 DEF ExitRollback
    <2>2. server' = r.state /\ forsaken' = forsaken
      BY <2>1 DEF Answered
    <2>3. CASE tx[b].outer
      BY <2>1, <2>3, <1>1, <1>5, <1>7, <2>2, RollbackDoes DEF RollbackCommands
    <2>4. CASE ~tx[b].outer
      <3> DEFINE k == Depth
                 name == tx[b].name
      <3>1. /\ OneOfEach(server) /\ k \in DOMAIN server.saves
            /\ server.saves[k].name = name
            /\ k \in Nat /\ k # 0 /\ k <= Len(server.saves)
            /\ server.saves \in Seq(Savepoints)
        BY <1>2, <1>4, <2>4, LastSaved
      <3>2. PICK a \in RollbackTo(server, name) :
               r \in IF a.ok THEN Release(a.state, name) ELSE {a}
        BY <2>1, <2>4 DEF RollbackCommands, Then
      <3> HIDE DEF k, name
      <3>3. /\ a.ok /\ a.state.status = "intrans"
            /\ a.state.saves = SubSeq(server.saves, 1, k)
            /\ a.state.work = server.saves[k].work
            /\ a.state.committed = server.committed
        BY <1>1, <3>1, <3>2, RollbackToDoes
      <3>4. name \in Int
        BY <1>1 DEF TypeOK, name
      <3>5. a.state \in ServerStates
        BY <1>1, <3>2, <3>4, RollbackToType DEF Results
      <3>6. OneOfEach(a.state)
        BY <1>1, <3>1, <3>3, PrefixOneOfEach
      <3>7. /\ k \in DOMAIN a.state.saves /\ a.state.saves[k].name = name
            /\ SubSeq(a.state.saves, 1, k - 1) = SubSeq(server.saves, 1, k - 1)
        BY <3>1, PrefixIs, PrefixTwice, <3>3
      <3>8. r \in Release(a.state, a.state.saves[k].name)
        BY <3>2, <3>3, <3>7
      <3>9. /\ r.state.status = "intrans"
            /\ r.state.saves = SubSeq(server.saves, 1, k - 1)
            /\ r.state.work = server.saves[k].work
            /\ r.state.committed = server.committed
        BY <3>3, <3>5, <3>6, <3>7, <3>8, ReleaseDoes
      <3> QED BY <1>5, <1>7, <2>2, <2>4, <3>9 DEF k
    <2> QED BY <2>3, <2>4
  <1> QED BY <1>6, <1>7

\* Leaving a block keeps the savepoints of the others
LEMMA ExitSaved ==
    ASSUME IInv, StackInv, Saved, NEW b \in Blocks, NEW st, Leave(b), Marked(b, st),
           UNCHANGED distinct,
           Proper' => \/ server'.saves = server.saves /\ server'.status = "inerror"
                      \/ tx[b].outer /\ Ending(server')
                      \/ ~tx[b].outer /\ server'.saves = SubSeq(server.saves, 1, Depth - 1)
    PROVE  Saved'
  <1> SUFFICES ASSUME Proper'
               PROVE  /\ Depth' <= Len(server'.saves)
                      /\ server'.status # "inerror" => Len(server'.saves) = Depth'
                      /\ \A k \in 1 .. Depth' :
                            server'.saves[k].name = tx'[open'[k + Bare']].name
                      /\ OneOfEach(server')
    BY DEF Saved, OneOfEach
  <1>1. /\ Proper /\ Depth \in Nat /\ Depth' \in Nat /\ Depth' <= Depth
        /\ \A k \in 1 .. Depth' :
              /\ k \in 1 .. Depth /\ open'[k + Bare'] = open[k + Bare]
              /\ open[k + Bare] \in Blocks
        /\ tx[b].outer => Depth' = 0
        /\ ~tx[b].outer => Depth' = Depth - 1
    BY LeavePlaces
  <1>2. /\ Depth <= Len(server.saves) /\ OneOfEach(server)
        /\ \A k \in 1 .. Depth : server.saves[k].name = tx[open[k + Bare]].name
    BY <1>1 DEF Saved
  <1>3. server \in ServerStates /\ server.saves \in Seq(Savepoints)
    BY DEF IInv, TypeOK, ServerStates
  <1>4. \A k \in 1 .. Depth' : server.saves[k].name = tx'[open'[k + Bare']].name
    BY <1>1, <1>2 DEF Marked
  <1>5. CASE server'.saves = server.saves /\ server'.status = "inerror"
    BY <1>2, <1>5, <1>1, <1>3, <1>4 DEF OneOfEach
  <1>6. CASE tx[b].outer /\ Ending(server')
    BY <1>6, <1>1 DEF Ending, OneOfEach
  <1>7. CASE ~tx[b].outer /\ server'.saves = SubSeq(server.saves, 1, Depth - 1)
    BY <1>1, <1>2, <1>3, <1>7, PrefixOneOfEach, PrefixIs, <1>4
  <1> QED BY <1>5, <1>6, <1>7

\* Where the new block is
LEMMA EnterPlaces ==
    ASSUME IInv, StackInv, NEW b \in Blocks, NEW name \in Names, NEW force \in BOOLEAN,
           Enter(b, name, force), Proper', server.status # "inerror"
    PROVE  /\ Proper /\ Depth \in Nat /\ Depth' \in Nat /\ Bare' \in {0, 1}
           /\ open' = Append(open, b) /\ Depth' + Bare' = Len(open) + 1
           /\ \A k \in 1 .. Depth :
                 /\ k + Bare' = k + Bare /\ k + Bare \in DOMAIN open /\ k \in 1 .. Depth'
                 /\ open[k + Bare] \in Blocks /\ open'[k + Bare] = open[k + Bare]
                 /\ tx'[open[k + Bare]] = tx[open[k + Bare]]
           /\ IF tx'[b].name = NoName
              THEN Depth' = Depth /\ Depth' = 0 /\ server'.saves = server.saves
              ELSE /\ Depth' = Depth + 1 /\ open'[Depth' + Bare'] = b
                   /\ server'.saves = Append(server.saves,
                                             [name |-> tx'[b].name, work |-> server.work])
  <1> DEFINE outer == server.status = "idle"
             sp == NameFor(outer, name)
  <1>1. /\ TypeOK /\ open \in Seq(Blocks) /\ Len(open) \in Nat /\ Len(open) <= num
        /\ DOMAIN open = 1 .. Len(open) /\ num \in Nat
    BY DEF IInv, TypeOK, AllCounted
  <1>2. /\ tx[b].status = "not_started" /\ Push(b, outer, sp, force)
        /\ sp = NoName => outer
        /\ UNCHANGED ordered /\ open' = Append(open, b)
        /\ server'.saves = IF sp = NoName THEN server.saves
                           ELSE Append(server.saves, [name |-> sp, work |-> server.work])
    BY <1>1, EnterDoes
  <1>3. tx'[b].name = sp /\ \A c \in Blocks : c # b => tx'[c] = tx[c]
    <2>1. tx' = [tx EXCEPT ![b] = [status |-> "active", outer |-> outer, index |-> num,
                                   name |-> sp, force |-> force]]
      BY <1>2 DEF Push
    <2> HIDE DEF outer, sp
    <2> QED BY <1>1, <2>1 DEF TypeOK
  <1>4. Proper
    <2>1. distinct' = (distinct /\ ~\E i \in DOMAIN open :
                                      name # NoName /\ tx[open[i]].name = name)
      BY DEF Enter
    <2> QED BY <1>2, <2>1 DEF Proper
  <1>5. outer => num = 0
    BY DEF IInv, AssertionsHold
  <1> HIDE DEF outer, sp
  <1>6. \A i \in DOMAIN open :
           open[i] \in Blocks /\ open'[i] = open[i] /\ tx'[open[i]] = tx[open[i]]
    BY <1>1, <1>4, <1>2, <1>3 DEF StackInv, Stacked, BlocksCounted, Proper
  <1>7. /\ Len(open') = Len(open) + 1 /\ open'[Len(open) + 1] = b /\ open' # <<>>
    BY <1>1, <1>2
  <1>8. CASE Len(open) = 0
    BY <1>1, <1>8, <1>3, <1>7, <1>2, <1>4 DEF Bare, Depth
  <1>9. CASE Len(open) # 0
    <2>1. 1 \in DOMAIN open /\ open # <<>> /\ sp # NoName
      BY <1>1, <1>2, <1>5, <1>9
    <2>2. Bare' = Bare /\ Bare \in {0, 1}
      BY <1>6, <1>7, <2>1 DEF Bare
    <2>3. /\ Depth' = Depth + 1 /\ Depth \in Nat /\ Depth' \in Nat
          /\ Depth' + Bare' = Len(open) + 1 /\ Depth + Bare = Len(open)
      BY <1>1, <1>7, <1>9, <2>2 DEF Depth
    <2>4. \A k \in 1 .. Depth : k + Bare \in DOMAIN open /\ k \in 1 .. Depth'
      BY <1>1, <2>2, <2>3
    <2>5. /\ server'.saves = Append(server.saves, [name |-> tx'[b].name, work |-> server.work])
          /\ tx'[b].name # NoName
      BY <1>2, <1>3, <2>1
    <2> QED BY <1>2, <1>4, <1>6, <1>7, <2>2, <2>3, <2>4, <2>5
  <1> QED BY <1>1, <1>8, <1>9

\* Entering a block puts its savepoint above those of the blocks around it
LEMMA EnterSaved ==
    ASSUME IInv, StackInv, StackInv', Saved, NEW b \in Blocks, NEW name \in Names,
           NEW force \in BOOLEAN, Enter(b, name, force)
    PROVE  Saved'
  <1> SUFFICES ASSUME Proper'
               PROVE  /\ Depth' <= Len(server'.saves)
                      /\ server'.status # "inerror" => Len(server'.saves) = Depth'
                      /\ \A k \in 1 .. Depth' :
                            server'.saves[k].name = tx'[open'[k + Bare']].name
                      /\ OneOfEach(server')
    BY DEF Saved, OneOfEach
  <1>1. /\ TypeOK /\ server.saves \in Seq(Savepoints) /\ open \in Seq(Blocks)
        /\ DOMAIN open = 1 .. Len(open)
    BY DEF IInv, TypeOK, ServerStates
  <1>2. Proper
    BY DEF Enter, Proper
  <1>3. /\ Depth <= Len(server.saves)
        /\ server.status # "inerror" => Len(server.saves) = Depth
        /\ \A k \in 1 .. Depth : server.saves[k].name = tx[open[k + Bare]].name
        /\ OneOfEach(server)
    BY <1>2 DEF Saved
  <1>4. CASE server.status = "inerror"
    <2>1. /\ server'.status = "inerror" /\ open' = open /\ server'.saves = server.saves
          /\ tx[b].status = "not_started"
      BY <1>1, <1>4, EnterDoes
    <2>2. \A c \in Blocks : c # b => tx'[c] = tx[c]
      BY <1>1 DEF Enter, Push, TypeOK
    <2>3. \A i \in DOMAIN open : open[i] \in Blocks /\ tx'[open[i]] = tx[open[i]]
      BY <1>1, <1>2, <2>1, <2>2 DEF StackInv, Stacked, BlocksCounted, Proper
    <2>4. Bare' = Bare
      BY <2>1, <1>1, <2>3 DEF Bare
    <2>5. Depth' = Depth
      BY <2>1, <2>4 DEF Depth
    <2>6. \A k \in 1 .. Depth : k + Bare \in DOMAIN open
      BY <1>1 DEF Depth, Bare
    <2>7. OneOfEach(server')
      BY <1>3, <2>1 DEF OneOfEach
    <2> QED BY <1>3, <2>1, <2>3, <2>4, <2>5, <2>6, <2>7
  <1>5. CASE server.status # "inerror"
    <2>1. /\ Proper /\ Depth \in Nat /\ Depth' \in Nat /\ Bare' \in {0, 1}
          /\ open' = Append(open, b) /\ Depth' + Bare' = Len(open) + 1
          /\ \A k \in 1 .. Depth :
                /\ k + Bare' = k + Bare /\ k + Bare \in DOMAIN open /\ k \in 1 .. Depth'
                /\ open[k + Bare] \in Blocks /\ open'[k + Bare] = open[k + Bare]
                /\ tx'[open[k + Bare]] = tx[open[k + Bare]]
          /\ IF tx'[b].name = NoName
             THEN Depth' = Depth /\ Depth' = 0 /\ server'.saves = server.saves
             ELSE /\ Depth' = Depth + 1 /\ open'[Depth' + Bare'] = b
                  /\ server'.saves = Append(server.saves,
                                            [name |-> tx'[b].name, work |-> server.work])
      BY <1>5, EnterPlaces
    <2>2. Len(server.saves) = Depth
      BY <1>3, <1>5
    <2>3. Len(server'.saves) = Depth' /\ DOMAIN server'.saves = 1 .. Depth'
            /\ \A k \in 1 .. Depth' : server'.saves[k].name = tx'[open'[k + Bare']].name
      <3>1. CASE tx'[b].name = NoName
        BY <2>1, <3>1, <1>1, <2>2
      <3>2. CASE tx'[b].name # NoName
        <4> DEFINE e == [name |-> tx'[b].name, work |-> server.work]
        <4>1. Depth' = Depth + 1 /\ server'.saves = Append(server.saves, e)
                /\ open'[Depth' + Bare'] = b
          BY <2>1, <3>2
        <4>2. e.name = tx'[b].name
          OBVIOUS
        <4>3. server.saves \in Seq(Savepoints)
          BY <1>1
        <4> HIDE DEF e
        <4>4. /\ Len(server'.saves) = Depth' /\ DOMAIN server'.saves = 1 .. Depth'
              /\ server'.saves[Depth'] = e
              /\ \A k \in 1 .. Depth : server'.saves[k] = server.saves[k]
          BY <2>1, <2>2, <4>1, <4>3
        <4>5. ASSUME NEW k \in 1 .. Depth'
              PROVE  server'.saves[k].name = tx'[open'[k + Bare']].name
          <5>1. CASE k = Depth'
            BY <4>1, <4>2, <4>4, <5>1
          <5>2. CASE k # Depth'
            <6>1. k \in 1 .. Depth
              BY <2>1, <4>1, <5>2
            <6>2. /\ k + Bare' = k + Bare /\ open'[k + Bare] = open[k + Bare]
                  /\ tx'[open[k + Bare]] = tx[open[k + Bare]]
              BY <2>1, <6>1
            <6>3. server'.saves[k].name = tx[open[k + Bare]].name
              BY <1>3, <4>4, <6>1
            <6> QED BY <6>2, <6>3
          <5> QED BY <5>1, <5>2
        <4> QED BY <4>4, <4>5
      <3> QED BY <3>1, <3>2
    <2>4. OneOfEach(server')
      <3> SUFFICES ASSUME NEW i \in 1 .. Depth', NEW j \in 1 .. Depth',
                          server'.saves[i].name = server'.saves[j].name
                   PROVE  i = j
        BY <2>3 DEF OneOfEach
      <3>1. DOMAIN open' = 1 .. Len(open) + 1
        BY <1>1, <2>1
      <3>2. Len(open) \in Nat
        BY <1>1
      <3>3. i + Bare' \in DOMAIN open' /\ j + Bare' \in DOMAIN open'
        <4>1. Depth' \in Nat /\ Bare' \in {0, 1} /\ Depth' + Bare' = Len(open) + 1
          BY <2>1
        <4>2. \A d, e, n \in Nat : \A h \in 1 .. d : d + e = n => h + e \in 1 .. n
          OBVIOUS
        <4>3. Bare' \in Nat /\ Len(open) + 1 \in Nat
          BY <3>2, <4>1
        <4>4. i + Bare' \in 1 .. Len(open) + 1 /\ j + Bare' \in 1 .. Len(open) + 1
          BY <4>1, <4>2, <4>3
        <4> QED BY <3>1, <4>4
      <3>4. i + Bare' = j + Bare'
        BY <2>3, <3>3 DEF StackInv, NamesDiffer
      <3> QED BY <2>1, <3>4
    <2>5. Depth' <= Len(server'.saves)
      BY <2>1, <2>3
    <2> QED BY <2>3, <2>4, <2>5
  <1> QED BY <1>4, <1>5

\* execute() does not change the savepoints
LEMMA ExecuteSaved == ASSUME IInv, StackInv, Saved, Execute PROVE Saved'
  BY ExecuteDoes DEF IInv, TypeOK, ServerStates, Bare, Depth, Saved, Proper, OneOfEach

\* Every step keeps the savepoints
LEMMA NextSaved == IInv /\ StackInv /\ StackInv' /\ Saved /\ [Next]_vars => Saved'
  <1> SUFFICES ASSUME IInv, StackInv, StackInv', Saved, [Next]_vars PROVE Saved'
    OBVIOUS
  <1>1. TypeOK /\ server \in ServerStates
    BY DEF IInv, TypeOK
  <1>2. CASE Execute
    BY <1>2, ExecuteSaved
  <1>3. CASE \E b \in Blocks, name \in Names, force \in BOOLEAN : Enter(b, name, force)
    BY <1>3, EnterSaved
  <1>4. ASSUME NEW b \in Blocks, ExitCommit(b) PROVE Saved'
    BY <1>4, <1>1, StatusOnly, ExitCommitDoes, ExitSaved DEF ExitCommit, SameData
  <1>5. ASSUME NEW b \in Blocks, ExitRollback(b) PROVE Saved'
    BY <1>5, <1>1, StatusOnly, ExitRollbackDoes, ExitSaved DEF ExitRollback
  <1>6. CASE UNCHANGED <<tx, open, server, ordered, distinct>>
    BY <1>6 DEF Bare, Depth, Saved, Proper, OneOfEach
  <1>7. ASSUME num = 0, Ending(server'), UNCHANGED <<tx, open, ordered, distinct>>
        PROVE  Saved'
    BY <1>7 DEF IInv, TypeOK, AllCounted, Bare, Depth, Ending, Saved, OneOfEach
  <1>8. CASE \/ \E e \in {"error", "rollback"} \cup {open[i] : i \in DOMAIN open} : Raise(e)
             \/ Handle \/ Forbidden \/ UNCHANGED vars
    BY <1>6, <1>8 DEF Raise, Handle, Forbidden, historyVars, vars, clientVars
  <1>9. CASE ConnCommit
    BY <1>1, <1>7, <1>9, CommitDoes DEF ConnCommit, Ended
  <1>10. CASE ConnRollback
    BY <1>1, <1>7, <1>10, RollbackDoes DEF ConnRollback, clientVars
  <1> QED BY <1>2, <1>3, <1>4, <1>5, <1>8, <1>9, <1>10 DEF Next

\* The savepoints of the server are those of the blocks open, and after them, in an
\* aborted transaction, those of blocks whose RELEASE failed; no two have the same name
\* (transaction.py:165-224)
THEOREM SavedCorrect == Spec => []Saved
  <1>1. Init => Saved
    BY DEF Init, Bare, Depth, Saved, OneOfEach
  <1> QED BY <1>1, NextSaved, Inductive, StackCorrect, PTL DEF Spec

(***************************************************************************)
(* The stack of the server is the one of the client: the types, the match  *)
(* of the savepoints, and the state that the blocks leave (transaction.py).*)
(***************************************************************************)
THEOREM FollowsCorrect == Spec => []ServerFollows
  <1>1. IInv /\ StackInv /\ Saved => SavepointsMatch
    <2> SUFFICES ASSUME IInv, Saved, Proper, server.status = "intrans"
                 PROVE  /\ Len(server.saves) = Len(open) - Bare
                        /\ \A i \in DOMAIN server.saves :
                              server.saves[i].name = tx[open[i + Bare]].name
      BY DEF SavepointsMatch
    <2>1. server.saves \in Seq(Savepoints)
      BY DEF IInv, TypeOK, ServerStates
    <2>2. /\ Len(server.saves) = Depth
          /\ \A k \in 1 .. Depth : server.saves[k].name = tx[open[k + Bare]].name
      BY DEF Saved
    <2>3. DOMAIN server.saves = 1 .. Depth
      BY <2>1, <2>2
    <2> QED BY <2>2, <2>3 DEF Depth
  <1>2. TypeOK /\ SavepointsMatch /\ LeavesAsFound => ServerFollows
    BY DEF ServerFollows
  <1> QED BY <1>1, <1>2, TypeCorrect, LeavesCorrect, Inductive, StackCorrect, SavedCorrect, PTL

-----------------------------------------------------------------------------
(* Which blocks a write belongs to, and what the savepoints keep of it *)

\* A block that was committed, or may still be
Safe(b) == tx[b].status = "committed" \/ b \in Here

WritesKnown == server.work \subseteq DOMAIN around /\ server.committed \subseteq DOMAIN around

BlocksStarted ==
    \A w \in DOMAIN around : \A b \in around[w] : tx[b].status # "not_started"

\* What was written in a block was written in the blocks around it
Nested ==
    \A w \in DOMAIN around : \A i, j \in DOMAIN open :
        i <= j /\ open[j] \in around[w] => open[i] \in around[w]

\* All the work of a transaction was done in its outer block
OuterWork ==
    open # <<>> /\ tx[open[1]].outer => \A w \in server.work : open[1] \in around[w]

\* Of what is permanent, every block was committed
Atomic == \A w \in server.committed : \A b \in around[w] : tx[b].status = "committed"

\* What may still become permanent is there
Kept ==
    \A w \in DOMAIN around \ forsaken :
        (\A b \in around[w] : Safe(b)) => w \in server.committed \/ w \in server.work

\* What may be committed was not in a block rolled back
WorkSafe == \A w \in server.work : \A b \in around[w] : Safe(b)

\* A savepoint keeps what was not written in its block
WorkSaved ==
    \A k \in 1 .. Depth :
        server.saves[k].work = {w \in server.work : open[k + Bare] \notin around[w]}

Written ==
    Proper =>
        /\ WritesKnown /\ BlocksStarted /\ Nested /\ OuterWork /\ Atomic /\ Kept
        /\ num = Len(open) => WorkSafe /\ WorkSaved

\* The blocks that a write was made in are blocks
LEMMA AroundBlocks ==
    ASSUME TypeOK
    PROVE  /\ \A w \in DOMAIN around : around[w] \subseteq Blocks
           /\ DOMAIN around = 1 .. Len(around) /\ Len(around) \in Nat
           /\ Here \subseteq Blocks
  BY DEF TypeOK, Here

\* A step that changes neither the blocks nor what was written in them
LEMMA WrittenSame ==
    ASSUME Written,
           UNCHANGED <<num, tx, open, around, ordered, distinct, forsaken>>,
           server'.work = server.work, server'.committed = server.committed,
           server'.saves = server.saves
    PROVE  Written'
  BY DEF Here, Bare, Depth, Written, Proper, WritesKnown, BlocksStarted, Nested, OuterWork,
     Atomic, Kept, Safe, WorkSafe, WorkSaved

\* Where a new write is
LEMMA AroundMore ==
    ASSUME TypeOK, around' = Append(around, Here)
    PROVE  LET w == Len(around) + 1
           IN  /\ DOMAIN around' = DOMAIN around \cup {w} /\ w \notin DOMAIN around
               /\ around'[w] = Here /\ \A v \in DOMAIN around : around'[v] = around[v]
  <1>1. around \in Seq(SUBSET Blocks) /\ Here \in SUBSET Blocks
    BY AroundBlocks DEF TypeOK
  <1> HIDE DEF Here
  <1>2. /\ DOMAIN around = 1 .. Len(around) /\ DOMAIN around' = 1 .. Len(around) + 1
        /\ Len(around) \in Nat /\ around'[Len(around) + 1] = Here
        /\ \A v \in 1 .. Len(around) : around'[v] = around[v]
    BY <1>1
  <1> QED BY <1>2

\* A statement is written in all the blocks open
LEMMA ExecuteWritten == ASSUME IInv, StackInv, Written, Execute PROVE Written'
  <1> DEFINE w == Len(around) + 1
  <1>1. TypeOK /\ open \in Seq(Blocks) /\ DOMAIN open = 1 .. Len(open) /\ Len(open) \in Nat
    BY DEF IInv, TypeOK
  <1>2. /\ UNCHANGED <<num, tx, open, ordered, distinct, forsaken>>
        /\ server'.saves = server.saves
        /\ \/ /\ around' = around
              /\ server'.work = server.work /\ server'.committed = server.committed
           \/ /\ around' = Append(around, Here)
              /\ server'.work = server.work \cup {w}
              /\ server'.committed = server.committed
           \/ /\ around' = Append(around, Here) /\ server.status = "idle"
              /\ server'.work = server.work
              /\ server'.committed = server.committed \cup {w}
    BY <1>1, ExecuteDoes
  <1>3. Here' = Here /\ Bare' = Bare /\ Depth' = Depth
    BY <1>2 DEF Here, Bare, Depth
  <1>4. CASE /\ around' = around
             /\ server'.work = server.work /\ server'.committed = server.committed
    BY <1>2, <1>4, WrittenSame
  <1>5. CASE around' = Append(around, Here)
    <2>1. /\ DOMAIN around' = DOMAIN around \cup {w} /\ w \notin DOMAIN around
          /\ around'[w] = Here /\ \A v \in DOMAIN around : around'[v] = around[v]
      BY <1>1, <1>5, AroundMore
    <2> HIDE DEF w
    <2> SUFFICES ASSUME Proper, Proper'
                 PROVE  (/\ WritesKnown /\ BlocksStarted /\ Nested /\ OuterWork
                         /\ Atomic /\ Kept
                         /\ num = Len(open) => WorkSafe /\ WorkSaved)'
      BY <1>2 DEF Written, Proper
    <2>2. /\ WritesKnown /\ BlocksStarted /\ Nested /\ OuterWork /\ Atomic /\ Kept
          /\ num = Len(open) => WorkSafe /\ WorkSaved
      BY DEF Written
    <2>3. \A b \in Here : tx[b].status = "active"
      BY DEF StackInv, Stacked, BlocksCounted, Proper, Here
    <2>4. BlocksStarted'
      BY <1>2, <2>1, <2>2, <2>3 DEF BlocksStarted
    <2>5. Nested'
      BY <1>2, <2>1, <2>2 DEF Nested, Here
    <2>6. CASE server'.work = server.work \cup {w} /\ server'.committed = server.committed
      <3>1. WritesKnown' /\ Atomic'
        BY <1>2, <2>1, <2>2, <2>6 DEF WritesKnown, Atomic
      <3>2. OuterWork'
        BY <1>1, <1>2, <2>1, <2>2, <2>6 DEF Here, OuterWork, WritesKnown
      <3>3. Kept'
        BY <1>2, <1>3, <2>1, <2>2, <2>6 DEF Kept, Safe
      <3>4. WorkSafe => WorkSafe'
        BY <1>2, <1>3, <2>1, <2>2, <2>6 DEF WorkSafe, Safe, WritesKnown
      <3>5. WorkSaved => WorkSaved'
        <4> SUFFICES ASSUME WorkSaved, NEW k \in 1 .. Depth
                     PROVE  server'.saves[k].work =
                              {v \in server'.work : open'[k + Bare'] \notin around'[v]}
          BY <1>3 DEF WorkSaved
        <4>1. server.saves[k].work = {v \in server.work : open[k + Bare] \notin around[v]}
          BY DEF WorkSaved
        <4>2. k + Bare \in DOMAIN open
          BY <1>1 DEF Depth, Bare
        <4>3. open[k + Bare] \in Here
          BY <4>2 DEF Here
        <4> QED BY <1>2, <1>3, <2>1, <2>2, <2>6, <4>1, <4>3 DEF WritesKnown
      <3> QED BY <1>2, <2>2, <2>4, <2>5, <3>1, <3>2, <3>3, <3>4, <3>5
    <2>7. CASE /\ server.status = "idle" /\ server'.work = server.work
               /\ server'.committed = server.committed \cup {w}
      BY <1>1, <2>7, <1>2, <2>1, <2>2, <1>3, <2>4, <2>5 DEF IInv, AssertionsHold, AllCounted,
         Here, WritesKnown, Atomic, OuterWork, Kept, Safe, WorkSafe, Bare, Depth, WorkSaved
    <2> QED BY <1>2, <1>5, <2>1, <2>6, <2>7
  <1> QED BY <1>2, <1>4, <1>5

\* Nothing was written in the new block yet
LEMMA EnterWritten ==
    ASSUME IInv, StackInv, Saved, Written, NEW b \in Blocks, NEW name \in Names,
           NEW force \in BOOLEAN, Enter(b, name, force)
    PROVE  Written'
  <1> DEFINE outer == server.status = "idle"
             sp == NameFor(outer, name)
             n == Len(open)
  <1>1. /\ TypeOK /\ open \in Seq(Blocks) /\ DOMAIN open = 1 .. n /\ n \in Nat
        /\ num \in Nat /\ n <= num
    BY DEF IInv, TypeOK, AllCounted
  <1>2. /\ tx[b].status = "not_started" /\ Push(b, outer, sp, force)
        /\ UNCHANGED <<around, ordered, forsaken>>
        /\ server'.work = server.work /\ server'.committed = server.committed
        /\ \/ /\ server.status = "inerror" /\ open' = open /\ server'.saves = server.saves
           \/ server.status # "inerror" /\ open' = Append(open, b)
    BY <1>1, EnterDoes
  <1>3. /\ \A c \in Blocks : c # b => tx'[c] = tx[c]
        /\ tx'[b].status = "active" /\ (tx'[b].outer => outer) /\ num' = num + 1
    <2>1. /\ num' = num + 1
          /\ tx' = [tx EXCEPT ![b] = [status |-> "active", outer |-> outer, index |-> num,
                                      name |-> sp, force |-> force]]
      BY <1>2 DEF Push
    <2> HIDE DEF outer, sp
    <2> QED BY <1>1, <2>1 DEF TypeOK
  <1>4. Proper' => Proper
    <2>1. distinct' = (distinct /\ ~\E i \in DOMAIN open :
                                      name # NoName /\ tx[open[i]].name = name)
      BY DEF Enter
    <2> QED BY <1>2, <2>1 DEF Proper
  <1> HIDE DEF outer, sp
  <1> SUFFICES ASSUME Proper, Proper'
               PROVE  (/\ WritesKnown /\ BlocksStarted /\ Nested /\ OuterWork
                       /\ Atomic /\ Kept
                       /\ num = Len(open) => WorkSafe /\ WorkSaved)'
    BY <1>4 DEF Written
  <1>5. /\ WritesKnown /\ BlocksStarted /\ Nested /\ OuterWork /\ Atomic /\ Kept
        /\ num = n => WorkSafe /\ WorkSaved
    BY DEF Written
  <1>6. \A w \in DOMAIN around : b \notin around[w]
    BY <1>2, <1>5 DEF BlocksStarted
  <1>7. \A w \in DOMAIN around : \A c \in around[w] : c \in Blocks /\ tx'[c] = tx[c]
    BY <1>1, <1>3, <1>6, AroundBlocks
  <1>8. \A i \in DOMAIN open :
           open[i] \in Blocks /\ open[i] # b /\ tx'[open[i]] = tx[open[i]]
    BY <1>1, <1>2, <1>3 DEF StackInv, Stacked, BlocksCounted, Proper
  <1>9. Here' = Here \/ Here' = Here \cup {b}
    BY <1>1, <1>2 DEF Here
  <1>10. \A w \in DOMAIN around : \A c \in around[w] : Safe(c)' <=> Safe(c)
    BY <1>6, <1>7, <1>9 DEF Safe
  <1>11. /\ WritesKnown' /\ BlocksStarted' /\ Atomic' /\ Kept'
         /\ WorkSafe => WorkSafe'
    BY <1>2, <1>5, <1>7, <1>10 DEF WritesKnown, BlocksStarted, Atomic, Kept, WorkSafe
  <1>12. CASE server.status = "inerror" /\ open' = open /\ server'.saves = server.saves
    <2>1. Nested'
      BY <1>2, <1>5, <1>12 DEF Nested
    <2>2. OuterWork'
      <3>1. open # <<>> => 1 \in DOMAIN open
        BY <1>1
      <3> QED BY <1>2, <1>5, <1>8, <1>12, <3>1 DEF OuterWork
    <2>3. num' # Len(open')
      <3>1. Len(open') = n
        BY <1>12
      <3> HIDE DEF n
      <3> QED BY <1>1, <1>3, <3>1
    <2> QED BY <1>11, <2>1, <2>2, <2>3
  <1>13. CASE server.status # "inerror" /\ open' = Append(open, b)
    <2>1. /\ DOMAIN open' = 1 .. n + 1 /\ open'[n + 1] = b
          /\ \A i \in DOMAIN open : open'[i] = open[i]
      BY <1>1, <1>13
    <2>2. num = n
      BY <1>13 DEF StackInv, Stacked, NoneLeaked, Proper
    <2>3. Nested'
      <3> SUFFICES ASSUME NEW w \in DOMAIN around, NEW i \in DOMAIN open',
                          NEW j \in DOMAIN open', i <= j, open'[j] \in around[w]
                   PROVE  open'[i] \in around[w]
        BY <1>2 DEF Nested
      <3>1. j # n + 1
        BY <1>6, <2>1
      <3>2. i \in DOMAIN open /\ j \in DOMAIN open
        BY <1>1, <2>1, <3>1
      <3> QED BY <1>5, <2>1, <3>2 DEF Nested
    <2>4. OuterWork'
      <3>1. CASE n = 0
        BY <1>2, <1>3, <2>1, <3>1 DEF outer, StackInv, IdleEmpty, Ending, OuterWork
      <3>2. CASE n # 0
        <4>1. 1 \in DOMAIN open /\ open # <<>>
          BY <1>1, <3>2
        <4> QED BY <1>2, <1>5, <1>8, <2>1, <4>1 DEF OuterWork
      <3> QED BY <3>1, <3>2
    <2>5. WorkSaved'
      <3> SUFFICES ASSUME NEW k \in 1 .. Depth'
                   PROVE  server'.saves[k].work =
                            {w \in server.work : open'[k + Bare'] \notin around[w]}
        BY <1>2 DEF WorkSaved
      <3>1. /\ Depth \in Nat /\ Depth' \in Nat
            /\ \A h \in 1 .. Depth :
                  /\ h + Bare' = h + Bare /\ open'[h + Bare] = open[h + Bare]
            /\ IF tx'[b].name = NoName
               THEN Depth' = Depth /\ Depth' = 0 /\ server'.saves = server.saves
               ELSE /\ Depth' = Depth + 1 /\ open'[Depth' + Bare'] = b
                    /\ server'.saves = Append(server.saves,
                                              [name |-> tx'[b].name, work |-> server.work])
        BY <1>13, EnterPlaces
      <3>2. Depth' = Depth + 1 /\ tx'[b].name # NoName /\ open'[Depth' + Bare'] = b
        BY <3>1
      <3> DEFINE e == [name |-> tx'[b].name, work |-> server.work]
      <3>3. server'.saves = Append(server.saves, e)
        BY <3>1, <3>2
      <3>4. e.work = server.work
        OBVIOUS
      <3> HIDE DEF e
      <3>5. server.saves \in Seq(Savepoints) /\ Len(server.saves) = Depth
        BY <1>13 DEF IInv, TypeOK, ServerStates, Saved
      <3>6. server'.saves[Depth'] = e /\ \A h \in 1 .. Depth : server'.saves[h] = server.saves[h]
        BY <3>1, <3>2, <3>3, <3>5
      <3>7. CASE k = Depth'
        BY <1>5, <1>6, <3>2, <3>7, <3>4, <3>6 DEF WritesKnown
      <3>8. CASE k # Depth'
        <4>1. k \in 1 .. Depth
          BY <3>1, <3>2, <3>8
        <4>2. server.saves[k].work = {w \in server.work : open[k + Bare] \notin around[w]}
          BY <1>5, <2>2, <4>1 DEF WorkSaved
        <4>3. open'[k + Bare'] = open[k + Bare]
          BY <3>1, <4>1
        <4> QED BY <3>6, <4>1, <4>2, <4>3
      <3> QED BY <3>7, <3>8
    <2> QED BY <1>5, <1>11, <2>2, <2>3, <2>4, <2>5
  <1> QED BY <1>2, <1>12, <1>13

\* What leaving a block in order keeps
LEMMA LeaveKeeps ==
    ASSUME IInv, StackInv, NEW b \in Blocks, NEW st, Leave(b), Marked(b, st),
           UNCHANGED <<around, distinct>>, Proper'
    PROVE  /\ b \in Here /\ Here' = Here \ {b} /\ tx[b].status = "active"
           /\ \A i \in DOMAIN open' : i \in DOMAIN open /\ open'[i] = open[i]
           /\ \A w \in DOMAIN around : \A c \in around[w] : c # b =>
                 tx'[c].status = tx[c].status
           /\ tx'[b].status = st
           /\ OuterWork /\ server'.work \subseteq server.work => OuterWork'
           /\ Nested => Nested'
           /\ BlocksStarted /\ st # "not_started" => BlocksStarted'
  <1>1. /\ TypeOK /\ open \in Seq(Blocks) /\ open' \in Seq(Blocks)
        /\ DOMAIN open = 1 .. Len(open)
    BY LeaveType DEF IInv, TypeOK
  <1>2. /\ ordered /\ open # <<>> /\ open[Len(open)] = b
        /\ Len(open) \in Nat /\ Len(open') = Len(open) - 1
        /\ \A i \in DOMAIN open' : i \in DOMAIN open /\ i < Len(open) /\ open'[i] = open[i]
        /\ DOMAIN open' = 1 .. Len(open) - 1
    BY LeaveLast DEF StackInv, Proper
  <1>3. Len(open) \in DOMAIN open
    BY <1>1, <1>2
  <1>4. \A i \in DOMAIN open : i = Len(open) \/ i \in DOMAIN open'
    BY <1>1, <1>2
  <1>5. \A i \in DOMAIN open' : open[i] # b
    BY <1>2, <1>3, <1>1 DEF StackInv, Stacked, BlocksCounted
  <1>6. tx[b].status = "active"
    BY <1>2, <1>3 DEF StackInv, Stacked, BlocksCounted
  <1>7. b \in Here /\ Here' = Here \ {b}
    BY <1>2, <1>3, <1>4, <1>5 DEF Here
  <1>8. \A w \in DOMAIN around : around[w] \subseteq Blocks
    BY <1>1, AroundBlocks
  <1>9. OuterWork /\ server'.work \subseteq server.work => OuterWork'
    BY <1>1, <1>2 DEF OuterWork, Marked
  <1>10. Nested => Nested'
    BY <1>2 DEF Nested
  <1>11. BlocksStarted /\ st # "not_started" => BlocksStarted'
    BY <1>8 DEF BlocksStarted, Marked
  <1> QED BY <1>2, <1>6, <1>7, <1>8, <1>9, <1>10, <1>11 DEF Marked

\* A block that is committed makes no write permanent that is in another one
LEMMA ExitCommitWritten ==
    ASSUME IInv, StackInv, Saved, Written, NEW b \in Blocks, ExitCommit(b)
    PROVE  Written'
  <1>1. TypeOK /\ num \in Nat /\ open \in Seq(Blocks) /\ Len(open) \in Nat
    BY DEF IInv, TypeOK
  <1>2. /\ Leave(b) /\ num' = num - 1 /\ tx' = [tx EXCEPT ![b].status = "committed"]
        /\ UNCHANGED <<around, distinct>>
    BY DEF ExitCommit
  <1>3. Marked(b, "committed")
    BY <1>1, <1>2, StatusOnly
  <1> SUFFICES ASSUME Proper'
               PROVE  (/\ WritesKnown /\ BlocksStarted /\ Nested /\ OuterWork
                       /\ Atomic /\ Kept
                       /\ num = Len(open) => WorkSafe /\ WorkSaved)'
    BY DEF Written
  <1>4. /\ Proper /\ Depth \in Nat /\ Depth' \in Nat
        /\ \A k \in 1 .. Depth' : k \in 1 .. Depth /\ open'[k + Bare'] = open[k + Bare]
        /\ tx[b].outer => Depth' = 0 /\ open' = <<>>
        /\ ~tx[b].outer => Depth' = Depth - 1
    BY <1>2, <1>3, LeavePlaces
  <1>5. /\ WritesKnown /\ BlocksStarted /\ Nested /\ OuterWork /\ Atomic /\ Kept
        /\ num = Len(open) => WorkSafe /\ WorkSaved
    BY <1>4 DEF Written
  <1>6. Len(open') = Len(open) - 1
    BY <1>2, LeaveLast DEF StackInv, Proper
  <1>7. /\ b \in Here /\ Here' = Here \ {b}
        /\ \A w \in DOMAIN around : \A c \in around[w] : c # b =>
              tx'[c].status = tx[c].status
        /\ tx'[b].status = "committed"
        /\ server'.work \subseteq server.work => OuterWork'
        /\ Nested' /\ BlocksStarted'
    BY <1>2, <1>3, <1>5, LeaveKeeps
  <1>8. /\ forsaken \subseteq forsaken'
        /\ \/ /\ server' = server /\ num > Len(open)
           \/ /\ tx[b].outer /\ Ending(server') /\ num = Len(open)
              /\ \/ server'.committed = server.committed \cup server.work
                 \/ /\ server'.committed = server.committed
                    /\ \A w \in server.work : w \in server.committed \/ w \in forsaken'
           \/ /\ ~tx[b].outer /\ SameData(server', server)
           \/ /\ ~tx[b].outer
              /\ server'.saves = SubSeq(server.saves, 1, Depth - 1)
              /\ server'.work = server.work /\ server'.committed = server.committed
    BY <1>2, ExitCommitDoes
  <1>9. /\ server'.work \subseteq server.work
        /\ server'.committed \subseteq server.committed \cup server.work
        /\ \A w : w \in server.committed => w \in server'.committed
        /\ \A w \in server.work :
              w \in server'.work \/ w \in server'.committed \/ w \in forsaken'
    BY <1>8 DEF Ending, SameData
  <1>10. \A w \in DOMAIN around : \A c \in around[w] :
            /\ Safe(c)' <=> Safe(c)
            /\ tx[c].status = "committed" => tx'[c].status = "committed"
    BY <1>7 DEF Safe
  <1>11. WritesKnown' /\ Kept'
    BY <1>2, <1>5, <1>9, <1>8, <1>10 DEF WritesKnown, Kept
  <1>12. Atomic'
    BY <1>5, <1>10, <1>2, <1>4, <1>7, <1>9, <1>8 DEF Atomic, WritesKnown, Here, WorkSafe,
       Safe, SameData
  <1>13. num' = Len(open') => WorkSafe' /\ WorkSaved'
    <2> SUFFICES ASSUME num = Len(open) PROVE WorkSafe' /\ WorkSaved'
      BY <1>1, <1>2, <1>6
    <2>1. WorkSafe'
      BY <1>2, <1>5, <1>9, <1>10 DEF WorkSafe, WritesKnown
    <2>2. CASE tx[b].outer
      BY <1>4, <2>1, <2>2 DEF WorkSaved
    <2>3. CASE ~tx[b].outer
      <3>1. server'.work = server.work
        BY <1>1, <1>8, <2>3 DEF SameData
      <3>2. \A k \in 1 .. Depth' : server'.saves[k] = server.saves[k]
        <4>1. CASE server'.saves = server.saves
          BY <4>1
        <4>2. CASE server'.saves = SubSeq(server.saves, 1, Depth - 1)
          BY <1>2, <1>3, <2>3, LastSaved, <1>4, <4>2, PrefixIs
        <4> QED BY <1>1, <1>8, <2>3, <4>1, <4>2 DEF SameData
      <3>3. WorkSaved'
        BY <1>2, <1>4, <1>5, <3>1, <3>2 DEF WorkSaved
      <3> QED BY <2>1, <3>3
    <2> QED BY <2>2, <2>3
  <1> QED BY <1>5, <1>7, <1>9, <1>11, <1>12, <1>13

\* A block that is rolled back undoes what was written in it, and nothing else
LEMMA ExitRollbackWritten ==
    ASSUME IInv, StackInv, Saved, Written, NEW b \in Blocks, ExitRollback(b)
    PROVE  Written'
  <1>1. TypeOK /\ num \in Nat /\ open \in Seq(Blocks) /\ Len(open) \in Nat
    BY DEF IInv, TypeOK
  <1>2. Leave(b) /\ num' = num - 1 /\ UNCHANGED <<around, distinct>>
    BY DEF ExitRollback
  <1>3. PICK st : /\ tx' = [tx EXCEPT ![b].status = st]
                  /\ st # "committed" /\ st # "not_started"
    <2> DEFINE st == IF raising = "rollback" \/ raising \in Blocks \/ tx[b].force
                     THEN "rolled_back_explicitly" ELSE "rolled_back_with_error"
    <2>1. tx' = [tx EXCEPT ![b].status = st]
      BY DEF ExitRollback
    <2>2. st # "committed" /\ st # "not_started"
      OBVIOUS
    <2> HIDE DEF st
    <2> QED BY <2>1, <2>2
  <1>4. Marked(b, st)
    BY <1>1, <1>3, StatusOnly
  <1> SUFFICES ASSUME Proper'
               PROVE  (/\ WritesKnown /\ BlocksStarted /\ Nested /\ OuterWork
                       /\ Atomic /\ Kept
                       /\ num = Len(open) => WorkSafe /\ WorkSaved)'
    BY DEF Written
  <1>5. /\ Proper /\ Depth \in Nat /\ Depth' \in Nat
        /\ \A k \in 1 .. Depth' : /\ k \in 1 .. Depth /\ open'[k + Bare'] = open[k + Bare]
                                  /\ k + Bare \in DOMAIN open
        /\ tx[b].outer => Depth' = 0 /\ open' = <<>>
        /\ ~tx[b].outer => /\ Depth' = Depth - 1 /\ open[Depth + Bare] = b
                           /\ Depth + Bare = Len(open)
    BY <1>2, <1>4, LeavePlaces
  <1>6. /\ WritesKnown /\ BlocksStarted /\ Nested /\ OuterWork /\ Atomic /\ Kept
        /\ num = Len(open) => WorkSafe /\ WorkSaved
    BY <1>5 DEF Written
  <1>7. /\ Len(open') = Len(open) - 1 /\ open # <<>> /\ open[Len(open)] = b
        /\ tx[b].outer => Len(open) = 1
    BY <1>2, LeaveLast, LastPopped DEF StackInv, Proper
  <1>8. /\ b \in Here /\ Here' = Here \ {b} /\ tx[b].status = "active"
        /\ \A w \in DOMAIN around : \A c \in around[w] : c # b =>
              tx'[c].status = tx[c].status
        /\ tx'[b].status = st
        /\ server'.work \subseteq server.work => OuterWork'
        /\ Nested' /\ BlocksStarted'
    BY <1>2, <1>3, <1>4, <1>6, LeaveKeeps
  <1>9. /\ forsaken' = forsaken /\ server'.committed = server.committed
        /\ \/ server' = server /\ num > Len(open)
           \/ tx[b].outer /\ Ending(server') /\ num = Len(open)
           \/ /\ ~tx[b].outer /\ num = Len(open)
              /\ server'.saves = SubSeq(server.saves, 1, Depth - 1)
              /\ server'.work = server.saves[Depth].work
    BY <1>2, ExitRollbackDoes
  <1>10. ASSUME ~tx[b].outer, num = Len(open)
         PROVE  /\ server.saves[Depth].work = {w \in server.work : b \notin around[w]}
                /\ Depth - 1 \in Nat /\ Depth - 1 <= Len(server.saves)
                /\ server.saves \in Seq(Savepoints)
    BY <1>2, <1>4, <1>10, LastSaved, <1>6, <1>5 DEF WorkSaved
  <1>11. /\ server'.work \subseteq server.work
         /\ \A w \in server.work : b \notin around[w] => w \in server'.work
    BY <1>7, <1>6, <1>10, <1>9 DEF OuterWork, Ending
  <1>12. \A w \in DOMAIN around : \A c \in around[w] :
            /\ Safe(c)' <=> (c # b /\ Safe(c))
            /\ tx[c].status = "committed" <=> (tx'[c].status = "committed")
    BY <1>3, <1>8 DEF Safe
  <1>13. WritesKnown' /\ Kept' /\ Atomic'
    BY <1>2, <1>6, <1>9, <1>11, <1>12 DEF WritesKnown, Kept, Atomic
  <1>14. num' = Len(open') => WorkSafe' /\ WorkSaved'
    <2> SUFFICES ASSUME num = Len(open) PROVE WorkSafe' /\ WorkSaved'
      BY <1>1, <1>2, <1>7
    <2>1. CASE tx[b].outer
      BY <1>1, <1>9, <2>1, <1>5 DEF Ending, WorkSafe, WorkSaved
    <2>2. CASE ~tx[b].outer
      <3>1. /\ server'.saves = SubSeq(server.saves, 1, Depth - 1)
            /\ server'.work = {w \in server.work : b \notin around[w]}
        BY <1>1, <1>9, <1>10, <2>2
      <3>2. WorkSafe'
        BY <1>2, <1>6, <1>12, <3>1 DEF WorkSafe, WritesKnown
      <3>3. \A k \in 1 .. Depth' : server'.saves[k] = server.saves[k]
        BY <1>5, <1>10, <2>2, <3>1, PrefixIs
      <3>4. ASSUME NEW k \in 1 .. Depth'
            PROVE  server'.saves[k].work =
                     {w \in server'.work : open'[k + Bare'] \notin around'[w]}
        BY <1>5, <1>6, <1>1, <1>7, <1>2, <3>1, <3>3 DEF WorkSaved, Nested, WritesKnown
      <3> QED BY <3>2, <3>4 DEF WorkSaved
    <2> QED BY <2>1, <2>2
  <1> QED BY <1>6, <1>8, <1>11, <1>13, <1>14

\* commit() and rollback() of the connection, out of any block
LEMMA ConnEndWritten ==
    ASSUME IInv, Written, num = 0, Ending(server'), forsaken \subseteq forsaken',
           server'.committed \subseteq server.committed \cup server.work,
           server.committed \subseteq server'.committed,
           \A w \in server.work : w \in server'.committed \/ w \in forsaken',
           UNCHANGED <<num, tx, open, around, ordered, distinct>>
    PROVE  Written'
  <1> SUFFICES ASSUME Proper
               PROVE  (/\ WritesKnown /\ BlocksStarted /\ Nested /\ OuterWork
                       /\ Atomic /\ Kept
                       /\ num = Len(open) => WorkSafe /\ WorkSaved)'
    BY DEF Written, Proper
  <1>1. open \in Seq(Blocks) /\ Len(open) <= 0
    BY DEF IInv, TypeOK, AllCounted
  <1>2. open = <<>> /\ Len(open) = 0 /\ Here = {}
    BY <1>1 DEF Here
  <1>3. /\ WritesKnown /\ BlocksStarted /\ Nested /\ OuterWork /\ Atomic /\ Kept
        /\ WorkSafe
    BY <1>2 DEF Written
  <1>4. Here' = Here /\ Bare' = 0
    BY <1>2 DEF Here, Bare
  <1>5. Depth' = 0
    BY <1>2, <1>4 DEF Depth
  <1>6. WritesKnown' /\ BlocksStarted' /\ Nested' /\ OuterWork'
    BY <1>2, <1>3 DEF WritesKnown, BlocksStarted, Nested, OuterWork, Ending
  <1>7. Atomic'
    BY <1>2, <1>3 DEF Atomic, WorkSafe, Safe
  <1>8. Kept'
    BY <1>3, <1>4 DEF Kept, Safe
  <1>9. WorkSafe' /\ WorkSaved'
    BY <1>5 DEF WorkSafe, WorkSaved, Ending
  <1> QED BY <1>6, <1>7, <1>8, <1>9

\* Every step keeps what was written
LEMMA NextWritten == IInv /\ StackInv /\ Saved /\ Written /\ [Next]_vars => Written'
  <1> SUFFICES ASSUME IInv, StackInv, Saved, Written, [Next]_vars PROVE Written'
    OBVIOUS
  <1>1. server \in ServerStates
    BY DEF IInv, TypeOK
  <1>2. CASE Execute
    BY <1>2, ExecuteWritten
  <1>3. CASE \E b \in Blocks, name \in Names, force \in BOOLEAN : Enter(b, name, force)
    BY <1>3, EnterWritten
  <1>4. CASE \E b \in Blocks : ExitCommit(b) \/ ExitRollback(b)
    BY <1>4, ExitCommitWritten, ExitRollbackWritten
  <1>5. CASE \/ \E e \in {"error", "rollback"} \cup {open[i] : i \in DOMAIN open} : Raise(e)
             \/ Handle \/ Forbidden \/ UNCHANGED vars
    BY <1>5, WrittenSame DEF Raise, Handle, Forbidden, historyVars, vars, clientVars
  <1>6. CASE ConnCommit
    BY <1>6, <1>1, CommitDoes, ConnEndWritten DEF ConnCommit, Ended, ServerStates, Ending
  <1>7. CASE ConnRollback
    BY <1>7, <1>1, RollbackDoes, ConnEndWritten DEF ConnRollback, clientVars
  <1> QED BY <1>2, <1>3, <1>4, <1>5, <1>6, <1>7 DEF Next

\* A savepoint keeps all that was not written in its block, the work of a transaction
\* is of blocks that were committed or still may be, and all of these writes are there
\* (transaction.py:180-207)
THEOREM WrittenCorrect == Spec => []Written
  <1>1. Init => Written
    BY DEF Init, Bare, Depth, Written, WritesKnown, BlocksStarted, Nested, OuterWork, Atomic,
       Kept, WorkSafe, WorkSaved
  <1> QED BY <1>1, NextWritten, Inductive, StackCorrect, SavedCorrect, PTL DEF Spec

(***************************************************************************)
(* Blocks are atomic: what is permanent was written in blocks that were    *)
(* all committed (transaction.py:180-240, _connection_base.py:572).        *)
(***************************************************************************)
THEOREM AtomicCorrect == Spec => []BlocksAtomic
  <1>1. Written => BlocksAtomic
    BY DEF Written, Atomic, BlocksAtomic
  <1> QED BY <1>1, WrittenCorrect, PTL

(***************************************************************************)
(* Nothing is lost: leaving a block undoes what was written in it, and no  *)
(* more (transaction.py:192-207).                                          *)
(***************************************************************************)
THEOREM KeptCorrect == Spec => []CommittedKept
  <1>1. Written => CommittedKept
    BY DEF Written, Kept, Safe, CommittedKept
  <1> QED BY <1>1, WrittenCorrect, PTL
=============================================================================

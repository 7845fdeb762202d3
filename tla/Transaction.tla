----------------------------- MODULE Transaction -----------------------------
(***************************************************************************)
(* Transaction blocks (psycopg/transaction.py) and commit() and rollback() *)
(* of a connection, with the transaction of the server they manage.        *)
(*                                                                         *)
(* A block is entered once.  Blocks nest: the outer one is a transaction,  *)
(* the others are savepoints of it, or of the transaction that a query     *)
(* out of autocommit mode has started.  An exception leaves the innermost  *)
(* block, unless the program handles it in there.  Two threads that share  *)
(* the connection may also leave their blocks in the wrong order.          *)
(***************************************************************************)
EXTENDS Integers, Sequences, FiniteSets

CONSTANTS
    Blocks,             \* the Transaction objects
    Names,              \* savepoint names the program may give; 0 is none
    MaxWrites           \* bound: statements executed with success

ASSUME TransactionAssumption ==
    /\ Names \subseteq Int /\ \A n \in Names : n <= 0
    /\ MaxWrites \in Nat

VARIABLES
    autocommit,     \* conn.autocommit
    num,            \* conn._num_transactions
    tx,             \* the attributes of each block
    open,           \* the blocks entered and not left, in the order of entering
    raising,        \* the exception that propagates, or "none"
    server,         \* the state of the server's transaction, and what is committed
    around,         \* history: the blocks each write was executed in
    ordered,        \* history: no block was left in the wrong order
    distinct,       \* history: no block was given the name of one around it
    forsaken        \* history: writes undone by a failed commit or by rollback()

clientVars == <<autocommit, num, tx, open, raising>>
historyVars == <<around, ordered, distinct, forsaken>>
vars == <<clientVars, server, historyVars>>

Writes == 1 .. MaxWrites
NoName == 0

-----------------------------------------------------------------------------
(***************************************************************************)
(* The server: what a command may do in a state s, as a set of outcomes.   *)
(* The work of a transaction is the set of its writes; a savepoint keeps   *)
(* the work at its time.                                                   *)
(***************************************************************************)
Good(s) == [state |-> s, ok |-> TRUE]

\* An error in a transaction aborts it, up to a savepoint or its end
Failed(s) ==
    [state |-> [s EXCEPT !.status = IF @ = "idle" THEN @ ELSE "inerror"], ok |-> FALSE]

End(s) == [s EXCEPT !.status = "idle", !.saves = <<>>, !.work = {}]

Begin(s) == {Good([s EXCEPT !.status = IF @ = "idle" THEN "intrans" ELSE @])}

Savepoint(s, name) ==
    IF s.status = "intrans"
    THEN {Good([s EXCEPT !.saves = Append(@, [name |-> name, work |-> s.work])])}
    ELSE {Failed(s)}

\* Where the most recent savepoint of a name is, if there is one
Latest(s, name) ==
    {i \in DOMAIN s.saves :
        /\ s.saves[i].name = name
        /\ \A j \in DOMAIN s.saves : j > i => s.saves[j].name # name}

RollbackTo(s, name) ==
    IF Latest(s, name) # {}
    THEN {Good([s EXCEPT !.status = "intrans", !.saves = SubSeq(@, 1, i),
                         !.work = s.saves[i].work]) : i \in Latest(s, name)}
    ELSE {Failed(s)}

Release(s, name) ==
    IF s.status = "intrans" /\ Latest(s, name) # {}
    THEN {Good([s EXCEPT !.saves = SubSeq(@, 1, i - 1)]) : i \in Latest(s, name)}
    ELSE {Failed(s)}

\* COMMIT of an aborted transaction is a rollback, not an error; one that fails
\* (a deferred constraint) ends the transaction
Commit(s) ==
    IF s.status = "intrans"
    THEN {Good(End([s EXCEPT !.committed = @ \cup s.work])),
          [state |-> End(s), ok |-> FALSE]}
    ELSE {Good(End(s))}

Rollback(s) == {Good(End(s))}

Statement(s, w) ==
    CASE s.status = "idle" -> {Good([s EXCEPT !.committed = @ \cup {w}]), Failed(s)}
      [] s.status = "intrans" -> {Good([s EXCEPT !.work = @ \cup {w}]), Failed(s)}
      [] OTHER -> {Failed(s)}

\* Two commands, the second one if the first succeeds
Then(outcomes, Second(_)) ==
    UNION {IF r.ok THEN Second(r.state) ELSE {r} : r \in outcomes}

-----------------------------------------------------------------------------
NewBlock ==
    [status |-> "not_started", outer |-> FALSE, index |-> -1, name |-> NoName,
     force |-> FALSE]

Init ==
    /\ autocommit \in BOOLEAN
    /\ num = 0
    /\ tx = [b \in Blocks |-> NewBlock]
    /\ open = <<>>
    /\ raising = "none"
    /\ server = [status |-> "idle", saves |-> <<>>, work |-> {}, committed |-> {}]
    /\ around = <<>>
    /\ ordered = TRUE /\ distinct = TRUE
    /\ forsaken = {}

\* The server has answered with r
Answered(r) == server' = r.state /\ UNCHANGED forsaken

\* ... to a COMMIT or RELEASE: an error before it or of it may undo the work
Ended(r) ==
    /\ server' = r.state
    /\ forsaken' = forsaken \cup
           {w \in server.work : /\ ~r.ok \/ server.status = "inerror"
                               /\ w \notin r.state.work \cup r.state.committed}

\* execute(): start a transaction if needed
Execute ==
    LET w == Len(around) + 1
        Run(s) == Statement(s, w)
    IN  /\ raising = "none"
        /\ w \in Writes
        /\ \E r \in IF ~autocommit /\ server.status = "idle"
                    THEN Then(Begin(server), Run) ELSE Run(server) :
              /\ Answered(r)
              /\ raising' = IF r.ok THEN "none" ELSE "error"
              /\ around' = IF r.ok
                           THEN Append(around, {open[i] : i \in DOMAIN open})
                           ELSE around
        /\ UNCHANGED <<autocommit, num, tx, open, ordered, distinct>>

(***************************************************************************)
(* __enter__(): the block takes its place in the stack, and only then its  *)
(* commands are executed; if one fails the block is not entered, and       *)
(* __exit__() will not be called.                                          *)
(***************************************************************************)
EnterCommands(s, outer, name) ==
    LET Save(t) == IF name = NoName THEN {Good(t)} ELSE Savepoint(t, name)
    IN  IF outer THEN Then(Begin(s), Save) ELSE Save(s)

\* _push_savepoint(): an inner block always has a name
NameFor(outer, name) == IF outer \/ name # NoName THEN name ELSE num + 1

Push(b, outer, name, force) ==
    /\ tx' = [tx EXCEPT ![b] = [status |-> "active", outer |-> outer, index |-> num,
                                name |-> name, force |-> force]]
    /\ num' = num + 1

Enter(b, name, force) ==
    LET outer == server.status = "idle"
        sp == NameFor(outer, name)
    IN  /\ raising = "none"
        /\ tx[b].status = "not_started"
        /\ Push(b, outer, sp, force)
        /\ \E r \in EnterCommands(server, outer, sp) :
              /\ Answered(r)
              /\ raising' = IF r.ok THEN "none" ELSE "error"
              /\ open' = IF r.ok THEN Append(open, b) ELSE open
        /\ distinct' = (distinct /\ ~\E i \in DOMAIN open :
                                        name # NoName /\ tx[open[i]].name = name)
        /\ UNCHANGED <<autocommit, around, ordered>>

-----------------------------------------------------------------------------
\* An exception is raised in the block: an error, Rollback() or Rollback(tx) ...
Raise(e) ==
    /\ raising = "none" /\ open # <<>>
    /\ raising' = e
    /\ UNCHANGED <<autocommit, num, tx, open, server, historyVars>>

\* ... and may be handled by the program
Handle ==
    /\ raising # "none"
    /\ raising' = "none"
    /\ UNCHANGED <<autocommit, num, tx, open, server, historyVars>>

Innermost(b) == open # <<>> /\ open[Len(open)] = b

\* A thread leaves its block; an exception leaves the innermost one
Leave(b) ==
    /\ \E i \in DOMAIN open :
          open[i] = b /\ open' = SubSeq(open, 1, i - 1) \o SubSeq(open, i + 1, Len(open))
    /\ raising = "none" \/ Innermost(b)
    /\ ordered' = (ordered /\ Innermost(b))

\* mutant: the commands of a rollback are executed
CommitCommands_Undo(b, s) ==
    LET Drop(t) == Release(t, tx[b].name)
    IN  IF tx[b].outer THEN Commit(s) ELSE Then(RollbackTo(s, tx[b].name), Drop)

CommitCommands(b, s) ==
    IF tx[b].outer THEN Commit(s) ELSE Release(s, tx[b].name)

\* mutant: the savepoint is only rolled back to
RollbackCommands_NoRelease(b, s) ==
    IF tx[b].outer THEN Rollback(s) ELSE RollbackTo(s, tx[b].name)

\* mutant: the savepoint is only released
RollbackCommands_NoRollback(b, s) ==
    IF tx[b].outer THEN Rollback(s) ELSE Release(s, tx[b].name)

RollbackCommands(b, s) ==
    LET Drop(t) == Release(t, tx[b].name)
    IN  IF tx[b].outer THEN Rollback(s) ELSE Then(RollbackTo(s, tx[b].name), Drop)

\* _pop_savepoint(): is the block the last one in the stack?
Popped(b) == num - 1 = tx[b].index

\* __exit__() without exception: the block is committed
ExitCommit(b) ==
    /\ Leave(b)
    /\ raising = "none" /\ ~tx[b].force
    /\ num' = num - 1
    /\ tx' = [tx EXCEPT ![b].status = "committed"]
    /\ \/ /\ ~Popped(b)
          /\ raising' = "nesting"
          /\ UNCHANGED <<server, forsaken>>
       \/ /\ Popped(b)
          /\ \E r \in CommitCommands(b, server) :
                Ended(r) /\ raising' = IF r.ok THEN "none" ELSE "error"
    /\ UNCHANGED <<autocommit, around, distinct>>

\* __exit__() with an exception, or of a block to roll back in any case
ExitRollback(b) ==
    LET explicit == raising = "rollback" \/ raising \in Blocks
    IN  /\ Leave(b)
        /\ raising # "none" \/ tx[b].force
        /\ num' = num - 1
        /\ tx' = [tx EXCEPT ![b].status =
                     IF explicit \/ tx[b].force THEN "rolled_back_explicitly"
                     ELSE "rolled_back_with_error"]
        /\ \/ /\ ~Popped(b)
              /\ raising' = "nesting"
              /\ UNCHANGED <<server, forsaken>>
           \/ /\ Popped(b)
              /\ \E r \in RollbackCommands(b, server) :
                    /\ Answered(r)
                    /\ raising' = IF r.ok /\ raising \in {"rollback", b}
                                  THEN "none" ELSE raising
        /\ UNCHANGED <<autocommit, around, distinct>>

-----------------------------------------------------------------------------
\* mutant: a block does not prevent an explicit commit
ConnCommit_InBlock ==
    /\ raising = "none"
    /\ server.status # "idle"
    /\ \E r \in Commit(server) :
          Ended(r) /\ raising' = IF r.ok THEN "none" ELSE "error"
    /\ UNCHANGED <<autocommit, num, tx, open, around, ordered, distinct>>

\* commit(): forbidden in a block, nothing to do out of a transaction
ConnCommit ==
    /\ raising = "none"
    /\ num = 0 /\ server.status # "idle"
    /\ \E r \in Commit(server) :
          Ended(r) /\ raising' = IF r.ok THEN "none" ELSE "error"
    /\ UNCHANGED <<autocommit, num, tx, open, around, ordered, distinct>>

\* rollback()
ConnRollback ==
    /\ raising = "none"
    /\ num = 0 /\ server.status # "idle"
    /\ \E r \in Rollback(server) : server' = r.state
    /\ forsaken' = forsaken \cup server.work
    /\ UNCHANGED <<clientVars, around, ordered, distinct>>

\* commit() and rollback() in a block
Forbidden ==
    /\ raising = "none"
    /\ num # 0
    /\ raising' = "error"
    /\ UNCHANGED <<autocommit, num, tx, open, server, historyVars>>

Next ==
    \/ Execute
    \/ \E b \in Blocks, name \in Names, force \in BOOLEAN : Enter(b, name, force)
    \/ \E b \in Blocks : ExitCommit(b) \/ ExitRollback(b)
    \/ \E e \in {"error", "rollback"} \cup {open[i] : i \in DOMAIN open} : Raise(e)
    \/ Handle
    \/ ConnCommit \/ ConnRollback \/ Forbidden

Spec == Init /\ [][Next]_vars

-----------------------------------------------------------------------------
(* Properties *)

Statuses ==
    {"not_started", "active", "committed", "rolled_back_explicitly",
     "rolled_back_with_error"}

Savepoints == [name : Int, work : SUBSET Writes]

ServerStates ==
    [status : {"idle", "intrans", "inerror"}, saves : Seq(Savepoints),
     work : SUBSET Writes, committed : SUBSET Writes]

\* The types of the variables
TypeOK ==
    /\ autocommit \in BOOLEAN /\ num \in Nat
    /\ tx \in [Blocks -> [status : Statuses, outer : BOOLEAN, index : Int, name : Int,
                          force : BOOLEAN]]
    /\ open \in Seq(Blocks)
    /\ raising \in {"none", "error", "rollback", "nesting"} \cup Blocks
    /\ server \in ServerStates
    /\ around \in Seq(SUBSET Blocks) /\ Len(around) <= MaxWrites
    /\ ordered \in BOOLEAN /\ distinct \in BOOLEAN /\ forsaken \subseteq Writes

\* The program left its blocks in order, and did not give a block the name of
\* one around it: ROLLBACK TO could then find the savepoint of an inner block
\* whose RELEASE failed
Proper == ordered /\ distinct

(***************************************************************************)
(* Blocks are atomic: what was written in a block becomes permanent only   *)
(* if the block, and all those around it, were committed; not if one was   *)
(* rolled back, and not before the outermost ends.  The savepoints the     *)
(* blocks roll back to and release must be theirs (transaction.py:180-240) *)
(* and commit() must be impossible in a block (_connection_base.py:572).   *)
(***************************************************************************)
BlocksAtomic ==
    Proper => \A w \in server.committed \cap DOMAIN around :
                  \A b \in around[w] : tx[b].status = "committed"

(***************************************************************************)
(* Nothing is lost: what was written with success, in blocks that are all  *)
(* committed, is permanent or waits for the end of the transaction, unless *)
(* a commit that failed, or that ended a transaction in error, or          *)
(* rollback() undid it: leaving a block undoes what is in it, no more.     *)
(***************************************************************************)
CommittedKept ==
    Proper => \A w \in DOMAIN around \ forsaken :
                  (\A b \in around[w] : tx[b].status = "committed")
                      => w \in server.committed \cup server.work

\* How many of the blocks open have no savepoint: only the outer one may have none
Bare == IF open # <<>> /\ tx[open[1]].name = NoName THEN 1 ELSE 0

(***************************************************************************)
(* The stack of the server is the one of the client: unless a transaction  *)
(* is aborted, its savepoints are those of the blocks open, in the same    *)
(* order.  A block that was left, in any way, has not left its own behind. *)
(***************************************************************************)
SavepointsMatch ==
    Proper /\ server.status = "intrans" =>
        /\ Len(server.saves) = Len(open) - Bare
        /\ \A i \in DOMAIN server.saves : server.saves[i].name = tx[open[i + Bare]].name

(***************************************************************************)
(* The assertions on _num_transactions hold (transaction.py:189,206,219):  *)
(* out of a transaction no block is counted, whatever order the blocks     *)
(* are left in and whatever fails.                                         *)
(***************************************************************************)
AssertionsHold == server.status = "idle" => num = 0

(***************************************************************************)
(* "a transaction context tries to leave a connection in the state it      *)
(* found it" (docs/basic/transactions.rst): in autocommit mode no          *)
(* transaction is left when all the blocks are, if they were all entered.  *)
(***************************************************************************)
LeavesAsFound ==
    autocommit /\ ordered /\ open = <<>> /\ num = 0 => server.status = "idle"

(***************************************************************************)
(* The savepoints and the transaction of the server are those of the       *)
(* blocks that are open, when they are entered, left and skipped in any    *)
(* order (transaction.py).                                                 *)
(***************************************************************************)
ServerFollows ==
    /\ TypeOK
    /\ SavepointsMatch
    /\ LeavesAsFound

-----------------------------------------------------------------------------
(* What a comment says, and the code does not always do *)

(***************************************************************************)
(* A nesting error tells that blocks were left out of order, "which is     *)
(* unrelated from operational error that might arise in the block"         *)
(* (transaction.py:123-127).                                               *)
(***************************************************************************)
NestingUnrelated == raising = "nesting" => ~ordered
=============================================================================

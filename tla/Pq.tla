--------------------------------- MODULE Pq ---------------------------------
(***************************************************************************)
(* The libpq wrapper: Python objects (PGconn, PGresult, PGcancel,           *)
(* PGcancelConn, PQBuffer) that own memory allocated by libpq, in the two   *)
(* implementations, ctypes (pq/pq_ctypes.py) and Cython (psycopg_c/pq).     *)
(*                                                                         *)
(* What is modelled is who owns each pointer: which calls test it before    *)
(* handing it to libpq, what each call allocates, who frees it and when.    *)
(* A call has two steps, because both builds release the GIL inside libpq   *)
(* and another thread may run meanwhile; a notice may come inside a call.   *)
(* The process may fork: the child has a copy of the memory and of the      *)
(* objects, but shares the sessions with the parent.                        *)
(*                                                                         *)
(* What libpq does with a NULL pointer is external: every function used     *)
(* here accepts one, but PQflush, PQcancelPoll and PQcancelReset.           *)
(***************************************************************************)
EXTENDS Integers, Sequences, FiniteSets

CONSTANTS
    Callers,    \* the actors that make calls other than close()
    Builds,     \* the implementations to check: a subset of {"python", "c"}
    MaxCells,   \* bound: pieces of memory of a process at a time
    MaxObjs     \* bound: objects of a process at a time

ASSUME PqAssumption ==
    /\ Builds \subseteq {"python", "c"}
    /\ MaxCells \in Nat /\ MaxObjs \in Nat

VARIABLES
    pqBuild,    \* the implementation in use
    mem,        \* process -> slot -> [kind, frees]: libpq's memory
    objs,       \* process -> slot -> [kind, ptr, pid]: the live objects
    running,    \* thread -> the call it is in, or Idle
    forked,     \* the child process exists
    ended,      \* how a process ended the session of the other: a set
    badUse      \* pointers misused: set of [why, raced]

pqVars == <<pqBuild, mem, objs, running, forked, ended, badUse>>

\* Two threads of the parent process, one of the child.
Actors == {"p1", "p2", "c1"}
Procs == {"parent", "child"}
ProcOf(a) == IF a = "c1" THEN "child" ELSE "parent"

Idle == [row |-> "none"]
Null == 0

-----------------------------------------------------------------------------
(* The wrapped calls: the object they are on, whether the pointer is tested *)
(* first (and OperationalError raised), what libpq returns to be owned:     *)
(* "none", "temp" (copied, then freed in the call), an object of a kind, or *)
(* "lost" (never freed); and whether argument arrays are allocated.         *)

Row(on, checked, gives, args) ==
    [on |-> on, checked |-> checked, gives |-> gives, args |-> args,
     strict |-> FALSE, notices |-> FALSE]

\* Properties read through _call_bytes(), _call_int(), _call_bool().
Property == Row("conn", TRUE, "none", FALSE)
PropertyC == Row("conn", TRUE, "none", FALSE)

ServerInfo == Row("conn", TRUE, "none", FALSE)
ServerInfoC == Row("conn", TRUE, "none", FALSE)

\* PGconn.status and its kind: the pointer is passed as it is.
Status == Row("conn", FALSE, "none", FALSE)
StatusC == Row("conn", FALSE, "none", FALSE)

\* PGconn.info: the array of options is freed by a finally.
Info == Row("conn", TRUE, "temp", FALSE)
InfoC == Row("conn", TRUE, "temp", FALSE)

\* exec_(), exec_params(), exec_prepared() and the send_ functions
Exec == Row("conn", TRUE, "result", FALSE)
ExecParams == Row("conn", TRUE, "result", FALSE)
ExecPrepared == Row("conn", TRUE, "result", FALSE)
Describe == Row("conn", TRUE, "result", FALSE)

\* In C the arrays of arguments are allocated before the test of the
\* pointer and freed after the call, whatever its outcome.
ExecC == Row("conn", TRUE, "result", FALSE)
ExecParamsC == Row("conn", TRUE, "result", TRUE)
ExecPreparedC == Row("conn", TRUE, "result", TRUE)
DescribeC == Row("conn", TRUE, "result", FALSE)

GetResult == Row("conn", FALSE, "result", FALSE)
GetResultC == Row("conn", FALSE, "result", FALSE)

\* "PQflush segfaults if it receives a NULL connection"
FlushCall == Row("conn", TRUE, "none", FALSE)
FlushC == Row("conn", TRUE, "none", FALSE)

CancelConn == Row("conn", FALSE, "cancelconn", FALSE)
GetCancel == Row("conn", FALSE, "cancel", FALSE)
CancelConnC == Row("conn", FALSE, "cancelconn", FALSE)

\* notifies(), get_copy_data(), encrypt_password(): copied, then freed. In
\* C the data of a copy stay where they are, in a buffer object.
NotifiesCall == Row("conn", FALSE, "temp", FALSE)
GetCopyData == Row("conn", FALSE, "temp", FALSE)
GetCopyDataC == Row("conn", FALSE, "buffer", FALSE)
EncryptPassword == Row("conn", FALSE, "temp", FALSE)

\* change_password() reads the status of the result and forgets it.
ChangePassword == Row("conn", FALSE, "lost", FALSE)
ChangePasswordC == Row("conn", FALSE, "lost", FALSE)

\* PQmakeEmptyPGresult allocates also without a connection.
MakeEmptyResult == Row("conn", FALSE, "empty", FALSE)

PipelineCalls == Row("conn", FALSE, "none", FALSE)
PipelineCallsC == Row("conn", FALSE, "none", FALSE)

\* Escaping, and Conninfo (which takes no connection): copied, then freed.
ConninfoCall == Row("any", FALSE, "temp", FALSE)
ConninfoCallC == Row("any", FALSE, "temp", FALSE)
Escape == Row("conn", TRUE, "temp", FALSE)
EscapeC == Row("conn", TRUE, "temp", FALSE)

ResultCall == Row("result", FALSE, "none", FALSE)
ResultCallC == Row("result", FALSE, "none", FALSE)
CancelStart == Row("cancelconn", FALSE, "none", FALSE)
CancelPoll == Row("cancelconn", TRUE, "none", FALSE)
CancelCallC == Row("cancelconn", TRUE, "none", FALSE)
Cancel == Row("cancel", FALSE, "none", FALSE)

Calls ==
    [property |-> Property, server_info |-> ServerInfo,
     conninfo |-> ConninfoCall, status |-> Status, info |-> Info, exec |-> Exec,
     exec_params |-> ExecParams, exec_prepared |-> ExecPrepared,
     describe |-> Describe, get_result |-> GetResult, flush |-> FlushCall,
     cancel_conn |-> CancelConn, get_cancel |-> GetCancel,
     notifies |-> NotifiesCall, get_copy_data |-> GetCopyData,
     encrypt_password |-> EncryptPassword,
     change_password |-> ChangePassword,
     make_empty_result |-> MakeEmptyResult, pipeline |-> PipelineCalls,
     escape |-> Escape, result |-> ResultCall, start |-> CancelStart,
     poll |-> CancelPoll, cancel |-> Cancel]

CallsC ==
    [Calls EXCEPT !.property = PropertyC, !.server_info = ServerInfoC,
                  !.conninfo = ConninfoCallC, !.status = StatusC,
                  !.info = InfoC, !.exec = ExecC, !.exec_params = ExecParamsC,
                  !.exec_prepared = ExecPreparedC, !.describe = DescribeC,
                  !.get_result = GetResultC, !.flush = FlushC,
                  !.cancel_conn = CancelConnC,
                  !.get_copy_data = GetCopyDataC,
                  !.change_password = ChangePasswordC,
                  !.pipeline = PipelineCallsC, !.escape = EscapeC,
                  !.result = ResultCallC, !.poll = CancelCallC]

\* libpq functions that dereference the pointer without a test.
Intolerant == {"flush", "poll"}

\* Calls during which the server may send a notice.
Noticing == {"exec", "exec_params", "exec_prepared", "describe",
             "get_result", "change_password"}

CallOf(f) == [(IF pqBuild = "python" THEN Calls[f] ELSE CallsC[f])
                EXCEPT !.strict = f \in Intolerant,
                       !.notices = f \in Noticing]

\* Calls that differ in name only are one call.
AllCalls == {CallOf(f) : f \in DOMAIN Calls}

-----------------------------------------------------------------------------
(* Memory. A piece that was freed, and that nothing points to any more, may *)
(* be handed out again: its slot is empty. What is known to leak is not     *)
(* followed: the result of change_password(), the arguments of a call that  *)
(* fails on one of them, what a child inherits of the parent's connections. *)

NoCell == [kind |-> "none", frees |-> 0]
Cell(kind) == [kind |-> kind, frees |-> 0]
NoObj == [kind |-> "none", ptr |-> Null, pid |-> "none"]
Object(kind, ptr, p) == [kind |-> kind, ptr |-> ptr, pid |-> p]

Slots == 1..MaxCells
ObjSlots == 1..MaxObjs

NewPtr(p) == CHOOSE i \in Slots : mem[p][i] = NoCell
NewObj(p) == CHOOSE o \in ObjSlots : objs[p][o] = NoObj
Room(p) == /\ \E i \in Slots : mem[p][i] = NoCell
           /\ \E o \in ObjSlots : objs[p][o] = NoObj

\* The slots of process p once what was freed and is unknown is forgotten.
Tidy(p, cells, objects, calls) ==
    [i \in Slots |->
        IF /\ cells[i].frees = 1
           /\ \A o \in ObjSlots : objects[o].ptr /= i
           /\ \A a \in Actors : calls[a] /= Idle /\ ProcOf(a) = p =>
                                    calls[a].ptr /= i /\ calls[a].args /= i
        THEN NoCell ELSE cells[i]]

Freed(cells, i) == IF i = Null THEN cells
                   ELSE [cells EXCEPT ![i].frees = @ + 1]

\* The calls in course in other threads with a pointer that is freed.
Overtaken(p, i) ==
    [a \in Actors |->
        IF running[a] /= Idle /\ ProcOf(a) = p /\ running[a].ptr = i /\ i /= Null
        THEN [running[a] EXCEPT !.raced = TRUE]
        ELSE running[a]]

\* finish(), clear(), free(): the pointer is taken out of the object, then
\* freed if there was one.
Forgotten(obj) == [obj EXCEPT !.ptr = Null]

\* PQfinish() also ends the session, here that of another process.
Terminates(p, obj, how) ==
    IF obj.kind = "conn" /\ obj.ptr /= Null /\ obj.pid /= p THEN {how} ELSE {}

\* The pointer of object o is freed; what is left of the object is `left`.
ReleaseObj(p, o, how, left) ==
    LET obj == objs[p][o] IN
    /\ objs' = [objs EXCEPT ![p][o] = left]
    /\ running' = Overtaken(p, obj.ptr)
    /\ mem' = [mem EXCEPT ![p] =
                 Tidy(p, Freed(@, obj.ptr), objs'[p], running')]
    /\ ended' = ended \cup Terminates(p, obj, how)

-----------------------------------------------------------------------------
(* Actions                                                                  *)

Live(a) == running[a] = Idle /\ (a = "c1" => forked)

PqInit ==
    /\ pqBuild \in Builds
    /\ mem = [p \in Procs |-> [i \in Slots |-> NoCell]]
    /\ objs = [p \in Procs |-> [o \in ObjSlots |-> NoObj]]
    /\ running = [a \in Actors |-> Idle]
    /\ forked = FALSE
    /\ ended = {}
    /\ badUse = {}

\* PGconn.connect(), connect_start(): __init__ remembers the process.
PgConnect(a) ==
    LET p == ProcOf(a) IN
    /\ Live(a)
    /\ ~ \E o \in ObjSlots : objs[p][o].kind = "conn" /\ objs[p][o].pid = p
    /\ Room(p)
    /\ mem' = [mem EXCEPT ![p][NewPtr(p)] = Cell("conn")]
    /\ objs' = [objs EXCEPT ![p][NewObj(p)] = Object("conn", NewPtr(p), p)]
    /\ UNCHANGED <<pqBuild, running, forked, ended, badUse>>

\* _ensure_pgconn(), _ensure_pgcancelconn(), _call_int()...
Raises(row, ptr) == row.checked /\ ptr = Null

\* _query_params_args() in C: four arrays, allocated before anything else.
ParamArrays(p, row) == IF row.args THEN NewPtr(p) ELSE Null

\* A call enters libpq: the pointer was read and tested. In C the arrays of
\* arguments are there already; they are freed if the connection is closed.
CallEnter(a, o, row) ==
    LET p == ProcOf(a)
        ptr == IF row.on = "any" THEN Null ELSE objs[p][o].ptr
        arrays == ParamArrays(p, row)
    IN  /\ Live(a) /\ a \in Callers
        /\ row.on \in {objs[p][o].kind, "any"}
        /\ ~Raises(row, ptr)
        /\ Room(p)
        /\ mem' = IF arrays = Null THEN mem
                  ELSE [mem EXCEPT ![p][arrays] = Cell("args")]
        /\ running' = [running EXCEPT ![a] =
                         [row |-> row, ptr |-> ptr, args |-> arrays,
                          raced |-> FALSE]]
        /\ UNCHANGED <<pqBuild, objs, forked, ended, badUse>>

\* MUTANT of Borrowed: the wrapper is left as the owner of the result.
Borrowed_Kept(ptr) == ptr

\* notice_receiver(): "avoid destroying the pgresult_ptr".
Borrowed(ptr) == Null

\* A notice inside a call: libpq lends a result to the handler, which keeps
\* the wrapper object (or drops it, which changes nothing here) and may
\* raise; libpq frees the result itself when the receiver returns.
Notice(a) ==
    LET p == ProcOf(a) IN
    /\ running[a] /= Idle
    /\ running[a].row.notices
    /\ running[a].ptr /= Null
    /\ ~running[a].raced
    /\ Room(p)
    /\ objs' = [objs EXCEPT ![p][NewObj(p)] =
                  Object("result", Borrowed(NewPtr(p)), p)]
    /\ mem' = [mem EXCEPT ![p] =
                 Tidy(p, [@ EXCEPT ![NewPtr(p)] = [kind |-> "lent", frees |-> 1]],
                      objs'[p], running)]
    /\ UNCHANGED <<pqBuild, running, forked, ended, badUse>>

\* What libpq does with the pointer when the call runs.
Misuse(p, call) ==
    IF call.ptr = Null
    THEN IF call.row.strict
         THEN {[why |-> "null", raced |-> call.raced]} ELSE {}
    ELSE IF mem[p][call.ptr].frees > 0
         THEN {[why |-> "freed", raced |-> call.raced]} ELSE {}

\* The call returns: a failure, or memory and the object that owns it. On a
\* NULL pointer libpq fails and allocates nothing, but for an empty result.
\* What is copied and freed inside the call leaves nothing behind.
CallReturn(a, fails) ==
    LET p == ProcOf(a)
        call == running[a]
        kind == IF call.row.gives = "empty" THEN "result" ELSE call.row.gives
        owned == kind \in {"result", "cancel", "cancelconn", "buffer"}
        ptr == NewPtr(p)
    IN  /\ call /= Idle
        /\ ~fails => call.ptr /= Null \/ call.row.gives = "empty"
                                    \/ call.row.on = "any"
        /\ ~fails => Room(p)
        /\ running' = [running EXCEPT ![a] = Idle]
        /\ objs' = IF fails \/ ~owned THEN objs
                   ELSE [objs EXCEPT ![p][NewObj(p)] = Object(kind, ptr, p)]
        /\ LET cells == Freed(mem[p], call.args)
               given == IF fails \/ ~owned THEN cells
                        ELSE [cells EXCEPT ![ptr] = Cell(kind)]
           IN  mem' = [mem EXCEPT ![p] = Tidy(p, given, objs'[p], running')]
        /\ badUse' = badUse \cup Misuse(p, call)
        /\ UNCHANGED <<pqBuild, forked, ended>>

\* close(), finish(), clear(), free() called by the user. No lock is taken:
\* another thread may be inside a call with this pointer.
Release(a, o) ==
    LET p == ProcOf(a) IN
    /\ Live(a)
    /\ objs[p][o].kind \in {"conn", "result", "cancel", "cancelconn"}
    /\ ReleaseObj(p, o, "call", Forgotten(objs[p][o]))
    /\ UNCHANGED <<pqBuild, forked, badUse>>

\* __del__(), __dealloc__(): a connection is finished only by the process
\* that made it; the memory of the others is freed in any process.
Finalises(p, obj) == obj.kind = "conn" => obj.pid = p

\* The last reference to an object goes, not from a running call's frame. A
\* connection of the parent dies in the child with its memory unfreed.
Collect(a, o) ==
    LET p == ProcOf(a)
        obj == objs[p][o]
    IN  /\ Live(a)
        /\ obj /= NoObj
        /\ \A b \in Actors :
             running[b] /= Idle /\ ProcOf(b) = p => running[b].ptr /= obj.ptr
        /\ IF Finalises(p, obj)
           THEN ReleaseObj(p, o, "gc", NoObj)
           ELSE /\ objs' = [objs EXCEPT ![p][o] = NoObj]
                /\ mem' = IF obj.ptr = Null THEN mem
                          ELSE [mem EXCEPT ![p][obj.ptr] = NoCell]
                /\ UNCHANGED <<running, ended>>
        /\ UNCHANGED <<pqBuild, forked, badUse>>

\* os.fork() by the first thread, out of any call of its own; the call of
\* the other thread does not exist in the child, nor do its arguments.
Fork ==
    /\ ~forked
    /\ running["p1"] = Idle
    /\ forked' = TRUE
    /\ mem' = [mem EXCEPT !["child"] =
                 [i \in Slots |->
                    IF running["p2"] /= Idle /\ running["p2"].args = i
                    THEN NoCell ELSE mem["parent"][i]]]
    /\ objs' = [objs EXCEPT !["child"] = objs["parent"]]
    /\ UNCHANGED <<pqBuild, running, ended, badUse>>

\* A process that misused a pointer is taken not to go any further.
PqNext ==
    /\ badUse = {}
    /\ \/ Fork
       \/ \E a \in Actors :
           \/ PgConnect(a)
           \/ \E fails \in BOOLEAN : CallReturn(a, fails)
           \/ Notice(a)
           \/ \E o \in ObjSlots :
               \/ Release(a, o)
               \/ Collect(a, o)
               \/ \E row \in AllCalls : CallEnter(a, o, row)

PqSpec == PqInit /\ [][PqNext]_pqVars

-----------------------------------------------------------------------------
(* Properties                                                               *)

\* Type invariant of the wrapper.
PqTypeOK ==
    /\ pqBuild \in {"python", "c"}
    /\ \A p \in Procs :
        /\ \A i \in Slots : mem[p][i].frees \in Nat
        /\ \A o \in ObjSlots :
            objs[p][o].ptr \in 0..MaxCells /\ objs[p][o].pid \in Procs \cup {"none"}
    /\ forked \in BOOLEAN
    /\ \A a \in Actors : running[a] = Idle \/ running[a].row \in AllCalls

\* No call hands libpq a pointer it cannot stand: NULL goes only to the
\* functions that accept it, also when another thread closes the connection
\* meanwhile, and the pointer of an object that was released goes to none.
\* The exception to the second is a call in course on an object that another
\* thread releases, which no lock of the code forbids.
NoBadPointer == \A use \in badUse : use.raced /\ use.why = "freed"

\* Every piece of memory libpq handed over is freed once at most, and once
\* exactly when no object that owns it is left: results lent to the notice
\* handler are not freed by their wrapper, even when the handler keeps it
\* or raises, and the arguments of a call are kept until it returns.
FreedOnce ==
    \A p \in Procs : \A i \in Slots :
        /\ mem[p][i].frees <= 1
        /\ mem[p][i] /= NoCell /\ mem[p][i].frees = 0 =>
            \/ \E o \in ObjSlots : objs[p][o].ptr = i
            \/ \E a \in Actors : /\ running[a] /= Idle
                                 /\ ProcOf(a) = p
                                 /\ running[a].args = i

\* A session is never ended behind the back of the process that opened it:
\* collecting the copy of a connection in a forked child does not end the
\* parent's session ("not if this object is being GC'd after fork").
SessionKept == "gc" \notin ended

(***************************************************************************)
(* Every pointer of libpq has one owner for as long as it lives, in both   *)
(* implementations and in each process (pq_ctypes.py, pgconn.pyx).  Of use *)
(* after release a call overtaken by a release in another thread is exempt *)
(* (NoBadPointer), and of leaks those the memory above does not follow.    *)
(***************************************************************************)
PointersSafe ==
    /\ PqTypeOK
    /\ NoBadPointer
    /\ FreedOnce
    /\ SessionKept
=============================================================================

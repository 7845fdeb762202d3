--------------------------------- MODULE Pool ---------------------------------
(***************************************************************************)
(* The connection pool (psycopg_pool/pool.py, base.py).                    *)
(*                                                                         *)
(* Client threads take connections with getconn() and give them back with  *)
(* putconn(); when the pool has none they wait in a queue.  Worker threads *)
(* run the maintenance tasks of a FIFO queue: connect, clean up a returned *)
(* connection, shrink.  A scheduler thread puts delayed tasks on the same  *)
(* queue.  Other threads, the callers, open, close, drain, resize and      *)
(* check the pool, and wait for it to be full.                             *)
(*                                                                         *)
(* Each block executed under the pool's lock is one step; so is each test  *)
(* of the pool's flags outside the lock, and each interaction with the     *)
(* server.  A connection is an identity that is "absent" until a worker    *)
(* connects and again after it is closed, or dropped by its last owner     *)
(* (PGconn.__del__ closes the socket).                                     *)
(***************************************************************************)
EXTENDS Integers, Sequences, FiniteSets

CONSTANTS
    Clients, Workers, Callers,      \* the threads
    Conns,                          \* connection identities
    NoConn,                         \* None, for a connection
    Gone,                           \* a WaitingClient whose wait() has failed
    MinSize, MaxSize,               \* min_size and max_size of the constructor
    MaxWaiting,                     \* max_waiting, 0 for no limit
    HasReset, HasCheck,             \* are the reset and check callbacks given?
    Methods,                        \* the methods the callers use
    Sizes,                          \* the arguments of resize()
    Leaves,                         \* the statuses clients leave connections in
    MaxAttempts,                    \* bound: attempts before giving up
    MaxDrains, MaxResizes,          \* bound: calls of drain() and resize()
    QueueBound,                     \* bound: length of the waiting queue
    Reliable,                       \* does every attempt to connect succeed?
    Patient                         \* does no client's wait time out?

Threads == Clients \cup Workers \cup Callers

SizePairs == {s \in Nat \X Nat : s[1] <= s[2] /\ s[2] > 0}

ASSUME PoolAssumption ==
    /\ Clients \cap Workers = {}
    /\ Clients \cap Callers = {}
    /\ Workers \cap Callers = {}
    /\ IsFiniteSet(Workers) /\ Workers # {}
    /\ NoConn \notin Conns
    /\ Gone \notin Clients
    /\ MinSize \in Nat /\ MaxSize \in Nat \ {0} /\ MinSize <= MaxSize
    /\ MaxWaiting \in Nat
    /\ HasReset \in BOOLEAN /\ HasCheck \in BOOLEAN /\ Reliable \in BOOLEAN
    /\ Patient \in BOOLEAN
    /\ Sizes \in SUBSET SizePairs
    /\ Leaves \subseteq {"idle", "intrans", "active", "unknown"}
    /\ MaxAttempts \in Nat \ {0}
    /\ MaxDrains \in Nat /\ MaxResizes \in Nat /\ QueueBound \in Nat

VARIABLES
    opened, closed,     \* _opened, _closed
    pool,               \* _pool
    waiting,            \* _waiting: clients, Gone once their wait() has failed
    nconns, nconnsMin,  \* _nconns, _nconns_min
    growing,            \* _growing
    minSize, maxSize,   \* _min_size, _max_size
    drainedAt,          \* _drained_at, as the number of drain() so far
    resizes,            \* the number of resize() so far
    fullEvent,          \* _pool_full_event: "none", "unset" or "set"
    tasks,              \* _tasks
    delayed,            \* _sched: how many of each delayable task
    pc,                 \* where each thread is
    conn,               \* each thread's local connection
    ret,                \* where each thread goes after _return_connection()
                        \* or _add_to_pool()
    task,               \* the AddConnection each worker runs
    todo,               \* each caller's list of connections taken out
    failing,            \* each caller's list of clients to fail in close()
    resizing,           \* each caller's arguments of resize() and ngrow
    got,                \* the connection set() gave to a waiting client
    failed,             \* the clients on which close() has called fail()
    status,             \* pgconn.transaction_status, "absent" if not connected
    createdAt           \* conn._created_at, as drainedAt

flagVars == <<opened, closed, fullEvent>>
sizeVars == <<minSize, maxSize, drainedAt, resizes>>
countVars == <<nconns, nconnsMin, growing>>
taskVars == <<tasks, delayed>>
threadVars == <<pc, conn, ret, task>>
callerVars == <<todo, failing, resizing>>
posVars == <<got, failed>>
connVars == <<status, createdAt>>

vars == <<flagVars, sizeVars, countVars, pool, waiting, taskVars, threadVars,
          callerVars, posVars, connVars>>

-----------------------------------------------------------------------------
(* Tasks *)

Task(kind, c, grow, attempt) ==
    [kind |-> kind, conn |-> c, growing |-> grow, attempt |-> attempt]

AddConnection(grow, attempt) == Task("add", NoConn, grow, attempt)
ReturnConnection(c) == Task("return", c, FALSE, 0)
ShrinkPool == Task("shrink", NoConn, FALSE, 0)
Schedule == Task("schedule", NoConn, FALSE, 0)
StopWorker == Task("stop", NoConn, FALSE, 0)

NewConnection == AddConnection(FALSE, 0)
GrowTask == AddConnection(TRUE, 0)

Delayable ==
    {ShrinkPool} \cup {AddConnection(g, k) : g \in BOOLEAN, k \in 1..MaxAttempts}

AddTasks == {AddConnection(g, k) : g \in BOOLEAN, k \in 0..MaxAttempts}

TaskSet ==
    {ShrinkPool, Schedule, StopWorker} \cup AddTasks
        \cup {ReturnConnection(c) : c \in Conns}

Copies(n, t) == [i \in 1..n |-> t]

RunTask(t) == tasks' = Append(tasks, t)

-----------------------------------------------------------------------------
(* Connections *)

LiveStatus == {"idle", "intrans", "active", "unknown"}

\* conn.close() on the connections of a set, or the loss of the last reference
Close(cs) ==
    /\ status' = [c \in Conns |-> IF c \in cs THEN "absent" ELSE status[c]]
    /\ createdAt' = [c \in Conns |-> IF c \in cs THEN 0 ELSE createdAt[c]]

GoTo(t, where) == pc' = [pc EXCEPT ![t] = where]
Release(t) == conn' = [conn EXCEPT ![t] = NoConn]

-----------------------------------------------------------------------------
Init ==
    /\ opened = FALSE /\ closed = TRUE /\ fullEvent = "none"
    /\ pool = <<>> /\ waiting = <<>>
    /\ nconns = MinSize /\ nconnsMin = MinSize /\ growing = FALSE
    /\ minSize = MinSize /\ maxSize = MaxSize /\ drainedAt = 0 /\ resizes = 0
    /\ tasks = <<>>
    /\ delayed = [d \in Delayable |-> 0]
    /\ pc = [t \in Threads |-> "idle"]
    /\ conn = [t \in Threads |-> NoConn]
    /\ ret = [t \in Threads |-> "idle"]
    /\ task = [w \in Workers |-> NewConnection]
    /\ todo = [a \in Callers |-> {}]
    /\ failing = [a \in Callers |-> {}]
    /\ resizing = [a \in Callers |-> <<MinSize, MaxSize, 0>>]
    /\ got = [c \in Clients |-> NoConn]
    /\ failed = {}
    /\ status = [c \in Conns |-> "absent"]
    /\ createdAt = [c \in Conns |-> 0]

-----------------------------------------------------------------------------
(* getconn() *)

\* _check_open_getconn(), outside the lock
GetConn(c) ==
    /\ pc[c] \in {"idle", "refused"}
    /\ IF closed THEN GoTo(c, "idle") ELSE GoTo(c, "request")
    /\ UNCHANGED <<flagVars, sizeVars, countVars, pool, waiting, taskVars, conn,
                   ret, task, callerVars, posVars, connVars>>

\* _maybe_grow_pool()
MaybeGrow ==
    IF nconns >= maxSize \/ growing
    THEN UNCHANGED <<nconns, growing, tasks>>
    ELSE nconns' = nconns + 1 /\ growing' = TRUE /\ RunTask(GrowTask)

\* _getconn_unchecked(), critical section: a connection is ready
GetReady(c) ==
    /\ pc[c] = "request"
    /\ pool # <<>>
    /\ pool' = Tail(pool)
    /\ nconnsMin' = IF Len(pool') < nconnsMin THEN Len(pool') ELSE nconnsMin
    /\ conn' = [conn EXCEPT ![c] = Head(pool)]
    /\ GoTo(c, "check")
    /\ UNCHANGED <<flagVars, sizeVars, nconns, growing, waiting, taskVars, ret,
                   task, callerVars, posVars, connVars>>

\* ... none is, and there are too many requests waiting already
GetTooMany(c) ==
    /\ pc[c] = "request"
    /\ pool = <<>>
    /\ MaxWaiting > 0 /\ Len(waiting) >= MaxWaiting
    /\ GoTo(c, "refused")
    /\ UNCHANGED <<flagVars, sizeVars, countVars, pool, waiting, taskVars, conn,
                   ret, task, callerVars, posVars, connVars>>

\* ... the client joins the queue, and the pool grows if it can
GetQueue(c) ==
    /\ pc[c] = "request"
    /\ pool = <<>>
    /\ MaxWaiting = 0 \/ Len(waiting) < MaxWaiting
    /\ Len(waiting) < QueueBound
    /\ waiting' = Append(waiting, c)
    /\ MaybeGrow
    /\ GoTo(c, "wait")
    /\ UNCHANGED <<flagVars, sizeVars, nconnsMin, pool, delayed, conn, ret, task,
                   callerVars, posVars, connVars>>

\* ... the deadline has passed already (_get_ready_connection(), first line,
\* or the loop of _getconn_with_check_loop())
GetTooLate(c) ==
    /\ pc[c] = "request"
    /\ ~Patient
    /\ GoTo(c, "idle")
    /\ UNCHANGED <<flagVars, sizeVars, countVars, pool, waiting, taskVars, conn,
                   ret, task, callerVars, posVars, connVars>>

\* WaitingClient.wait(): notified by set()
WaitGot(c) ==
    /\ pc[c] = "wait"
    /\ got[c] # NoConn
    /\ conn' = [conn EXCEPT ![c] = got[c]]
    /\ got' = [got EXCEPT ![c] = NoConn]
    /\ GoTo(c, "check")
    /\ UNCHANGED <<flagVars, sizeVars, countVars, pool, waiting, taskVars, ret,
                   task, callerVars, failed, connVars>>

\* ... notified by fail()
WaitFailed(c) ==
    /\ pc[c] = "wait"
    /\ c \in failed
    /\ failed' = failed \ {c}
    /\ GoTo(c, "idle")
    /\ UNCHANGED <<flagVars, sizeVars, countVars, pool, waiting, taskVars, conn,
                   ret, task, callerVars, got, connVars>>

\* The queue entry of a client whose wait() has failed is not removed from the
\* queue, nor from the list of close(): set() and fail() find its error
Forget(c) ==
    /\ waiting' = [i \in DOMAIN waiting |->
                      IF waiting[i] = c THEN Gone ELSE waiting[i]]
    /\ failing' = [a \in Callers |-> failing[a] \ {c}]
    /\ failed' = failed \ {c}

\* mutant: pos.conn is not tested
WaitTimeout_Unguarded(c) ==
    /\ pc[c] = "wait"
    /\ ~Patient
    /\ Forget(c)
    /\ conn' = [conn EXCEPT ![c] = got[c]]
    /\ got' = [got EXCEPT ![c] = NoConn]
    /\ ret' = [ret EXCEPT ![c] = "idle"]
    /\ GoTo(c, "hand")
    /\ UNCHANGED <<flagVars, sizeVars, countVars, pool, taskVars, task, todo, resizing,
                   connVars>>

\* ... the wait times out (or is cancelled, in the async pool).  Condition.wait
\* reacquires the lock after the timeout, so that set() or fail() may have come
\* first: a connection that was set goes back through a worker.
WaitTimeout(c) ==
    /\ pc[c] = "wait"
    /\ ~Patient
    /\ Forget(c)
    /\ conn' = [conn EXCEPT ![c] = got[c]]
    /\ got' = [got EXCEPT ![c] = NoConn]
    /\ ret' = [ret EXCEPT ![c] = "idle"]
    /\ GoTo(c, IF got[c] # NoConn THEN "hand" ELSE "idle")
    /\ UNCHANGED <<flagVars, sizeVars, countVars, pool, taskVars, task, todo, resizing,
                   connVars>>

\* _check_connection(): the connection is good, the client has it
CheckGood(c) ==
    /\ pc[c] = "check"
    /\ GoTo(c, "use")
    /\ UNCHANGED <<flagVars, sizeVars, countVars, pool, waiting, taskVars, conn,
                   ret, task, callerVars, posVars, connVars>>

\* _putconn(): clean up here, or in a worker if there is a reset callback
PutBack(c, next) ==
    /\ GoTo(c, IF HasReset THEN "hand" ELSE "return")
    /\ ret' = [ret EXCEPT ![c] = next]

\* ... it is not: give it back and try again
CheckBad(c) ==
    /\ pc[c] = "check"
    /\ HasCheck
    /\ PutBack(c, "request")
    /\ UNCHANGED <<flagVars, sizeVars, countVars, pool, waiting, taskVars, conn, task,
                   callerVars, posVars, connVars>>

\* run_task(ReturnConnection(...))
HandOver(c) ==
    /\ pc[c] = "hand"
    /\ RunTask(ReturnConnection(conn[c]))
    /\ Release(c)
    /\ GoTo(c, ret[c])
    /\ UNCHANGED <<flagVars, sizeVars, countVars, pool, waiting, delayed, ret, task,
                   callerVars, posVars, connVars>>

-----------------------------------------------------------------------------
(* putconn() *)

\* The client leaves the connection in any state and returns it.  The test of
\* _closed in _maybe_close_connection() is outside the lock.
PutConn(c, st) ==
    /\ pc[c] = "use"
    /\ IF closed
       THEN /\ Close({conn[c]})
            /\ Release(c)
            /\ GoTo(c, "idle")
            /\ UNCHANGED ret
       ELSE /\ status' = [status EXCEPT ![conn[c]] = st]
            /\ PutBack(c, "idle")
            /\ UNCHANGED <<createdAt, conn>>
    /\ UNCHANGED <<flagVars, sizeVars, countVars, pool, waiting, taskVars, task,
                   callerVars, posVars>>

\* _return_connection(): _reset_connection() leaves the connection working
\* (after a rollback, if needed) or closed; it is replaced if it does not work,
\* if it was created before the last drain(), or if it has expired
Resettable(c) == status[c] \in {"idle", "intrans"}

\* mutant: no new connection is asked for
ReturnDiscard_NotReplaced(t) ==
    /\ pc[t] = "return"
    /\ Close({conn[t]})
    /\ Release(t)
    /\ GoTo(t, ret[t])
    /\ UNCHANGED <<flagVars, sizeVars, countVars, pool, waiting, taskVars, ret, task,
                   callerVars, posVars>>

ReturnDiscard(t) ==
    /\ pc[t] = "return"
    /\ Close({conn[t]})
    /\ Release(t)
    /\ RunTask(NewConnection)
    /\ GoTo(t, ret[t])
    /\ UNCHANGED <<flagVars, sizeVars, countVars, pool, waiting, delayed, ret, task,
                   callerVars, posVars>>

ReturnKeep(t) ==
    /\ pc[t] = "return"
    /\ Resettable(conn[t])
    /\ createdAt[conn[t]] >= drainedAt
    /\ status' = [status EXCEPT ![conn[t]] = "idle"]
    /\ GoTo(t, "add")
    /\ UNCHANGED <<flagVars, sizeVars, countVars, pool, waiting, taskVars, conn, ret,
                   task, callerVars, posVars, createdAt>>

-----------------------------------------------------------------------------
(* _add_to_pool() *)

Alive == {i \in DOMAIN waiting : waiting[i] # Gone}
IsFirst(i) == i \in Alive /\ \A j \in Alive : i <= j

AddClosed(t) ==
    /\ pc[t] = "add"
    /\ closed
    /\ Close({conn[t]})
    /\ Release(t)
    /\ GoTo(t, ret[t])
    /\ UNCHANGED <<flagVars, sizeVars, countVars, pool, waiting, taskVars, ret, task,
                   callerVars, posVars>>

\* Give the connection to the first client in the queue still waiting
AddGive(t) ==
    /\ pc[t] = "add"
    /\ ~closed
    /\ \E i \in DOMAIN waiting :
          /\ IsFirst(i)
          /\ got' = [got EXCEPT ![waiting[i]] = conn[t]]
          /\ waiting' = SubSeq(waiting, i + 1, Len(waiting))
    /\ Release(t)
    /\ GoTo(t, ret[t])
    /\ UNCHANGED <<flagVars, sizeVars, countVars, pool, taskVars, ret, task,
                   callerVars, failed, connVars>>

\* mutant: the queue is not looked at
AddKeep_Blind(t) ==
    /\ pc[t] = "add"
    /\ ~closed
    /\ pool' = Append(pool, conn[t])
    /\ fullEvent' = IF fullEvent = "unset" /\ Len(pool') >= minSize
                    THEN "set" ELSE fullEvent
    /\ Release(t)
    /\ GoTo(t, ret[t])
    /\ UNCHANGED <<opened, closed, sizeVars, countVars, waiting, taskVars, ret, task,
                   callerVars, posVars, connVars>>

\* mutant: _closed is not tested again under the lock
AddKeep_NotRechecked(t) ==
    /\ pc[t] = "add"
    /\ Alive = {}
    /\ waiting' = <<>>
    /\ pool' = Append(pool, conn[t])
    /\ fullEvent' = IF fullEvent = "unset" /\ Len(pool') >= minSize
                    THEN "set" ELSE fullEvent
    /\ Release(t)
    /\ GoTo(t, ret[t])
    /\ UNCHANGED <<opened, closed, sizeVars, countVars, taskVars, ret, task,
                   callerVars, posVars, connVars>>

\* Nobody is waiting: put it in the pool
AddKeep(t) ==
    /\ pc[t] = "add"
    /\ ~closed
    /\ Alive = {}
    /\ waiting' = <<>>
    /\ pool' = Append(pool, conn[t])
    /\ fullEvent' = IF fullEvent = "unset" /\ Len(pool') >= minSize
                    THEN "set" ELSE fullEvent
    /\ Release(t)
    /\ GoTo(t, ret[t])
    /\ UNCHANGED <<opened, closed, sizeVars, countVars, taskVars, ret, task,
                   callerVars, posVars, connVars>>

-----------------------------------------------------------------------------
(* The workers, and MaintenanceTask.run() *)

Take(w, kind) ==
    /\ pc[w] = "idle"
    /\ tasks # <<>>
    /\ Head(tasks).kind = kind
    /\ tasks' = Tail(tasks)

WorkerStop(w) ==
    /\ Take(w, "stop")
    /\ GoTo(w, "stopped")
    /\ UNCHANGED <<flagVars, sizeVars, countVars, pool, waiting, delayed, conn, ret,
                   task, callerVars, posVars, connVars>>

\* The pool is closed: discard the task, and the connection it refers to
WorkerDiscard(w) ==
    /\ \E k \in {"add", "return", "shrink", "schedule"} : Take(w, k)
    /\ closed
    /\ Close({Head(tasks).conn})
    /\ UNCHANGED <<flagVars, sizeVars, countVars, pool, waiting, delayed, pc, conn,
                   ret, task, callerVars, posVars>>

WorkerAdd(w) ==
    /\ Take(w, "add")
    /\ ~closed
    /\ task' = [task EXCEPT ![w] = Head(tasks)]
    /\ GoTo(w, "connect")
    /\ UNCHANGED <<flagVars, sizeVars, countVars, pool, waiting, delayed, conn, ret,
                   callerVars, posVars, connVars>>

WorkerReturn(w) ==
    /\ Take(w, "return")
    /\ ~closed
    /\ conn' = [conn EXCEPT ![w] = Head(tasks).conn]
    /\ ret' = [ret EXCEPT ![w] = "idle"]
    /\ GoTo(w, "return")
    /\ UNCHANGED <<flagVars, sizeVars, countVars, pool, waiting, delayed, task,
                   callerVars, posVars, connVars>>

\* schedule_task()
Delay(d) == delayed' = [delayed EXCEPT ![d] = @ + 1]

\* mutant: the shrink task reschedules itself only after it has shrunk the pool
WorkerShrink_NotAgain(w) ==
    /\ Take(w, "shrink")
    /\ ~closed
    /\ GoTo(w, "shrink")
    /\ UNCHANGED <<flagVars, sizeVars, countVars, pool, waiting, delayed, conn, ret,
                   task, callerVars, posVars, connVars>>

\* ShrinkPool._run(): first schedule the next run ...
WorkerShrink(w) ==
    /\ Take(w, "shrink")
    /\ ~closed
    /\ Delay(ShrinkPool)
    /\ GoTo(w, "shrink")
    /\ UNCHANGED <<flagVars, sizeVars, countVars, pool, waiting, conn, ret, task,
                   callerVars, posVars, connVars>>

WorkerSchedule(w) ==
    /\ Take(w, "schedule")
    /\ ~closed
    /\ Delay(ShrinkPool)
    /\ UNCHANGED <<flagVars, sizeVars, countVars, pool, waiting, threadVars,
                   callerVars, posVars, connVars>>

\* ... then _shrink_pool(): drop one connection, if the pool is above its
\* minimum and was never empty since the last time
Shrink(w) ==
    /\ pc[w] = "shrink"
    /\ IF nconns > minSize /\ nconnsMin > 0 /\ pool # <<>>
       THEN /\ pool' = Tail(pool)
            /\ Close({Head(pool)})
            /\ nconns' = nconns - 1
            /\ nconnsMin' = Len(pool) - 1
       ELSE /\ nconnsMin' = Len(pool)
            /\ UNCHANGED <<pool, nconns, connVars>>
    /\ GoTo(w, "idle")
    /\ UNCHANGED <<flagVars, sizeVars, growing, waiting, taskVars, conn, ret, task,
                   callerVars, posVars>>

\* _add_connection(): the connection is made
ConnectOk(w, c) ==
    /\ pc[w] = "connect"
    /\ status[c] = "absent"
    /\ status' = [status EXCEPT ![c] = "idle"]
    /\ createdAt' = [createdAt EXCEPT ![c] = drainedAt]
    /\ conn' = [conn EXCEPT ![w] = c]
    /\ ret' = [ret EXCEPT ![w] = IF task[w].growing THEN "regrow" ELSE "idle"]
    /\ GoTo(w, "add")
    /\ UNCHANGED <<flagVars, sizeVars, countVars, pool, waiting, taskVars, task,
                   callerVars, posVars>>

\* ... or it fails, and a new attempt is scheduled.  time_to_give_up() is
\* false on the first attempt, and true at last when time has run out
ConnectRetry(w) ==
    /\ pc[w] = "connect"
    /\ ~Reliable
    /\ task[w].attempt < MaxAttempts
    /\ Delay(AddConnection(task[w].growing, task[w].attempt + 1))
    /\ GoTo(w, "idle")
    /\ UNCHANGED <<flagVars, sizeVars, countVars, pool, waiting, tasks, conn, ret,
                   task, callerVars, posVars, connVars>>

\* ... or it is time to give up
ConnectGiveUp(w) ==
    /\ pc[w] = "connect"
    /\ ~Reliable
    /\ task[w].attempt > 0
    /\ nconns' = nconns - 1
    /\ growing' = (growing /\ ~task[w].growing)
    /\ GoTo(w, "idle")
    /\ UNCHANGED <<flagVars, sizeVars, nconnsMin, pool, waiting, taskVars, conn, ret,
                   task, callerVars, posVars, connVars>>

\* mutant: grow while a client waits, whatever the size
MustGrow_Unbounded == nconns < minSize \/ waiting # <<>>

\* mutant: stop growing at the minimum size
MustGrow_Minimum == nconns < minSize

MustGrow == nconns < minSize \/ (nconns < maxSize /\ waiting # <<>>)

\* ... and, after a growing attempt has succeeded, keep on growing or stop
Regrow(w) ==
    /\ pc[w] = "regrow"
    /\ IF MustGrow
       THEN nconns' = nconns + 1 /\ RunTask(GrowTask) /\ UNCHANGED growing
       ELSE growing' = FALSE /\ UNCHANGED <<nconns, tasks>>
    /\ GoTo(w, "idle")
    /\ UNCHANGED <<flagVars, sizeVars, nconnsMin, pool, waiting, delayed, conn, ret,
                   task, callerVars, posVars, connVars>>

\* The scheduler: MaintenanceTask.tick() puts a task on the workers' queue.
\* When the pool is closed the scheduler stops, or discards what it runs.
Tick(d) ==
    /\ ~closed
    /\ delayed[d] > 0
    /\ delayed' = [delayed EXCEPT ![d] = @ - 1]
    /\ RunTask(d)
    /\ UNCHANGED <<flagVars, sizeVars, countVars, pool, waiting, threadVars,
                   callerVars, posVars, connVars>>

-----------------------------------------------------------------------------
(* open(), close(), drain(), resize(), check(), wait() *)

\* A pool that was closed cannot be opened again
Open(a) ==
    /\ pc[a] = "idle"
    /\ ~opened
    /\ opened' = TRUE /\ closed' = FALSE
    /\ tasks' = Append(Copies(nconns, NewConnection), Schedule)
    /\ UNCHANGED <<fullEvent, sizeVars, countVars, pool, waiting, delayed, threadVars,
                   callerVars, posVars, connVars>>

\* close(): the test of _closed, outside the lock.  wait() calls it when it
\* times out.
ClosePool(a) ==
    /\ pc[a] = "idle" \/ (pc[a] = "full" /\ ~Patient)
    /\ ~closed
    /\ GoTo(a, "close")
    /\ UNCHANGED <<flagVars, sizeVars, countVars, pool, waiting, taskVars, conn, ret,
                   task, callerVars, posVars, connVars>>

\* mutant: one StopWorker, whatever the number of workers
CloseLocked_OneStop(a) ==
    /\ pc[a] = "close"
    /\ closed' = TRUE
    /\ failing' = [failing EXCEPT ![a] = {waiting[i] : i \in Alive}]
    /\ waiting' = <<>>
    /\ todo' = [todo EXCEPT ![a] = {pool[i] : i \in DOMAIN pool}]
    /\ pool' = <<>>
    /\ tasks' = Append(tasks, StopWorker)
    /\ GoTo(a, "closing")
    /\ UNCHANGED <<opened, fullEvent, sizeVars, countVars, delayed, conn, ret, task,
                   resizing, posVars, connVars>>

\* ... take everything out of the state, under the lock.  Another close() that
\* came first has taken the workers.
CloseLocked(a) ==
    /\ pc[a] = "close"
    /\ closed' = TRUE
    /\ failing' = [failing EXCEPT ![a] = {waiting[i] : i \in Alive}]
    /\ waiting' = <<>>
    /\ todo' = [todo EXCEPT ![a] = {pool[i] : i \in DOMAIN pool}]
    /\ pool' = <<>>
    /\ tasks' = tasks \o Copies(IF closed THEN 0 ELSE Cardinality(Workers), StopWorker)
    /\ GoTo(a, "closing")
    /\ UNCHANGED <<opened, fullEvent, sizeVars, countVars, delayed, conn, ret, task,
                   resizing, posVars, connVars>>

\* ... then, once the workers have terminated or the timeout has expired,
\* close the connections and fail the clients
CloseConns(a) ==
    /\ pc[a] = "closing"
    /\ Close(todo[a])
    /\ todo' = [todo EXCEPT ![a] = {}]
    /\ GoTo(a, "failing")
    /\ UNCHANGED <<flagVars, sizeVars, countVars, pool, waiting, taskVars, conn, ret,
                   task, failing, resizing, posVars>>

FailWaiting(a) ==
    /\ pc[a] = "failing"
    /\ failed' = failed \cup failing[a]
    /\ failing' = [failing EXCEPT ![a] = {}]
    /\ GoTo(a, "idle")
    /\ UNCHANGED <<flagVars, sizeVars, countVars, pool, waiting, taskVars, conn, ret,
                   task, todo, resizing, got, connVars>>

\* drain()
Drain(a) ==
    /\ pc[a] = "idle"
    /\ drainedAt < MaxDrains
    /\ todo' = [todo EXCEPT ![a] = {pool[i] : i \in DOMAIN pool}]
    /\ pool' = <<>>
    /\ drainedAt' = drainedAt + 1
    /\ GoTo(a, "drain")
    /\ UNCHANGED <<flagVars, minSize, maxSize, resizes, countVars, waiting, taskVars,
                   conn, ret, task, failing, resizing, posVars, connVars>>

DrainNext(a) ==
    /\ pc[a] = "drain"
    /\ \/ \E c \in todo[a] :
            /\ todo' = [todo EXCEPT ![a] = @ \ {c}]
            /\ Close({c})
            /\ RunTask(NewConnection)
            /\ UNCHANGED pc
       \/ /\ todo[a] = {}
          /\ GoTo(a, "idle")
          /\ UNCHANGED <<todo, tasks, connVars>>
    /\ UNCHANGED <<flagVars, sizeVars, countVars, pool, waiting, delayed, conn, ret,
                   task, failing, resizing, posVars>>

\* mutant: the connections to check stay in the pool
Check_NotTaken(a) ==
    /\ pc[a] = "idle"
    /\ opened
    /\ todo' = [todo EXCEPT ![a] = {pool[i] : i \in DOMAIN pool}]
    /\ MaybeGrow
    /\ GoTo(a, "checking")
    /\ UNCHANGED <<flagVars, sizeVars, nconnsMin, pool, waiting, delayed, conn, ret, task,
                   failing, resizing, posVars, connVars>>

\* check(): take the connections out and give the pool a chance to grow
Check(a) ==
    /\ pc[a] = "idle"
    /\ opened
    /\ todo' = [todo EXCEPT ![a] = {pool[i] : i \in DOMAIN pool}]
    /\ pool' = <<>>
    /\ MaybeGrow
    /\ GoTo(a, "checking")
    /\ UNCHANGED <<flagVars, sizeVars, nconnsMin, waiting, delayed, conn, ret, task,
                   failing, resizing, posVars, connVars>>

\* ... replace a connection that has expired or is broken, keep a good one
CheckNext(a) ==
    /\ pc[a] = "checking"
    /\ \/ \E c \in todo[a] :
            /\ todo' = [todo EXCEPT ![a] = @ \ {c}]
            /\ \/ Close({c}) /\ RunTask(NewConnection) /\ UNCHANGED <<pc, conn, ret>>
               \/ /\ status[c] = "idle"
                  /\ conn' = [conn EXCEPT ![a] = c]
                  /\ ret' = [ret EXCEPT ![a] = "checking"]
                  /\ GoTo(a, "add")
                  /\ UNCHANGED <<connVars, tasks>>
       \/ /\ todo[a] = {}
          /\ GoTo(a, "idle")
          /\ UNCHANGED <<todo, tasks, connVars, conn, ret>>
    /\ UNCHANGED <<flagVars, sizeVars, countVars, pool, waiting, delayed, task,
                   failing, resizing, posVars>>

\* resize(): _min_size is read before the lock is taken
Resize(a, size) ==
    /\ pc[a] = "idle"
    /\ opened /\ resizes < MaxResizes
    /\ resizes' = resizes + 1
    /\ resizing' = [resizing EXCEPT ![a] =
            <<size[1], size[2], IF size[1] > minSize THEN size[1] - minSize ELSE 0>>]
    /\ GoTo(a, "resize")
    /\ UNCHANGED <<flagVars, minSize, maxSize, drainedAt, countVars, pool, waiting,
                   taskVars, conn, ret, task, todo, failing, posVars, connVars>>

\* ... then the sizes change under the lock, and the connections are requested
ResizeLocked(a) ==
    /\ pc[a] = "resize"
    /\ minSize' = resizing[a][1]
    /\ maxSize' = resizing[a][2]
    /\ nconns' = nconns + resizing[a][3]
    /\ tasks' = tasks \o Copies(resizing[a][3], NewConnection)
    /\ GoTo(a, "idle")
    /\ UNCHANGED <<flagVars, drainedAt, resizes, nconnsMin, growing, pool, waiting,
                   delayed, conn, ret, task, callerVars, posVars, connVars>>

\* wait(): the pool is open
WaitPool(a) ==
    /\ pc[a] = "idle"
    /\ ~closed
    /\ GoTo(a, "waitpool")
    /\ UNCHANGED <<flagVars, sizeVars, countVars, pool, waiting, taskVars, conn, ret,
                   task, callerVars, posVars, connVars>>

\* ... return if the pool is full already, or if the assertion fails, otherwise
\* ask to be notified
WaitPoolLocked(a) ==
    /\ pc[a] = "waitpool"
    /\ IF fullEvent # "none" \/ Len(pool) >= minSize
       THEN GoTo(a, "idle") /\ UNCHANGED fullEvent
       ELSE GoTo(a, "full") /\ fullEvent' = "unset"
    /\ UNCHANGED <<opened, closed, sizeVars, countVars, pool, waiting, taskVars, conn,
                   ret, task, callerVars, posVars, connVars>>

\* ... notified, or timed out when the pool is closed already: close() does
\* nothing.  (For the timeout of an open pool see ClosePool.)
WaitPoolDone(a) ==
    /\ pc[a] = "full"
    /\ \/ fullEvent = "set" /\ fullEvent' = "none"
       \/ closed /\ UNCHANGED fullEvent
    /\ GoTo(a, "idle")
    /\ UNCHANGED <<opened, closed, sizeVars, countVars, pool, waiting, taskVars, conn,
                   ret, task, callerVars, posVars, connVars>>

-----------------------------------------------------------------------------
\* The server closes a connection that is idle in the pool
Break(i) ==
    /\ i \in DOMAIN pool
    /\ status[pool[i]] = "idle"
    /\ status' = [status EXCEPT ![pool[i]] = "unknown"]
    /\ UNCHANGED <<flagVars, sizeVars, countVars, pool, waiting, taskVars, threadVars,
                   callerVars, posVars, createdAt>>

ClientStep(c) ==
    \/ GetReady(c) \/ GetTooMany(c) \/ GetQueue(c) \/ GetTooLate(c)
    \/ WaitGot(c) \/ WaitFailed(c) \/ WaitTimeout(c)
    \/ CheckGood(c) \/ CheckBad(c) \/ HandOver(c)
    \/ \E st \in Leaves : PutConn(c, st)

ReturnStep(t) ==
    \/ ReturnDiscard(t) \/ ReturnKeep(t)
    \/ AddClosed(t) \/ AddGive(t) \/ AddKeep(t)

WorkerStep(w) ==
    \/ WorkerStop(w) \/ WorkerDiscard(w) \/ WorkerAdd(w) \/ WorkerReturn(w)
    \/ WorkerShrink(w) \/ WorkerSchedule(w) \/ Shrink(w) \/ Regrow(w)
    \/ ConnectRetry(w) \/ ConnectGiveUp(w)
    \/ \E c \in Conns : ConnectOk(w, c)

\* What a caller does once it has called a method of the pool
CallerStep(a) ==
    \/ CloseLocked(a) \/ CloseConns(a) \/ FailWaiting(a) \/ DrainNext(a) \/ CheckNext(a)
    \/ ResizeLocked(a) \/ WaitPoolLocked(a) \/ WaitPoolDone(a)

Call(a) ==
    \/ Open(a)
    \/ "close" \in Methods /\ ClosePool(a)
    \/ "drain" \in Methods /\ Drain(a)
    \/ "check" \in Methods /\ Check(a)
    \/ "wait" \in Methods /\ WaitPool(a)
    \/ "resize" \in Methods /\ \E size \in Sizes : Resize(a, size)

Next ==
    \/ \E c \in Clients : GetConn(c) \/ ClientStep(c)
    \/ \E t \in Threads : ReturnStep(t)
    \/ \E w \in Workers : WorkerStep(w)
    \/ \E a \in Callers : CallerStep(a) \/ Call(a)
    \/ \E d \in Delayable : Tick(d)
    \/ \E i \in 1..Cardinality(Conns) : Break(i)

Spec == Init /\ [][Next]_vars

\* Every thread goes on with what it has started, and the scheduler runs.
\* Nobody has to start anything.
Fairness ==
    /\ \A c \in Clients : WF_vars(ClientStep(c))
    /\ \A t \in Threads : WF_vars(ReturnStep(t))
    /\ \A w \in Workers : WF_vars(WorkerStep(w))
    /\ \A a \in Callers : WF_vars(CallerStep(a))
    /\ \A d \in Delayable : WF_vars(Tick(d))

FairSpec == Spec /\ Fairness

-----------------------------------------------------------------------------
(* Properties *)

PCs == {"idle", "refused", "request", "wait", "check", "use", "hand", "return", "add",
        "stopped", "connect", "shrink", "regrow",
        "close", "closing", "failing", "drain", "checking", "resize", "waitpool", "full"}

\* Where a thread has a connection in its hands
Holding == {"check", "use", "hand", "return", "add"}

TypeFlags ==
    /\ opened \in BOOLEAN /\ closed \in BOOLEAN
    /\ fullEvent \in {"none", "unset", "set"}

TypeSizes ==
    /\ minSize \in Nat /\ maxSize \in Nat /\ minSize <= maxSize
    /\ drainedAt \in Nat /\ resizes \in Nat

TypeCounts == nconns \in Int /\ nconnsMin \in Int /\ growing \in BOOLEAN

TypeQueues == pool \in Seq(Conns) /\ waiting \in Seq(Clients \cup {Gone})

TypeTasks == tasks \in Seq(TaskSet) /\ delayed \in [Delayable -> Nat]

TypeThreads ==
    /\ pc \in [Threads -> PCs]
    /\ conn \in [Threads -> Conns \cup {NoConn}]
    /\ \A t \in Threads : conn[t] # NoConn <=> pc[t] \in Holding
    /\ ret \in [Threads -> {"idle", "request", "regrow", "checking"}]
    /\ task \in [Workers -> AddTasks]

TypeCallers ==
    /\ todo \in [Callers -> SUBSET Conns]
    /\ failing \in [Callers -> SUBSET Clients]
    /\ resizing \in [Callers -> {s \in Nat \X Nat \X Nat : s[1] <= s[2]}]

TypePos == got \in [Clients -> Conns \cup {NoConn}] /\ failed \subseteq Clients

TypeConns ==
    /\ status \in [Conns -> {"absent"} \cup LiveStatus]
    /\ createdAt \in [Conns -> Nat]

\* The types, and that a thread has a connection exactly where it should
TypeOK ==
    /\ TypeFlags /\ TypeSizes /\ TypeCounts /\ TypeQueues /\ TypeTasks
    /\ TypeThreads /\ TypeCallers /\ TypePos /\ TypeConns

\* Where a reference to a connection is
Places(c) ==
    {<<"pool", i>> : i \in {j \in DOMAIN pool : pool[j] = c}}
        \cup {<<"task", i>> : i \in {j \in DOMAIN tasks : tasks[j].conn = c}}
        \cup {<<"thread", t>> : t \in {u \in Threads : conn[u] = c}}
        \cup {<<"client", k>> : k \in {l \in Clients : got[l] = c}}
        \cup {<<"caller", a>> : a \in {b \in Callers : c \in todo[b]}}

(***************************************************************************)
(* No connection is in two hands, none is lost, none is used after it was  *)
(* closed: each open connection is in exactly one place (the pool, a       *)
(* client, a waiting client's slot, a task, a worker, a list taken out by  *)
(* drain(), check() or close()), and a closed one is nowhere.  The         *)
(* connection handed to a client while its wait() times out                *)
(* (pool.py:262-271) is the interesting one.                               *)
(***************************************************************************)
ExclusiveOwnership ==
    \A c \in Conns :
        Cardinality(Places(c)) = IF status[c] = "absent" THEN 0 ELSE 1

\* The connections a pool has: in the pool, out of it, or being prepared
Slots ==
    LET Requests == {i \in DOMAIN tasks : tasks[i].kind \in {"add", "return"}}
        Retries == UNION {{d} \X (1..delayed[d]) : d \in Delayable \ {ShrinkPool}}
        Out == UNION {{a} \X todo[a] : a \in Callers}
    IN  Len(pool) + Cardinality(Requests) + Cardinality(Retries) + Cardinality(Out)
        + Cardinality({t \in Threads : conn[t] # NoConn})
        + Cardinality({c \in Clients : got[c] # NoConn})
        + Cardinality({w \in Workers : pc[w] = "connect"})

(***************************************************************************)
(* The counter _nconns of an open pool is what its comment says (base.py:  *)
(* 77): every connection in the pool, out, or being prepared is counted    *)
(* once, whoever returned, replaced, checked, drained or gave it up.  A    *)
(* slot that leaks makes the pool smaller for ever; one counted twice lets *)
(* it grow over max_size.                                                  *)
(***************************************************************************)
Accounting == closed \/ nconns = Slots

(***************************************************************************)
(* A connection is never left in the pool while a client waits for one,    *)
(* however drain(), check(), returns and timeouts interleave               *)
(* (_getconn_unchecked() and _add_to_pool(), pool.py:248-260, 760-777).    *)
(***************************************************************************)
NoMissedHandoff == pool = <<>> \/ waiting = <<>>

\* The growing attempts queued, scheduled or running
GrowingTasks ==
    LET Delayed == {AddConnection(TRUE, k) : k \in 1..MaxAttempts}
    IN  Cardinality({i \in DOMAIN tasks : tasks[i].growing})
        + Cardinality(UNION {{d} \X (1..delayed[d]) : d \in Delayed})
        + Cardinality({w \in Workers : pc[w] = "connect" /\ task[w].growing})
        + Cardinality({w \in Workers : pc[w] = "regrow"})
        + Cardinality({w \in Workers : pc[w] = "add" /\ ret[w] = "regrow"})

(***************************************************************************)
(* The flag _growing of an open pool is true exactly when one growing      *)
(* attempt is on its way: never two at a time (pool.py:310-311), and never *)
(* none, which would leave the pool unable to grow for ever.               *)
(***************************************************************************)
GrowOneAtATime == closed \/ GrowingTasks = IF growing THEN 1 ELSE 0

(***************************************************************************)
(* The books of the pool are right: a connection has one owner, _nconns    *)
(* counts the connections there are and those on their way, and _growing   *)
(* tells whether one of them is to make the pool grow (pool.py).           *)
(***************************************************************************)
Bookkeeping ==
    /\ ExclusiveOwnership
    /\ Accounting
    /\ GrowOneAtATime

(***************************************************************************)
(* The pool is never larger than max_size (docs/api/pool.rst:72) as long   *)
(* as it is not resized.                                                   *)
(***************************************************************************)
WithinMaxSize == resizes = 0 => nconns <= maxSize

(***************************************************************************)
(* A client waits only if the pool can't or is about to grow: unless some  *)
(* attempt to connect was given up or the pool was resized, either         *)
(* max_size connections exist or a growing attempt is under way.           *)
(***************************************************************************)
WaitersGrowPool ==
    (Reliable /\ resizes = 0 /\ ~closed /\ Alive # {}) =>
        (growing \/ nconns >= maxSize)

(***************************************************************************)
(* The periodic shrink task of an open pool is neither lost nor doubled    *)
(* (ShrinkPool._run(), pool.py:1008-1012).                                 *)
(***************************************************************************)
ShrinkForever ==
    closed \/ 1 = delayed[ShrinkPool]
                    + Cardinality({i \in DOMAIN tasks :
                                      tasks[i].kind \in {"shrink", "schedule"}})

(***************************************************************************)
(* No connection gets into a closed pool, also when close() overtakes a    *)
(* thread in _add_to_pool() (pool.py:750-767).                             *)
(***************************************************************************)
ClosedPoolEmpty == closed => pool = <<>>

(***************************************************************************)
(* A client that waits is served, as long as the server accepts            *)
(* connections and the other clients return theirs, or the pool is closed. *)
(***************************************************************************)
WaitersServed ==
    \A c \in Clients : pc[c] = "wait" ~> (pc[c] # "wait" \/ closed)

(***************************************************************************)
(* close() terminates every worker, whatever tasks are queued before       *)
(* (pool.py:468-481, 594-597).                                             *)
(***************************************************************************)
CloseStopsWorkers ==
    (opened /\ closed) ~> \A w \in Workers : pc[w] = "stopped"

-----------------------------------------------------------------------------
(* What the documentation says, and the code does not always do *)

(***************************************************************************)
(* close(): "All the waiting and future clients will fail to acquire a     *)
(* connection with a PoolClosed exception" (pool.py:430-431): nobody is    *)
(* left in the queue of a closed pool, where nobody would ever call fail().*)
(***************************************************************************)
NobodyWaitsOnClosedPool == closed => waiting = <<>>

(***************************************************************************)
(* drain(): "Remove all the connections from the pool and create new ones. *)
(* If a connection is currently out of the pool it will be closed when     *)
(* returned to the pool" (pool.py:336-339): no connection created before   *)
(* the last drain() is in the pool.                                        *)
(***************************************************************************)
DrainedStayOut == \A i \in DOMAIN pool : createdAt[pool[i]] >= drainedAt

(***************************************************************************)
(* "The maximum number of connections the pool will hold"                  *)
(* (docs/api/pool.rst:72), also when the pool is resized to sizes that can *)
(* hold the connections it has.                                            *)
(***************************************************************************)
MaxSizeRespected == nconns <= maxSize
=============================================================================

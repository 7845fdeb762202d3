------------------------------- MODULE AsyncPool -------------------------------
(***************************************************************************)
(* The asyncio pools (psycopg_pool/pool_async.py, null_pool_async.py).     *)
(*                                                                         *)
(* AsyncConnectionPool has the code of ConnectionPool (see Pool) but runs  *)
(* in an event loop: a task is interrupted only where it really suspends,  *)
(* and there it can be cancelled.  A step of this module is what a task    *)
(* does between two suspensions.  An asyncio.Lock that is free is taken    *)
(* without suspending.  AsyncNullConnectionPool, a subclass, keeps no      *)
(* connection; it connects for the client holding the pool's lock, so that *)
(* there tasks do suspend waiting for the lock.                            *)
(*                                                                         *)
(* The state of the pool object is the record self; loc says where each    *)
(* task is, the connection in its hands (pos.conn while it waits) and      *)
(* where it goes when _return_connection() or _add_to_pool() returns.      *)
(***************************************************************************)
EXTENDS Integers, Sequences, FiniteSets

CONSTANTS
    Clients, Workers, Callers,      \* the asyncio tasks
    Conns, NoConn, NoTask,
    Gone,                           \* a WaitingClient whose wait() has failed
    MinSize, MaxSize, MaxWaiting,   \* parameters of the constructor
    HasReset, HasCheck,             \* are the reset and check callbacks given?
    Methods,                        \* the methods the callers use
    NewSizes,                       \* the arguments of resize()
    Leaves,                         \* the statuses clients leave connections in
    Reliable, Patient,              \* connections succeed; no timeout, no cancel
    MaxCancels, MaxCalls,           \* bound: cancellations, methods called (once each)
    MaxAttempts                     \* bound: attempts before giving up

Tasks == Clients \cup Workers \cup Callers

SizePairs == {s \in Nat \X Nat : s[1] <= s[2] /\ s[2] > 0}

ASSUME AsyncAssumption ==
    /\ Clients \cap Workers = {} /\ Clients \cap Callers = {}
    /\ Workers \cap Callers = {} /\ Clients \cap Conns = {}
    /\ IsFiniteSet(Workers) /\ IsFiniteSet(Conns)
    /\ NoConn \notin Conns /\ NoTask \notin Tasks /\ Gone \notin Clients
    /\ MinSize \in Nat /\ MaxSize \in Nat \ {0} /\ MinSize <= MaxSize
    /\ MaxWaiting \in Nat
    /\ HasReset \in BOOLEAN /\ HasCheck \in BOOLEAN
    /\ Reliable \in BOOLEAN /\ Patient \in BOOLEAN
    /\ NewSizes \in SUBSET SizePairs
    /\ Leaves \subseteq {"idle", "intrans", "active", "unknown"}
    /\ MaxCancels \in Nat /\ MaxCalls \in Nat /\ MaxAttempts \in Nat \ {0}

VARIABLES
    null,           \* is it an AsyncNullConnectionPool?
    self,           \* the pool object
    loc,            \* the local state of each task
    status,         \* pgconn.transaction_status, "absent" if not connected
    old,            \* the connections with _created_at before _drained_at
    leaked,         \* connections dropped by a cancelled putconn()
    calls,          \* the methods of the pool called so far
    cancels         \* cancellations so far

connVars == <<status, old>>
history == <<leaked, calls, cancels>>
vars == <<null, self, loc, connVars, history>>

Job(kind, c, grow, attempt) ==
    [kind |-> kind, conn |-> c, growing |-> grow, attempt |-> attempt]

AddConnection(grow, k) == Job("add", NoConn, grow, k)
ReturnConnection(c) == Job("return", c, FALSE, 0)
ShrinkPool == Job("shrink", NoConn, FALSE, 0)
StopWorker == Job("stop", NoConn, FALSE, 0)
NewConnection == AddConnection(FALSE, 0)

Retries == {AddConnection(g, k) : g \in BOOLEAN, k \in 1..MaxAttempts}

Copies(n, j) == [i \in 1..n |-> j]

\* _start_initial_tasks(): the shrink task goes through Schedule, which no one
\* can tell from a task scheduled at once; a null pool has no initial tasks
InitialTasks(nul) == IF nul THEN <<>> ELSE Copies(MinSize, NewConnection)

\* A pool just opened, with open()
Opened(nul) ==
    [closed |-> FALSE, lock |-> NoTask, pool |-> <<>>, waiting |-> <<>>,
     nconns |-> IF nul THEN 0 ELSE MinSize, nconnsMin |-> IF nul THEN 0 ELSE MinSize,
     growing |-> FALSE, minSize |-> IF nul THEN 0 ELSE MinSize, maxSize |-> MaxSize,
     event |-> "none", tasks |-> InitialTasks(nul),
     delayed |-> [r \in Retries |-> 0], shrinks |-> IF nul THEN 0 ELSE 1]

At(pc, c, next) == [pc |-> pc, conn |-> c, next |-> next, out |-> {}, job |-> NewConnection]

Init ==
    /\ null \in BOOLEAN
    /\ self = Opened(null)
    /\ loc = [t \in Tasks |-> At("idle", NoConn, "idle")]
    /\ status = [c \in Conns |-> "absent"]
    /\ old = {}
    /\ leaked = 0
    /\ calls = {}
    /\ cancels = 0

-----------------------------------------------------------------------------
(* Pieces of the methods, as functions of the pool object or of loc *)

RunTask(s, j) == [s EXCEPT !.tasks = Append(@, j)]

GoTo(t, pc) == [loc EXCEPT ![t].pc = pc]

\* Task t is done with the connection it had, and goes on at next
Leaving(t, next) == [loc EXCEPT ![t] = [At(next, NoConn, "idle") EXCEPT !.out = loc[t].out]]

\* _close_connection(), and the loss of the last reference
Close(cs) ==
    /\ status' = [c \in Conns |-> IF c \in cs THEN "absent" ELSE status[c]]
    /\ old' = old \ cs

\* _maybe_grow_pool(); null pools don't grow
MaybeGrow(s) ==
    IF null \/ s.nconns >= s.maxSize \/ s.growing THEN s
    ELSE RunTask([s EXCEPT !.nconns = @ + 1, !.growing = TRUE], AddConnection(TRUE, 0))

Alive(s) == {i \in DOMAIN s.waiting : s.waiting[i] # Gone}
First(s) == CHOOSE i \in Alive(s) : \A j \in Alive(s) : i <= j

\* AsyncNullConnectionPool._add_to_pool(), no client waiting
NullAdded(s) ==
    IF s.event = "none" THEN [s EXCEPT !.nconns = @ - 1] ELSE [s EXCEPT !.event = "set"]

\* The part of _add_to_pool() under the lock, for pool state s: the connection goes
\* to the first client still waiting, if any, or in the pool; a null pool closes
\* it, and counts it out unless a wait() is in progress
Added(s, c) ==
    IF s.closed /\ ~null THEN s
    ELSE IF Alive(s) # {} THEN [s EXCEPT !.waiting = SubSeq(@, First(s) + 1, Len(@))]
    ELSE IF null THEN NullAdded([s EXCEPT !.waiting = <<>>])
    ELSE [s EXCEPT !.waiting = <<>>, !.pool = Append(@, c),
                   !.event = IF @ = "unset" /\ Len(s.pool) + 1 >= s.minSize THEN "set" ELSE @]

\* _add_connection(), after a growing attempt: keep on growing, or stop
Regrown(s) ==
    IF s.nconns < s.minSize \/ (s.nconns < s.maxSize /\ s.waiting # <<>>)
    THEN RunTask([s EXCEPT !.nconns = @ + 1], AddConnection(TRUE, 0))
    ELSE [s EXCEPT !.growing = FALSE]

\* _add_to_pool() of connection c by task t, in pool state s; and the rest of
\* _add_connection() if grow
AddToPool(t, c, next, grow, s) ==
    LET given == Alive(s) # {} /\ (null \/ ~s.closed)
        kept == given \/ (~null /\ ~s.closed)
    IN  IF s.lock # NoTask
        THEN /\ self' = s
             /\ loc' = [loc EXCEPT ![t].pc = "add", ![t].conn = c, ![t].next = next]
             /\ status' = [status EXCEPT ![c] = "idle"]
             /\ UNCHANGED old
        ELSE /\ self' = IF grow THEN Regrown(Added(s, c)) ELSE Added(s, c)
             /\ loc' = IF given
                       THEN [Leaving(t, next) EXCEPT ![s.waiting[First(s)]].pc = "got",
                                                     ![s.waiting[First(s)]].conn = c]
                       ELSE Leaving(t, next)
             /\ status' = [status EXCEPT ![c] = IF kept THEN "idle" ELSE "absent"]
             /\ old' = IF kept THEN old ELSE old \ {c}

\* The connection is closed, or lost, and a new one is asked for
Replace(t, c, next, s) ==
    /\ self' = RunTask(s, NewConnection)
    /\ loc' = Leaving(t, next)
    /\ Close({c})

\* mutant: a connection older than the last drain() is put back
FinishReturn_Old(t, c, next, s) ==
    Replace(t, c, next, s) \/ AddToPool(t, c, next, FALSE, s)

\* _return_connection() after _reset_connection() has left the connection idle: it
\* is too old, or has expired, or goes back
FinishReturn(t, c, next, s) ==
    \/ Replace(t, c, next, s)
    \/ c \notin old /\ AddToPool(t, c, next, FALSE, s)

\* _return_connection() of a connection in status st: rollback() and the reset
\* callback suspend
ReturnConn(t, c, st, next, s) ==
    IF st \in {"active", "unknown"} THEN Replace(t, c, next, s)
    ELSE IF st = "idle" /\ ~HasReset THEN FinishReturn(t, c, next, s)
    ELSE /\ loc' = [loc EXCEPT ![t].pc = "reset", ![t].conn = c, ![t].next = next]
         /\ status' = [status EXCEPT ![c] = st]
         /\ self' = s
         /\ UNCHANGED old

-----------------------------------------------------------------------------
(* getconn() *)

\* The client sleeps between two checks, or comes for the first time, and finds
\* the lock taken
GetBlocked(c) ==
    /\ loc[c].pc \in {"idle", "sleep"}
    /\ loc[c].pc = "idle" => ~self.closed
    /\ self.lock # NoTask
    /\ loc' = GoTo(c, "lock")
    /\ UNCHANGED <<null, self, connVars, history>>

\* mutant: the pool is not tested
Asking_Unchecked(c) == self.lock = NoTask /\ loc[c].pc \in {"idle", "sleep", "lock"}

\* _check_open_getconn() and _getconn_unchecked(), up to where it suspends
Asking(c) ==
    /\ self.lock = NoTask
    /\ \/ loc[c].pc = "idle" /\ ~self.closed
       \/ loc[c].pc \in {"sleep", "lock"}

\* A connection is ready; _check_connection() suspends, if there is a callback
GetReady(c) ==
    /\ Asking(c)
    /\ self.pool # <<>>
    /\ LET left == Tail(self.pool)
       IN  self' = [self EXCEPT !.pool = left,
                        !.nconnsMin = IF Len(left) < @ THEN Len(left) ELSE @]
    /\ loc' = [loc EXCEPT ![c].pc = IF HasCheck THEN "check" ELSE "use",
                          ![c].conn = Head(self.pool)]
    /\ UNCHANGED <<null, connVars, history>>

\* mutant: the limit is not tested
NullConnect_Unlimited(c) ==
    /\ Asking(c)
    /\ null
    /\ self' = [self EXCEPT !.lock = c]
    /\ loc' = GoTo(c, "connect")
    /\ UNCHANGED <<null, connVars, history>>

\* AsyncNullConnectionPool._get_ready_connection(): connect, with the lock
NullConnect(c) ==
    /\ Asking(c)
    /\ null
    /\ self.nconns < self.maxSize
    /\ self' = [self EXCEPT !.lock = c]
    /\ loc' = GoTo(c, "connect")
    /\ UNCHANGED <<null, connVars, history>>

\* ... the connection is made, and counted
NullConnected(c, k) ==
    /\ c \in Clients /\ loc[c].pc = "connect"
    /\ status[k] = "absent"
    /\ status' = [status EXCEPT ![k] = "idle"]
    /\ UNCHANGED old
    /\ self' = [self EXCEPT !.lock = NoTask, !.nconns = @ + 1]
    /\ loc' = [loc EXCEPT ![c].pc = IF HasCheck THEN "check" ELSE "use", ![c].conn = k]
    /\ UNCHANGED <<null, history>>

\* ... or fails, times out or is cancelled
NullConnectFailed(c) ==
    /\ loc[c].pc = "connect"
    /\ ~Reliable
    /\ self' = [self EXCEPT !.lock = NoTask]
    /\ loc' = Leaving(c, "idle")
    /\ UNCHANGED <<null, connVars, history>>

NoneReady == self.pool = <<>> /\ (null => self.nconns >= self.maxSize)

GetTooMany(c) ==
    /\ Asking(c)
    /\ NoneReady
    /\ MaxWaiting > 0 /\ Len(self.waiting) >= MaxWaiting
    /\ loc[c].pc # "idle"
    /\ loc' = Leaving(c, "idle")
    /\ UNCHANGED <<null, self, connVars, history>>

GetQueue(c) ==
    /\ Asking(c)
    /\ NoneReady
    /\ MaxWaiting = 0 \/ Len(self.waiting) < MaxWaiting
    /\ self' = MaybeGrow([self EXCEPT !.waiting = Append(@, c)])
    /\ loc' = [loc EXCEPT ![c].pc = "wait", ![c].next = loc[c].pc]
    /\ UNCHANGED <<null, connVars, history>>

\* WaitingClient.wait() returns the connection of set()
WaitGot(c) ==
    /\ loc[c].pc = "got"
    /\ loc' = [loc EXCEPT ![c] = At(IF HasCheck THEN "check" ELSE "use", loc[c].conn, "idle")]
    /\ UNCHANGED <<null, self, connVars, history>>

\* ... raises the error of fail()
WaitFailed(c) ==
    /\ loc[c].pc = "failed"
    /\ loc' = Leaving(c, "idle")
    /\ UNCHANGED <<null, self, connVars, history>>

Cancelled ==
    /\ ~Patient /\ cancels < MaxCancels
    /\ cancels' = cancels + 1

\* ... times out or is cancelled, maybe after set(): what was set goes back.  The
\* entry in the queue stays, with an error; so does the one in the list of close()
WaitInterrupted(c) ==
    /\ loc[c].pc \in {"wait", "got"}
    /\ Cancelled
    /\ LET forget == [self EXCEPT !.waiting =
                          [i \in DOMAIN @ |-> IF @[i] = c THEN Gone ELSE @[i]]]
       IN  self' = IF loc[c].pc = "got" THEN RunTask(forget, ReturnConnection(loc[c].conn))
                   ELSE forget
    /\ loc' = [t \in Tasks |-> IF t = c THEN At("idle", NoConn, "idle")
                               ELSE [loc[t] EXCEPT !.out = @ \ {c}]]
    /\ UNCHANGED <<null, connVars, leaked, calls>>

\* The sleep between two checks, or the wait for the lock in getconn(), ends with
\* a timeout or a cancellation
GetInterrupted(c) ==
    /\ loc[c].pc \in {"sleep", "lock"}
    /\ Cancelled
    /\ loc' = Leaving(c, "idle")
    /\ UNCHANGED <<null, self, connVars, leaked, calls>>

CheckGood(c) ==
    /\ loc[c].pc = "check"
    /\ loc' = GoTo(c, "use")
    /\ UNCHANGED <<null, self, connVars, history>>

\* _putconn(), for a connection found in status st: in a worker if there is a reset
\* callback
PutBack(c, st, next) ==
    /\ IF HasReset
       THEN /\ self' = RunTask(self, ReturnConnection(loc[c].conn))
            /\ loc' = Leaving(c, next)
            /\ status' = [status EXCEPT ![loc[c].conn] = st]
            /\ UNCHANGED old
       ELSE ReturnConn(c, loc[c].conn, st, next, self)

\* The check fails, or is cancelled: the cancellation is swallowed, and the client
\* tries again after a pause
CheckBad(c, st) ==
    /\ loc[c].pc = "check"
    /\ PutBack(c, st, "sleep")
    /\ UNCHANGED <<null, history>>

-----------------------------------------------------------------------------
(* putconn() *)

\* AsyncConnectionPool._maybe_close_connection()
PutConn(c, st) ==
    /\ ~null
    /\ loc[c].pc = "use"
    /\ IF self.closed
       THEN Close({loc[c].conn}) /\ loc' = Leaving(c, "idle") /\ UNCHANGED self
       ELSE PutBack(c, st, "idle")
    /\ UNCHANGED <<null, history>>

\* mutant: a returned connection that is closed stays counted
NullPut_Counted(c, st) ==
    /\ self.lock = NoTask
    /\ IF ~self.closed /\ self.waiting # <<>>
       THEN PutBack(c, st, "idle")
       ELSE Close({loc[c].conn}) /\ loc' = Leaving(c, "idle") /\ UNCHANGED self

\* AsyncNullConnectionPool._maybe_close_connection(), with the lock
NullPut(c, st) ==
    /\ self.lock = NoTask
    /\ IF ~self.closed /\ self.waiting # <<>>
       THEN PutBack(c, st, "idle")
       ELSE /\ Close({loc[c].conn})
            /\ loc' = Leaving(c, "idle")
            /\ self' = [self EXCEPT !.nconns = @ - 1]

\* ... the lock is taken: the status is that of when the lock is acquired
NullPutConn(c, st) ==
    /\ null
    /\ \/ loc[c].pc \in {"use", "putlock"} /\ NullPut(c, st)
       \/ /\ loc[c].pc = "use" /\ self.lock # NoTask
          /\ loc' = GoTo(c, "putlock")
          /\ UNCHANGED <<self, connVars>>
    /\ UNCHANGED <<null, history>>

\* putconn() of a null pool is cancelled while it waits for the lock, in
\* _maybe_close_connection() or in _add_to_pool(): nobody counts the connection out
PutCancelled(c) ==
    /\ loc[c].pc \in {"putlock", "add"}
    /\ Cancelled
    /\ Close({loc[c].conn})
    /\ loc' = Leaving(c, "idle")
    /\ leaked' = leaked + 1
    /\ UNCHANGED <<null, self, calls>>

\* _reset_connection(): rollback() or the callback succeeds; or fails, or is
\* cancelled, and the connection is closed; then the rest of _return_connection()
Reset(t) ==
    /\ loc[t].pc = "reset"
    /\ \/ FinishReturn(t, loc[t].conn, loc[t].next, self)
       \/ Replace(t, loc[t].conn, loc[t].next, self)
    /\ UNCHANGED <<null, history>>

\* _add_to_pool() gets the lock
AddLocked(t) ==
    /\ loc[t].pc = "add"
    /\ self.lock = NoTask
    /\ AddToPool(t, loc[t].conn, loc[t].next, FALSE, self)
    /\ UNCHANGED <<null, history>>

-----------------------------------------------------------------------------
(* Workers: MaintenanceTask.run() *)

Take(w, kinds) ==
    /\ loc[w].pc = "idle"
    /\ self.tasks # <<>>
    /\ Head(self.tasks).kind \in kinds

Taken == [self EXCEPT !.tasks = Tail(@)]

WorkerStop(w) ==
    /\ Take(w, {"stop"})
    /\ self' = Taken
    /\ loc' = GoTo(w, "stopped")
    /\ UNCHANGED <<null, connVars, history>>

WorkerDiscard(w) ==
    /\ Take(w, {"add", "return", "shrink"})
    /\ self.closed
    /\ self' = Taken
    /\ Close({Head(self.tasks).conn})
    /\ UNCHANGED <<null, loc, history>>

WorkerReturn(w) ==
    /\ Take(w, {"return"})
    /\ ~self.closed
    /\ LET c == Head(self.tasks).conn IN ReturnConn(w, c, status[c], "idle", Taken)
    /\ UNCHANGED <<null, history>>

WorkerAdd(w) ==
    /\ Take(w, {"add"})
    /\ ~self.closed
    /\ self' = Taken
    /\ loc' = [loc EXCEPT ![w].pc = "connect", ![w].job = Head(self.tasks)]
    /\ UNCHANGED <<null, connVars, history>>

\* _add_connection(): connected and configured; all the rest in one step
Connected(w, k) ==
    /\ w \in Workers /\ loc[w].pc = "connect"
    /\ status[k] = "absent"
    /\ AddToPool(w, k, "idle", loc[w].job.growing, self)
    /\ UNCHANGED <<null, history>>

ConnectRetry(w) ==
    /\ w \in Workers /\ loc[w].pc = "connect"
    /\ ~Reliable
    /\ loc[w].job.attempt < MaxAttempts
    /\ self' = [self EXCEPT !.delayed[AddConnection(loc[w].job.growing,
                                                    loc[w].job.attempt + 1)] = @ + 1]
    /\ loc' = Leaving(w, "idle")
    /\ UNCHANGED <<null, connVars, history>>

\* ... under the lock
ConnectGiveUp(w) ==
    /\ w \in Workers /\ loc[w].pc = "connect"
    /\ ~Reliable
    /\ loc[w].job.attempt > 0
    /\ self.lock = NoTask
    /\ self' = [self EXCEPT !.nconns = @ - 1, !.growing = @ /\ ~loc[w].job.growing]
    /\ loc' = Leaving(w, "idle")
    /\ UNCHANGED <<null, connVars, history>>

\* The scheduler: MaintenanceTask.tick()
Tick ==
    /\ ~self.closed
    /\ \E r \in Retries :
          /\ self.delayed[r] > 0
          /\ self' = RunTask([self EXCEPT !.delayed[r] = @ - 1], r)
    /\ UNCHANGED <<null, loc, connVars, history>>

TickShrink ==
    /\ ~self.closed
    /\ self.shrinks > 0
    /\ self' = RunTask([self EXCEPT !.shrinks = @ - 1], ShrinkPool)
    /\ UNCHANGED <<null, loc, connVars, history>>

\* ShrinkPool._run(): reschedule, then _shrink_pool() and close what it took
Shrink(w) ==
    /\ Take(w, {"shrink"})
    /\ ~self.closed
    /\ LET s == [Taken EXCEPT !.shrinks = @ + 1]
           dropping == s.nconns > s.minSize /\ s.nconnsMin > 0 /\ s.pool # <<>>
       IN  IF dropping
           THEN /\ self' = [s EXCEPT !.pool = Tail(@), !.nconns = @ - 1,
                                     !.nconnsMin = Len(s.pool) - 1]
                /\ Close({Head(s.pool)})
           ELSE /\ self' = [s EXCEPT !.nconnsMin = Len(s.pool)]
                /\ UNCHANGED connVars
    /\ UNCHANGED <<null, loc, history>>

-----------------------------------------------------------------------------
(* close(), drain(), check(), resize(), wait() *)

Calling(a, m) ==
    /\ m \in Methods
    /\ loc[a].pc = "idle"
    /\ self.lock = NoTask
    /\ m \notin calls /\ Cardinality(calls) < MaxCalls
    /\ calls' = calls \cup {m}

Contents(q) == {q[i] : i \in DOMAIN q}

CloseState ==
    [self EXCEPT !.closed = TRUE, !.pool = <<>>, !.waiting = <<>>,
                 !.tasks = @ \o Copies(Cardinality(Workers), StopWorker)]

\* close(), up to agather(): the list of the clients to fail is in out.  The
\* connections are closed here: nobody else can see them any more.  A wait() that
\* times out calls close().
ClosePool(a) ==
    /\ ~self.closed
    /\ \/ Calling(a, "close")
       \/ loc[a].pc = "full" /\ ~Patient /\ self.lock = NoTask /\ UNCHANGED calls
    /\ self' = CloseState
    /\ Close(Contents(self.pool))
    /\ loc' = [loc EXCEPT ![a].pc = "closing",
                          ![a].out = {self.waiting[i] : i \in Alive(self)}]
    /\ UNCHANGED <<null, leaked, cancels>>

\* ... the workers have ended, or the timeout has expired: fail the clients
FailWaiting(a) ==
    /\ loc[a].pc = "closing"
    /\ loc' = [t \in Tasks |->
                 IF t \in loc[a].out THEN [loc[t] EXCEPT !.pc = "failed"]
                 ELSE IF t = a THEN At("idle", NoConn, "idle") ELSE loc[t]]
    /\ UNCHANGED <<null, self, connVars, history>>

\* ... or close() is cancelled while it waits for the workers
CloseCancelled(a) ==
    /\ loc[a].pc = "closing"
    /\ Cancelled
    /\ loc' = [loc EXCEPT ![a] = At("idle", NoConn, "idle")]
    /\ UNCHANGED <<null, self, connVars, leaked, calls>>

Drain(a) ==
    /\ Calling(a, "drain")
    /\ self' = [self EXCEPT !.pool = <<>>,
                            !.tasks = @ \o Copies(Len(self.pool), NewConnection)]
    /\ status' = [c \in Conns |-> IF c \in Contents(self.pool) THEN "absent" ELSE status[c]]
    /\ old' = {c \in Conns : status'[c] # "absent"}
    /\ UNCHANGED <<null, loc, leaked, cancels>>

\* check() of AsyncConnectionPool; it is a no-op in null pools
Check(a) ==
    /\ ~null
    /\ Calling(a, "check")
    /\ self' = MaybeGrow([self EXCEPT !.pool = <<>>])
    /\ loc' = [loc EXCEPT ![a].pc = "checking", ![a].out = Contents(self.pool)]
    /\ UNCHANGED <<null, connVars, leaked, cancels>>

\* ... each connection is kept, or is discarded (expired, broken, cancelled)
CheckNext(a) ==
    /\ loc[a].pc = "checking"
    /\ \/ \E c \in loc[a].out :
            /\ loc' = [loc EXCEPT ![a].out = @ \ {c}, ![a].conn = c,
                                  ![a].pc = "checked", ![a].next = "checking"]
       \/ loc[a].out = {} /\ loc' = GoTo(a, "idle")
    /\ UNCHANGED <<null, self, connVars, history>>

Checked(a) ==
    /\ loc[a].pc = "checked"
    /\ \/ Replace(a, loc[a].conn, "checking", self)
       \/ /\ status[loc[a].conn] = "idle"
          /\ AddToPool(a, loc[a].conn, "checking", FALSE, self)
    /\ UNCHANGED <<null, history>>

\* resize(): a null pool changes the limits only
Resize(a, size) ==
    /\ Calling(a, "resize")
    /\ null => size[1] = 0
    /\ LET more == IF ~null /\ size[1] > self.minSize THEN size[1] - self.minSize ELSE 0
       IN  self' = [self EXCEPT !.minSize = size[1], !.maxSize = size[2],
                        !.nconns = @ + more, !.tasks = @ \o Copies(more, NewConnection)]
    /\ UNCHANGED <<null, loc, connVars, leaked, cancels>>

\* wait(): the pool is full already, or wait to be told; a null pool makes a
\* connection, that nobody has counted, to see that the server answers
Wait(a) ==
    /\ Calling(a, "wait")
    /\ ~self.closed /\ self.event = "none"
    /\ IF ~null /\ Len(self.pool) >= self.minSize
       THEN UNCHANGED <<self, loc>>
       ELSE /\ self' = [self EXCEPT !.event = "unset",
                            !.tasks = IF null THEN Append(@, NewConnection) ELSE @]
            /\ loc' = GoTo(a, "full")
    /\ UNCHANGED <<null, connVars, leaked, cancels>>

WaitDone(a) ==
    /\ loc[a].pc = "full"
    /\ self.lock = NoTask
    /\ \/ self.event = "set" /\ self' = [self EXCEPT !.event = "none"]
       \/ self.closed /\ UNCHANGED self
    /\ loc' = GoTo(a, "idle")
    /\ UNCHANGED <<null, connVars, history>>

-----------------------------------------------------------------------------
\* The server closes a connection that is idle in the pool
Break ==
    /\ ~Reliable
    /\ \E i \in DOMAIN self.pool :
          /\ status[self.pool[i]] = "idle"
          /\ status' = [status EXCEPT ![self.pool[i]] = "unknown"]
    /\ UNCHANGED <<null, self, loc, old, history>>

ClientStep(c) ==
    \/ GetReady(c) \/ GetTooMany(c) \/ GetQueue(c) \/ NullConnect(c)
    \/ \E k \in Conns : NullConnected(c, k)
    \/ NullConnectFailed(c)
    \/ WaitGot(c) \/ WaitFailed(c) \/ CheckGood(c)

PutStep(c) == \E st \in Leaves : PutConn(c, st) \/ NullPutConn(c, st)

Start(c) == GetBlocked(c) \/ (HasCheck /\ \E st \in Leaves : CheckBad(c, st))

Interrupt(c) == WaitInterrupted(c) \/ GetInterrupted(c) \/ PutCancelled(c)

WorkerStep(w) ==
    \/ WorkerStop(w) \/ WorkerDiscard(w) \/ WorkerReturn(w) \/ WorkerAdd(w)
    \/ \E k \in Conns : Connected(w, k)
    \/ ConnectRetry(w) \/ ConnectGiveUp(w) \/ Shrink(w)

CallerStep(a) == FailWaiting(a) \/ CheckNext(a) \/ Checked(a) \/ WaitDone(a)

Call(a) ==
    \/ ClosePool(a) \/ Drain(a) \/ Check(a) \/ Wait(a)
    \/ \E size \in NewSizes : Resize(a, size)

Next ==
    \/ \E c \in Clients : ClientStep(c) \/ PutStep(c) \/ Start(c) \/ Interrupt(c)
    \/ \E t \in Tasks : Reset(t) \/ AddLocked(t)
    \/ \E w \in Workers : WorkerStep(w)
    \/ \E a \in Callers : CallerStep(a) \/ Call(a) \/ CloseCancelled(a)
    \/ Tick \/ TickShrink \/ Break

Spec == Init /\ [][Next]_vars

-----------------------------------------------------------------------------
(* Properties *)

PCs == {"idle", "lock", "connect", "check", "use", "wait", "got", "failed", "sleep",
        "putlock", "reset", "add", "stopped", "closing", "checking", "checked", "full"}

Holding == {"check", "use", "got", "putlock", "reset", "add", "checked"}

\* The types, and that a task has a connection exactly where it should; the lock is
\* held by a client of a null pool that connects
TypeOK ==
    /\ null \in BOOLEAN /\ self.closed \in BOOLEAN /\ self.growing \in BOOLEAN
    /\ self.pool \in Seq(Conns) /\ self.waiting \in Seq(Clients \cup {Gone})
    /\ \A t \in Tasks : loc[t].pc \in PCs /\ (loc[t].conn # NoConn <=> loc[t].pc \in Holding)
    /\ \A c \in Clients : self.lock = c <=> loc[c].pc = "connect"
    /\ status \in [Conns -> {"absent", "idle", "intrans", "active", "unknown"}]

\* Where a reference to a connection is
Places(c) ==
    {<<"pool", i>> : i \in {j \in DOMAIN self.pool : self.pool[j] = c}}
        \cup {<<"job", i>> : i \in {j \in DOMAIN self.tasks : self.tasks[j].conn = c}}
        \cup {<<"task", t>> : t \in {u \in Tasks : loc[u].conn = c \/ c \in loc[u].out}}

(***************************************************************************)
(* However tasks are cancelled, each open connection of a pool is in one   *)
(* place and a closed one in none: the connection set() while the waiting  *)
(* task is cancelled (pool_async.py:303-305), the one whose check is       *)
(* cancelled (:266), the one whose rollback is cancelled (:878).           *)
(***************************************************************************)
ExclusiveOwnership ==
    \A c \in Conns : Cardinality(Places(c)) = IF status[c] = "absent" THEN 0 ELSE 1

\* The connections in the pool, out of it, or being prepared
Slots ==
    Len(self.pool)
    + Cardinality({i \in DOMAIN self.tasks : self.tasks[i].kind \in {"add", "return"}})
    + Cardinality(UNION {{r} \X (1..self.delayed[r]) : r \in Retries})
    + Cardinality({t \in Tasks : loc[t].conn # NoConn})
    + Cardinality({w \in Workers : loc[w].pc = "connect"})
    + Cardinality(UNION {{a} \X (loc[a].out \cap Conns) : a \in Callers})

(***************************************************************************)
(* _nconns counts every connection, cancelled tasks included; a cancelled  *)
(* putconn() of a null pool loses the connection and leaves it counted     *)
(* (null_pool_async.py:124), so that the pool shrinks for ever by the      *)
(* number of those.  The connection that wait() of a null pool makes is    *)
(* not counted.                                                            *)
(***************************************************************************)
Accounting == self.closed \/ (null /\ "wait" \in calls) \/ self.nconns = Slots + leaked

(***************************************************************************)
(* Unlike with threads, no client that calls getconn() queues itself after *)
(* close(): everyone who waits on a closed pool is in the hands of a       *)
(* close() that will fail it, unless that was cancelled.  The exceptions   *)
(* are a client that was asleep after a failed check (its second attempt   *)
(* does not test _closed, pool_async.py:263), and one of a null pool that  *)
(* was waiting for the lock.                                               *)
(***************************************************************************)
LateClients ==
    \A c \in Clients :
        (self.closed /\ cancels = 0 /\ loc[c].pc = "wait") =>
            loc[c].next # "idle" \/ \E a \in Callers : c \in loc[a].out

(***************************************************************************)
(* Unlike with threads, no connection older than the last drain() is in    *)
(* the pool: the comparison and the insertion are in the same step         *)
(* (pool_async.py:806-812).  Only check() can put one back, that it had    *)
(* taken out before.                                                       *)
(***************************************************************************)
DrainedStayOut == "check" \in calls \/ \A i \in DOMAIN self.pool : self.pool[i] \notin old

\* The growing attempts queued, scheduled or running
Growing ==
    Cardinality({i \in DOMAIN self.tasks : self.tasks[i].growing})
    + Cardinality(UNION {{r} \X (1..self.delayed[r]) : r \in {q \in Retries : q.growing}})
    + Cardinality({w \in Workers : loc[w].pc = "connect" /\ loc[w].job.growing})

(***************************************************************************)
(* The flag _growing of an open pool is true exactly when one growing      *)
(* attempt is on its way, so that the pool can always grow again.          *)
(***************************************************************************)
GrowOneAtATime == self.closed \/ Growing = IF self.growing THEN 1 ELSE 0

(***************************************************************************)
(* The books of the pool are right: a connection has one owner, _nconns    *)
(* counts the connections there are and those on their way, and _growing   *)
(* tells whether one of them is to make the pool grow (pool.py).           *)
(***************************************************************************)
Bookkeeping ==
    /\ TypeOK
    /\ ExclusiveOwnership
    /\ Accounting
    /\ GrowOneAtATime

(***************************************************************************)
(* Both pools implement Leases.  The limit is max_size; it does not hold   *)
(* after resize(), nor for a null pool on which wait() was called: the     *)
(* connection it makes may be given to a waiting client without having     *)
(* been counted (null_pool_async.py:89, 169).                              *)
(***************************************************************************)
L == INSTANCE Leases WITH
        lease <- [k \in Clients |-> IF loc[k].pc \in {"use", "putlock"}
                                    THEN loc[k].conn ELSE NoConn],
        dirty <- {c \in Conns : status[c] \in {"intrans", "active"}},
        capacity <- IF "resize" \in calls \/ (null /\ "wait" \in calls)
                    THEN Cardinality(Conns) ELSE MaxSize

ImplementsLeases == L!Spec
=============================================================================

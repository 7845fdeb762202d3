---------------------------- MODULE AsyncPoolProofs ----------------------------
(***************************************************************************)
(* Proofs about AsyncPool, for any number of tasks and connections and any *)
(* parameters of the pool.                                                 *)
(***************************************************************************)
EXTENDS AsyncPool, Counting

(* The types, stronger than those of TypeOK *)

\* The tasks of the pool
AddJobs == {AddConnection(g, k) : g \in BOOLEAN, k \in 0..MaxAttempts}
Jobs == {ShrinkPool, StopWorker} \cup AddJobs \cup {ReturnConnection(c) : c \in Conns}

\* The pool object
Pools ==
    [closed : BOOLEAN, lock : Clients \cup {NoTask}, pool : Seq(Conns),
     waiting : Seq(Clients \cup {Gone}), nconns : Int, nconnsMin : Int,
     growing : BOOLEAN, minSize : Nat, maxSize : Nat,
     event : {"none", "unset", "set"}, tasks : Seq(Jobs),
     delayed : [Retries -> Nat], shrinks : Nat]

\* Where a task goes after what it does now, and its local state
Nexts == {"idle", "sleep", "lock", "checking"}
Locals ==
    [pc : PCs, conn : Conns \cup {NoConn}, next : Nexts, out : SUBSET (Clients \cup Conns),
     job : AddJobs]

LiveStatus == {"idle", "intrans", "active", "unknown"}

Types ==
    /\ null \in BOOLEAN /\ self \in Pools /\ loc \in [Tasks -> Locals]
    /\ status \in [Conns -> LiveStatus \cup {"absent"}] /\ old \in SUBSET Conns
    /\ leaked \in Nat /\ calls \in SUBSET Methods /\ cancels \in Nat

\* What each task may be doing
ClientPCs ==
    {"idle", "lock", "connect", "check", "use", "wait", "got", "failed", "sleep",
     "putlock", "reset", "add"}
WorkerPCs == {"idle", "connect", "reset", "add", "stopped"}
CallerPCs == {"idle", "closing", "checking", "checked", "full"}

\* The local state l fits task t: what it may be doing, with a connection or without,
\* with a list of clients or of connections or without
Fits(t, l) ==
    /\ t \in Clients => /\ l.pc \in ClientPCs /\ l.next # "checking"
                        /\ l.pc \in {"reset", "add"} => l.next # "lock"
    /\ t \in Workers => l.pc \in WorkerPCs /\ l.next = "idle"
    /\ t \in Callers => /\ l.pc \in CallerPCs
                        /\ l.pc = "checked" => l.next = "checking"
                        /\ l.pc \in {"idle", "full"} => l.out = {}
                        /\ l.pc = "closing" => l.out \subseteq Clients
                        /\ l.pc \in {"checking", "checked"} => l.out \subseteq Conns
    /\ t \notin Callers => l.out = {}
    /\ l.conn # NoConn <=> l.pc \in Holding
    /\ null => l.pc \notin {"checking", "checked"}
    /\ ~null => l.pc \notin {"add", "putlock"} /\ (t \in Clients => l.pc # "connect")

Placed == \A t \in Tasks : Fits(t, loc[t])

\* The lock is held by the client that connects; a null pool keeps no connection
Locked ==
    /\ \A c \in Clients : self.lock = c <=> loc[c].pc = "connect"
    /\ null => self.pool = <<>>

\* The clients in the queue or in the list of close() wait, each in one place
Queued ==
    /\ \A i, j \in DOMAIN self.waiting :
          self.waiting[i] = self.waiting[j] /\ self.waiting[i] # Gone => i = j
    /\ \A i \in DOMAIN self.waiting :
          self.waiting[i] # Gone => loc[self.waiting[i]].pc = "wait"
    /\ \A t \in Tasks : \A c \in loc[t].out \cap Clients :
          /\ loc[c].pc = "wait"
          /\ \A i \in DOMAIN self.waiting : self.waiting[i] # c
    /\ \A a \in Callers : loc[a].pc = "closing" => self.closed
    /\ \A a, b \in Callers : loc[a].pc = "closing" /\ loc[b].pc = "closing" => a = b

Shape == Types /\ Placed /\ Locked /\ Queued

-----------------------------------------------------------------------------
(* Tasks of the pool *)

\* The tasks that are queued
LEMMA JobTypes ==
    /\ NewConnection \in AddJobs /\ AddConnection(TRUE, 0) \in AddJobs
    /\ AddJobs \subseteq Jobs /\ Retries \subseteq AddJobs
    /\ StopWorker \in Jobs /\ ShrinkPool \in Jobs
    /\ \A c \in Conns : ReturnConnection(c) \in Jobs
<1> MaxAttempts \in Nat
  BY AsyncAssumption DEF AsyncAssumption
<1>1. 0 \in 0..MaxAttempts /\ 1..MaxAttempts \subseteq 0..MaxAttempts
  OBVIOUS
<1>2. NewConnection \in AddJobs /\ AddConnection(TRUE, 0) \in AddJobs
  <2>1. \A g \in BOOLEAN, k \in 0..MaxAttempts : AddConnection(g, k) \in AddJobs
    BY DEF AddJobs
  <2> QED
    BY <1>1, <2>1 DEF NewConnection
<1>3. Retries \subseteq AddJobs
  BY <1>1 DEF Retries, AddJobs
<1> QED
  BY <1>2, <1>3 DEF Jobs

\* ... and their fields
LEMMA JobFields ==
    ASSUME NEW j \in Jobs
    PROVE  /\ j.kind \in {"add", "return", "shrink", "stop"}
           /\ j.kind = "add" => j \in AddJobs
           /\ j.kind = "return" => j.conn \in Conns
           /\ j.kind # "return" => j.conn = NoConn
           /\ j.growing \in BOOLEAN
           /\ j.growing => j.kind = "add"
<1>1. ASSUME j \in AddJobs
      PROVE  j.kind = "add" /\ j.conn = NoConn /\ j.growing \in BOOLEAN
  BY <1>1 DEF AddJobs, Job, AddConnection
<1>2. ASSUME NEW c \in Conns, j = ReturnConnection(c)
      PROVE  j.kind = "return" /\ j.conn = c /\ j.growing = FALSE
  BY <1>2 DEF ReturnConnection, Job
<1>3. ASSUME j = ShrinkPool \/ j = StopWorker
      PROVE  j.kind \in {"shrink", "stop"} /\ j.conn = NoConn /\ j.growing = FALSE
  BY <1>3 DEF ShrinkPool, StopWorker, Job
<1> QED
  BY <1>1, <1>2, <1>3 DEF Jobs

\* ... of an AddConnection, which is tried again until its last attempt
LEMMA AddFields ==
    ASSUME NEW j \in AddJobs
    PROVE  /\ j.kind = "add" /\ j.conn = NoConn
           /\ j.growing \in BOOLEAN /\ j.attempt \in 0..MaxAttempts
           /\ j.attempt < MaxAttempts => AddConnection(j.growing, j.attempt + 1) \in Retries
BY AsyncAssumption DEF AddJobs, AddConnection, Job, AsyncAssumption, Retries

\* ... of the tasks the methods create
LEMMA NewFields ==
    /\ NewConnection.kind = "add" /\ NewConnection.conn = NoConn
    /\ NewConnection.growing = FALSE
    /\ AddConnection(TRUE, 0).kind = "add" /\ AddConnection(TRUE, 0).conn = NoConn
    /\ AddConnection(TRUE, 0).growing = TRUE
    /\ StopWorker.kind = "stop" /\ StopWorker.conn = NoConn /\ StopWorker.growing = FALSE
    /\ ShrinkPool.kind = "shrink" /\ ShrinkPool.conn = NoConn /\ ShrinkPool.growing = FALSE
    /\ \A c : /\ ReturnConnection(c).kind = "return" /\ ReturnConnection(c).conn = c
              /\ ReturnConnection(c).growing = FALSE
  BY DEF NewConnection, AddConnection, StopWorker, ShrinkPool, ReturnConnection, Job

\* Copies of a task
LEMMA CopiesType ==
    ASSUME NEW n \in Nat, NEW S, NEW j \in S
    PROVE  Copies(n, j) \in Seq(S)
  BY DEF Copies

\* A task more
LEMMA AppendType ==
    ASSUME NEW S, NEW q \in Seq(S), NEW j \in S
    PROVE  Append(q, j) \in Seq(S)
  OBVIOUS

(* The pool object *)

\* ... and their types
LEMMA PoolFields ==
    ASSUME NEW s \in Pools
    PROVE  /\ s.closed \in BOOLEAN /\ s.lock \in Clients \cup {NoTask}
           /\ s.pool \in Seq(Conns) /\ s.waiting \in Seq(Clients \cup {Gone})
           /\ s.nconns \in Int /\ s.nconnsMin \in Int /\ s.growing \in BOOLEAN
           /\ s.minSize \in Nat /\ s.maxSize \in Nat
           /\ s.event \in {"none", "unset", "set"} /\ s.tasks \in Seq(Jobs)
           /\ s.delayed \in [Retries -> Nat] /\ s.shrinks \in Nat
  BY DEF Pools

\* An attribute is assigned: the others stay
LEMMA PoolUpdates ==
    ASSUME NEW s \in Pools
    PROVE  /\ \A v \in BOOLEAN : [s EXCEPT !.closed = v] \in Pools
           /\ \A v \in Clients \cup {NoTask} : [s EXCEPT !.lock = v] \in Pools
           /\ \A v \in Seq(Conns) : [s EXCEPT !.pool = v] \in Pools
           /\ \A v \in Seq(Clients \cup {Gone}) : [s EXCEPT !.waiting = v] \in Pools
           /\ \A v \in Int : [s EXCEPT !.nconns = v] \in Pools
           /\ \A v \in Int : [s EXCEPT !.nconnsMin = v] \in Pools
           /\ \A v \in BOOLEAN : [s EXCEPT !.growing = v] \in Pools
           /\ \A v \in Nat : [s EXCEPT !.minSize = v] \in Pools
           /\ \A v \in Nat : [s EXCEPT !.maxSize = v] \in Pools
           /\ \A v \in {"none", "unset", "set"} : [s EXCEPT !.event = v] \in Pools
           /\ \A v \in Seq(Jobs) : [s EXCEPT !.tasks = v] \in Pools
           /\ \A v \in [Retries -> Nat] : [s EXCEPT !.delayed = v] \in Pools
           /\ \A v \in Nat : [s EXCEPT !.shrinks = v] \in Pools
  BY DEF Pools
(* The local state of a task *)

\* Task t goes on with what is given, and the others stay where they are
Moved(t, p, c, n, o, j) ==
    /\ loc' \in [Tasks -> Locals]
    /\ loc'[t].pc = p /\ loc'[t].conn = c /\ loc'[t].next = n /\ loc'[t].out = o
    /\ loc'[t].job = j
    /\ \A u \in Tasks : u # t => loc'[u] = loc[u]

\* Task t is done with its connection
Left(t, n) == Moved(t, n, NoConn, "idle", loc[t].out, NewConnection)

\* Task t is at the start, or at pc p with a connection
Restarted(t, p, c) == Moved(t, p, c, "idle", {}, NewConnection)

\* The local state of a task has five fields
LEMMA LocalFields ==
    ASSUME NEW l \in Locals
    PROVE  /\ l.pc \in PCs /\ l.conn \in Conns \cup {NoConn} /\ l.next \in Nexts
           /\ l.out \in SUBSET (Clients \cup Conns) /\ l.job \in AddJobs
  BY DEF Locals

\* What assigning some of them does
LEMMA MovesPc ==
    ASSUME Types, NEW t \in Tasks, NEW p \in PCs, loc' = GoTo(t, p)
    PROVE  Moved(t, p, loc[t].conn, loc[t].next, loc[t].out, loc[t].job)
  BY DEF Types, Locals, Moved, GoTo

\* ... a place and a connection
LEMMA MovesConn ==
    ASSUME Types, NEW t \in Tasks, NEW p \in PCs, NEW c \in Conns,
           loc' = [loc EXCEPT ![t].pc = p, ![t].conn = c]
    PROVE  Moved(t, p, c, loc[t].next, loc[t].out, loc[t].job)
  BY DEF Types, Locals, Moved

\* ... a place, and where to go on from there
LEMMA MovesNext ==
    ASSUME Types, NEW t \in Tasks, NEW p \in PCs, NEW n \in Nexts,
           loc' = [loc EXCEPT ![t].pc = p, ![t].next = n]
    PROVE  Moved(t, p, loc[t].conn, n, loc[t].out, loc[t].job)
  BY DEF Types, Locals, Moved

\* ... a place, a connection and where to go on
LEMMA MovesConnNext ==
    ASSUME Types, NEW t \in Tasks, NEW p \in PCs, NEW c \in Conns, NEW n \in Nexts,
           loc' = [loc EXCEPT ![t].pc = p, ![t].conn = c, ![t].next = n]
    PROVE  Moved(t, p, c, n, loc[t].out, loc[t].job)
  BY DEF Types, Locals, Moved

\* ... a place and the task it runs
LEMMA MovesJob ==
    ASSUME Types, NEW t \in Tasks, NEW p \in PCs, NEW j \in AddJobs,
           loc' = [loc EXCEPT ![t].pc = p, ![t].job = j]
    PROVE  Moved(t, p, loc[t].conn, loc[t].next, loc[t].out, j)
  BY DEF Types, Locals, Moved

\* ... a place and a list
LEMMA MovesOut ==
    ASSUME Types, NEW t \in Tasks, NEW p \in PCs, NEW o \in SUBSET (Clients \cup Conns),
           loc' = [loc EXCEPT ![t].pc = p, ![t].out = o]
    PROVE  Moved(t, p, loc[t].conn, loc[t].next, o, loc[t].job)
  BY DEF Types, Locals, Moved

\* ... what check() takes out of its list
LEMMA MovesTaken ==
    ASSUME Types, NEW t \in Tasks, NEW c \in Conns,
           loc' = [loc EXCEPT ![t].out = @ \ {c}, ![t].conn = c,
                              ![t].pc = "checked", ![t].next = "checking"]
    PROVE  Moved(t, "checked", c, "checking", loc[t].out \ {c}, loc[t].job)
<1>1. loc[t].out \ {c} \in SUBSET (Clients \cup Conns)
  BY DEF Types, Locals
<1>2. "checked" \in PCs /\ "checking" \in Nexts
  BY DEF PCs, Nexts
<1> QED
  BY <1>1, <1>2 DEF Types, Locals, Moved

\* ... what a task keeps when it is done with its connection
LEMMA MovesLeaving ==
    ASSUME Types, NEW t \in Tasks, NEW n \in PCs, loc' = Leaving(t, n)
    PROVE  Left(t, n)
  BY JobTypes DEF Types, Locals, Moved, Leaving, Left, At, Nexts

\* ... everything
LEMMA MovesRestarted ==
    ASSUME Types, NEW t \in Tasks, NEW p \in PCs, NEW c \in Conns \cup {NoConn},
           loc' = [loc EXCEPT ![t] = At(p, c, "idle")]
    PROVE  Restarted(t, p, c)
  BY JobTypes DEF Types, Locals, Moved, Restarted, At, Nexts

\* The places the actions go to
LEMMA Names ==
    /\ "idle" \in PCs /\ "lock" \in PCs /\ "connect" \in PCs /\ "check" \in PCs
    /\ "use" \in PCs /\ "wait" \in PCs /\ "got" \in PCs /\ "failed" \in PCs
    /\ "sleep" \in PCs /\ "putlock" \in PCs /\ "reset" \in PCs /\ "add" \in PCs
    /\ "stopped" \in PCs /\ "closing" \in PCs /\ "checking" \in PCs
    /\ "checked" \in PCs /\ "full" \in PCs
    /\ "idle" \in Nexts /\ "sleep" \in Nexts /\ "lock" \in Nexts /\ "checking" \in Nexts
    /\ Nexts \subseteq PCs
  BY DEF PCs, Nexts

-----------------------------------------------------------------------------
(* What _return_connection() and _add_to_pool() do *)

\* The first client that waits
LEMMA FirstAlive ==
    ASSUME NEW s \in Pools, Alive(s) # {}
    PROVE  /\ First(s) \in Alive(s) /\ \A j \in Alive(s) : First(s) <= j
           /\ First(s) \in 1 .. Len(s.waiting) /\ s.waiting[First(s)] \in Clients
           /\ SubSeq(s.waiting, First(s) + 1, Len(s.waiting)) \in Seq(Clients \cup {Gone})
<1>0. s.waiting \in Seq(Clients \cup {Gone})
  BY PoolFields
<1>1. Alive(s) \in SUBSET (1 .. Len(s.waiting)) /\ Len(s.waiting) \in Nat
  BY <1>0 DEF Alive
<1>2. Alive(s) \in SUBSET Nat
  BY <1>1
<1>3. \E i \in Alive(s) : \A j \in Alive(s) : i <= j
  BY <1>2, LeastNat
<1>4. First(s) \in Alive(s) /\ \A j \in Alive(s) : First(s) <= j
  BY <1>3 DEF First
<1>5. First(s) \in 1 .. Len(s.waiting) /\ s.waiting[First(s)] # Gone
  BY <1>1, <1>4 DEF Alive
<1>6. s.waiting[First(s)] \in Clients
  BY <1>0, <1>5
<1>7. First(s) + 1 \in Int /\ Len(s.waiting) \in Int /\ First(s) + 1 >= 1
  BY <1>1, <1>5
<1>8. SubSeq(s.waiting, First(s) + 1, Len(s.waiting)) \in Seq(Clients \cup {Gone})
  BY <1>0, <1>7
<1> QED
  BY <1>4, <1>5, <1>6, <1>8

\* The pool after a growing attempt, if it was one
Grown(s, grow) == IF grow THEN Regrown(s) ELSE s

\* After a growing attempt one more is queued, with its slot counted, or growing ends
LEMMA GrownFields ==
    ASSUME NEW s \in Pools, NEW grow \in BOOLEAN
    PROVE  LET g == Grown(s, grow)
           IN  /\ g \in Pools
               /\ g.closed = s.closed /\ g.lock = s.lock /\ g.pool = s.pool
               /\ g.waiting = s.waiting /\ g.nconnsMin = s.nconnsMin
               /\ g.minSize = s.minSize /\ g.maxSize = s.maxSize /\ g.event = s.event
               /\ g.delayed = s.delayed /\ g.shrinks = s.shrinks
               /\ \/ ~grow /\ g = s
                  \/ /\ grow /\ g.nconns = s.nconns + 1 /\ g.growing = s.growing
                     /\ g.tasks = Append(s.tasks, AddConnection(TRUE, 0))
                     /\ s.nconns < s.minSize \/ s.nconns < s.maxSize
                  \/ /\ grow /\ g.nconns = s.nconns /\ g.growing = FALSE
                     /\ g.tasks = s.tasks
<1> DEFINE a == [s EXCEPT !.nconns = @ + 1]
           b == RunTask(a, AddConnection(TRUE, 0))
           d == [s EXCEPT !.growing = FALSE]
<1>1. s.nconns \in Int /\ s.tasks \in Seq(Jobs) /\ AddConnection(TRUE, 0) \in Jobs
  BY PoolFields, JobTypes
<1>2. s.nconns + 1 \in Int /\ Append(s.tasks, AddConnection(TRUE, 0)) \in Seq(Jobs)
  <2>1. s.nconns + 1 \in Int
    BY <1>1
  <2>2. Append(s.tasks, AddConnection(TRUE, 0)) \in Seq(Jobs)
    BY <1>1, AppendType
  <2> QED
    BY <2>1, <2>2
<1>3. /\ a \in Pools /\ a.nconns = s.nconns + 1 /\ a.tasks = s.tasks
      /\ a.closed = s.closed /\ a.lock = s.lock /\ a.pool = s.pool
      /\ a.waiting = s.waiting /\ a.nconnsMin = s.nconnsMin /\ a.growing = s.growing
      /\ a.minSize = s.minSize /\ a.maxSize = s.maxSize /\ a.event = s.event
      /\ a.delayed = s.delayed /\ a.shrinks = s.shrinks
  BY <1>2 DEF Pools
<1> HIDE DEF a
<1>4. /\ b \in Pools /\ b.tasks = Append(s.tasks, AddConnection(TRUE, 0))
      /\ b.closed = a.closed /\ b.lock = a.lock /\ b.pool = a.pool
      /\ b.waiting = a.waiting /\ b.nconnsMin = a.nconnsMin /\ b.growing = a.growing
      /\ b.minSize = a.minSize /\ b.maxSize = a.maxSize /\ b.event = a.event
      /\ b.delayed = a.delayed /\ b.shrinks = a.shrinks /\ b.nconns = a.nconns
  BY <1>2, <1>3 DEF Pools, RunTask
<1>5. /\ d \in Pools /\ d.growing = FALSE /\ d.tasks = s.tasks
      /\ d.closed = s.closed /\ d.lock = s.lock /\ d.pool = s.pool
      /\ d.waiting = s.waiting /\ d.nconnsMin = s.nconnsMin /\ d.nconns = s.nconns
      /\ d.minSize = s.minSize /\ d.maxSize = s.maxSize /\ d.event = s.event
      /\ d.delayed = s.delayed /\ d.shrinks = s.shrinks
  BY DEF Pools
<1> HIDE DEF b, d
<1>6. Regrown(s) = d \/ (Regrown(s) = b /\ (s.nconns < s.minSize \/ s.nconns < s.maxSize))
  BY DEF Regrown, a, b, d
<1> QED
  BY <1>3, <1>4, <1>5, <1>6 DEF Grown

\* What becomes of connection c: it is idle, used, or closed
Becomes(c, st) ==
    /\ status' \in [Conns -> LiveStatus \cup {"absent"}]
    /\ status'[c] = st
    /\ \A k \in Conns : k # c => status'[k] = status[k]
    /\ old' = IF st = "absent" THEN old \ {c} ELSE old

\* A connection is given a status
LEMMA BecomesStatus ==
    ASSUME Types, NEW c \in Conns, NEW st \in LiveStatus \cup {"absent"},
           status' = [status EXCEPT ![c] = st],
           old' = IF st = "absent" THEN old \ {c} ELSE old
    PROVE  Becomes(c, st)
  BY DEF Types, Becomes

\* A connection is closed
LEMMA BecomesClosed ==
    ASSUME Types, NEW c \in Conns, Close({c})
    PROVE  Becomes(c, "absent")
  BY DEF Types, Becomes, Close

\* The connection is closed and a new one asked for
Replaces(t, c, n, s) ==
    /\ self' = RunTask(s, NewConnection)
    /\ Left(t, n) /\ Becomes(c, "absent")

\* Task t waits for _reset_connection(), or for the lock
Resets(t, c, n, st, s) ==
    /\ self' = s
    /\ Moved(t, "reset", c, n, loc[t].out, loc[t].job) /\ Becomes(c, st)
AddWaits(t, c, n, s) ==
    /\ s.lock # NoTask /\ self' = s
    /\ Moved(t, "add", c, n, loc[t].out, loc[t].job) /\ Becomes(c, "idle")

\* The pool is closed
AddDrops(t, c, n, grow, s) ==
    /\ s.lock = NoTask /\ s.closed /\ ~null
    /\ self' = Grown(s, grow)
    /\ Left(t, n) /\ Becomes(c, "absent")

\* s1 differs from s in the connections, the queue, their number and the event only
Alike(s, s1) ==
    /\ s1 \in Pools
    /\ s1.closed = s.closed /\ s1.lock = s.lock /\ s1.nconnsMin = s.nconnsMin
    /\ s1.growing = s.growing /\ s1.minSize = s.minSize /\ s1.maxSize = s.maxSize
    /\ s1.tasks = s.tasks /\ s1.delayed = s.delayed /\ s1.shrinks = s.shrinks

\* A null pool that nobody waits for
AddCloses(t, c, n, grow, s) ==
    /\ s.lock = NoTask /\ null /\ Alive(s) = {}
    /\ \E s1 : /\ Alike(s, s1) /\ s1.waiting = <<>> /\ s1.pool = s.pool
               /\ \/ s.event = "none" /\ s1.event = "none" /\ s1.nconns = s.nconns - 1
                  \/ s.event # "none" /\ s1.event = "set" /\ s1.nconns = s.nconns
               /\ self' = Grown(s1, grow)
    /\ Left(t, n) /\ Becomes(c, "absent")

\* An open pool that nobody waits for
AddKeeps(t, c, n, grow, s) ==
    /\ s.lock = NoTask /\ ~null /\ ~s.closed /\ Alive(s) = {}
    /\ \E s1 : /\ Alike(s, s1) /\ s1.waiting = <<>> /\ s1.pool = Append(s.pool, c)
               /\ s1.nconns = s.nconns
               /\ s1.event = s.event \/ (s.event = "unset" /\ s1.event = "set")
               /\ self' = Grown(s1, grow)
    /\ Left(t, n) /\ Becomes(c, "idle")

\* Client k is given the connection
LeftGiving(t, n, k, c) ==
    /\ loc' \in [Tasks -> Locals]
    /\ loc'[t].pc = n /\ loc'[t].conn = NoConn /\ loc'[t].next = "idle"
    /\ loc'[t].out = loc[t].out /\ loc'[t].job = NewConnection
    /\ loc'[k].pc = "got" /\ loc'[k].conn = c /\ loc'[k].next = loc[k].next
    /\ loc'[k].out = loc[k].out /\ loc'[k].job = loc[k].job
    /\ \A u \in Tasks : u # t /\ u # k => loc'[u] = loc[u]
AddGives(t, c, n, grow, s) ==
    /\ s.lock = NoTask /\ (null \/ ~s.closed)
    /\ \E k \in Clients, s1 \in Pools :
          /\ k # t /\ loc[k].pc = "wait" /\ Alive(s) # {} /\ k = s.waiting[First(s)]
          /\ Alike(s, s1) /\ s1.pool = s.pool /\ s1.event = s.event
          /\ s1.nconns = s.nconns
          /\ s1.waiting = SubSeq(s.waiting, First(s) + 1, Len(s.waiting))
          /\ self' = Grown(s1, grow) /\ LeftGiving(t, n, k, c)
    /\ Becomes(c, "idle")

AddForms(t, c, n, grow, s) ==
    \/ AddWaits(t, c, n, s) \/ AddDrops(t, c, n, grow, s)
    \/ AddCloses(t, c, n, grow, s) \/ AddKeeps(t, c, n, grow, s)
    \/ AddGives(t, c, n, grow, s)

\* The local state of a task that is done with its connection
LEMMA LeavingFields ==
    ASSUME Types, NEW t \in Tasks, NEW n \in PCs, NEW l, l = Leaving(t, n)
    PROVE  /\ l \in [Tasks -> Locals]
           /\ l[t].pc = n /\ l[t].conn = NoConn /\ l[t].next = "idle"
           /\ l[t].out = loc[t].out /\ l[t].job = NewConnection
           /\ \A u \in Tasks : u # t => l[u] = loc[u]
  BY JobTypes DEF Types, Locals, Leaving, At, Nexts

\* A task is done with a connection and a client has it
LEMMA MovesGiving ==
    ASSUME Types, NEW t \in Tasks, NEW k \in Tasks, k # t, NEW n \in PCs, NEW c \in Conns,
           NEW l \in [Tasks -> Locals],
           l[t].pc = n /\ l[t].conn = NoConn /\ l[t].next = "idle",
           l[t].out = loc[t].out /\ l[t].job = NewConnection,
           \A u \in Tasks : u # t => l[u] = loc[u],
           loc' = [l EXCEPT ![k].pc = "got", ![k].conn = c]
    PROVE  LeftGiving(t, n, k, c)
<1>1. /\ loc' \in [Tasks -> Locals]
      /\ loc'[k].pc = "got" /\ loc'[k].conn = c /\ loc'[k].next = l[k].next
      /\ loc'[k].out = l[k].out /\ loc'[k].job = l[k].job
      /\ \A u \in Tasks : u # k => loc'[u] = l[u]
  BY DEF Locals, PCs
<1> QED
  BY <1>1 DEF LeftGiving

\* _add_to_pool() does one of these
LEMMA AddEffect ==
    ASSUME Shape, NEW t \in Tasks, NEW c \in Conns, NEW n \in Nexts, NEW grow \in BOOLEAN,
           NEW s \in Pools, s.waiting = self.waiting, loc[t].pc # "wait",
           AddToPool(t, c, n, grow, s)
    PROVE  AddForms(t, c, n, grow, s)
<1> DEFINE given == Alive(s) # {} /\ (null \/ ~s.closed)
           kept == given \/ (~null /\ ~s.closed)
           k == s.waiting[First(s)]
<1>0. Types /\ "add" \in PCs /\ n \in PCs
  BY Names DEF Shape
<1>1. CASE s.lock # NoTask
  BY <1>1, <1>0, MovesConnNext, BecomesStatus DEF AddToPool, LiveStatus, AddForms, AddWaits
<1>2. CASE s.lock = NoTask
  <2>1. /\ self' = Grown(Added(s, c), grow)
        /\ loc' = IF given THEN [Leaving(t, n) EXCEPT ![k].pc = "got", ![k].conn = c]
                  ELSE Leaving(t, n)
        /\ status' = [status EXCEPT ![c] = IF kept THEN "idle" ELSE "absent"]
        /\ old' = IF kept THEN old ELSE old \ {c}
    BY <1>2 DEF AddToPool, Grown
  <2>2. Becomes(c, IF kept THEN "idle" ELSE "absent")
    BY <1>0, <2>1, BecomesStatus DEF LiveStatus
  <2>3. ~given => Left(t, n)
    BY <1>0, <2>1, MovesLeaving
  <2>4. CASE given
    <3>1. /\ First(s) \in Alive(s) /\ k \in Clients
          /\ SubSeq(s.waiting, First(s) + 1, Len(s.waiting)) \in Seq(Clients \cup {Gone})
      BY <2>4, FirstAlive
    <3>2. loc[k].pc = "wait"
      BY <3>1 DEF Alive, Shape, Queued
    <3>3. k # t
      BY <3>2
    <3>4. LeftGiving(t, n, k, c)
      <4>1. k \in Tasks
        BY <3>1 DEF Tasks
      <4> DEFINE kk == k
      <4> HIDE DEF kk
      <4>2. loc' = [Leaving(t, n) EXCEPT ![kk].pc = "got", ![kk].conn = c]
        BY <2>1, <2>4 DEF kk
      <4>3. PICK l : l = Leaving(t, n) /\ loc' = [l EXCEPT ![kk].pc = "got", ![kk].conn = c]
        BY <4>2
      <4>4. kk \in Tasks /\ kk # t
        BY <3>3, <4>1 DEF kk
      <4>5. /\ l \in [Tasks -> Locals]
            /\ l[t].pc = n /\ l[t].conn = NoConn /\ l[t].next = "idle"
            /\ l[t].out = loc[t].out /\ l[t].job = NewConnection
            /\ \A u \in Tasks : u # t => l[u] = loc[u]
        BY <1>0, <4>3, LeavingFields
      <4>6. LeftGiving(t, n, kk, c)
        BY <1>0, <4>3, <4>4, <4>5, MovesGiving
      <4> QED
        BY <4>6 DEF kk
    <3> DEFINE w == SubSeq(s.waiting, First(s) + 1, Len(s.waiting))
               s1 == [s EXCEPT !.waiting = w]
    <3>5. Added(s, c) = s1
      BY <2>4 DEF Added
    <3>6. /\ Alike(s, s1) /\ s1.pool = s.pool /\ s1.event = s.event
          /\ s1.nconns = s.nconns /\ s1.waiting = w
      <4> HIDE DEF w
      <4> QED
        BY <3>1 DEF Pools, Alike, w
    <3>7. self' = Grown(s1, grow)
      BY <2>1, <3>5
    <3> HIDE DEF s1, k
    <3>8. \E kk \in Clients, s2 \in Pools :
            /\ kk # t /\ loc[kk].pc = "wait" /\ Alive(s) # {} /\ kk = s.waiting[First(s)]
            /\ Alike(s, s2) /\ s2.pool = s.pool /\ s2.event = s.event
            /\ s2.nconns = s.nconns
            /\ s2.waiting = SubSeq(s.waiting, First(s) + 1, Len(s.waiting))
            /\ self' = Grown(s2, grow) /\ LeftGiving(t, n, kk, c)
      BY <3>6, <2>4, <3>1, <3>2, <3>3, <3>4, <3>7 DEF k, Alike
    <3> QED
      BY <1>2, <2>2, <2>4, <3>8 DEF AddForms, AddGives
  <2>5. CASE ~given /\ s.closed /\ ~null
    BY <2>5, <1>2, <2>1, <2>2, <2>3 DEF Added, AddForms, AddDrops
  <2>6. CASE ~given /\ null
    <3> DEFINE s0 == [s EXCEPT !.waiting = <<>>]
               s1 == NullAdded(s0)
    <3>1. Added(s, c) = s1 /\ ~kept
      BY <2>6 DEF Added
    <3>2. /\ s0 \in Pools /\ s0.waiting = <<>> /\ s0.pool = s.pool
          /\ Alike(s, s0) /\ s0.event = s.event /\ s0.nconns = s.nconns
      <4>1. <<>> \in Seq(Clients \cup {Gone})
        OBVIOUS
      <4> QED
        BY <4>1 DEF Pools, Alike
    <3> HIDE DEF s0
    <3>3. /\ Alike(s0, s1) /\ s1.waiting = s0.waiting /\ s1.pool = s0.pool
          /\ \/ s0.event = "none" /\ s1.event = "none" /\ s1.nconns = s0.nconns - 1
             \/ s0.event # "none" /\ s1.event = "set" /\ s1.nconns = s0.nconns
      <4>1. CASE s0.event = "none"
        <5>1. s0.nconns - 1 \in Int
          BY <3>2, PoolFields
        <5>2. s1 = [s0 EXCEPT !.nconns = s0.nconns - 1]
          BY <4>1 DEF NullAdded
        <5> QED
          BY <3>2, <4>1, <5>1, <5>2 DEF Pools, Alike
      <4>2. CASE s0.event # "none"
        BY <4>2, <3>2 DEF NullAdded, Pools, Alike
      <4> QED
        BY <4>1, <4>2
    <3> HIDE DEF s1
    <3>4. /\ Alike(s, s1) /\ s1.waiting = <<>> /\ s1.pool = s.pool
          /\ \/ s.event = "none" /\ s1.event = "none" /\ s1.nconns = s.nconns - 1
             \/ s.event # "none" /\ s1.event = "set" /\ s1.nconns = s.nconns
      BY <3>2, <3>3 DEF Alike
    <3> QED
      BY <1>2, <2>1, <2>2, <2>3, <2>6, <3>1, <3>4 DEF AddForms, AddCloses
  <2>7. CASE ~given /\ ~null /\ ~s.closed
    <3> DEFINE e == IF s.event = "unset" /\ Len(s.pool) + 1 >= s.minSize THEN "set"
                    ELSE s.event
               s1 == [s EXCEPT !.waiting = <<>>, !.pool = Append(s.pool, c), !.event = e]
    <3>1. Added(s, c) = s1 /\ kept
      BY <2>7 DEF Added
    <3>2. /\ e \in {"none", "unset", "set"}
          /\ e = s.event \/ (s.event = "unset" /\ e = "set")
      BY PoolFields
    <3>3. Append(s.pool, c) \in Seq(Conns)
      BY PoolFields, AppendType
    <3> HIDE DEF e
    <3>4. /\ Alike(s, s1) /\ s1.waiting = <<>> /\ s1.pool = Append(s.pool, c)
          /\ s1.nconns = s.nconns /\ s1.event = e
      <4>1. <<>> \in Seq(Clients \cup {Gone})
        OBVIOUS
      <4> DEFINE q == Append(s.pool, c)
      <4> HIDE DEF q
      <4>2. q \in Seq(Conns) /\ s1 = [s EXCEPT !.waiting = <<>>, !.pool = q, !.event = e]
        BY <3>3 DEF q
      <4>3. /\ Alike(s, s1) /\ s1.waiting = <<>> /\ s1.pool = q
            /\ s1.nconns = s.nconns /\ s1.event = e
        <5> HIDE DEF s1
        <5> QED
          BY <3>2, <4>1, <4>2 DEF Pools, Alike
      <4> QED
        BY <4>3 DEF q
    <3> HIDE DEF s1
    <3> QED
      BY <1>2, <2>1, <2>2, <2>3, <2>7, <3>1, <3>2, <3>4 DEF AddForms, AddKeeps
  <2> QED
    BY <2>4, <2>5, <2>6, <2>7
<1> QED
  BY <1>1, <1>2

\* _return_connection() closes the connection, or waits for _reset_connection(), or
\* puts it back if it is not too old
ReturnForms(t, c, n, st, s) ==
    \/ Replaces(t, c, n, s) \/ Resets(t, c, n, st, s)
    \/ c \notin old /\ AddForms(t, c, n, FALSE, s)

\* A connection that is closed is replaced
LEMMA ReplaceEffect ==
    ASSUME Types, NEW t \in Tasks, NEW c \in Conns, NEW n \in Nexts, NEW s,
           Replace(t, c, n, s)
    PROVE  Replaces(t, c, n, s)
  BY Names, BecomesClosed, MovesLeaving DEF Replace, Replaces

\* The end of _return_connection()
LEMMA FinishEffect ==
    ASSUME Shape, NEW t \in Tasks, NEW c \in Conns, NEW n \in Nexts, NEW st,
           NEW s \in Pools, s.waiting = self.waiting, loc[t].pc # "wait",
           FinishReturn(t, c, n, s)
    PROVE  ReturnForms(t, c, n, st, s)
BY ReplaceEffect, AddEffect DEF Shape, ReturnForms, FinishReturn

\* _return_connection()
LEMMA ReturnEffect ==
    ASSUME Shape, NEW t \in Tasks, NEW c \in Conns, NEW n \in Nexts, NEW st \in LiveStatus,
           NEW s \in Pools, s.waiting = self.waiting, loc[t].pc # "wait",
           ReturnConn(t, c, st, n, s)
    PROVE  ReturnForms(t, c, n, st, s)
<1>1. CASE Replace(t, c, n, s)
  BY <1>1, ReplaceEffect DEF Shape, ReturnForms
<1>2. CASE FinishReturn(t, c, n, s)
  BY <1>2, FinishEffect
<1>3. CASE /\ loc' = [loc EXCEPT ![t].pc = "reset", ![t].conn = c, ![t].next = n]
           /\ status' = [status EXCEPT ![c] = st] /\ self' = s /\ old' = old
  BY <1>3, Names, MovesConnNext, BecomesStatus DEF Shape, LiveStatus, ReturnForms, Resets
<1> QED
  BY <1>1, <1>2, <1>3 DEF ReturnConn

-----------------------------------------------------------------------------
(* The shape of the state is kept *)

\* One task, that does not wait, goes on
LEMMA MoveShape ==
    ASSUME Shape, Types', null' = null, NEW t \in Tasks,
           \A u \in Tasks : u # t => loc'[u] = loc[u],
           Fits(t, loc'[t]),
           \A u \in Clients :
              self'.lock = u <=> IF u = t THEN loc'[t].pc = "connect" ELSE self.lock = u,
           null => self'.pool = <<>>,
           self'.waiting \in {self.waiting, <<>>}, loc[t].pc # "wait",
           loc'[t].out \cap Clients \subseteq loc[t].out,
           self.closed => self'.closed, loc'[t].pc # "closing"
    PROVE  Shape'
<1>1. Placed'
  BY DEF Placed, Shape, Fits
<1>2. Locked'
  BY DEF Shape, Locked, Tasks
<1>3. \A i, j \in DOMAIN self'.waiting :
         self'.waiting[i] = self'.waiting[j] /\ self'.waiting[i] # Gone => i = j
  BY DEF Shape, Queued
<1>4. \A i \in DOMAIN self'.waiting :
         self'.waiting[i] # Gone => loc'[self'.waiting[i]].pc = "wait"
  <2> SUFFICES ASSUME NEW i \in DOMAIN self'.waiting, self'.waiting[i] # Gone
               PROVE  loc'[self'.waiting[i]].pc = "wait"
    OBVIOUS
  <2>1. self'.waiting = self.waiting
    OBVIOUS
  <2>2. loc[self.waiting[i]].pc = "wait"
    BY <2>1 DEF Shape, Queued
  <2>3. self.waiting[i] \in Clients
    BY <2>1, PoolFields DEF Shape, Types
  <2> QED
    BY <2>1, <2>2, <2>3 DEF Tasks
<1>5. \A u \in Tasks : \A c \in loc'[u].out \cap Clients :
         /\ loc'[c].pc = "wait"
         /\ \A i \in DOMAIN self'.waiting : self'.waiting[i] # c
  BY DEF Shape, Queued, Tasks
<1>6. /\ \A a \in Callers : loc'[a].pc = "closing" => self'.closed
      /\ \A a, b \in Callers : loc'[a].pc = "closing" /\ loc'[b].pc = "closing" => a = b
  BY DEF Tasks, Shape, Queued
<1> QED
  BY <1>1, <1>2, <1>3, <1>4, <1>5, <1>6 DEF Shape, Queued

\* Task t may go to n when it is done with its connection
Onward(t, n) ==
    /\ n \in Nexts
    /\ t \in Clients => n \in {"idle", "sleep"}
    /\ t \in Workers => n = "idle"
    /\ t \in Callers => n = "checking" /\ ~null /\ loc[t].out \subseteq Conns

\* Task t hands connection c on, to the pool in state s: it is self, or has a task less
Passing(t, c, n, s) ==
    /\ t \in Tasks /\ c \in Conns /\ Onward(t, n)
    /\ loc[t].pc # "wait" /\ (t \in Clients => loc[t].pc # "connect")
    /\ s \in Pools
    /\ s.closed = self.closed /\ s.lock = self.lock /\ s.pool = self.pool
    /\ s.waiting = self.waiting

\* The lock is that of a null pool
LEMMA LockOfNull ==
    ASSUME Shape, self.lock # NoTask
    PROVE  null
BY PoolFields DEF Shape, Types, Locked, Placed, Fits, Tasks

\* Every task has one role
LEMMA OneRole ==
    ASSUME NEW t \in Tasks
    PROVE  /\ t \in Clients \/ t \in Workers \/ t \in Callers
           /\ ~(t \in Clients /\ t \in Workers) /\ ~(t \in Clients /\ t \in Callers)
           /\ ~(t \in Workers /\ t \in Callers)
  BY AsyncAssumption DEF AsyncAssumption, Tasks

\* The local states that tasks go to fit them
LEMMA LeftFits ==
    ASSUME Shape, NEW t \in Tasks, NEW n, Onward(t, n), Left(t, n)
    PROVE  Fits(t, loc'[t])
BY OneRole DEF Shape, Placed, Fits, Left, Moved, Onward, ClientPCs, WorkerPCs, CallerPCs,
   Nexts, Holding

\* A task that waits with its connection, for a reset or the lock, fits what it does
LEMMA HolderFits ==
    ASSUME Shape, NEW t \in Tasks, NEW n, Onward(t, n), t \notin Callers, NEW c \in Conns,
           NEW p \in {"reset", "add"}, p = "add" => null,
           Moved(t, p, c, n, loc[t].out, loc[t].job)
    PROVE  Fits(t, loc'[t])
BY AsyncAssumption, OneRole DEF Shape, Placed, Fits, Moved, AsyncAssumption, Onward,
   ClientPCs, WorkerPCs, CallerPCs, Nexts, Holding

\* The types, when a connection and the pool change
LEMMA NextTypes ==
    ASSUME Types, UNCHANGED <<null, history>>, self' \in Pools,
           loc' \in [Tasks -> Locals], NEW c \in Conns, NEW st, Becomes(c, st)
    PROVE  Types'
  BY DEF Types, Becomes, history

\* _return_connection() keeps the shape
LEMMA PassShape ==
    ASSUME Shape, NEW t, NEW c, NEW n, NEW s, Passing(t, c, n, s),
           Left(t, n) \/ \E p \in {"reset", "add"} :
                            /\ t \notin Callers
                            /\ p = "add" => null
                            /\ Moved(t, p, c, n, loc[t].out, loc[t].job),
           UNCHANGED <<null, history>>, NEW st, Becomes(c, st),
           self' \in Pools, self'.closed = s.closed, self'.lock = s.lock,
           null => self'.pool = s.pool, self'.waiting \in {s.waiting, <<>>}
    PROVE  Shape'
<1>1. t \in Tasks /\ c \in Conns
  BY DEF Passing
<1>2. /\ loc' \in [Tasks -> Locals] /\ Fits(t, loc'[t])
      /\ \A u \in Tasks : u # t => loc'[u] = loc[u]
      /\ loc'[t].out = loc[t].out /\ loc'[t].pc \in Nexts \cup {"reset", "add"}
  <2>1. CASE Left(t, n)
    BY <1>1, <2>1, LeftFits DEF Passing, Left, Moved, Onward
  <2>2. CASE ~Left(t, n)
    BY <2>2, <1>1, HolderFits DEF Passing, Moved
  <2> QED
    BY <2>1, <2>2
<1>3. Types'
  BY <1>1, <1>2, NextTypes DEF Shape
<1>4. \A u \in Clients :
         self'.lock = u <=> IF u = t THEN loc'[t].pc = "connect" ELSE self.lock = u
  BY <1>2 DEF Passing, Shape, Locked, Nexts
<1>5. null => self'.pool = <<>>
  BY DEF Passing, Shape, Locked
<1>6. /\ null' = null /\ self'.waiting \in {self.waiting, <<>>} /\ loc[t].pc # "wait"
      /\ self.closed => self'.closed
  BY DEF Passing
<1>7. loc'[t].pc # "closing"
  BY <1>2 DEF Nexts
<1> QED
  BY <1>1, <1>2, <1>3, <1>4, <1>5, <1>6, <1>7, MoveShape

\* _add_to_pool() gives the connection to the first client in the queue
LEMMA GiveShape ==
    ASSUME Shape, NEW t, NEW c, NEW n, NEW s, Passing(t, c, n, s),
           NEW k \in Clients, k # t, Alive(s) # {}, k = s.waiting[First(s)],
           LeftGiving(t, n, k, c), UNCHANGED <<null, history>>, NEW st, Becomes(c, st),
           self' \in Pools, self'.closed = s.closed, self'.lock = s.lock,
           self'.pool = s.pool,
           self'.waiting = SubSeq(s.waiting, First(s) + 1, Len(s.waiting))
    PROVE  Shape'
<1> DEFINE f == First(self)
           w == self'.waiting
<1>1. t \in Tasks /\ c \in Conns /\ k \in Tasks /\ c # NoConn /\ Types
  BY AsyncAssumption DEF Passing, Tasks, AsyncAssumption, Shape
<1>2. /\ self.waiting = s.waiting /\ self \in Pools
      /\ Alive(self) # {} /\ f = First(s) /\ k = self.waiting[f]
  BY <1>1 DEF Passing, Alive, First, Types
<1>3. f \in 1 .. Len(self.waiting) /\ self.waiting \in Seq(Clients \cup {Gone})
  BY <1>2, FirstAlive, PoolFields
<1>4. /\ DOMAIN w \subseteq Nat
      /\ \A i \in DOMAIN w : /\ f + i \in DOMAIN self.waiting /\ w[i] = self.waiting[f + i]
                             /\ f + i # f
      /\ \A i, j \in DOMAIN w : f + i = f + j => i = j
  <2> DEFINE q == self.waiting
             m == f
  <2>1. q \in Seq(Clients \cup {Gone}) /\ m \in 1 .. Len(q) /\ Len(q) \in Nat
    BY <1>3
  <2>2. w = SubSeq(q, m + 1, Len(q))
    BY <1>2
  <2> HIDE DEF q, m, w
  <2>3. DOMAIN w = 1 .. (Len(q) - m) /\ \A i \in DOMAIN w : w[i] = q[m + i]
    BY <2>1, <2>2
  <2>4. \A i \in DOMAIN w : m + i \in DOMAIN q /\ m + i # m /\ i \in Nat
    BY <2>1, <2>3
  <2>5. \A i, j \in DOMAIN w : m + i = m + j => i = j
    BY <2>1, <2>4
  <2> QED
    BY <2>3, <2>4, <2>5 DEF q, m
<1> HIDE DEF f, w
<1>5. f \in DOMAIN self.waiting
  BY <1>3
<1>6. \A i, j \in DOMAIN self.waiting :
         self.waiting[i] = self.waiting[j] /\ self.waiting[i] # Gone => i = j
  BY DEF Shape, Queued
<1>7. k # Gone /\ loc[k].pc = "wait"
  <2>1. k # Gone
    BY AsyncAssumption DEF AsyncAssumption
  <2> QED
    BY <1>2, <1>5, <2>1 DEF Shape, Queued
<1>8. \A i \in DOMAIN w : w[i] # k
  BY <1>2, <1>4, <1>5, <1>6, <1>7
<1>9. /\ loc' \in [Tasks -> Locals] /\ loc'[t].pc = n /\ loc'[t].conn = NoConn
      /\ loc'[t].next = "idle" /\ loc'[t].out = loc[t].out
      /\ loc'[k].pc = "got" /\ loc'[k].conn = c /\ loc'[k].next = loc[k].next
      /\ loc'[k].out = loc[k].out
      /\ \A u \in Tasks : u # t /\ u # k => loc'[u] = loc[u]
  BY DEF LeftGiving
<1>10. Types'
  BY <1>1, <1>9, NextTypes
<1>11. Placed'
  <2> SUFFICES ASSUME NEW u \in Tasks PROVE Fits(u, loc[u])'
    BY DEF Placed
  <2>1. Fits(u, loc[u])
    BY DEF Shape, Placed
  <2>2. CASE u = t
    BY <1>1, <1>9, <2>1, <2>2, OneRole DEF Shape, Placed, Fits, Passing, Onward, ClientPCs,
       WorkerPCs, CallerPCs, Nexts, Holding
  <2>3. CASE u = k
    BY <1>1, <2>1, <2>3, OneRole, <1>9 DEF Fits, ClientPCs, Holding
  <2>4. CASE u # t /\ u # k
    <3>1. loc'[u] = loc[u]
      BY <1>9, <2>4
    <3> QED
      BY <2>1, <3>1 DEF Fits
  <2> QED
    BY <2>2, <2>3, <2>4
<1>12. Locked'
  <2> SUFFICES /\ \A u \in Clients : self'.lock = u <=> loc'[u].pc = "connect"
               /\ null => self'.pool = <<>>
    BY DEF Locked
  <2>1. self'.lock = self.lock /\ self'.pool = self.pool
    BY DEF Passing
  <2>2. ASSUME NEW u \in Clients
        PROVE  self'.lock = u <=> loc'[u].pc = "connect"
    BY <1>7, <1>9, <2>1 DEF Tasks, Shape, Locked, Passing, Onward, Nexts
  <2> QED
    BY <2>1, <2>2 DEF Shape, Locked
<1>13. \A u \in Clients : u # k /\ loc[u].pc = "wait" => loc'[u].pc = "wait"
  BY <1>9 DEF Passing, Tasks
<1>14. \A i, j \in DOMAIN w : w[i] = w[j] /\ w[i] # Gone => i = j
  BY <1>4, <1>6
<1>15. \A i \in DOMAIN w : w[i] # Gone => loc'[w[i]].pc = "wait"
  BY <1>4, <1>3, <1>8, <1>13 DEF Shape, Queued
<1>16. \A u \in Tasks : \A x \in loc'[u].out \cap Clients :
          loc'[x].pc = "wait" /\ \A i \in DOMAIN w : w[i] # x
  BY <1>9, <1>2, <1>5, <1>4, <1>13 DEF Shape, Queued
<1>17. /\ \A a \in Callers : loc'[a].pc = "closing" => self'.closed
       /\ \A a, b \in Callers : loc'[a].pc = "closing" /\ loc'[b].pc = "closing" => a = b
  <2>1. n # "closing" /\ self'.closed = self.closed
    BY DEF Passing, Onward, Nexts
  <2>2. \A a \in Callers : loc'[a].pc = "closing" => loc[a].pc = "closing"
    BY <1>9, <2>1 DEF Tasks
  <2> QED
    BY <2>1, <2>2 DEF Shape, Queued
<1> QED
  BY <1>10, <1>11, <1>12, <1>14, <1>15, <1>16, <1>17 DEF Shape, Queued, w

\* One task more, or less, at an end of the queue
LEMMA RunTaskFields ==
    ASSUME NEW s \in Pools, NEW j \in Jobs
    PROVE  LET r == RunTask(s, j)
           IN  /\ r \in Pools /\ r.tasks = Append(s.tasks, j)
               /\ r.closed = s.closed /\ r.lock = s.lock /\ r.pool = s.pool
               /\ r.waiting = s.waiting /\ r.nconns = s.nconns
               /\ r.nconnsMin = s.nconnsMin /\ r.growing = s.growing
               /\ r.minSize = s.minSize /\ r.maxSize = s.maxSize
               /\ r.event = s.event /\ r.delayed = s.delayed /\ r.shrinks = s.shrinks
<1> DEFINE q == Append(s.tasks, j)
<1>1. q \in Seq(Jobs)
  BY PoolFields, AppendType
<1>2. RunTask(s, j) = [s EXCEPT !.tasks = q]
  BY DEF RunTask
<1> HIDE DEF q
<1>3. LET r == [s EXCEPT !.tasks = q]
      IN  /\ r \in Pools /\ r.tasks = q
          /\ r.closed = s.closed /\ r.lock = s.lock /\ r.pool = s.pool
          /\ r.waiting = s.waiting /\ r.nconns = s.nconns
          /\ r.nconnsMin = s.nconnsMin /\ r.growing = s.growing
          /\ r.minSize = s.minSize /\ r.maxSize = s.maxSize
          /\ r.event = s.event /\ r.delayed = s.delayed /\ r.shrinks = s.shrinks
  BY <1>1 DEF Pools
<1> QED
  BY <1>2, <1>3 DEF q

\* A worker takes a task off the queue
LEMMA TakenFields ==
    ASSUME Types, self.tasks # <<>>
    PROVE  /\ Taken \in Pools /\ Taken.tasks = Tail(self.tasks)
           /\ Taken.closed = self.closed /\ Taken.lock = self.lock /\ Taken.pool = self.pool
           /\ Taken.waiting = self.waiting /\ Taken.nconns = self.nconns
           /\ Taken.nconnsMin = self.nconnsMin /\ Taken.growing = self.growing
           /\ Taken.minSize = self.minSize /\ Taken.maxSize = self.maxSize
           /\ Taken.event = self.event /\ Taken.delayed = self.delayed
           /\ Taken.shrinks = self.shrinks
           /\ Head(self.tasks) \in Jobs
<1>1. self \in Pools /\ self.tasks \in Seq(Jobs)
  BY PoolFields DEF Types
<1>2. Tail(self.tasks) \in Seq(Jobs) /\ Head(self.tasks) \in Jobs
  BY <1>1
<1> DEFINE q == Tail(self.tasks)
<1> HIDE DEF q
<1>3. Taken = [self EXCEPT !.tasks = q] /\ q \in Seq(Jobs)
  BY <1>2 DEF Taken, q
<1>4. /\ Taken \in Pools /\ Taken.tasks = q
      /\ Taken.closed = self.closed /\ Taken.lock = self.lock /\ Taken.pool = self.pool
      /\ Taken.waiting = self.waiting /\ Taken.nconns = self.nconns
      /\ Taken.nconnsMin = self.nconnsMin /\ Taken.growing = self.growing
      /\ Taken.minSize = self.minSize /\ Taken.maxSize = self.maxSize
      /\ Taken.event = self.event /\ Taken.delayed = self.delayed
      /\ Taken.shrinks = self.shrinks
  BY <1>1, <1>3 DEF Pools
<1> QED
  BY <1>2, <1>4 DEF q

\* _add_to_pool() and _return_connection() keep the shape
LEMMA AddShape ==
    ASSUME Shape, NEW t, NEW c, NEW n, NEW grow \in BOOLEAN, NEW s, Passing(t, c, n, s),
           UNCHANGED <<null, history>>, AddForms(t, c, n, grow, s)
    PROVE  Shape'
<1>0. s \in Pools /\ s.pool = self.pool /\ s.lock = self.lock
  BY DEF Passing
<1>1. CASE AddWaits(t, c, n, s)
  BY <1>1, <1>0, LockOfNull, PassShape DEF AddWaits, Passing, Onward
<1>2. CASE AddDrops(t, c, n, grow, s)
  <2>1. self' = Grown(s, grow) /\ Left(t, n) /\ Becomes(c, "absent")
    BY <1>2 DEF AddDrops
  <2>2. /\ self' \in Pools /\ self'.closed = s.closed /\ self'.lock = s.lock
        /\ self'.pool = s.pool /\ self'.waiting = s.waiting
    BY <1>0, <2>1, GrownFields
  <2> QED
    BY <2>1, <2>2, PassShape
<1>3. CASE AddCloses(t, c, n, grow, s)
  <2>1. PICK s1 : Alike(s, s1) /\ s1.waiting = <<>> /\ s1.pool = s.pool
                  /\ self' = Grown(s1, grow)
    BY <1>3 DEF AddCloses
  <2>2. Left(t, n) /\ Becomes(c, "absent")
    BY <1>3 DEF AddCloses
  <2>3. s1 \in Pools /\ s1.closed = s.closed /\ s1.lock = s.lock
    BY <2>1 DEF Alike
  <2>4. /\ self' \in Pools /\ self'.closed = s.closed /\ self'.lock = s.lock
        /\ self'.pool = s.pool /\ self'.waiting = <<>>
    BY <2>1, <2>3, GrownFields
  <2> QED
    BY <2>2, <2>4, PassShape
<1>4. CASE AddKeeps(t, c, n, grow, s)
  <2>1. PICK s1 : Alike(s, s1) /\ s1.waiting = <<>> /\ self' = Grown(s1, grow)
    BY <1>4 DEF AddKeeps
  <2>2. Left(t, n) /\ Becomes(c, "idle") /\ ~null
    BY <1>4 DEF AddKeeps
  <2>3. s1 \in Pools /\ s1.closed = s.closed /\ s1.lock = s.lock
    BY <2>1 DEF Alike
  <2>4. /\ self' \in Pools /\ self'.closed = s.closed /\ self'.lock = s.lock
        /\ self'.waiting = <<>>
    BY <2>1, <2>3, GrownFields
  <2> QED
    BY <2>2, <2>4, PassShape
<1>5. CASE AddGives(t, c, n, grow, s)
  <2>1. PICK k \in Clients, s1 \in Pools :
          /\ k # t /\ Alive(s) # {} /\ k = s.waiting[First(s)]
          /\ Alike(s, s1) /\ s1.pool = s.pool
          /\ s1.waiting = SubSeq(s.waiting, First(s) + 1, Len(s.waiting))
          /\ self' = Grown(s1, grow) /\ LeftGiving(t, n, k, c)
    BY <1>5 DEF AddGives
  <2>2. Becomes(c, "idle")
    BY <1>5 DEF AddGives
  <2>3. s1 \in Pools /\ s1.closed = s.closed /\ s1.lock = s.lock
    BY <2>1 DEF Alike
  <2>4. /\ self' \in Pools /\ self'.closed = s.closed /\ self'.lock = s.lock
        /\ self'.pool = s.pool
        /\ self'.waiting = SubSeq(s.waiting, First(s) + 1, Len(s.waiting))
    BY <2>1, <2>3, GrownFields
  <2> QED
    BY <2>1, <2>2, <2>4, GiveShape
<1> QED
  BY <1>1, <1>2, <1>3, <1>4, <1>5 DEF AddForms

\* Replacing a connection keeps the shape
LEMMA ReplaceShape ==
    ASSUME Shape, NEW t, NEW c, NEW n, NEW s, Passing(t, c, n, s),
           UNCHANGED <<null, history>>, Replaces(t, c, n, s)
    PROVE  Shape'
<1>1. self' = RunTask(s, NewConnection) /\ Left(t, n) /\ Becomes(c, "absent")
  BY DEF Replaces
<1>2. s \in Pools /\ NewConnection \in Jobs
  BY JobTypes DEF Passing
<1>3. /\ self' \in Pools /\ self'.closed = s.closed /\ self'.lock = s.lock
      /\ self'.pool = s.pool /\ self'.waiting = s.waiting
  BY <1>1, <1>2, RunTaskFields
<1> QED
  BY <1>1, <1>3, PassShape

\* So does returning one
LEMMA ReturnShape ==
    ASSUME Shape, NEW t, NEW c, NEW n, NEW s, Passing(t, c, n, s), t \notin Callers,
           UNCHANGED <<null, history>>, NEW st, ReturnForms(t, c, n, st, s)
    PROVE  Shape'
<1>1. CASE Replaces(t, c, n, s)
  BY <1>1, ReplaceShape
<1>2. CASE Resets(t, c, n, st, s)
  BY <1>2, PassShape DEF Resets, Passing
<1>3. CASE AddForms(t, c, n, FALSE, s)
  BY <1>3, AddShape
<1> QED
  BY <1>1, <1>2, <1>3 DEF ReturnForms

(* The actions that pass a connection on *)

\* Client c gives its connection to the workers
Queues(t, c, n, st) ==
    /\ self' = RunTask(self, ReturnConnection(c))
    /\ Left(t, n) /\ Becomes(c, st)

\* Who may pass a connection on
LEMMA HandPassing ==
    ASSUME Shape, NEW t \in Tasks, NEW n, Onward(t, n),
           loc[t].pc \in {"check", "use", "putlock", "reset", "add", "checked"}
    PROVE  Passing(t, loc[t].conn, n, self)
BY LocalFields DEF Shape, Types, Placed, Fits, Holding, Passing

\* _putconn() queues the connection, or returns it
LEMMA PutBackEffect ==
    ASSUME Shape, NEW c \in Clients, loc[c].pc \in {"check", "use", "putlock"},
           NEW st \in Leaves, NEW n \in {"idle", "sleep"}, PutBack(c, st, n)
    PROVE  /\ Passing(c, loc[c].conn, n, self) /\ st \in LiveStatus
           /\ \/ Queues(c, loc[c].conn, n, st)
              \/ ReturnForms(c, loc[c].conn, n, st, self)
<1>1. c \in Tasks /\ st \in LiveStatus
  BY AsyncAssumption DEF AsyncAssumption, LiveStatus, Tasks
<1>2. Onward(c, n)
  BY <1>1, OneRole DEF Onward, Nexts
<1>3. Passing(c, loc[c].conn, n, self)
  BY <1>1, <1>2, HandPassing
<1>4. CASE HasReset
  BY <1>4, <1>1, Names, MovesLeaving, <1>3, BecomesStatus DEF PutBack, Shape, Passing,
     LiveStatus, Queues
<1>5. CASE ~HasReset
  BY <1>5, <1>3, <1>1, ReturnEffect DEF PutBack, Passing, Onward
<1> QED
  BY <1>4, <1>5

\* _reset_connection() is done
LEMMA ResetEffect ==
    ASSUME Shape, NEW t \in Tasks, Reset(t)
    PROVE  /\ Passing(t, loc[t].conn, loc[t].next, self) /\ t \notin Callers
           /\ ReturnForms(t, loc[t].conn, loc[t].next, "idle", self)
<1>1. loc[t].pc = "reset"
  BY DEF Reset
<1>2. t \notin Callers /\ Onward(t, loc[t].next)
  BY LocalFields, <1>1, OneRole DEF Shape, Placed, Types, Fits, Onward, Nexts, CallerPCs
<1>3. Passing(t, loc[t].conn, loc[t].next, self)
  BY <1>1, <1>2, HandPassing
<1>4. loc[t].conn \in Conns /\ loc[t].next \in Nexts /\ self \in Pools
  BY <1>3 DEF Passing, Onward
<1>5. \/ FinishReturn(t, loc[t].conn, loc[t].next, self)
      \/ Replace(t, loc[t].conn, loc[t].next, self)
  BY DEF Reset
<1>6. CASE FinishReturn(t, loc[t].conn, loc[t].next, self)
  BY <1>1, <1>2, <1>3, <1>4, <1>6, FinishEffect
<1>7. CASE Replace(t, loc[t].conn, loc[t].next, self)
  BY <1>2, <1>3, <1>4, <1>7, ReplaceEffect DEF Shape, ReturnForms
<1> QED
  BY <1>5, <1>6, <1>7

\* _add_to_pool() gets the lock
LEMMA AddLockedEffect ==
    ASSUME Shape, NEW t \in Tasks, AddLocked(t)
    PROVE  /\ Passing(t, loc[t].conn, loc[t].next, self) /\ null
           /\ AddForms(t, loc[t].conn, loc[t].next, FALSE, self)
<1>1. loc[t].pc = "add" /\ AddToPool(t, loc[t].conn, loc[t].next, FALSE, self)
  BY DEF AddLocked
<1>2. t \notin Callers /\ Onward(t, loc[t].next) /\ null
  BY LocalFields, <1>1, OneRole DEF Shape, Placed, Types, Fits, Onward, Nexts, CallerPCs
<1>3. Passing(t, loc[t].conn, loc[t].next, self)
  BY <1>1, <1>2, HandPassing
<1>4. loc[t].conn \in Conns /\ loc[t].next \in Nexts /\ self \in Pools
  BY <1>3 DEF Passing, Onward
<1> QED
  BY <1>1, <1>2, <1>3, <1>4, AddEffect

\* A worker returns the connection of its task
LEMMA WorkerReturnEffect ==
    ASSUME Shape, NEW w \in Workers, WorkerReturn(w), NEW c, c = Head(self.tasks).conn
    PROVE  /\ Passing(w, c, "idle", Taken) /\ w \notin Callers
           /\ status[c] # "absent" =>
                 status[c] \in LiveStatus /\ ReturnForms(w, c, "idle", status[c], Taken)
<1>1. /\ loc[w].pc = "idle" /\ self.tasks # <<>> /\ Head(self.tasks).kind = "return"
      /\ ReturnConn(w, c, status[c], "idle", Taken)
  BY DEF WorkerReturn, Take
<1>2. w \in Tasks /\ w \notin Callers /\ w \notin Clients
  BY OneRole DEF Tasks
<1>3. c \in Conns /\ Taken \in Pools /\ Taken.waiting = self.waiting
  BY <1>1, TakenFields, JobFields DEF Shape
<1>4. Passing(w, c, "idle", Taken)
  BY <1>1, <1>2, <1>3, TakenFields DEF Passing, Onward, Nexts, Shape
<1>5. status[c] # "absent" => status[c] \in LiveStatus
  BY <1>3 DEF Shape, Types
<1>6. status[c] # "absent" => ReturnForms(w, c, "idle", status[c], Taken)
  BY <1>1, <1>2, <1>3, <1>5, ReturnEffect DEF Nexts
<1> QED
  BY <1>2, <1>4, <1>5, <1>6

\* A worker has made a connection
LEMMA ConnectedEffect ==
    ASSUME Shape, NEW w \in Workers, NEW k \in Conns, Connected(w, k)
    PROVE  /\ Passing(w, k, "idle", self) /\ loc[w].job.growing \in BOOLEAN
           /\ AddForms(w, k, "idle", loc[w].job.growing, self)
BY OneRole, LocalFields, AddFields, AddEffect DEF Connected, Tasks, Shape, Types, Passing,
   Onward, Nexts

\* check() keeps a connection or replaces it
LEMMA CheckedEffect ==
    ASSUME Shape, NEW a \in Callers, Checked(a)
    PROVE  /\ Passing(a, loc[a].conn, "checking", self) /\ ~null
           /\ \/ Replaces(a, loc[a].conn, "checking", self)
              \/ AddForms(a, loc[a].conn, "checking", FALSE, self)
<1>1. loc[a].pc = "checked"
  BY DEF Checked
<1>2. a \in Tasks /\ a \notin Clients /\ a \notin Workers
  BY OneRole DEF Tasks
<1>3. Onward(a, "checking") /\ ~null
  BY <1>1, <1>2 DEF Shape, Placed, Fits, Onward, Nexts
<1>4. Passing(a, loc[a].conn, "checking", self)
  BY <1>1, <1>2, <1>3, HandPassing
<1>5. loc[a].conn \in Conns /\ "checking" \in Nexts /\ self \in Pools
  BY <1>4 DEF Passing, Onward
<1>6. \/ Replace(a, loc[a].conn, "checking", self)
      \/ AddToPool(a, loc[a].conn, "checking", FALSE, self)
  BY DEF Checked
<1>7. CASE Replace(a, loc[a].conn, "checking", self)
  BY <1>2, <1>3, <1>4, <1>5, <1>7, ReplaceEffect DEF Shape
<1>8. CASE AddToPool(a, loc[a].conn, "checking", FALSE, self)
  BY <1>1, <1>2, <1>5, <1>8, AddEffect, <1>3, <1>4
<1> QED
  BY <1>6, <1>7, <1>8

\* putconn() closes the connection
Closes(t, c) ==
    /\ Left(t, "idle") /\ Becomes(c, "absent")
    /\ self' \in Pools
    /\ self'.closed = self.closed /\ self'.lock = self.lock /\ self'.pool = self.pool
    /\ self'.waiting = self.waiting /\ self'.growing = self.growing
    /\ self'.minSize = self.minSize /\ self'.maxSize = self.maxSize
    /\ self'.event = self.event /\ self'.tasks = self.tasks
    /\ self'.delayed = self.delayed

\* putconn()
LEMMA PutConnEffect ==
    ASSUME Shape, NEW c \in Clients, NEW st \in Leaves, PutConn(c, st)
    PROVE  /\ Passing(c, loc[c].conn, "idle", self) /\ loc[c].pc = "use" /\ ~null
           /\ \/ Closes(c, loc[c].conn) /\ self'.nconns = self.nconns /\ self.closed
              \/ st \in LiveStatus /\ Queues(c, loc[c].conn, "idle", st)
              \/ st \in LiveStatus /\ ReturnForms(c, loc[c].conn, "idle", st, self)
<1>1. loc[c].pc = "use" /\ c \in Tasks /\ ~null
  BY DEF PutConn, Tasks
<1>2. CASE self.closed
  BY <1>2, <1>1, OneRole, HandPassing, Names, MovesLeaving, BecomesClosed DEF PutConn, Onward,
     Nexts, Shape, Passing, Types, Closes
<1>3. CASE ~self.closed
  BY <1>1, <1>3, PutBackEffect DEF PutConn
<1> QED
  BY <1>2, <1>3

\* putconn() of a null pool, with the lock
LEMMA NullPutEffect ==
    ASSUME Shape, NEW c \in Clients, loc[c].pc \in {"use", "putlock"}, NEW st \in Leaves,
           NullPut(c, st)
    PROVE  /\ Passing(c, loc[c].conn, "idle", self) /\ self.lock = NoTask
           /\ \/ Closes(c, loc[c].conn) /\ self'.nconns = self.nconns - 1
              \/ st \in LiveStatus /\ Queues(c, loc[c].conn, "idle", st)
              \/ st \in LiveStatus /\ ReturnForms(c, loc[c].conn, "idle", st, self)
<1>1. c \in Tasks /\ self.lock = NoTask
  BY DEF NullPut, Tasks
<1>2. CASE ~(~self.closed /\ self.waiting # <<>>)
  <2>1. /\ Close({loc[c].conn}) /\ loc' = Leaving(c, "idle")
        /\ self' = [self EXCEPT !.nconns = @ - 1]
    BY <1>2 DEF NullPut
  <2>2. Onward(c, "idle")
    BY <1>1, OneRole DEF Onward, Nexts
  <2>3. Passing(c, loc[c].conn, "idle", self)
    BY <1>1, <2>2, HandPassing
  <2>4. Left(c, "idle")
    BY <1>1, <2>1, Names, MovesLeaving DEF Shape
  <2>5. Becomes(loc[c].conn, "absent")
    BY <2>1, <2>3, BecomesClosed DEF Shape, Passing
  <2>6. self \in Pools /\ self.nconns - 1 \in Int
    BY PoolFields DEF Shape, Types
  <2>7. /\ self' \in Pools /\ self'.nconns = self.nconns - 1
        /\ self'.closed = self.closed /\ self'.lock = self.lock /\ self'.pool = self.pool
        /\ self'.waiting = self.waiting /\ self'.growing = self.growing
        /\ self'.minSize = self.minSize /\ self'.maxSize = self.maxSize
        /\ self'.event = self.event /\ self'.tasks = self.tasks
        /\ self'.delayed = self.delayed
    BY <2>1, <2>6 DEF Pools
  <2>8. Closes(c, loc[c].conn) /\ self'.nconns = self.nconns - 1
    BY <2>4, <2>5, <2>7 DEF Closes
  <2> QED
    BY <1>1, <2>3, <2>8
<1>3. CASE ~self.closed /\ self.waiting # <<>>
  BY <1>1, <1>3, PutBackEffect DEF NullPut
<1> QED
  BY <1>2, <1>3

\* They keep the shape
LEMMA QueueShape ==
    ASSUME Shape, NEW t, NEW c, NEW n, Passing(t, c, n, self),
           UNCHANGED <<null, history>>, NEW st, Queues(t, c, n, st)
    PROVE  Shape'
BY JobTypes, RunTaskFields, PassShape DEF Queues, Passing

\* A client closes its connection
LEMMA CloseShape ==
    ASSUME Shape, NEW t, NEW c, Passing(t, c, "idle", self), t \notin Callers,
           UNCHANGED <<null, history>>, Closes(t, c)
    PROVE  Shape'
  BY PassShape DEF Closes

(* The other actions *)

\* The pool may grow
LEMMA GrowFields ==
    ASSUME Types, NEW s \in Pools
    PROVE  LET g == MaybeGrow(s)
           IN  /\ g \in Pools
               /\ g.closed = s.closed /\ g.lock = s.lock /\ g.pool = s.pool
               /\ g.waiting = s.waiting /\ g.nconnsMin = s.nconnsMin
               /\ g.minSize = s.minSize /\ g.maxSize = s.maxSize /\ g.event = s.event
               /\ g.delayed = s.delayed /\ g.shrinks = s.shrinks
               /\ \/ g.nconns = s.nconns /\ g.growing = s.growing /\ g.tasks = s.tasks
                  \/ /\ ~null /\ s.nconns < s.maxSize /\ ~s.growing
                     /\ g.nconns = s.nconns + 1 /\ g.growing
                     /\ g.tasks = Append(s.tasks, AddConnection(TRUE, 0))
<1> DEFINE a == [s EXCEPT !.nconns = @ + 1, !.growing = TRUE]
           b == RunTask(a, AddConnection(TRUE, 0))
<1>1. s.nconns \in Int /\ s.maxSize \in Nat /\ AddConnection(TRUE, 0) \in Jobs
  BY PoolFields, JobTypes
<1>2. s.nconns + 1 \in Int /\ Append(s.tasks, AddConnection(TRUE, 0)) \in Seq(Jobs)
  <2>1. s.nconns + 1 \in Int
    BY <1>1
  <2>2. Append(s.tasks, AddConnection(TRUE, 0)) \in Seq(Jobs)
    BY <1>1, PoolFields, AppendType
  <2> QED
    BY <2>1, <2>2
<1>3. /\ a \in Pools /\ a.nconns = s.nconns + 1 /\ a.tasks = s.tasks /\ a.growing
      /\ a.closed = s.closed /\ a.lock = s.lock /\ a.pool = s.pool
      /\ a.waiting = s.waiting /\ a.nconnsMin = s.nconnsMin
      /\ a.minSize = s.minSize /\ a.maxSize = s.maxSize /\ a.event = s.event
      /\ a.delayed = s.delayed /\ a.shrinks = s.shrinks
  BY <1>2 DEF Pools
<1> HIDE DEF a
<1>4. /\ b \in Pools /\ b.tasks = Append(s.tasks, AddConnection(TRUE, 0))
      /\ b.closed = s.closed /\ b.lock = s.lock /\ b.pool = s.pool
      /\ b.waiting = s.waiting /\ b.nconnsMin = s.nconnsMin /\ b.growing
      /\ b.minSize = s.minSize /\ b.maxSize = s.maxSize /\ b.event = s.event
      /\ b.delayed = s.delayed /\ b.shrinks = s.shrinks /\ b.nconns = s.nconns + 1
  BY <1>2, <1>3 DEF Pools, RunTask
<1> HIDE DEF b
<1>5. CASE null \/ s.nconns >= s.maxSize \/ s.growing
  BY <1>5 DEF MaybeGrow
<1>6. CASE ~(null \/ s.nconns >= s.maxSize \/ s.growing)
  <2>1. MaybeGrow(s) = b
    BY <1>6 DEF MaybeGrow, a, b
  <2>2. ~null /\ ~s.growing /\ s.nconns < s.maxSize
    BY <1>1, <1>6
  <2> QED
    BY <1>4, <2>1, <2>2
<1> QED
  BY <1>5, <1>6

\* One task goes on, and the pool stays as it is or is updated
LEMMA SoloShape ==
    ASSUME Shape, UNCHANGED <<null, connVars>>,
           leaked' \in Nat /\ calls' \in SUBSET Methods /\ cancels' \in Nat,
           NEW t \in Tasks, NEW p, NEW c, NEW n, NEW o, NEW j, Moved(t, p, c, n, o, j),
           Fits(t, loc'[t]), self' \in Pools,
           \A u \in Clients :
              self'.lock = u <=> IF u = t THEN p = "connect" ELSE self.lock = u,
           null => self'.pool = <<>>,
           self'.waiting \in {self.waiting, <<>>}, loc[t].pc # "wait",
           o \cap Clients \subseteq loc[t].out,
           self.closed => self'.closed, p # "closing"
    PROVE  Shape'
<1>1. Types'
  BY DEF Shape, Types, Moved, connVars
<1> QED
  BY <1>1, MoveShape DEF Moved

\* The variables that only count keep their types
LEMMA HistoryTypes ==
    ASSUME Types
    PROVE  /\ UNCHANGED history => leaked' \in Nat /\ calls' \in SUBSET Methods /\ cancels' \in Nat
           /\ UNCHANGED <<leaked, calls>> /\ Cancelled =>
                leaked' \in Nat /\ calls' \in SUBSET Methods /\ cancels' \in Nat
           /\ \A a, m : Calling(a, m) /\ UNCHANGED <<leaked, cancels>> =>
                leaked' \in Nat /\ calls' \in SUBSET Methods /\ cancels' \in Nat
  BY DEF Types, history, Cancelled, Calling

\* A client's step that ends no wait keeps the shape
LEMMA ClientShape ==
    ASSUME Shape, NEW c \in Clients,
           \/ GetBlocked(c) \/ GetReady(c) \/ NullConnect(c)
           \/ \E k \in Conns : NullConnected(c, k)
           \/ NullConnectFailed(c) \/ GetTooMany(c) \/ WaitGot(c) \/ WaitFailed(c)
           \/ GetInterrupted(c) \/ CheckGood(c)
    PROVE  Shape'
<1> DEFINE l == loc[c]
<1>1. /\ c \in Tasks /\ Types /\ self \in Pools /\ l \in Locals /\ Fits(c, l)
      /\ c \notin Callers /\ c \notin Workers /\ l.out = {}
      /\ (self.lock = c <=> l.pc = "connect") /\ null \in BOOLEAN
  <2>1. c \in Tasks
    BY DEF Tasks
  <2> QED
    BY <2>1, OneRole DEF Shape, Types, Placed, Fits, Locked
<1>2. NoTask # c
  BY <1>1, AsyncAssumption DEF AsyncAssumption
<1>3. \A n \in {"idle", "sleep"} : Left(c, n) => Fits(c, loc'[c])
  BY <1>1, LeftFits DEF Onward, Nexts
<1>4. ASSUME GetBlocked(c) PROVE Shape'
  BY <1>4, <1>1, Names, MovesPc, HistoryTypes, SoloShape DEF GetBlocked, Fits, Holding, Moved,
     ClientPCs, Shape, Locked
<1>5. ASSUME GetReady(c) PROVE Shape'
  <2>1. /\ self.lock = NoTask /\ self.pool # <<>> /\ l.pc \in {"idle", "sleep", "lock"}
        /\ UNCHANGED <<null, connVars, history>>
    BY <1>5 DEF GetReady, Asking
  <2>2. ~null
    BY <2>1 DEF Shape, Locked
  <2> DEFINE left == Tail(self.pool)
             m == IF Len(left) < self.nconnsMin THEN Len(left) ELSE self.nconnsMin
             p == IF HasCheck THEN "check" ELSE "use"
             h == Head(self.pool)
  <2>3. /\ self' = [self EXCEPT !.pool = left, !.nconnsMin = m]
        /\ loc' = [loc EXCEPT ![c].pc = p, ![c].conn = h]
    BY <1>5 DEF GetReady
  <2>4. self.pool \in Seq(Conns) /\ self.nconnsMin \in Int
    BY <1>1, PoolFields
  <2>5. left \in Seq(Conns) /\ h \in Conns /\ m \in Int
    BY <2>1, <2>4
  <2>6. p \in PCs /\ p \in {"check", "use"}
    BY DEF PCs
  <2> HIDE DEF left, m, p, h
  <2>7. Moved(c, p, h, l.next, l.out, l.job)
    BY <1>1, <2>3, <2>5, <2>6, MovesConn
  <2>8. /\ self' \in Pools /\ self'.lock = self.lock /\ self'.closed = self.closed
        /\ self'.waiting = self.waiting
    BY <1>1, <2>3, <2>5 DEF Pools
  <2>9. h # NoConn
    BY <2>5, AsyncAssumption DEF AsyncAssumption
  <2>10. Fits(c, loc'[c])
    BY <1>1, <2>6, <2>7, <2>9 DEF Fits, Moved, ClientPCs, Holding
  <2>11. p # "connect" /\ p # "closing" /\ l.pc # "wait" /\ l.pc # "connect"
    BY <2>1, <2>6
  <2>12. l.out \cap Clients \subseteq loc[c].out
    OBVIOUS
  <2>13. \A u \in Clients :
           self'.lock = u <=> IF u = c THEN p = "connect" ELSE self.lock = u
    BY <1>1, <2>8, <2>11
  <2> QED
    BY <1>1, <2>1, <2>2, <2>7, <2>8, <2>10, <2>11, <2>12, <2>13, HistoryTypes, SoloShape
<1>6. ASSUME NullConnect(c) PROVE Shape'
  <2>1. /\ self.lock = NoTask /\ l.pc \in {"idle", "sleep", "lock"} /\ null
        /\ self' = [self EXCEPT !.lock = c] /\ loc' = GoTo(c, "connect")
        /\ UNCHANGED <<null, connVars, history>>
    BY <1>6 DEF NullConnect, Asking
  <2>2. Moved(c, "connect", l.conn, l.next, l.out, l.job)
    BY <1>1, <2>1, Names, MovesPc
  <2>3. l.conn = NoConn
    BY <1>1, <2>1 DEF Fits, Holding
  <2>4. Fits(c, loc'[c])
    BY <1>1, <2>1, <2>2, <2>3 DEF Fits, Moved, ClientPCs, Holding
  <2>5. /\ self' \in Pools /\ self'.lock = c /\ self'.closed = self.closed
        /\ self'.waiting = self.waiting /\ self'.pool = self.pool
    BY <1>1, <2>1 DEF Pools
  <2>6. \A u \in Clients :
           self'.lock = u <=> IF u = c THEN "connect" = "connect" ELSE self.lock = u
    BY AsyncAssumption, <2>1, <2>5 DEF AsyncAssumption, Tasks
  <2> QED
    BY <1>1, <2>1, <2>2, <2>4, <2>5, <2>6, HistoryTypes, SoloShape DEF Shape, Locked
<1>7. ASSUME NEW k \in Conns, NullConnected(c, k) PROVE Shape'
  <2> DEFINE p == IF HasCheck THEN "check" ELSE "use"
  <2>1. /\ l.pc = "connect" /\ status' = [status EXCEPT ![k] = "idle"] /\ old' = old
        /\ self' = [self EXCEPT !.lock = NoTask, !.nconns = @ + 1]
        /\ loc' = [loc EXCEPT ![c].pc = p, ![c].conn = k]
        /\ UNCHANGED <<null, history>>
    BY <1>7 DEF NullConnected
  <2>2. p \in PCs /\ p \in {"check", "use"}
    BY DEF PCs
  <2> HIDE DEF p
  <2>3. Moved(c, p, k, l.next, l.out, l.job)
    BY <1>1, <2>1, <2>2, MovesConn
  <2>4. self.nconns + 1 \in Int
    <3>1. self.nconns \in Int
      BY <1>1, PoolFields
    <3> QED
      BY <3>1
  <2>5. /\ self' \in Pools /\ self'.lock = NoTask /\ self'.closed = self.closed
        /\ self'.waiting = self.waiting /\ self'.pool = self.pool
    BY <1>1, <2>1, <2>4 DEF Pools
  <2>6. k # NoConn
    BY AsyncAssumption DEF AsyncAssumption
  <2>7. Fits(c, loc'[c])
    BY <1>1, <2>1, <2>2, <2>3, <2>6 DEF Fits, Moved, ClientPCs, Holding
  <2>8. Becomes(k, "idle")
    BY <1>1, <2>1, BecomesStatus DEF LiveStatus
  <2>9. Types'
    BY <1>1, <2>1, <2>3, <2>5, <2>8, NextTypes DEF Moved
  <2>10. \A u \in Clients :
           self'.lock = u <=> IF u = c THEN loc'[c].pc = "connect" ELSE self.lock = u
    BY AsyncAssumption, <1>1, <2>1, <2>2, <2>3, <2>5 DEF AsyncAssumption, Tasks, Moved
  <2>11. /\ loc'[c].out = l.out /\ loc'[c].pc # "closing" /\ l.pc # "wait"
         /\ \A u \in Tasks : u # c => loc'[u] = loc[u]
    BY <2>1, <2>2, <2>3 DEF Moved
  <2>12. null => self'.pool = <<>>
    BY <2>5 DEF Shape, Locked
  <2>13. null' = null /\ (self.closed => self'.closed) /\ self'.waiting \in {self.waiting, <<>>}
         /\ loc'[c].out \cap Clients \subseteq loc[c].out
    BY <2>1, <2>5, <2>11
  <2> QED
    BY <1>1, <2>7, <2>9, <2>10, <2>11, <2>12, <2>13, MoveShape
<1>8. ASSUME NullConnectFailed(c) PROVE Shape'
  <2>1. /\ l.pc = "connect" /\ self' = [self EXCEPT !.lock = NoTask]
        /\ loc' = Leaving(c, "idle") /\ UNCHANGED <<null, connVars, history>>
    BY <1>8 DEF NullConnectFailed
  <2>2. Left(c, "idle")
    BY <1>1, <2>1, Names, MovesLeaving
  <2>3. /\ self' \in Pools /\ self'.lock = NoTask /\ self'.closed = self.closed
        /\ self'.waiting = self.waiting /\ self'.pool = self.pool
    BY <1>1, <2>1 DEF Pools
  <2>4. \A u \in Clients :
           self'.lock = u <=> IF u = c THEN "idle" = "connect" ELSE self.lock = u
    BY AsyncAssumption, <1>1, <2>1, <2>3 DEF AsyncAssumption, Tasks
  <2>5. Fits(c, loc'[c])
    BY <1>3, <2>2
  <2>6. null => self'.pool = <<>>
    BY <2>3 DEF Shape, Locked
  <2> QED
    BY <1>1, <2>1, <2>2, <2>3, <2>4, <2>5, <2>6, HistoryTypes, SoloShape DEF Left
<1>9. ASSUME loc' = Leaving(c, "idle"), self' = self, l.pc \notin {"wait", "connect"},
             UNCHANGED <<null, connVars>>,
             leaked' \in Nat /\ calls' \in SUBSET Methods /\ cancels' \in Nat
      PROVE  Shape'
  <2>1. Left(c, "idle")
    BY <1>1, <1>9, Names, MovesLeaving
  <2>2. Fits(c, loc'[c])
    BY <1>3, <2>1
  <2>3. null => self'.pool = <<>>
    BY <1>9 DEF Shape, Locked
  <2>4. \A u \in Clients :
           self'.lock = u <=> IF u = c THEN "idle" = "connect" ELSE self.lock = u
    BY <1>1, <1>9
  <2> QED
    BY <1>1, <1>9, <2>1, <2>2, <2>3, <2>4, SoloShape DEF Left
<1>10. ASSUME GetTooMany(c) PROVE Shape'
  BY <1>1, <1>9, <1>10, HistoryTypes DEF GetTooMany, Asking
<1>11. ASSUME WaitFailed(c) PROVE Shape'
  BY <1>1, <1>9, <1>11, HistoryTypes DEF WaitFailed
<1>12. ASSUME GetInterrupted(c) PROVE Shape'
  BY <1>1, <1>9, <1>12, HistoryTypes DEF GetInterrupted
<1>13. ASSUME WaitGot(c) PROVE Shape'
  <2> DEFINE p == IF HasCheck THEN "check" ELSE "use"
  <2>1. /\ l.pc = "got" /\ loc' = [loc EXCEPT ![c] = At(p, l.conn, "idle")]
        /\ self' = self /\ UNCHANGED <<null, connVars, history>>
    BY <1>13 DEF WaitGot
  <2>2. p \in PCs /\ p \in {"check", "use"} /\ l.conn \in Conns \cup {NoConn} /\ l.conn # NoConn
    BY <1>1, <2>1, LocalFields DEF PCs, Fits, Holding
  <2> HIDE DEF p
  <2>3. Restarted(c, p, l.conn)
    BY <1>1, <2>1, <2>2, MovesRestarted
  <2>4. Fits(c, loc'[c])
    BY <1>1, <2>2, <2>3 DEF Restarted, Fits, Moved, ClientPCs, Holding
  <2>5. \A u \in Clients :
           self'.lock = u <=> IF u = c THEN p = "connect" ELSE self.lock = u
    BY <1>1, <2>1, <2>2
  <2>6. p # "closing" /\ (null => self'.pool = <<>>) /\ {} \cap Clients \subseteq l.out
    BY <2>1, <2>2 DEF Shape, Locked
  <2> QED
    BY <1>1, <2>1, <2>3, <2>4, <2>5, <2>6, HistoryTypes, SoloShape DEF Restarted
<1>14. ASSUME CheckGood(c) PROVE Shape'
  BY <1>14, <1>1, Names, MovesPc, HistoryTypes, SoloShape DEF CheckGood, Fits, Moved,
     ClientPCs, Holding, Shape, Locked
<1> QED
  BY <1>4, <1>5, <1>6, <1>7, <1>8, <1>10, <1>11, <1>12, <1>13, <1>14

\* So does the one in which it queues itself
LEMMA QueueUpShape ==
    ASSUME Shape, NEW c \in Clients, GetQueue(c)
    PROVE  Shape'
<1> DEFINE l == loc[c]
           q == Append(self.waiting, c)
           s == [self EXCEPT !.waiting = q]
<1>1. /\ self.lock = NoTask /\ l.pc \in {"idle", "sleep", "lock"}
      /\ self' = MaybeGrow(s) /\ loc' = [loc EXCEPT ![c].pc = "wait", ![c].next = l.pc]
      /\ UNCHANGED <<null, connVars, history>>
  BY DEF GetQueue, Asking
<1>2. /\ c \in Tasks /\ Types /\ self \in Pools /\ Fits(c, l)
      /\ self.waiting \in Seq(Clients \cup {Gone}) /\ c \notin Callers /\ c \notin Workers
  <2>1. c \in Tasks
    BY DEF Tasks
  <2> QED
    BY <2>1, OneRole, PoolFields DEF Shape, Types, Placed
<1>3. q \in Seq(Clients \cup {Gone})
  BY <1>2, AppendType
<1>4. /\ Len(q) = Len(self.waiting) + 1 /\ Len(self.waiting) \in Nat
      /\ DOMAIN q = 1 .. Len(q) /\ DOMAIN self.waiting = 1 .. Len(self.waiting)
      /\ \A i \in DOMAIN self.waiting : q[i] = self.waiting[i]
      /\ q[Len(q)] = c
  BY <1>2
<1>5. \A i \in DOMAIN q : i \in DOMAIN self.waiting \/ i = Len(q)
  BY <1>4
<1> HIDE DEF q
<1>6. s \in Pools /\ s.waiting = q /\ s.lock = self.lock /\ s.pool = self.pool
      /\ s.closed = self.closed
  BY <1>2, <1>3 DEF Pools
<1> HIDE DEF s
<1>7. /\ self' \in Pools /\ self'.waiting = q /\ self'.lock = self.lock
      /\ self'.pool = self.pool /\ self'.closed = self.closed
  BY <1>1, <1>2, <1>6, GrowFields
<1>8. Moved(c, "wait", l.conn, l.pc, l.out, l.job)
  BY <1>1, <1>2, MovesNext DEF PCs, Nexts
<1>9. Types'
  BY <1>1, <1>2, <1>7, <1>8 DEF Types, connVars, history, Moved
<1>10. /\ loc'[c].pc = "wait" /\ loc'[c].out = l.out
       /\ \A u \in Tasks : u # c => loc'[u] = loc[u]
  BY <1>8 DEF Moved
<1>11. Placed'
  <2> SUFFICES ASSUME NEW u \in Tasks PROVE Fits(u, loc[u])'
    BY DEF Placed
  <2>1. Fits(u, loc[u])
    BY DEF Shape, Placed
  <2>2. CASE u = c
    BY <1>1, <1>2, <1>8, <2>2 DEF Fits, Holding, Moved, ClientPCs
  <2>3. CASE u # c
    BY <1>1, <1>10, <2>1, <2>3 DEF Fits
  <2> QED
    BY <2>2, <2>3
<1>12. Locked'
  BY <1>1, <1>7, <1>10 DEF Shape, Locked, Tasks
<1>13. c # Gone /\ \A i \in DOMAIN self.waiting : self.waiting[i] # c
  <2>1. c # Gone
    BY AsyncAssumption DEF AsyncAssumption
  <2> QED
    BY <1>1, <2>1 DEF Shape, Queued
<1>14. \A i, j \in DOMAIN q : q[i] = q[j] /\ q[i] # Gone => i = j
  BY <1>4, <1>5, <1>13 DEF Shape, Queued
<1>15. \A i \in DOMAIN q : q[i] # Gone => loc'[q[i]].pc = "wait"
  <2> SUFFICES ASSUME NEW i \in DOMAIN q, q[i] # Gone PROVE loc'[q[i]].pc = "wait"
    OBVIOUS
  <2>1. CASE i \in DOMAIN self.waiting
    BY <1>2, <1>4, <2>1, <1>10 DEF Tasks, Shape, Queued
  <2> QED
    BY <1>4, <1>5, <1>10, <2>1
<1>16. \A u \in Tasks : \A x \in loc'[u].out \cap Clients :
          loc'[x].pc = "wait" /\ \A i \in DOMAIN q : q[i] # x
  <2> SUFFICES ASSUME NEW u \in Tasks, NEW x \in loc'[u].out \cap Clients
               PROVE  loc'[x].pc = "wait" /\ \A i \in DOMAIN q : q[i] # x
    OBVIOUS
  <2>1. x \in loc[u].out \cap Clients
    BY <1>10
  <2>2. loc[x].pc = "wait" /\ \A i \in DOMAIN self.waiting : self.waiting[i] # x
    BY <2>1 DEF Shape, Queued
  <2>3. x # c /\ x \in Tasks
    BY <1>1, <2>2 DEF Tasks
  <2> QED
    BY <1>4, <1>5, <1>10, <2>2, <2>3
<1>17. /\ \A a \in Callers : loc'[a].pc = "closing" => self'.closed
       /\ \A a, b \in Callers : loc'[a].pc = "closing" /\ loc'[b].pc = "closing" => a = b
  BY <1>2, <1>10, <1>7 DEF Tasks, Shape, Queued
<1> QED
  BY <1>7, <1>9, <1>11, <1>12, <1>14, <1>15, <1>16, <1>17 DEF Shape, Queued

\* What a client that gives up leaves
LEMMA InterruptedEffect ==
    ASSUME Shape, NEW c \in Clients, WaitInterrupted(c)
    PROVE  /\ loc[c].pc \in {"wait", "got"} /\ UNCHANGED <<null, connVars, leaked, calls>>
           /\ self' \in Pools /\ self'.closed = self.closed /\ self'.lock = self.lock
           /\ self'.pool = self.pool /\ self'.nconns = self.nconns
           /\ self'.growing = self.growing /\ self'.minSize = self.minSize
           /\ self'.maxSize = self.maxSize /\ self'.event = self.event
           /\ self'.delayed = self.delayed
           /\ DOMAIN self'.waiting = DOMAIN self.waiting
           /\ \A i \in DOMAIN self.waiting :
                 self'.waiting[i] = IF self.waiting[i] = c THEN Gone ELSE self.waiting[i]
           /\ self'.tasks = IF loc[c].pc = "got"
                            THEN Append(self.tasks, ReturnConnection(loc[c].conn))
                            ELSE self.tasks
           /\ loc' \in [Tasks -> Locals]
           /\ loc'[c].pc = "idle" /\ loc'[c].conn = NoConn /\ loc'[c].next = "idle"
           /\ loc'[c].out = {} /\ loc'[c].job = NewConnection
           /\ \A u \in Tasks : u # c => /\ loc'[u].pc = loc[u].pc /\ loc'[u].conn = loc[u].conn
                                        /\ loc'[u].next = loc[u].next /\ loc'[u].job = loc[u].job
                                        /\ loc'[u].out = loc[u].out \ {c}
           /\ loc[c].pc = "got" => loc[c].conn \in Conns
<1> DEFINE w == [i \in DOMAIN self.waiting |->
                    IF self.waiting[i] = c THEN Gone ELSE self.waiting[i]]
           forget == [self EXCEPT !.waiting = w]
<1>1. /\ loc[c].pc \in {"wait", "got"} /\ UNCHANGED <<null, connVars, leaked, calls>>
      /\ self' = IF loc[c].pc = "got" THEN RunTask(forget, ReturnConnection(loc[c].conn))
                 ELSE forget
      /\ loc' = [t \in Tasks |-> IF t = c THEN At("idle", NoConn, "idle")
                                 ELSE [loc[t] EXCEPT !.out = @ \ {c}]]
  BY DEF WaitInterrupted
<1>2. /\ c \in Tasks /\ Types /\ self \in Pools /\ Fits(c, loc[c])
      /\ self.waiting \in Seq(Clients \cup {Gone})
  <2>1. c \in Tasks
    BY DEF Tasks
  <2> QED
    BY <2>1, PoolFields DEF Shape, Types, Placed
<1>3. w \in Seq(Clients \cup {Gone})
  BY <1>2
<1> HIDE DEF w
<1>4. /\ forget \in Pools /\ forget.closed = self.closed /\ forget.lock = self.lock
      /\ forget.pool = self.pool /\ forget.nconns = self.nconns
      /\ forget.growing = self.growing /\ forget.minSize = self.minSize
      /\ forget.maxSize = self.maxSize /\ forget.event = self.event
      /\ forget.delayed = self.delayed /\ forget.waiting = w /\ forget.tasks = self.tasks
  BY <1>2, <1>3 DEF Pools
<1> HIDE DEF forget
<1>5. loc[c].pc = "got" => loc[c].conn \in Conns
  BY <1>2, LocalFields DEF Fits, Holding, Types
<1>6. /\ self' \in Pools /\ self'.closed = self.closed /\ self'.lock = self.lock
      /\ self'.pool = self.pool /\ self'.nconns = self.nconns
      /\ self'.growing = self.growing /\ self'.minSize = self.minSize
      /\ self'.maxSize = self.maxSize /\ self'.event = self.event
      /\ self'.delayed = self.delayed /\ self'.waiting = w
      /\ self'.tasks = IF loc[c].pc = "got"
                       THEN Append(self.tasks, ReturnConnection(loc[c].conn)) ELSE self.tasks
  <2>1. CASE loc[c].pc = "got"
    <3>1. ReturnConnection(loc[c].conn) \in Jobs
      BY <1>5, <2>1, JobTypes
    <3>2. self' = RunTask(forget, ReturnConnection(loc[c].conn))
      BY <1>1, <2>1
    <3> QED
      BY <1>4, <2>1, <3>1, <3>2, RunTaskFields
  <2>2. CASE loc[c].pc # "got"
    BY <1>1, <1>4, <2>2
  <2> QED
    BY <2>1, <2>2
<1>7. /\ loc' \in [Tasks -> Locals]
      /\ loc'[c].pc = "idle" /\ loc'[c].conn = NoConn /\ loc'[c].next = "idle"
      /\ loc'[c].out = {} /\ loc'[c].job = NewConnection
      /\ \A u \in Tasks : u # c => /\ loc'[u].pc = loc[u].pc /\ loc'[u].conn = loc[u].conn
                                   /\ loc'[u].next = loc[u].next /\ loc'[u].job = loc[u].job
                                   /\ loc'[u].out = loc[u].out \ {c}
  BY <1>1, <1>2, JobTypes DEF Types, Locals, At, PCs, Nexts
<1>8. /\ DOMAIN self'.waiting = DOMAIN self.waiting
      /\ \A i \in DOMAIN self.waiting :
            self'.waiting[i] = IF self.waiting[i] = c THEN Gone ELSE self.waiting[i]
  BY <1>6 DEF w
<1> QED
  BY <1>1, <1>5, <1>6, <1>7, <1>8

\* So does the end of its wait, for a timeout
LEMMA InterruptedShape ==
    ASSUME Shape, NEW c \in Clients, WaitInterrupted(c)
    PROVE  Shape'
<1> DEFINE w == self'.waiting
<1>1. /\ c \in Tasks /\ Types /\ self.waiting \in Seq(Clients \cup {Gone})
      /\ c \notin Callers /\ c \notin Workers
  <2>1. c \in Tasks
    BY DEF Tasks
  <2> QED
    BY <2>1, OneRole, PoolFields DEF Shape, Types
<1>2. /\ loc[c].pc \in {"wait", "got"} /\ null' = null
      /\ self'.closed = self.closed /\ self'.lock = self.lock /\ self'.pool = self.pool
      /\ loc'[c].pc = "idle" /\ loc'[c].conn = NoConn /\ loc'[c].next = "idle"
      /\ loc'[c].out = {}
      /\ \A u \in Tasks : u # c => /\ loc'[u].pc = loc[u].pc /\ loc'[u].conn = loc[u].conn
                                   /\ loc'[u].next = loc[u].next
                                   /\ loc'[u].out = loc[u].out \ {c}
  BY InterruptedEffect
<1>3. /\ DOMAIN w = DOMAIN self.waiting
      /\ \A i \in DOMAIN w : w[i] = IF self.waiting[i] = c THEN Gone ELSE self.waiting[i]
  BY InterruptedEffect
<1>4. Types'
  BY InterruptedEffect, <1>1, HistoryTypes DEF WaitInterrupted, Types, connVars
<1> HIDE DEF w
<1>5. Placed'
  <2> SUFFICES ASSUME NEW u \in Tasks PROVE Fits(u, loc[u])'
    BY DEF Placed
  <2>1. Fits(u, loc[u])
    BY DEF Shape, Placed
  <2>2. CASE u = c
    BY <1>1, <1>2, <2>2 DEF Fits, ClientPCs, Holding
  <2>3. CASE u # c
    BY <1>2, <2>3, <2>1 DEF Fits
  <2> QED
    BY <2>2, <2>3
<1>6. Locked'
  <2>1. ASSUME NEW u \in Clients PROVE self'.lock = u <=> loc'[u].pc = "connect"
    BY <1>2 DEF Tasks, Shape, Locked
  <2> QED
    BY <1>2, <2>1 DEF Shape, Locked
<1>7. \A i, j \in DOMAIN w : w[i] = w[j] /\ w[i] # Gone => i = j
  BY <1>3 DEF Shape, Queued
<1>8. \A i \in DOMAIN w : w[i] # Gone => loc'[w[i]].pc = "wait"
  BY <1>3, <1>1, <1>2 DEF Tasks, Shape, Queued
<1>9. \A u \in Tasks : \A x \in loc'[u].out \cap Clients :
         loc'[x].pc = "wait" /\ \A i \in DOMAIN w : w[i] # x
  BY <1>2, AsyncAssumption, <1>3 DEF Shape, Queued, AsyncAssumption, Tasks
<1>10. /\ \A a \in Callers : loc'[a].pc = "closing" => self'.closed
       /\ \A a, b \in Callers : loc'[a].pc = "closing" /\ loc'[b].pc = "closing" => a = b
  BY <1>1, <1>2 DEF Tasks, Shape, Queued
<1> QED
  BY <1>4, <1>5, <1>6, <1>7, <1>8, <1>9, <1>10 DEF Shape, Queued, w

\* So does putconn()
LEMMA PutShape ==
    ASSUME Shape, NEW c \in Clients,
           \/ \E st \in Leaves : PutConn(c, st) \/ NullPutConn(c, st) \/ CheckBad(c, st)
           \/ PutCancelled(c)
    PROVE  Shape'
<1>1. c \in Tasks /\ c \notin Callers /\ c \notin Workers
  BY OneRole DEF Tasks
<1>2. ASSUME NEW st \in Leaves, PutConn(c, st) PROVE Shape'
  BY <1>2, <1>1, PutConnEffect, CloseShape, QueueShape, ReturnShape DEF PutConn
<1>3. ASSUME NEW st \in Leaves, NullPutConn(c, st) PROVE Shape'
  <2>1. UNCHANGED <<null, history>>
    BY <1>3 DEF NullPutConn
  <2>2. CASE loc[c].pc \in {"use", "putlock"} /\ NullPut(c, st)
    BY <1>1, <2>1, <2>2, NullPutEffect, CloseShape, QueueShape, ReturnShape
  <2>3. CASE /\ loc[c].pc = "use" /\ loc' = GoTo(c, "putlock") /\ UNCHANGED <<self, connVars>>
    <3>1. Moved(c, "putlock", loc[c].conn, loc[c].next, loc[c].out, loc[c].job)
      BY <1>1, <2>3, Names, MovesPc DEF Shape
    <3>2. Fits(c, loc[c]) /\ null /\ (self.lock = c <=> loc[c].pc = "connect")
      BY <1>1, <1>3 DEF Shape, Placed, Locked, NullPutConn
    <3>3. Fits(c, loc'[c])
      BY <1>1, <2>3, <3>1, <3>2 DEF Fits, Moved, ClientPCs, Holding, Tasks
    <3>4. /\ self' \in Pools /\ self'.pool = <<>> /\ Types
          /\ \A u \in Clients :
                self'.lock = u <=> IF u = c THEN "putlock" = "connect" ELSE self.lock = u
      BY <2>3, <3>2 DEF Shape, Types, Locked
    <3> QED
      BY <1>1, <2>1, <2>3, <3>1, <3>3, <3>4, HistoryTypes, SoloShape
  <2> QED
    BY <1>3, <2>2, <2>3 DEF NullPutConn
<1>4. ASSUME NEW st \in Leaves, CheckBad(c, st) PROVE Shape'
  BY <1>4, <1>1, PutBackEffect, QueueShape, ReturnShape DEF CheckBad
<1>5. ASSUME PutCancelled(c) PROVE Shape'
  <2>1. /\ loc[c].pc \in {"putlock", "add"} /\ Cancelled /\ Close({loc[c].conn})
        /\ loc' = Leaving(c, "idle") /\ leaked' = leaked + 1
        /\ UNCHANGED <<null, self, calls>>
    BY <1>5 DEF PutCancelled
  <2>2. Onward(c, "idle")
    BY <1>1, OneRole DEF Onward, Nexts
  <2>3. Passing(c, loc[c].conn, "idle", self)
    BY <1>1, <2>1, <2>2, HandPassing
  <2>4. Left(c, "idle") /\ Becomes(loc[c].conn, "absent")
    BY <1>1, <2>1, <2>3, Names, MovesLeaving, BecomesClosed DEF Shape, Passing
  <2>5. Fits(c, loc'[c])
    BY <1>1, <2>2, <2>4, LeftFits
  <2>6. Types'
    BY <2>1, <2>4 DEF Shape, Types, Becomes, Left, Moved, Cancelled
  <2>7. \A u \in Clients :
           self'.lock = u <=> IF u = c THEN loc'[c].pc = "connect" ELSE self.lock = u
    BY <1>1, <2>1, <2>3, <2>4 DEF Shape, Locked, Left, Moved, Passing
  <2>8. /\ null' = null /\ loc'[c].out = loc[c].out /\ loc'[c].pc = "idle" /\ loc[c].pc # "wait"
        /\ self' = self /\ (null => self.pool = <<>>)
        /\ \A u \in Tasks : u # c => loc'[u] = loc[u]
    BY <2>1, <2>4 DEF Left, Moved, Shape, Locked
  <2> QED
    BY <1>1, <2>5, <2>6, <2>7, <2>8, MoveShape
<1> QED
  BY <1>2, <1>3, <1>4, <1>5

\* So do the steps any task with a connection takes
LEMMA TaskShape ==
    ASSUME Shape, NEW t \in Tasks, Reset(t) \/ AddLocked(t)
    PROVE  Shape'
BY ResetEffect, ReturnShape, AddLockedEffect, AddShape DEF Reset, AddLocked

\* The connections of the tasks are open
TasksOpen ==
    \A i \in DOMAIN self.tasks :
       self.tasks[i].kind = "return" => status[self.tasks[i].conn] # "absent"

\* The connection of the first task is open
LEMMA HeadOpen ==
    ASSUME Types, TasksOpen, self.tasks # <<>>, Head(self.tasks).kind = "return"
    PROVE  status[Head(self.tasks).conn] # "absent"
BY PoolFields DEF Types, TasksOpen

\* Nothing but the pool and the connections change
LEMMA StillShape ==
    ASSUME Shape, Types', UNCHANGED <<null, loc>>,
           self'.lock = self.lock, self'.pool = self.pool \/ ~null \/ self'.pool = <<>>,
           self'.waiting = self.waiting, self'.closed = self.closed
    PROVE  Shape'
<1>1. Placed'
  BY DEF Placed, Shape, Fits
<1>2. Locked'
  BY DEF Shape, Locked
<1>3. Queued'
  BY DEF Shape, Queued
<1> QED
  BY <1>1, <1>2, <1>3 DEF Shape

\* A task runs again later
LEMMA DelayFields ==
    ASSUME NEW s \in Pools, NEW r \in Retries, NEW v \in Nat
    PROVE  LET d == [s EXCEPT !.delayed[r] = v]
           IN  /\ d \in Pools /\ d.delayed = [s.delayed EXCEPT ![r] = v]
               /\ d.closed = s.closed /\ d.lock = s.lock /\ d.pool = s.pool
               /\ d.waiting = s.waiting /\ d.nconns = s.nconns
               /\ d.nconnsMin = s.nconnsMin /\ d.growing = s.growing
               /\ d.minSize = s.minSize /\ d.maxSize = s.maxSize
               /\ d.event = s.event /\ d.tasks = s.tasks /\ d.shrinks = s.shrinks
<1> DEFINE g == [s.delayed EXCEPT ![r] = v]
<1>1. g \in [Retries -> Nat]
  BY PoolFields
<1>2. [s EXCEPT !.delayed[r] = v] = [s EXCEPT !.delayed = g]
  OBVIOUS
<1> HIDE DEF g
<1>3. LET d == [s EXCEPT !.delayed = g]
      IN  /\ d \in Pools /\ d.delayed = g
          /\ d.closed = s.closed /\ d.lock = s.lock /\ d.pool = s.pool
          /\ d.waiting = s.waiting /\ d.nconns = s.nconns
          /\ d.nconnsMin = s.nconnsMin /\ d.growing = s.growing
          /\ d.minSize = s.minSize /\ d.maxSize = s.maxSize
          /\ d.event = s.event /\ d.tasks = s.tasks /\ d.shrinks = s.shrinks
  BY <1>1 DEF Pools
<1> QED
  BY <1>2, <1>3 DEF g

\* A failed attempt is made again, or the pool gives up
LEMMA RetryEffect ==
    ASSUME Shape, NEW w \in Workers, ConnectRetry(w)
    PROVE  LET j == loc[w].job
               r == AddConnection(j.growing, j.attempt + 1)
           IN  /\ loc[w].pc = "connect" /\ r \in Retries /\ Left(w, "idle")
               /\ UNCHANGED <<null, connVars, history>>
               /\ self' \in Pools
               /\ self'.delayed = [self.delayed EXCEPT ![r] = self.delayed[r] + 1]
               /\ self'.closed = self.closed /\ self'.lock = self.lock
               /\ self'.pool = self.pool /\ self'.waiting = self.waiting
               /\ self'.nconns = self.nconns /\ self'.growing = self.growing
               /\ self'.minSize = self.minSize /\ self'.maxSize = self.maxSize
               /\ self'.event = self.event /\ self'.tasks = self.tasks
<1> DEFINE j == loc[w].job
           r == AddConnection(j.growing, j.attempt + 1)
           v == self.delayed[r] + 1
<1>1. /\ loc[w].pc = "connect" /\ j.attempt < MaxAttempts
      /\ self' = [self EXCEPT !.delayed[r] = v] /\ loc' = Leaving(w, "idle")
      /\ UNCHANGED <<null, connVars, history>>
  BY DEF ConnectRetry
<1>2. w \in Tasks /\ Types
  BY DEF Tasks, Shape
<1>3. r \in Retries
  BY <1>1, <1>2, AddFields, LocalFields DEF Types
<1>4. v \in Nat /\ self \in Pools
  <2>1. self.delayed \in [Retries -> Nat] /\ self \in Pools
    BY <1>2, PoolFields DEF Types
  <2> HIDE DEF r
  <2>2. self.delayed[r] \in Nat
    BY <1>3, <2>1
  <2> QED
    BY <2>1, <2>2
<1>5. Left(w, "idle")
  BY <1>1, <1>2, Names, MovesLeaving
<1> HIDE DEF r, v
<1>6. /\ self' \in Pools /\ self'.delayed = [self.delayed EXCEPT ![r] = v]
      /\ self'.closed = self.closed /\ self'.lock = self.lock
      /\ self'.pool = self.pool /\ self'.waiting = self.waiting
      /\ self'.nconns = self.nconns /\ self'.growing = self.growing
      /\ self'.minSize = self.minSize /\ self'.maxSize = self.maxSize
      /\ self'.event = self.event /\ self'.tasks = self.tasks
  BY <1>1, <1>3, <1>4, DelayFields
<1> QED
  BY <1>1, <1>3, <1>5, <1>6 DEF r, v

\* The limits, the lock and the event stay
Steady(s, g) ==
    /\ g \in Pools /\ g.lock = s.lock /\ g.minSize = s.minSize /\ g.maxSize = s.maxSize
    /\ g.event = s.event

\* A worker gives up the last attempt
LEMMA GiveUpEffect ==
    ASSUME Shape, NEW w \in Workers, ConnectGiveUp(w)
    PROVE  /\ loc[w].pc = "connect" /\ Left(w, "idle") /\ UNCHANGED <<null, connVars, history>>
           /\ Steady(self, self') /\ self'.closed = self.closed /\ self.lock = NoTask
           /\ self'.pool = self.pool /\ self'.waiting = self.waiting
           /\ self'.nconns = self.nconns - 1
           /\ self'.growing = (self.growing /\ ~loc[w].job.growing)
           /\ self'.tasks = self.tasks /\ self'.delayed = self.delayed
<1> DEFINE g == self.growing /\ ~loc[w].job.growing
           m == self.nconns - 1
<1>1. /\ loc[w].pc = "connect" /\ loc' = Leaving(w, "idle") /\ self.lock = NoTask
      /\ self' = [self EXCEPT !.nconns = m, !.growing = g]
      /\ UNCHANGED <<null, connVars, history>>
  BY DEF ConnectGiveUp
<1>2. w \in Tasks /\ Types /\ self \in Pools /\ g \in BOOLEAN
  BY PoolFields DEF Tasks, Shape, Types
<1>3. m \in Int
  BY <1>2, PoolFields
<1>4. Left(w, "idle")
  BY <1>1, <1>2, Names, MovesLeaving
<1> HIDE DEF g, m
<1>5. /\ Steady(self, self') /\ self'.closed = self.closed
      /\ self'.pool = self.pool /\ self'.waiting = self.waiting
      /\ self'.nconns = m /\ self'.growing = g
      /\ self'.tasks = self.tasks /\ self'.delayed = self.delayed
  BY <1>1, <1>2, <1>3 DEF Pools, Steady
<1> QED
  BY <1>1, <1>4, <1>5 DEF g, m

\* The shrink task closes a connection, or none
LEMMA ShrinkEffect ==
    ASSUME Shape, NEW w \in Workers, Shrink(w)
    PROVE  /\ self.tasks # <<>> /\ Head(self.tasks).kind = "shrink" /\ ~self.closed
           /\ UNCHANGED <<null, loc, history>>
           /\ Steady(self, self') /\ self'.closed = self.closed
           /\ self'.waiting = self.waiting /\ self'.growing = self.growing
           /\ self'.tasks = Tail(self.tasks) /\ self'.delayed = self.delayed
           /\ \/ /\ self.pool # <<>> /\ self'.pool = Tail(self.pool)
                 /\ self'.nconns = self.nconns - 1
                 /\ Head(self.pool) \in Conns /\ Becomes(Head(self.pool), "absent")
              \/ self'.pool = self.pool /\ self'.nconns = self.nconns /\ UNCHANGED connVars
<1> DEFINE s == [Taken EXCEPT !.shrinks = @ + 1]
<1>1. /\ self.tasks # <<>> /\ Head(self.tasks).kind = "shrink" /\ ~self.closed
      /\ UNCHANGED <<null, loc, history>>
  BY DEF Shrink, Take
<1>2. /\ Taken \in Pools /\ Taken.tasks = Tail(self.tasks)
      /\ Taken.closed = self.closed /\ Taken.lock = self.lock /\ Taken.pool = self.pool
      /\ Taken.waiting = self.waiting /\ Taken.nconns = self.nconns
      /\ Taken.growing = self.growing
      /\ Taken.minSize = self.minSize /\ Taken.maxSize = self.maxSize
      /\ Taken.event = self.event /\ Taken.delayed = self.delayed
  BY <1>1, TakenFields DEF Shape
<1>3. Taken.shrinks + 1 \in Nat
  <2>1. Taken.shrinks \in Nat
    BY <1>2, PoolFields
  <2> QED
    BY <2>1
<1>4. /\ s \in Pools /\ s.tasks = Tail(self.tasks)
      /\ s.closed = self.closed /\ s.lock = self.lock /\ s.pool = self.pool
      /\ s.waiting = self.waiting /\ s.nconns = self.nconns
      /\ s.growing = self.growing
      /\ s.minSize = self.minSize /\ s.maxSize = self.maxSize
      /\ s.event = self.event /\ s.delayed = self.delayed
  BY <1>2, <1>3 DEF Pools
<1> DEFINE dropping == s.nconns > s.minSize /\ s.nconnsMin > 0 /\ s.pool # <<>>
<1>5. IF dropping
      THEN /\ self' = [s EXCEPT !.pool = Tail(@), !.nconns = @ - 1,
                                !.nconnsMin = Len(s.pool) - 1]
           /\ Close({Head(s.pool)})
      ELSE /\ self' = [s EXCEPT !.nconnsMin = Len(s.pool)]
           /\ UNCHANGED connVars
  BY DEF Shrink
<1> HIDE DEF s
<1>6. s.pool \in Seq(Conns) /\ s.nconns \in Int
  BY <1>4, PoolFields
<1>7. CASE dropping
  <2>1. s.pool # <<>>
    BY <1>7
  <2>2. Tail(s.pool) \in Seq(Conns) /\ Head(s.pool) \in Conns
    BY <1>6, <2>1
  <2>3. s.nconns - 1 \in Int /\ Len(s.pool) - 1 \in Int
    BY <1>6
  <2> DEFINE left == Tail(s.pool)
             m == Len(s.pool) - 1
             k == s.nconns - 1
  <2>4. self' = [s EXCEPT !.pool = left, !.nconns = k, !.nconnsMin = m]
    BY <1>5, <1>7
  <2>5. left \in Seq(Conns) /\ m \in Int /\ k \in Int
    BY <2>2, <2>3
  <2> HIDE DEF left, m, k
  <2>6. /\ self' \in Pools /\ self'.tasks = s.tasks /\ self'.pool = left
        /\ self'.closed = s.closed /\ self'.lock = s.lock
        /\ self'.waiting = s.waiting /\ self'.nconns = k /\ self'.growing = s.growing
        /\ self'.minSize = s.minSize /\ self'.maxSize = s.maxSize
        /\ self'.event = s.event /\ self'.delayed = s.delayed
    BY <1>4, <2>4, <2>5 DEF Pools
  <2>7. self'.pool = Tail(self.pool) /\ self'.nconns = self.nconns - 1
    BY <1>4, <2>6 DEF left, k
  <2>8. Becomes(Head(self.pool), "absent") /\ Head(self.pool) \in Conns /\ self.pool # <<>>
    BY <1>5, <1>7, <1>4, <2>1, <2>2, BecomesClosed DEF Shape
  <2> QED
    BY <1>1, <1>4, <2>6, <2>7, <2>8 DEF Steady
<1>8. CASE ~dropping
  <2> DEFINE m == Len(s.pool)
  <2>1. self' = [s EXCEPT !.nconnsMin = m] /\ UNCHANGED connVars
    BY <1>5, <1>8
  <2>2. m \in Int
    BY <1>6
  <2> HIDE DEF m
  <2>3. /\ self' \in Pools /\ self'.tasks = s.tasks /\ self'.pool = s.pool
        /\ self'.closed = s.closed /\ self'.lock = s.lock
        /\ self'.waiting = s.waiting /\ self'.nconns = s.nconns /\ self'.growing = s.growing
        /\ self'.minSize = s.minSize /\ self'.maxSize = s.maxSize
        /\ self'.event = s.event /\ self'.delayed = s.delayed
    BY <1>4, <2>1, <2>2 DEF Pools
  <2> QED
    BY <1>1, <1>4, <2>1, <2>3 DEF Steady
<1> QED
  BY <1>7, <1>8

\* The workers' steps keep the shape
LEMMA WorkerShape ==
    ASSUME Shape, TasksOpen, NEW w \in Workers,
           \/ WorkerStop(w) \/ WorkerDiscard(w) \/ WorkerReturn(w) \/ WorkerAdd(w)
           \/ (\E k \in Conns : Connected(w, k)) \/ ConnectRetry(w) \/ ConnectGiveUp(w) \/ Shrink(w)
    PROVE  Shape'
<1>1. /\ w \in Tasks /\ w \notin Callers /\ w \notin Clients /\ Types /\ self \in Pools
      /\ Fits(w, loc[w]) /\ loc[w].out = {} /\ null \in BOOLEAN
  <2>1. w \in Tasks
    BY DEF Tasks
  <2> QED
    BY <2>1, OneRole DEF Shape, Types, Placed, Fits
<1>2. \A n \in {"idle"} : Left(w, n) => Fits(w, loc'[w])
  BY <1>1, LeftFits DEF Onward, Nexts
<1>3. ASSUME WorkerStop(w) PROVE Shape'
  BY <1>3, <1>1, Names, MovesPc, TakenFields, HistoryTypes, SoloShape DEF WorkerStop, Take,
     Fits, Moved, WorkerPCs, Holding, Shape, Locked
<1>4. ASSUME WorkerDiscard(w) PROVE Shape'
  BY <1>4, <1>1, TakenFields, StillShape DEF WorkerDiscard, Take, Types, Close, history
<1>5. ASSUME WorkerReturn(w) PROVE Shape'
  <2> DEFINE c == Head(self.tasks).conn
  <2>1. UNCHANGED <<null, history>>
    BY <1>5 DEF WorkerReturn
  <2>2. status[c] # "absent"
    BY <1>1, <1>5, HeadOpen DEF WorkerReturn, Take
  <2>3. Passing(w, c, "idle", Taken) /\ ReturnForms(w, c, "idle", status[c], Taken)
    BY <1>5, <2>2, WorkerReturnEffect
  <2> QED
    BY <1>1, <2>1, <2>3, ReturnShape
<1>6. ASSUME WorkerAdd(w) PROVE Shape'
  <2>1. /\ self.tasks # <<>> /\ self' = Taken /\ loc[w].pc = "idle"
        /\ loc' = [loc EXCEPT ![w].pc = "connect", ![w].job = Head(self.tasks)]
        /\ Head(self.tasks).kind = "add" /\ UNCHANGED <<null, connVars, history>>
    BY <1>6 DEF WorkerAdd, Take
  <2>2. /\ self' \in Pools /\ self'.lock = self.lock /\ self'.pool = self.pool
        /\ self'.waiting = self.waiting /\ self'.closed = self.closed
        /\ Head(self.tasks) \in Jobs
    BY <1>1, <2>1, TakenFields
  <2>3. Head(self.tasks) \in AddJobs
    BY <2>1, <2>2, JobFields
  <2>4. Moved(w, "connect", loc[w].conn, loc[w].next, loc[w].out, Head(self.tasks))
    BY <1>1, <2>1, <2>3, Names, MovesJob
  <2>5. Fits(w, loc'[w])
    BY <1>1, <2>1, <2>4 DEF Fits, Moved, WorkerPCs, Holding
  <2>6. null => self'.pool = <<>>
    BY <2>2 DEF Shape, Locked
  <2>7. \A u \in Clients :
           self'.lock = u <=> IF u = w THEN "connect" = "connect" ELSE self.lock = u
    BY <1>1, <2>2
  <2>8. leaked' \in Nat /\ calls' \in SUBSET Methods /\ cancels' \in Nat
    BY <1>1, <2>1, HistoryTypes
  <2>9. /\ loc[w].pc # "wait" /\ UNCHANGED <<null, connVars>>
        /\ loc[w].out \cap Clients \subseteq loc[w].out
    BY <2>1
  <2> DEFINE p == "connect"
             j == Head(self.tasks)
  <2>10. Moved(w, p, loc[w].conn, loc[w].next, loc[w].out, j)
    BY <2>4
  <2>11. /\ \A u \in Clients : self'.lock = u <=> IF u = w THEN p = "connect" ELSE self.lock = u
         /\ p # "closing"
    BY <2>7
  <2> HIDE DEF p, j
  <2> QED
    BY <1>1, <2>2, <2>5, <2>6, <2>8, <2>9, <2>10, <2>11, SoloShape
<1>7. ASSUME NEW k \in Conns, Connected(w, k) PROVE Shape'
  BY <1>7, ConnectedEffect, AddShape DEF Connected
<1>8. ASSUME ConnectRetry(w) PROVE Shape'
  <2>1. /\ loc[w].pc = "connect" /\ Left(w, "idle") /\ UNCHANGED <<null, connVars, history>>
        /\ self' \in Pools /\ self'.lock = self.lock /\ self'.pool = self.pool
        /\ self'.waiting = self.waiting /\ self'.closed = self.closed
    BY <1>8, RetryEffect
  <2>2. null => self'.pool = <<>>
    BY <2>1 DEF Shape, Locked
  <2>3. \A u \in Clients :
           self'.lock = u <=> IF u = w THEN "idle" = "connect" ELSE self.lock = u
    BY <1>1, <2>1
  <2> QED
    BY <1>1, <1>2, <2>1, <2>2, <2>3, HistoryTypes, SoloShape DEF Left
<1>9. ASSUME ConnectGiveUp(w) PROVE Shape'
  <2>1. /\ loc[w].pc = "connect" /\ Left(w, "idle") /\ UNCHANGED <<null, connVars, history>>
        /\ self' \in Pools /\ self'.lock = self.lock /\ self'.pool = self.pool
        /\ self'.waiting = self.waiting /\ self'.closed = self.closed
    BY <1>9, GiveUpEffect DEF Steady
  <2>2. null => self'.pool = <<>>
    BY <2>1 DEF Shape, Locked
  <2>3. \A u \in Clients :
           self'.lock = u <=> IF u = w THEN "idle" = "connect" ELSE self.lock = u
    BY <1>1, <2>1
  <2> QED
    BY <1>1, <1>2, <2>1, <2>2, <2>3, HistoryTypes, SoloShape DEF Left
<1>10. ASSUME Shrink(w) PROVE Shape'
  <2>1. /\ UNCHANGED <<null, loc, history>> /\ self' \in Pools /\ self'.lock = self.lock
        /\ self'.waiting = self.waiting /\ self'.closed = self.closed
    BY <1>10, ShrinkEffect DEF Steady
  <2>2. \/ /\ self.pool # <<>> /\ Head(self.pool) \in Conns
           /\ Becomes(Head(self.pool), "absent")
        \/ self'.pool = self.pool /\ UNCHANGED connVars
    BY <1>10, ShrinkEffect
  <2>3. Types'
    BY <1>1, <2>1, NextTypes, <2>2 DEF Types, connVars, history
  <2>4. self'.pool = self.pool \/ ~null
    BY <2>2 DEF Shape, Locked
  <2> QED
    BY <2>1, <2>3, <2>4, StillShape
<1> QED
  BY <1>3, <1>4, <1>5, <1>6, <1>7, <1>8, <1>9, <1>10

(* close(), drain(), check(), resize() and wait() *)

\* Many tasks at the end of the queue
LEMMA ConcatType ==
    ASSUME NEW q \in Seq(Jobs), NEW n \in Nat, NEW j \in Jobs
    PROVE  q \o Copies(n, j) \in Seq(Jobs) /\ Copies(n, j) \in Seq(Jobs)
<1>1. Copies(n, j) \in Seq(Jobs)
  BY CopiesType
<1> QED
  BY <1>1

\* close() empties the pool and the queue
LEMMA CloseEffect ==
    ASSUME Shape, NEW a \in Callers, ClosePool(a)
    PROVE  /\ ~self.closed /\ self.lock = NoTask /\ UNCHANGED <<null, leaked, cancels>>
           /\ calls' \in SUBSET Methods /\ calls \subseteq calls'
           /\ loc[a].pc \in {"idle", "full"}
           /\ Steady(self, self') /\ self'.closed /\ self'.pool = <<>>
           /\ self'.waiting = <<>> /\ self'.nconns = self.nconns
           /\ self'.growing = self.growing /\ self'.delayed = self.delayed
           /\ self'.tasks = self.tasks \o Copies(Cardinality(Workers), StopWorker)
           /\ Close(Contents(self.pool))
           /\ Moved(a, "closing", loc[a].conn, loc[a].next,
                    {self.waiting[i] : i \in Alive(self)}, loc[a].job)
           /\ {self.waiting[i] : i \in Alive(self)} \subseteq Clients
<1> DEFINE o == {self.waiting[i] : i \in Alive(self)}
           q == self.tasks \o Copies(Cardinality(Workers), StopWorker)
<1>1. /\ ~self.closed /\ self.lock = NoTask /\ UNCHANGED <<null, leaked, cancels>>
      /\ loc[a].pc \in {"idle", "full"} /\ self' = CloseState
      /\ Close(Contents(self.pool))
      /\ loc' = [loc EXCEPT ![a].pc = "closing", ![a].out = o]
  BY DEF ClosePool, Calling
<1>2. calls' \in SUBSET Methods /\ calls \subseteq calls'
  BY DEF ClosePool, Calling, Shape, Types
<1>3. a \in Tasks /\ Types /\ self \in Pools
  BY DEF Tasks, Shape, Types
<1>4. q \in Seq(Jobs)
  <2>1. Cardinality(Workers) \in Nat
    BY FS_CardinalityType, AsyncAssumption DEF AsyncAssumption
  <2> QED
    BY <1>3, <2>1, PoolFields, JobTypes, ConcatType
<1>5. o \subseteq Clients
  BY <1>3, PoolFields DEF Alive
<1>6. Moved(a, "closing", loc[a].conn, loc[a].next, o, loc[a].job)
  <2>1. o \in SUBSET (Clients \cup Conns)
    BY <1>5
  <2> HIDE DEF o
  <2> QED
    BY <1>1, <1>3, <2>1, Names, MovesOut
<1>7. self' = [self EXCEPT !.closed = TRUE, !.pool = <<>>, !.waiting = <<>>, !.tasks = q]
  BY <1>1 DEF CloseState
<1> HIDE DEF o, q
<1>8. /\ Steady(self, self') /\ self'.closed /\ self'.pool = <<>>
      /\ self'.waiting = <<>> /\ self'.nconns = self.nconns
      /\ self'.growing = self.growing /\ self'.delayed = self.delayed
      /\ self'.tasks = q
  <2>1. <<>> \in Seq(Conns) /\ <<>> \in Seq(Clients \cup {Gone})
    OBVIOUS
  <2> QED
    BY <1>3, <1>4, <1>7, <2>1 DEF Pools, Steady
<1> QED
  BY <1>1, <1>2, <1>5, <1>6, <1>8 DEF o, q

\* It keeps the shape
LEMMA CloseShapes ==
    ASSUME Shape, NEW a \in Callers, ClosePool(a)
    PROVE  Shape'
<1> DEFINE o == {self.waiting[i] : i \in Alive(self)}
<1>1. /\ ~self.closed /\ self.lock = NoTask /\ UNCHANGED <<null, leaked, cancels>>
      /\ calls' \in SUBSET Methods /\ loc[a].pc \in {"idle", "full"}
      /\ self' \in Pools /\ self'.lock = self.lock /\ self'.closed /\ self'.pool = <<>>
      /\ self'.waiting = <<>>
      /\ Close(Contents(self.pool)) /\ o \subseteq Clients
      /\ Moved(a, "closing", loc[a].conn, loc[a].next, o, loc[a].job)
  BY CloseEffect DEF Steady
<1>2. /\ a \in Tasks /\ a \notin Clients /\ a \notin Workers /\ Types /\ Fits(a, loc[a])
      /\ \A c \in o : \E i \in DOMAIN self.waiting : self.waiting[i] = c /\ c # Gone
  <2>1. a \in Tasks
    BY DEF Tasks
  <2> QED
    BY <2>1, OneRole DEF Shape, Placed, Alive
<1> HIDE DEF o
<1>3. /\ loc'[a].pc = "closing" /\ loc'[a].conn = loc[a].conn /\ loc'[a].next = loc[a].next
      /\ loc'[a].out = o /\ loc' \in [Tasks -> Locals]
      /\ \A u \in Tasks : u # a => loc'[u] = loc[u]
  BY <1>1 DEF Moved
<1>4. Types'
  BY <1>1, <1>2, <1>3 DEF Close, Types
<1>5. Placed'
  BY <1>1, <1>2, <1>3 DEF Placed, Shape, Fits, CallerPCs, Holding
<1>6. Locked'
  BY <1>1, <1>2, <1>3 DEF Shape, Locked, Tasks
<1>7. \A u \in Tasks : \A c \in loc'[u].out \cap Clients : loc'[c].pc = "wait"
  BY <1>2, <1>3 DEF Shape, Queued, Tasks
<1>8. \A u, v \in Callers : loc'[u].pc = "closing" /\ loc'[v].pc = "closing" => u = v
  BY <1>1, <1>3 DEF Shape, Queued, Tasks
<1> QED
  BY <1>1, <1>4, <1>5, <1>6, <1>7, <1>8 DEF Shape, Queued

\* close() fails the clients in its list
LEMMA FailEffect ==
    ASSUME Shape, NEW a \in Callers, FailWaiting(a)
    PROVE  /\ loc[a].pc = "closing" /\ UNCHANGED <<null, self, connVars, history>>
           /\ loc[a].out \subseteq Clients /\ loc' \in [Tasks -> Locals]
           /\ loc'[a].pc = "idle" /\ loc'[a].conn = NoConn /\ loc'[a].next = "idle"
           /\ loc'[a].out = {} /\ loc'[a].job = NewConnection
           /\ \A u \in Tasks : u # a =>
                 /\ loc'[u].pc = IF u \in loc[a].out THEN "failed" ELSE loc[u].pc
                 /\ loc'[u].conn = loc[u].conn /\ loc'[u].next = loc[u].next
                 /\ loc'[u].out = loc[u].out /\ loc'[u].job = loc[u].job
<1>1. /\ loc[a].pc = "closing" /\ UNCHANGED <<null, self, connVars, history>>
      /\ loc' = [t \in Tasks |->
                   IF t \in loc[a].out THEN [loc[t] EXCEPT !.pc = "failed"]
                   ELSE IF t = a THEN At("idle", NoConn, "idle") ELSE loc[t]]
  BY DEF FailWaiting
<1>2. /\ a \in Tasks /\ Types /\ loc[a].out \subseteq Clients
  BY <1>1 DEF Tasks, Shape, Placed, Fits
<1>3. a \notin loc[a].out
  BY <1>2, OneRole
<1>4. "failed" \in PCs /\ "idle" \in PCs /\ "idle" \in Nexts
  BY DEF PCs, Nexts
<1>5. /\ loc' \in [Tasks -> Locals]
      /\ loc'[a].pc = "idle" /\ loc'[a].conn = NoConn /\ loc'[a].next = "idle"
      /\ loc'[a].out = {} /\ loc'[a].job = NewConnection
      /\ \A u \in Tasks : u # a =>
            /\ loc'[u].pc = IF u \in loc[a].out THEN "failed" ELSE loc[u].pc
            /\ loc'[u].conn = loc[u].conn /\ loc'[u].next = loc[u].next
            /\ loc'[u].out = loc[u].out /\ loc'[u].job = loc[u].job
  BY <1>1, <1>2, <1>3, <1>4, JobTypes DEF Types, Locals, At
<1> QED
  BY <1>1, <1>2, <1>5

\* It keeps the shape
LEMMA FailShape ==
    ASSUME Shape, NEW a \in Callers, FailWaiting(a)
    PROVE  Shape'
<1> DEFINE o == loc[a].out
<1>1. /\ loc[a].pc = "closing" /\ UNCHANGED <<null, self, connVars, history>>
      /\ o \subseteq Clients /\ loc' \in [Tasks -> Locals]
      /\ loc'[a].pc = "idle" /\ loc'[a].conn = NoConn /\ loc'[a].next = "idle"
      /\ loc'[a].out = {}
      /\ \A u \in Tasks : u # a =>
            /\ loc'[u].pc = IF u \in o THEN "failed" ELSE loc[u].pc
            /\ loc'[u].conn = loc[u].conn /\ loc'[u].next = loc[u].next
            /\ loc'[u].out = loc[u].out
  BY FailEffect
<1>2. a \in Tasks /\ a \notin Clients /\ a \notin Workers /\ Types /\ Clients \subseteq Tasks
  <2>1. a \in Tasks
    BY DEF Tasks
  <2> QED
    BY <2>1, OneRole DEF Shape, Tasks
<1>3. \A c \in o : loc[c].pc = "wait" /\ \A i \in DOMAIN self.waiting : self.waiting[i] # c
  BY <1>1, <1>2 DEF Shape, Queued
<1> HIDE DEF o
<1>4. Types'
  BY <1>1, <1>2 DEF Types, connVars, history
<1>5. Placed'
  <2> SUFFICES ASSUME NEW u \in Tasks PROVE Fits(u, loc[u])'
    BY DEF Placed
  <2>1. Fits(u, loc[u])
    BY DEF Shape, Placed
  <2>2. CASE u = a
    BY <1>1, <1>2, <2>2 DEF Fits, CallerPCs, Holding
  <2>3. CASE u # a /\ u \notin o
    BY <1>1, <2>3, <2>1 DEF Fits
  <2>4. CASE u # a /\ u \in o
    BY <1>1, <1>3, <2>4, OneRole, <2>1 DEF Fits, ClientPCs, Holding
  <2> QED
    BY <2>2, <2>3, <2>4
<1>6. Locked'
  <2>1. ASSUME NEW u \in Clients PROVE self'.lock = u <=> loc'[u].pc = "connect"
    BY <1>2, <1>3, <1>1 DEF Tasks, Shape, Locked
  <2> QED
    BY <1>1, <2>1 DEF Shape, Locked
<1>7. \A i \in DOMAIN self.waiting : self.waiting[i] # Gone => loc'[self.waiting[i]].pc = "wait"
  <2> SUFFICES ASSUME NEW i \in DOMAIN self.waiting, self.waiting[i] # Gone
               PROVE  loc'[self.waiting[i]].pc = "wait"
    OBVIOUS
  <2>1. self.waiting[i] \in Clients
    BY PoolFields, <1>2 DEF Types
  <2>2. self.waiting[i] \notin o
    BY <1>3
  <2>3. loc[self.waiting[i]].pc = "wait"
    BY DEF Shape, Queued
  <2> QED
    BY <1>1, <1>2, <2>1, <2>2, <2>3
<1>8. \A u \in Tasks : \A x \in loc'[u].out \cap Clients :
         loc'[x].pc = "wait" /\ \A i \in DOMAIN self.waiting : self.waiting[i] # x
  <2> SUFFICES ASSUME NEW u \in Tasks, NEW x \in loc'[u].out \cap Clients
               PROVE  loc'[x].pc = "wait" /\ \A i \in DOMAIN self.waiting : self.waiting[i] # x
    OBVIOUS
  <2>1. u # a /\ x \in loc[u].out \cap Clients
    BY <1>1
  <2>2. loc[x].pc = "wait" /\ \A i \in DOMAIN self.waiting : self.waiting[i] # x
    BY <2>1 DEF Shape, Queued
  <2>3. u \in Callers /\ loc[u].pc = "closing"
    BY <1>2, LocalFields, AsyncAssumption, <2>1 DEF Shape, Placed, Types, AsyncAssumption,
       Fits, CallerPCs
  <2>4. FALSE
    BY <1>1, <2>1, <2>3 DEF Shape, Queued
  <2> QED
    BY <2>4
<1>9. /\ \A u \in Callers : loc'[u].pc = "closing" => self'.closed
      /\ \A u, v \in Callers : loc'[u].pc = "closing" /\ loc'[v].pc = "closing" => u = v
  BY <1>1 DEF Tasks, Shape, Queued
<1> QED
  BY <1>1, <1>4, <1>5, <1>6, <1>7, <1>8, <1>9 DEF Shape, Queued

\* drain() closes the connections of the pool and replaces them
LEMMA DrainEffect ==
    ASSUME Shape, NEW a \in Callers, Drain(a)
    PROVE  /\ Calling(a, "drain") /\ UNCHANGED <<null, loc, leaked, cancels>>
           /\ Steady(self, self') /\ self'.closed = self.closed /\ self'.pool = <<>>
           /\ self'.waiting = self.waiting /\ self'.nconns = self.nconns
           /\ self'.growing = self.growing /\ self'.delayed = self.delayed
           /\ self'.tasks = self.tasks \o Copies(Len(self.pool), NewConnection)
           /\ status' = [c \in Conns |-> IF c \in Contents(self.pool) THEN "absent" ELSE status[c]]
           /\ old' = {c \in Conns : status'[c] # "absent"}
<1> DEFINE q == self.tasks \o Copies(Len(self.pool), NewConnection)
<1>1. /\ Calling(a, "drain") /\ UNCHANGED <<null, loc, leaked, cancels>>
      /\ self' = [self EXCEPT !.pool = <<>>, !.tasks = q]
      /\ status' = [c \in Conns |-> IF c \in Contents(self.pool) THEN "absent" ELSE status[c]]
      /\ old' = {c \in Conns : status'[c] # "absent"}
  BY DEF Drain
<1>2. self \in Pools /\ self.pool \in Seq(Conns) /\ self.tasks \in Seq(Jobs)
  BY PoolFields DEF Shape, Types
<1>3. q \in Seq(Jobs)
  <2>1. Len(self.pool) \in Nat
    BY <1>2
  <2> QED
    BY <1>2, <2>1, JobTypes, ConcatType
<1> HIDE DEF q
<1>4. /\ Steady(self, self') /\ self'.closed = self.closed /\ self'.pool = <<>>
      /\ self'.waiting = self.waiting /\ self'.nconns = self.nconns
      /\ self'.growing = self.growing /\ self'.delayed = self.delayed
      /\ self'.tasks = q
  <2>1. <<>> \in Seq(Conns)
    OBVIOUS
  <2> QED
    BY <1>1, <1>2, <1>3, <2>1 DEF Pools, Steady
<1> QED
  BY <1>1, <1>4 DEF q

\* check() takes the connections out, and the pool may grow
LEMMA CheckEffect ==
    ASSUME Shape, NEW a \in Callers, Check(a)
    PROVE  /\ Calling(a, "check") /\ UNCHANGED <<null, connVars, leaked, cancels>> /\ ~null
           /\ Steady(self, self') /\ self'.closed = self.closed /\ self'.pool = <<>>
           /\ self'.waiting = self.waiting /\ self'.delayed = self.delayed
           /\ \/ /\ self'.nconns = self.nconns /\ self'.growing = self.growing
                 /\ self'.tasks = self.tasks
              \/ /\ self.nconns < self.maxSize /\ ~self.growing
                 /\ self'.nconns = self.nconns + 1 /\ self'.growing
                 /\ self'.tasks = Append(self.tasks, AddConnection(TRUE, 0))
           /\ Contents(self.pool) \subseteq Conns /\ loc[a].out = {}
           /\ Moved(a, "checking", loc[a].conn, loc[a].next, Contents(self.pool), loc[a].job)
<1> DEFINE s == [self EXCEPT !.pool = <<>>]
           o == Contents(self.pool)
<1>1. /\ Calling(a, "check") /\ UNCHANGED <<null, connVars, leaked, cancels>> /\ ~null
      /\ self' = MaybeGrow(s)
      /\ loc' = [loc EXCEPT ![a].pc = "checking", ![a].out = o]
  BY DEF Check
<1>2. a \in Tasks /\ Types /\ self \in Pools /\ self.pool \in Seq(Conns)
  BY PoolFields DEF Shape, Types, Tasks
<1>3. o \in SUBSET Conns
  BY <1>2 DEF Contents
<1> HIDE DEF o
<1>4. Moved(a, "checking", loc[a].conn, loc[a].next, o, loc[a].job)
  BY <1>3, <1>1, <1>2, Names, MovesOut
<1>5. /\ Steady(self, s) /\ s.closed = self.closed /\ s.pool = <<>>
      /\ s.waiting = self.waiting /\ s.delayed = self.delayed
      /\ s.nconns = self.nconns /\ s.growing = self.growing /\ s.tasks = self.tasks
  <2>1. <<>> \in Seq(Conns)
    OBVIOUS
  <2> QED
    BY <1>2, <2>1 DEF Pools, Steady
<1> HIDE DEF s
<1>6. s \in Pools /\ s.lock = self.lock /\ s.minSize = self.minSize
      /\ s.maxSize = self.maxSize /\ s.event = self.event
  BY <1>5 DEF Steady
<1>7. loc[a].out = {}
  BY <1>1, <1>2 DEF Calling, Shape, Placed, Fits
<1>8. /\ self' \in Pools /\ self'.lock = s.lock /\ self'.minSize = s.minSize
      /\ self'.maxSize = s.maxSize /\ self'.event = s.event
      /\ self'.closed = s.closed /\ self'.pool = s.pool
      /\ self'.waiting = s.waiting /\ self'.delayed = s.delayed
      /\ \/ self'.nconns = s.nconns /\ self'.growing = s.growing /\ self'.tasks = s.tasks
         \/ /\ s.nconns < s.maxSize /\ ~s.growing
            /\ self'.nconns = s.nconns + 1 /\ self'.growing
            /\ self'.tasks = Append(s.tasks, AddConnection(TRUE, 0))
  BY <1>1, <1>2, <1>6, GrowFields
<1> QED
  BY <1>1, <1>3, <1>4, <1>5, <1>6, <1>7, <1>8 DEF Steady, o

\* check() goes on to the next connection
LEMMA CheckNextEffect ==
    ASSUME Shape, NEW a \in Callers, CheckNext(a)
    PROVE  /\ loc[a].pc = "checking" /\ UNCHANGED <<null, self, connVars, history>>
           /\ loc[a].conn = NoConn
           /\ \/ \E c \in Conns \cap loc[a].out :
                    Moved(a, "checked", c, "checking", loc[a].out \ {c}, loc[a].job)
              \/ /\ loc[a].out = {}
                 /\ Moved(a, "idle", NoConn, loc[a].next, loc[a].out, loc[a].job)
<1>1. /\ loc[a].pc = "checking" /\ UNCHANGED <<null, self, connVars, history>>
  BY DEF CheckNext
<1>2. a \in Tasks /\ Types /\ loc[a].conn = NoConn /\ loc[a].out \subseteq Conns
  BY <1>1 DEF Tasks, Shape, Placed, Fits, Holding
<1>3. ASSUME NEW c \in loc[a].out,
             loc' = [loc EXCEPT ![a].out = @ \ {c}, ![a].conn = c,
                                ![a].pc = "checked", ![a].next = "checking"]
      PROVE  c \in Conns /\ Moved(a, "checked", c, "checking", loc[a].out \ {c}, loc[a].job)
  <2>1. c \in Conns
    BY <1>2
  <2> QED
    BY <1>2, <1>3, <2>1, MovesTaken
<1>4. CASE loc[a].out = {} /\ loc' = GoTo(a, "idle")
  BY <1>1, <1>2, <1>4, Names, MovesPc
<1> QED
  BY <1>1, <1>2, <1>3, <1>4 DEF CheckNext

\* resize() may ask for connections
LEMMA ResizeEffect ==
    ASSUME Shape, NEW a \in Callers, NEW size \in NewSizes, Resize(a, size)
    PROVE  /\ Calling(a, "resize") /\ UNCHANGED <<null, loc, connVars, leaked, cancels>>
           /\ self' \in Pools /\ self'.lock = self.lock /\ self'.event = self.event
           /\ self'.closed = self.closed /\ self'.pool = self.pool
           /\ self'.waiting = self.waiting
           /\ self'.growing = self.growing /\ self'.delayed = self.delayed
           /\ self'.minSize = size[1] /\ self'.maxSize = size[2]
           /\ \E more \in Nat :
                 /\ self'.nconns = self.nconns + more
                 /\ self'.tasks = self.tasks \o Copies(more, NewConnection)
<1> DEFINE more == IF ~null /\ size[1] > self.minSize THEN size[1] - self.minSize ELSE 0
           q == self.tasks \o Copies(more, NewConnection)
           k == self.nconns + more
<1>1. /\ Calling(a, "resize") /\ UNCHANGED <<null, loc, connVars, leaked, cancels>>
      /\ self' = [self EXCEPT !.minSize = size[1], !.maxSize = size[2],
                              !.nconns = k, !.tasks = q]
  BY DEF Resize
<1>2. self \in Pools /\ self.nconns \in Int /\ self.minSize \in Nat /\ self.tasks \in Seq(Jobs)
  BY PoolFields DEF Shape, Types
<1>3. size[1] \in Nat /\ size[2] \in Nat
  BY AsyncAssumption DEF AsyncAssumption, SizePairs
<1>4. more \in Nat
  BY <1>2, <1>3
<1> HIDE DEF more
<1>5. k \in Int
  BY <1>2, <1>4
<1>6. q \in Seq(Jobs)
  BY <1>2, <1>4, JobTypes, ConcatType
<1> HIDE DEF q, k
<1>7. /\ self' \in Pools /\ self'.lock = self.lock /\ self'.event = self.event
      /\ self'.closed = self.closed /\ self'.pool = self.pool
      /\ self'.waiting = self.waiting
      /\ self'.growing = self.growing /\ self'.delayed = self.delayed
      /\ self'.minSize = size[1] /\ self'.maxSize = size[2]
      /\ self'.nconns = k /\ self'.tasks = q
  BY <1>1, <1>2, <1>3, <1>5, <1>6 DEF Pools
<1>8. \E m \in Nat : /\ self'.nconns = self.nconns + m
                     /\ self'.tasks = self.tasks \o Copies(m, NewConnection)
  BY <1>4, <1>7 DEF q, k
<1> QED
  BY <1>1, <1>7, <1>8

\* wait()
LEMMA WaitEffect ==
    ASSUME Shape, NEW a \in Callers, Wait(a)
    PROVE  /\ Calling(a, "wait") /\ UNCHANGED <<null, connVars, leaked, cancels>>
           /\ self.event = "none" /\ ~self.closed
           /\ self' \in Pools /\ self'.lock = self.lock
           /\ self'.minSize = self.minSize /\ self'.maxSize = self.maxSize
           /\ self'.closed = self.closed /\ self'.pool = self.pool
           /\ self'.waiting = self.waiting /\ self'.nconns = self.nconns
           /\ self'.growing = self.growing /\ self'.delayed = self.delayed
           /\ self'.tasks = self.tasks \/ (null /\ self'.tasks = Append(self.tasks, NewConnection))
           /\ \/ UNCHANGED loc
              \/ Moved(a, "full", loc[a].conn, loc[a].next, loc[a].out, loc[a].job)
<1>1. /\ Calling(a, "wait") /\ UNCHANGED <<null, connVars, leaked, cancels>>
      /\ self.event = "none" /\ ~self.closed
  BY DEF Wait
<1>2. a \in Tasks /\ Types /\ self \in Pools /\ self.tasks \in Seq(Jobs)
  BY PoolFields DEF Shape, Types, Tasks
<1>3. CASE UNCHANGED <<self, loc>>
  BY <1>1, <1>2, <1>3
<1>4. CASE ~UNCHANGED <<self, loc>>
  <2> DEFINE q == IF null THEN Append(self.tasks, NewConnection) ELSE self.tasks
  <2>1. self' = [self EXCEPT !.event = "unset", !.tasks = q] /\ loc' = GoTo(a, "full")
    BY <1>4 DEF Wait
  <2>2. /\ q \in Seq(Jobs)
        /\ q = self.tasks \/ (null /\ q = Append(self.tasks, NewConnection))
    BY <1>2, JobTypes, AppendType
  <2> HIDE DEF q
  <2>3. /\ self' \in Pools /\ self'.lock = self.lock
        /\ self'.minSize = self.minSize /\ self'.maxSize = self.maxSize
        /\ self'.closed = self.closed /\ self'.pool = self.pool
        /\ self'.waiting = self.waiting /\ self'.nconns = self.nconns
        /\ self'.growing = self.growing /\ self'.delayed = self.delayed
        /\ self'.tasks = q
    BY <1>2, <2>1, <2>2 DEF Pools
  <2>4. Moved(a, "full", loc[a].conn, loc[a].next, loc[a].out, loc[a].job)
    BY <1>2, <2>1, Names, MovesPc
  <2> QED
    BY <1>1, <2>2, <2>3, <2>4
<1> QED
  BY <1>3, <1>4

\* wait() ends
LEMMA WaitDoneEffect ==
    ASSUME Shape, NEW a \in Callers, WaitDone(a)
    PROVE  /\ loc[a].pc = "full" /\ UNCHANGED <<null, connVars, history>>
           /\ self' \in Pools /\ self'.lock = self.lock
           /\ self'.minSize = self.minSize /\ self'.maxSize = self.maxSize
           /\ self'.closed = self.closed /\ self'.pool = self.pool
           /\ self'.waiting = self.waiting /\ self'.nconns = self.nconns
           /\ self'.growing = self.growing /\ self'.delayed = self.delayed
           /\ self'.tasks = self.tasks /\ self'.event \in {self.event, "none"}
           /\ Moved(a, "idle", loc[a].conn, loc[a].next, loc[a].out, loc[a].job)
BY Names, MovesPc DEF WaitDone, Shape, Types, Tasks, Pools

\* The scheduler queues a connection attempt
LEMMA TickEffect ==
    ASSUME Shape, Tick
    PROVE  \E r \in Retries :
              /\ self.delayed[r] > 0 /\ UNCHANGED <<null, loc, connVars, history>>
              /\ Steady(self, self') /\ self'.closed = self.closed
              /\ self'.pool = self.pool /\ self'.waiting = self.waiting
              /\ self'.nconns = self.nconns /\ self'.growing = self.growing
              /\ self'.delayed = [self.delayed EXCEPT ![r] = self.delayed[r] - 1]
              /\ self'.tasks = Append(self.tasks, r)
<1>1. PICK r \in Retries :
         /\ self.delayed[r] > 0
         /\ self' = RunTask([self EXCEPT !.delayed[r] = @ - 1], r)
  BY DEF Tick
<1> DEFINE v == self.delayed[r] - 1
           s == [self EXCEPT !.delayed[r] = v]
<1>2. self \in Pools /\ self.delayed \in [Retries -> Nat]
  BY PoolFields DEF Shape, Types
<1>3. v \in Nat
  <2>1. self.delayed[r] \in Nat
    BY <1>2
  <2> QED
    BY <1>1, <2>1
<1> HIDE DEF v
<1>4. /\ s \in Pools /\ s.delayed = [self.delayed EXCEPT ![r] = v]
      /\ s.closed = self.closed /\ s.lock = self.lock /\ s.pool = self.pool
      /\ s.waiting = self.waiting /\ s.nconns = self.nconns
      /\ s.growing = self.growing
      /\ s.minSize = self.minSize /\ s.maxSize = self.maxSize
      /\ s.event = self.event /\ s.tasks = self.tasks
  BY <1>2, <1>3, DelayFields
<1>5. self' = RunTask(s, r) /\ r \in Jobs
  BY <1>1, JobTypes DEF v
<1> HIDE DEF s
<1>6. /\ self' \in Pools /\ self'.delayed = s.delayed
      /\ self'.closed = s.closed /\ self'.lock = s.lock /\ self'.pool = s.pool
      /\ self'.waiting = s.waiting /\ self'.nconns = s.nconns
      /\ self'.growing = s.growing
      /\ self'.minSize = s.minSize /\ self'.maxSize = s.maxSize
      /\ self'.event = s.event /\ self'.tasks = Append(s.tasks, r)
  BY <1>4, <1>5, RunTaskFields
<1>7. UNCHANGED <<null, loc, connVars, history>>
  BY DEF Tick
<1> QED
  BY <1>1, <1>4, <1>6, <1>7 DEF Steady, v

\* The scheduler queues the shrink task
LEMMA TickShrinkEffect ==
    ASSUME Shape, TickShrink
    PROVE  /\ UNCHANGED <<null, loc, connVars, history>>
           /\ Steady(self, self') /\ self'.closed = self.closed
           /\ self'.pool = self.pool /\ self'.waiting = self.waiting
           /\ self'.nconns = self.nconns /\ self'.growing = self.growing
           /\ self'.delayed = self.delayed
           /\ self'.tasks = Append(self.tasks, ShrinkPool)
<1> DEFINE v == self.shrinks - 1
           s == [self EXCEPT !.shrinks = v]
<1>1. /\ self.shrinks > 0 /\ self' = RunTask(s, ShrinkPool)
      /\ UNCHANGED <<null, loc, connVars, history>>
  BY DEF TickShrink
<1>2. self \in Pools /\ self.shrinks \in Nat
  BY PoolFields DEF Shape, Types
<1>3. v \in Nat
  BY <1>1, <1>2
<1> HIDE DEF v
<1>4. /\ s \in Pools /\ s.delayed = self.delayed
      /\ s.closed = self.closed /\ s.lock = self.lock /\ s.pool = self.pool
      /\ s.waiting = self.waiting /\ s.nconns = self.nconns
      /\ s.growing = self.growing
      /\ s.minSize = self.minSize /\ s.maxSize = self.maxSize
      /\ s.event = self.event /\ s.tasks = self.tasks
  BY <1>2, <1>3 DEF Pools
<1> HIDE DEF s
<1>5. /\ self' \in Pools /\ self'.delayed = s.delayed
      /\ self'.closed = s.closed /\ self'.lock = s.lock /\ self'.pool = s.pool
      /\ self'.waiting = s.waiting /\ self'.nconns = s.nconns
      /\ self'.growing = s.growing
      /\ self'.minSize = s.minSize /\ self'.maxSize = s.maxSize
      /\ self'.event = s.event /\ self'.tasks = Append(s.tasks, ShrinkPool)
  BY <1>1, <1>4, JobTypes, RunTaskFields
<1> QED
  BY <1>1, <1>4, <1>5 DEF Steady

(* The steps of the callers and of the scheduler keep the shape *)

\* What a method that is called finds, in an idle caller
LEMMA CallerFields ==
    ASSUME Shape, NEW a \in Callers
    PROVE  /\ a \in Tasks /\ a \notin Clients /\ a \notin Workers /\ Types
           /\ Fits(a, loc[a]) /\ loc[a] \in Locals
           /\ \A u \in Clients : u # a
           /\ loc[a].pc = "idle" => loc[a].out = {} /\ loc[a].conn = NoConn
           /\ \A m : Calling(a, m) => loc[a].pc = "idle"
BY OneRole DEF Tasks, Shape, Placed, Types, Fits, Holding, Calling

\* A method only changes the pool, and closes connections
LEMMA MethodShape ==
    ASSUME Shape, NEW a \in Callers,
           Drain(a) \/ (\E size \in NewSizes : Resize(a, size))
    PROVE  Shape'
<1>0. /\ Types /\ \A m : Calling(a, m) /\ UNCHANGED <<leaked, cancels>> =>
                leaked' \in Nat /\ calls' \in SUBSET Methods /\ cancels' \in Nat
  BY HistoryTypes DEF Shape
<1>1. CASE Drain(a)
  BY <1>1, DrainEffect, <1>0, StillShape DEF Steady, Types
<1>2. ASSUME NEW size \in NewSizes, Resize(a, size)
      PROVE  Shape'
  BY <1>2, ResizeEffect, <1>0, StillShape DEF Types, connVars
<1> QED
  BY <1>1, <1>2

\* check() keeps the shape
LEMMA CheckShape ==
    ASSUME Shape, NEW a \in Callers, Check(a)
    PROVE  Shape'
<1>1. /\ Calling(a, "check") /\ UNCHANGED <<null, connVars, leaked, cancels>> /\ ~null
      /\ self' \in Pools /\ self'.lock = self.lock
      /\ self'.closed = self.closed /\ self'.pool = <<>>
      /\ self'.waiting = self.waiting
      /\ Contents(self.pool) \subseteq Conns
      /\ Moved(a, "checking", loc[a].conn, loc[a].next, Contents(self.pool), loc[a].job)
  BY CheckEffect DEF Steady
<1>2. leaked' \in Nat /\ calls' \in SUBSET Methods /\ cancels' \in Nat
  BY <1>1, HistoryTypes DEF Shape
<1>3. /\ a \in Tasks /\ a \notin Clients /\ a \notin Workers /\ Fits(a, loc[a])
      /\ loc[a].pc = "idle" /\ loc[a].out = {} /\ loc[a].conn = NoConn
      /\ \A u \in Clients : u # a
  BY <1>1, CallerFields
<1>4. Fits(a, loc'[a])
  BY <1>1, <1>3 DEF Moved, Fits, CallerPCs, Holding
<1>5. Contents(self.pool) \cap Clients \subseteq loc[a].out
  BY <1>1, AsyncAssumption DEF AsyncAssumption
<1>6. \A u \in Clients : self'.lock = u <=> IF u = a THEN "checking" = "connect" ELSE self.lock = u
  BY <1>1, <1>3
<1>7. null => self'.pool = <<>>
  BY <1>1
<1>8. self'.waiting \in {self.waiting, <<>>} /\ loc[a].pc # "wait" /\ (self.closed => self'.closed)
  BY <1>1, <1>3
<1> QED
  BY <1>1, <1>2, <1>3, <1>4, <1>5, <1>6, <1>7, <1>8, SoloShape

\* So does its next connection
LEMMA CheckNextShape ==
    ASSUME Shape, NEW a \in Callers, CheckNext(a)
    PROVE  Shape'
<1>1. /\ loc[a].pc = "checking" /\ UNCHANGED <<null, self, connVars, history>>
      /\ loc[a].conn = NoConn
  BY CheckNextEffect
<1>2. /\ a \in Tasks /\ a \notin Clients /\ a \notin Workers /\ Fits(a, loc[a]) /\ Types
      /\ \A u \in Clients : u # a
  BY CallerFields
<1>3. /\ leaked' \in Nat /\ calls' \in SUBSET Methods /\ cancels' \in Nat
      /\ UNCHANGED <<null, connVars>>
  BY <1>1, <1>2, HistoryTypes
<1>4. /\ self' \in Pools /\ self'.waiting \in {self.waiting, <<>>} /\ loc[a].pc # "wait"
      /\ self.closed => self'.closed
  BY <1>1, <1>2 DEF Types
<1>5. null => self'.pool = <<>>
  BY <1>1 DEF Shape, Locked
<1>6. CASE \E c \in Conns \cap loc[a].out :
              Moved(a, "checked", c, "checking", loc[a].out \ {c}, loc[a].job)
  <2>1. PICK c \in Conns \cap loc[a].out :
                Moved(a, "checked", c, "checking", loc[a].out \ {c}, loc[a].job)
    BY <1>6
  <2>2. Fits(a, loc'[a])
    BY <2>1, <1>1, <1>2, AsyncAssumption DEF Moved, AsyncAssumption, Fits, CallerPCs, Holding
  <2>3. \A u \in Clients : self'.lock = u <=> IF u = a THEN "checked" = "connect" ELSE self.lock = u
    BY <1>1, <1>2
  <2>4. (loc[a].out \ {c}) \cap Clients \subseteq loc[a].out
    OBVIOUS
  <2> QED
    BY <1>2, <1>3, <1>4, <1>5, <2>1, <2>2, <2>3, <2>4, SoloShape
<1>7. CASE /\ loc[a].out = {}
           /\ Moved(a, "idle", NoConn, loc[a].next, loc[a].out, loc[a].job)
  <2>2. Fits(a, loc'[a])
    BY <1>7, <1>2 DEF Moved, Fits, CallerPCs, Holding
  <2>3. \A u \in Clients : self'.lock = u <=> IF u = a THEN "idle" = "connect" ELSE self.lock = u
    BY <1>1, <1>2
  <2>4. loc[a].out \cap Clients \subseteq loc[a].out
    OBVIOUS
  <2> QED
    BY <1>2, <1>3, <1>4, <1>5, <1>7, <2>2, <2>3, <2>4, SoloShape
<1> QED
  BY <1>6, <1>7, CheckNextEffect

\* So does the end of a check
LEMMA CheckedShape ==
    ASSUME Shape, NEW a \in Callers, Checked(a)
    PROVE  Shape'
BY CheckedEffect, ReplaceShape, AddShape DEF Checked

\* So do wait(), its end, and the cancellation of close()
LEMMA WaitShape ==
    ASSUME Shape, NEW a \in Callers, Wait(a) \/ WaitDone(a) \/ CloseCancelled(a)
    PROVE  Shape'
<1>0. /\ a \in Tasks /\ a \notin Clients /\ a \notin Workers /\ Fits(a, loc[a]) /\ Types
      /\ \A u \in Clients : u # a
      /\ null => self.pool = <<>>
  BY CallerFields DEF Shape, Locked
<1>1. CASE Wait(a)
  <2>1. /\ Calling(a, "wait") /\ UNCHANGED <<null, connVars, leaked, cancels>>
        /\ self' \in Pools /\ self'.lock = self.lock
        /\ self'.closed = self.closed /\ self'.pool = self.pool
        /\ self'.waiting = self.waiting
        /\ \/ UNCHANGED loc
           \/ Moved(a, "full", loc[a].conn, loc[a].next, loc[a].out, loc[a].job)
    BY <1>1, WaitEffect
  <2>2. leaked' \in Nat /\ calls' \in SUBSET Methods /\ cancels' \in Nat
    BY <1>0, <2>1, HistoryTypes
  <2>3. loc[a].pc = "idle" /\ loc[a].out = {} /\ loc[a].conn = NoConn
    BY <2>1, CallerFields
  <2>4. CASE UNCHANGED loc
    <3>1. Types'
      BY <1>0, <2>1, <2>2, <2>4 DEF Types, connVars
    <3> QED
      BY <2>1, <2>4, <3>1, StillShape
  <2>5. CASE Moved(a, "full", loc[a].conn, loc[a].next, loc[a].out, loc[a].job)
    <3>1. Fits(a, loc'[a])
      BY <2>3, <2>5, <1>0 DEF Moved, Fits, CallerPCs, Holding
    <3>2. \A u \in Clients : self'.lock = u <=> IF u = a THEN "full" = "connect" ELSE self.lock = u
      BY <1>0, <2>1
    <3>3. /\ self'.waiting \in {self.waiting, <<>>} /\ loc[a].pc # "wait"
          /\ self.closed => self'.closed
          /\ null => self'.pool = <<>>
      BY <1>0, <2>1, <2>3
    <3>4. loc[a].out \cap Clients \subseteq loc[a].out
      OBVIOUS
    <3> QED
      BY <1>0, <2>1, <2>2, <2>5, <3>1, <3>2, <3>3, <3>4, SoloShape
  <2> QED
    BY <2>1, <2>4, <2>5
<1>2. CASE WaitDone(a)
  <2>1. /\ loc[a].pc = "full" /\ UNCHANGED <<null, connVars, history>>
        /\ self' \in Pools /\ self'.lock = self.lock
        /\ self'.closed = self.closed /\ self'.pool = self.pool
        /\ self'.waiting = self.waiting
        /\ Moved(a, "idle", loc[a].conn, loc[a].next, loc[a].out, loc[a].job)
    BY <1>2, WaitDoneEffect
  <2>2. /\ leaked' \in Nat /\ calls' \in SUBSET Methods /\ cancels' \in Nat
        /\ UNCHANGED <<null, connVars>>
    BY <1>0, <2>1, HistoryTypes
  <2>3. Fits(a, loc'[a])
    BY <1>0, <2>1 DEF Fits, Holding, Moved, CallerPCs
  <2>4. \A u \in Clients : self'.lock = u <=> IF u = a THEN "idle" = "connect" ELSE self.lock = u
    BY <1>0, <2>1
  <2>5. /\ self'.waiting \in {self.waiting, <<>>} /\ loc[a].pc # "wait"
        /\ self.closed => self'.closed
        /\ null => self'.pool = <<>>
    BY <1>0, <2>1
  <2>6. loc[a].out \cap Clients \subseteq loc[a].out
    OBVIOUS
  <2> QED
    BY <1>0, <2>1, <2>2, <2>3, <2>4, <2>5, <2>6, SoloShape
<1>3. CASE CloseCancelled(a)
  <2>1. /\ loc[a].pc = "closing" /\ Cancelled
        /\ loc' = [loc EXCEPT ![a] = At("idle", NoConn, "idle")]
        /\ UNCHANGED <<null, self, connVars, leaked, calls>>
    BY <1>3 DEF CloseCancelled
  <2>2. Moved(a, "idle", NoConn, "idle", {}, NewConnection)
    BY <1>0, <2>1, Names, MovesRestarted DEF Restarted
  <2>3. /\ leaked' \in Nat /\ calls' \in SUBSET Methods /\ cancels' \in Nat
        /\ UNCHANGED <<null, connVars>>
    BY <1>0, <2>1, HistoryTypes
  <2>4. Fits(a, loc'[a])
    BY <2>2, <1>0 DEF Moved, Fits, CallerPCs, Holding
  <2>5. \A u \in Clients : self'.lock = u <=> IF u = a THEN "idle" = "connect" ELSE self.lock = u
    BY <1>0, <2>1
  <2>6. /\ self'.waiting \in {self.waiting, <<>>} /\ loc[a].pc # "wait"
        /\ self.closed => self'.closed
        /\ null => self'.pool = <<>>
        /\ self' \in Pools
    BY <1>0, <2>1 DEF Types
  <2>7. {} \cap Clients \subseteq loc[a].out
    OBVIOUS
  <2> QED
    BY <1>0, <2>2, <2>3, <2>4, <2>5, <2>6, <2>7, SoloShape
<1> QED
  BY <1>1, <1>2, <1>3

\* So does the scheduler
LEMMA TickShape ==
    ASSUME Shape, Tick \/ TickShrink \/ Break
    PROVE  Shape'
<1>0. Types
  BY DEF Shape
<1>1. CASE Tick \/ TickShrink
  BY <1>1, TickEffect, TickShrinkEffect, <1>0, StillShape DEF Steady, Types, connVars, history
<1>2. CASE Break
  BY <1>2, <1>0, PoolFields, StillShape DEF Break, Types, history, LiveStatus
<1> QED
  BY <1>1, <1>2

\* Every step keeps the shape, if the connections of the queued tasks are open
LEMMA NextShape ==
    ASSUME Shape, TasksOpen, Next
    PROVE  Shape'
<1>1. ASSUME NEW c \in Clients, ClientStep(c) \/ PutStep(c) \/ Start(c) \/ Interrupt(c)
      PROVE  Shape'
  BY <1>1, QueueUpShape, InterruptedShape, PutShape, ClientShape
     DEF ClientStep, PutStep, Start, Interrupt
<1>2. ASSUME NEW w \in Workers, WorkerStep(w)
      PROVE  Shape'
  BY <1>2, WorkerShape DEF WorkerStep
<1>3. ASSUME NEW a \in Callers, CallerStep(a) \/ Call(a) \/ CloseCancelled(a)
      PROVE  Shape'
  BY <1>3, FailShape, CheckNextShape, CheckedShape, WaitShape, CloseShapes, MethodShape,
     CheckShape DEF CallerStep, Call
<1> QED
  BY <1>1, <1>2, <1>3, TaskShape, TickShape DEF Next

-----------------------------------------------------------------------------
(* Where the connections are *)

\* A pool P, a queue J of tasks, the connections in hand H and in the lists O have the
\* connections of Lv, each in one place
OwnedIn(P, J, H, O, Lv) ==
    /\ Distinct(P) /\ OneEach(TaskConns(J), NoConn) /\ OneEach(H, NoConn)
    /\ \A t, u \in DOMAIN O : \A c : c \in O[t] /\ c \in O[u] => t = u
    /\ \A c \in Elements(P) : /\ c \notin Images(TaskConns(J), NoConn)
                              /\ c \notin Images(H, NoConn)
                              /\ \A t \in DOMAIN O : c \notin O[t]
    /\ \A c \in Images(TaskConns(J), NoConn) : /\ c \notin Images(H, NoConn)
                                               /\ \A t \in DOMAIN O : c \notin O[t]
    /\ \A c \in Images(H, NoConn) : \A t \in DOMAIN O : c \notin O[t]
    /\ \A c : c \in Lv <=> \/ c \in Elements(P) \/ c \in Images(TaskConns(J), NoConn)
                           \/ c \in Images(H, NoConn) \/ \E t \in DOMAIN O : c \in O[t]

\* A connection is taken in hand
LEMMA GiveHand ==
    ASSUME NEW P, NEW J, NEW H, NEW O, NEW Lv, OwnedIn(P, J, H, O, Lv),
           NEW t \in DOMAIN H, H[t] = NoConn, NEW c, c \notin Lv, c # NoConn,
           NEW G, DOMAIN G = DOMAIN H, G[t] = c, \A u \in DOMAIN H : u # t => G[u] = H[u]
    PROVE  OwnedIn(P, J, G, O, Lv \cup {c})
BY DEF OwnedIn, OneEach, Images

\* ... and let go of
LEMMA TakeHand ==
    ASSUME NEW P, NEW J, NEW H, NEW O, NEW Lv, OwnedIn(P, J, H, O, Lv),
           NEW t \in DOMAIN H, NEW c, H[t] = c, c # NoConn,
           NEW G, DOMAIN G = DOMAIN H, G[t] = NoConn, \A u \in DOMAIN H : u # t => G[u] = H[u]
    PROVE  OwnedIn(P, J, G, O, Lv \ {c}) /\ c \in Lv
BY DEF OwnedIn, Images, OneEach

\* A connection is put in the pool
LEMMA GivePool ==
    ASSUME NEW P \in Seq(Conns), NEW J, NEW H, NEW O, NEW Lv, OwnedIn(P, J, H, O, Lv),
           NEW c \in Conns, c \notin Lv
    PROVE  OwnedIn(Append(P, c), J, H, O, Lv \cup {c})
BY ElementsAppend DEF OwnedIn

\* ... and taken from there
LEMMA TakePool ==
    ASSUME NEW P \in Seq(Conns), NEW J, NEW H, NEW O, NEW Lv, OwnedIn(P, J, H, O, Lv),
           P # <<>>
    PROVE  OwnedIn(Tail(P), J, H, O, Lv \ {Head(P)}) /\ Head(P) \in Lv
BY ElementsTail DEF OwnedIn

\* The pool is emptied
LEMMA ClearPool ==
    ASSUME NEW P, NEW J, NEW H, NEW O, NEW Lv, OwnedIn(P, J, H, O, Lv)
    PROVE  OwnedIn(<<>>, J, H, O, Lv \ Elements(P)) /\ Elements(P) \subseteq Lv
  BY ElementsEmpty DEF OwnedIn

\* A task is queued
LEMMA GiveJob ==
    ASSUME NEW P, NEW J \in Seq(Jobs), NEW H, NEW O, NEW Lv, OwnedIn(P, J, H, O, Lv),
           NEW j \in Jobs, NEW c, j.conn = c, c \notin Lv
    PROVE  OwnedIn(P, Append(J, j), H, O, Lv \cup ({c} \ {NoConn}))
BY ConnsAppend DEF OwnedIn

\* ... without a connection
LEMMA GiveJobNone ==
    ASSUME NEW P, NEW J \in Seq(Jobs), NEW H, NEW O, NEW Lv, OwnedIn(P, J, H, O, Lv),
           NEW j \in Jobs, j.conn = NoConn
    PROVE  OwnedIn(P, Append(J, j), H, O, Lv)
<1>1. OneEach(TaskConns(J), NoConn) /\ NoConn \notin Images(TaskConns(J), NoConn)
  BY DEF OwnedIn, Images
<1>2. /\ OneEach(TaskConns(Append(J, j)), NoConn)
      /\ Images(TaskConns(Append(J, j)), NoConn)
           = Images(TaskConns(J), NoConn) \cup ({NoConn} \ {NoConn})
  BY <1>1, ConnsAppend
<1>3. Images(TaskConns(Append(J, j)), NoConn) = Images(TaskConns(J), NoConn)
  BY <1>2
<1> QED
  BY <1>2, <1>3 DEF OwnedIn

\* ... or several
LEMMA GiveJobs ==
    ASSUME NEW P, NEW J \in Seq(Jobs), NEW H, NEW O, NEW Lv, OwnedIn(P, J, H, O, Lv),
           NEW n \in Nat, NEW j \in Jobs, j.conn = NoConn
    PROVE  OwnedIn(P, J \o Copies(n, j), H, O, Lv)
<1>1. Copies(n, j) \in Seq(Jobs) /\ \A i \in DOMAIN Copies(n, j) : Copies(n, j)[i] = j
  BY CopiesType DEF Copies
<1>2. OneEach(TaskConns(J), NoConn)
  BY DEF OwnedIn
<1>3. /\ OneEach(TaskConns(J \o Copies(n, j)), NoConn)
      /\ Images(TaskConns(J \o Copies(n, j)), NoConn) = Images(TaskConns(J), NoConn)
  BY <1>1, <1>2, ConnsConcat
<1> QED
  BY <1>3 DEF OwnedIn

\* The first task is taken
LEMMA TakeJob ==
    ASSUME NEW P, NEW J \in Seq(Jobs), NEW H, NEW O, NEW Lv, OwnedIn(P, J, H, O, Lv),
           J # <<>>, NEW c, Head(J).conn = c
    PROVE  /\ c # NoConn => OwnedIn(P, Tail(J), H, O, Lv \ {c}) /\ c \in Lv
           /\ c = NoConn => OwnedIn(P, Tail(J), H, O, Lv)
<1> DEFINE V == Images(TaskConns(J), NoConn)
           W == Images(TaskConns(Tail(J)), NoConn)
<1>1. OneEach(TaskConns(J), NoConn)
  BY DEF OwnedIn
<1>2. OneEach(TaskConns(Tail(J)), NoConn) /\ W = V \ {c} /\ c \in V \cup {NoConn}
  BY <1>1, ConnsTail
<1>3. NoConn \notin V
  BY DEF Images
<1>4. CASE c # NoConn
  BY <1>2, <1>3, <1>4 DEF OwnedIn
<1>5. CASE c = NoConn
  <2>1. W = V
    BY <1>2, <1>3, <1>5
  <2> QED
    BY <1>2, <1>5, <2>1 DEF OwnedIn
<1> QED
  BY <1>4, <1>5

\* Task t gets a list, of connections nobody else has
LEMMA GiveOut ==
    ASSUME NEW P, NEW J, NEW H, NEW O, NEW Lv, OwnedIn(P, J, H, O, Lv),
           NEW t \in DOMAIN O, O[t] = {}, NEW S, S \cap Lv = {},
           NEW Q, DOMAIN Q = DOMAIN O, Q[t] = S, \A u \in DOMAIN O : u # t => Q[u] = O[u]
    PROVE  OwnedIn(P, J, H, Q, Lv \cup S)
BY DEF OwnedIn

\* ... and takes one from it
LEMMA TakeOut ==
    ASSUME NEW P, NEW J, NEW H, NEW O, NEW Lv, OwnedIn(P, J, H, O, Lv),
           NEW t \in DOMAIN O, NEW c \in O[t],
           NEW Q, DOMAIN Q = DOMAIN O, Q[t] = O[t] \ {c},
           \A u \in DOMAIN O : u # t => Q[u] = O[u]
    PROVE  OwnedIn(P, J, H, Q, Lv \ {c}) /\ c \in Lv
BY DEF OwnedIn

(* Every open connection has one place *)

Hand == [t \in Tasks |-> loc[t].conn]
Lists == [t \in Tasks |-> loc[t].out \cap Conns]
Live == {c \in Conns : status[c] # "absent"}

Owned == OwnedIn(self.pool, self.tasks, Hand, Lists, Live)

\* Task t, whose hands are empty otherwise, has connection c, that is nowhere else, and the
\* tasks of s are left
HandWithout(t) == [u \in Tasks |-> IF u = t THEN NoConn ELSE loc[u].conn]
Freed(t, c, s) == OwnedIn(self.pool, s.tasks, HandWithout(t), Lists, Live \ {c})

\* A task's connection is nowhere else
LEMMA FreedByHand ==
    ASSUME Owned, NEW t \in Tasks, NEW c \in Conns, loc[t].conn = c
    PROVE  Freed(t, c, self) /\ status[c] # "absent"
<1>1. c # NoConn
  BY AsyncAssumption DEF AsyncAssumption
<1> DEFINE H == Hand
           G == HandWithout(t)
<1>2. /\ t \in DOMAIN H /\ H[t] = c /\ DOMAIN G = DOMAIN H /\ G[t] = NoConn
      /\ \A u \in DOMAIN H : u # t => G[u] = H[u]
  BY DEF Hand, HandWithout
<1>3. OwnedIn(self.pool, self.tasks, H, Lists, Live)
  BY DEF Owned
<1> HIDE DEF H, G
<1>4. OwnedIn(self.pool, self.tasks, G, Lists, Live \ {c}) /\ c \in Live
  BY <1>1, <1>2, <1>3, TakeHand
<1> QED
  BY <1>4 DEF Freed, G, Live

\* A task without a connection
LEMMA EmptyHand ==
    ASSUME NEW t \in Tasks, loc[t].conn = NoConn
    PROVE  HandWithout(t) = Hand
  BY DEF Hand, HandWithout

\* The connection of the first task is nowhere else
LEMMA FreedByTask ==
    ASSUME Owned, Types, NEW t \in Tasks, loc[t].conn = NoConn, self.tasks # <<>>,
           NEW c \in Conns, Head(self.tasks).conn = c
    PROVE  Freed(t, c, Taken) /\ status[c] # "absent"
<1>1. c # NoConn
  BY AsyncAssumption DEF AsyncAssumption
<1>2. self.tasks \in Seq(Jobs) /\ Taken.tasks = Tail(self.tasks)
  BY PoolFields, TakenFields DEF Types
<1> DEFINE J == self.tasks
           Lv == Live
<1>3. OwnedIn(self.pool, J, Hand, Lists, Lv)
  BY DEF Owned
<1>4. J \in Seq(Jobs) /\ J # <<>> /\ Head(J).conn = c
  BY <1>2
<1> HIDE DEF J, Lv
<1>5. OwnedIn(self.pool, Tail(J), Hand, Lists, Lv \ {c}) /\ c \in Lv
  BY <1>1, <1>3, <1>4, TakeJob
<1> QED
  BY <1>2, <1>5, EmptyHand DEF Freed, Live, J, Lv

\* A connection that is not open is nowhere
LEMMA FreedNew ==
    ASSUME Owned, NEW t \in Tasks, loc[t].conn = NoConn, NEW c \in Conns,
           status[c] = "absent"
    PROVE  Freed(t, c, self)
<1>1. Live \ {c} = Live
  BY DEF Live
<1> QED
  BY <1>1, EmptyHand DEF Freed, Owned

\* Queued tasks have open connections
LEMMA OwnedTasks ==
    ASSUME Owned, Types
    PROVE  TasksOpen
<1> SUFFICES ASSUME NEW i \in DOMAIN self.tasks, self.tasks[i].kind = "return"
             PROVE  status[self.tasks[i].conn] # "absent"
  BY DEF TasksOpen
<1>1. self.tasks[i] \in Jobs
  BY PoolFields DEF Types
<1>2. self.tasks[i].conn # NoConn
  BY <1>1, JobFields, AsyncAssumption DEF AsyncAssumption
<1>3. self.tasks[i].conn \in Images(TaskConns(self.tasks), NoConn)
  BY <1>2 DEF Images, TaskConns
<1> QED
  BY <1>3 DEF Owned, OwnedIn, Live

(* Passing a connection on *)

\* What the forms of a step do to the hands, the lists and the open connections
LEMMA LeftHands ==
    ASSUME NEW t \in Tasks, NEW n, Left(t, n)
    PROVE  Hand' = HandWithout(t) /\ Lists' = Lists
  BY DEF Left, Moved, Hand, HandWithout, Lists

\* The hands and lists after a step of one task
LEMMA MovedHands ==
    ASSUME NEW t \in Tasks, NEW p, NEW c, NEW n, NEW j, Moved(t, p, c, n, loc[t].out, j)
    PROVE  /\ DOMAIN Hand' = DOMAIN HandWithout(t) /\ Hand'[t] = c
           /\ \A u \in DOMAIN HandWithout(t) : u # t => Hand'[u] = HandWithout(t)[u]
           /\ t \in DOMAIN HandWithout(t) /\ HandWithout(t)[t] = NoConn
           /\ Lists' = Lists
           /\ c = NoConn => Hand' = HandWithout(t)
           /\ c = loc[t].conn => Hand' = Hand
  BY DEF Moved, Hand, HandWithout, Lists

\* The open connections after the step
LEMMA BecomesLive ==
    ASSUME NEW c \in Conns, NEW st, Becomes(c, st)
    PROVE  /\ st = "absent" => Live' = Live \ {c}
           /\ st # "absent" => Live' = (Live \ {c}) \cup {c}
  BY DEF Becomes, Live

\* Owned, primed
LEMMA OwnedNext ==
    ASSUME NEW P, NEW J, NEW H, NEW O, NEW Lv, OwnedIn(P, J, H, O, Lv),
           self'.pool = P, self'.tasks = J, Hand' = H, Lists' = O, Live' = Lv
    PROVE  Owned'
  BY DEF Owned, OwnedIn

\* The tasks of s, and one more maybe, that has no connection
LEMMA GrownOwned ==
    ASSUME NEW P, NEW H, NEW O, NEW Lv, NEW s \in Pools, OwnedIn(P, s.tasks, H, O, Lv),
           NEW grow \in BOOLEAN
    PROVE  OwnedIn(P, Grown(s, grow).tasks, H, O, Lv)
<1> DEFINE j == AddConnection(TRUE, 0)
           q == Grown(s, grow).tasks
<1>1. s.tasks \in Seq(Jobs) /\ j \in Jobs /\ j.conn = NoConn
  BY PoolFields, JobTypes, NewFields
<1>2. q = s.tasks \/ q = Append(s.tasks, j)
  BY GrownFields
<1> HIDE DEF j, q
<1>3. OwnedIn(P, Append(s.tasks, j), H, O, Lv)
  BY <1>1, GiveJobNone
<1> QED
  BY <1>2, <1>3 DEF q

\* The connection is closed
LEMMA DropOwned ==
    ASSUME NEW t \in Tasks, NEW c \in Conns, NEW n, NEW s \in Pools, Freed(t, c, s),
           Left(t, n), Becomes(c, "absent"), self'.pool = self.pool,
           \/ self'.tasks = s.tasks
           \/ self'.tasks = Append(s.tasks, NewConnection)
           \/ self'.tasks = Append(s.tasks, AddConnection(TRUE, 0))
    PROVE  Owned'
<1> DEFINE H == HandWithout(t)
           Lv == Live \ {c}
           J == s.tasks
<1>1. Hand' = H /\ Lists' = Lists /\ Live' = Lv
  BY LeftHands, BecomesLive
<1>2. OwnedIn(self.pool, J, H, Lists, Lv)
  BY DEF Freed
<1>3. /\ J \in Seq(Jobs) /\ NewConnection \in Jobs /\ AddConnection(TRUE, 0) \in Jobs
      /\ NewConnection.conn = NoConn /\ AddConnection(TRUE, 0).conn = NoConn
  BY PoolFields, JobTypes, NewFields
<1> HIDE DEF H, Lv
<1>4. /\ OwnedIn(self.pool, Append(J, NewConnection), H, Lists, Lv)
      /\ OwnedIn(self.pool, Append(J, AddConnection(TRUE, 0)), H, Lists, Lv)
  <2> HIDE DEF J
  <2> QED
    BY <1>2, <1>3, GiveJobNone
<1> QED
  BY <1>1, <1>2, <1>4, OwnedNext

\* ... is kept in hand
Holds(t, c, n, s) ==
    /\ \E p : Moved(t, p, c, n, loc[t].out, loc[t].job)
    /\ \E st : Becomes(c, st) /\ st # "absent"
    /\ self'.tasks = s.tasks /\ self'.pool = self.pool

\* A task that keeps the connection in hand keeps the owners
LEMMA HoldOwned ==
    ASSUME NEW t \in Tasks, NEW c \in Conns, NEW n, NEW s, Freed(t, c, s), Holds(t, c, n, s)
    PROVE  Owned'
<1> DEFINE H == HandWithout(t)
           Lv == Live \ {c}
           G == Hand'
<1>0. PICK p, st : /\ Moved(t, p, c, n, loc[t].out, loc[t].job)
                   /\ Becomes(c, st) /\ st # "absent"
  BY DEF Holds
<1>1. /\ DOMAIN G = DOMAIN H /\ G[t] = c /\ \A u \in DOMAIN H : u # t => G[u] = H[u]
      /\ t \in DOMAIN H /\ H[t] = NoConn /\ Lists' = Lists
      /\ Live' = Lv \cup {c} /\ c # NoConn
      /\ self'.tasks = s.tasks /\ self'.pool = self.pool
  BY <1>0, MovedHands, BecomesLive, AsyncAssumption DEF AsyncAssumption, Holds
<1>2. OwnedIn(self.pool, s.tasks, H, Lists, Lv) /\ c \notin Lv
  BY DEF Freed
<1> HIDE DEF H, Lv, G
<1>3. OwnedIn(self.pool, s.tasks, G, Lists, Lv \cup {c})
  BY <1>1, <1>2, GiveHand
<1> QED
  BY <1>1, <1>3, OwnedNext DEF G

\* ... is put in the pool
LEMMA KeepOwned ==
    ASSUME NEW t \in Tasks, NEW c \in Conns, NEW n, NEW s \in Pools, Freed(t, c, s),
           Left(t, n), NEW st, Becomes(c, st), st # "absent",
           self.pool \in Seq(Conns), self'.pool = Append(self.pool, c),
           \/ self'.tasks = s.tasks
           \/ self'.tasks = Append(s.tasks, AddConnection(TRUE, 0))
    PROVE  Owned'
<1> DEFINE H == HandWithout(t)
           Lv == Live \ {c}
           J == s.tasks
           Q == Append(self.pool, c)
           j == AddConnection(TRUE, 0)
<1>1. Hand' = H /\ Lists' = Lists /\ Live' = Lv \cup {c}
  BY LeftHands, BecomesLive
<1>2. OwnedIn(self.pool, J, H, Lists, Lv) /\ c \notin Lv
  BY DEF Freed
<1>3. J \in Seq(Jobs) /\ j \in Jobs /\ j.conn = NoConn
  BY PoolFields, JobTypes, NewFields
<1> HIDE DEF H, Lv, J, j
<1>4. OwnedIn(Q, J, H, Lists, Lv \cup {c})
  BY <1>2, GivePool
<1> HIDE DEF Q
<1>5. OwnedIn(Q, Append(J, j), H, Lists, Lv \cup {c})
  BY <1>3, <1>4, GiveJobNone
<1> QED
  BY <1>1, <1>4, <1>5, OwnedNext DEF J, Q, j

\* ... is given to a client
LEMMA GiveOwned ==
    ASSUME NEW t \in Tasks, NEW c \in Conns, NEW n, NEW s \in Pools, Freed(t, c, s),
           NEW k \in Tasks, k # t, loc[k].conn = NoConn, LeftGiving(t, n, k, c),
           NEW st, Becomes(c, st), st # "absent", self'.pool = self.pool,
           \/ self'.tasks = s.tasks
           \/ self'.tasks = Append(s.tasks, AddConnection(TRUE, 0))
    PROVE  Owned'
<1> DEFINE H == HandWithout(t)
           G == Hand'
           Lv == Live \ {c}
           J == s.tasks
           j == AddConnection(TRUE, 0)
<1>1. /\ DOMAIN G = DOMAIN H /\ k \in DOMAIN H /\ H[k] = NoConn /\ G[k] = c
      /\ \A u \in DOMAIN H : u # k => G[u] = H[u]
      /\ Lists' = Lists
  BY DEF LeftGiving, Hand, HandWithout, Lists
<1>2. OwnedIn(self.pool, J, H, Lists, Lv) /\ c \notin Lv /\ Live' = Lv \cup {c}
  BY BecomesLive DEF Freed
<1>3. J \in Seq(Jobs) /\ j \in Jobs /\ j.conn = NoConn /\ c # NoConn
  BY PoolFields, JobTypes, NewFields, AsyncAssumption DEF AsyncAssumption
<1> HIDE DEF H, G, Lv, J, j
<1>4. OwnedIn(self.pool, J, G, Lists, Lv \cup {c})
  BY <1>1, <1>2, <1>3, GiveHand
<1>5. OwnedIn(self.pool, Append(J, j), G, Lists, Lv \cup {c})
  BY <1>3, <1>4, GiveJobNone
<1> QED
  BY <1>1, <1>2, <1>4, <1>5, OwnedNext DEF J, G, j

\* ... is queued with a task
LEMMA QueueOwned ==
    ASSUME Types, NEW t \in Tasks, NEW c \in Conns, NEW n, Freed(t, c, self),
           NEW st, st # "absent", Queues(t, c, n, st)
    PROVE  Owned'
<1> DEFINE H == HandWithout(t)
           Lv == Live \ {c}
           J == self.tasks
           j == ReturnConnection(c)
<1>0. /\ self' = RunTask(self, j) /\ Left(t, n) /\ Becomes(c, st)
      /\ self \in Pools /\ j \in Jobs
  BY JobTypes DEF Queues, Types
<1>1. /\ Hand' = H /\ Lists' = Lists /\ Live' = Lv \cup {c}
      /\ self'.tasks = Append(J, j) /\ self'.pool = self.pool
  <2>1. Hand' = H /\ Lists' = Lists
    BY <1>0, LeftHands
  <2>2. Live' = Lv \cup {c}
    BY <1>0, BecomesLive
  <2> HIDE DEF j
  <2>3. self'.tasks = Append(J, j) /\ self'.pool = self.pool
    BY <1>0, RunTaskFields
  <2> QED
    BY <2>1, <2>2, <2>3
<1>2. OwnedIn(self.pool, J, H, Lists, Lv) /\ c \notin Lv
  BY DEF Freed
<1>3. J \in Seq(Jobs) /\ j \in Jobs /\ j.conn = c /\ {c} \ {NoConn} = {c}
  BY PoolFields, JobTypes, NewFields, AsyncAssumption DEF AsyncAssumption, Types
<1> HIDE DEF H, Lv, J, j
<1>4. OwnedIn(self.pool, Append(J, j), H, Lists, Lv \cup ({c} \ {NoConn}))
  BY <1>2, <1>3, GiveJob
<1>5. OwnedIn(self.pool, Append(J, j), H, Lists, Lv \cup {c})
  BY <1>3, <1>4
<1> QED
  BY <1>1, <1>5, OwnedNext

\* The pool after an attempt, and its tasks
LEMMA GrownTasks ==
    ASSUME NEW s \in Pools, NEW grow \in BOOLEAN, NEW g, g = Grown(s, grow)
    PROVE  /\ g.pool = s.pool
           /\ g.tasks = s.tasks \/ g.tasks = Append(s.tasks, AddConnection(TRUE, 0))
<1> DEFINE j == AddConnection(TRUE, 0)
<1> HIDE DEF j
<1>1. g.pool = s.pool /\ (g.tasks = s.tasks \/ g.tasks = Append(s.tasks, j))
  BY GrownFields DEF j
<1> QED
  BY <1>1 DEF j

\* _add_to_pool() keeps each connection in one place
LEMMA AddOwned ==
    ASSUME Shape, NEW t, NEW c, NEW n, NEW grow \in BOOLEAN, NEW s, Passing(t, c, n, s),
           Freed(t, c, s), AddForms(t, c, n, grow, s)
    PROVE  Owned'
<1>0. /\ t \in Tasks /\ c \in Conns /\ s \in Pools /\ s.pool = self.pool
      /\ self.pool \in Seq(Conns)
  BY PoolFields DEF Passing, Shape, Types
<1>1. CASE AddWaits(t, c, n, s)
  <2>1. Holds(t, c, n, s)
    BY <1>0, <1>1 DEF AddWaits, Holds
  <2> QED
    BY <1>0, <2>1, HoldOwned
<1>2. CASE AddDrops(t, c, n, grow, s)
  BY <1>2, <1>0, GrownTasks, DropOwned DEF AddDrops
<1>3. CASE AddCloses(t, c, n, grow, s)
  <2>1. PICK s1 : Alike(s, s1) /\ s1.pool = s.pool /\ self' = Grown(s1, grow)
    BY <1>3 DEF AddCloses
  <2>2. s1 \in Pools /\ s1.tasks = s.tasks /\ Left(t, n) /\ Becomes(c, "absent")
    BY <1>3, <2>1 DEF AddCloses, Alike
  <2>3. /\ self'.pool = self.pool
        /\ self'.tasks = s.tasks \/ self'.tasks = Append(s.tasks, AddConnection(TRUE, 0))
    BY <1>0, <2>1, <2>2, GrownTasks
  <2> QED
    BY <1>0, <2>2, <2>3, DropOwned
<1>4. CASE AddKeeps(t, c, n, grow, s)
  <2>1. PICK s1 : Alike(s, s1) /\ s1.pool = Append(s.pool, c) /\ self' = Grown(s1, grow)
    BY <1>4 DEF AddKeeps
  <2>2. s1 \in Pools /\ s1.tasks = s.tasks /\ Left(t, n) /\ Becomes(c, "idle")
    BY <1>4, <2>1 DEF AddKeeps, Alike
  <2>3. /\ self'.pool = Append(self.pool, c)
        /\ self'.tasks = s.tasks \/ self'.tasks = Append(s.tasks, AddConnection(TRUE, 0))
    BY <1>0, <2>1, <2>2, GrownTasks
  <2> QED
    BY <1>0, <2>2, <2>3, KeepOwned
<1>5. CASE AddGives(t, c, n, grow, s)
  <2>1. PICK k \in Clients, s1 \in Pools :
               /\ k # t /\ loc[k].pc = "wait"
               /\ Alike(s, s1) /\ s1.pool = s.pool
               /\ self' = Grown(s1, grow) /\ LeftGiving(t, n, k, c)
    BY <1>5 DEF AddGives
  <2>2. s1 \in Pools /\ s1.tasks = s.tasks /\ Becomes(c, "idle")
    BY <1>5, <2>1 DEF AddGives, Alike
  <2>3. /\ self'.pool = self.pool
        /\ self'.tasks = s.tasks \/ self'.tasks = Append(s.tasks, AddConnection(TRUE, 0))
    BY <1>0, <2>1, <2>2, GrownTasks
  <2>4. k \in Tasks /\ loc[k].conn = NoConn
    <3>1. k \in Tasks
      BY DEF Tasks
    <3> QED
      BY <2>1, <3>1 DEF Shape, Placed, Fits, Holding
  <2> QED
    BY <1>0, <2>1, <2>2, <2>3, <2>4, GiveOwned
<1> QED
  BY <1>1, <1>2, <1>3, <1>4, <1>5 DEF AddForms

\* So does one that replaces it
LEMMA ReplaceOwned ==
    ASSUME NEW t, NEW c, NEW n, NEW s, Passing(t, c, n, s), Freed(t, c, s),
           Replaces(t, c, n, s)
    PROVE  Owned'
<1>1. /\ t \in Tasks /\ c \in Conns /\ s \in Pools /\ s.pool = self.pool
      /\ self' = RunTask(s, NewConnection) /\ Left(t, n) /\ Becomes(c, "absent")
      /\ NewConnection \in Jobs
  BY JobTypes DEF Passing, Replaces
<1>2. self'.pool = self.pool /\ self'.tasks = Append(s.tasks, NewConnection)
  BY <1>1, RunTaskFields
<1> QED
  BY <1>1, <1>2, DropOwned

\* ... and so does _return_connection()
LEMMA ReturnOwned ==
    ASSUME Shape, NEW t, NEW c, NEW n, NEW s, Passing(t, c, n, s), Freed(t, c, s),
           NEW st \in LiveStatus, ReturnForms(t, c, n, st, s)
    PROVE  Owned'
<1>1. CASE Replaces(t, c, n, s)
  BY <1>1, ReplaceOwned
<1>2. CASE Resets(t, c, n, st, s)
  BY <1>2, HoldOwned DEF Passing, LiveStatus, Resets, Holds
<1>3. CASE AddForms(t, c, n, FALSE, s)
  BY <1>3, AddOwned
<1> QED
  BY <1>1, <1>2, <1>3 DEF ReturnForms

\* The other steps that a client takes with a connection in its hands
LEMMA PutOwned ==
    ASSUME Shape, Owned, NEW c \in Clients,
           \/ \E st \in Leaves : PutConn(c, st) \/ NullPutConn(c, st) \/ CheckBad(c, st)
           \/ PutCancelled(c)
    PROVE  Owned'
<1> DEFINE k == loc[c].conn
<1>1. c \in Tasks /\ Types
  BY DEF Shape, Tasks
<1>2. ASSUME NEW n, Passing(c, k, n, self), Closes(c, k)
      PROVE  Owned'
  BY <1>1, <1>2, FreedByHand, DropOwned DEF Passing, Closes
<1>3. ASSUME NEW n, NEW st \in LiveStatus, Passing(c, k, n, self), Queues(c, k, n, st)
      PROVE  Owned'
  BY <1>1, <1>3, FreedByHand, QueueOwned DEF Passing, LiveStatus
<1>4. ASSUME NEW n, NEW st \in LiveStatus, Passing(c, k, n, self),
             ReturnForms(c, k, n, st, self)
      PROVE  Owned'
  BY <1>1, <1>4, FreedByHand, ReturnOwned DEF Passing
<1> HIDE DEF k
<1>5. ASSUME NEW st \in Leaves, PutConn(c, st) PROVE Owned'
  BY <1>5, PutConnEffect, <1>2, <1>3, <1>4 DEF k
<1>6. ASSUME NEW st \in Leaves, NullPutConn(c, st) PROVE Owned'
  <2>1. CASE loc[c].pc \in {"use", "putlock"} /\ NullPut(c, st)
    BY <2>1, NullPutEffect, <1>2, <1>3, <1>4 DEF k
  <2>2. CASE loc' = GoTo(c, "putlock") /\ UNCHANGED <<self, connVars>>
    <3>1. Moved(c, "putlock", loc[c].conn, loc[c].next, loc[c].out, loc[c].job)
      BY <1>1, <2>2, Names, MovesPc
    <3>2. Hand' = Hand /\ Lists' = Lists
      BY <1>1, <3>1, MovedHands
    <3>3. Live' = Live
      BY <2>2 DEF Live, connVars
    <3> QED
      BY <2>2, <3>2, <3>3 DEF Owned, OwnedIn
  <2> QED
    BY <1>6, <2>1, <2>2 DEF NullPutConn
<1>7. ASSUME NEW st \in Leaves, CheckBad(c, st) PROVE Owned'
  BY <1>7, PutBackEffect, <1>3, <1>4 DEF k, CheckBad
<1>8. ASSUME PutCancelled(c) PROVE Owned'
  BY <1>8, <1>1, OneRole, HandPassing, FreedByHand, Names, MovesLeaving, BecomesClosed,
     DropOwned DEF PutCancelled, k, Onward, Nexts, Passing
<1> QED
  BY <1>5, <1>6, <1>7, <1>8

(* What the steps of a client do *)

\* s and g differ in the connections, the lock and the number of connections only
SameTasks(s, g) ==
    /\ g \in Pools /\ g.closed = s.closed /\ g.waiting = s.waiting
    /\ g.growing = s.growing /\ g.minSize = s.minSize /\ g.maxSize = s.maxSize
    /\ g.event = s.event /\ g.tasks = s.tasks /\ g.delayed = s.delayed

\* What is known of a client
LEMMA ClientFields ==
    ASSUME Shape, NEW c \in Clients
    PROVE  /\ c \in Tasks /\ c \notin Callers /\ c \notin Workers /\ Types /\ self \in Pools
           /\ Fits(c, loc[c]) /\ loc[c] \in Locals /\ loc[c].out = {} /\ c # NoTask
           /\ loc[c].pc \in {"idle", "sleep", "lock", "connect", "wait", "failed"} =>
                 loc[c].conn = NoConn
           /\ loc[c].pc \in {"got", "check"} => loc[c].conn \in Conns
BY OneRole, AsyncAssumption, LocalFields DEF Tasks, AsyncAssumption, Shape, Types, Placed,
   Fits, Holding

\* getconn() finds a connection in the pool
LEMMA ReadyEffect ==
    ASSUME Shape, NEW c \in Clients, GetReady(c)
    PROVE  /\ self.lock = NoTask /\ self.pool # <<>> /\ ~null
           /\ loc[c].pc \in {"idle", "sleep", "lock"}
           /\ UNCHANGED <<null, connVars, history>>
           /\ SameTasks(self, self') /\ self'.lock = self.lock /\ self'.nconns = self.nconns
           /\ self'.pool = Tail(self.pool) /\ Head(self.pool) \in Conns
           /\ \E p \in {"check", "use"} :
                 /\ p = "use" => ~HasCheck
                 /\ Moved(c, p, Head(self.pool), loc[c].next, loc[c].out, loc[c].job)
<1> DEFINE left == Tail(self.pool)
           m == IF Len(left) < self.nconnsMin THEN Len(left) ELSE self.nconnsMin
           p == IF HasCheck THEN "check" ELSE "use"
           h == Head(self.pool)
<1>1. /\ self.lock = NoTask /\ self.pool # <<>> /\ loc[c].pc \in {"idle", "sleep", "lock"}
      /\ UNCHANGED <<null, connVars, history>>
      /\ self' = [self EXCEPT !.pool = left, !.nconnsMin = m]
      /\ loc' = [loc EXCEPT ![c].pc = p, ![c].conn = h]
  BY DEF GetReady, Asking
<1>2. c \in Tasks /\ Types /\ self \in Pools
  BY ClientFields
<1>3. ~null
  BY <1>1 DEF Shape, Locked
<1>4. self.pool \in Seq(Conns) /\ self.nconnsMin \in Int
  BY <1>2, PoolFields
<1>5. left \in Seq(Conns) /\ h \in Conns
  BY <1>1, <1>4
<1>6. m \in Int
  <2>1. Len(left) \in Int
    BY <1>5
  <2> QED
    BY <1>4, <2>1
<1>7. p \in PCs /\ p \in {"check", "use"} /\ (p = "use" => ~HasCheck)
  BY AsyncAssumption DEF PCs, AsyncAssumption
<1> HIDE DEF left, m, p, h
<1>8. Moved(c, p, h, loc[c].next, loc[c].out, loc[c].job)
  BY <1>1, <1>2, <1>5, <1>7, MovesConn
<1>9. /\ SameTasks(self, self') /\ self'.lock = self.lock /\ self'.nconns = self.nconns
      /\ self'.pool = left
  BY <1>1, <1>2, <1>5, <1>6 DEF Pools, SameTasks
<1> QED
  BY <1>1, <1>3, <1>5, <1>7, <1>8, <1>9 DEF left, h

\* getconn() of a null pool connects
LEMMA NullConnectEffect ==
    ASSUME Shape, NEW c \in Clients, NullConnect(c)
    PROVE  /\ self.lock = NoTask /\ null /\ self.nconns < self.maxSize
           /\ loc[c].pc \in {"idle", "sleep", "lock"}
           /\ UNCHANGED <<null, connVars, history>>
           /\ SameTasks(self, self') /\ self'.nconns = self.nconns
           /\ self'.pool = self.pool /\ self'.lock = c
           /\ Moved(c, "connect", loc[c].conn, loc[c].next, loc[c].out, loc[c].job)
BY ClientFields, Names, MovesPc DEF NullConnect, Asking, Pools, SameTasks

\* ... the connection is made
LEMMA NullConnectedEffect ==
    ASSUME Shape, NEW c \in Clients, NEW k \in Conns, NullConnected(c, k)
    PROVE  /\ loc[c].pc = "connect" /\ status[k] = "absent" /\ null /\ self.lock = c
           /\ UNCHANGED <<null, history>> /\ Becomes(k, "idle")
           /\ SameTasks(self, self') /\ self'.nconns = self.nconns + 1
           /\ self'.pool = self.pool /\ self'.lock = NoTask
           /\ \E p \in {"check", "use"} :
                 /\ p = "use" => ~HasCheck
                 /\ Moved(c, p, k, loc[c].next, loc[c].out, loc[c].job)
<1> DEFINE p == IF HasCheck THEN "check" ELSE "use"
<1>1. /\ loc[c].pc = "connect" /\ status[k] = "absent"
      /\ status' = [status EXCEPT ![k] = "idle"] /\ old' = old
      /\ self' = [self EXCEPT !.lock = NoTask, !.nconns = self.nconns + 1]
      /\ loc' = [loc EXCEPT ![c].pc = p, ![c].conn = k]
      /\ UNCHANGED <<null, history>>
  BY DEF NullConnected
<1>2. p \in PCs /\ p \in {"check", "use"} /\ (p = "use" => ~HasCheck)
  BY AsyncAssumption DEF PCs, AsyncAssumption
<1> HIDE DEF p
<1>3. c \in Tasks /\ Types /\ self \in Pools /\ Fits(c, loc[c])
  BY ClientFields
<1>4. null /\ self.lock = c
  BY <1>1, <1>3 DEF Fits, Shape, Types, Locked
<1>5. Moved(c, p, k, loc[c].next, loc[c].out, loc[c].job)
  BY <1>1, <1>2, <1>3, MovesConn
<1>6. self.nconns + 1 \in Int
  <2>1. self.nconns \in Int
    BY <1>3, PoolFields
  <2> QED
    BY <2>1
<1>7. /\ SameTasks(self, self') /\ self'.nconns = self.nconns + 1
      /\ self'.pool = self.pool /\ self'.lock = NoTask
  BY <1>1, <1>3, <1>6 DEF Pools, SameTasks
<1>8. Becomes(k, "idle")
  BY <1>1, <1>3, BecomesStatus DEF LiveStatus
<1> QED
  BY <1>1, <1>2, <1>4, <1>5, <1>7, <1>8

\* ... or fails
LEMMA NullFailedEffect ==
    ASSUME Shape, NEW c \in Clients, NullConnectFailed(c)
    PROVE  /\ loc[c].pc = "connect" /\ self.lock = c
           /\ UNCHANGED <<null, connVars, history>>
           /\ SameTasks(self, self') /\ self'.nconns = self.nconns
           /\ self'.pool = self.pool /\ self'.lock = NoTask
           /\ Left(c, "idle")
BY ClientFields, Names, MovesLeaving DEF NullConnectFailed, Shape, Locked, Pools, SameTasks

\* Only the client changes: it waits for the lock, goes on with its connection, or ends
Quiet(c) ==
    \/ GetBlocked(c) \/ GetTooMany(c) \/ WaitGot(c) \/ WaitFailed(c) \/ GetInterrupted(c)
    \/ CheckGood(c)

\* The steps of a client that move no connection
LEMMA QuietEffect ==
    ASSUME Shape, NEW c \in Clients, Quiet(c)
    PROVE  /\ UNCHANGED <<null, self, connVars, leaked, calls>>
           /\ UNCHANGED cancels \/ (Cancelled /\ cancels' = cancels + 1)
           /\ loc[c].pc \notin {"wait", "connect", "add", "reset", "use", "putlock"}
           /\ \E p \in {"idle", "lock", "check", "use"} : \E n, o, j :
                 /\ Moved(c, p, loc[c].conn, n, o, j)
                 /\ o = {}
                 /\ p \in {"check", "use"} <=> loc[c].pc \in {"got", "check"}
                 /\ p = "lock" => (loc[c].pc = "sleep" \/ ~self.closed)
                 /\ loc[c].pc = "got" => p # "use" \/ ~HasCheck
<1> DEFINE l == loc[c]
<1>1. c \in Tasks /\ Types /\ l.out = {}
  BY ClientFields
<1>2. ASSUME GetBlocked(c) \/ CheckGood(c)
      PROVE  /\ UNCHANGED <<null, self, connVars, history>>
             /\ \E p \in {"lock", "use"} :
                   /\ Moved(c, p, l.conn, l.next, l.out, l.job)
                   /\ p = "lock" => l.pc \in {"idle", "sleep"} /\ (l.pc = "sleep" \/ ~self.closed)
                   /\ p = "use" => l.pc = "check"
  <2>1. CASE GetBlocked(c)
    BY <2>1, <1>1, Names, MovesPc DEF GetBlocked
  <2>2. CASE CheckGood(c)
    BY <2>2, <1>1, Names, MovesPc DEF CheckGood
  <2> QED
    BY <1>2, <2>1, <2>2
<1>3. ASSUME GetTooMany(c) \/ WaitFailed(c) \/ GetInterrupted(c)
      PROVE  /\ UNCHANGED <<null, self, connVars, leaked, calls>>
             /\ UNCHANGED cancels \/ (Cancelled /\ cancels' = cancels + 1)
             /\ Moved(c, "idle", l.conn, "idle", l.out, NewConnection)
             /\ l.pc \in {"sleep", "lock", "failed"}
  BY <1>3, ClientFields, <1>1, Names, MovesLeaving DEF GetTooMany, WaitFailed, GetInterrupted,
     Asking, history, Cancelled, Left
<1>4. ASSUME WaitGot(c)
      PROVE  /\ UNCHANGED <<null, self, connVars, history>> /\ l.pc = "got"
             /\ \E p \in {"check", "use"} :
                   /\ Moved(c, p, l.conn, "idle", {}, NewConnection)
                   /\ p = "use" => ~HasCheck
  <2> DEFINE p == IF HasCheck THEN "check" ELSE "use"
  <2>1. /\ UNCHANGED <<null, self, connVars, history>> /\ l.pc = "got"
        /\ loc' = [loc EXCEPT ![c] = At(p, l.conn, "idle")]
    BY <1>4 DEF WaitGot
  <2>2. p \in PCs /\ p \in {"check", "use"} /\ (p = "use" => ~HasCheck)
    BY AsyncAssumption DEF PCs, AsyncAssumption
  <2> HIDE DEF p
  <2>3. l.conn \in Conns \cup {NoConn}
    BY <1>1, LocalFields DEF Types
  <2>4. Restarted(c, p, l.conn)
    BY <1>1, <2>1, <2>2, <2>3, MovesRestarted
  <2> QED
    BY <2>1, <2>2, <2>4 DEF Restarted
<1>5. CASE GetBlocked(c) \/ CheckGood(c)
  BY <1>2, <1>5, <1>1 DEF history
<1>6. CASE GetTooMany(c) \/ WaitFailed(c) \/ GetInterrupted(c)
  BY <1>1, <1>3, <1>6
<1>7. CASE WaitGot(c)
  BY <1>4, <1>7 DEF history
<1> QED
  BY <1>5, <1>6, <1>7 DEF Quiet

\* getconn() queues the client, and the pool may grow
LEMMA QueueUpEffect ==
    ASSUME Shape, NEW c \in Clients, GetQueue(c)
    PROVE  /\ self.lock = NoTask /\ loc[c].pc \in {"idle", "sleep", "lock"}
           /\ loc[c].pc = "idle" => ~self.closed
           /\ UNCHANGED <<null, connVars, history>>
           /\ Steady(self, self') /\ self'.closed = self.closed /\ self'.pool = self.pool
           /\ self'.waiting = Append(self.waiting, c) /\ self'.delayed = self.delayed
           /\ \/ /\ self'.nconns = self.nconns /\ self'.growing = self.growing
                 /\ self'.tasks = self.tasks
              \/ /\ ~null /\ self.nconns < self.maxSize /\ ~self.growing
                 /\ self'.nconns = self.nconns + 1 /\ self'.growing
                 /\ self'.tasks = Append(self.tasks, AddConnection(TRUE, 0))
           /\ Moved(c, "wait", loc[c].conn, loc[c].pc, loc[c].out, loc[c].job)
<1> DEFINE q == Append(self.waiting, c)
           s == [self EXCEPT !.waiting = q]
<1>1. /\ self.lock = NoTask /\ loc[c].pc \in {"idle", "sleep", "lock"}
      /\ loc[c].pc = "idle" => ~self.closed
      /\ self' = MaybeGrow(s) /\ loc' = [loc EXCEPT ![c].pc = "wait", ![c].next = loc[c].pc]
      /\ UNCHANGED <<null, connVars, history>>
  BY DEF GetQueue, Asking
<1>2. c \in Tasks /\ Types /\ self \in Pools /\ self.waiting \in Seq(Clients \cup {Gone})
  BY ClientFields, PoolFields
<1>3. q \in Seq(Clients \cup {Gone})
  BY <1>2, AppendType
<1> HIDE DEF q
<1>4. /\ s \in Pools /\ s.waiting = q /\ s.lock = self.lock /\ s.pool = self.pool
      /\ s.closed = self.closed /\ s.nconns = self.nconns /\ s.growing = self.growing
      /\ s.tasks = self.tasks /\ s.delayed = self.delayed /\ s.minSize = self.minSize
      /\ s.maxSize = self.maxSize /\ s.event = self.event
  BY <1>2, <1>3 DEF Pools
<1> HIDE DEF s
<1> DEFINE j == AddConnection(TRUE, 0)
<1> HIDE DEF j
<1>5. /\ self' \in Pools
      /\ self'.closed = s.closed /\ self'.lock = s.lock /\ self'.pool = s.pool
      /\ self'.waiting = s.waiting
      /\ self'.minSize = s.minSize /\ self'.maxSize = s.maxSize /\ self'.event = s.event
      /\ self'.delayed = s.delayed
      /\ \/ self'.nconns = s.nconns /\ self'.growing = s.growing /\ self'.tasks = s.tasks
         \/ /\ ~null /\ s.nconns < s.maxSize /\ ~s.growing
            /\ self'.nconns = s.nconns + 1 /\ self'.growing
            /\ self'.tasks = Append(s.tasks, j)
  BY <1>1, <1>2, <1>4, GrowFields DEF j
<1>6. Moved(c, "wait", loc[c].conn, loc[c].pc, loc[c].out, loc[c].job)
  BY <1>1, <1>2, MovesNext DEF PCs, Nexts
<1> QED
  BY <1>1, <1>4, <1>5, <1>6 DEF q, j, Steady

(* The other steps keep each connection in one place *)

\* No connection moves
LEMMA StillOwned ==
    ASSUME Owned, UNCHANGED status, self'.pool = self.pool, self'.tasks = self.tasks,
           \A u \in Tasks : loc'[u].conn = loc[u].conn
                            /\ loc'[u].out \cap Conns = loc[u].out \cap Conns
    PROVE  Owned'
<1>1. Hand' = Hand /\ Lists' = Lists /\ Live' = Live
  BY DEF Hand, Lists, Live
<1> QED
  BY <1>1 DEF Owned, OwnedIn

\* ... while tasks without a connection are queued
LEMMA MoreOwned ==
    ASSUME Owned, Types, UNCHANGED status, self'.pool = self.pool,
           NEW j \in Jobs, j.conn = NoConn,
           \/ self'.tasks = Append(self.tasks, j)
           \/ \E n \in Nat : self'.tasks = self.tasks \o Copies(n, j),
           \A u \in Tasks : loc'[u].conn = loc[u].conn
                            /\ loc'[u].out \cap Conns = loc[u].out \cap Conns
    PROVE  Owned'
<1>1. Hand' = Hand /\ Lists' = Lists /\ Live' = Live
  BY DEF Hand, Lists, Live
<1> DEFINE J == self.tasks
           P == self.pool
           H == Hand
           O == Lists
           Lv == Live
<1>2. OwnedIn(P, J, H, O, Lv) /\ J \in Seq(Jobs)
  BY PoolFields DEF Owned, Types
<1>3. self'.pool = P /\ Hand' = H /\ Lists' = O /\ Live' = Lv
  BY <1>1
<1>4. self'.tasks = Append(J, j) \/ \E n \in Nat : self'.tasks = J \o Copies(n, j)
  OBVIOUS
<1> HIDE DEF J, P, H, O, Lv
<1>5. CASE self'.tasks = Append(J, j)
  BY <1>2, GiveJobNone, <1>3, <1>5, OwnedNext
<1>6. ASSUME NEW n \in Nat, self'.tasks = J \o Copies(n, j)
      PROVE  Owned'
  BY <1>2, GiveJobs, <1>3, <1>6, OwnedNext
<1> QED
  BY <1>4, <1>5, <1>6

\* ... or the first one is taken
LEMMA LessOwned ==
    ASSUME Owned, Types, UNCHANGED status, self'.pool = self.pool,
           self.tasks # <<>>, Head(self.tasks).conn = NoConn,
           self'.tasks = Tail(self.tasks),
           \A u \in Tasks : loc'[u].conn = loc[u].conn
                            /\ loc'[u].out \cap Conns = loc[u].out \cap Conns
    PROVE  Owned'
<1>1. Hand' = Hand /\ Lists' = Lists /\ Live' = Live
  BY DEF Hand, Lists, Live
<1> DEFINE J == self.tasks
           P == self.pool
           H == Hand
           O == Lists
           Lv == Live
<1>2. OwnedIn(P, J, H, O, Lv) /\ J \in Seq(Jobs) /\ J # <<>> /\ Head(J).conn = NoConn
  BY PoolFields DEF Owned, Types
<1>3. self'.pool = P /\ Hand' = H /\ Lists' = O /\ Live' = Lv /\ self'.tasks = Tail(J)
  BY <1>1
<1> HIDE DEF J, P, H, O, Lv
<1>4. OwnedIn(P, Tail(J), H, O, Lv)
  BY <1>2, TakeJob
<1> QED
  BY <1>3, <1>4, OwnedNext

\* A task that goes on, keeping what it has
LEMMA SoloSame ==
    ASSUME NEW t \in Tasks, NEW p, NEW n, NEW o, NEW j, Moved(t, p, loc[t].conn, n, o, j),
           o \cap Conns = loc[t].out \cap Conns
    PROVE  \A u \in Tasks : loc'[u].conn = loc[u].conn
                            /\ loc'[u].out \cap Conns = loc[u].out \cap Conns
  BY DEF Moved

\* getconn()
LEMMA ReadyOwned ==
    ASSUME Shape, Owned, NEW c \in Clients, GetReady(c)
    PROVE  Owned'
<1>1. /\ self.pool # <<>> /\ loc[c].pc \in {"idle", "sleep", "lock"} /\ UNCHANGED status
      /\ self'.tasks = self.tasks /\ self'.pool = Tail(self.pool) /\ Head(self.pool) \in Conns
  BY ReadyEffect DEF connVars, SameTasks
<1>2. \E p : Moved(c, p, Head(self.pool), loc[c].next, loc[c].out, loc[c].job)
  BY ReadyEffect
<1>3. c \in Tasks /\ loc[c].conn = NoConn /\ self.pool \in Seq(Conns)
  BY <1>1, ClientFields, PoolFields
<1> DEFINE P == self.pool
           h == Head(P)
           H == Hand
           G == Hand'
           Lv == Live
           Rest == Lv \ {h}
<1>4. /\ DOMAIN G = DOMAIN H /\ G[c] = h /\ \A u \in DOMAIN H : u # c => G[u] = H[u]
      /\ c \in DOMAIN H /\ H[c] = NoConn /\ Lists' = Lists
  BY <1>2, <1>3 DEF Moved, Hand, Lists
<1>5. Live' = Lv /\ h # NoConn /\ h \notin Rest
  BY <1>1, AsyncAssumption DEF AsyncAssumption, Live
<1>6. OwnedIn(P, self.tasks, H, Lists, Lv)
  BY DEF Owned
<1> HIDE DEF H, G, Lv
<1>7. OwnedIn(Tail(P), self.tasks, H, Lists, Rest) /\ h \in Lv
  BY <1>1, <1>3, <1>6, TakePool
<1> HIDE DEF P, h
<1>8. OwnedIn(Tail(P), self.tasks, G, Lists, Rest \cup {h})
  <2> HIDE DEF Rest
  <2> QED
    BY <1>4, <1>5, <1>7, GiveHand
<1>9. Rest \cup {h} = Lv
  BY <1>7
<1> QED
  BY <1>1, <1>4, <1>5, <1>8, <1>9, OwnedNext DEF P, G

\* A connection made by a client is its own
LEMMA NullConnectedOwned ==
    ASSUME Shape, Owned, NEW c \in Clients, NEW k \in Conns, NullConnected(c, k)
    PROVE  Owned'
<1>1. /\ loc[c].pc = "connect" /\ status[k] = "absent" /\ Becomes(k, "idle")
      /\ self'.tasks = self.tasks /\ self'.pool = self.pool
  BY NullConnectedEffect DEF SameTasks
<1>2. PICK p : Moved(c, p, k, loc[c].next, loc[c].out, loc[c].job)
  BY NullConnectedEffect
<1>3. c \in Tasks /\ loc[c].conn = NoConn
  BY <1>1, ClientFields
<1>4. Freed(c, k, self)
  BY <1>1, <1>3, FreedNew
<1>5. Holds(c, k, loc[c].next, self)
  BY <1>1, <1>2 DEF Holds
<1> QED
  BY <1>3, <1>4, <1>5, HoldOwned

\* What was set is queued to go back
LEMMA InterruptedOwned ==
    ASSUME Shape, Owned, NEW c \in Clients, WaitInterrupted(c)
    PROVE  Owned'
<1>1. /\ loc[c].pc \in {"wait", "got"} /\ UNCHANGED status /\ self'.pool = self.pool
      /\ self'.tasks = IF loc[c].pc = "got"
                       THEN Append(self.tasks, ReturnConnection(loc[c].conn))
                       ELSE self.tasks
      /\ loc'[c].conn = NoConn /\ loc'[c].out = {}
      /\ \A u \in Tasks : u # c => /\ loc'[u].conn = loc[u].conn
                                   /\ loc'[u].out = loc[u].out \ {c}
      /\ loc[c].pc = "got" => loc[c].conn \in Conns
  BY InterruptedEffect DEF connVars
<1>2. c \in Tasks /\ Types /\ loc[c].out = {} /\ c \notin Conns
      /\ (loc[c].pc = "wait" => loc[c].conn = NoConn)
  BY ClientFields, AsyncAssumption DEF AsyncAssumption
<1>3. \A u \in Tasks : loc'[u].out \cap Conns = loc[u].out \cap Conns
  BY <1>1, <1>2
<1>4. CASE loc[c].pc = "wait"
  BY <1>1, <1>2, <1>3, <1>4, StillOwned
<1>5. CASE loc[c].pc = "got"
  <2> DEFINE k == loc[c].conn
             J == self.tasks
             j == ReturnConnection(k)
             H == HandWithout(c)
             Lv == Live
             Rest == Lv \ {k}
  <2>1. Hand' = H /\ Lists' = Lists /\ Live' = Lv
    BY <1>1, <1>3 DEF Hand, HandWithout, Lists, Live
  <2>2. k \in Conns /\ OwnedIn(self.pool, J, H, Lists, Rest) /\ k \in Lv
    BY <1>1, <1>2, <1>5, FreedByHand DEF Freed, Live
  <2>3. J \in Seq(Jobs) /\ j \in Jobs /\ j.conn = k /\ {k} \ {NoConn} = {k}
    BY <1>2, <2>2, PoolFields, JobTypes, NewFields, AsyncAssumption DEF AsyncAssumption, Types
  <2>4. self'.tasks = Append(J, j) /\ k \notin Rest
    BY <1>1, <1>5
  <2>5. Rest \cup ({k} \ {NoConn}) = Lv
    BY <2>2, <2>3
  <2> HIDE DEF k, J, j, H, Lv, Rest
  <2>6. OwnedIn(self.pool, Append(J, j), H, Lists, Rest \cup ({k} \ {NoConn}))
    BY <2>2, <2>3, <2>4, GiveJob
  <2>7. OwnedIn(self.pool, Append(J, j), H, Lists, Lv)
    BY <2>5, <2>6
  <2> QED
    BY <1>1, <2>1, <2>4, <2>7, OwnedNext
<1> QED
  BY <1>1, <1>4, <1>5

\* The clients' steps keep the owners
LEMMA ClientOwned ==
    ASSUME Shape, Owned, NEW c \in Clients, ClientStep(c) \/ PutStep(c) \/ Start(c) \/ Interrupt(c)
    PROVE  Owned'
<1>0. c \in Tasks /\ Types
  BY ClientFields
<1>1. CASE GetReady(c)
  BY <1>1, ReadyOwned
<1>2. CASE GetQueue(c)
  BY <1>2, QueueUpEffect, <1>0, SoloSame, StillOwned, MoreOwned, JobTypes, NewFields DEF
     connVars
<1>3. CASE NullConnect(c)
  BY <1>3, NullConnectEffect, <1>0, StillOwned, SoloSame DEF connVars, SameTasks
<1>4. CASE \E k \in Conns : NullConnected(c, k)
  BY <1>4, NullConnectedOwned
<1>5. CASE NullConnectFailed(c)
  BY <1>5, NullFailedEffect, ClientFields, StillOwned DEF connVars, SameTasks, Left, Moved
<1>6. CASE Quiet(c)
  BY <1>6, QuietEffect, ClientFields, <1>0, SoloSame, StillOwned DEF connVars
<1>7. CASE WaitInterrupted(c)
  BY <1>7, InterruptedOwned
<1>8. CASE \/ \E st \in Leaves : PutConn(c, st) \/ NullPutConn(c, st) \/ CheckBad(c, st)
           \/ PutCancelled(c)
  BY <1>8, PutOwned
<1> QED
  BY <1>1, <1>2, <1>3, <1>4, <1>5, <1>6, <1>7, <1>8
     DEF ClientStep, PutStep, Start, Interrupt, Quiet

\* So do the steps any task with a connection takes
LEMMA TaskOwned ==
    ASSUME Shape, Owned, NEW t \in Tasks, Reset(t) \/ AddLocked(t)
    PROVE  Owned'
<1> DEFINE c == loc[t].conn
<1>1. CASE Reset(t)
  BY <1>1, ResetEffect, FreedByHand, ReturnOwned DEF Passing, LiveStatus
<1>2. CASE AddLocked(t)
  BY <1>2, AddLockedEffect, FreedByHand, AddOwned DEF Passing
<1> QED
  BY <1>1, <1>2

\* What a worker has
LEMMA WorkerFields ==
    ASSUME Shape, NEW w \in Workers
    PROVE  /\ w \in Tasks /\ w \notin Callers /\ w \notin Clients /\ Types /\ self \in Pools
           /\ Fits(w, loc[w]) /\ loc[w] \in Locals /\ loc[w].out = {}
           /\ loc[w].pc \in {"idle", "connect", "stopped"} => loc[w].conn = NoConn
           /\ loc[w].job \in AddJobs
BY OneRole, LocalFields DEF Tasks, Shape, Types, Placed, Fits, Holding

\* What it does with a task it does not run, or that it runs later
LEMMA TakeEffect ==
    ASSUME Shape, NEW w \in Workers, WorkerStop(w) \/ WorkerAdd(w) \/ WorkerDiscard(w)
    PROVE  /\ self.tasks # <<>> /\ self' = Taken /\ loc[w].pc = "idle"
           /\ UNCHANGED <<null, history>>
           /\ \/ /\ WorkerStop(w) /\ Head(self.tasks).kind = "stop" /\ UNCHANGED connVars
                 /\ Moved(w, "stopped", loc[w].conn, loc[w].next, loc[w].out, loc[w].job)
              \/ /\ WorkerAdd(w) /\ Head(self.tasks).kind = "add" /\ UNCHANGED connVars
                 /\ Head(self.tasks) \in AddJobs /\ ~self.closed
                 /\ Moved(w, "connect", loc[w].conn, loc[w].next, loc[w].out, Head(self.tasks))
              \/ /\ WorkerDiscard(w) /\ self.closed /\ UNCHANGED loc
                 /\ Close({Head(self.tasks).conn})
<1>1. w \in Tasks /\ Types
  BY WorkerFields
<1>2. CASE WorkerStop(w)
  BY <1>2, <1>1, Names, MovesPc DEF WorkerStop, Take
<1>3. CASE WorkerAdd(w)
  BY <1>3, <1>1, TakenFields, JobFields, Names, MovesJob DEF WorkerAdd, Take
<1>4. CASE WorkerDiscard(w)
  BY <1>4 DEF WorkerDiscard, Take
<1> QED
  BY <1>2, <1>3, <1>4

\* So does a worker that takes a task
LEMMA TakeOwned ==
    ASSUME Shape, Owned, NEW w \in Workers, WorkerStop(w) \/ WorkerAdd(w) \/ WorkerDiscard(w)
    PROVE  Owned'
<1>1. w \in Tasks /\ Types /\ self \in Pools
  BY WorkerFields
<1>2. /\ self.tasks # <<>> /\ self' = Taken /\ self'.pool = self.pool
      /\ self'.tasks = Tail(self.tasks) /\ Head(self.tasks) \in Jobs
  BY <1>1, TakeEffect, TakenFields
<1>3. CASE \E p, j : /\ Moved(w, p, loc[w].conn, loc[w].next, loc[w].out, j)
                     /\ UNCHANGED connVars /\ Head(self.tasks).kind # "return"
  BY <1>2, <1>3, JobFields, <1>1, SoloSame, LessOwned DEF connVars
<1>4. CASE UNCHANGED loc /\ Close({Head(self.tasks).conn})
  <2> DEFINE c == Head(self.tasks).conn
             J == self.tasks
             H == Hand
             Lv == Live
  <2>1. OwnedIn(self.pool, J, H, Lists, Lv) /\ J \in Seq(Jobs) /\ J # <<>> /\ Head(J).conn = c
    BY <1>1, <1>2, PoolFields DEF Owned
  <2>2. Hand' = H /\ Lists' = Lists /\ Live' = Lv \ {c}
    BY <1>4 DEF Close, Hand, Lists, Live
  <2>3. c = NoConn => Lv \ {c} = Lv
    BY AsyncAssumption DEF AsyncAssumption, Live
  <2> HIDE DEF H, Lv, J
  <2>4. OwnedIn(self.pool, Tail(J), H, Lists, Lv \ {c})
    <3> HIDE DEF c
    <3>1. /\ c # NoConn => OwnedIn(self.pool, Tail(J), H, Lists, Lv \ {c}) /\ c \in Lv
          /\ c = NoConn => OwnedIn(self.pool, Tail(J), H, Lists, Lv)
      BY <2>1, TakeJob
    <3> QED
      BY <2>3, <3>1
  <2> QED
    BY <1>2, <2>2, <2>4, OwnedNext DEF J
<1> QED
  BY <1>3, <1>4, TakeEffect

\* So does the shrink task
LEMMA ShrinkOwned ==
    ASSUME Shape, Owned, NEW w \in Workers, Shrink(w)
    PROVE  Owned'
<1>1. /\ self.tasks # <<>> /\ Head(self.tasks).kind = "shrink" /\ UNCHANGED loc
      /\ self'.tasks = Tail(self.tasks)
      /\ \/ /\ self.pool # <<>> /\ self'.pool = Tail(self.pool)
            /\ Head(self.pool) \in Conns /\ Becomes(Head(self.pool), "absent")
         \/ self'.pool = self.pool /\ UNCHANGED status
  BY ShrinkEffect DEF connVars
<1>2. /\ Types /\ self.tasks \in Seq(Jobs) /\ self.pool \in Seq(Conns)
      /\ Head(self.tasks).conn = NoConn
  BY WorkerFields, PoolFields, <1>1, TakenFields, JobFields
<1>3. CASE self'.pool = self.pool /\ UNCHANGED status
  BY <1>1, <1>2, <1>3, LessOwned
<1>4. CASE /\ self.pool # <<>> /\ self'.pool = Tail(self.pool)
           /\ Head(self.pool) \in Conns /\ Becomes(Head(self.pool), "absent")
  <2> DEFINE J == self.tasks
             P == self.pool
             h == Head(P)
             H == Hand
             Lv == Live
  <2>1. /\ OwnedIn(P, J, H, Lists, Lv) /\ J # <<>> /\ J \in Seq(Jobs) /\ Head(J).conn = NoConn
        /\ P \in Seq(Conns) /\ P # <<>>
    BY <1>1, <1>2, <1>4 DEF Owned
  <2>2. Hand' = H /\ Lists' = Lists /\ Live' = Lv \ {h}
    BY <1>1, <1>4, BecomesLive DEF Hand, Lists
  <2>3. self'.pool = Tail(P) /\ self'.tasks = Tail(J)
    BY <1>1, <1>4
  <2> HIDE DEF J, P, h, H, Lv
  <2>4. OwnedIn(P, Tail(J), H, Lists, Lv)
    BY <2>1, TakeJob
  <2>5. OwnedIn(Tail(P), Tail(J), H, Lists, Lv \ {Head(P)})
    <3> DEFINE K == Tail(J)
    <3>1. OwnedIn(P, K, H, Lists, Lv)
      BY <2>4
    <3> HIDE DEF K
    <3>2. OwnedIn(Tail(P), K, H, Lists, Lv \ {Head(P)})
      BY <2>1, <3>1, TakePool
    <3> QED
      BY <3>2 DEF K
  <2> QED
    BY <2>2, <2>3, <2>5, OwnedNext DEF h
<1> QED
  BY <1>1, <1>3, <1>4

\* So do the workers' steps
LEMMA WorkerOwned ==
    ASSUME Shape, Owned, NEW w \in Workers, WorkerStep(w)
    PROVE  Owned'
<1>0. w \in Tasks /\ Types /\ (loc[w].pc \in {"idle", "connect"} => loc[w].conn = NoConn)
  BY WorkerFields
<1>1. CASE WorkerStop(w) \/ WorkerAdd(w) \/ WorkerDiscard(w)
  BY <1>1, TakeOwned
<1>2. CASE WorkerReturn(w)
  <2> DEFINE c == Head(self.tasks).conn
  <2>1. Passing(w, c, "idle", Taken)
    BY <1>2, WorkerReturnEffect
  <2>2. self.tasks # <<>> /\ loc[w].pc = "idle"
    BY <1>2 DEF WorkerReturn, Take
  <2>3. Freed(w, c, Taken) /\ status[c] # "absent"
    BY <1>0, <2>1, <2>2, FreedByTask DEF Passing
  <2>4. status[c] \in LiveStatus /\ ReturnForms(w, c, "idle", status[c], Taken)
    BY <1>2, <2>3, WorkerReturnEffect
  <2> QED
    BY <2>1, <2>3, <2>4, ReturnOwned
<1>3. ASSUME NEW k \in Conns, Connected(w, k) PROVE Owned'
  BY <1>3, ConnectedEffect, <1>0, FreedNew, AddOwned DEF Connected
<1>4. CASE ConnectRetry(w) \/ ConnectGiveUp(w)
  <2>1. /\ loc[w].pc = "connect" /\ Left(w, "idle") /\ UNCHANGED status
        /\ self'.pool = self.pool /\ self'.tasks = self.tasks
    BY <1>4, RetryEffect, GiveUpEffect DEF connVars
  <2>2. \A u \in Tasks : loc'[u].conn = loc[u].conn
                         /\ loc'[u].out \cap Conns = loc[u].out \cap Conns
    BY <1>0, <2>1 DEF Left, Moved
  <2> QED
    BY <2>1, <2>2, StillOwned
<1>5. CASE Shrink(w)
  BY <1>5, ShrinkOwned
<1> QED
  BY <1>1, <1>2, <1>3, <1>4, <1>5 DEF WorkerStep

\* The connections of the pool are closed, or go to a list, and tasks are queued
LEMMA DrainOwned ==
    ASSUME Shape, Owned, NEW j \in Jobs, j.conn = NoConn, NEW n \in Nat,
           self'.pool = <<>>, self'.tasks = self.tasks \o Copies(n, j),
           status' = [c \in Conns |-> IF c \in Contents(self.pool) THEN "absent" ELSE status[c]],
           \A u \in Tasks : loc'[u].conn = loc[u].conn
                            /\ loc'[u].out \cap Conns = loc[u].out \cap Conns
    PROVE  Owned'
<1> DEFINE J == self.tasks
           P == self.pool
           H == Hand
           O == Lists
           Lv == Live
           K == J \o Copies(n, j)
<1>1. Hand' = H /\ Lists' = O /\ Live' = Lv \ Elements(P)
  BY DEF Hand, Lists, Live, Contents, Elements
<1>2. OwnedIn(P, J, H, O, Lv) /\ J \in Seq(Jobs)
  BY PoolFields DEF Owned, Shape, Types
<1>3. self'.tasks = K /\ self'.pool = <<>>
  OBVIOUS
<1> HIDE DEF J, P, H, O, Lv
<1>4. OwnedIn(P, K, H, O, Lv)
  BY <1>2, GiveJobs
<1> HIDE DEF K
<1>5. OwnedIn(<<>>, K, H, O, Lv \ Elements(P))
  BY <1>4, ClearPool
<1> QED
  BY <1>1, <1>3, <1>5, OwnedNext

\* So does check()
LEMMA CheckOwned ==
    ASSUME Shape, Owned, NEW a \in Callers, Check(a)
    PROVE  Owned'
<1> DEFINE J == self.tasks
           P == self.pool
           H == Hand
           O == Lists
           Q == Lists'
           Lv == Live
           S == Elements(P)
           j == AddConnection(TRUE, 0)
<1>1. /\ UNCHANGED status /\ self'.pool = <<>> /\ loc[a].out = {}
      /\ self'.tasks = J \/ self'.tasks = Append(J, j)
      /\ S \subseteq Conns
      /\ Moved(a, "checking", loc[a].conn, loc[a].next, S, loc[a].job)
  BY CheckEffect DEF connVars, Contents, Elements
<1>2. /\ OwnedIn(P, J, H, O, Lv) /\ J \in Seq(Jobs) /\ a \in Tasks
      /\ j \in Jobs /\ j.conn = NoConn
  BY CallerFields, PoolFields, JobTypes, NewFields DEF Owned, Types
<1>3. Hand' = H /\ Live' = Lv
  BY <1>1, <1>2 DEF Moved, Hand, Live
<1>4. /\ a \in DOMAIN O /\ O[a] = {} /\ DOMAIN Q = DOMAIN O /\ Q[a] = S
      /\ \A u \in DOMAIN O : u # a => Q[u] = O[u]
  BY <1>1, <1>2 DEF Moved, Lists
<1> HIDE DEF J, P, H, O, Q, Lv, S, j
<1>5. OwnedIn(<<>>, J, H, O, Lv \ S) /\ S \subseteq Lv
  BY <1>2, ClearPool DEF S
<1> DEFINE Rest == Lv \ S
<1>6. S \cap Rest = {} /\ Rest \cup S = Lv
  BY <1>5
<1> HIDE DEF Rest
<1>7. OwnedIn(<<>>, J, H, O, Rest)
  BY <1>5 DEF Rest
<1>8. OwnedIn(<<>>, J, H, Q, Rest \cup S)
  BY <1>4, <1>6, <1>7, GiveOut
<1>9. OwnedIn(<<>>, J, H, Q, Lv)
  BY <1>6, <1>8
<1>10. OwnedIn(<<>>, Append(J, j), H, Q, Lv)
  <2> DEFINE E == <<>>
  <2>1. OwnedIn(E, J, H, Q, Lv)
    BY <1>9
  <2> HIDE DEF E
  <2>2. OwnedIn(E, Append(J, j), H, Q, Lv)
    BY <1>2, <2>1, GiveJobNone
  <2> QED
    BY <2>2 DEF E
<1> QED
  BY <1>1, <1>3, <1>9, <1>10, OwnedNext DEF Q

\* check() takes a connection from its list
LEMMA CheckNextOwned ==
    ASSUME Shape, Owned, NEW a \in Callers, CheckNext(a)
    PROVE  Owned'
<1> DEFINE J == self.tasks
           P == self.pool
           H == Hand
           G == Hand'
           O == Lists
           Q == Lists'
           Lv == Live
<1>1. /\ UNCHANGED <<self, status>> /\ loc[a].conn = NoConn /\ a \in Tasks
      /\ \/ \E c \in Conns \cap loc[a].out :
               Moved(a, "checked", c, "checking", loc[a].out \ {c}, loc[a].job)
         \/ Moved(a, "idle", NoConn, loc[a].next, loc[a].out, loc[a].job)
  BY CheckNextEffect, CallerFields DEF connVars
<1>2. CASE Moved(a, "idle", NoConn, loc[a].next, loc[a].out, loc[a].job)
  BY <1>1, <1>2, SoloSame, StillOwned
<1>3. ASSUME NEW c \in Conns \cap loc[a].out,
             Moved(a, "checked", c, "checking", loc[a].out \ {c}, loc[a].job)
      PROVE  Owned'
  <2>1. /\ OwnedIn(P, J, H, O, Lv) /\ Live' = Lv /\ self'.pool = P /\ self'.tasks = J
        /\ c # NoConn
    BY <1>1, AsyncAssumption DEF Owned, Live, AsyncAssumption
  <2>2. /\ a \in DOMAIN O /\ c \in O[a] /\ DOMAIN Q = DOMAIN O /\ Q[a] = O[a] \ {c}
        /\ \A u \in DOMAIN O : u # a => Q[u] = O[u]
    BY <1>1, <1>3 DEF Moved, Lists
  <2>3. /\ a \in DOMAIN H /\ H[a] = NoConn /\ DOMAIN G = DOMAIN H /\ G[a] = c
        /\ \A u \in DOMAIN H : u # a => G[u] = H[u]
    BY <1>1, <1>3 DEF Moved, Hand
  <2> HIDE DEF J, P, H, G, O, Q, Lv
  <2>4. OwnedIn(P, J, H, Q, Lv \ {c}) /\ c \in Lv
    BY <2>1, <2>2, TakeOut
  <2> DEFINE K == Lv \ {c}
  <2>5. c \notin K /\ K \cup {c} = Lv
    BY <2>4
  <2>6. OwnedIn(P, J, H, Q, K)
    BY <2>4
  <2> HIDE DEF K
  <2>7. OwnedIn(P, J, G, Q, K \cup {c})
    BY <2>1, <2>3, <2>5, <2>6, GiveHand
  <2>8. OwnedIn(P, J, G, Q, Lv)
    BY <2>5, <2>7
  <2> QED
    BY <2>1, <2>8, OwnedNext DEF G, Q
<1> QED
  BY <1>1, <1>2, <1>3

\* close() fails the clients of its list
LEMMA FailOwned ==
    ASSUME Shape, Owned, NEW a \in Callers, FailWaiting(a) \/ CloseCancelled(a)
    PROVE  Owned'
<1>1. /\ a \in Tasks /\ loc[a] \in Locals /\ loc \in [Tasks -> Locals]
      /\ loc[a].pc = "closing" => loc[a].conn = NoConn /\ loc[a].out \subseteq Clients
  BY CallerFields DEF Fits, Holding, Types
<1>2. Clients \cap Conns = {}
  BY AsyncAssumption DEF AsyncAssumption
<1>3. CASE FailWaiting(a)
  BY <1>3, FailEffect, <1>1, <1>2, StillOwned DEF connVars
<1>4. CASE CloseCancelled(a)
  BY <1>4, <1>1, <1>2, StillOwned DEF CloseCancelled, connVars, At
<1> QED
  BY <1>3, <1>4

\* The methods of the pool
LEMMA MethodOwned ==
    ASSUME Shape, Owned, NEW a \in Callers, ClosePool(a) \/ Drain(a) \/ Wait(a)
    PROVE  Owned'
<1>1. /\ a \in Tasks /\ Types /\ StopWorker \in Jobs /\ NewConnection \in Jobs
      /\ StopWorker.conn = NoConn /\ NewConnection.conn = NoConn
      /\ Cardinality(Workers) \in Nat /\ Clients \cap Conns = {}
  BY CallerFields, JobTypes, NewFields, FS_CardinalityType, AsyncAssumption
     DEF AsyncAssumption
<1>2. Len(self.pool) \in Nat
  BY <1>1, PoolFields DEF Types
<1>3. CASE ClosePool(a)
  <2>1. /\ self'.pool = <<>>
        /\ self'.tasks = self.tasks \o Copies(Cardinality(Workers), StopWorker)
        /\ status' = [c \in Conns |-> IF c \in Contents(self.pool) THEN "absent" ELSE status[c]]
        /\ loc[a].pc \in {"idle", "full"}
        /\ \E S \in SUBSET Clients : Moved(a, "closing", loc[a].conn, loc[a].next, S, loc[a].job)
    BY <1>3, CloseEffect DEF Close
  <2>2. loc[a].out = {}
    BY <2>1, CallerFields DEF Fits
  <2>3. \A u \in Tasks : loc'[u].conn = loc[u].conn
                         /\ loc'[u].out \cap Conns = loc[u].out \cap Conns
    BY <1>1, <2>1, <2>2 DEF Moved
  <2> QED
    BY <1>1, <2>1, <2>3, DrainOwned
<1>4. CASE Drain(a)
  BY <1>4, DrainEffect, <1>1, <1>2, DrainOwned
<1>5. CASE Wait(a)
  <2>1. /\ UNCHANGED status /\ self'.pool = self.pool
        /\ self'.tasks = self.tasks \/ self'.tasks = Append(self.tasks, NewConnection)
        /\ \/ UNCHANGED loc
           \/ Moved(a, "full", loc[a].conn, loc[a].next, loc[a].out, loc[a].job)
    BY <1>5, WaitEffect DEF connVars
  <2>2. \A u \in Tasks : loc'[u].conn = loc[u].conn
                         /\ loc'[u].out \cap Conns = loc[u].out \cap Conns
    BY <1>1, <2>1, SoloSame
  <2> DEFINE j == NewConnection
  <2>3. j \in Jobs /\ j.conn = NoConn
        /\ (self'.tasks = self.tasks \/ self'.tasks = Append(self.tasks, j))
    BY <1>1, <2>1
  <2> HIDE DEF j
  <2> QED
    BY <1>1, <2>1, <2>2, <2>3, StillOwned, MoreOwned
<1> QED
  BY <1>3, <1>4, <1>5

\* So do the callers' steps
LEMMA CallerOwned ==
    ASSUME Shape, Owned, NEW a \in Callers, CallerStep(a) \/ Call(a) \/ CloseCancelled(a)
    PROVE  Owned'
<1>0. a \in Tasks /\ Types
  BY CallerFields
<1>1. CASE Checked(a)
  <2> DEFINE c == loc[a].conn
  <2>1. /\ Passing(a, c, "checking", self)
        /\ Replaces(a, c, "checking", self) \/ AddForms(a, c, "checking", FALSE, self)
    BY <1>1, CheckedEffect
  <2>2. Freed(a, c, self) /\ FALSE \in BOOLEAN
    BY <2>1, FreedByHand DEF Passing
  <2> QED
    BY <2>1, <2>2, AddOwned, ReplaceOwned
<1>2. CASE WaitDone(a)
  BY <1>2, WaitDoneEffect, <1>0, SoloSame, StillOwned DEF connVars
<1>3. ASSUME NEW size \in NewSizes, Resize(a, size) PROVE Owned'
  <2> DEFINE j == NewConnection
  <2>1. /\ UNCHANGED <<loc, status>> /\ self'.pool = self.pool
        /\ \E n \in Nat : self'.tasks = self.tasks \o Copies(n, j)
    BY <1>3, ResizeEffect DEF connVars
  <2>2. j \in Jobs /\ j.conn = NoConn
    BY JobTypes, NewFields
  <2> HIDE DEF j
  <2> QED
    BY <1>0, <2>1, <2>2, MoreOwned
<1> QED
  BY <1>1, <1>2, <1>3, CheckNextOwned, FailOwned, MethodOwned, CheckOwned
     DEF CallerStep, Call

\* The scheduler, and the server
LEMMA TickOwned ==
    ASSUME Shape, Owned, Tick \/ TickShrink \/ Break
    PROVE  Owned'
<1>0. Types /\ Retries \subseteq Jobs /\ (\A r \in Retries : r.conn = NoConn)
  BY JobTypes, AddFields DEF Shape
<1>1. CASE Tick
  BY <1>1, TickEffect, <1>0, MoreOwned DEF connVars
<1>2. CASE TickShrink
  <2> DEFINE j == ShrinkPool
  <2>1. /\ UNCHANGED <<loc, status>> /\ self'.pool = self.pool
        /\ self'.tasks = Append(self.tasks, j)
    BY <1>2, TickShrinkEffect DEF connVars
  <2>2. j \in Jobs /\ j.conn = NoConn
    BY JobTypes, NewFields
  <2> HIDE DEF j
  <2> QED
    BY <1>0, <2>1, <2>2, MoreOwned
<1>3. CASE Break
  BY <1>3, <1>0 DEF Break, Types, Live, Hand, Lists, Owned
<1> QED
  BY <1>1, <1>2, <1>3

\* Every step keeps each connection in one place
LEMMA NextOwned ==
    ASSUME Shape, Owned, Next
    PROVE  Owned'
BY ClientOwned, PutOwned, InterruptedOwned, TaskOwned, WorkerOwned, CallerOwned, TickOwned DEF
   PutStep, Start, Interrupt, Next

\* Who owns a connection is its only place
LEMMA OwnedPlaces ==
    ASSUME Owned
    PROVE  ExclusiveOwnership
<1> SUFFICES ASSUME NEW c \in Conns
             PROVE  Cardinality(Places(c)) = IF status[c] = "absent" THEN 0 ELSE 1
  BY DEF ExclusiveOwnership
<1> DEFINE V == Images(TaskConns(self.tasks), NoConn)
           W == Images(Hand, NoConn)
<1>0. c # NoConn
  BY AsyncAssumption DEF AsyncAssumption
<1>1. /\ c \in Elements(self.pool) <=> \E i \in DOMAIN self.pool : self.pool[i] = c
      /\ c \in V <=> \E i \in DOMAIN self.tasks : self.tasks[i].conn = c
      /\ c \in W <=> \E t \in Tasks : loc[t].conn = c
      /\ (\E t \in DOMAIN Lists : c \in Lists[t]) <=> \E t \in Tasks : c \in loc[t].out
  BY <1>0 DEF Elements, Images, TaskConns, Hand, Lists
<1>2. /\ c \in Live <=> \/ c \in Elements(self.pool) \/ c \in V \/ c \in W
                        \/ \E t \in DOMAIN Lists : c \in Lists[t]
      /\ c \in Elements(self.pool) => c \notin V /\ c \notin W
                                      /\ \A t \in DOMAIN Lists : c \notin Lists[t]
      /\ c \in V => c \notin W /\ \A t \in DOMAIN Lists : c \notin Lists[t]
      /\ c \in W => \A t \in DOMAIN Lists : c \notin Lists[t]
  BY DEF Owned, OwnedIn
<1>3. /\ \A i, j \in DOMAIN self.pool : self.pool[i] = c /\ self.pool[j] = c => i = j
      /\ \A i, j \in DOMAIN self.tasks :
            self.tasks[i].conn = c /\ self.tasks[j].conn = c => i = j
      /\ \A t, u \in Tasks : loc[t].conn = c /\ loc[u].conn = c => t = u
      /\ \A t, u \in Tasks : c \in loc[t].out /\ c \in loc[u].out => t = u
  BY <1>0 DEF Owned, OwnedIn, Distinct, OneEach, TaskConns, Hand, Lists
<1>4. c \in Live <=> status[c] # "absent"
  BY DEF Live
<1> HIDE DEF V, W
<1>5. CASE status[c] = "absent"
  <2>1. Places(c) = {}
    BY <1>1, <1>2, <1>4, <1>5 DEF Places
  <2> QED
    BY <1>5, <2>1, FS_EmptySet
<1>6. CASE status[c] # "absent"
  <2> SUFFICES \E p : Places(c) = {p}
    BY <1>6, FS_Singleton
  <2>1. CASE c \in Elements(self.pool)
    <3>1. PICK i \in DOMAIN self.pool : self.pool[i] = c
      BY <1>1, <2>1
    <3>2. Places(c) = {<<"pool", i>>}
      BY <1>1, <1>2, <1>3, <2>1, <3>1 DEF Places
    <3> QED
      BY <3>2
  <2>2. CASE c \in V
    <3>1. PICK i \in DOMAIN self.tasks : self.tasks[i].conn = c
      BY <1>1, <2>2
    <3>2. Places(c) = {<<"job", i>>}
      BY <1>1, <1>2, <1>3, <2>2, <3>1 DEF Places
    <3> QED
      BY <3>2
  <2>3. CASE c \in W
    <3>1. PICK t \in Tasks : loc[t].conn = c
      BY <1>1, <2>3
    <3>2. Places(c) = {<<"task", t>>}
      BY <1>1, <1>2, <1>3, <2>3, <3>1 DEF Places
    <3> QED
      BY <3>2
  <2>4. CASE \E t \in DOMAIN Lists : c \in Lists[t]
    <3>1. PICK t \in Tasks : c \in loc[t].out
      BY <1>1, <2>4
    <3>2. Places(c) = {<<"task", t>>}
      BY <1>1, <1>2, <1>3, <2>4, <3>1 DEF Places
    <3> QED
      BY <3>2
  <2> QED
    BY <1>2, <1>4, <1>6, <2>1, <2>2, <2>3, <2>4
<1> QED
  BY <1>5, <1>6

\* A pool just opened
LEMMA InitTypes ==
    ASSUME Init
    PROVE  Types /\ self.pool = <<>> /\ self.waiting = <<>> /\ self.lock = NoTask
           /\ \E n \in Nat : self.tasks = Copies(n, NewConnection)
<1> MinSize \in Nat /\ MaxSize \in Nat
  BY AsyncAssumption DEF AsyncAssumption
<1>1. null \in BOOLEAN /\ self = Opened(null)
  BY DEF Init
<1>2. \E n \in Nat : InitialTasks(null) = Copies(n, NewConnection)
  <2>1. Copies(0, NewConnection) = <<>>
    BY DEF Copies
  <2> QED
    BY <1>1, <2>1 DEF InitialTasks
<1>3. InitialTasks(null) \in Seq(Jobs)
  BY <1>2, CopiesType, JobTypes
<1>4. /\ [r \in Retries |-> 0] \in [Retries -> Nat]
      /\ <<>> \in Seq(Conns) /\ <<>> \in Seq(Clients \cup {Gone})
      /\ NoTask \in Clients \cup {NoTask}
      /\ (IF null THEN 0 ELSE MinSize) \in Nat /\ (IF null THEN 0 ELSE 1) \in Nat
      /\ (IF null THEN 0 ELSE MinSize) \in Int
  BY <1>1
<1>5. self \in Pools
  <2> DEFINE T == InitialTasks(null)
             D == [r \in Retries |-> 0]
             n == IF null THEN 0 ELSE MinSize
             m == IF null THEN 0 ELSE 1
  <2>1. /\ T \in Seq(Jobs) /\ D \in [Retries -> Nat] /\ n \in Nat /\ n \in Int /\ m \in Nat
        /\ self = [closed |-> FALSE, lock |-> NoTask, pool |-> <<>>, waiting |-> <<>>,
                   nconns |-> n, nconnsMin |-> n, growing |-> FALSE, minSize |-> n,
                   maxSize |-> MaxSize, event |-> "none", tasks |-> T, delayed |-> D,
                   shrinks |-> m]
    BY <1>1, <1>3, <1>4 DEF Opened
  <2> HIDE DEF T, D, n, m
  <2> QED
    BY <1>4, <2>1 DEF Pools
<1>6. At("idle", NoConn, "idle") \in Locals
  BY JobTypes DEF At, Locals, PCs, Nexts
<1>7. loc \in [Tasks -> Locals] /\ status \in [Conns -> LiveStatus \cup {"absent"}]
  BY <1>6 DEF Init
<1> QED
  BY <1>1, <1>2, <1>5, <1>7 DEF Init, Types, Opened

\* A pool just opened has the shape
LEMMA InitShape ==
    ASSUME Init
    PROVE  Shape /\ Owned
<1>1. Types /\ self.pool = <<>> /\ self.waiting = <<>> /\ self.lock = NoTask
      /\ \E n \in Nat : self.tasks = Copies(n, NewConnection)
  BY InitTypes
<1>2. \A t \in Tasks : /\ loc[t].pc = "idle" /\ loc[t].conn = NoConn
                       /\ loc[t].next = "idle" /\ loc[t].out = {}
  BY DEF Init, At
<1>3. Placed
  BY <1>2 DEF Placed, Fits, ClientPCs, WorkerPCs, CallerPCs, Holding
<1>4. Locked /\ Queued
  BY AsyncAssumption, <1>1, <1>2 DEF AsyncAssumption, Tasks, Locked, Queued
<1>5. Owned
  <2> DEFINE E == <<>>
             H == Hand
             O == Lists
  <2>1. OwnedIn(E, E, H, O, {})
    BY <1>2, ElementsEmpty
       DEF OwnedIn, Hand, Lists, OneEach, Images, TaskConns
  <2>2. Live = {} /\ self.pool = E
    BY <1>1 DEF Init, Live
  <2>3. PICK n \in Nat : self.tasks = Copies(n, NewConnection)
    BY <1>1
  <2>4. NewConnection \in Jobs /\ NewConnection.conn = NoConn /\ E \in Seq(Jobs)
    BY JobTypes, NewFields
  <2>5. E \o Copies(n, NewConnection) = Copies(n, NewConnection)
    BY DEF Copies
  <2> HIDE DEF E, H, O
  <2>6. OwnedIn(E, E \o Copies(n, NewConnection), H, O, {})
    BY <2>1, <2>4, GiveJobs
  <2> QED
    BY <2>2, <2>3, <2>5, <2>6 DEF Owned, H, O
<1> QED
  BY <1>1, <1>3, <1>4, <1>5 DEF Shape

\* What every pool keeps: its tasks and connections are where they should, and each
\* connection has one owner
THEOREM OwnersCorrect == Spec => [](Shape /\ Owned)
<1>1. Init => Shape /\ Owned
  BY InitShape
<1>2. Shape /\ Owned /\ [Next]_vars => (Shape /\ Owned)'
  <2> SUFFICES ASSUME Shape, Owned, [Next]_vars PROVE Shape' /\ Owned'
    OBVIOUS
  <2>1. CASE Next
    <3>1. TasksOpen
      BY OwnedTasks DEF Shape
    <3> QED
      BY <2>1, <3>1, NextShape, NextOwned
  <2>2. CASE UNCHANGED vars
    BY <2>2 DEF vars, connVars, history, Shape, Types, Placed, Fits, Locked, Queued, Owned,
       Hand, Lists, Live
  <2> QED
    BY <2>1, <2>2
<1> QED
  BY <1>1, <1>2, PTL DEF Spec

\* The types, and where tasks have a connection
LEMMA ShapeTypes ==
    ASSUME Shape
    PROVE  TypeOK
BY PoolFields DEF Shape, Types, LiveStatus, Placed, Fits, Locals, Locked, TypeOK

\* The types of TypeOK
THEOREM TypeCorrect == Spec => []TypeOK
<1>1. Shape /\ Owned => TypeOK
  BY ShapeTypes
<1> QED
  BY <1>1, OwnersCorrect, PTL

\* However tasks are cancelled, an open connection has one owner, a closed one none
THEOREM OwnershipCorrect == Spec => []ExclusiveOwnership
<1>1. Shape /\ Owned => ExclusiveOwnership
  BY OwnedPlaces
<1> QED
  BY <1>1, OwnersCorrect, PTL

-----------------------------------------------------------------------------
(* Clients that wait *)

Waits(c) == loc[c].pc = "wait"
InLine(c) == \E i \in DOMAIN self.waiting : self.waiting[i] = c
InList(c) == \E a \in Callers : c \in loc[a].out

\* Who waits on an open pool is in its queue
NotMissed == ~self.closed => \A c \in Clients : Waits(c) => InLine(c)

\* A step that makes nobody wait, and after which who still waits is where he was
Undisturbed ==
    /\ self'.closed = self.closed
    /\ cancels' = 0 => cancels = 0
    /\ \A c \in Clients :
          loc'[c].pc = "wait" => /\ Waits(c) /\ loc'[c].next = loc[c].next
                                 /\ InLine(c) => InLine(c)'
                                 /\ InList(c) => InList(c)'

\* Such a step keeps the clients watched
LEMMA UndisturbedKeeps ==
    ASSUME NotMissed, LateClients, Undisturbed
    PROVE  NotMissed' /\ LateClients'
BY DEF NotMissed, Undisturbed, Waits, LateClients, InList

\* A task goes on, and the queue stays or nobody is in it
LEMMA MovedUndisturbed ==
    ASSUME NEW t \in Tasks, NEW p, NEW c, NEW n, NEW o, NEW j, Moved(t, p, c, n, o, j),
           p # "wait", loc[t].out \cap Clients \subseteq o,
           self'.closed = self.closed, cancels' = 0 => cancels = 0,
           self'.waiting = self.waiting \/ \A k \in Clients : ~InLine(k)
    PROVE  Undisturbed
BY DEF Undisturbed, Moved, Tasks, InLine, Waits, InList

\* Only the pool changes
LEMMA StillUndisturbed ==
    ASSUME UNCHANGED <<loc, cancels>>, self'.closed = self.closed,
           self'.waiting = self.waiting
    PROVE  Undisturbed
  BY DEF Undisturbed, Waits, InLine, InList

\* No client is in a queue where nobody is alive
LEMMA NobodyInLine ==
    ASSUME NEW s, Alive(s) = {}, s.waiting = self.waiting
    PROVE  \A k \in Clients : ~InLine(k)
  BY AsyncAssumption DEF AsyncAssumption, Alive, InLine

\* A connection is passed on
LEMMA AddUndisturbed ==
    ASSUME Shape, UNCHANGED cancels, NEW t, NEW c, NEW n, NEW s, Passing(t, c, n, s),
           NEW grow \in BOOLEAN, AddForms(t, c, n, grow, s)
    PROVE  Undisturbed
<1>0. /\ t \in Tasks /\ n \in Nexts /\ n # "wait" /\ s \in Pools
      /\ s.closed = self.closed /\ s.waiting = self.waiting
  BY DEF Passing, Onward, Nexts
<1>1. CASE AddWaits(t, c, n, s)
  BY <1>1, <1>0, MovedUndisturbed DEF AddWaits
<1>2. CASE AddDrops(t, c, n, grow, s)
  <2>1. self' = Grown(s, grow) /\ Moved(t, n, NoConn, "idle", loc[t].out, NewConnection)
    BY <1>2 DEF AddDrops, Left
  <2>2. self'.closed = self.closed /\ self'.waiting = self.waiting
    BY <1>0, <2>1, GrownFields
  <2> QED
    BY <1>0, <2>1, <2>2, MovedUndisturbed
<1>3. CASE AddCloses(t, c, n, grow, s) \/ AddKeeps(t, c, n, grow, s)
  <2>1. PICK s1 : Alike(s, s1) /\ self' = Grown(s1, grow)
    BY <1>3 DEF AddCloses, AddKeeps
  <2>2. Moved(t, n, NoConn, "idle", loc[t].out, NewConnection) /\ Alive(s) = {}
    BY <1>3 DEF AddCloses, AddKeeps, Left
  <2>3. self'.closed = self.closed
    BY <1>0, <2>1, GrownFields DEF Alike
  <2>4. \A k \in Clients : ~InLine(k)
    BY <1>0, <2>2, NobodyInLine
  <2> QED
    BY <1>0, <2>2, <2>3, <2>4, MovedUndisturbed
<1>4. CASE AddGives(t, c, n, grow, s)
  <2>1. PICK k \in Clients, s1 \in Pools :
          /\ k # t /\ loc[k].pc = "wait" /\ Alive(s) # {} /\ k = s.waiting[First(s)]
          /\ Alike(s, s1)
          /\ s1.waiting = SubSeq(s.waiting, First(s) + 1, Len(s.waiting))
          /\ self' = Grown(s1, grow) /\ LeftGiving(t, n, k, c)
    BY <1>4 DEF AddGives
  <2>2. self'.closed = self.closed /\ self'.waiting = s1.waiting
    BY <1>0, <2>1, GrownFields DEF Alike
  <2>3. ASSUME NEW u \in Clients, loc'[u].pc = "wait"
        PROVE  u # k /\ loc'[u] = loc[u]
    BY <1>0, <2>1, <2>3 DEF LeftGiving, Tasks
  <2>4. ASSUME NEW u \in Clients, u # k, InLine(u)
        PROVE  InLine(u)'
    <3> DEFINE q == self.waiting
               f == First(s)
    <3>1. /\ f \in 1 .. Len(q) /\ \A j \in Alive(s) : f <= j
          /\ q \in Seq(Clients \cup {Gone}) /\ q[f] = k
          /\ self'.waiting = SubSeq(q, f + 1, Len(q))
      BY <1>0, <2>1, <2>2, FirstAlive, PoolFields DEF Shape, Types
    <3>2. PICK i \in 1 .. Len(q) : q[i] = u
      BY <2>4, <3>1 DEF InLine
    <3>3. i \in Alive(s)
      BY <1>0, <3>1, <3>2, AsyncAssumption DEF AsyncAssumption, Alive
    <3>4. f < i
      BY <2>4, <3>1, <3>2, <3>3
    <3> HIDE DEF q, f
    <3>5. i - f \in 1 .. Len(SubSeq(q, f + 1, Len(q))) /\ SubSeq(q, f + 1, Len(q))[i - f] = u
      BY <3>1, <3>2, <3>4
    <3> QED
      BY <3>1, <3>5 DEF InLine
  <2>5. \A a \in Callers : loc'[a].out = loc[a].out
    BY <2>1 DEF LeftGiving, Tasks
  <2> QED
    BY <2>2, <2>3, <2>4, <2>5 DEF Undisturbed, Waits, InList
<1> QED
  BY <1>1, <1>2, <1>3, <1>4 DEF AddForms

\* So does returning a connection
LEMMA ReturnUndisturbed ==
    ASSUME Shape, UNCHANGED cancels, NEW t, NEW c, NEW n, NEW s, Passing(t, c, n, s),
           NEW st, \/ ReturnForms(t, c, n, st, s)
                   \/ s = self /\ Queues(t, c, n, st)
                   \/ n = "idle" /\ Closes(t, c)
    PROVE  Undisturbed
<1>0. /\ t \in Tasks /\ n \in Nexts /\ n # "wait" /\ s \in Pools
      /\ s.closed = self.closed /\ s.waiting = self.waiting
  BY DEF Passing, Onward, Nexts
<1>1. ASSUME NEW j, self' = RunTask(s, j), j \in Jobs, Left(t, n) PROVE Undisturbed
  BY <1>0, <1>1, RunTaskFields, MovedUndisturbed DEF Left
<1>2. CASE Replaces(t, c, n, s)
  BY <1>2, JobTypes, <1>1 DEF Replaces
<1>3. CASE Resets(t, c, n, st, s)
  BY <1>3, <1>0, MovedUndisturbed DEF Resets
<1>4. CASE s = self /\ Queues(t, c, n, st)
  BY <1>4, JobTypes, <1>1 DEF Queues, Passing
<1>5. CASE n = "idle" /\ Closes(t, c)
  BY <1>5, <1>0, MovedUndisturbed DEF Closes, Left
<1>6. CASE AddForms(t, c, n, FALSE, s)
  BY <1>6, AddUndisturbed
<1> QED
  BY <1>2, <1>3, <1>4, <1>5, <1>6 DEF ReturnForms

\* The clients
LEMMA ClientWatched ==
    ASSUME Shape, NotMissed, LateClients, NEW c \in Clients,
           ClientStep(c) \/ PutStep(c) \/ Start(c) \/ Interrupt(c)
    PROVE  NotMissed' /\ LateClients'
<1>0. c \in Tasks /\ loc[c].out = {} /\ cancels \in Nat
  BY ClientFields DEF Types
<1>1. CASE GetReady(c)
  BY <1>1, ReadyEffect, <1>0, MovedUndisturbed, UndisturbedKeeps DEF history, SameTasks
<1>2. CASE GetQueue(c)
  <2>1. /\ UNCHANGED cancels /\ self'.closed = self.closed
        /\ self'.waiting = Append(self.waiting, c)
        /\ loc[c].pc = "idle" => ~self.closed
        /\ Moved(c, "wait", loc[c].conn, loc[c].pc, loc[c].out, loc[c].job)
    BY <1>2, QueueUpEffect DEF history
  <2>2. self.waiting \in Seq(Clients \cup {Gone})
    BY <1>0, ClientFields, PoolFields
  <2>3. /\ \A k \in Clients : InLine(k) => InLine(k)'
        /\ InLine(c)'
    BY <2>1, <2>2 DEF InLine
  <2>4. \A k \in Clients : k # c => loc'[k] = loc[k]
    BY <2>1 DEF Moved, Tasks
  <2>5. NotMissed'
    BY <2>1, <2>3, <2>4 DEF NotMissed, Waits
  <2>6. \A a \in Callers : loc'[a].out = loc[a].out
    BY <1>0, <2>1 DEF Moved, Tasks
  <2>7. LateClients'
    BY <1>0, <2>1, <2>4, <2>6 DEF LateClients, Moved
  <2> QED
    BY <2>5, <2>7
<1>3. CASE NullConnect(c)
  BY <1>3, NullConnectEffect, <1>0, MovedUndisturbed, UndisturbedKeeps DEF history, SameTasks
<1>4. ASSUME NEW k \in Conns, NullConnected(c, k) PROVE Undisturbed
  BY <1>4, NullConnectedEffect, <1>0, MovedUndisturbed DEF history, SameTasks
<1>5. CASE NullConnectFailed(c)
  BY <1>5, NullFailedEffect, <1>0, MovedUndisturbed, UndisturbedKeeps DEF history, SameTasks,
     Left
<1>6. CASE Quiet(c)
  BY <1>6, QuietEffect, <1>0, MovedUndisturbed, UndisturbedKeeps
<1>7. CASE WaitInterrupted(c)
  <2>0. cancels' = cancels + 1
    BY <1>7 DEF WaitInterrupted, Cancelled
  <2>1. /\ self'.closed = self.closed
        /\ DOMAIN self'.waiting = DOMAIN self.waiting
        /\ \A i \in DOMAIN self.waiting :
              self'.waiting[i] = IF self.waiting[i] = c THEN Gone ELSE self.waiting[i]
        /\ loc'[c].pc = "idle"
        /\ \A u \in Tasks : u # c => loc'[u].pc = loc[u].pc /\ loc'[u].next = loc[u].next
        /\ \A u \in Tasks : u # c => loc'[u].out = loc[u].out \ {c}
    BY <1>7, InterruptedEffect
  <2>2. cancels' # 0 /\ Clients \subseteq Tasks /\ Callers \subseteq Tasks /\ c \notin Callers
    <3>1. cancels' # 0
      BY <1>0, <2>0
    <3> QED
      BY <3>1, ClientFields DEF Tasks
  <2>3. \A k \in Clients : k # c /\ InLine(k) => InLine(k)'
    BY <2>1 DEF InLine
  <2>4. \A k \in Clients : k # c /\ InList(k) => InList(k)'
    BY <2>1, <2>2 DEF InList
  <2>5. Undisturbed
    BY <2>1, <2>2, <2>3, <2>4 DEF Undisturbed, Waits
  <2> QED
    BY <2>5, UndisturbedKeeps
<1>8. ASSUME NEW st \in Leaves, PutConn(c, st) PROVE Undisturbed
  BY <1>8, PutConnEffect, ReturnUndisturbed DEF PutConn, history
<1>9. ASSUME NEW st \in Leaves, NullPutConn(c, st) PROVE Undisturbed
  <2>1. UNCHANGED cancels
    BY <1>9 DEF NullPutConn, history
  <2>2. CASE loc[c].pc \in {"use", "putlock"} /\ NullPut(c, st)
    BY <2>2, NullPutEffect, <2>1, ReturnUndisturbed
  <2>3. CASE loc' = GoTo(c, "putlock") /\ UNCHANGED self
    BY <1>0, <2>3, ClientFields, MovesPc, Names, <2>1, MovedUndisturbed
  <2> QED
    BY <1>9, <2>2, <2>3 DEF NullPutConn
<1>10. ASSUME NEW st \in Leaves, CheckBad(c, st) PROVE Undisturbed
  BY <1>10, PutBackEffect, ReturnUndisturbed DEF CheckBad, history
<1>11. CASE PutCancelled(c)
  BY <1>11, <1>0, ClientFields, MovesLeaving, Names, MovedUndisturbed, UndisturbedKeeps DEF
     PutCancelled, Cancelled, Left
<1>12. CASE Undisturbed
  BY <1>12, UndisturbedKeeps
<1> QED
  BY <1>1, <1>2, <1>3, <1>4, <1>5, <1>6, <1>7, <1>8, <1>9, <1>10, <1>11, <1>12
     DEF ClientStep, PutStep, Start, Interrupt, Quiet

\* The workers, and who gets the lock or has reset a connection
LEMMA WorkerUndisturbed ==
    ASSUME Shape, TasksOpen,
           \/ \E t \in Tasks : Reset(t) \/ AddLocked(t)
           \/ \E w \in Workers : WorkerStep(w)
    PROVE  Undisturbed
<1>1. ASSUME NEW t \in Tasks, Reset(t) PROVE Undisturbed
  <2>1. UNCHANGED cancels
    BY <1>1 DEF Reset, history
  <2> QED
    BY <1>1, <2>1, ResetEffect, ReturnUndisturbed
<1>2. ASSUME NEW t \in Tasks, AddLocked(t) PROVE Undisturbed
  BY <1>2, AddLockedEffect, AddUndisturbed DEF AddLocked, history
<1>3. ASSUME NEW w \in Workers, WorkerStep(w) PROVE Undisturbed
  <2>0. w \in Tasks /\ Types /\ self \in Pools
    BY WorkerFields DEF Types
  <2>1. CASE WorkerStop(w) \/ WorkerAdd(w) \/ WorkerDiscard(w)
    <3>1. /\ self' = Taken /\ UNCHANGED cancels
          /\ \/ \E p, j : Moved(w, p, loc[w].conn, loc[w].next, loc[w].out, j) /\ p # "wait"
             \/ UNCHANGED loc
      BY <2>1, TakeEffect DEF history
    <3>2. self'.closed = self.closed /\ self'.waiting = self.waiting
      BY <2>0, <3>1 DEF Pools, Taken
    <3> QED
      BY <2>0, <3>1, <3>2, MovedUndisturbed, StillUndisturbed
  <2>2. CASE WorkerReturn(w)
    <3> DEFINE c == Head(self.tasks).conn
    <3>1. Passing(w, c, "idle", Taken) /\ UNCHANGED cancels
      BY <2>2, WorkerReturnEffect DEF WorkerReturn, history
    <3>2. status[c] # "absent"
      BY <2>0, <2>2, HeadOpen DEF WorkerReturn, Take
    <3>3. ReturnForms(w, c, "idle", status[c], Taken)
      BY <2>2, <3>2, WorkerReturnEffect
    <3> QED
      BY <3>1, <3>3, ReturnUndisturbed
  <2>3. ASSUME NEW k \in Conns, Connected(w, k) PROVE Undisturbed
    BY <2>3, ConnectedEffect, AddUndisturbed DEF Connected, history
  <2>4. CASE ConnectRetry(w) \/ ConnectGiveUp(w)
    BY <2>4, RetryEffect, GiveUpEffect, <2>0, MovedUndisturbed DEF history, Left
  <2>5. CASE Shrink(w)
    BY <2>5, ShrinkEffect, StillUndisturbed DEF history
  <2> QED
    BY <1>3, <2>1, <2>2, <2>3, <2>4, <2>5 DEF WorkerStep
<1> QED
  BY <1>1, <1>2, <1>3

\* close() takes the clients that wait from the queue
LEMMA CloseWatched ==
    ASSUME Shape, NotMissed, NEW a \in Callers, ClosePool(a)
    PROVE  NotMissed' /\ LateClients'
<1>1. /\ ~self.closed /\ self'.closed /\ a \in Tasks
      /\ Moved(a, "closing", loc[a].conn, loc[a].next,
               {self.waiting[i] : i \in Alive(self)}, loc[a].job)
  BY CloseEffect, CallerFields
<1>2. NotMissed'
  BY <1>1 DEF NotMissed
<1>3. ASSUME NEW c \in Clients, loc'[c].pc = "wait"
      PROVE  c \in loc'[a].out
  BY <1>1, <1>3, AsyncAssumption DEF Moved, Waits, Tasks, NotMissed, InLine, AsyncAssumption,
     Alive
<1> QED
  BY <1>2, <1>3 DEF LateClients

\* The callers
LEMMA CallerWatched ==
    ASSUME Shape, NotMissed, LateClients, NEW a \in Callers,
           CallerStep(a) \/ Call(a) \/ CloseCancelled(a)
    PROVE  NotMissed' /\ LateClients'
<1>0. a \in Tasks /\ Types /\ cancels \in Nat /\ (\A c \in Clients : c # a /\ c \in Tasks)
      /\ Clients \cap Conns = {}
  BY CallerFields, AsyncAssumption DEF Types, AsyncAssumption, Tasks
<1>1. CASE FailWaiting(a)
  BY <1>1, FailEffect, <1>0, UndisturbedKeeps DEF history, Waits, InList, Tasks, Undisturbed,
     InLine
<1>2. CASE CloseCancelled(a)
  BY <1>2, <1>0 DEF CloseCancelled, Cancelled, Types, NotMissed, LateClients, Waits, InLine
<1>3. CASE CheckNext(a)
  <2>1. /\ UNCHANGED self /\ UNCHANGED cancels
        /\ \/ \E c \in Conns \cap loc[a].out :
                 Moved(a, "checked", c, "checking", loc[a].out \ {c}, loc[a].job)
           \/ Moved(a, "idle", NoConn, loc[a].next, loc[a].out, loc[a].job)
    BY <1>3, CheckNextEffect DEF history
  <2>2. \A c \in Conns : loc[a].out \cap Clients \subseteq loc[a].out \ {c}
    BY <1>0
  <2> QED
    BY <1>0, <2>1, <2>2, MovedUndisturbed, UndisturbedKeeps
<1>4. CASE Checked(a)
  BY <1>4, CheckedEffect, AddUndisturbed, ReturnUndisturbed, UndisturbedKeeps DEF Checked,
     history, ReturnForms
<1>5. CASE WaitDone(a)
  BY <1>5, WaitDoneEffect, <1>0, MovedUndisturbed, UndisturbedKeeps DEF history
<1>6. CASE Wait(a)
  BY <1>6, WaitEffect, <1>0, MovedUndisturbed, StillUndisturbed, UndisturbedKeeps
<1>7. CASE Check(a)
  BY <1>7, CheckEffect, <1>0, MovedUndisturbed, UndisturbedKeeps
<1>8. CASE Drain(a) \/ \E size \in NewSizes : Resize(a, size)
  BY <1>8, DrainEffect, ResizeEffect, StillUndisturbed, UndisturbedKeeps
<1> QED
  BY <1>1, <1>2, <1>3, <1>4, <1>5, <1>6, <1>7, <1>8, CloseWatched DEF CallerStep, Call

\* Every step
LEMMA NextWatched ==
    ASSUME Shape, TasksOpen, NotMissed, LateClients, Next
    PROVE  NotMissed' /\ LateClients'
<1>1. CASE Tick \/ TickShrink \/ Break
  BY <1>1, TickEffect, TickShrinkEffect, StillUndisturbed, UndisturbedKeeps DEF Break, history
<1>2. ASSUME NEW c \in Clients, ClientStep(c) \/ PutStep(c) \/ Start(c) \/ Interrupt(c)
      PROVE  NotMissed' /\ LateClients'
  BY <1>2, ClientWatched
<1>3. ASSUME NEW a \in Callers, CallerStep(a) \/ Call(a) \/ CloseCancelled(a)
      PROVE  NotMissed' /\ LateClients'
  BY <1>3, CallerWatched
<1> QED
  BY <1>1, <1>2, <1>3, WorkerUndisturbed, UndisturbedKeeps DEF Next

\* No client that calls getconn() waits on a closed pool, unless close() is there to fail
\* it or its failing was cancelled; and no client that waits on an open one is forgotten
THEOREM LateCorrect == Spec => [](NotMissed /\ LateClients)
<1>1. Init => NotMissed /\ LateClients
  BY DEF Init, At, Tasks, NotMissed, LateClients, Waits
<1>2. Shape /\ Owned /\ NotMissed /\ LateClients /\ [Next]_vars => (NotMissed /\ LateClients)'
  <2> SUFFICES ASSUME Shape, Owned, NotMissed, LateClients, [Next]_vars
               PROVE  NotMissed' /\ LateClients'
    OBVIOUS
  <2>1. CASE Next
    BY <2>1, OwnedTasks, NextWatched DEF Shape
  <2>2. CASE UNCHANGED vars
    BY <2>2, StillUndisturbed, UndisturbedKeeps DEF vars, history
  <2> QED
    BY <2>1, <2>2
<1> QED
  BY <1>1, <1>2, OwnersCorrect, PTL DEF Spec

-----------------------------------------------------------------------------
(* Connections older than the last drain() *)

InCheck(a) == loc[a].pc \in {"checking", "checked"}

\* They are open, and not in the pool unless check() was called
Aged ==
    /\ \A c \in old : status[c] # "absent"
    /\ "check" \notin calls => /\ \A a \in Callers : ~InCheck(a)
                               /\ \A c \in Elements(self.pool) : c \notin old

\* A step that makes no connection old and puts no old one in the pool
Ageing ==
    /\ calls \subseteq calls'
    /\ \A c \in old' : c \in old /\ status'[c] # "absent"
    /\ "check" \notin calls' =>
          /\ \A a \in Callers : loc'[a].pc \in {"checking", "checked"} => InCheck(a)
          /\ \A c \in Elements(self'.pool) : c \in Elements(self.pool) \/ c \notin old'

\* Such a step keeps old connections out
LEMMA AgeingKeeps ==
    ASSUME Aged, Ageing
    PROVE  Aged'
  BY DEF Aged, Ageing, InCheck

\* What happens to the connections
LEMMA OldConns ==
    ASSUME Types, \A c \in old : status[c] # "absent"
    PROVE  /\ UNCHANGED connVars => \A c \in old' : c \in old /\ status'[c] # "absent"
           /\ \A cs : Close(cs) => \A c \in old' : c \in old /\ status'[c] # "absent"
           /\ \A c, st : Becomes(c, st) => \A k \in old' : k \in old /\ status'[k] # "absent"
BY DEF Types, connVars, Close, Becomes

\* A task goes on, and connections may leave the pool
LEMMA MovedAges ==
    ASSUME Types, Aged, NEW t \in Tasks, NEW p, NEW c, NEW n, NEW o, NEW j,
           Moved(t, p, c, n, o, j),
           "check" \notin calls' /\ t \in Callers => p \notin {"checking", "checked"},
           \/ UNCHANGED connVars \/ \E cs : Close(cs) \/ \E k, st : Becomes(k, st),
           \/ Elements(self'.pool) \subseteq Elements(self.pool)
           \/ \E k \in Conns : /\ self'.pool = Append(self.pool, k)
                               /\ k \notin old \/ "check" \in calls',
           calls \subseteq calls'
    PROVE  Ageing
<1>1. \A k \in old' : k \in old /\ status'[k] # "absent"
  BY OldConns DEF Aged
<1>2. "check" \notin calls' =>
         \A a \in Callers : loc'[a].pc \in {"checking", "checked"} => InCheck(a)
  BY DEF Moved, InCheck, Tasks
<1>3. "check" \notin calls' =>
         \A k \in Elements(self'.pool) : k \in Elements(self.pool) \/ k \notin old'
  <2>1. CASE Elements(self'.pool) \subseteq Elements(self.pool)
    BY <2>1
  <2>2. ASSUME NEW k \in Conns, self'.pool = Append(self.pool, k),
               k \notin old \/ "check" \in calls'
        PROVE  "check" \notin calls' =>
                 \A e \in Elements(self'.pool) : e \in Elements(self.pool) \/ e \notin old'
    BY PoolFields, <1>1, <2>2 DEF Types, Elements
  <2> QED
    BY <2>1, <2>2
<1> QED
  BY <1>1, <1>2, <1>3 DEF Ageing

\* Only the pool and the connections change
LEMMA StillAges ==
    ASSUME Types, Aged, UNCHANGED loc,
           UNCHANGED connVars \/ (\E cs : Close(cs)) \/ (\E k, st : Becomes(k, st)),
           Elements(self'.pool) \subseteq Elements(self.pool), calls \subseteq calls'
    PROVE  Ageing
BY OldConns DEF Aged, Ageing, InCheck

\* What is left was there
LEMMA TailElements ==
    ASSUME NEW q \in Seq(Conns), q # <<>>
    PROVE  Elements(Tail(q)) \subseteq Elements(q)
BY DEF Elements

\* A connection is passed on
LEMMA AddAges ==
    ASSUME Shape, Aged, UNCHANGED calls, NEW t, NEW c, NEW n, NEW s, Passing(t, c, n, s),
           NEW grow \in BOOLEAN, AddForms(t, c, n, grow, s),
           c \notin old \/ null \/ "check" \in calls,
           t \notin Callers \/ "check" \in calls
    PROVE  Ageing
<1>0. /\ t \in Tasks /\ c \in Conns /\ s \in Pools /\ s.pool = self.pool /\ Types
      /\ calls \subseteq calls'
  BY DEF Passing, Shape
<1>1. CASE AddWaits(t, c, n, s)
  BY <1>1, <1>0, MovedAges DEF AddWaits
<1>2. CASE AddDrops(t, c, n, grow, s)
  BY <1>2, <1>0, GrownTasks, MovedAges DEF AddDrops, Left
<1>3. CASE AddCloses(t, c, n, grow, s)
  <2>1. PICK s1 : Alike(s, s1) /\ s1.pool = s.pool /\ self' = Grown(s1, grow)
    BY <1>3 DEF AddCloses
  <2>2. Moved(t, n, NoConn, "idle", loc[t].out, NewConnection) /\ Becomes(c, "absent")
    BY <1>3 DEF AddCloses, Left
  <2>3. self'.pool = self.pool
    BY <1>0, <2>1, GrownTasks DEF Alike
  <2> QED
    BY <1>0, <2>2, <2>3, MovedAges
<1>4. CASE AddKeeps(t, c, n, grow, s)
  <2>1. PICK s1 : Alike(s, s1) /\ s1.pool = Append(s.pool, c) /\ self' = Grown(s1, grow)
    BY <1>4 DEF AddKeeps
  <2>2. /\ Moved(t, n, NoConn, "idle", loc[t].out, NewConnection) /\ Becomes(c, "idle")
        /\ ~null
    BY <1>4 DEF AddKeeps, Left
  <2>3. self'.pool = s1.pool
    BY <2>1, GrownTasks DEF Alike
  <2>4. self'.pool = Append(self.pool, c)
    BY <1>0, <2>1, <2>3
  <2> QED
    BY <1>0, <2>2, <2>4, MovedAges
<1>5. CASE AddGives(t, c, n, grow, s)
  <2>1. PICK k \in Clients, s1 \in Pools : /\ Alike(s, s1) /\ s1.pool = s.pool
                                 /\ self' = Grown(s1, grow) /\ LeftGiving(t, n, k, c)
    BY <1>5 DEF AddGives
  <2>2. self'.pool = self.pool /\ Becomes(c, "idle")
    BY <1>0, <1>5, <2>1, GrownTasks DEF Alike, AddGives
  <2>3. \A a \in Callers : a # t => loc'[a].pc = loc[a].pc
    BY <2>1, OneRole DEF LeftGiving, Tasks
  <2>4. \A e \in old' : e \in old /\ status'[e] # "absent"
    BY <1>0, <2>2, OldConns DEF Aged
  <2> QED
    BY <1>0, <2>2, <2>3, <2>4 DEF Ageing, InCheck
<1> QED
  BY <1>1, <1>2, <1>3, <1>4, <1>5 DEF AddForms

\* A connection is returned
LEMMA ReturnAges ==
    ASSUME Shape, Aged, UNCHANGED calls, NEW t, NEW c, NEW n, NEW s, Passing(t, c, n, s),
           t \notin Callers \/ "check" \in calls,
           NEW st, \/ ReturnForms(t, c, n, st, s)
                   \/ s = self /\ Queues(t, c, n, st)
                   \/ n = "idle" /\ Closes(t, c)
    PROVE  Ageing
<1>0. /\ t \in Tasks /\ c \in Conns /\ s \in Pools /\ s.pool = self.pool /\ Types
      /\ calls \subseteq calls'
  BY DEF Passing, Shape
<1>1. ASSUME NEW j, self' = RunTask(s, j), j \in Jobs, Left(t, n), NEW v, Becomes(c, v)
      PROVE  Ageing
  BY <1>0, <1>1, RunTaskFields, MovedAges DEF Left
<1>2. CASE Replaces(t, c, n, s)
  BY <1>2, JobTypes, <1>1 DEF Replaces
<1>3. CASE Resets(t, c, n, st, s)
  BY <1>3, <1>0, MovedAges DEF Resets
<1>4. CASE s = self /\ Queues(t, c, n, st)
  BY <1>4, JobTypes, <1>1 DEF Queues, Passing
<1>5. CASE n = "idle" /\ Closes(t, c)
  BY <1>5, <1>0, MovedAges DEF Closes, Left
<1>6. CASE c \notin old /\ AddForms(t, c, n, FALSE, s)
  BY <1>6, AddAges
<1> QED
  BY <1>2, <1>3, <1>4, <1>5, <1>6 DEF ReturnForms

\* The clients' steps put no old connection in the pool
LEMMA ClientAges ==
    ASSUME Shape, Aged, NEW c \in Clients,
           ClientStep(c) \/ PutStep(c) \/ Start(c) \/ Interrupt(c)
    PROVE  Ageing
<1>0. c \in Tasks /\ c \notin Callers /\ Types /\ self.pool \in Seq(Conns)
  BY ClientFields, PoolFields
<1>1. CASE GetReady(c)
  BY <1>1, ReadyEffect, <1>0, TailElements, MovedAges DEF history
<1>2. CASE GetQueue(c)
  BY <1>2, QueueUpEffect, <1>0, MovedAges DEF history
<1>3. CASE NullConnect(c)
  BY <1>3, NullConnectEffect, <1>0, MovedAges DEF history
<1>4. ASSUME NEW k \in Conns, NullConnected(c, k) PROVE Ageing
  BY <1>4, NullConnectedEffect, <1>0, MovedAges DEF history
<1>5. CASE NullConnectFailed(c)
  BY <1>5, NullFailedEffect, <1>0, MovedAges DEF history, Left
<1>6. CASE Quiet(c)
  BY <1>6, QuietEffect, <1>0, MovedAges
<1>7. CASE WaitInterrupted(c)
  BY <1>7, InterruptedEffect, <1>0, OldConns DEF Aged, Ageing, InCheck, Tasks
<1>8. ASSUME NEW st \in Leaves, PutConn(c, st) PROVE Ageing
  BY <1>8, PutConnEffect, <1>0, ReturnAges DEF PutConn, history
<1>9. ASSUME NEW st \in Leaves, NullPutConn(c, st) PROVE Ageing
  <2>1. UNCHANGED calls
    BY <1>9 DEF NullPutConn, history
  <2>2. CASE loc[c].pc \in {"use", "putlock"} /\ NullPut(c, st)
    BY <2>2, NullPutEffect, <1>0, <2>1, ReturnAges
  <2>3. CASE loc' = GoTo(c, "putlock") /\ UNCHANGED <<self, connVars>>
    BY <1>0, <2>3, MovesPc, Names, <2>1, MovedAges
  <2> QED
    BY <1>9, <2>2, <2>3 DEF NullPutConn
<1>10. ASSUME NEW st \in Leaves, CheckBad(c, st) PROVE Ageing
  BY <1>10, PutBackEffect, <1>0, ReturnAges DEF CheckBad, history
<1>11. CASE PutCancelled(c)
  BY <1>11, <1>0, MovesLeaving, Names, MovedAges DEF PutCancelled, Left
<1> QED
  BY <1>1, <1>2, <1>3, <1>4, <1>5, <1>6, <1>7, <1>8, <1>9, <1>10, <1>11
     DEF ClientStep, PutStep, Start, Interrupt, Quiet

\* Nor do the workers'
LEMMA WorkerAges ==
    ASSUME Shape, TasksOpen, Aged,
           \/ \E t \in Tasks : Reset(t) \/ AddLocked(t)
           \/ \E w \in Workers : WorkerStep(w)
    PROVE  Ageing
<1>1. ASSUME NEW t \in Tasks, Reset(t) PROVE Ageing
  <2>1. UNCHANGED calls
    BY <1>1 DEF Reset, history
  <2> QED
    BY <1>1, <2>1, ResetEffect, ReturnAges
<1>2. ASSUME NEW t \in Tasks, AddLocked(t) PROVE Ageing
  BY <1>2, AddLockedEffect, AddAges DEF AddLocked, history, Passing, Onward
<1>3. ASSUME NEW w \in Workers, WorkerStep(w) PROVE Ageing
  <2>0. w \in Tasks /\ Types /\ self \in Pools /\ w \notin Callers /\ self.pool \in Seq(Conns)
    BY WorkerFields, PoolFields DEF Types
  <2>1. CASE WorkerStop(w) \/ WorkerAdd(w) \/ WorkerDiscard(w)
    BY <2>1, TakeEffect, <2>0, MovedAges, StillAges DEF history, Pools, Taken
  <2>2. CASE WorkerReturn(w)
    <3> DEFINE c == Head(self.tasks).conn
    <3>1. Passing(w, c, "idle", Taken) /\ UNCHANGED calls
      BY <2>2, WorkerReturnEffect DEF WorkerReturn, history
    <3>2. status[c] # "absent"
      BY <2>0, <2>2, HeadOpen DEF WorkerReturn, Take
    <3>3. ReturnForms(w, c, "idle", status[c], Taken)
      BY <2>2, <3>2, WorkerReturnEffect
    <3> QED
      BY <2>0, <3>1, <3>3, ReturnAges
  <2>3. ASSUME NEW k \in Conns, Connected(w, k) PROVE Ageing
    BY <2>3, <2>0, ConnectedEffect, AddAges DEF Connected, history, Aged
  <2>4. CASE ConnectRetry(w) \/ ConnectGiveUp(w)
    BY <2>4, RetryEffect, GiveUpEffect, <2>0, MovedAges DEF history, Left
  <2>5. CASE Shrink(w)
    BY <2>5, ShrinkEffect, <2>0, TailElements, StillAges DEF history
  <2> QED
    BY <1>3, <2>1, <2>2, <2>3, <2>4, <2>5 DEF WorkerStep
<1> QED
  BY <1>1, <1>2, <1>3

\* Nor do the callers', unless check() was called
LEMMA CallerAges ==
    ASSUME Shape, Aged, NEW a \in Callers, CallerStep(a) \/ Call(a) \/ CloseCancelled(a)
    PROVE  Aged'
<1>0. a \in Tasks /\ Types /\ self.pool \in Seq(Conns) /\ loc \in [Tasks -> Locals]
      /\ Elements(<<>>) = {}
  BY CallerFields, PoolFields, ElementsEmpty DEF Types
<1>1. CASE FailWaiting(a)
  BY <1>1, FailEffect, <1>0, OldConns, AgeingKeeps DEF history, Aged, Ageing, InCheck, Tasks
<1>2. CASE CloseCancelled(a)
  BY <1>2, <1>0, OldConns, AgeingKeeps DEF CloseCancelled, Aged, At, InCheck, Tasks, Ageing
<1>3. CASE CheckNext(a)
  BY <1>3, CheckNextEffect, <1>0, MovedAges, AgeingKeeps DEF history, Aged, InCheck
<1>4. CASE Checked(a)
  BY <1>4, CheckedEffect, AddAges, ReturnAges, AgeingKeeps DEF Checked, history, ReturnForms,
     Aged, InCheck
<1>5. CASE WaitDone(a)
  BY <1>5, WaitDoneEffect, <1>0, MovedAges, AgeingKeeps DEF history
<1>6. CASE Wait(a)
  BY <1>6, WaitEffect, <1>0, MovedAges, StillAges, AgeingKeeps DEF Calling
<1>7. CASE Check(a)
  BY <1>7, CheckEffect, <1>0, MovedAges, AgeingKeeps DEF Check, Calling
<1>8. CASE Drain(a)
  BY <1>8, DrainEffect, <1>0 DEF Calling, Aged, InCheck
<1>9. ASSUME NEW size \in NewSizes, Resize(a, size) PROVE Aged'
  BY <1>9, ResizeEffect, <1>0, StillAges, AgeingKeeps DEF Calling
<1>10. CASE ClosePool(a)
  BY <1>10, CloseEffect, <1>0, MovedAges, AgeingKeeps
<1> QED
  BY <1>1, <1>2, <1>3, <1>4, <1>5, <1>6, <1>7, <1>8, <1>9, <1>10 DEF CallerStep, Call

\* Every step keeps old connections out of the pool
LEMMA NextAged ==
    ASSUME Shape, TasksOpen, Aged, Next
    PROVE  Aged'
<1>0. Types
  BY DEF Shape
<1>1. CASE Tick \/ TickShrink
  BY <1>1, TickEffect, TickShrinkEffect, <1>0, StillAges, AgeingKeeps DEF history
<1>2. CASE Break
  BY <1>2, <1>0 DEF Break, history, Aged, Types, InCheck
<1>3. ASSUME NEW c \in Clients, ClientStep(c) \/ PutStep(c) \/ Start(c) \/ Interrupt(c)
      PROVE  Aged'
  BY <1>3, ClientAges, AgeingKeeps
<1>4. ASSUME NEW a \in Callers, CallerStep(a) \/ Call(a) \/ CloseCancelled(a)
      PROVE  Aged'
  BY <1>4, CallerAges
<1> QED
  BY <1>1, <1>2, <1>3, <1>4, WorkerAges, AgeingKeeps DEF Next

\* A connection older than the last drain() is open and out of the pool
THEOREM AgedCorrect == Spec => []Aged
<1>1. Init => Aged
  BY DEF Init, At, Tasks, Aged, InCheck
<1>2. Shape /\ Owned /\ Aged /\ [Next]_vars => Aged'
  BY OwnedTasks, NextAged DEF Shape, vars, connVars, history, Aged, InCheck
<1> QED
  BY <1>1, <1>2, OwnersCorrect, PTL DEF Spec

\* drain() leaves no old connection for the clients that come after it
THEOREM DrainedCorrect == Spec => []DrainedStayOut
<1>1. Aged => DrainedStayOut
  BY DEF Aged, DrainedStayOut, Elements
<1> QED
  BY <1>1, AgedCorrect, PTL

-----------------------------------------------------------------------------
(* The books *)

\* The tasks that make a connection, and those that make the pool grow
GrowJobs == {j \in AddJobs : j.growing}
GrowRetries == {r \in Retries : r.growing}
Connecting == {w \in Workers : loc[w].pc = "connect"}
Growers == {w \in Workers : loc[w].pc = "connect" /\ loc[w].job.growing}

AddsIn(J) == Cardinality(Indices(J, AddJobs))
GrowsIn(J) == Cardinality(Indices(J, GrowJobs))
NRetries == Cardinality(Stock(self.delayed, Retries))
NGrowRetries == Cardinality(Stock(self.delayed, GrowRetries))
NConnecting == Cardinality(Connecting)
NGrowers == Cardinality(Growers)
NLive == Cardinality(Live)

\* The connections there are and those on their way, and the attempts to grow
Load == NLive + AddsIn(self.tasks) + NRetries + NConnecting + leaked
Efforts == GrowsIn(self.tasks) + NGrowRetries + NGrowers

RetriesFinite == IsFiniteSet(Stock(self.delayed, Retries))

\* _nconns counts them all, and more connections once the pool is closed; the one that
\* wait() of a null pool makes is not counted
Balanced ==
    \/ null /\ "wait" \in calls
    \/ Load <= self.nconns /\ (~self.closed => Load = self.nconns)

GrowsOnce ==
    \/ self.closed
    \/ Efforts = (IF self.growing THEN 1 ELSE 0) /\ (null => ~self.growing)

Awaited == self.event # "none" => "wait" \in calls

Books == RetriesFinite /\ Awaited /\ Balanced /\ GrowsOnce

(* Counting *)

\* The growing retries are some of the retries
LEMMA GrowRetryFinite ==
    ASSUME RetriesFinite
    PROVE  IsFiniteSet(Stock(self.delayed, GrowRetries))
BY FS_Subset DEF Stock, GrowRetries, RetriesFinite

\* What is counted is finite
LEMMA CountTypes ==
    ASSUME Types, RetriesFinite
    PROVE  /\ NLive \in Nat /\ IsFiniteSet(Live)
           /\ NRetries \in Nat /\ NGrowRetries \in Nat
           /\ NConnecting \in Nat /\ IsFiniteSet(Connecting)
           /\ NGrowers \in Nat /\ IsFiniteSet(Growers)
           /\ leaked \in Nat /\ self.nconns \in Int
           /\ \A J \in Seq(Jobs) : AddsIn(J) \in Nat /\ GrowsIn(J) \in Nat
BY FS_Subset, AsyncAssumption, FS_CardinalityType, GrowRetryFinite, IndicesFinite, PoolFields
   DEF Live, Connecting, Growers, AsyncAssumption, NLive, NConnecting, NGrowers, NRetries,
   NGrowRetries, RetriesFinite, AddsIn, GrowsIn, Types

\* Tasks are told by their kind
LEMMA JobKinds ==
    ASSUME NEW j \in Jobs
    PROVE  (j \in AddJobs <=> j.kind = "add") /\ (j \in GrowJobs <=> j.growing)
<1>1. j \in AddJobs => j.kind = "add"
  BY AddFields
<1> QED
  BY <1>1, JobFields DEF GrowJobs

\* A task is queued, or many, or taken
LEMMA TaskQueued ==
    ASSUME NEW J \in Seq(Jobs), NEW j \in Jobs
    PROVE  /\ AddsIn(Append(J, j)) = AddsIn(J) + (IF j.kind = "add" THEN 1 ELSE 0)
           /\ GrowsIn(Append(J, j)) = GrowsIn(J) + (IF j.growing THEN 1 ELSE 0)
  BY IndicesAppend, JobKinds DEF AddsIn, GrowsIn

\* ... or the first is taken
LEMMA TaskTaken ==
    ASSUME NEW J \in Seq(Jobs), J # <<>>
    PROVE  /\ AddsIn(Tail(J)) = AddsIn(J) - (IF Head(J).kind = "add" THEN 1 ELSE 0)
           /\ GrowsIn(Tail(J)) = GrowsIn(J) - (IF Head(J).growing THEN 1 ELSE 0)
<1>1. Head(J) \in Jobs
  OBVIOUS
<1> QED
  BY <1>1, IndicesTail, JobKinds DEF AddsIn, GrowsIn

\* ... or many are queued
LEMMA TasksQueued ==
    ASSUME NEW J \in Seq(Jobs), NEW j \in Jobs, ~j.growing, NEW n \in Nat
    PROVE  /\ AddsIn(J \o Copies(n, j)) = AddsIn(J) + (IF j.kind = "add" THEN n ELSE 0)
           /\ GrowsIn(J \o Copies(n, j)) = GrowsIn(J)
<1>1. Copies(n, j) \in Seq(Jobs) /\ AddsIn(J) \in Nat /\ GrowsIn(J) \in Nat
  BY CopiesType, IndicesFinite DEF AddsIn, GrowsIn
<1>2. /\ AddsIn(Copies(n, j)) = IF j.kind = "add" THEN n ELSE 0
      /\ GrowsIn(Copies(n, j)) = 0
  BY IndicesCopies, JobKinds DEF AddsIn, GrowsIn, Copies
<1>3. /\ AddsIn(J \o Copies(n, j)) = AddsIn(J) + AddsIn(Copies(n, j))
      /\ GrowsIn(J \o Copies(n, j)) = GrowsIn(J) + GrowsIn(Copies(n, j))
  BY <1>1, IndicesConcat DEF AddsIn, GrowsIn
<1> QED
  BY <1>1, <1>2, <1>3

\* A connection is made or closed
LEMMA LiveOne ==
    ASSUME Types, NEW c \in Conns, NEW st, Becomes(c, st)
    PROVE  NLive' = NLive + (IF st # "absent" THEN 1 ELSE 0)
                          - (IF status[c] # "absent" THEN 1 ELSE 0)
<1>1. IsFiniteSet(Live)
  <2>1. Live \subseteq Conns
    BY DEF Live
  <2> QED
    BY <2>1, FS_Subset, AsyncAssumption DEF AsyncAssumption
<1>2. \A k : k # c => (k \in Live <=> k \in Live')
  BY DEF Becomes, Live
<1>3. (c \in Live' <=> st # "absent") /\ (c \in Live <=> status[c] # "absent")
  BY DEF Becomes, Live
<1>4. Counts(Live', Cardinality(Live) + (IF c \in Live' THEN 1 ELSE 0)
                                      - (IF c \in Live THEN 1 ELSE 0))
  BY <1>1, <1>2, OneChange
<1> QED
  BY <1>3, <1>4 DEF Counts, NLive

\* ... or none is
LEMMA LiveSame ==
    ASSUME \A c \in Conns : status'[c] = "absent" <=> status[c] = "absent"
    PROVE  NLive' = NLive
<1>1. Live' = Live
  BY DEF Live
<1> QED
  BY <1>1 DEF NLive

\* A worker starts to connect, or is done
LEMMA WorkersOne ==
    ASSUME NEW t, \A w \in Workers : w # t => loc'[w] = loc[w]
    PROVE  /\ NConnecting' = NConnecting + (IF t \in Connecting' THEN 1 ELSE 0)
                                         - (IF t \in Connecting THEN 1 ELSE 0)
           /\ NGrowers' = NGrowers + (IF t \in Growers' THEN 1 ELSE 0)
                                   - (IF t \in Growers THEN 1 ELSE 0)
<1>1. IsFiniteSet(Connecting) /\ IsFiniteSet(Growers)
  BY FS_Subset, AsyncAssumption DEF Connecting, Growers, AsyncAssumption
<1>2. \A w : w # t => (w \in Connecting <=> w \in Connecting') /\ (w \in Growers <=> w \in Growers')
  BY DEF Connecting, Growers
<1>3. Counts(Connecting', Cardinality(Connecting) + (IF t \in Connecting' THEN 1 ELSE 0)
                                                  - (IF t \in Connecting THEN 1 ELSE 0))
  BY <1>1, <1>2, OneChange
<1>4. Counts(Growers', Cardinality(Growers) + (IF t \in Growers' THEN 1 ELSE 0)
                                            - (IF t \in Growers THEN 1 ELSE 0))
  BY <1>1, <1>2, OneChange
<1> QED
  BY <1>3, <1>4 DEF Counts, NConnecting, NGrowers

\* ... or none does
LEMMA WorkersSame ==
    ASSUME \A w \in Workers : loc'[w].pc = loc[w].pc /\ loc'[w].job = loc[w].job
    PROVE  NConnecting' = NConnecting /\ NGrowers' = NGrowers
BY DEF Connecting, Growers, NConnecting, NGrowers

\* What is scheduled
LEMMA RetriesSame ==
    ASSUME RetriesFinite, self'.delayed = self.delayed
    PROVE  NRetries' = NRetries /\ NGrowRetries' = NGrowRetries /\ RetriesFinite'
  BY DEF NRetries, NGrowRetries, RetriesFinite

\* A retry is scheduled
LEMMA RetriesMore ==
    ASSUME Types, RetriesFinite, NEW r \in Retries,
           self'.delayed = [self.delayed EXCEPT ![r] = self.delayed[r] + 1]
    PROVE  /\ RetriesFinite' /\ NRetries' = NRetries + 1
           /\ NGrowRetries' = NGrowRetries + (IF r.growing THEN 1 ELSE 0)
<1> DEFINE f == self.delayed
           g == [f EXCEPT ![r] = f[r] + 1]
<1>1. f \in [Retries -> Nat] /\ Retries \subseteq Retries /\ GrowRetries \subseteq Retries
  BY PoolFields DEF Types, GrowRetries
<1>2. IsFiniteSet(Stock(f, Retries)) /\ IsFiniteSet(Stock(f, GrowRetries))
  BY GrowRetryFinite DEF RetriesFinite
<1> HIDE DEF f
<1>3. /\ Counts(Stock(g, Retries), Cardinality(Stock(f, Retries)) + 1)
      /\ Counts(Stock(g, GrowRetries),
                Cardinality(Stock(f, GrowRetries)) + (IF r \in GrowRetries THEN 1 ELSE 0))
  BY <1>1, <1>2, StockMore
<1>4. r \in GrowRetries <=> r.growing
  BY DEF GrowRetries
<1>5. self'.delayed = g
  BY DEF f
<1> HIDE DEF g
<1> QED
  BY <1>3, <1>4, <1>5 DEF Counts, NRetries, NGrowRetries, RetriesFinite, f

\* ... or is due
LEMMA RetriesLess ==
    ASSUME Types, RetriesFinite, NEW r \in Retries, self.delayed[r] > 0,
           self'.delayed = [self.delayed EXCEPT ![r] = self.delayed[r] - 1]
    PROVE  /\ RetriesFinite' /\ NRetries' = NRetries - 1
           /\ NGrowRetries' = NGrowRetries - (IF r.growing THEN 1 ELSE 0)
<1> DEFINE f == self.delayed
           g == [f EXCEPT ![r] = f[r] - 1]
<1>1. /\ f \in [Retries -> Nat] /\ Retries \subseteq Retries /\ GrowRetries \subseteq Retries
      /\ f[r] > 0
  BY PoolFields DEF Types, GrowRetries
<1>2. IsFiniteSet(Stock(f, Retries)) /\ IsFiniteSet(Stock(f, GrowRetries))
  BY GrowRetryFinite DEF RetriesFinite
<1> HIDE DEF f
<1>3. /\ Counts(Stock(g, Retries), Cardinality(Stock(f, Retries)) - 1)
      /\ Counts(Stock(g, GrowRetries),
                Cardinality(Stock(f, GrowRetries)) - (IF r \in GrowRetries THEN 1 ELSE 0))
  BY <1>1, <1>2, StockLess
<1>4. r \in GrowRetries <=> r.growing
  BY DEF GrowRetries
<1>5. self'.delayed = g
  BY DEF f
<1> HIDE DEF g
<1> QED
  BY <1>3, <1>4, <1>5 DEF Counts, NRetries, NGrowRetries, RetriesFinite, f

-----------------------------------------------------------------------------
(* The books balance *)

Bit(x) == IF x THEN 1 ELSE 0

\* A step that enters in the books what it does
Kept ==
    /\ UNCHANGED null /\ calls \subseteq calls' /\ RetriesFinite' /\ Awaited'
    /\ self.closed => self'.closed
    /\ \/ null /\ "wait" \in calls'
       \/ /\ Load' - self'.nconns <= Load - self.nconns
          /\ ~self'.closed => Load' - self'.nconns = Load - self.nconns
    /\ \/ self'.closed
       \/ /\ Efforts' - Bit(self'.growing) = Efforts - Bit(self.growing)
          /\ null /\ self'.growing => self.growing

\* The sums are numbers
LEMMA SumTypes ==
    ASSUME Types, RetriesFinite
    PROVE  Load \in Nat /\ Efforts \in Nat /\ self.nconns \in Int /\ NGrowers <= Efforts
<1>1. AddsIn(self.tasks) \in Nat /\ GrowsIn(self.tasks) \in Nat
  <2>1. self.tasks \in Seq(Jobs)
    BY PoolFields DEF Types
  <2> QED
    BY <2>1, CountTypes
<1>2. /\ NLive \in Nat /\ NRetries \in Nat /\ NGrowRetries \in Nat
      /\ NConnecting \in Nat /\ NGrowers \in Nat /\ leaked \in Nat /\ self.nconns \in Int
  BY CountTypes
<1> QED
  BY <1>1, <1>2 DEF Load, Efforts

\* ... and so are those of the next state
LEMMA SumTypesNext ==
    (Types /\ RetriesFinite => Load \in Nat /\ Efforts \in Nat /\ self.nconns \in Int)'
<1>1. Types /\ RetriesFinite => Load \in Nat /\ Efforts \in Nat /\ self.nconns \in Int
  BY SumTypes
<1> QED
  BY <1>1, PTL

\* Such a step keeps the books
LEMMA KeptBooks ==
    ASSUME Types, Types', Books, Kept
    PROVE  Books'
<1>1. /\ Load \in Nat /\ Efforts \in Nat /\ self.nconns \in Int
      /\ Load' \in Nat /\ Efforts' \in Nat /\ self'.nconns \in Int
  BY SumTypes, SumTypesNext DEF Books, Kept
<1>2. Balanced'
  <2>1. CASE null /\ "wait" \in calls'
    BY <2>1 DEF Balanced, Kept
  <2>2. CASE /\ Load' - self'.nconns <= Load - self.nconns
             /\ ~self'.closed => Load' - self'.nconns = Load - self.nconns
    <3>1. CASE null /\ "wait" \in calls
      BY <3>1 DEF Balanced, Kept
    <3>2. CASE Load <= self.nconns /\ (~self.closed => Load = self.nconns)
      BY <1>1, <2>2, <3>2 DEF Kept, Balanced
    <3> QED
      BY <3>1, <3>2 DEF Books, Balanced
  <2> QED
    BY <2>1, <2>2 DEF Kept
<1>3. GrowsOnce'
  <2>1. CASE self'.closed
    BY <2>1 DEF GrowsOnce
  <2>2. CASE ~self'.closed
    <3>1. Efforts = Bit(self.growing) /\ (null => ~self.growing)
      BY <2>2 DEF Books, GrowsOnce, Kept, Bit
    <3>2. /\ Efforts' - Bit(self'.growing) = Efforts - Bit(self.growing)
          /\ null' = null
          /\ null /\ self'.growing => self.growing
      BY <2>2 DEF Kept
    <3>3. Bit(self'.growing) \in Int
      BY DEF Bit
    <3>4. Efforts' = Bit(self'.growing)
      BY <1>1, <3>1, <3>2, <3>3
    <3> QED
      BY <3>1, <3>2, <3>4 DEF GrowsOnce, Bit
  <2> QED
    BY <2>1, <2>2
<1> QED
  BY <1>2, <1>3 DEF Books, Kept

\* While a worker makes an open pool grow, the pool is marked
LEMMA GrowerMarked ==
    ASSUME Types, Books, NEW t \in Growers, ~self.closed
    PROVE  self.growing /\ ~null
BY CountTypes, SumTypes, FS_EmptySet DEF Books, NGrowers, GrowsOnce

\* A growing attempt has been made: another is asked for, or the growth ends
LEMMA GrownBooks ==
    ASSUME NEW s \in Pools, NEW grow \in BOOLEAN, NEW g, g = Grown(s, grow)
    PROVE  \E x \in {0, 1} :
              /\ g.nconns = s.nconns + x /\ AddsIn(g.tasks) = AddsIn(s.tasks) + x
              /\ GrowsIn(g.tasks) = GrowsIn(s.tasks) + x
              /\ x = 1 => grow
              /\ x = 1 \/ ~grow => g.growing = s.growing
              /\ x = 0 /\ grow => g.growing = FALSE
              /\ g.closed = s.closed /\ g.delayed = s.delayed /\ g.event = s.event
<1> DEFINE j == AddConnection(TRUE, 0)
<1>0. j \in Jobs /\ j.kind = "add" /\ j.growing
  BY JobTypes, NewFields
<1> HIDE DEF j
<1>1. /\ g.closed = s.closed /\ g.delayed = s.delayed /\ g.event = s.event
      /\ \/ ~grow /\ g = s
         \/ /\ grow /\ g.nconns = s.nconns + 1 /\ g.growing = s.growing
            /\ g.tasks = Append(s.tasks, j)
         \/ grow /\ g.nconns = s.nconns /\ g.growing = FALSE /\ g.tasks = s.tasks
  BY GrownFields DEF j
<1>2. /\ s.nconns \in Int /\ s.tasks \in Seq(Jobs) /\ s.growing \in BOOLEAN
      /\ AddsIn(s.tasks) \in Nat /\ GrowsIn(s.tasks) \in Nat
  BY PoolFields, IndicesFinite DEF AddsIn, GrowsIn
<1>3. CASE grow /\ g.nconns = s.nconns + 1 /\ g.growing = s.growing
           /\ g.tasks = Append(s.tasks, j)
  <2>1. AddsIn(g.tasks) = AddsIn(s.tasks) + 1 /\ GrowsIn(g.tasks) = GrowsIn(s.tasks) + 1
    BY <1>0, <1>2, <1>3, TaskQueued
  <2>2. g.closed = s.closed /\ g.delayed = s.delayed /\ g.event = s.event
    BY <1>1
  <2> DEFINE x == 1
  <2>3. /\ x \in {0, 1}
        /\ g.nconns = s.nconns + x /\ AddsIn(g.tasks) = AddsIn(s.tasks) + x
        /\ GrowsIn(g.tasks) = GrowsIn(s.tasks) + x
        /\ x = 1 /\ x # 0
    <3>1. g.nconns = s.nconns + x
      BY <1>3
    <3> QED
      BY <2>1, <3>1
  <2> HIDE DEF x
  <2> QED
    BY <1>3, <2>2, <2>3
<1>4. CASE \/ ~grow /\ g = s
           \/ grow /\ g.nconns = s.nconns /\ g.growing = FALSE /\ g.tasks = s.tasks
  <2>1. AddsIn(g.tasks) = AddsIn(s.tasks) + 0 /\ GrowsIn(g.tasks) = GrowsIn(s.tasks) + 0
        /\ g.nconns = s.nconns + 0
    BY <1>2, <1>4
  <2>2. grow => g.growing = FALSE
    BY <1>4
  <2>3. ~grow => g.growing = s.growing
    BY <1>4
  <2>4. g.closed = s.closed /\ g.delayed = s.delayed /\ g.event = s.event
    BY <1>1
  <2> DEFINE x == 0
  <2>5. /\ x \in {0, 1}
        /\ g.nconns = s.nconns + x /\ AddsIn(g.tasks) = AddsIn(s.tasks) + x
        /\ GrowsIn(g.tasks) = GrowsIn(s.tasks) + x
        /\ x # 1 /\ x = 0
    BY <2>1
  <2> HIDE DEF x
  <2> QED
    BY <2>2, <2>3, <2>4, <2>5
<1> QED
  BY <1>1, <1>3, <1>4

(* A connection is handed on *)

\* The tasks of s are the pool's, but for one that makes no connection
SameBooks(s) ==
    /\ s \in Pools
    /\ AddsIn(s.tasks) = AddsIn(self.tasks) /\ GrowsIn(s.tasks) = GrowsIn(self.tasks)
    /\ s.nconns = self.nconns /\ s.growing = self.growing /\ s.closed = self.closed
    /\ s.delayed = self.delayed /\ s.event = self.event /\ s.lock = self.lock

\* Task t hands on connection c, that is open, or that it has just made
Carried(t, c, n, s, grow) ==
    /\ Passing(t, c, n, s) /\ SameBooks(s) /\ UNCHANGED <<null, leaked, calls>>
    /\ grow \in BOOLEAN
    /\ \/ status[c] # "absent" /\ loc[t].pc # "connect" /\ ~grow
       \/ status[c] = "absent" /\ t \in Connecting /\ grow = loc[t].job.growing

\* It is counted before and after
LEMMA CarriedCounts ==
    ASSUME Types, Types', Books, NEW t, NEW c, NEW n, NEW s, NEW grow,
           Carried(t, c, n, s, grow), NEW v, Becomes(c, v),
           \A w \in Workers : w # t => loc'[w] = loc[w], loc'[t].pc # "connect",
           self'.delayed = s.delayed
    PROVE  /\ RetriesFinite'
           /\ Load' = Load - Bit(v = "absent") + AddsIn(self'.tasks) - AddsIn(s.tasks)
           /\ Efforts' = Efforts - Bit(grow) + GrowsIn(self'.tasks) - GrowsIn(s.tasks)
<1>1. /\ RetriesFinite' /\ NRetries' = NRetries /\ NGrowRetries' = NGrowRetries
      /\ leaked' = leaked /\ c \in Conns
      /\ AddsIn(s.tasks) = AddsIn(self.tasks) /\ GrowsIn(s.tasks) = GrowsIn(self.tasks)
  BY RetriesSame DEF Books, Carried, SameBooks, Passing
<1>2. NLive' = NLive + (IF v # "absent" THEN 1 ELSE 0)
                     - (IF status[c] # "absent" THEN 1 ELSE 0)
  BY <1>1, LiveOne
<1>3. t \notin Connecting' /\ t \notin Growers'
  BY DEF Connecting, Growers
<1>4. /\ NConnecting' = NConnecting - (IF t \in Connecting THEN 1 ELSE 0)
      /\ NGrowers' = NGrowers - (IF t \in Growers THEN 1 ELSE 0)
      /\ NLive \in Nat /\ NConnecting \in Nat /\ NGrowers \in Nat
      /\ NRetries \in Nat /\ NGrowRetries \in Nat /\ leaked \in Nat
  BY <1>3, WorkersOne, CountTypes DEF Books
<1>5. AddsIn(self.tasks) \in Nat /\ GrowsIn(self.tasks) \in Nat
      /\ AddsIn(self'.tasks) \in Nat /\ GrowsIn(self'.tasks) \in Nat
  BY PoolFields, CountTypes DEF Types, Books
<1>6. \/ status[c] # "absent" /\ t \notin Connecting /\ t \notin Growers /\ ~grow
      \/ status[c] = "absent" /\ t \in Connecting /\ (t \in Growers <=> grow)
  BY DEF Carried, Connecting, Growers
<1>7. Load' = Load - Bit(v = "absent") + AddsIn(self'.tasks) - AddsIn(s.tasks)
  BY <1>1, <1>2, <1>4, <1>5, <1>6 DEF Load, Bit
<1>8. Efforts' = Efforts - Bit(grow) + GrowsIn(self'.tasks) - GrowsIn(s.tasks)
  BY <1>1, <1>4, <1>5, <1>6 DEF Efforts, Bit
<1> QED
  BY <1>1, <1>7, <1>8

\* The rest of _add_to_pool(), where s1 has the connection, and nconns without it if
\* it is closed
Entered(t, c, n, s, grow, s1, v) ==
    /\ Becomes(c, v) /\ s.lock = NoTask
    /\ \A w \in Workers : w # t => loc'[w] = loc[w]
    /\ loc'[t].pc = n
    /\ self' = Grown(s1, grow)
    /\ s1 \in Pools /\ s1.tasks = s.tasks /\ s1.growing = s.growing
    /\ s1.closed = s.closed /\ s1.delayed = s.delayed
    /\ s1.event # "none" => s.event # "none"
    /\ \/ s1.nconns = s.nconns - Bit(v = "absent")
       \/ s1.nconns = s.nconns /\ (s.closed \/ (null /\ s.event # "none"))

\* The rest of _add_to_pool() keeps the books balanced
LEMMA EnteredKept ==
    ASSUME Types, Types', Books, NEW t, NEW c, NEW n, NEW s, NEW grow,
           Carried(t, c, n, s, grow), NEW s1, NEW v, Entered(t, c, n, s, grow, s1, v)
    PROVE  Kept
<1>1. /\ UNCHANGED <<null, leaked, calls>> /\ grow \in BOOLEAN /\ s1 \in Pools
      /\ self' = Grown(s1, grow) /\ self'.nconns \in Int /\ self.nconns \in Int
      /\ Load \in Nat /\ Efforts \in Nat
      /\ AddsIn(s.tasks) \in Nat /\ GrowsIn(s.tasks) \in Nat
  BY PoolFields, CountTypes, SumTypes DEF Carried, SameBooks, Entered, Types, Books
<1>2. PICK x \in {0, 1} :
         /\ self'.nconns = s1.nconns + x /\ AddsIn(self'.tasks) = AddsIn(s1.tasks) + x
         /\ GrowsIn(self'.tasks) = GrowsIn(s1.tasks) + x
         /\ x = 1 => grow
         /\ x = 1 \/ ~grow => self'.growing = s1.growing
         /\ x = 0 /\ grow => self'.growing = FALSE
         /\ self'.closed = s1.closed /\ self'.delayed = s1.delayed
         /\ self'.event = s1.event
  BY <1>1, GrownBooks
<1>3. /\ self'.closed = self.closed /\ self'.delayed = s.delayed
      /\ s1.growing = self.growing
      /\ self'.event # "none" => self.event # "none"
      /\ s.closed = self.closed /\ s.event = self.event /\ s.nconns = self.nconns
      /\ s1.tasks = s.tasks
  BY <1>2 DEF Entered, Carried, SameBooks
<1>4. n # "connect"
  BY DEF Carried, Passing, Onward, Nexts
<1>5. /\ RetriesFinite'
      /\ Load' = Load - Bit(v = "absent") + x
      /\ Efforts' = Efforts - Bit(grow) + x
  BY <1>3, <1>4, CarriedCounts, <1>1, <1>2 DEF Entered, Bit
<1>6. Awaited'
  BY <1>1, <1>3 DEF Books, Awaited
<1>7. \/ null /\ "wait" \in calls'
      \/ /\ Load' - self'.nconns <= Load - self.nconns
         /\ ~self'.closed => Load' - self'.nconns = Load - self.nconns
  BY <1>1, <1>2, <1>3, <1>5 DEF Bit, Books, Awaited, Entered
<1>8. \/ self'.closed
      \/ /\ Efforts' - Bit(self'.growing) = Efforts - Bit(self.growing)
         /\ null /\ self'.growing => self.growing
  <2>1. CASE self'.closed
    BY <2>1
  <2>2. CASE ~self'.closed /\ ~grow
    BY <1>2, <1>3, <2>2, <1>1, <1>5 DEF Bit
  <2>3. CASE ~self'.closed /\ grow
    <3>1. t \in Growers
      BY <2>3 DEF Carried, Connecting, Growers
    <3>2. self.growing /\ ~null
      BY <1>3, <2>3, <3>1, GrowerMarked
    <3>3. self.growing \in BOOLEAN /\ Bit(grow) = 1 /\ Bit(self.growing) = 1
      BY <2>3, <3>2, PoolFields DEF Bit, Types
    <3>4. CASE x = 1
      <4>1. Bit(self'.growing) = 1
        BY <1>2, <1>3, <3>2, <3>4 DEF Bit
      <4>2. Efforts' - Bit(self'.growing) = Efforts - Bit(self.growing)
        BY <1>1, <1>5, <3>3, <3>4, <4>1
      <4> QED
        BY <3>2, <4>2
    <3>5. CASE x = 0
      <4>1. Bit(self'.growing) = 0
        BY <1>2, <2>3, <3>5 DEF Bit
      <4>2. Efforts' - Bit(self'.growing) = Efforts - Bit(self.growing)
        BY <1>1, <1>5, <3>3, <3>5, <4>1
      <4> QED
        BY <3>2, <4>2
    <3> QED
      BY <3>4, <3>5
  <2> QED
    BY <1>1, <2>1, <2>2, <2>3
<1>9. calls \subseteq calls' /\ (self.closed => self'.closed)
  BY <1>1, <1>3
<1> QED
  BY <1>1, <1>5, <1>6, <1>7, <1>8, <1>9 DEF Kept

\* The connection stays in hand
LEMMA HeldKept ==
    ASSUME Shape, Types', Books, NEW t, NEW c, NEW n, NEW s, NEW grow,
           Carried(t, c, n, s, grow), self' = s, NEW v, v # "absent", Becomes(c, v),
           \A w \in Workers : w # t => loc'[w] = loc[w], loc'[t].pc # "connect",
           ~grow \/ self.lock # NoTask
    PROVE  Kept
<1>0. Types /\ UNCHANGED <<null, leaked, calls>> /\ grow \in BOOLEAN
  BY DEF Shape, Carried
<1>1. /\ RetriesFinite'
      /\ Load' = Load - Bit(v = "absent") + AddsIn(self'.tasks) - AddsIn(s.tasks)
      /\ Efforts' = Efforts - Bit(grow) + GrowsIn(self'.tasks) - GrowsIn(s.tasks)
  BY <1>0, CarriedCounts
<1>2. /\ AddsIn(s.tasks) \in Nat /\ GrowsIn(s.tasks) \in Nat /\ Load \in Nat
      /\ Efforts \in Nat /\ self.nconns \in Int
  BY PoolFields, <1>0, CountTypes, SumTypes DEF Carried, SameBooks, Books
<1>3. /\ self'.nconns = self.nconns /\ self'.growing = self.growing
      /\ self'.closed = self.closed /\ self'.event = self.event
  BY DEF Carried, SameBooks
<1>4. Load' = Load
  BY <1>1, <1>2 DEF Bit
<1>5. self.closed \/ Efforts' = Efforts
  <2>1. self.closed \/ ~grow
    <3>1. CASE ~self.closed /\ grow /\ self.lock # NoTask
      BY <3>1, <1>0, GrowerMarked, LockOfNull DEF Carried, Connecting, Growers
    <3> QED
      BY <3>1
  <2> QED
    BY <1>1, <1>2, <2>1 DEF Bit
<1>6. Awaited'
  BY <1>0, <1>3 DEF Books, Awaited
<1>7. self'.growing \in BOOLEAN /\ Bit(self.growing) \in Int
  BY PoolFields DEF Types, Bit
<1> QED
  BY <1>0, <1>1, <1>2, <1>3, <1>4, <1>5, <1>6, <1>7 DEF Kept

\* Another task takes care of it, or of its successor
LEMMA QueuedKept ==
    ASSUME Shape, Types', Books, NEW t, NEW c, NEW n, NEW s,
           Carried(t, c, n, s, FALSE), NEW j \in Jobs, self' = RunTask(s, j),
           NEW v, Becomes(c, v), v = "absent" <=> j.kind = "add", ~j.growing, Left(t, n)
    PROVE  Kept
<1>0. Types /\ UNCHANGED <<null, leaked, calls>> /\ s \in Pools /\ s.tasks \in Seq(Jobs)
  BY PoolFields DEF Shape, Carried, SameBooks
<1>1. /\ self'.tasks = Append(s.tasks, j) /\ self'.delayed = s.delayed
      /\ self'.nconns = self.nconns /\ self'.growing = self.growing
      /\ self'.closed = self.closed /\ self'.event = self.event
  BY <1>0, RunTaskFields DEF Carried, SameBooks
<1>2. (\A w \in Workers : w # t => loc'[w] = loc[w]) /\ loc'[t].pc # "connect"
  BY DEF Left, Moved, Carried, Passing, Onward, Nexts, Tasks
<1>3. /\ RetriesFinite'
      /\ Load' = Load - Bit(v = "absent") + AddsIn(self'.tasks) - AddsIn(s.tasks)
      /\ Efforts' = Efforts - Bit(FALSE) + GrowsIn(self'.tasks) - GrowsIn(s.tasks)
  <2>1. PICK g : g = FALSE
    OBVIOUS
  <2>2. Carried(t, c, n, s, g)
    BY <2>1
  <2>3. Efforts' = Efforts - Bit(g) + GrowsIn(self'.tasks) - GrowsIn(s.tasks)
    BY <1>0, <1>1, <1>2, <2>2, CarriedCounts
  <2>4. /\ RetriesFinite'
        /\ Load' = Load - Bit(v = "absent") + AddsIn(self'.tasks) - AddsIn(s.tasks)
    BY <1>0, <1>1, <1>2, <2>2, CarriedCounts
  <2> QED
    BY <2>1, <2>3, <2>4
<1>4. /\ AddsIn(self'.tasks) = AddsIn(s.tasks) + (IF j.kind = "add" THEN 1 ELSE 0)
      /\ GrowsIn(self'.tasks) = GrowsIn(s.tasks)
      /\ AddsIn(s.tasks) \in Nat /\ GrowsIn(s.tasks) \in Nat /\ Load \in Nat
      /\ Efforts \in Nat /\ self.nconns \in Int
  <2>1. /\ AddsIn(Append(s.tasks, j)) = AddsIn(s.tasks) + (IF j.kind = "add" THEN 1 ELSE 0)
        /\ GrowsIn(Append(s.tasks, j)) = GrowsIn(s.tasks) + (IF j.growing THEN 1 ELSE 0)
    BY <1>0, TaskQueued
  <2>2. /\ AddsIn(s.tasks) \in Nat /\ GrowsIn(s.tasks) \in Nat /\ Load \in Nat
        /\ Efforts \in Nat /\ self.nconns \in Int
    BY <1>0, CountTypes, SumTypes DEF Books
  <2> QED
    BY <1>1, <2>1, <2>2
<1>5. Load' = Load
  BY <1>3, <1>4 DEF Bit
<1>6. Efforts' = Efforts
  BY <1>3, <1>4 DEF Bit
<1>7. Awaited'
  BY <1>0, <1>1 DEF Books, Awaited
<1>8. self'.growing \in BOOLEAN /\ Bit(self.growing) \in Int
  BY PoolFields DEF Types, Bit
<1> QED
  <2>1. /\ UNCHANGED null /\ calls \subseteq calls' /\ RetriesFinite' /\ Awaited'
        /\ self.closed => self'.closed
    BY <1>0, <1>1, <1>3, <1>7
  <2>2. Load' - self'.nconns = Load - self.nconns /\ Load' - self'.nconns \in Int
    BY <1>1, <1>4, <1>5
  <2>3. /\ Efforts' - Bit(self'.growing) = Efforts - Bit(self.growing)
        /\ self'.growing => self.growing
    BY <1>1, <1>6, <1>8
  <2> QED
    BY <2>1, <2>2, <2>3 DEF Kept

\* It is closed, and counted out unless the pool is closed
LEMMA ClosedKept ==
    ASSUME Shape, Types', Books, NEW t, NEW c, Carried(t, c, "idle", self, FALSE),
           Closes(t, c),
           \/ self'.nconns = self.nconns - 1
           \/ self'.nconns = self.nconns /\ self.closed
    PROVE  Kept
<1>0. /\ Types /\ UNCHANGED <<null, leaked, calls>>
      /\ self'.tasks = self.tasks /\ self'.delayed = self.delayed
      /\ self'.growing = self.growing /\ self'.closed = self.closed
      /\ self'.event = self.event /\ Becomes(c, "absent") /\ self.tasks \in Seq(Jobs)
  BY PoolFields DEF Shape, Carried, Closes, Types
<1>1. (\A w \in Workers : w # t => loc'[w] = loc[w]) /\ loc'[t].pc # "connect"
  BY DEF Closes, Left, Moved, Tasks
<1>2. /\ RetriesFinite'
      /\ Load' = Load - Bit(TRUE) + AddsIn(self'.tasks) - AddsIn(self.tasks)
      /\ Efforts' = Efforts - Bit(FALSE) + GrowsIn(self'.tasks) - GrowsIn(self.tasks)
  <2>1. PICK g, s, v, n : g = FALSE /\ s = self /\ v = "absent" /\ n = "idle"
    OBVIOUS
  <2>2. Carried(t, c, n, s, g) /\ Becomes(c, v) /\ self'.delayed = s.delayed
    BY <1>0, <2>1
  <2>3. /\ RetriesFinite'
        /\ Load' = Load - Bit(v = "absent") + AddsIn(self'.tasks) - AddsIn(s.tasks)
        /\ Efforts' = Efforts - Bit(g) + GrowsIn(self'.tasks) - GrowsIn(s.tasks)
    BY <1>0, <1>1, <2>2, CarriedCounts
  <2> QED
    BY <2>1, <2>3
<1>3. /\ AddsIn(self.tasks) \in Nat /\ GrowsIn(self.tasks) \in Nat /\ Load \in Nat
      /\ Efforts \in Nat /\ self.nconns \in Int
  BY <1>0, CountTypes, SumTypes DEF Books
<1>4. Load' = Load - 1 /\ Efforts' = Efforts
  BY <1>0, <1>2, <1>3 DEF Bit
<1>5. Awaited'
  BY <1>0 DEF Books, Awaited
<1>6. self'.growing \in BOOLEAN /\ Bit(self.growing) \in Int
  BY PoolFields DEF Types, Bit
<1>7. /\ Load' - self'.nconns <= Load - self.nconns
      /\ ~self'.closed => Load' - self'.nconns = Load - self.nconns
  BY <1>0, <1>3, <1>4
<1> QED
  BY <1>0, <1>2, <1>3, <1>4, <1>5, <1>6, <1>7 DEF Kept

\* _add_to_pool() enters the connection
LEMMA AddKept ==
    ASSUME Shape, Types', Books, NEW t, NEW c, NEW n, NEW s, NEW grow,
           Carried(t, c, n, s, grow), AddForms(t, c, n, grow, s)
    PROVE  Kept
<1>0. /\ Types /\ s \in Pools /\ t \in Tasks /\ grow \in BOOLEAN /\ n # "connect"
      /\ s.nconns \in Int /\ s.closed = self.closed /\ s.event = self.event
      /\ s.lock = self.lock
  BY PoolFields DEF Shape, Carried, Passing, Onward, Nexts, SameBooks
<1>1. Left(t, n) => (\A w \in Workers : w # t => loc'[w] = loc[w]) /\ loc'[t].pc = n
  BY DEF Left, Moved, Tasks
<1>2. CASE AddWaits(t, c, n, s)
  BY <1>0, <1>2, HeldKept DEF AddWaits, Moved, Tasks
<1>3. CASE AddDrops(t, c, n, grow, s)
  BY <1>3, <1>0, <1>1, EnteredKept DEF AddDrops, Entered
<1>4. CASE AddCloses(t, c, n, grow, s)
  BY <1>4, <1>1, <1>0, EnteredKept DEF AddCloses, Alike, Bit, Entered
<1>5. CASE AddKeeps(t, c, n, grow, s)
  BY <1>5, <1>0, <1>1, EnteredKept DEF AddKeeps, Alike, Bit, Entered
<1>6. CASE AddGives(t, c, n, grow, s)
  <2>1. PICK k \in Clients, s1 \in Pools :
               /\ k # t /\ loc[k].pc = "wait" /\ Alive(s) # {} /\ k = s.waiting[First(s)]
               /\ Alike(s, s1) /\ s1.pool = s.pool /\ s1.event = s.event
               /\ s1.nconns = s.nconns
               /\ s1.waiting = SubSeq(s.waiting, First(s) + 1, Len(s.waiting))
               /\ self' = Grown(s1, grow) /\ LeftGiving(t, n, k, c)
    BY <1>6, Zenon DEF AddGives
  <2>2. Becomes(c, "idle") /\ s.lock = NoTask
    BY <1>6 DEF AddGives
  <2>3. PICK v : v = "idle"
    OBVIOUS
  <2>4. /\ s1 \in Pools /\ s1.tasks = s.tasks /\ s1.growing = s.growing
        /\ s1.closed = s.closed /\ s1.delayed = s.delayed
    BY <2>1 DEF Alike
  <2>5. s1.nconns = s.nconns - Bit(v = "absent")
    BY <1>0, <2>1, <2>3 DEF Bit
  <2>6. (\A w \in Workers : w # t => loc'[w] = loc[w]) /\ loc'[t].pc = n
    <3>1. k \notin Workers
      BY AsyncAssumption DEF AsyncAssumption
    <3> QED
      BY <2>1, <3>1 DEF LeftGiving, Tasks
  <2>7. Entered(t, c, n, s, grow, s1, v)
    BY <2>1, <2>2, <2>3, <2>4, <2>5, <2>6 DEF Entered
  <2> QED
    BY <1>0, <2>7, EnteredKept
<1> QED
  BY <1>2, <1>3, <1>4, <1>5, <1>6 DEF AddForms

\* _return_connection() and putconn() do
LEMMA ReturnKept ==
    ASSUME Shape, Types', Books, NEW t, NEW c, NEW n, NEW s,
           Carried(t, c, n, s, FALSE), NEW st \in LiveStatus,
           \/ ReturnForms(t, c, n, st, s) \/ (s = self /\ Queues(t, c, n, st))
    PROVE  Kept
<1>1. CASE Replaces(t, c, n, s)
  BY <1>1, JobTypes, NewFields, QueuedKept DEF Replaces
<1>2. CASE Resets(t, c, n, st, s)
  BY <1>2, HeldKept DEF Resets, LiveStatus, Moved, Tasks
<1>3. CASE s = self /\ Queues(t, c, n, st)
  BY <1>3, JobTypes, NewFields, QueuedKept DEF Queues, LiveStatus, Carried, Passing
<1>4. CASE AddForms(t, c, n, FALSE, s)
  BY <1>4, AddKept
<1> QED
  BY <1>1, <1>2, <1>3, <1>4 DEF ReturnForms

(* The other steps *)

\* What is counted in the next state is finite too
LEMMA CountTypesNext ==
    ASSUME Types, RetriesFinite
    PROVE  /\ NLive \in Nat /\ NRetries \in Nat /\ NGrowRetries \in Nat
           /\ NConnecting \in Nat /\ NGrowers \in Nat /\ leaked \in Nat
           /\ self.nconns \in Int /\ AddsIn(self.tasks) \in Nat /\ GrowsIn(self.tasks) \in Nat
<1>1. self.tasks \in Seq(Jobs)
  BY PoolFields DEF Types
<1> QED
  BY <1>1, CountTypes

\* So CountTypes holds of the next state
LEMMA NumbersNext ==
    (Types /\ RetriesFinite =>
       /\ NLive \in Nat /\ NRetries \in Nat /\ NGrowRetries \in Nat
       /\ NConnecting \in Nat /\ NGrowers \in Nat /\ leaked \in Nat
       /\ self.nconns \in Int /\ AddsIn(self.tasks) \in Nat /\ GrowsIn(self.tasks) \in Nat)'
<1>1. Types /\ RetriesFinite =>
       /\ NLive \in Nat /\ NRetries \in Nat /\ NGrowRetries \in Nat
       /\ NConnecting \in Nat /\ NGrowers \in Nat /\ leaked \in Nat
       /\ self.nconns \in Int /\ AddsIn(self.tasks) \in Nat /\ GrowsIn(self.tasks) \in Nat
  BY CountTypesNext
<1> QED
  BY <1>1, PTL

\* The sums change as their terms do
LEMMA Sums ==
    ASSUME Types, Types', RetriesFinite, RetriesFinite'
    PROVE  /\ Load' = Load + (NLive' - NLive) + (NRetries' - NRetries)
                      + (AddsIn(self'.tasks) - AddsIn(self.tasks))
                      + (NConnecting' - NConnecting) + (leaked' - leaked)
           /\ Efforts' = Efforts + (NGrowRetries' - NGrowRetries) + (NGrowers' - NGrowers)
                         + (GrowsIn(self'.tasks) - GrowsIn(self.tasks))
           /\ Load \in Nat /\ Efforts \in Nat /\ Load' \in Nat /\ Efforts' \in Nat
           /\ self.nconns \in Int /\ self'.nconns \in Int
<1>1. /\ NLive \in Nat /\ NRetries \in Nat /\ NGrowRetries \in Nat
      /\ NConnecting \in Nat /\ NGrowers \in Nat /\ leaked \in Nat
      /\ self.nconns \in Int /\ AddsIn(self.tasks) \in Nat /\ GrowsIn(self.tasks) \in Nat
  BY CountTypesNext
<1>2. /\ NLive' \in Nat /\ NRetries' \in Nat /\ NGrowRetries' \in Nat
      /\ NConnecting' \in Nat /\ NGrowers' \in Nat /\ leaked' \in Nat
      /\ self'.nconns \in Int /\ AddsIn(self'.tasks) \in Nat /\ GrowsIn(self'.tasks) \in Nat
  BY NumbersNext DEF AddsIn, GrowsIn
<1>3. /\ Load = NLive + AddsIn(self.tasks) + NRetries + NConnecting + leaked
      /\ Load' = NLive' + AddsIn(self'.tasks) + NRetries' + NConnecting' + leaked'
  BY DEF Load
<1>4. /\ Efforts = GrowsIn(self.tasks) + NGrowRetries + NGrowers
      /\ Efforts' = GrowsIn(self'.tasks) + NGrowRetries' + NGrowers'
  BY DEF Efforts
<1>5. Load \in Nat /\ Efforts \in Nat /\ Load' \in Nat /\ Efforts' \in Nat
  BY <1>1, <1>2, <1>3, <1>4
<1>6. Load' = Load + (NLive' - NLive) + (NRetries' - NRetries)
                 + (AddsIn(self'.tasks) - AddsIn(self.tasks))
                 + (NConnecting' - NConnecting) + (leaked' - leaked)
  BY <1>1, <1>2, <1>3
<1>7. Efforts' = Efforts + (NGrowRetries' - NGrowRetries) + (NGrowers' - NGrowers)
                    + (GrowsIn(self'.tasks) - GrowsIn(self.tasks))
  BY <1>1, <1>2, <1>4
<1> QED
  BY <1>1, <1>2, <1>5, <1>6, <1>7

\* A step that opens and closes no connection, and starts or ends no attempt but in the
\* queue of tasks
Calm ==
    /\ UNCHANGED <<null, leaked>> /\ calls \subseteq calls'
    /\ \A c \in Conns : status'[c] = "absent" <=> status[c] = "absent"
    /\ \A w \in Workers : loc'[w].pc = loc[w].pc /\ loc'[w].job = loc[w].job
    /\ self'.delayed = self.delayed /\ self'.closed = self.closed
    /\ self'.event # "none" => self.event # "none" \/ "wait" \in calls'
    /\ \/ null /\ "wait" \in calls'
       \/ self'.nconns - self.nconns = AddsIn(self'.tasks) - AddsIn(self.tasks)
    /\ \/ self'.growing = self.growing /\ GrowsIn(self'.tasks) = GrowsIn(self.tasks)
       \/ /\ ~null /\ ~self.growing /\ self'.growing
          /\ GrowsIn(self'.tasks) = GrowsIn(self.tasks) + 1

\* Such a step keeps the books balanced
LEMMA CalmKept ==
    ASSUME Types, Types', Books, Calm
    PROVE  Kept
<1>1. /\ RetriesFinite /\ RetriesFinite' /\ NRetries' = NRetries
      /\ NGrowRetries' = NGrowRetries
  BY RetriesSame DEF Calm, Books
<1>2. NLive' = NLive /\ NConnecting' = NConnecting /\ NGrowers' = NGrowers
  BY LiveSame, WorkersSame DEF Calm
<1>3. /\ NLive \in Nat /\ NRetries \in Nat /\ NGrowRetries \in Nat
      /\ NConnecting \in Nat /\ NGrowers \in Nat /\ leaked \in Nat /\ leaked' = leaked
      /\ AddsIn(self.tasks) \in Nat /\ GrowsIn(self.tasks) \in Nat
      /\ AddsIn(self'.tasks) \in Nat /\ GrowsIn(self'.tasks) \in Nat
  BY <1>1, CountTypesNext, NumbersNext DEF Calm, AddsIn, GrowsIn
<1>4. /\ Load' = Load + (AddsIn(self'.tasks) - AddsIn(self.tasks))
      /\ Efforts' = Efforts + (GrowsIn(self'.tasks) - GrowsIn(self.tasks))
      /\ Load \in Nat /\ Efforts \in Nat /\ self.nconns \in Int /\ self'.nconns \in Int
  BY <1>1, Sums, <1>2, <1>3
<1>5. \/ null /\ "wait" \in calls'
      \/ Load' - self'.nconns = Load - self.nconns /\ Load - self.nconns \in Int
  BY <1>3, <1>4 DEF Calm
<1>6. Efforts' - Bit(self'.growing) = Efforts - Bit(self.growing)
  <2>1. CASE self'.growing = self.growing /\ GrowsIn(self'.tasks) = GrowsIn(self.tasks)
    BY <1>3, <1>4, <2>1 DEF Bit
  <2>2. CASE /\ ~null /\ ~self.growing /\ self'.growing
             /\ GrowsIn(self'.tasks) = GrowsIn(self.tasks) + 1
    BY <2>2, <1>3, <1>4 DEF Bit
  <2> QED
    BY <2>1, <2>2 DEF Calm
<1>7. /\ null /\ self'.growing => self.growing
      /\ self.closed => self'.closed
      /\ UNCHANGED null /\ calls \subseteq calls' /\ Awaited'
  BY DEF Calm, Books, Awaited
<1>8. Load' - self'.nconns = Load - self.nconns => Load' - self'.nconns <= Load - self.nconns
  BY <1>4
<1> QED
  BY <1>1, <1>5, <1>6, <1>7, <1>8 DEF Kept

\* What a task has in hand is open
LEMMA HandCarried ==
    ASSUME Shape, Owned, NEW t, NEW n, Passing(t, loc[t].conn, n, self),
           UNCHANGED <<null, leaked, calls>>
    PROVE  Carried(t, loc[t].conn, n, self, FALSE)
BY AsyncAssumption, FreedByHand DEF AsyncAssumption, Passing, Shape, Placed, Fits, Holding,
   SameBooks, Carried

\* A step of a client, or of a caller, in which it goes on
LEMMA MovedCalm ==
    ASSUME Types, NEW t \in Tasks, t \notin Workers, NEW p, NEW c, NEW n, NEW o, NEW j,
           Moved(t, p, c, n, o, j)
    PROVE  \A w \in Workers : loc'[w].pc = loc[w].pc /\ loc'[w].job = loc[w].job
  BY DEF Moved, Tasks

\* A growing attempt is queued, with its slot
LEMMA GrowCalm ==
    ASSUME Types, self'.tasks = Append(self.tasks, AddConnection(TRUE, 0))
    PROVE  /\ AddsIn(self'.tasks) - AddsIn(self.tasks) = 1
           /\ GrowsIn(self'.tasks) = GrowsIn(self.tasks) + 1
<1> DEFINE j == AddConnection(TRUE, 0)
<1>1. j \in Jobs /\ j.kind = "add" /\ j.growing /\ self.tasks \in Seq(Jobs)
  BY JobTypes, NewFields, PoolFields DEF Types
<1>2. self'.tasks = Append(self.tasks, j)
  OBVIOUS
<1> HIDE DEF j
<1>3. AddsIn(self.tasks) \in Nat
  BY <1>1, IndicesFinite DEF AddsIn
<1>4. /\ AddsIn(self'.tasks) = AddsIn(self.tasks) + 1
      /\ GrowsIn(self'.tasks) = GrowsIn(self.tasks) + 1
  BY <1>1, TaskQueued, <1>2
<1> DEFINE a == AddsIn(self.tasks)
           b == AddsIn(self'.tasks)
<1>5. a \in Nat /\ b = a + 1
  BY <1>3, <1>4
<1> HIDE DEF a, b
<1>6. b - a = 1
  BY <1>5
<1> QED
  BY <1>4, <1>6 DEF a, b

\* No task is queued
LEMMA SameTasksCalm ==
    ASSUME Types, self'.tasks = self.tasks, self'.nconns = self.nconns
    PROVE  /\ self'.nconns - self.nconns = AddsIn(self'.tasks) - AddsIn(self.tasks)
           /\ GrowsIn(self'.tasks) = GrowsIn(self.tasks)
BY PoolFields, IndicesFinite DEF Types, AddsIn

\* Nothing changes but where clients or callers are
LEMMA StillCalm ==
    ASSUME Types, UNCHANGED <<null, leaked>>, calls \subseteq calls', UNCHANGED connVars,
           \A w \in Workers : loc'[w].pc = loc[w].pc /\ loc'[w].job = loc[w].job,
           self'.delayed = self.delayed, self'.closed = self.closed,
           self'.event \in {self.event, "none"}, self'.nconns = self.nconns,
           self'.tasks = self.tasks, self'.growing = self.growing
    PROVE  Calm
BY SameTasksCalm DEF connVars, Calm

\* A client of a null pool has connected
LEMMA NullConnectedKept ==
    ASSUME Shape, Types', Books, NEW c \in Clients, NEW k \in Conns, NullConnected(c, k)
    PROVE  Kept
<1>1. /\ status[k] = "absent" /\ Becomes(k, "idle") /\ UNCHANGED <<null, leaked, calls>>
      /\ self'.nconns = self.nconns + 1
      /\ self'.closed = self.closed /\ self'.growing = self.growing
      /\ self'.event = self.event /\ self'.tasks = self.tasks
      /\ self'.delayed = self.delayed /\ Types
  BY NullConnectedEffect DEF SameTasks, history, Shape
<1>2. \A w \in Workers : loc'[w].pc = loc[w].pc /\ loc'[w].job = loc[w].job
  BY NullConnectedEffect, ClientFields, MovedCalm
<1>3. /\ NConnecting' = NConnecting /\ NGrowers' = NGrowers /\ RetriesFinite'
      /\ NRetries' = NRetries /\ NGrowRetries' = NGrowRetries
  BY <1>1, <1>2, WorkersSame, RetriesSame DEF Books
<1>4. NLive' = NLive + 1
  BY <1>1, LiveOne, CountTypesNext DEF Books
<1>5. /\ NLive \in Nat /\ NRetries \in Nat /\ NGrowRetries \in Nat
      /\ NConnecting \in Nat /\ NGrowers \in Nat /\ leaked \in Nat
      /\ AddsIn(self.tasks) \in Nat /\ GrowsIn(self.tasks) \in Nat /\ self.nconns \in Int
  BY <1>1, CountTypesNext DEF Books
<1>6. Load' = Load + 1 /\ Efforts' = Efforts /\ Load \in Nat /\ Efforts \in Nat
  BY <1>1, <1>3, <1>4, <1>5 DEF Load, Efforts
<1>7. Bit(self.growing) \in Int /\ Awaited'
  BY <1>1 DEF Bit, Books, Awaited
<1>8. /\ Load' - self'.nconns <= Load - self.nconns
      /\ Load' - self'.nconns = Load - self.nconns
  BY <1>1, <1>5, <1>6
<1> QED
  BY <1>1, <1>3, <1>6, <1>7, <1>8 DEF Kept

\* putconn() is cancelled: the connection is lost, and counted
LEMMA CancelledKept ==
    ASSUME Shape, Types', Owned, Books, NEW c \in Clients, PutCancelled(c)
    PROVE  Kept
<1> DEFINE k == loc[c].conn
<1>1. /\ Types /\ UNCHANGED <<null, self, calls>> /\ leaked' = leaked + 1
      /\ Close({k}) /\ loc' = Leaving(c, "idle") /\ loc[c].pc \in {"putlock", "add"}
      /\ c \in Tasks /\ c \notin Workers /\ loc[c] \in Locals /\ Fits(c, loc[c])
  BY ClientFields DEF PutCancelled
<1>2. k \in Conns
  BY <1>1 DEF Fits, Holding, Locals
<1>3. Left(c, "idle") /\ Becomes(k, "absent")
  BY <1>1, <1>2, MovesLeaving, BecomesClosed, Names
<1>4. \A w \in Workers : loc'[w].pc = loc[w].pc /\ loc'[w].job = loc[w].job
  BY <1>1, <1>3, MovedCalm DEF Left
<1>5. status[k] # "absent"
  BY <1>1, <1>2, FreedByHand
<1>6. /\ NConnecting' = NConnecting /\ NGrowers' = NGrowers /\ RetriesFinite'
      /\ NRetries' = NRetries /\ NGrowRetries' = NGrowRetries
  BY <1>1, <1>4, WorkersSame, RetriesSame DEF Books
<1>7. /\ NLive \in Nat /\ NRetries \in Nat /\ NGrowRetries \in Nat
      /\ NConnecting \in Nat /\ NGrowers \in Nat /\ leaked \in Nat
      /\ AddsIn(self.tasks) \in Nat /\ GrowsIn(self.tasks) \in Nat /\ self.nconns \in Int
  BY <1>1, CountTypesNext DEF Books
<1>8. NLive' = NLive - 1
  BY <1>1, <1>2, <1>3, LiveOne, <1>5, <1>7
<1>9. Load' = Load /\ Efforts' = Efforts /\ Load \in Nat /\ Efforts \in Nat
  BY <1>1, <1>6, <1>7, <1>8 DEF Load, Efforts
<1>10. Bit(self.growing) \in Int /\ Awaited'
  BY <1>1 DEF Bit, Books, Awaited
<1>11. /\ Load' - self'.nconns <= Load - self.nconns
       /\ Load' - self'.nconns = Load - self.nconns
  BY <1>1, <1>7, <1>9
<1> QED
  BY <1>1, <1>6, <1>9, <1>10, <1>11 DEF Kept

\* The connection of set() is queued to go back when its client has left
LEMMA InterruptedCalm ==
    ASSUME Shape, NEW c \in Clients, WaitInterrupted(c)
    PROVE  Calm
<1>1. /\ Types /\ UNCHANGED <<null, connVars, leaked, calls>>
      /\ self'.closed = self.closed /\ self'.nconns = self.nconns
      /\ self'.growing = self.growing /\ self'.event = self.event
      /\ self'.delayed = self.delayed
      /\ self'.tasks = IF loc[c].pc = "got"
                       THEN Append(self.tasks, ReturnConnection(loc[c].conn))
                       ELSE self.tasks
      /\ loc[c].pc = "got" => loc[c].conn \in Conns
      /\ \A u \in Tasks : u # c => loc'[u].pc = loc[u].pc /\ loc'[u].job = loc[u].job
  BY InterruptedEffect DEF Shape
<1>2. \A w \in Workers : loc'[w].pc = loc[w].pc /\ loc'[w].job = loc[w].job
  BY <1>1, ClientFields DEF Tasks
<1>3. CASE loc[c].pc # "got"
  BY <1>1, <1>2, <1>3, StillCalm
<1>4. CASE loc[c].pc = "got"
  <2>1. PICK j : j = ReturnConnection(loc[c].conn)
    OBVIOUS
  <2>2. j \in Jobs /\ j.kind = "return" /\ ~j.growing /\ self.tasks \in Seq(Jobs)
    BY <1>1, <1>4, <2>1, JobTypes, NewFields, PoolFields DEF Types
  <2>3. self'.tasks = Append(self.tasks, j)
    BY <1>1, <1>4, <2>1
  <2>4. /\ AddsIn(self.tasks) \in Nat /\ GrowsIn(self.tasks) \in Nat /\ self.nconns \in Int
    BY <1>1, <2>2, IndicesFinite, PoolFields DEF AddsIn, GrowsIn, Types
  <2>5. /\ AddsIn(self'.tasks) = AddsIn(self.tasks)
        /\ GrowsIn(self'.tasks) = GrowsIn(self.tasks)
    BY <2>2, TaskQueued, <2>3, <2>4
  <2>6. self'.nconns - self.nconns = AddsIn(self'.tasks) - AddsIn(self.tasks)
    BY <1>1, <2>4, <2>5
  <2>7. \A k \in Conns : status'[k] = "absent" <=> status[k] = "absent"
    BY <1>1 DEF connVars
  <2> QED
    BY <1>1, <1>2, <2>5, <2>6, <2>7 DEF Calm
<1> QED
  BY <1>3, <1>4

\* Queueing a client asks for a connection, if it does
LEMMA QueueUpCalm ==
    ASSUME Shape, NEW c \in Clients, GetQueue(c)
    PROVE  Calm
<1>1. /\ Types /\ UNCHANGED <<null, connVars, history>>
      /\ self'.closed = self.closed /\ self'.delayed = self.delayed
      /\ self'.event = self.event
      /\ \/ /\ self'.nconns = self.nconns /\ self'.growing = self.growing
            /\ self'.tasks = self.tasks
         \/ /\ ~null /\ ~self.growing
            /\ self'.nconns = self.nconns + 1 /\ self'.growing
            /\ self'.tasks = Append(self.tasks, AddConnection(TRUE, 0))
      /\ Moved(c, "wait", loc[c].conn, loc[c].pc, loc[c].out, loc[c].job)
  BY QueueUpEffect DEF Shape, Steady
<1>2. \A w \in Workers : loc'[w].pc = loc[w].pc /\ loc'[w].job = loc[w].job
  BY <1>1, ClientFields, MovedCalm
<1>3. UNCHANGED <<null, leaked, calls>>
  BY <1>1 DEF history
<1>4. CASE /\ self'.nconns = self.nconns /\ self'.growing = self.growing
           /\ self'.tasks = self.tasks
  BY <1>1, <1>2, <1>3, <1>4, StillCalm
<1>5. CASE /\ ~null /\ ~self.growing
           /\ self'.nconns = self.nconns + 1 /\ self'.growing
           /\ self'.tasks = Append(self.tasks, AddConnection(TRUE, 0))
  <2>1. /\ AddsIn(self'.tasks) - AddsIn(self.tasks) = 1
        /\ GrowsIn(self'.tasks) = GrowsIn(self.tasks) + 1
    BY <1>1, <1>5, GrowCalm
  <2>2. self'.nconns - self.nconns = AddsIn(self'.tasks) - AddsIn(self.tasks)
    <3>1. self.nconns \in Int /\ self'.nconns = self.nconns + 1
      BY <1>1, <1>5, PoolFields DEF Types
    <3> QED
      BY <2>1, <3>1
  <2>3. \A k \in Conns : status'[k] = "absent" <=> status[k] = "absent"
    BY <1>1 DEF connVars
  <2>4. ~null /\ ~self.growing /\ self'.growing
    BY <1>5
  <2> QED
    BY <1>1, <1>2, <1>3, <2>1, <2>2, <2>3, <2>4 DEF Calm
<1> QED
  BY <1>1, <1>4, <1>5

\* The clients' steps keep the books
LEMMA ClientKept ==
    ASSUME Shape, Types', Owned, Books, NEW c \in Clients,
           ClientStep(c) \/ PutStep(c) \/ Start(c) \/ Interrupt(c)
    PROVE  Kept
<1>0. c \in Tasks /\ c \notin Workers /\ Types
  BY ClientFields
<1>1. CASE GetReady(c)
  BY <1>1, ReadyEffect, <1>0, MovedCalm, StillCalm, CalmKept DEF history, SameTasks
<1>2. CASE GetQueue(c)
  BY <1>0, <1>2, QueueUpCalm, CalmKept
<1>3. CASE NullConnect(c)
  BY <1>3, NullConnectEffect, <1>0, MovedCalm, StillCalm, CalmKept DEF history, SameTasks
<1>4. ASSUME NEW k \in Conns, NullConnected(c, k) PROVE Kept
  BY <1>4, NullConnectedKept
<1>5. CASE NullConnectFailed(c)
  BY <1>5, NullFailedEffect, <1>0, MovedCalm, StillCalm, CalmKept DEF history, Left, SameTasks
<1>6. CASE Quiet(c)
  BY <1>6, QuietEffect, <1>0, MovedCalm, StillCalm, CalmKept
<1>7. CASE WaitInterrupted(c)
  BY <1>0, <1>7, InterruptedCalm, CalmKept
<1>8. ASSUME NEW st \in Leaves, PutConn(c, st) PROVE Kept
  BY <1>8, PutConnEffect, HandCarried, ClosedKept, ReturnKept DEF PutConn, history
<1>9. ASSUME NEW st \in Leaves, NullPutConn(c, st) PROVE Kept
  <2>1. UNCHANGED <<null, leaked, calls>>
    BY <1>9 DEF NullPutConn, history
  <2>2. CASE loc[c].pc \in {"use", "putlock"} /\ NullPut(c, st)
    BY <2>2, NullPutEffect, <2>1, HandCarried, ClosedKept, ReturnKept
  <2>3. CASE loc' = GoTo(c, "putlock") /\ UNCHANGED <<self, connVars>>
    BY <1>0, <2>3, MovesPc, Names, MovedCalm, <2>1, StillCalm, CalmKept
  <2> QED
    BY <1>9, <2>2, <2>3 DEF NullPutConn
<1>10. ASSUME NEW st \in Leaves, CheckBad(c, st) PROVE Kept
  BY <1>10, PutBackEffect, HandCarried, ReturnKept DEF CheckBad, history
<1>11. CASE PutCancelled(c)
  BY <1>11, CancelledKept
<1> QED
  BY <1>1, <1>2, <1>3, <1>4, <1>5, <1>6, <1>7, <1>8, <1>9, <1>10, <1>11
     DEF ClientStep, PutStep, Start, Interrupt, Quiet

\* A task is taken off the queue
LEMMA TakenCounts ==
    ASSUME Types, RetriesFinite, self.tasks # <<>>, self'.tasks = Tail(self.tasks),
           self'.delayed = self.delayed
    PROVE  /\ RetriesFinite' /\ NRetries' = NRetries /\ NGrowRetries' = NGrowRetries
           /\ AddsIn(self'.tasks) = AddsIn(self.tasks) - Bit(Head(self.tasks).kind = "add")
           /\ GrowsIn(self'.tasks) = GrowsIn(self.tasks) - Bit(Head(self.tasks).growing)
           /\ Head(self.tasks) \in Jobs
BY PoolFields, RetriesSame, TaskTaken DEF Types, Bit

\* A worker takes a task, to run it or not
LEMMA TakeKept ==
    ASSUME Shape, Types', Books, NEW w \in Workers,
           WorkerStop(w) \/ WorkerAdd(w) \/ WorkerDiscard(w)
    PROVE  Kept
<1> DEFINE j == Head(self.tasks)
<1>1. /\ self.tasks # <<>> /\ self' = Taken /\ loc[w].pc = "idle" /\ Types
      /\ UNCHANGED <<null, leaked, calls>> /\ RetriesFinite
  BY TakeEffect DEF history, Shape, Books
<1>2. /\ self'.tasks = Tail(self.tasks) /\ self'.delayed = self.delayed
      /\ self'.nconns = self.nconns /\ self'.growing = self.growing
      /\ self'.closed = self.closed /\ self'.event = self.event
  BY <1>1, TakenFields
<1>3. /\ RetriesFinite' /\ NRetries' = NRetries /\ NGrowRetries' = NGrowRetries
      /\ AddsIn(self'.tasks) = AddsIn(self.tasks) - Bit(j.kind = "add")
      /\ GrowsIn(self'.tasks) = GrowsIn(self.tasks) - Bit(j.growing)
      /\ j \in Jobs
  BY <1>1, <1>2, TakenCounts
<1>4. /\ NLive \in Nat /\ NConnecting \in Nat /\ NGrowers \in Nat /\ NRetries \in Nat
      /\ NGrowRetries \in Nat /\ leaked \in Nat
      /\ AddsIn(self.tasks) \in Nat /\ GrowsIn(self.tasks) \in Nat
  BY <1>1, CountTypesNext
<1>5. /\ Load' = Load + (NLive' - NLive) + (NRetries' - NRetries)
                 + (AddsIn(self'.tasks) - AddsIn(self.tasks))
                 + (NConnecting' - NConnecting) + (leaked' - leaked)
      /\ Efforts' = Efforts + (NGrowRetries' - NGrowRetries) + (NGrowers' - NGrowers)
                    + (GrowsIn(self'.tasks) - GrowsIn(self.tasks))
      /\ Load \in Nat /\ Efforts \in Nat /\ self.nconns \in Int
  BY <1>1, <1>3, Sums
<1>6. /\ UNCHANGED null /\ calls \subseteq calls' /\ RetriesFinite' /\ Awaited'
      /\ self.closed => self'.closed
  BY <1>1, <1>2, <1>3 DEF Books, Awaited
<1>7. w \notin Connecting /\ w \notin Growers
  BY <1>1 DEF Connecting, Growers
<1> HIDE DEF j
<1>8. Bit(self.growing) \in Int
  BY DEF Bit
<1>9. ASSUME NEW p, NEW k, Moved(w, p, loc[w].conn, loc[w].next, loc[w].out, k),
             UNCHANGED connVars,
             \/ p = "stopped" /\ j.kind = "stop"
             \/ p = "connect" /\ j.kind = "add" /\ k = j
      PROVE  Kept
  <2>1. /\ NConnecting' = NConnecting + (IF w \in Connecting' THEN 1 ELSE 0)
        /\ NGrowers' = NGrowers + (IF w \in Growers' THEN 1 ELSE 0)
    BY <1>9, <1>4, <1>7, WorkersOne DEF Moved, Tasks
  <2>2. NLive' = NLive
    BY <1>9, LiveSame DEF connVars
  <2>3. /\ w \in Connecting' <=> j.kind = "add"
        /\ w \in Growers' <=> j.growing
    BY <1>3, <1>9, JobFields DEF Moved, Connecting, Growers
  <2>4. NConnecting' = NConnecting + Bit(j.kind = "add") /\ NGrowers' = NGrowers + Bit(j.growing)
    BY <2>1, <2>3 DEF Bit
  <2>5. Bit(j.kind = "add") \in Int /\ Bit(j.growing) \in Int
    BY DEF Bit
  <2>6. Load' = Load /\ Efforts' = Efforts
    <3>1. leaked' = leaked
      BY <1>1
    <3>2. Load' = Load
      BY <1>3, <1>4, <1>5, <2>2, <2>4, <2>5, <3>1
    <3>3. Efforts' = Efforts
      BY <1>3, <1>4, <1>5, <2>4, <2>5
    <3> QED
      BY <3>2, <3>3
  <2>7. /\ Load' - self'.nconns <= Load - self.nconns
        /\ Load' - self'.nconns = Load - self.nconns
    BY <1>2, <1>5, <2>6
  <2>8. /\ Efforts' - Bit(self'.growing) = Efforts - Bit(self.growing)
        /\ self'.growing => self.growing
    BY <1>2, <2>6
  <2> QED
    BY <1>6, <2>7, <2>8 DEF Kept
<1>10. CASE self.closed /\ UNCHANGED loc /\ Close({j.conn})
  <2>1. NLive' <= NLive
    BY <1>10, FS_Subset, AsyncAssumption DEF Close, Live, AsyncAssumption, NLive
  <2>2. NConnecting' = NConnecting /\ NGrowers' = NGrowers
    BY <1>10, WorkersSame
  <2>3. Bit(j.kind = "add") \in {0, 1} /\ NLive' \in Nat
    <3>1. NLive' \in Nat
      BY <1>3, NumbersNext
    <3> QED
      BY <3>1 DEF Bit
  <2>4. Load' <= Load /\ Load' \in Int
    BY <1>1, <1>3, <1>4, <1>5, <2>1, <2>2, <2>3
  <2>5. Load' - self'.nconns <= Load - self.nconns
    BY <1>2, <1>5, <2>4
  <2> QED
    BY <1>2, <1>6, <1>10, <2>5 DEF Kept
<1>11. \/ /\ j.kind = "stop" /\ UNCHANGED connVars
          /\ Moved(w, "stopped", loc[w].conn, loc[w].next, loc[w].out, loc[w].job)
       \/ /\ j.kind = "add" /\ UNCHANGED connVars
          /\ Moved(w, "connect", loc[w].conn, loc[w].next, loc[w].out, j)
       \/ self.closed /\ UNCHANGED loc /\ Close({j.conn})
  BY TakeEffect DEF j
<1> QED
  BY <1>9, <1>10, <1>11

\* What is counted and the counts change alike
LEMMA EvenKept ==
    ASSUME Types, Types', Books, RetriesFinite', UNCHANGED null, calls \subseteq calls',
           self.closed => self'.closed,
           self'.event # "none" => self.event # "none" \/ "wait" \in calls',
           Load' - Load = self'.nconns - self.nconns,
           Efforts' - Bit(self'.growing) = Efforts - Bit(self.growing),
           self'.growing => self.growing
    PROVE  Kept
BY Sums DEF Books, Awaited, Kept

\* An attempt has failed, and another is scheduled
LEMMA RetryKept ==
    ASSUME Shape, Types', Books, NEW w \in Workers, ConnectRetry(w)
    PROVE  Kept
<1>1. PICK j, r : j = loc[w].job /\ r = AddConnection(j.growing, j.attempt + 1)
  OBVIOUS
<1>2. /\ loc[w].pc = "connect" /\ r \in Retries /\ Left(w, "idle")
      /\ UNCHANGED <<null, connVars, history>>
      /\ self'.delayed = [self.delayed EXCEPT ![r] = self.delayed[r] + 1]
      /\ self'.closed = self.closed /\ self'.nconns = self.nconns
      /\ self'.growing = self.growing /\ self'.event = self.event
      /\ self'.tasks = self.tasks
  BY <1>1, RetryEffect
<1>3. Types /\ RetriesFinite /\ UNCHANGED <<null, leaked, calls>> /\ r.growing = j.growing
  BY <1>1, <1>2 DEF Shape, Books, history, AddConnection, Job
<1>4. /\ RetriesFinite' /\ NRetries' = NRetries + 1
      /\ NGrowRetries' = NGrowRetries + Bit(j.growing)
  BY <1>2, <1>3, RetriesMore DEF Bit
<1>5. /\ NConnecting' = NConnecting - 1 /\ NGrowers' = NGrowers - Bit(j.growing)
  BY <1>2, <1>1, WorkersOne, <1>3, CountTypesNext DEF Left, Moved, Tasks, Connecting, Growers,
     Bit
<1>6. NLive' = NLive
  BY <1>2, LiveSame DEF connVars
<1>7. /\ NLive \in Nat /\ NConnecting \in Nat /\ NGrowers \in Nat /\ NRetries \in Nat
      /\ NGrowRetries \in Nat /\ leaked \in Nat /\ self.nconns \in Int
      /\ AddsIn(self.tasks) \in Nat /\ GrowsIn(self.tasks) \in Nat /\ Bit(j.growing) \in Int
      /\ Bit(self.growing) \in Int
  BY <1>3, CountTypesNext DEF Bit
<1>8. leaked' = leaked /\ AddsIn(self'.tasks) = AddsIn(self.tasks)
      /\ GrowsIn(self'.tasks) = GrowsIn(self.tasks)
  BY <1>2, <1>3
<1>9. Load' = Load /\ Load \in Int
  BY <1>4, <1>5, <1>6, <1>7, <1>8 DEF Load
<1>10. Efforts' = Efforts
  BY <1>4, <1>5, <1>7, <1>8 DEF Efforts
<1>11. /\ Load' - Load = self'.nconns - self.nconns
       /\ Efforts' - Bit(self'.growing) = Efforts - Bit(self.growing)
  BY <1>2, <1>7, <1>9, <1>10
<1> QED
  BY <1>2, <1>3, <1>4, <1>11, EvenKept

\* The last attempt has failed: its slot is free again
LEMMA GiveUpKept ==
    ASSUME Shape, Types', Books, NEW w \in Workers, ConnectGiveUp(w)
    PROVE  Kept
<1>1. PICK j : j = loc[w].job
  OBVIOUS
<1>2. /\ loc[w].pc = "connect" /\ Left(w, "idle")
      /\ UNCHANGED <<null, connVars, history>>
      /\ self'.delayed = self.delayed
      /\ self'.closed = self.closed /\ self'.nconns = self.nconns - 1
      /\ self'.growing = (self.growing /\ ~j.growing) /\ self'.event = self.event
      /\ self'.tasks = self.tasks
  BY <1>1, GiveUpEffect DEF Steady
<1>3. /\ Types /\ RetriesFinite /\ UNCHANGED <<null, leaked, calls>>
      /\ self.growing \in BOOLEAN /\ j.growing \in BOOLEAN
  BY <1>1, <1>2, WorkerFields, AddFields, PoolFields DEF Shape, Books, history, Types
<1>4. /\ RetriesFinite' /\ NRetries' = NRetries /\ NGrowRetries' = NGrowRetries
  BY <1>2, <1>3, RetriesSame
<1>5. /\ NConnecting' = NConnecting - 1 /\ NGrowers' = NGrowers - Bit(j.growing)
      /\ w \in Growers <=> j.growing
  BY <1>2, <1>1, WorkersOne, <1>3, CountTypesNext DEF Left, Moved, Tasks, Connecting, Growers,
     Bit
<1>6. NLive' = NLive
  BY <1>2, LiveSame DEF connVars
<1>7. /\ NLive \in Nat /\ NConnecting \in Nat /\ NGrowers \in Nat /\ NRetries \in Nat
      /\ NGrowRetries \in Nat /\ leaked \in Nat /\ self.nconns \in Int
      /\ AddsIn(self.tasks) \in Nat /\ GrowsIn(self.tasks) \in Nat /\ Bit(j.growing) \in Int
      /\ Bit(self.growing) \in Int
  BY <1>3, CountTypesNext DEF Bit
<1>8. leaked' = leaked /\ AddsIn(self'.tasks) = AddsIn(self.tasks)
      /\ GrowsIn(self'.tasks) = GrowsIn(self.tasks)
  BY <1>2, <1>3
<1>9. Load' = Load - 1 /\ Load \in Int
  BY <1>4, <1>5, <1>6, <1>7, <1>8 DEF Load
<1>10. Efforts' = Efforts - Bit(j.growing) /\ Efforts \in Int
  BY <1>4, <1>5, <1>7, <1>8 DEF Efforts
<1>11. Load' - Load = self'.nconns - self.nconns
  BY <1>2, <1>7, <1>9
<1>12. CASE self.closed
  BY <1>2, <1>7, <1>9, <1>3, <1>4, <1>12 DEF Kept, Books, Awaited
<1>13. CASE ~self.closed
  <2>1. j.growing => self.growing
    BY <1>3, <1>5, <1>13, GrowerMarked
  <2>2. Bit(self'.growing) = Bit(self.growing) - Bit(j.growing)
    <3>1. CASE j.growing
      <4>1. ~self'.growing /\ self.growing
        BY <1>2, <2>1, <3>1
      <4>2. Bit(self'.growing) = 0 /\ Bit(self.growing) = 1 /\ Bit(j.growing) = 1
        BY <3>1, <4>1 DEF Bit
      <4> QED
        BY <4>2
    <3>2. CASE ~j.growing
      <4>1. self'.growing <=> self.growing
        BY <1>2, <3>2
      <4>2. Bit(self'.growing) = Bit(self.growing) /\ Bit(j.growing) = 0 /\ Bit(self.growing) \in Int
        BY <3>2, <4>1 DEF Bit
      <4> QED
        BY <4>2
    <3> QED
      BY <3>1, <3>2
  <2>3. Efforts' - Bit(self'.growing) = Efforts - Bit(self.growing)
    BY <1>7, <1>10, <2>2
  <2>4. self'.growing => self.growing
    BY <1>2
  <2>5. /\ UNCHANGED null /\ calls \subseteq calls' /\ RetriesFinite' /\ Types
    BY <1>3, <1>4
  <2>6. /\ self.closed => self'.closed
        /\ self'.event # "none" => self.event # "none" \/ "wait" \in calls'
    BY <1>2
  <2> QED
    BY <1>11, <2>3, <2>4, <2>5, <2>6, EvenKept
<1> QED
  BY <1>12, <1>13

\* A retry is due
LEMMA TickKept ==
    ASSUME Shape, Types', Books, Tick
    PROVE  Kept
<1>1. PICK r \in Retries :
         /\ self.delayed[r] > 0 /\ UNCHANGED <<null, loc, connVars, history>>
         /\ self'.closed = self.closed /\ self'.event = self.event
         /\ self'.nconns = self.nconns /\ self'.growing = self.growing
         /\ self'.delayed = [self.delayed EXCEPT ![r] = self.delayed[r] - 1]
         /\ self'.tasks = Append(self.tasks, r)
  BY TickEffect DEF Steady
<1>2. /\ Types /\ RetriesFinite /\ UNCHANGED <<null, leaked, calls>>
      /\ r \in Jobs /\ r.kind = "add" /\ r.growing \in BOOLEAN /\ self.tasks \in Seq(Jobs)
  BY <1>1, JobTypes, AddFields, PoolFields DEF Shape, Books, history, Types
<1>3. /\ RetriesFinite' /\ NRetries' = NRetries - 1
      /\ NGrowRetries' = NGrowRetries - Bit(r.growing)
  BY <1>1, <1>2, RetriesLess DEF Bit
<1>4. NConnecting' = NConnecting /\ NGrowers' = NGrowers /\ NLive' = NLive
  BY <1>1, WorkersSame, LiveSame DEF connVars
<1>5. /\ AddsIn(self'.tasks) = AddsIn(self.tasks) + 1
      /\ GrowsIn(self'.tasks) = GrowsIn(self.tasks) + Bit(r.growing)
  BY <1>1, <1>2, TaskQueued DEF Bit
<1>6. /\ NLive \in Nat /\ NConnecting \in Nat /\ NGrowers \in Nat /\ NRetries \in Nat
      /\ NGrowRetries \in Nat /\ leaked \in Nat /\ self.nconns \in Int
      /\ AddsIn(self.tasks) \in Nat /\ GrowsIn(self.tasks) \in Nat /\ Bit(r.growing) \in Int
      /\ Bit(self.growing) \in Int
  BY <1>2, CountTypesNext DEF Bit
<1>7. leaked' = leaked
  BY <1>2
<1>8. Load' = Load /\ Load \in Int
  BY <1>3, <1>4, <1>5, <1>6, <1>7 DEF Load
<1>9. Efforts' = Efforts
  BY <1>3, <1>4, <1>5, <1>6 DEF Efforts
<1>10. /\ Load' - Load = self'.nconns - self.nconns
       /\ Efforts' - Bit(self'.growing) = Efforts - Bit(self.growing)
  BY <1>1, <1>6, <1>8, <1>9
<1> QED
  BY <1>1, <1>2, <1>3, <1>10, EvenKept

\* The worker takes the shrink task
LEMMA ShrinkKept ==
    ASSUME Shape, Types', Owned, Books, NEW w \in Workers, Shrink(w)
    PROVE  Kept
<1> DEFINE j == Head(self.tasks)
           k == Head(self.pool)
<1>1. /\ self.tasks # <<>> /\ j.kind = "shrink" /\ ~self.closed /\ Types
      /\ UNCHANGED <<null, loc, leaked, calls>> /\ RetriesFinite
      /\ self'.closed = self.closed /\ self'.growing = self.growing
      /\ self'.event = self.event
      /\ self'.tasks = Tail(self.tasks) /\ self'.delayed = self.delayed
      /\ \/ /\ self.pool # <<>> /\ self'.nconns = self.nconns - 1
            /\ k \in Conns /\ Becomes(k, "absent")
         \/ self'.nconns = self.nconns /\ UNCHANGED connVars
  BY ShrinkEffect DEF Steady, history, Shape, Books
<1>2. self.pool # <<>> => k \in Elements(self.pool)
  BY <1>1, PoolFields DEF Types, Elements
<1>3. self.pool # <<>> => status[k] # "absent"
  BY <1>2 DEF Owned, OwnedIn, Live
<1>4. /\ RetriesFinite' /\ NRetries' = NRetries /\ NGrowRetries' = NGrowRetries
      /\ AddsIn(self'.tasks) = AddsIn(self.tasks) - Bit(j.kind = "add")
      /\ GrowsIn(self'.tasks) = GrowsIn(self.tasks) - Bit(j.growing)
      /\ j \in Jobs
  BY <1>1, TakenCounts
<1> HIDE DEF j, k
<1>5. Bit(j.kind = "add") = 0 /\ Bit(j.growing) = 0
  BY <1>1, <1>4, JobFields DEF Bit
<1>6. NConnecting' = NConnecting /\ NGrowers' = NGrowers
  BY <1>1, WorkersSame
<1>7. NLive' - NLive = self'.nconns - self.nconns
  <2>1. NLive \in Nat /\ self.nconns \in Int
    BY <1>1, CountTypesNext
  <2>2. CASE self'.nconns = self.nconns /\ UNCHANGED connVars
    BY <2>1, <2>2, LiveSame DEF connVars
  <2>3. CASE /\ self.pool # <<>> /\ self'.nconns = self.nconns - 1
             /\ k \in Conns /\ Becomes(k, "absent")
    BY <1>1, <2>3, LiveOne, <1>3, <2>1
  <2> QED
    BY <1>1, <2>2, <2>3
<1>8. /\ Load' - Load = self'.nconns - self.nconns /\ Efforts' = Efforts
  <2>1. /\ NLive \in Nat /\ NConnecting \in Nat /\ NGrowers \in Nat /\ NRetries \in Nat
        /\ NGrowRetries \in Nat /\ leaked \in Nat /\ self.nconns \in Int
        /\ AddsIn(self.tasks) \in Nat /\ GrowsIn(self.tasks) \in Nat
    BY <1>1, CountTypesNext
  <2>2. NLive' \in Nat /\ self'.nconns \in Int
    BY <1>4, NumbersNext
  <2>3. /\ Load' = Load + (NLive' - NLive) + (NRetries' - NRetries)
                   + (AddsIn(self'.tasks) - AddsIn(self.tasks))
                   + (NConnecting' - NConnecting) + (leaked' - leaked)
        /\ Efforts' = Efforts + (NGrowRetries' - NGrowRetries) + (NGrowers' - NGrowers)
                      + (GrowsIn(self'.tasks) - GrowsIn(self.tasks))
        /\ Load \in Nat /\ Efforts \in Nat
    BY <1>1, <1>4, Sums
  <2>4. leaked' = leaked
    BY <1>1
  <2>5. Load' = Load + (NLive' - NLive)
    BY <1>4, <1>5, <1>6, <2>1, <2>2, <2>3, <2>4
  <2>6. Efforts' = Efforts
    BY <1>4, <1>5, <1>6, <2>1, <2>3
  <2>7. Load' - Load = NLive' - NLive
    BY <2>1, <2>2, <2>3, <2>5
  <2> QED
    BY <1>7, <2>6, <2>7
<1>9. Efforts' - Bit(self'.growing) = Efforts - Bit(self.growing)
  BY <1>1, <1>8
<1>10. /\ UNCHANGED null /\ calls \subseteq calls' /\ RetriesFinite' /\ Types
       /\ self'.growing => self.growing
       /\ self.closed => self'.closed
       /\ self'.event # "none" => self.event # "none" \/ "wait" \in calls'
  BY <1>1, <1>4
<1> QED
  BY <1>8, <1>9, <1>10, EvenKept

\* The shrink task is due
LEMMA TickShrinkKept ==
    ASSUME Shape, Types', Books, TickShrink
    PROVE  Kept
<1>1. PICK j : j = ShrinkPool
  OBVIOUS
<1>2. /\ UNCHANGED <<null, loc, status, leaked, calls>> /\ Types
      /\ self'.closed = self.closed /\ self'.nconns = self.nconns
      /\ self'.growing = self.growing /\ self'.event = self.event
      /\ self'.delayed = self.delayed /\ self'.tasks = Append(self.tasks, j)
  BY <1>1, TickShrinkEffect DEF Steady, history, connVars, Shape
<1>3. self.tasks \in Seq(Jobs) /\ j \in Jobs /\ j.kind = "shrink" /\ ~j.growing
      /\ self.nconns \in Int
  BY <1>1, <1>2, PoolFields, JobTypes, NewFields DEF Types
<1>4. AddsIn(self.tasks) \in Nat /\ GrowsIn(self.tasks) \in Nat
  BY <1>3, IndicesFinite DEF AddsIn, GrowsIn
<1>5. /\ AddsIn(self'.tasks) = AddsIn(self.tasks)
      /\ GrowsIn(self'.tasks) = GrowsIn(self.tasks)
  BY <1>3, TaskQueued, <1>2, <1>4
<1>6. self'.nconns - self.nconns = AddsIn(self'.tasks) - AddsIn(self.tasks)
  BY <1>2, <1>3, <1>4, <1>5
<1>7. Calm
  BY <1>2, <1>5, <1>6 DEF Calm
<1> QED
  BY <1>2, <1>7, CalmKept

\* The worker takes the task of returning a connection
LEMMA WorkerReturnKept ==
    ASSUME Shape, Types', Owned, Books, NEW w \in Workers, WorkerReturn(w)
    PROVE  Kept
<1>1. PICK c, s, n, g : /\ c = Head(self.tasks).conn /\ s = Taken /\ n = "idle"
                        /\ g = FALSE
  OBVIOUS
<1>2. /\ self.tasks # <<>> /\ Head(self.tasks).kind = "return" /\ loc[w].pc = "idle"
      /\ UNCHANGED <<null, leaked, calls>> /\ Types
  BY DEF WorkerReturn, Take, history, Shape
<1>3. TasksOpen
  BY <1>2, OwnedTasks
<1>4. status[c] # "absent"
  BY <1>1, <1>2, <1>3, HeadOpen
<1>5. Passing(w, c, n, s) /\ status[c] \in LiveStatus /\ ReturnForms(w, c, n, status[c], s)
  BY <1>1, <1>4, WorkerReturnEffect
<1>6. SameBooks(s)
  <2> DEFINE J == self.tasks
             h == Head(J)
  <2>1. /\ s \in Pools /\ s.tasks = Tail(J) /\ h \in Jobs /\ J \in Seq(Jobs)
        /\ s.nconns = self.nconns /\ s.growing = self.growing /\ s.closed = self.closed
        /\ s.delayed = self.delayed /\ s.event = self.event /\ s.lock = self.lock
    BY <1>1, <1>2, TakenFields, PoolFields DEF Types
  <2>2. h.kind # "add" /\ ~h.growing
    BY <1>2, <2>1, JobFields
  <2>3. AddsIn(J) \in Nat /\ GrowsIn(J) \in Nat
    BY <2>1, IndicesFinite DEF AddsIn, GrowsIn
  <2>4. /\ AddsIn(Tail(J)) = AddsIn(J) - (IF h.kind = "add" THEN 1 ELSE 0)
        /\ GrowsIn(Tail(J)) = GrowsIn(J) - (IF h.growing THEN 1 ELSE 0)
    BY <1>2, <2>1, TaskTaken
  <2>5. AddsIn(s.tasks) = AddsIn(J) /\ GrowsIn(s.tasks) = GrowsIn(J)
    BY <2>1, <2>2, <2>3, <2>4
  <2> QED
    BY <2>1, <2>5 DEF SameBooks
<1>7. Carried(w, c, n, s, g)
  BY <1>1, <1>2, <1>4, <1>5, <1>6 DEF Carried
<1>8. PICK st \in LiveStatus : st = status[c]
  BY <1>5
<1>9. ReturnForms(w, c, n, st, s)
  BY <1>5, <1>8
<1> QED
  BY <1>1, <1>7, <1>9, ReturnKept

\* The worker has connected
LEMMA ConnectedKept ==
    ASSUME Shape, Types', Owned, Books, NEW w \in Workers, NEW k \in Conns, Connected(w, k)
    PROVE  Kept
BY ConnectedEffect, AddKept DEF Connected, history, SameBooks, Passing, Carried, Connecting

\* A worker works
LEMMA WorkerKept ==
    ASSUME Shape, Types', Owned, Books, NEW w \in Workers, WorkerStep(w)
    PROVE  Kept
  BY TakeKept, ShrinkKept, WorkerReturnKept, ConnectedKept, RetryKept, GiveUpKept
     DEF WorkerStep

\* A task goes on, after the reset or with the lock
LEMMA TaskKept ==
    ASSUME Shape, Types', Owned, Books, NEW t \in Tasks, Reset(t) \/ AddLocked(t)
    PROVE  Kept
BY ResetEffect, AddLockedEffect, HandCarried, ReturnKept, AddKept DEF Reset, AddLocked,
   history, LiveStatus

\* A caller goes on, or stops
LEMMA GoesOnKept ==
    ASSUME Shape, Types', Books, NEW a \in Callers,
           FailWaiting(a) \/ CloseCancelled(a) \/ CheckNext(a) \/ WaitDone(a)
    PROVE  Kept
<1>1. a \in Tasks /\ a \notin Workers /\ a \notin Clients /\ Types
  BY CallerFields
<1>2. \A w \in Workers : w \in Tasks /\ w # a /\ w \notin Clients
  BY <1>1, WorkerFields
<1>3. CASE FailWaiting(a)
  BY <1>3, FailEffect, <1>2, <1>1, StillCalm, CalmKept DEF history
<1>4. CASE CloseCancelled(a)
  BY <1>4, <1>1, <1>2, StillCalm, CalmKept DEF CloseCancelled, Types
<1>5. CASE CheckNext(a)
  BY <1>5, CheckNextEffect, <1>1, MovedCalm, StillCalm, CalmKept DEF history
<1>6. CASE WaitDone(a)
  BY <1>6, WaitDoneEffect, <1>1, MovedCalm, StillCalm, CalmKept DEF history
<1> QED
  BY <1>3, <1>4, <1>5, <1>6

\* A connection that was checked is replaced, or goes back
LEMMA CheckedKept ==
    ASSUME Shape, Types', Owned, Books, NEW a \in Callers, Checked(a)
    PROVE  Kept
BY CheckedEffect, HandCarried, ReturnKept, AddKept DEF Checked, history, LiveStatus,
   ReturnForms

\* check() takes the connections, and the pool may grow
LEMMA CheckKept ==
    ASSUME Shape, Types', Books, NEW a \in Callers, Check(a)
    PROVE  Kept
<1>1. a \in Tasks /\ a \notin Workers /\ Types /\ self.nconns \in Int
  BY CallerFields, PoolFields DEF Types
<1>2. /\ UNCHANGED <<null, connVars, leaked>> /\ ~null /\ calls \subseteq calls'
      /\ self'.closed = self.closed /\ self'.event = self.event
      /\ self'.delayed = self.delayed
      /\ \/ /\ self'.nconns = self.nconns /\ self'.growing = self.growing
            /\ self'.tasks = self.tasks
         \/ /\ ~self.growing /\ self'.nconns = self.nconns + 1 /\ self'.growing
            /\ self'.tasks = Append(self.tasks, AddConnection(TRUE, 0))
      /\ Moved(a, "checking", loc[a].conn, loc[a].next, Contents(self.pool), loc[a].job)
  BY CheckEffect DEF Calling, Steady
<1>3. \A w \in Workers : loc'[w].pc = loc[w].pc /\ loc'[w].job = loc[w].job
  BY <1>1, <1>2, MovedCalm
<1>4. CASE /\ self'.nconns = self.nconns /\ self'.growing = self.growing
           /\ self'.tasks = self.tasks
  BY <1>1, <1>2, <1>3, <1>4, StillCalm, CalmKept
<1>5. CASE /\ ~self.growing /\ self'.nconns = self.nconns + 1 /\ self'.growing
           /\ self'.tasks = Append(self.tasks, AddConnection(TRUE, 0))
  <2>1. /\ AddsIn(self'.tasks) - AddsIn(self.tasks) = 1
        /\ GrowsIn(self'.tasks) = GrowsIn(self.tasks) + 1
    BY <1>1, <1>5, GrowCalm
  <2>2. self'.nconns - self.nconns = AddsIn(self'.tasks) - AddsIn(self.tasks)
    <3>1. self'.nconns = self.nconns + 1
      BY <1>5
    <3> QED
      BY <1>1, <2>1, <3>1
  <2>3. \A c \in Conns : status'[c] = "absent" <=> status[c] = "absent"
    BY <1>2 DEF connVars
  <2>4. Calm
    BY <1>2, <1>3, <1>5, <2>1, <2>2, <2>3 DEF Calm
  <2> QED
    BY <1>1, <2>4, CalmKept
<1> QED
  BY <1>2, <1>4, <1>5

\* wait() of a null pool asks for a connection that is not counted
LEMMA WaitKept ==
    ASSUME Shape, Types', Books, NEW a \in Callers, Wait(a)
    PROVE  Kept
<1>1. a \in Tasks /\ a \notin Workers /\ Types /\ self.nconns \in Int
      /\ self.tasks \in Seq(Jobs)
  BY CallerFields, PoolFields DEF Types
<1>2. /\ UNCHANGED <<null, connVars, leaked>> /\ calls \subseteq calls' /\ "wait" \in calls'
      /\ self'.closed = self.closed /\ self'.nconns = self.nconns
      /\ self'.growing = self.growing /\ self'.delayed = self.delayed
      /\ self'.tasks = self.tasks \/ (null /\ self'.tasks = Append(self.tasks, NewConnection))
      /\ \/ UNCHANGED loc
         \/ Moved(a, "full", loc[a].conn, loc[a].next, loc[a].out, loc[a].job)
  BY WaitEffect DEF Calling
<1>3. \A w \in Workers : loc'[w].pc = loc[w].pc /\ loc'[w].job = loc[w].job
  BY <1>1, <1>2, MovedCalm
<1>4. \A c \in Conns : status'[c] = "absent" <=> status[c] = "absent"
  BY <1>2 DEF connVars
<1>5. CASE self'.tasks = self.tasks
  BY <1>1, <1>2, <1>5, SameTasksCalm, <1>3, <1>4, CalmKept DEF Calm
<1>6. CASE null /\ self'.tasks = Append(self.tasks, NewConnection)
  <2>1. PICK j : j = NewConnection
    OBVIOUS
  <2>2. j \in Jobs /\ ~j.growing /\ self'.tasks = Append(self.tasks, j)
    BY <1>6, <2>1, JobTypes, NewFields
  <2>3. GrowsIn(self.tasks) \in Nat
    BY <1>1, IndicesFinite DEF GrowsIn
  <2>4. GrowsIn(self'.tasks) = GrowsIn(self.tasks)
    BY <1>1, <2>2, TaskQueued, <2>3
  <2>5. Calm
    BY <1>2, <1>3, <1>4, <1>6, <2>4 DEF Calm
  <2> QED
    BY <1>1, <2>5, CalmKept
<1> QED
  BY <1>2, <1>5, <1>6

\* resize() asks for the connections that it counts
LEMMA ResizeKept ==
    ASSUME Shape, Types', Books, NEW a \in Callers, NEW size \in NewSizes, Resize(a, size)
    PROVE  Kept
<1>1. Types /\ self.nconns \in Int /\ self.tasks \in Seq(Jobs)
  BY CallerFields, PoolFields DEF Types
<1>2. PICK j : j = NewConnection
  OBVIOUS
<1>3. /\ UNCHANGED <<null, loc, connVars, leaked>> /\ calls \subseteq calls'
      /\ self'.closed = self.closed /\ self'.event = self.event
      /\ self'.growing = self.growing /\ self'.delayed = self.delayed
  BY ResizeEffect DEF Calling
<1>4. PICK more \in Nat : /\ self'.nconns = self.nconns + more
                          /\ self'.tasks = self.tasks \o Copies(more, j)
  BY <1>2, ResizeEffect
<1>5. j \in Jobs /\ ~j.growing /\ j.kind = "add"
  BY <1>2, JobTypes, NewFields
<1>6. AddsIn(self.tasks) \in Nat /\ GrowsIn(self.tasks) \in Nat
  BY <1>1, IndicesFinite DEF AddsIn, GrowsIn
<1>7. AddsIn(self'.tasks) = AddsIn(self.tasks) + more /\ GrowsIn(self'.tasks) = GrowsIn(self.tasks)
  BY <1>1, <1>5, TasksQueued, <1>4
<1>8. self'.nconns - self.nconns = AddsIn(self'.tasks) - AddsIn(self.tasks)
  BY <1>1, <1>4, <1>6, <1>7
<1>9. \A c \in Conns : status'[c] = "absent" <=> status[c] = "absent"
  BY <1>3 DEF connVars
<1>10. Calm
  BY <1>3, <1>7, <1>8, <1>9 DEF Calm
<1> QED
  BY <1>1, <1>10, CalmKept

\* The connections of the pool are closed
LEMMA PoolClosed ==
    ASSUME Types, Owned,
           status' = [c \in Conns |-> IF c \in Contents(self.pool) THEN "absent" ELSE status[c]]
    PROVE  NLive' = NLive - Len(self.pool) /\ Len(self.pool) \in Nat
<1> DEFINE P == Elements(self.pool)
           S == Live \ P
<1>1. self.pool \in Seq(Conns) /\ Distinct(self.pool) /\ P \subseteq Live
  BY PoolFields DEF Types, Owned, OwnedIn
<1>2. Counts(P, Len(self.pool)) /\ Len(self.pool) \in Nat
  BY <1>1, ElementsCount
<1>3. IsFiniteSet(Live) /\ IsFiniteSet(S) /\ IsFiniteSet(P)
  BY <1>2, FS_Subset, AsyncAssumption DEF Live, AsyncAssumption, Counts
<1>4. Live' = S
  BY DEF Live, Contents, Elements
<1>5. S \cap P = {} /\ S \cup P = Live
  BY <1>1
<1>6. Cardinality(Live) = Cardinality(S) + Cardinality(P)
  <2> HIDE DEF S, P
  <2>1. Counts(S \cup P, Cardinality(S) + Cardinality(P))
    BY <1>3, <1>5, AddMany
  <2> QED
    BY <1>5, <2>1 DEF Counts
<1>7. Cardinality(S) \in Nat /\ Cardinality(P) = Len(self.pool)
  BY <1>2, <1>3, FS_CardinalityType DEF Counts
<1> QED
  BY <1>2, <1>4, <1>6, <1>7 DEF NLive

\* The sums, when the workers and the retries stay as they are
LEMMA RestSums ==
    ASSUME Types, Types', Books, leaked' = leaked, self'.delayed = self.delayed,
           \A w \in Workers : loc'[w].pc = loc[w].pc /\ loc'[w].job = loc[w].job
    PROVE  /\ RetriesFinite'
           /\ Load' = Load + (NLive' - NLive) + (AddsIn(self'.tasks) - AddsIn(self.tasks))
           /\ Efforts' = Efforts + (GrowsIn(self'.tasks) - GrowsIn(self.tasks))
           /\ NLive \in Nat /\ NLive' \in Nat
           /\ AddsIn(self.tasks) \in Nat /\ GrowsIn(self.tasks) \in Nat
BY RetriesSame, WorkersSame, CountTypesNext, NumbersNext, Sums DEF Books

\* drain() replaces the connections it closes
LEMMA DrainKept ==
    ASSUME Shape, Types', Owned, Books, NEW a \in Callers, Drain(a)
    PROVE  Kept
<1>1. PICK j, n : j = NewConnection /\ n = Len(self.pool)
  OBVIOUS
<1>2. /\ UNCHANGED <<null, loc, leaked>> /\ calls \subseteq calls'
      /\ self'.closed = self.closed /\ self'.event = self.event
      /\ self'.nconns = self.nconns
      /\ self'.growing = self.growing /\ self'.delayed = self.delayed
      /\ self'.tasks = self.tasks \o Copies(n, j)
      /\ status' = [c \in Conns |-> IF c \in Contents(self.pool) THEN "absent" ELSE status[c]]
  BY <1>1, DrainEffect DEF Calling, Steady
<1>3. Types /\ self.tasks \in Seq(Jobs) /\ self.nconns \in Int
  BY CallerFields, PoolFields DEF Types
<1>4. NLive' = NLive - n /\ n \in Nat
  BY <1>1, <1>2, <1>3, PoolClosed
<1>5. j \in Jobs /\ ~j.growing /\ j.kind = "add"
  BY <1>1, JobTypes, NewFields
<1>6. AddsIn(self'.tasks) = AddsIn(self.tasks) + n /\ GrowsIn(self'.tasks) = GrowsIn(self.tasks)
  BY <1>3, <1>4, <1>5, TasksQueued, <1>2
<1>7. \A w \in Workers : loc'[w].pc = loc[w].pc /\ loc'[w].job = loc[w].job
  BY <1>2
<1>8. /\ RetriesFinite'
      /\ Load' = Load + (NLive' - NLive) + (AddsIn(self'.tasks) - AddsIn(self.tasks))
      /\ Efforts' = Efforts + (GrowsIn(self'.tasks) - GrowsIn(self.tasks))
      /\ NLive \in Nat /\ NLive' \in Nat
      /\ AddsIn(self.tasks) \in Nat /\ GrowsIn(self.tasks) \in Nat
  BY <1>2, <1>3, <1>7, RestSums
<1>9. Load \in Nat /\ Efforts \in Nat
  BY <1>3, SumTypes DEF Books
<1>10. Load' = Load /\ Efforts' = Efforts
  BY <1>4, <1>6, <1>8, <1>9
<1>11. Load' - Load = self'.nconns - self.nconns
  BY <1>2, <1>3, <1>9, <1>10
<1>12. Efforts' - Bit(self'.growing) = Efforts - Bit(self.growing)
  BY <1>2, <1>10
<1>13. /\ self.closed => self'.closed
       /\ self'.event # "none" => self.event # "none" \/ "wait" \in calls'
       /\ self'.growing => self.growing
  BY <1>2
<1> QED
  BY <1>2, <1>3, <1>8, <1>11, <1>12, <1>13, EvenKept

\* close() closes the connections of the pool
LEMMA CloseKept ==
    ASSUME Shape, Types', Owned, Books, NEW a \in Callers, ClosePool(a)
    PROVE  Kept
<1>1. PICK j, n : j = StopWorker /\ n = Cardinality(Workers)
  OBVIOUS
<1>2. /\ UNCHANGED <<null, leaked>> /\ calls \subseteq calls'
      /\ self'.closed /\ self'.event = self.event /\ self'.nconns = self.nconns
      /\ self'.delayed = self.delayed
      /\ self'.tasks = self.tasks \o Copies(n, j)
      /\ status' = [c \in Conns |-> IF c \in Contents(self.pool) THEN "absent" ELSE status[c]]
      /\ \E p, c, m, o, k : Moved(a, p, c, m, o, k)
  BY <1>1, CloseEffect DEF Steady, Close
<1>3. /\ Types /\ self.tasks \in Seq(Jobs) /\ self.nconns \in Int
      /\ a \in Tasks /\ a \notin Workers
  BY CallerFields, PoolFields DEF Types
<1>4. NLive' = NLive - Len(self.pool) /\ Len(self.pool) \in Nat
  BY <1>2, <1>3, PoolClosed
<1>5. j \in Jobs /\ ~j.growing /\ j.kind = "stop" /\ n \in Nat
  BY <1>1, JobTypes, NewFields, FS_CardinalityType, AsyncAssumption DEF AsyncAssumption
<1>6. AddsIn(self'.tasks) = AddsIn(self.tasks)
  BY <1>3, <1>5, TasksQueued, IndicesFinite, <1>2 DEF AddsIn
<1>7. \A w \in Workers : loc'[w].pc = loc[w].pc /\ loc'[w].job = loc[w].job
  BY <1>2, <1>3, MovedCalm
<1>8. /\ RetriesFinite'
      /\ Load' = Load + (NLive' - NLive) + (AddsIn(self'.tasks) - AddsIn(self.tasks))
      /\ NLive \in Nat /\ NLive' \in Nat /\ AddsIn(self.tasks) \in Nat
  BY <1>2, <1>3, <1>7, RestSums
<1>9. Load \in Nat
  BY <1>3, SumTypes DEF Books
<1>10. Load' <= Load /\ Load' \in Int
  BY <1>4, <1>6, <1>8, <1>9
<1>11. Load' - self'.nconns <= Load - self.nconns
  BY <1>2, <1>3, <1>9, <1>10
<1>12. Awaited'
  BY <1>2 DEF Books, Awaited
<1> QED
  BY <1>2, <1>8, <1>11, <1>12 DEF Kept

\* A caller's step
LEMMA CallerKept ==
    ASSUME Shape, Types', Owned, Books, NEW a \in Callers,
           CallerStep(a) \/ Call(a) \/ CloseCancelled(a)
    PROVE  Kept
  BY GoesOnKept, CheckedKept, CheckKept, WaitKept, ResizeKept, DrainKept, CloseKept
     DEF CallerStep, Call

\* The server closes a connection, that still counts
LEMMA BreakKept ==
    ASSUME Shape, Types', Books, Break
    PROVE  Kept
BY SameTasksCalm, CalmKept DEF Break, history, Shape, Types, Calm

\* Every step enters in the books what it does
LEMMA NextKept ==
    ASSUME Shape, Types', Owned, Books, Next
    PROVE  Kept
BY ClientKept, CallerKept, TaskKept, WorkerKept, TickKept, TickShrinkKept, BreakKept DEF Next

\* The books of a pool just opened are right
LEMMA InitBooks ==
    ASSUME Init
    PROVE  Books
<1> DEFINE n == IF null THEN 0 ELSE MinSize
<1>1. Types
  BY InitTypes
<1>2. /\ self.delayed = [r \in Retries |-> 0] /\ self.nconns = n /\ self.event = "none"
      /\ self.growing = FALSE /\ self.tasks = InitialTasks(null)
  BY DEF Init, Opened
<1>3. n \in Nat
  BY AsyncAssumption DEF AsyncAssumption
<1>4. RetriesFinite /\ NRetries = 0 /\ NGrowRetries = 0
  BY <1>2, StockEmpty, FS_EmptySet DEF GrowRetries, RetriesFinite, NRetries, NGrowRetries
<1>5. NLive = 0 /\ NConnecting = 0 /\ NGrowers = 0
  BY FS_EmptySet DEF Init, At, Tasks, Live, Connecting, Growers, NLive, NConnecting, NGrowers
<1>6. AddsIn(self.tasks) = n /\ GrowsIn(self.tasks) = 0
  <2>1. PICK j : j = NewConnection
    OBVIOUS
  <2>2. j.kind = "add" /\ ~j.growing /\ j \in Jobs
    BY <2>1, JobTypes, NewFields
  <2>3. self.tasks = Copies(n, j)
    <3>1. Copies(0, j) = <<>>
      BY DEF Copies
    <3> QED
      BY <1>2, <2>1, <3>1 DEF InitialTasks
  <2>4. j \in AddJobs /\ j \notin GrowJobs
    BY <2>2, JobKinds
  <2> HIDE DEF n
  <2>5. \A S : Cardinality(Indices(Copies(n, j), S)) = IF j \in S THEN n ELSE 0
    BY <1>3, IndicesCopies DEF Copies
  <2> QED
    BY <2>3, <2>4, <2>5 DEF AddsIn, GrowsIn
<1>7. leaked = 0
  BY DEF Init
<1> HIDE DEF n
<1>8. Load = self.nconns /\ Efforts = 0
  BY <1>2, <1>3, <1>4, <1>5, <1>6, <1>7 DEF Load, Efforts
<1>9. Load <= self.nconns
  BY <1>2, <1>3, <1>8
<1> QED
  BY <1>2, <1>4, <1>8, <1>9 DEF Books, Awaited, Balanced, GrowsOnce

\* What a pool counts is what it has and what it is making, cancelled tasks included; a
\* pool that is marked growing, and no other, has one growing attempt under way
THEOREM BooksCorrect == Spec => []Books
<1>1. Init => Books
  BY InitBooks
<1>2. (Shape /\ Owned) /\ Books /\ [Next]_vars => Books'
  <2> SUFFICES ASSUME Shape, Owned, Books, [Next]_vars PROVE Books'
    OBVIOUS
  <2>1. CASE Next
    BY OwnedTasks, <2>1, NextShape, NextKept, KeptBooks DEF Shape
  <2>2. CASE UNCHANGED vars
    BY <2>2 DEF vars, connVars, history, Load, Efforts, RetriesFinite, NLive, Live, NRetries,
       NGrowRetries, NConnecting, Connecting, NGrowers, Growers, Books, Awaited, Balanced,
       GrowsOnce
  <2> QED
    BY <2>1, <2>2
<1> QED
  BY <1>1, <1>2, OwnersCorrect, PTL DEF Spec

-----------------------------------------------------------------------------
(* The books are what _nconns and _growing say *)

\* The tasks with a connection, and the connections taken out by callers
Holders == {t \in Tasks : loc[t].conn # NoConn}
Outs == Piles(Lists, Callers)
Queuing == {i \in DOMAIN self.tasks : self.tasks[i].conn # NoConn}

\* Every open connection is in the pool, with a task that is queued, in the hands of one
\* that runs, or taken out
LEMMA LivePlaces ==
    ASSUME Shape, Owned
    PROVE  /\ NLive = Len(self.pool) + Cardinality(Queuing) + Cardinality(Holders)
                      + Cardinality(Outs)
           /\ Len(self.pool) \in Nat /\ Cardinality(Queuing) \in Nat
           /\ Cardinality(Holders) \in Nat /\ Cardinality(Outs) \in Nat
           /\ IsFiniteSet(Queuing)
<1> DEFINE P == Elements(self.pool)
           J == Images(TaskConns(self.tasks), NoConn)
           H == Images(Hand, NoConn)
           V == {c \in Conns : \E a \in Callers : c \in Lists[a]}
<1>1. /\ self.pool \in Seq(Conns) /\ Distinct(self.pool)
      /\ OneEach(TaskConns(self.tasks), NoConn) /\ OneEach(Hand, NoConn)
  BY PoolFields DEF Shape, Types, Owned, OwnedIn
<1>2. /\ DOMAIN Lists = Tasks /\ Callers \subseteq Tasks
      /\ \A t \in Tasks : Lists[t] \subseteq Conns
      /\ \A t \in Tasks : t \notin Callers => Lists[t] = {}
  BY DEF Shape, Placed, Fits, Lists, Tasks
<1>3. /\ P \cap J = {} /\ (P \cup J) \cap H = {} /\ ((P \cup J) \cup H) \cap V = {}
      /\ ((P \cup J) \cup H) \cup V = Live
  <2>1. \A c : (\E t \in DOMAIN Lists : c \in Lists[t]) <=> c \in V
    BY <1>2
  <2> HIDE DEF P, J, H, V
  <2>2. /\ \A c \in P : c \notin J /\ c \notin H /\ ~ \E t \in DOMAIN Lists : c \in Lists[t]
        /\ \A c \in J : c \notin H /\ ~ \E t \in DOMAIN Lists : c \in Lists[t]
        /\ \A c \in H : ~ \E t \in DOMAIN Lists : c \in Lists[t]
        /\ \A c : c \in Live <=> \/ c \in P \/ c \in J \/ c \in H
                                 \/ \E t \in DOMAIN Lists : c \in Lists[t]
    BY DEF Owned, OwnedIn, P, J, H
  <2> QED
    BY <2>1, <2>2
<1>4. IsFiniteSet(P) /\ IsFiniteSet(J) /\ IsFiniteSet(H) /\ IsFiniteSet(V)
  BY <1>3, FS_Subset, AsyncAssumption DEF Live, AsyncAssumption
<1>5. Counts(P, Len(self.pool))
  BY <1>1, ElementsCount
<1>6. Counts(Queuing, Cardinality(J))
  BY <1>1, <1>4, ImagesCount DEF Queuing, TaskConns
<1>7. Counts(Holders, Cardinality(H))
  BY <1>1, <1>4, ImagesCount DEF Holders, Hand
<1>8. Counts(Outs, Cardinality(V))
  <2>1. \A v : v \in V <=> \E d \in Callers : v \in Lists[d]
    BY <1>2
  <2>2. \A d, e \in Callers : \A v : v \in Lists[d] /\ v \in Lists[e] => d = e
    BY <1>2 DEF Owned, OwnedIn
  <2>3. PICK W : W = V
    OBVIOUS
  <2>4. Counts(Piles(Lists, Callers), Cardinality(W))
    <3> HIDE DEF V
    <3>1. IsFiniteSet(W) /\ \A v : v \in W <=> \E d \in Callers : v \in Lists[d]
      BY <1>4, <2>1, <2>3
    <3> QED
      BY <2>2, <3>1, PilesCount
  <2> QED
    BY <2>3, <2>4 DEF Outs
<1> HIDE DEF P, J, H, V
<1>9. /\ Counts(P \cup J, Cardinality(P) + Cardinality(J))
      /\ Counts((P \cup J) \cup H, Cardinality(P \cup J) + Cardinality(H))
      /\ Counts(((P \cup J) \cup H) \cup V, Cardinality((P \cup J) \cup H) + Cardinality(V))
  BY <1>3, <1>4, AddMany DEF Counts
<1>10. /\ Cardinality(P) = Len(self.pool) /\ Len(self.pool) \in Nat
       /\ Cardinality(J) = Cardinality(Queuing) /\ Cardinality(J) \in Nat
       /\ Cardinality(H) = Cardinality(Holders) /\ Cardinality(H) \in Nat
       /\ Cardinality(V) = Cardinality(Outs) /\ Cardinality(V) \in Nat
       /\ IsFiniteSet(Queuing)
  BY <1>1, <1>4, <1>5, <1>6, <1>7, <1>8, FS_CardinalityType DEF Counts
<1>11. Cardinality(Live) = Cardinality(P) + Cardinality(J) + Cardinality(H) + Cardinality(V)
  BY <1>3, <1>9, <1>10 DEF Counts
<1> QED
  BY <1>10, <1>11 DEF NLive

\* The slots are the load, but for the connections that were dropped
LEMMA SlotsLoad ==
    ASSUME Shape, Owned, Books
    PROVE  Slots + leaked = Load
<1> DEFINE A == Indices(self.tasks, AddJobs)
           I == {i \in DOMAIN self.tasks : self.tasks[i].kind \in {"add", "return"}}
<1>1. self.tasks \in Seq(Jobs) /\ Types /\ RetriesFinite
  BY PoolFields DEF Shape, Types, Books
<1>2. \A i \in DOMAIN self.tasks :
         /\ self.tasks[i] \in AddJobs <=> self.tasks[i].kind = "add"
         /\ self.tasks[i].conn # NoConn <=> self.tasks[i].kind = "return"
  BY <1>1, AsyncAssumption, JobKinds, JobFields DEF AsyncAssumption
<1>3. A \cup Queuing = I /\ A \cap Queuing = {}
  BY <1>2 DEF Indices, Queuing
<1>4. IsFiniteSet(A) /\ Cardinality(A) \in Nat /\ Cardinality(A) = AddsIn(self.tasks)
  BY <1>1, IndicesFinite DEF AddsIn
<1>5. /\ NLive = Len(self.pool) + Cardinality(Queuing) + Cardinality(Holders)
                 + Cardinality(Outs)
      /\ Len(self.pool) \in Nat /\ Cardinality(Queuing) \in Nat
      /\ Cardinality(Holders) \in Nat /\ Cardinality(Outs) \in Nat
      /\ IsFiniteSet(Queuing)
  BY LivePlaces
<1> HIDE DEF A
<1>6. Cardinality(I) = AddsIn(self.tasks) + Cardinality(Queuing)
  BY <1>3, <1>4, <1>5, AddMany DEF Counts
<1>7. UNION {{a} \X (loc[a].out \cap Conns) : a \in Callers} = Outs
  BY DEF Outs, Piles, Lists, Tasks
<1>8. UNION {{r} \X (1..self.delayed[r]) : r \in Retries} = Stock(self.delayed, Retries)
  BY DEF Stock
<1> HIDE DEF I
<1>9. Slots = Len(self.pool) + Cardinality(I) + NRetries + Cardinality(Holders)
              + NConnecting + Cardinality(Outs)
  BY <1>7, <1>8 DEF Slots, NRetries, NConnecting, Connecting, Holders, I
<1>10. /\ NRetries \in Nat /\ NConnecting \in Nat /\ leaked \in Nat
       /\ AddsIn(self.tasks) \in Nat
  BY <1>1, CountTypesNext
<1>11. Slots = Len(self.pool) + (AddsIn(self.tasks) + Cardinality(Queuing)) + NRetries
               + Cardinality(Holders) + NConnecting + Cardinality(Outs)
  BY <1>6, <1>9
<1>12. Load = (Len(self.pool) + Cardinality(Queuing) + Cardinality(Holders) + Cardinality(Outs))
              + AddsIn(self.tasks) + NRetries + NConnecting + leaked
  BY <1>5 DEF Load
<1>13. \A p, q, h, o, a, r, c, l \in Nat :
          (p + (a + q) + r + h + c + o) + l = (p + q + h + o) + a + r + c + l
  OBVIOUS
<1>14. /\ Len(self.pool) \in Nat /\ Cardinality(Queuing) \in Nat
       /\ Cardinality(Holders) \in Nat /\ Cardinality(Outs) \in Nat
       /\ NRetries \in Nat /\ NConnecting \in Nat /\ leaked \in Nat
       /\ AddsIn(self.tasks) \in Nat
  BY <1>5, <1>10
<1> DEFINE p == Len(self.pool)
           q == Cardinality(Queuing)
           h == Cardinality(Holders)
           o == Cardinality(Outs)
           a == AddsIn(self.tasks)
<1>15. Slots = p + (a + q) + NRetries + h + NConnecting + o
  BY <1>11
<1>16. Load = (p + q + h + o) + a + NRetries + NConnecting + leaked
  BY <1>12
<1>17. p \in Nat /\ q \in Nat /\ h \in Nat /\ o \in Nat /\ a \in Nat
  BY <1>14
<1> HIDE DEF p, q, h, o, a
<1>18. (p + (a + q) + NRetries + h + NConnecting + o) + leaked
         = (p + q + h + o) + a + NRetries + NConnecting + leaked
  BY <1>13, <1>14, <1>17
<1> QED
  BY <1>15, <1>16, <1>18

\* The growing attempts are those counted
LEMMA GrowingEfforts ==
    ASSUME Shape
    PROVE  Growing = Efforts
<1>1. {i \in DOMAIN self.tasks : self.tasks[i].growing} = Indices(self.tasks, GrowJobs)
  BY PoolFields, JobKinds DEF Shape, Types, Indices
<1>2. UNION {{r} \X (1..self.delayed[r]) : r \in {q \in Retries : q.growing}}
        = Stock(self.delayed, GrowRetries)
  BY DEF Stock, GrowRetries
<1> QED
  BY <1>1, <1>2 DEF Growing, Efforts, GrowsIn, NGrowRetries, NGrowers, Growers

\* The books of a pool are right: _nconns is the number of slots, and _growing tells
\* whether one of those that are empty is to make the pool grow
THEOREM BookkeepingCorrect == Spec => []Bookkeeping
<1>1. Shape /\ Owned /\ Books => Accounting /\ GrowOneAtATime
  BY SlotsLoad, GrowingEfforts DEF Accounting, Books, Balanced, GrowOneAtATime, GrowsOnce
<1>2. TypeOK /\ ExclusiveOwnership /\ Accounting /\ GrowOneAtATime => Bookkeeping
  BY DEF Bookkeeping
<1> QED
  BY <1>1, <1>2, OwnersCorrect, TypeCorrect, OwnershipCorrect, BooksCorrect, PTL

=============================================================================

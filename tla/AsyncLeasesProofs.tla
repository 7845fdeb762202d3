--------------------------- MODULE AsyncLeasesProofs ---------------------------
(***************************************************************************)
(* AsyncPool implements Leases: the proof, from the invariants that        *)
(* AsyncPoolProofs proves.                                                 *)
(***************************************************************************)
EXTENDS AsyncPoolProofs

-----------------------------------------------------------------------------
(* The pool implements Leases *)

(* Connections in a transaction, or busy *)

Messy == {"intrans", "active"}

\* A task that is queued is to return the connection, or one waits for its reset
ToWash(c) ==
    \/ \E i \in DOMAIN self.tasks : self.tasks[i].conn = c
    \/ \E t \in Tasks : loc[t].pc = "reset" /\ loc[t].conn = c

\* Nobody else has such a connection
Washed == \A c \in Conns : status[c] \in Messy => ToWash(c)

\* The tasks of q1 have the connections of those of q, except x
KeepsJobs(q, q1, x) ==
    \A i \in DOMAIN q : q[i].conn # x => \E j \in DOMAIN q1 : q1[j].conn = q[i].conn

\* Tasks are queued, or the first one is taken
LEMMA JobsKept ==
    ASSUME NEW q \in Seq(Jobs)
    PROVE  /\ \A x : KeepsJobs(q, q, x)
           /\ \A x, j : KeepsJobs(q, Append(q, j), x)
           /\ \A x, j : \A n \in Nat : KeepsJobs(q, q \o Copies(n, j), x)
           /\ q # <<>> => KeepsJobs(q, Tail(q), Head(q).conn)
<1>1. \A x : KeepsJobs(q, q, x)
  BY DEF KeepsJobs
<1>2. ASSUME NEW j PROVE \A i \in DOMAIN q : i \in DOMAIN Append(q, j) /\ Append(q, j)[i] = q[i]
  OBVIOUS
<1>3. ASSUME NEW j, NEW n \in Nat
      PROVE  \A i \in DOMAIN q : i \in DOMAIN (q \o Copies(n, j)) /\ (q \o Copies(n, j))[i] = q[i]
  <2>1. Copies(n, j) \in Seq({j}) /\ Len(Copies(n, j)) = n
    BY DEF Copies
  <2> QED
    BY <2>1
<1>4. ASSUME q # <<>> PROVE KeepsJobs(q, Tail(q), Head(q).conn)
  <2>1. /\ Head(q) = q[1]
        /\ \A i \in DOMAIN q : i # 1 => i - 1 \in DOMAIN Tail(q) /\ Tail(q)[i - 1] = q[i]
    BY <1>4
  <2> QED
    BY <2>1 DEF KeepsJobs
<1> QED
  BY <1>1, <1>2, <1>3, <1>4 DEF KeepsJobs

\* ... one after the other
LEMMA JobsKeptOn ==
    ASSUME NEW q, NEW q1, NEW q2, NEW x, KeepsJobs(q, q1, x), KeepsJobs(q1, q2, x)
    PROVE  KeepsJobs(q, q2, x)
  BY DEF KeepsJobs

\* Task t takes a step, with connection x or without one
LEMMA WashedKept ==
    ASSUME Washed, NEW t \in Tasks, NEW x,
           \A u \in Tasks : u # t /\ loc[u].pc = "reset"
                              => loc'[u].pc = "reset" /\ loc'[u].conn = loc[u].conn,
           loc[t].pc = "reset" => loc[t].conn = x,
           KeepsJobs(self.tasks, self'.tasks, x),
           \A k \in Conns : k # x => status'[k] \notin Messy \/ status[k] \in Messy,
           x \in Conns /\ status'[x] \in Messy => ToWash(x)'
    PROVE  Washed'
<1> SUFFICES ASSUME NEW c \in Conns, status'[c] \in Messy, c # x
             PROVE  ToWash(c)'
  BY DEF Washed
<1>1. status[c] \in Messy
  OBVIOUS
<1>2. ToWash(c)
  BY <1>1 DEF Washed
<1>3. ASSUME NEW i \in DOMAIN self.tasks, self.tasks[i].conn = c
      PROVE  \E j \in DOMAIN self'.tasks : self'.tasks[j].conn = c
  BY <1>3 DEF KeepsJobs
<1>4. ASSUME NEW u \in Tasks, loc[u].pc = "reset", loc[u].conn = c
      PROVE  loc'[u].pc = "reset" /\ loc'[u].conn = c
  BY <1>4
<1> QED
  BY <1>2, <1>3, <1>4 DEF ToWash

\* Nothing but the pool and the connections change
LEMMA WashedStill ==
    ASSUME Washed, UNCHANGED loc, NEW x, KeepsJobs(self.tasks, self'.tasks, x),
           \A k \in Conns : status'[k] \notin Messy \/ (status[k] \in Messy /\ k # x)
    PROVE  Washed'
<1> SUFFICES ASSUME NEW c \in Conns, status'[c] \in Messy
             PROVE  ToWash(c)'
  BY DEF Washed
<1>1. status[c] \in Messy /\ c # x
  OBVIOUS
<1>2. ToWash(c)
  BY <1>1 DEF Washed
<1>3. ASSUME NEW i \in DOMAIN self.tasks, self.tasks[i].conn = c
      PROVE  \E j \in DOMAIN self'.tasks : self'.tasks[j].conn = c
  BY <1>1, <1>3 DEF KeepsJobs
<1> QED
  BY <1>2, <1>3 DEF ToWash

\* What becomes of the other connections
LEMMA BecomesMessy ==
    ASSUME NEW c \in Conns, NEW st, Becomes(c, st)
    PROVE  /\ \A k \in Conns : k # c => status'[k] \notin Messy \/ status[k] \in Messy
           /\ st \in {"absent", "idle"} => status'[c] \notin Messy
  BY DEF Becomes, Messy

\* Closing connections makes none messy
LEMMA CloseMessy ==
    ASSUME NEW cs, Close(cs)
    PROVE  \A k \in Conns : status'[k] \notin Messy \/ (status[k] \in Messy /\ k \notin cs)
  BY DEF Close, Messy

\* Task t hands connection c on
Washing(t, c, s) ==
    /\ loc[t].pc = "reset" => loc[t].conn = c
    /\ KeepsJobs(self.tasks, s.tasks, c)

\* A task that leaves the connection, and the tasks that are queued then
LEMMA LeftWashed ==
    ASSUME Washed, NEW t \in Tasks, NEW c \in Conns, NEW n, NEW s \in Pools,
           Washing(t, c, s), Left(t, n), NEW st, Becomes(c, st), NEW j,
           self'.tasks = s.tasks \/ self'.tasks = Append(s.tasks, j),
           st \in {"absent", "idle"} \/ (j.conn = c /\ self'.tasks = Append(s.tasks, j))
    PROVE  Washed'
<1>0. s.tasks \in Seq(Jobs)
  BY PoolFields
<1>1. KeepsJobs(self.tasks, self'.tasks, c)
  <2>1. KeepsJobs(s.tasks, self'.tasks, c)
    BY <1>0, JobsKept
  <2> QED
    BY <2>1, JobsKeptOn DEF Washing
<1>2. status'[c] \in Messy => ToWash(c)'
  <2>1. CASE st \in {"absent", "idle"}
    BY <2>1, BecomesMessy
  <2>2. CASE j.conn = c /\ self'.tasks = Append(s.tasks, j)
    <3>1. /\ Len(s.tasks) + 1 \in DOMAIN Append(s.tasks, j)
          /\ Append(s.tasks, j)[Len(s.tasks) + 1] = j
      BY <1>0
    <3> QED
      BY <2>2, <3>1 DEF ToWash
  <2> QED
    BY <2>1, <2>2
<1> QED
  BY <1>1, <1>2, WashedKept, BecomesMessy DEF Left, Moved, Washing

\* _add_to_pool()
LEMMA AddWashed ==
    ASSUME Washed, NEW t, NEW c, NEW n, NEW s, Passing(t, c, n, s), Washing(t, c, s),
           NEW grow \in BOOLEAN, AddForms(t, c, n, grow, s)
    PROVE  Washed'
<1>0. t \in Tasks /\ c \in Conns /\ s \in Pools /\ s.tasks \in Seq(Jobs)
  BY PoolFields DEF Passing
<1>1. ASSUME NEW s1 \in Pools, s1.tasks = s.tasks, self' = Grown(s1, grow)
      PROVE  self'.tasks = s.tasks \/ self'.tasks = Append(s.tasks, AddConnection(TRUE, 0))
  BY <1>1, GrownTasks
<1>2. CASE AddWaits(t, c, n, s)
  <2>1. self' = s /\ Moved(t, "add", c, n, loc[t].out, loc[t].job) /\ Becomes(c, "idle")
    BY <1>2 DEF AddWaits
  <2>2. status'[c] \notin Messy
        /\ \A k \in Conns : k # c => status'[k] \notin Messy \/ status[k] \in Messy
    BY <1>0, <2>1, BecomesMessy
  <2> QED
    BY <1>0, <2>1, <2>2, WashedKept DEF Moved, Washing
<1>3. CASE AddDrops(t, c, n, grow, s)
  <2>1. Left(t, n) /\ Becomes(c, "absent") /\ self' = Grown(s, grow)
    BY <1>3 DEF AddDrops
  <2> QED
    BY <1>0, <1>1, <2>1, LeftWashed
<1>4. CASE AddCloses(t, c, n, grow, s)
  <2>1. PICK s1 : Alike(s, s1) /\ self' = Grown(s1, grow)
    BY <1>4 DEF AddCloses
  <2>2. Left(t, n) /\ Becomes(c, "absent")
    BY <1>4 DEF AddCloses
  <2> QED
    BY <1>0, <1>1, <2>1, <2>2, LeftWashed DEF Alike
<1>5. CASE AddKeeps(t, c, n, grow, s)
  <2>1. PICK s1 : Alike(s, s1) /\ self' = Grown(s1, grow)
    BY <1>5 DEF AddKeeps
  <2>2. Left(t, n) /\ Becomes(c, "idle")
    BY <1>5 DEF AddKeeps
  <2> QED
    BY <1>0, <1>1, <2>1, <2>2, LeftWashed DEF Alike
<1>6. CASE AddGives(t, c, n, grow, s)
  <2>1. PICK k \in Clients, s1 \in Pools :
            /\ loc[k].pc = "wait" /\ Alike(s, s1) /\ self' = Grown(s1, grow)
            /\ LeftGiving(t, n, k, c)
    BY <1>6 DEF AddGives
  <2>2. Becomes(c, "idle")
    BY <1>6 DEF AddGives
  <2>3. /\ status'[c] \notin Messy
        /\ \A e \in Conns : e # c => status'[e] \notin Messy \/ status[e] \in Messy
    BY <1>0, <2>2, BecomesMessy
  <2>4. KeepsJobs(self.tasks, self'.tasks, c)
    <3>1. self'.tasks = s.tasks \/ self'.tasks = Append(s.tasks, AddConnection(TRUE, 0))
      BY <1>1, <2>1 DEF Alike
    <3>2. KeepsJobs(s.tasks, self'.tasks, c)
      BY <1>0, <3>1, JobsKept
    <3> QED
      BY <3>2, JobsKeptOn DEF Washing
  <2>5. \A u \in Tasks : u # t /\ loc[u].pc = "reset"
                           => loc'[u].pc = "reset" /\ loc'[u].conn = loc[u].conn
    BY <2>1 DEF LeftGiving
  <2> QED
    BY <1>0, <2>3, <2>4, <2>5, WashedKept DEF Washing
<1> QED
  BY <1>2, <1>3, <1>4, <1>5, <1>6 DEF AddForms

\* _return_connection(), and the ways of a client to let its connection go
LEMMA ReturnWashed ==
    ASSUME Washed, NEW t, NEW c, NEW n, NEW s, Passing(t, c, n, s), Washing(t, c, s),
           NEW st, \/ ReturnForms(t, c, n, st, s)
                   \/ s = self /\ Queues(t, c, n, st)
                   \/ s = self /\ n = "idle" /\ Closes(t, c)
    PROVE  Washed'
<1>0. t \in Tasks /\ c \in Conns /\ s \in Pools /\ s.tasks \in Seq(Jobs)
  BY PoolFields DEF Passing
<1>1. CASE Replaces(t, c, n, s)
  <2>1. /\ self' = RunTask(s, NewConnection) /\ NewConnection \in Jobs /\ Left(t, n)
        /\ Becomes(c, "absent")
    BY <1>1, JobTypes DEF Replaces
  <2>2. PICK j \in Jobs : j = NewConnection
    BY <2>1
  <2>3. self'.tasks = Append(s.tasks, j)
    BY <1>0, <2>1, <2>2, RunTaskFields
  <2> QED
    BY <1>0, <2>1, <2>3, LeftWashed
<1>2. CASE Resets(t, c, n, st, s)
  <2>1. self' = s /\ Moved(t, "reset", c, n, loc[t].out, loc[t].job) /\ Becomes(c, st)
    BY <1>2 DEF Resets
  <2>2. \A k \in Conns : k # c => status'[k] \notin Messy \/ status[k] \in Messy
    BY <1>0, <2>1, BecomesMessy
  <2>3. ToWash(c)'
    BY <1>0, <2>1 DEF ToWash, Moved
  <2> QED
    BY <1>0, <2>1, <2>2, <2>3, WashedKept DEF Moved, Washing
<1>3. CASE s = self /\ Queues(t, c, n, st)
  <2>1. PICK j : j = ReturnConnection(c)
    OBVIOUS
  <2>2. j \in Jobs /\ j.conn = c
    BY <1>0, <2>1, JobTypes, NewFields
  <2>3. self'.tasks = Append(s.tasks, j) /\ Left(t, n) /\ Becomes(c, st)
    BY <1>0, <1>3, <2>1, <2>2, RunTaskFields DEF Queues
  <2> QED
    BY <1>0, <2>2, <2>3, LeftWashed
<1>4. CASE s = self /\ n = "idle" /\ Closes(t, c)
  BY <1>0, <1>4, LeftWashed DEF Closes
<1>5. CASE AddForms(t, c, n, FALSE, s)
  BY <1>5, AddWashed
<1> QED
  BY <1>1, <1>2, <1>3, <1>4, <1>5 DEF ReturnForms

\* Task t goes on, that did not wait for a reset
LEMMA MovedWashed ==
    ASSUME Washed, NEW t \in Tasks, loc[t].pc # "reset",
           NEW p, NEW c, NEW n, NEW o, NEW j, Moved(t, p, c, n, o, j),
           KeepsJobs(self.tasks, self'.tasks, NoConn),
           \A k \in Conns : status'[k] \notin Messy \/ status[k] \in Messy
    PROVE  Washed'
<1>1. NoConn \notin Conns
  BY AsyncAssumption DEF AsyncAssumption
<1>2. \A u \in Tasks : u # t => loc'[u] = loc[u]
  BY DEF Moved
<1> QED
  BY <1>1, <1>2, WashedKept

\* What happens to the connections
LEMMA CleanConns ==
    ASSUME UNCHANGED connVars \/ (\E cs : Close(cs))
           \/ (\E k \in Conns, st \in {"idle", "absent"} : Becomes(k, st))
    PROVE  \A k \in Conns : status'[k] \notin Messy \/ status[k] \in Messy
<1>1. CASE UNCHANGED connVars
  BY <1>1 DEF connVars
<1>2. ASSUME NEW cs, Close(cs)
      PROVE  \A k \in Conns : status'[k] \notin Messy \/ status[k] \in Messy
  BY <1>2, CloseMessy
<1>3. ASSUME NEW k \in Conns, NEW st \in {"idle", "absent"}, Becomes(k, st)
      PROVE  \A e \in Conns : status'[e] \notin Messy \/ status[e] \in Messy
  BY <1>3, BecomesMessy
<1> QED
  BY <1>1, <1>2, <1>3

\* A client's connection is messy only where it goes to be washed
LEMMA ClientWashed ==
    ASSUME Shape, Washed, NEW c \in Clients,
           ClientStep(c) \/ PutStep(c) \/ Start(c) \/ Interrupt(c)
    PROVE  Washed'
<1>0. c \in Tasks /\ Types /\ self.tasks \in Seq(Jobs) /\ "idle" \in {"idle", "absent"}
  BY ClientFields, PoolFields
<1>1. CASE GetReady(c)
  <2>1. /\ UNCHANGED connVars /\ self'.tasks = self.tasks /\ loc[c].pc # "reset"
        /\ \E p : Moved(c, p, Head(self.pool), loc[c].next, loc[c].out, loc[c].job)
    BY <1>1, ReadyEffect DEF SameTasks
  <2> QED
    BY <1>0, <2>1, CleanConns, JobsKept, MovedWashed
<1>2. CASE GetQueue(c)
  <2>1. /\ UNCHANGED connVars /\ loc[c].pc # "reset"
        /\ \/ self'.tasks = self.tasks
           \/ self'.tasks = Append(self.tasks, AddConnection(TRUE, 0))
        /\ Moved(c, "wait", loc[c].conn, loc[c].pc, loc[c].out, loc[c].job)
    BY <1>2, QueueUpEffect
  <2>2. KeepsJobs(self.tasks, self'.tasks, NoConn)
    BY <1>0, <2>1, JobsKept
  <2> QED
    BY <1>0, <2>1, <2>2, CleanConns, MovedWashed
<1>3. CASE NullConnect(c)
  <2>1. /\ UNCHANGED connVars /\ self'.tasks = self.tasks /\ loc[c].pc # "reset"
        /\ Moved(c, "connect", loc[c].conn, loc[c].next, loc[c].out, loc[c].job)
    BY <1>3, NullConnectEffect DEF SameTasks
  <2> QED
    BY <1>0, <2>1, CleanConns, JobsKept, MovedWashed
<1>4. ASSUME NEW k \in Conns, NullConnected(c, k) PROVE Washed'
  <2>1. /\ Becomes(k, "idle") /\ self'.tasks = self.tasks /\ loc[c].pc # "reset"
        /\ \E p : Moved(c, p, k, loc[c].next, loc[c].out, loc[c].job)
    BY <1>4, NullConnectedEffect DEF SameTasks
  <2> QED
    BY <1>0, <2>1, CleanConns, JobsKept, MovedWashed
<1>5. CASE NullConnectFailed(c)
  <2>1. /\ UNCHANGED connVars /\ self'.tasks = self.tasks /\ loc[c].pc # "reset"
        /\ Moved(c, "idle", NoConn, "idle", loc[c].out, NewConnection)
    BY <1>5, NullFailedEffect DEF SameTasks, Left
  <2> QED
    BY <1>0, <2>1, CleanConns, JobsKept, MovedWashed
<1>6. CASE Quiet(c)
  <2>1. UNCHANGED <<self, connVars>> /\ loc[c].pc # "reset"
    BY <1>6, QuietEffect
  <2>2. \E p, n, o, j : Moved(c, p, loc[c].conn, n, o, j)
    BY <1>6, QuietEffect
  <2> QED
    BY <1>0, <2>1, <2>2, CleanConns, JobsKept, MovedWashed
<1>7. CASE WaitInterrupted(c)
  <2>1. /\ UNCHANGED connVars /\ loc[c].pc \in {"wait", "got"}
        /\ self'.tasks = IF loc[c].pc = "got"
                         THEN Append(self.tasks, ReturnConnection(loc[c].conn))
                         ELSE self.tasks
        /\ \A u \in Tasks : u # c => loc'[u].pc = loc[u].pc /\ loc'[u].conn = loc[u].conn
    BY <1>7, InterruptedEffect
  <2>2. KeepsJobs(self.tasks, self'.tasks, NoConn)
    <3>1. PICK j : j = ReturnConnection(loc[c].conn)
      OBVIOUS
    <3>2. self'.tasks = self.tasks \/ self'.tasks = Append(self.tasks, j)
      BY <2>1, <3>1
    <3> QED
      BY <1>0, <3>2, JobsKept
  <2>3. \A k \in Conns : status'[k] \notin Messy \/ status[k] \in Messy
    BY <2>1, CleanConns
  <2> QED
    BY <1>0, <2>1, <2>2, <2>3, WashedKept, AsyncAssumption DEF AsyncAssumption
<1>8. ASSUME NEW n, NEW st, Passing(c, loc[c].conn, n, self),
             \/ ReturnForms(c, loc[c].conn, n, st, self)
             \/ Queues(c, loc[c].conn, n, st)
             \/ n = "idle" /\ Closes(c, loc[c].conn)
      PROVE  Washed'
  <2>1. Washing(c, loc[c].conn, self)
    BY <1>0, JobsKept DEF Washing
  <2> QED
    BY <1>8, <2>1, ReturnWashed
<1>9. ASSUME NEW st \in Leaves, PutConn(c, st) PROVE Washed'
  BY <1>8, <1>9, PutConnEffect
<1>10. ASSUME NEW st \in Leaves, NullPutConn(c, st) PROVE Washed'
  <2>1. CASE loc[c].pc \in {"use", "putlock"} /\ NullPut(c, st)
    BY <1>8, <2>1, NullPutEffect
  <2>2. CASE loc[c].pc = "use" /\ loc' = GoTo(c, "putlock") /\ UNCHANGED <<self, connVars>>
    <3>1. Moved(c, "putlock", loc[c].conn, loc[c].next, loc[c].out, loc[c].job)
      BY <1>0, <2>2, MovesPc, Names
    <3> QED
      BY <1>0, <2>2, <3>1, CleanConns, JobsKept, MovedWashed
  <2> QED
    BY <1>10, <2>1, <2>2 DEF NullPutConn
<1>11. ASSUME NEW st \in Leaves, CheckBad(c, st) PROVE Washed'
  <2>1. loc[c].pc = "check" /\ PutBack(c, st, "sleep")
    BY <1>11 DEF CheckBad
  <2>2. Passing(c, loc[c].conn, "sleep", self)
        /\ (\/ Queues(c, loc[c].conn, "sleep", st)
            \/ ReturnForms(c, loc[c].conn, "sleep", st, self))
    BY <2>1, PutBackEffect
  <2> QED
    BY <1>8, <2>2
<1>12. CASE PutCancelled(c)
  <2>1. /\ UNCHANGED self /\ Close({loc[c].conn}) /\ loc' = Leaving(c, "idle")
        /\ loc[c].pc # "reset"
    BY <1>12 DEF PutCancelled
  <2>2. Moved(c, "idle", NoConn, "idle", loc[c].out, NewConnection)
    BY <1>0, <2>1, MovesLeaving, Names DEF Left
  <2> QED
    BY <1>0, <2>1, <2>2, CleanConns, JobsKept, MovedWashed
<1> QED
  BY <1>1, <1>2, <1>3, <1>4, <1>5, <1>6, <1>7, <1>9, <1>10, <1>11, <1>12
     DEF ClientStep, PutStep, Start, Interrupt, Quiet

\* Nor does a task that returns a connection, or a worker, leave one so elsewhere
LEMMA WorkerWashed ==
    ASSUME Shape, TasksOpen, Washed,
           \/ \E t \in Tasks : Reset(t) \/ AddLocked(t)
           \/ \E w \in Workers : WorkerStep(w)
    PROVE  Washed'
<1>0. Types /\ self \in Pools /\ self.tasks \in Seq(Jobs)
  BY PoolFields DEF Shape, Types
<1>1. ASSUME NEW t \in Tasks, Reset(t) PROVE Washed'
  <2>1. Washing(t, loc[t].conn, self)
    BY <1>0, JobsKept DEF Washing
  <2> QED
    BY <1>1, <2>1, ResetEffect, ReturnWashed
<1>2. ASSUME NEW t \in Tasks, AddLocked(t) PROVE Washed'
  <2>1. Washing(t, loc[t].conn, self) /\ FALSE \in BOOLEAN
    BY <1>0, JobsKept DEF Washing
  <2> QED
    BY <1>2, <2>1, AddLockedEffect, AddWashed
<1>3. ASSUME NEW w \in Workers, WorkerStep(w) PROVE Washed'
  <2>0. w \in Tasks
    BY WorkerFields
  <2>1. CASE WorkerStop(w) \/ WorkerAdd(w) \/ WorkerDiscard(w)
    <3>1. /\ self.tasks # <<>> /\ self' = Taken /\ loc[w].pc = "idle"
          /\ \/ /\ Head(self.tasks).kind \in {"stop", "add"} /\ UNCHANGED connVars
                /\ \E p, j : Moved(w, p, loc[w].conn, loc[w].next, loc[w].out, j)
             \/ UNCHANGED loc /\ Close({Head(self.tasks).conn})
      BY <2>1, TakeEffect
    <3>2. PICK h : h = Head(self.tasks)
      OBVIOUS
    <3>3. self'.tasks = Tail(self.tasks) /\ h \in Jobs
      BY <1>0, <3>1, <3>2, TakenFields
    <3>4. KeepsJobs(self.tasks, self'.tasks, h.conn)
      BY <1>0, <3>1, <3>2, <3>3, JobsKept
    <3>5. CASE h.kind \in {"stop", "add"} /\ UNCHANGED connVars
               /\ \E p, j : Moved(w, p, loc[w].conn, loc[w].next, loc[w].out, j)
      <4>1. h.conn = NoConn
        BY <3>3, <3>5, JobFields
      <4> QED
        BY <2>0, <3>1, <3>4, <3>5, <4>1, CleanConns, MovedWashed
    <3>6. CASE UNCHANGED loc /\ Close({h.conn})
      <4>1. \A k \in Conns : status'[k] \notin Messy \/ (status[k] \in Messy /\ k # h.conn)
        BY <3>6, CloseMessy
      <4> QED
        BY <3>4, <3>6, <4>1, WashedStill
    <3> QED
      BY <3>1, <3>2, <3>5, <3>6
  <2>2. CASE WorkerReturn(w)
    <3>1. PICK c : c = Head(self.tasks).conn
      OBVIOUS
    <3>2. Passing(w, c, "idle", Taken)
      BY <2>2, <3>1, WorkerReturnEffect
    <3>3. self.tasks # <<>> /\ Head(self.tasks).kind = "return" /\ loc[w].pc = "idle"
      BY <2>2 DEF WorkerReturn, Take
    <3>4. status[c] # "absent"
      BY <1>0, <3>1, <3>3, HeadOpen
    <3>5. ReturnForms(w, c, "idle", status[c], Taken)
      BY <2>2, <3>1, <3>4, WorkerReturnEffect
    <3>6. Washing(w, c, Taken)
      <4>1. Taken.tasks = Tail(self.tasks)
        BY <1>0, <3>3, TakenFields
      <4> QED
        BY <1>0, <3>1, <3>3, <4>1, JobsKept DEF Washing
    <3>7. PICK s : s = Taken
      OBVIOUS
    <3> QED
      BY <3>2, <3>5, <3>6, <3>7, ReturnWashed
  <2>3. ASSUME NEW k \in Conns, Connected(w, k) PROVE Washed'
    <3>1. loc[w].pc = "connect"
      BY <2>3 DEF Connected
    <3>2. Washing(w, k, self)
      BY <1>0, <3>1, JobsKept DEF Washing
    <3> QED
      BY <2>3, <3>2, ConnectedEffect, AddWashed
  <2>4. CASE ConnectRetry(w) \/ ConnectGiveUp(w)
    <3>1. /\ Left(w, "idle") /\ UNCHANGED connVars /\ self'.tasks = self.tasks
          /\ loc[w].pc = "connect"
      BY <2>4, RetryEffect, GiveUpEffect
    <3> QED
      BY <1>0, <2>0, <3>1, CleanConns, JobsKept, MovedWashed DEF Left
  <2>5. CASE Shrink(w)
    <3>1. /\ UNCHANGED loc /\ self.tasks # <<>> /\ Head(self.tasks).kind = "shrink"
          /\ self'.tasks = Tail(self.tasks)
          /\ \/ Head(self.pool) \in Conns /\ Becomes(Head(self.pool), "absent")
             \/ UNCHANGED connVars
      BY <2>5, ShrinkEffect
    <3>2. PICK h : h = Head(self.tasks)
      OBVIOUS
    <3>3. h \in Jobs
      BY <1>0, <3>1, <3>2, TakenFields
    <3>4. h.conn = NoConn /\ NoConn \notin Conns
      BY <3>1, <3>2, <3>3, JobFields, AsyncAssumption DEF AsyncAssumption
    <3>5. KeepsJobs(self.tasks, self'.tasks, NoConn)
      BY <1>0, <3>1, <3>2, <3>4, JobsKept
    <3>6. \A k \in Conns : status'[k] \notin Messy \/ status[k] \in Messy
      BY <3>1, CleanConns
    <3> QED
      BY <3>1, <3>4, <3>5, <3>6, WashedStill
  <2> QED
    BY <1>3, <2>1, <2>2, <2>3, <2>4, <2>5 DEF WorkerStep
<1> QED
  BY <1>1, <1>2, <1>3

\* Nor do the callers
LEMMA CallerWashed ==
    ASSUME Shape, Washed, NEW a \in Callers, CallerStep(a) \/ Call(a) \/ CloseCancelled(a)
    PROVE  Washed'
<1>0. /\ a \in Tasks /\ Types /\ self.tasks \in Seq(Jobs) /\ NoConn \notin Conns
      /\ loc[a].pc # "reset" /\ loc \in [Tasks -> Locals]
  BY CallerFields, PoolFields, AsyncAssumption DEF AsyncAssumption, Fits, CallerPCs, Types
<1>1. CASE FailWaiting(a)
  <2>1. /\ UNCHANGED <<self, connVars>>
        /\ \A u \in Tasks : u # a =>
              /\ loc'[u].pc = IF u \in loc[a].out THEN "failed" ELSE loc[u].pc
              /\ loc'[u].conn = loc[u].conn
        /\ loc[a].out \subseteq Clients
    BY <1>1, FailEffect
  <2>2. \A u \in loc[a].out : loc[u].pc = "wait"
    BY <1>0, <2>1 DEF Shape, Queued
  <2>3. \A u \in Tasks : u # a /\ loc[u].pc = "reset"
                            => loc'[u].pc = "reset" /\ loc'[u].conn = loc[u].conn
    BY <2>1, <2>2
  <2>4. KeepsJobs(self.tasks, self'.tasks, NoConn)
    BY <1>0, <2>1, JobsKept
  <2>5. \A k \in Conns : status'[k] \notin Messy \/ status[k] \in Messy
    BY <2>1, CleanConns
  <2> QED
    BY <1>0, <2>3, <2>4, <2>5, WashedKept
<1>2. CASE CloseCancelled(a)
  <2>1. UNCHANGED <<self, connVars>> /\ loc' = [loc EXCEPT ![a] = At("idle", NoConn, "idle")]
    BY <1>2 DEF CloseCancelled
  <2>2. Restarted(a, "idle", NoConn)
    BY <1>0, <2>1, MovesRestarted, Names
  <2> QED
    BY <1>0, <2>1, <2>2, CleanConns, JobsKept, MovedWashed DEF Restarted
<1>3. CASE CheckNext(a)
  <2>1. /\ UNCHANGED <<self, connVars>>
        /\ \E p, c, n, o, j : Moved(a, p, c, n, o, j)
    BY <1>3, CheckNextEffect
  <2> QED
    BY <1>0, <2>1, CleanConns, JobsKept, MovedWashed
<1>4. CASE Checked(a)
  <2>1. FALSE \in BOOLEAN /\ Washing(a, loc[a].conn, self)
    BY <1>0, JobsKept DEF Washing
  <2>2. /\ Passing(a, loc[a].conn, "checking", self)
        /\ \/ Replaces(a, loc[a].conn, "checking", self)
           \/ AddForms(a, loc[a].conn, "checking", FALSE, self)
    BY <1>4, CheckedEffect
  <2>3. Replaces(a, loc[a].conn, "checking", self)
          => ReturnForms(a, loc[a].conn, "checking", "idle", self)
    BY DEF ReturnForms
  <2> QED
    BY <2>1, <2>2, <2>3, AddWashed, ReturnWashed
<1>5. CASE WaitDone(a)
  <2>1. /\ UNCHANGED connVars /\ self'.tasks = self.tasks
        /\ Moved(a, "idle", loc[a].conn, loc[a].next, loc[a].out, loc[a].job)
    BY <1>5, WaitDoneEffect
  <2> QED
    BY <1>0, <2>1, CleanConns, JobsKept, MovedWashed
<1>6. CASE Wait(a)
  <2>1. /\ UNCHANGED connVars
        /\ self'.tasks = self.tasks \/ self'.tasks = Append(self.tasks, NewConnection)
        /\ \/ UNCHANGED loc
           \/ Moved(a, "full", loc[a].conn, loc[a].next, loc[a].out, loc[a].job)
    BY <1>6, WaitEffect
  <2>2. KeepsJobs(self.tasks, self'.tasks, NoConn)
    BY <1>0, <2>1, JobsKept
  <2> QED
    BY <1>0, <2>1, <2>2, CleanConns, MovedWashed, WashedStill
<1>7. CASE Check(a)
  <2>1. /\ UNCHANGED connVars
        /\ \/ self'.tasks = self.tasks
           \/ self'.tasks = Append(self.tasks, AddConnection(TRUE, 0))
        /\ Moved(a, "checking", loc[a].conn, loc[a].next, Contents(self.pool), loc[a].job)
    BY <1>7, CheckEffect
  <2>2. KeepsJobs(self.tasks, self'.tasks, NoConn)
    BY <1>0, <2>1, JobsKept
  <2> QED
    BY <1>0, <2>1, <2>2, CleanConns, MovedWashed
<1>8. CASE Drain(a)
  <2>1. /\ UNCHANGED loc
        /\ self'.tasks = self.tasks \o Copies(Len(self.pool), NewConnection)
        /\ status' = [c \in Conns |-> IF c \in Contents(self.pool) THEN "absent" ELSE status[c]]
    BY <1>8, DrainEffect
  <2>2. KeepsJobs(self.tasks, self'.tasks, NoConn)
    <3>1. self.pool \in Seq(Conns)
      BY <1>0, PoolFields DEF Types
    <3>2. Len(self.pool) \in Nat
      BY <3>1
    <3> QED
      BY <1>0, <2>1, <3>2, JobsKept
  <2>3. \A k \in Conns : status'[k] \notin Messy \/ (status[k] \in Messy /\ k # NoConn)
    BY <1>0, <2>1 DEF Messy
  <2> QED
    BY <2>1, <2>2, <2>3, WashedStill
<1>9. ASSUME NEW size \in NewSizes, Resize(a, size) PROVE Washed'
  <2>1. /\ UNCHANGED <<loc, connVars>>
        /\ \E more \in Nat : self'.tasks = self.tasks \o Copies(more, NewConnection)
    BY <1>9, ResizeEffect
  <2>2. KeepsJobs(self.tasks, self'.tasks, NoConn)
    BY <1>0, <2>1, JobsKept
  <2>3. \A k \in Conns : status'[k] \notin Messy \/ (status[k] \in Messy /\ k # NoConn)
    BY <1>0, <2>1 DEF connVars
  <2> QED
    BY <2>1, <2>2, <2>3, WashedStill
<1>10. CASE ClosePool(a)
  <2>1. /\ Close(Contents(self.pool)) /\ Cardinality(Workers) \in Nat
        /\ self'.tasks = self.tasks \o Copies(Cardinality(Workers), StopWorker)
        /\ \E o : Moved(a, "closing", loc[a].conn, loc[a].next, o, loc[a].job)
    BY <1>10, CloseEffect, FS_CardinalityType, AsyncAssumption DEF AsyncAssumption
  <2>2. KeepsJobs(self.tasks, self'.tasks, NoConn)
    BY <1>0, <2>1, JobsKept
  <2> QED
    BY <1>0, <2>1, <2>2, CleanConns, MovedWashed
<1> QED
  BY <1>1, <1>2, <1>3, <1>4, <1>5, <1>6, <1>7, <1>8, <1>9, <1>10 DEF CallerStep, Call

\* Every step keeps them where they are to be washed
LEMMA NextWashed ==
    ASSUME Shape, TasksOpen, Washed, Next
    PROVE  Washed'
<1>0. /\ Types /\ self.tasks \in Seq(Jobs) /\ NoConn \notin Conns
      /\ KeepsJobs(self.tasks, self.tasks, NoConn)
  BY PoolFields, JobsKept, AsyncAssumption DEF AsyncAssumption, Shape, Types
<1>1. CASE Tick \/ TickShrink
  <2>1. UNCHANGED <<loc, connVars>> /\ \E j : self'.tasks = Append(self.tasks, j)
    BY <1>1, TickEffect, TickShrinkEffect
  <2>2. KeepsJobs(self.tasks, self'.tasks, NoConn)
    BY <1>0, <2>1, JobsKept
  <2>3. \A k \in Conns : status'[k] \notin Messy \/ (status[k] \in Messy /\ k # NoConn)
    BY <1>0, <2>1 DEF connVars
  <2> QED
    BY <2>1, <2>2, <2>3, WashedStill
<1>2. CASE Break
  <2>1. \E x : status' = [status EXCEPT ![x] = "unknown"]
    BY <1>2 DEF Break
  <2>2. UNCHANGED <<loc, self>>
    BY <1>2 DEF Break
  <2>3. \A k \in Conns : status'[k] \notin Messy \/ (status[k] \in Messy /\ k # NoConn)
    BY <1>0, <2>1 DEF Types, Messy
  <2> QED
    BY <1>0, <2>2, <2>3, WashedStill
<1>3. ASSUME NEW c \in Clients, ClientStep(c) \/ PutStep(c) \/ Start(c) \/ Interrupt(c)
      PROVE  Washed'
  BY <1>3, ClientWashed
<1>4. ASSUME NEW a \in Callers, CallerStep(a) \/ Call(a) \/ CloseCancelled(a)
      PROVE  Washed'
  BY <1>4, CallerWashed
<1> QED
  BY <1>1, <1>2, <1>3, <1>4, WorkerWashed DEF Next

\* A connection in a transaction is queued to be returned, or is being reset
THEOREM WashedCorrect == Spec => []Washed
<1>1. Init => Washed
  BY DEF Init, Washed, Messy
<1>2. Shape /\ Owned /\ Washed /\ [Next]_vars => Washed'
  <2> SUFFICES ASSUME Shape, Owned, Washed, [Next]_vars PROVE Washed'
    OBVIOUS
  <2>1. CASE Next
    BY <2>1, OwnedTasks, NextWashed DEF Shape
  <2>2. CASE UNCHANGED vars
    <3>1. UNCHANGED <<self, loc, status>>
      BY <2>2 DEF vars, connVars
    <3> QED
      BY <3>1 DEF Washed, ToWash
  <2> QED
    BY <2>1, <2>2
<1> QED
  BY <1>1, <1>2, OwnersCorrect, PTL DEF Spec

(* The number of connections *)

\* resize() changes the limit; wait() of a null pool makes a connection more
Unlimited == "resize" \in calls \/ (null /\ "wait" \in calls)

\* There is room for the connection of the client that has the lock
Roomy(s) ==
    /\ s.maxSize = MaxSize /\ s.minSize <= s.maxSize /\ s.nconns <= s.maxSize
    /\ s.lock # NoTask => s.nconns < s.maxSize

Within == Unlimited \/ Roomy(self)

\* The pool counts no connection more
LEMMA RoomKept ==
    ASSUME NEW s \in Pools, NEW g \in Pools, g.maxSize = s.maxSize, g.minSize = s.minSize,
           g.lock = s.lock, g.nconns = s.nconns \/ g.nconns = s.nconns - 1, Roomy(s)
    PROVE  Roomy(g)
<1>1. s.nconns \in Int /\ s.maxSize \in Int
  BY PoolFields
<1> QED
  BY <1>1 DEF Roomy

\* ... or one, while there is room and nobody else connects
LEMMA RoomMore ==
    ASSUME NEW s \in Pools, NEW g \in Pools, g.maxSize = s.maxSize, g.minSize = s.minSize,
           s.lock = NoTask \/ null, g.lock = NoTask,
           g.nconns = s.nconns + 1, s.nconns < s.maxSize, Roomy(s)
    PROVE  Roomy(g)
<1>1. s.nconns \in Int /\ s.maxSize \in Int
  BY PoolFields
<1> QED
  BY <1>1 DEF Roomy

\* _add_to_pool()
LEMMA AddRoom ==
    ASSUME NEW t, NEW c, NEW n, NEW grow \in BOOLEAN, NEW s \in Pools,
           AddForms(t, c, n, grow, s), Roomy(s)
    PROVE  Roomy(self')
<1>1. ASSUME NEW s1 \in Pools, s.lock = NoTask, s1.lock = s.lock, s1.maxSize = s.maxSize,
             s1.minSize = s.minSize, s1.nconns = s.nconns \/ s1.nconns = s.nconns - 1,
             self' = Grown(s1, grow)
      PROVE  Roomy(self')
  <2>1. Roomy(s1)
    BY <1>1, RoomKept
  <2>2. PICK g : g = Grown(s1, grow)
    OBVIOUS
  <2>3. /\ g \in Pools /\ g.lock = s1.lock /\ g.minSize = s1.minSize /\ g.maxSize = s1.maxSize
        /\ \/ g.nconns = s1.nconns
           \/ g.nconns = s1.nconns + 1 /\ (s1.nconns < s1.minSize \/ s1.nconns < s1.maxSize)
    BY <2>2, GrownFields
  <2>4. s1.nconns \in Int /\ s1.maxSize \in Int /\ s1.minSize \in Int
    BY PoolFields
  <2>5. CASE g.nconns = s1.nconns
    BY <1>1, <2>1, <2>2, <2>3, <2>5, RoomKept
  <2>6. CASE g.nconns = s1.nconns + 1 /\ (s1.nconns < s1.minSize \/ s1.nconns < s1.maxSize)
    <3>1. s1.nconns < s1.maxSize
      BY <2>1, <2>4, <2>6 DEF Roomy
    <3>2. Roomy(g)
      BY <1>1, <2>1, <2>3, <2>6, <3>1, RoomMore
    <3> QED
      BY <1>1, <2>2, <3>2
  <2> QED
    BY <2>3, <2>5, <2>6
<1>2. CASE AddWaits(t, c, n, s)
  BY <1>2 DEF AddWaits
<1>3. CASE AddDrops(t, c, n, grow, s)
  BY <1>1, <1>3 DEF AddDrops
<1>4. CASE AddCloses(t, c, n, grow, s)
  <2>1. PICK s1 : /\ Alike(s, s1) /\ self' = Grown(s1, grow)
                  /\ s1.nconns = s.nconns \/ s1.nconns = s.nconns - 1
    BY <1>4 DEF AddCloses
  <2> QED
    BY <1>1, <1>4, <2>1 DEF Alike, AddCloses
<1>5. CASE AddKeeps(t, c, n, grow, s)
  <2>1. PICK s1 : Alike(s, s1) /\ self' = Grown(s1, grow) /\ s1.nconns = s.nconns
    BY <1>5 DEF AddKeeps
  <2> QED
    BY <1>1, <1>5, <2>1 DEF Alike, AddKeeps
<1>6. CASE AddGives(t, c, n, grow, s)
  <2>1. PICK k \in Clients, s1 \in Pools :
            Alike(s, s1) /\ self' = Grown(s1, grow) /\ s1.nconns = s.nconns
    BY <1>6 DEF AddGives
  <2> QED
    BY <1>1, <1>6, <2>1 DEF Alike, AddGives
<1> QED
  BY <1>2, <1>3, <1>4, <1>5, <1>6 DEF AddForms

\* _return_connection(), and the ways of a client to let its connection go
LEMMA ReturnRoom ==
    ASSUME Types, NEW t, NEW c \in Conns, NEW n, NEW s \in Pools,
           NEW st, \/ ReturnForms(t, c, n, st, s)
                   \/ s = self /\ Queues(t, c, n, st),
           Roomy(s)
    PROVE  Roomy(self')
<1>1. ASSUME NEW j \in Jobs, self' = RunTask(s, j) PROVE Roomy(self')
  <2>1. PICK g : g = RunTask(s, j)
    OBVIOUS
  <2>2. /\ g \in Pools /\ g.lock = s.lock /\ g.minSize = s.minSize /\ g.maxSize = s.maxSize
        /\ g.nconns = s.nconns
    BY <2>1, RunTaskFields
  <2> QED
    BY <1>1, <2>1, <2>2, RoomKept
<1>2. CASE Replaces(t, c, n, s)
  BY <1>1, <1>2, JobTypes DEF Replaces
<1>3. CASE Resets(t, c, n, st, s)
  BY <1>3 DEF Resets
<1>4. CASE s = self /\ Queues(t, c, n, st)
  BY <1>1, <1>4, JobTypes DEF Queues
<1>5. CASE AddForms(t, c, n, FALSE, s)
  <2>1. FALSE \in BOOLEAN
    OBVIOUS
  <2> QED
    BY <1>5, <2>1, AddRoom
<1> QED
  BY <1>2, <1>3, <1>4, <1>5 DEF ReturnForms

\* A client's step leaves room
LEMMA ClientRoom ==
    ASSUME Shape, Roomy(self), NEW c \in Clients,
           ClientStep(c) \/ PutStep(c) \/ Start(c) \/ Interrupt(c)
    PROVE  Roomy(self') /\ UNCHANGED <<null, calls>>
<1>0. Types /\ self \in Pools /\ c # NoTask
  BY ClientFields
<1>1. CASE GetReady(c)
  <2>1. /\ UNCHANGED <<null, calls>> /\ SameTasks(self, self') /\ self'.lock = self.lock
        /\ self'.nconns = self.nconns
    BY <1>1, ReadyEffect DEF history
  <2> QED
    BY <1>0, <2>1, RoomKept DEF SameTasks
<1>2. CASE GetQueue(c)
  <2>1. /\ UNCHANGED <<null, calls>> /\ Steady(self, self') /\ self.lock = NoTask
        /\ \/ self'.nconns = self.nconns
           \/ self'.nconns = self.nconns + 1 /\ self.nconns < self.maxSize
    BY <1>2, QueueUpEffect DEF history
  <2> QED
    BY <1>0, <2>1, RoomKept, RoomMore DEF Steady
<1>3. CASE NullConnect(c)
  <2>1. /\ UNCHANGED <<null, calls>> /\ SameTasks(self, self') /\ self'.nconns = self.nconns
        /\ self.nconns < self.maxSize
    BY <1>3, NullConnectEffect DEF history
  <2> QED
    BY <2>1 DEF SameTasks, Roomy
<1>4. ASSUME NEW k \in Conns, NullConnected(c, k)
      PROVE  Roomy(self') /\ UNCHANGED <<null, calls>>
  <2>1. /\ UNCHANGED <<null, calls>> /\ SameTasks(self, self') /\ null
        /\ self'.nconns = self.nconns + 1 /\ self.lock = c /\ self'.lock = NoTask
    BY <1>4, NullConnectedEffect DEF history
  <2>2. self.nconns < self.maxSize
    BY <1>0, <2>1 DEF Roomy
  <2> QED
    BY <1>0, <2>1, <2>2, RoomMore DEF SameTasks
<1>5. CASE NullConnectFailed(c)
  <2>1. /\ UNCHANGED <<null, calls>> /\ SameTasks(self, self')
        /\ self'.nconns = self.nconns /\ self'.lock = NoTask
    BY <1>5, NullFailedEffect DEF history
  <2> QED
    BY <2>1 DEF SameTasks, Roomy
<1>6. CASE Quiet(c)
  BY <1>6, QuietEffect DEF Roomy
<1>7. CASE WaitInterrupted(c)
  <2>1. /\ UNCHANGED <<null, calls>> /\ self' \in Pools /\ self'.lock = self.lock
        /\ self'.nconns = self.nconns /\ self'.minSize = self.minSize
        /\ self'.maxSize = self.maxSize
    BY <1>7, InterruptedEffect
  <2> QED
    BY <1>0, <2>1, RoomKept
<1>8. ASSUME NEW n, NEW st, Passing(c, loc[c].conn, n, self),
             \/ ReturnForms(c, loc[c].conn, n, st, self)
             \/ Queues(c, loc[c].conn, n, st)
             \/ /\ Closes(c, loc[c].conn)
                /\ self'.nconns = self.nconns \/ self'.nconns = self.nconns - 1
      PROVE  Roomy(self')
  <2>1. CASE \/ ReturnForms(c, loc[c].conn, n, st, self)
             \/ Queues(c, loc[c].conn, n, st)
    BY <1>0, <1>8, <2>1, ReturnRoom DEF Passing
  <2>2. CASE /\ Closes(c, loc[c].conn)
             /\ self'.nconns = self.nconns \/ self'.nconns = self.nconns - 1
    BY <1>0, <2>2, RoomKept DEF Closes
  <2> QED
    BY <1>8, <2>1, <2>2
<1>9. ASSUME NEW st \in Leaves, PutConn(c, st)
      PROVE  Roomy(self') /\ UNCHANGED <<null, calls>>
  <2>1. UNCHANGED <<null, calls>>
    BY <1>9 DEF PutConn, history
  <2> QED
    BY <1>8, <1>9, <2>1, PutConnEffect
<1>10. ASSUME NEW st \in Leaves, NullPutConn(c, st)
       PROVE  Roomy(self') /\ UNCHANGED <<null, calls>>
  <2>1. UNCHANGED <<null, calls>>
    BY <1>10 DEF NullPutConn, history
  <2>2. CASE loc[c].pc \in {"use", "putlock"} /\ NullPut(c, st)
    BY <1>8, <2>1, <2>2, NullPutEffect
  <2>3. CASE UNCHANGED self
    BY <2>1, <2>3
  <2> QED
    BY <1>10, <2>2, <2>3 DEF NullPutConn
<1>11. ASSUME NEW st \in Leaves, CheckBad(c, st)
       PROVE  Roomy(self') /\ UNCHANGED <<null, calls>>
  <2>1. /\ UNCHANGED <<null, calls>> /\ loc[c].pc = "check" /\ PutBack(c, st, "sleep")
    BY <1>11 DEF CheckBad, history
  <2>2. Passing(c, loc[c].conn, "sleep", self)
        /\ (\/ Queues(c, loc[c].conn, "sleep", st)
            \/ ReturnForms(c, loc[c].conn, "sleep", st, self))
    BY <2>1, PutBackEffect
  <2> QED
    BY <1>8, <2>1, <2>2
<1>12. CASE PutCancelled(c)
  BY <1>12 DEF PutCancelled
<1> QED
  BY <1>1, <1>2, <1>3, <1>4, <1>5, <1>6, <1>7, <1>9, <1>10, <1>11, <1>12
     DEF ClientStep, PutStep, Start, Interrupt, Quiet

\* So does a step of a worker, or one that returns a connection
LEMMA WorkerRoom ==
    ASSUME Shape, TasksOpen, Roomy(self),
           \/ \E t \in Tasks : Reset(t) \/ AddLocked(t)
           \/ \E w \in Workers : WorkerStep(w)
    PROVE  Roomy(self') /\ UNCHANGED <<null, calls>>
<1>0. Types /\ self \in Pools /\ FALSE \in BOOLEAN
  BY DEF Shape, Types
<1>1. ASSUME NEW t \in Tasks, Reset(t) PROVE Roomy(self') /\ UNCHANGED <<null, calls>>
  <2>1. UNCHANGED <<null, calls>>
    BY <1>1 DEF Reset, history
  <2>2. loc[t].conn \in Conns
    BY <1>1, ResetEffect DEF Passing
  <2> QED
    BY <1>0, <1>1, <2>1, <2>2, ResetEffect, ReturnRoom
<1>2. ASSUME NEW t \in Tasks, AddLocked(t) PROVE Roomy(self') /\ UNCHANGED <<null, calls>>
  <2>1. UNCHANGED <<null, calls>>
    BY <1>2 DEF AddLocked, history
  <2> QED
    BY <1>0, <1>2, <2>1, AddLockedEffect, AddRoom
<1>3. ASSUME NEW w \in Workers, WorkerStep(w) PROVE Roomy(self') /\ UNCHANGED <<null, calls>>
  <2>1. ASSUME self.tasks # <<>>
        PROVE  Taken \in Pools /\ Roomy(Taken)
    <3>1. /\ Taken \in Pools /\ Taken.lock = self.lock /\ Taken.nconns = self.nconns
          /\ Taken.minSize = self.minSize /\ Taken.maxSize = self.maxSize
      BY <1>0, <2>1, TakenFields
    <3>2. PICK s : s = Taken
      OBVIOUS
    <3> QED
      BY <1>0, <3>1, <3>2, RoomKept
  <2>2. CASE WorkerStop(w) \/ WorkerAdd(w) \/ WorkerDiscard(w)
    <3>1. self.tasks # <<>> /\ self' = Taken /\ UNCHANGED <<null, calls>>
      BY <2>2, TakeEffect DEF history
    <3> QED
      BY <2>1, <3>1
  <2>3. CASE WorkerReturn(w)
    <3>1. PICK c : c = Head(self.tasks).conn
      OBVIOUS
    <3>2. Passing(w, c, "idle", Taken)
      BY <2>3, <3>1, WorkerReturnEffect
    <3>3. self.tasks # <<>> /\ Head(self.tasks).kind = "return" /\ UNCHANGED <<null, calls>>
      BY <2>3 DEF WorkerReturn, Take, history
    <3>4. status[c] # "absent"
      BY <1>0, <3>1, <3>3, HeadOpen
    <3>5. ReturnForms(w, c, "idle", status[c], Taken)
      BY <2>3, <3>1, <3>4, WorkerReturnEffect
    <3>6. PICK s : s = Taken
      OBVIOUS
    <3> QED
      BY <1>0, <2>1, <3>2, <3>3, <3>5, <3>6, ReturnRoom DEF Passing
  <2>4. ASSUME NEW k \in Conns, Connected(w, k)
        PROVE  Roomy(self') /\ UNCHANGED <<null, calls>>
    <3>1. UNCHANGED <<null, calls>>
      BY <2>4 DEF Connected, history
    <3> QED
      BY <1>0, <2>4, <3>1, ConnectedEffect, AddRoom
  <2>5. CASE ConnectRetry(w)
    <3>1. /\ self' \in Pools /\ self'.lock = self.lock /\ self'.nconns = self.nconns
          /\ self'.minSize = self.minSize /\ self'.maxSize = self.maxSize
          /\ UNCHANGED <<null, calls>>
      BY <2>5, RetryEffect DEF history
    <3> QED
      BY <1>0, <3>1, RoomKept
  <2>6. CASE ConnectGiveUp(w) \/ Shrink(w)
    <3>1. /\ Steady(self, self') /\ UNCHANGED <<null, calls>>
          /\ self'.nconns = self.nconns \/ self'.nconns = self.nconns - 1
      BY <2>6, GiveUpEffect, ShrinkEffect DEF history
    <3> QED
      BY <1>0, <3>1, RoomKept DEF Steady
  <2> QED
    BY <1>3, <2>2, <2>3, <2>4, <2>5, <2>6 DEF WorkerStep
<1> QED
  BY <1>1, <1>2, <1>3

\* So does a step of a caller, but resize()
LEMMA CallerRoom ==
    ASSUME Shape, Roomy(self), NEW a \in Callers, CallerStep(a) \/ Call(a) \/ CloseCancelled(a)
    PROVE  /\ "resize" \in calls' \/ Roomy(self')
           /\ UNCHANGED null /\ calls \subseteq calls'
<1>0. Types /\ self \in Pools
  BY DEF Shape, Types
<1>1. ASSUME NEW g \in Pools, g = self', g.lock = self.lock, g.minSize = self.minSize,
             g.maxSize = self.maxSize, g.nconns = self.nconns
      PROVE  Roomy(self')
  BY <1>0, <1>1, RoomKept
<1>2. CASE FailWaiting(a) \/ CloseCancelled(a) \/ CheckNext(a)
  BY <1>2 DEF FailWaiting, CloseCancelled, CheckNext, history
<1>3. CASE Checked(a)
  <2>1. UNCHANGED <<null, calls>> /\ loc[a].conn \in Conns
    BY <1>3, CheckedEffect DEF Checked, history, Passing
  <2>2. \/ Replaces(a, loc[a].conn, "checking", self)
        \/ AddForms(a, loc[a].conn, "checking", FALSE, self)
    BY <1>3, CheckedEffect
  <2>3. Replaces(a, loc[a].conn, "checking", self)
          => ReturnForms(a, loc[a].conn, "checking", "idle", self)
    BY DEF ReturnForms
  <2>4. FALSE \in BOOLEAN
    OBVIOUS
  <2> QED
    BY <1>0, <2>1, <2>2, <2>3, <2>4, AddRoom, ReturnRoom
<1>4. CASE WaitDone(a) \/ Wait(a)
  <2>1. /\ self' \in Pools /\ self'.lock = self.lock /\ self'.nconns = self.nconns
        /\ self'.minSize = self.minSize /\ self'.maxSize = self.maxSize
        /\ UNCHANGED null /\ calls \subseteq calls'
    BY <1>4, WaitDoneEffect, WaitEffect DEF history, Calling
  <2> QED
    BY <1>0, <2>1, RoomKept
<1>5. CASE Check(a)
  <2>1. /\ Steady(self, self') /\ self.lock = NoTask
        /\ \/ self'.nconns = self.nconns
           \/ self'.nconns = self.nconns + 1 /\ self.nconns < self.maxSize
        /\ UNCHANGED null /\ calls \subseteq calls'
    BY <1>5, CheckEffect DEF Calling
  <2> QED
    BY <1>0, <2>1, RoomKept, RoomMore DEF Steady
<1>6. CASE Drain(a) \/ ClosePool(a)
  <2>1. /\ Steady(self, self') /\ self'.nconns = self.nconns
        /\ UNCHANGED null /\ calls \subseteq calls'
    BY <1>6, DrainEffect, CloseEffect DEF Calling
  <2> QED
    BY <1>0, <2>1, RoomKept DEF Steady
<1>7. ASSUME NEW size \in NewSizes, Resize(a, size)
      PROVE  "resize" \in calls' /\ UNCHANGED null /\ calls \subseteq calls'
  BY <1>7 DEF Resize, Calling
<1> QED
  BY <1>2, <1>3, <1>4, <1>5, <1>6, <1>7 DEF CallerStep, Call

\* Every step leaves room
LEMMA NextRoom ==
    ASSUME Shape, TasksOpen, Roomy(self), Next
    PROVE  "resize" \in calls' \/ Roomy(self')
<1>0. self \in Pools
  BY DEF Shape, Types
<1>1. CASE Tick \/ TickShrink
  <2>1. Steady(self, self') /\ self'.nconns = self.nconns
    BY <1>1, TickEffect, TickShrinkEffect
  <2> QED
    BY <1>0, <2>1, RoomKept DEF Steady
<1>2. CASE Break
  BY <1>2 DEF Break
<1>3. ASSUME NEW c \in Clients, ClientStep(c) \/ PutStep(c) \/ Start(c) \/ Interrupt(c)
      PROVE  Roomy(self')
  BY <1>3, ClientRoom
<1>4. ASSUME NEW a \in Callers, CallerStep(a) \/ Call(a) \/ CloseCancelled(a)
      PROVE  "resize" \in calls' \/ Roomy(self')
  BY <1>4, CallerRoom
<1> QED
  BY <1>1, <1>2, <1>3, <1>4, WorkerRoom DEF Next

\* A pool that is not resized never counts more than max_size connections, even while a
\* client of a null pool connects
THEOREM WithinCorrect == Spec => []Within
<1>1. Init => Within
  <2> SUFFICES ASSUME Init PROVE Within
    OBVIOUS
  <2>1. MinSize \in Nat /\ MaxSize \in Nat /\ MinSize <= MaxSize
    BY AsyncAssumption DEF AsyncAssumption
  <2>2. /\ self.maxSize = MaxSize /\ self.lock = NoTask
        /\ self.nconns = (IF null THEN 0 ELSE MinSize)
        /\ self.minSize = (IF null THEN 0 ELSE MinSize)
    BY DEF Init, Opened
  <2> QED
    BY <2>1, <2>2 DEF Within, Roomy
<1>2. (Shape /\ Owned) /\ (Shape /\ Owned)' /\ Books /\ Within /\ [Next]_vars => Within'
  <2> SUFFICES ASSUME Shape, Owned, Shape', Books, Within, [Next]_vars PROVE Within'
    OBVIOUS
  <2>1. CASE Next
    <3>1. TasksOpen
      BY OwnedTasks DEF Shape
    <3>2. UNCHANGED null /\ calls \subseteq calls'
      BY <2>1, NextKept DEF Shape, Kept
    <3>3. CASE Unlimited
      BY <3>2, <3>3 DEF Within, Unlimited
    <3>4. CASE Roomy(self)
      BY <2>1, <3>1, <3>4, NextRoom DEF Within, Unlimited
    <3> QED
      BY <3>3, <3>4 DEF Within
  <2>2. CASE UNCHANGED vars
    BY <2>2 DEF vars, history, Within, Unlimited, Roomy
  <2> QED
    BY <2>1, <2>2
<1> QED
  BY <1>1, <1>2, OwnersCorrect, BooksCorrect, PTL DEF Spec

(* The leases of the pool *)

\* What the variables of Leases are in the pool
Lent(l) == IF l.pc \in {"use", "putlock"} THEN l.conn ELSE NoConn
Lease == [k \in Clients |-> Lent(loc[k])]
Dirt == {c \in Conns : status[c] \in {"intrans", "active"}}
Capacity == IF "resize" \in calls \/ (null /\ "wait" \in calls)
            THEN Cardinality(Conns) ELSE MaxSize
LeasedNow == {Lease[k] : k \in Clients} \ {NoConn}

\* A connection is leased to one client, clean, and no more are than may be
Leasing ==
    /\ \A j, k \in Clients : Lease[j] = Lease[k] /\ Lease[j] # NoConn => j = k
    /\ \A k \in Clients : Lease[k] \in Conns \cup {NoConn} /\ Lease[k] \notin Dirt
    /\ IsFiniteSet(LeasedNow) /\ Capacity \in Nat
    /\ Cardinality(LeasedNow) \in Nat /\ Cardinality(LeasedNow) <= Capacity

\* It is so by the invariants of the pool
LEMMA LeasingHolds ==
    ASSUME Shape, Owned, Books, Washed, Within
    PROVE  Leasing
<1>1. /\ Types /\ IsFiniteSet(Conns) /\ NoConn \notin Conns /\ MaxSize \in Nat
      /\ Clients \subseteq Tasks
  BY AsyncAssumption DEF AsyncAssumption, Shape, Tasks
<1>2. ASSUME NEW k \in Clients, Lease[k] # NoConn
      PROVE  /\ Lease[k] = loc[k].conn /\ loc[k].conn \in Conns /\ loc[k].conn \in Live
             /\ loc[k].pc # "reset" /\ loc[k].conn \in Images(Hand, NoConn)
             /\ Hand[k] = loc[k].conn /\ k \in DOMAIN Hand
  <2>1. Lease[k] = loc[k].conn /\ loc[k].pc \in {"use", "putlock"}
    BY <1>2 DEF Lease, Lent
  <2>2. loc[k].conn \in Conns \cup {NoConn}
    BY <1>1 DEF Types, Locals
  <2>3. Hand[k] = loc[k].conn /\ k \in DOMAIN Hand
    BY <1>1 DEF Hand
  <2>4. loc[k].conn \in Images(Hand, NoConn)
    BY <1>2, <2>1, <2>3 DEF Images
  <2>5. loc[k].conn \in Live
    BY <2>4 DEF Owned, OwnedIn
  <2> QED
    BY <1>2, <2>1, <2>2, <2>3, <2>4, <2>5
<1>3. \A j, k \in Clients : Lease[j] = Lease[k] /\ Lease[j] # NoConn => j = k
  BY <1>2 DEF Owned, OwnedIn, OneEach
<1>4. ASSUME NEW k \in Clients
      PROVE  Lease[k] \in Conns \cup {NoConn} /\ Lease[k] \notin Dirt
  <2>1. CASE Lease[k] = NoConn
    BY <1>1, <2>1 DEF Dirt
  <2>2. CASE Lease[k] # NoConn
    <3>1. PICK c \in Conns : c = loc[k].conn
      BY <1>2, <2>2
    <3>2. SUFFICES ASSUME status[c] \in Messy PROVE FALSE
      BY <1>2, <2>2, <3>1 DEF Dirt, Messy
    <3>3. ToWash(c)
      BY <3>2 DEF Washed
    <3>4. ASSUME NEW i \in DOMAIN self.tasks, self.tasks[i].conn = c
          PROVE  FALSE
      <4>1. c \in Images(TaskConns(self.tasks), NoConn)
        BY <1>1, <3>4 DEF Images, TaskConns
      <4> QED
        BY <1>2, <2>2, <3>1, <4>1 DEF Owned, OwnedIn
    <3>5. ASSUME NEW t \in Tasks, loc[t].pc = "reset", loc[t].conn = c
          PROVE  FALSE
      <4>1. Hand[t] = c /\ t \in DOMAIN Hand
        BY <3>5 DEF Hand
      <4>2. t = k
        BY <1>1, <1>2, <2>2, <3>1, <4>1 DEF Owned, OwnedIn, OneEach
      <4> QED
        BY <1>2, <2>2, <3>5, <4>2
    <3> QED
      BY <3>3, <3>4, <3>5 DEF ToWash
  <2> QED
    BY <2>1, <2>2
<1>5. /\ IsFiniteSet(LeasedNow) /\ Cardinality(LeasedNow) \in Nat
      /\ Cardinality(LeasedNow) <= Cardinality(Live)
      /\ Cardinality(LeasedNow) <= Cardinality(Conns)
      /\ Cardinality(Conns) \in Nat
  <2>1. LeasedNow \subseteq Live
    BY <1>2 DEF LeasedNow
  <2>2. Live \subseteq Conns
    BY DEF Live
  <2>3. IsFiniteSet(Live)
    BY <1>1, <2>2, FS_Subset
  <2>4. LeasedNow \subseteq Conns
    BY <2>1, <2>2
  <2> HIDE DEF LeasedNow
  <2> QED
    BY <1>1, <2>1, <2>3, <2>4, FS_Subset, FS_CardinalityType
<1>6. Capacity \in Nat
  BY <1>1, <1>5 DEF Capacity
<1>7. Cardinality(LeasedNow) <= Capacity
  <2>1. CASE Unlimited
    BY <1>5, <2>1 DEF Capacity, Unlimited
  <2>2. CASE ~Unlimited
    <3>1. Roomy(self) /\ Capacity = MaxSize /\ ~(null /\ "wait" \in calls)
      BY <2>2 DEF Within, Capacity, Unlimited
    <3>2. Load <= self.nconns
      BY <3>1 DEF Books, Balanced
    <3>3. /\ NLive \in Nat /\ AddsIn(self.tasks) \in Nat /\ NRetries \in Nat
          /\ NConnecting \in Nat /\ leaked \in Nat /\ self.nconns \in Int
      BY <1>1, CountTypesNext DEF Books
    <3>4. NLive <= self.nconns
      BY <3>2, <3>3 DEF Load
    <3>5. self.nconns <= MaxSize
      BY <3>1 DEF Roomy
    <3>6. Cardinality(LeasedNow) <= NLive
      BY <1>5 DEF NLive
    <3> HIDE DEF LeasedNow, NLive
    <3> QED
      BY <1>1, <1>5, <3>1, <3>3, <3>4, <3>5, <3>6
  <2> QED
    BY <2>1, <2>2
<1> QED
  BY <1>3, <1>4, <1>5, <1>6, <1>7 DEF Leasing

\* ... in the next state too
LEMMA LeasingNext ==
    (Shape /\ Owned /\ Books /\ Washed /\ Within => Leasing)'
<1>1. Shape /\ Owned /\ Books /\ Washed /\ Within => Leasing
  BY LeasingHolds
<1> QED
  BY <1>1, PTL

(* The steps of Leases *)

\* Only client k's lease changes
LeaseOf(k) == \A j \in Clients : j # k => Lease'[j] = Lease[j]

\* A client gets a connection
LEMMA GrantStep ==
    ASSUME Leasing', NEW k \in Clients, LeaseOf(k), Lease[k] = NoConn, Lease'[k] # NoConn,
           UNCHANGED <<Dirt, Capacity>>
    PROVE  L!Next
<1>1. PICK c : c = Lease'[k]
  OBVIOUS
<1>2. c \in Conns /\ c # NoConn /\ c \notin Dirt
  BY <1>1 DEF Leasing
<1>3. c \notin LeasedNow
  <2> SUFFICES ASSUME NEW j \in Clients, Lease[j] = c PROVE FALSE
    BY DEF LeasedNow
  <2>1. j # k
    BY <1>2
  <2>2. Lease'[j] = c
    BY <2>1 DEF LeaseOf
  <2> QED
    BY <1>1, <1>2, <2>1, <2>2 DEF Leasing
<1>4. LeasedNow' = LeasedNow \cup {c}
  BY <1>1, <1>2 DEF LeasedNow, LeaseOf
<1>5. Cardinality(LeasedNow) < Capacity
  <2>1. LeasedNow \subseteq LeasedNow'
    BY <1>4
  <2>2. IsFiniteSet(LeasedNow') /\ Capacity \in Nat /\ Cardinality(LeasedNow') <= Capacity
    BY DEF Leasing
  <2>3. PICK S : S = LeasedNow
    OBVIOUS
  <2>4. PICK T : T = LeasedNow'
    OBVIOUS
  <2>5. IsFiniteSet(S)
    BY <2>1, <2>2, <2>3, <2>4, FS_Subset
  <2>6. Counts(S \cup {c}, Cardinality(S) + 1) /\ Cardinality(S) \in Nat
    BY <1>3, <2>3, <2>5, AddOne, FS_CardinalityType
  <2>7. Cardinality(T) = Cardinality(S) + 1
    BY <1>4, <2>3, <2>4, <2>6 DEF Counts
  <2> QED
    BY <2>2, <2>3, <2>4, <2>6, <2>7
<1>6. Lease' = [Lease EXCEPT ![k] = c]
  BY <1>1 DEF Lease, LeaseOf
<1>7. L!Leased = LeasedNow
  BY DEF L!Leased, LeasedNow, Lease, Lent
<1>8. L!Grant(k, c)
  <2>1. /\ Lease[k] = NoConn /\ c \notin LeasedNow \cup Dirt
        /\ Cardinality(LeasedNow) < Capacity
    <3>1. c \notin Dirt
      BY <1>2
    <3> QED
      BY <1>3, <1>5, <3>1
  <2>2. L!Cardinality(L!Leased) = Cardinality(LeasedNow)
    BY <1>7 DEF L!Cardinality, Cardinality
  <2>3. UNCHANGED <<Dirt, Capacity>>
    OBVIOUS
  <2> QED
    BY <1>6, <1>7, <2>1, <2>2, <2>3 DEF L!Grant, Lease, Lent, Dirt, Capacity
<1> QED
  BY <1>2, <1>8 DEF L!Next

\* ... or gives one back
LEMMA GiveStep ==
    ASSUME Leasing, NEW k \in Clients, LeaseOf(k), Lease[k] # NoConn, Lease'[k] = NoConn,
           \A c \in Conns : c # Lease[k] => status'[c] = status[c], UNCHANGED Capacity
    PROVE  L!Next
<1>1. Lease[k] \in Conns /\ Lease[k] \notin Dirt
  BY DEF Leasing
<1>2. Lease' = [Lease EXCEPT ![k] = NoConn]
  BY DEF Lease, LeaseOf
<1>3. Dirt' \in {Dirt, Dirt \cup {Lease[k]}}
  <2>1. \A c \in Conns : c # Lease[k] => (c \in Dirt' <=> c \in Dirt)
    BY DEF Dirt
  <2>2. Dirt \subseteq Conns /\ Dirt' \subseteq Conns
    BY DEF Dirt
  <2> HIDE DEF Dirt, Lease
  <2> QED
    BY <1>1, <2>1, <2>2
<1>4. L!GiveBack(k)
  BY <1>2, <1>3 DEF L!GiveBack, Lease, Lent, Dirt, Capacity
<1> QED
  BY <1>4 DEF L!Next

\* ... or the pool works on connections that nobody has
LEMMA MaintainStep ==
    ASSUME Leasing', UNCHANGED <<Lease, Capacity>>
    PROVE  L!Next
<1>1. Dirt' \subseteq Conns \ LeasedNow
  <2>1. LeasedNow' = LeasedNow
    BY DEF LeasedNow
  <2>2. \A c \in Dirt' : c \notin LeasedNow'
    BY DEF Leasing, LeasedNow
  <2>3. Dirt' \subseteq Conns
    BY DEF Dirt
  <2> QED
    BY <2>1, <2>2, <2>3
<1>2. L!Leased = LeasedNow
  BY DEF L!Leased, LeasedNow, Lease, Lent
<1>3. L!Maintain
  BY <1>1, <1>2 DEF L!Maintain, Lease, Lent, Dirt, Capacity
<1> QED
  BY <1>3 DEF L!Next

\* ... or the limit changes
LEMMA ResizeStep ==
    ASSUME Leasing', UNCHANGED <<Lease, Dirt>>
    PROVE  L!Next
<1>1. Capacity' \in Nat
  BY DEF Leasing
<1>2. L!Resize
  BY <1>1 DEF L!Resize, Lease, Lent, Dirt, Capacity
<1> QED
  BY <1>2 DEF L!Next

(* The leases change only with putconn() and where getconn() returns *)

\* The limit stays
LEMMA LimitKept ==
    ASSUME UNCHANGED null,
           UNCHANGED calls \/ \E m : m \notin {"resize", "wait"} /\ calls' = calls \cup {m}
    PROVE  Capacity' = Capacity
<1>1. "resize" \in calls' <=> "resize" \in calls
  OBVIOUS
<1>2. "wait" \in calls' <=> "wait" \in calls
  OBVIOUS
<1> QED
  BY <1>1, <1>2 DEF Capacity

\* Only what task t has changes
LEMMA LeaseOthers ==
    ASSUME NEW t, \A u \in Clients : u # t => Lent(loc'[u]) = Lent(loc[u])
    PROVE  /\ LeaseOf(t)
           /\ t \in Clients => Lease[t] = Lent(loc[t]) /\ Lease'[t] = Lent(loc'[t])
           /\ t \notin Clients \/ Lent(loc'[t]) = Lent(loc[t]) => Lease' = Lease
<1>1. \A u \in Clients : Lease[u] = Lent(loc[u]) /\ Lease'[u] = Lent(loc'[u])
  BY DEF Lease, Lent
<1>2. Lease' = [u \in Clients |-> Lent(loc'[u])] /\ Lease = [u \in Clients |-> Lent(loc[u])]
  BY DEF Lease, Lent
<1>3. ASSUME t \notin Clients \/ Lent(loc'[t]) = Lent(loc[t])
      PROVE  Lease' = Lease
  <2>1. \A u \in Clients : Lent(loc'[u]) = Lent(loc[u])
    BY <1>3
  <2> QED
    BY <1>2, <2>1
<1> QED
  BY <1>1, <1>3 DEF LeaseOf

\* A task goes on
LEMMA MovedLease ==
    ASSUME Shape, NEW t \in Tasks, NEW p, NEW c, NEW n, NEW o, NEW j, Moved(t, p, c, n, o, j)
    PROVE  /\ LeaseOf(t)
           /\ t \in Clients => /\ Lease[t] = Lent(loc[t])
                               /\ Lease'[t] = IF p \in {"use", "putlock"} THEN c ELSE NoConn
           /\ t \notin Clients => Lease' = Lease
           /\ loc[t].pc \notin {"use", "putlock"} /\ p \notin {"use", "putlock"}
                => Lease' = Lease
           /\ {loc[t].pc, p} \subseteq {"use", "putlock"} /\ c = loc[t].conn => Lease' = Lease
<1>1. \A u \in Clients : u # t => Lent(loc'[u]) = Lent(loc[u])
  BY DEF Moved, Tasks
<1>2. Lent(loc'[t]) = IF p \in {"use", "putlock"} THEN c ELSE NoConn
  BY DEF Moved, Lent
<1>3. /\ LeaseOf(t)
      /\ t \in Clients => Lease[t] = Lent(loc[t]) /\ Lease'[t] = Lent(loc'[t])
      /\ t \notin Clients \/ Lent(loc'[t]) = Lent(loc[t]) => Lease' = Lease
  BY <1>1, LeaseOthers
<1>4. loc[t].pc \notin {"use", "putlock"} => Lent(loc[t]) = NoConn
  BY DEF Lent
<1>5. loc[t].pc \in {"use", "putlock"} => Lent(loc[t]) = loc[t].conn
  BY DEF Lent
<1> QED
  BY <1>2, <1>3, <1>4, <1>5

\* Task t has no lease, the others have those they had, and only connection c may change
Passed(t, c) ==
    /\ \A u \in Clients : u # t => Lent(loc'[u]) = Lent(loc[u])
    /\ Lent(loc'[t]) = NoConn
    /\ \A e \in Conns : e # c => status'[e] = status[e]

\* Task t passes a connection on: it has none then, and no other client gets one from
\* it before its wait() returns
LEMMA PassLease ==
    ASSUME Shape, NEW t, NEW c, NEW n, NEW s, Passing(t, c, n, s),
           \/ \E grow \in BOOLEAN : AddForms(t, c, n, grow, s)
           \/ \E st : ReturnForms(t, c, n, st, s)
           \/ s = self /\ \E st : Queues(t, c, n, st)
           \/ s = self /\ n = "idle" /\ Closes(t, c)
    PROVE  /\ LeaseOf(t) /\ (t \in Clients => Lease[t] = Lent(loc[t]) /\ Lease'[t] = NoConn)
           /\ t \notin Clients \/ loc[t].pc \notin {"use", "putlock"} => Lease' = Lease
           /\ \A e \in Conns : e # c => status'[e] = status[e]
<1>0. t \in Tasks /\ n \notin {"use", "putlock"}
  BY DEF Passing, Onward, Nexts
<1>1. Passed(t, c)
  <2>1. ASSUME NEW p, p \notin {"use", "putlock"}, NEW e, NEW m, NEW o, NEW j,
               Moved(t, p, e, m, o, j), NEW st, Becomes(c, st)
        PROVE  Passed(t, c)
    <3>1. \A u \in Clients : u # t => Lent(loc'[u]) = Lent(loc[u])
      BY <2>1 DEF Moved, Tasks
    <3>2. Lent(loc'[t]) = NoConn
      BY <2>1 DEF Moved, Lent
    <3> QED
      BY <2>1, <3>1, <3>2 DEF Passed, Becomes
  <2>2. ASSUME Left(t, n), NEW st, Becomes(c, st) PROVE Passed(t, c)
    BY <1>0, <2>1, <2>2 DEF Left
  <2>3. ASSUME NEW grow \in BOOLEAN, AddForms(t, c, n, grow, s) PROVE Passed(t, c)
    <3>1. CASE AddWaits(t, c, n, s)
      BY <2>1, <3>1 DEF AddWaits
    <3>2. CASE AddDrops(t, c, n, grow, s) \/ AddCloses(t, c, n, grow, s)
               \/ AddKeeps(t, c, n, grow, s)
      BY <2>2, <3>2 DEF AddDrops, AddCloses, AddKeeps
    <3>3. CASE AddGives(t, c, n, grow, s)
      <4>1. PICK k \in Clients : k # t /\ loc[k].pc = "wait" /\ LeftGiving(t, n, k, c)
        BY <3>3 DEF AddGives
      <4>2. Lent(loc[k]) = NoConn /\ Lent(loc'[k]) = NoConn
        BY <4>1 DEF LeftGiving, Lent
      <4>3. Lent(loc'[t]) = NoConn
        BY <1>0, <4>1 DEF LeftGiving, Lent
      <4>4. \A u \in Clients : u # t => Lent(loc'[u]) = Lent(loc[u])
        BY <4>1, <4>2 DEF LeftGiving, Tasks
      <4>5. \A e \in Conns : e # c => status'[e] = status[e]
        BY <3>3 DEF AddGives, Becomes
      <4> QED
        BY <4>3, <4>4, <4>5 DEF Passed
    <3> QED
      BY <2>3, <3>1, <3>2, <3>3 DEF AddForms
  <2>4. ASSUME NEW st, ReturnForms(t, c, n, st, s) PROVE Passed(t, c)
    <3>1. CASE Replaces(t, c, n, s)
      BY <2>2, <3>1 DEF Replaces
    <3>2. CASE Resets(t, c, n, st, s)
      BY <2>1, <3>2 DEF Resets
    <3>3. CASE AddForms(t, c, n, FALSE, s)
      BY <2>3, <3>3
    <3> QED
      BY <2>4, <3>1, <3>2, <3>3 DEF ReturnForms
  <2>5. ASSUME NEW st, Queues(t, c, n, st) PROVE Passed(t, c)
    BY <2>2, <2>5 DEF Queues
  <2>6. ASSUME n = "idle", Closes(t, c) PROVE Passed(t, c)
    BY <2>2, <2>6 DEF Closes
  <2> QED
    BY <2>3, <2>4, <2>5, <2>6
<1>2. /\ LeaseOf(t)
      /\ t \in Clients => Lease[t] = Lent(loc[t]) /\ Lease'[t] = Lent(loc'[t])
      /\ t \notin Clients \/ Lent(loc'[t]) = Lent(loc[t]) => Lease' = Lease
  BY <1>1, LeaseOthers DEF Passed
<1>3. loc[t].pc \notin {"use", "putlock"} => Lent(loc[t]) = NoConn
  BY DEF Lent
<1> QED
  BY <1>1, <1>2, <1>3 DEF Passed

(* Every step is one of Leases *)

\* A client with a connection has it checked, or gets it
LEMMA GotStep ==
    ASSUME Shape, Leasing', NEW k \in Clients, loc[k].pc \notin {"use", "putlock"},
           NEW p \in {"check", "use"}, NEW c \in Conns, NEW n, NEW o, NEW j,
           Moved(k, p, c, n, o, j), UNCHANGED <<Dirt, Capacity>>
    PROVE  L!Next
<1>0. k \in Tasks /\ c # NoConn
  BY AsyncAssumption DEF AsyncAssumption, Tasks
<1>1. CASE p = "check"
  <2>1. Lease' = Lease
    BY <1>0, <1>1, MovedLease
  <2> QED
    BY <2>1, MaintainStep
<1>2. CASE p = "use"
  <2>1. LeaseOf(k) /\ Lease[k] = Lent(loc[k]) /\ Lease'[k] = c
    BY <1>0, <1>2, MovedLease
  <2>2. Lease[k] = NoConn
    BY <2>1 DEF Lent
  <2> QED
    BY <1>0, <2>1, <2>2, GrantStep
<1> QED
  BY <1>1, <1>2

\* A client that uses a connection has a lease, and no other does
LEMMA GivenStep ==
    ASSUME Shape, Leasing, NEW k \in Clients, loc[k].pc \in {"use", "putlock"},
           LeaseOf(k), Lease[k] = Lent(loc[k]), Lease'[k] = NoConn,
           \A c \in Conns : c # loc[k].conn => status'[c] = status[c], UNCHANGED Capacity
    PROVE  L!Next
<1>1. Fits(k, loc[k])
  BY ClientFields
<1>2. Lease[k] = loc[k].conn /\ loc[k].conn # NoConn
  BY <1>1 DEF Fits, Holding, Lent
<1> QED
  BY <1>2, GiveStep

\* The pool has a connection back from a client
LEMMA BackStep ==
    ASSUME Shape, Leasing, Leasing', NEW k \in Clients, NEW n, NEW st,
           Passing(k, loc[k].conn, n, self), UNCHANGED Capacity,
           \/ ReturnForms(k, loc[k].conn, n, st, self)
           \/ Queues(k, loc[k].conn, n, st)
           \/ n = "idle" /\ Closes(k, loc[k].conn)
    PROVE  L!Next
<1>1. /\ LeaseOf(k) /\ Lease[k] = Lent(loc[k]) /\ Lease'[k] = NoConn
      /\ loc[k].pc \notin {"use", "putlock"} => Lease' = Lease
      /\ \A e \in Conns : e # loc[k].conn => status'[e] = status[e]
  BY PassLease
<1>2. CASE loc[k].pc \in {"use", "putlock"}
  BY <1>1, <1>2, GivenStep
<1>3. CASE loc[k].pc \notin {"use", "putlock"}
  BY <1>1, <1>3, MaintainStep
<1> QED
  BY <1>2, <1>3

\* A client's step
LEMMA ClientLeases ==
    ASSUME Shape, Leasing, Leasing', NEW c \in Clients,
           ClientStep(c) \/ PutStep(c) \/ Start(c) \/ Interrupt(c)
    PROVE  L!Next
<1>0. c \in Tasks /\ Types
  BY ClientFields
<1>1. UNCHANGED connVars => UNCHANGED Dirt
  BY DEF connVars, Dirt
<1>2. ASSUME UNCHANGED <<null, calls>> PROVE UNCHANGED Capacity
  BY <1>2, LimitKept
<1>3. ASSUME UNCHANGED <<null, calls>>, loc[c].pc \notin {"use", "putlock"},
             NEW p, p \notin {"use", "putlock"}, NEW k, NEW n, NEW o, NEW j,
             Moved(c, p, k, n, o, j)
      PROVE  L!Next
  <2>1. Lease' = Lease
    BY <1>0, <1>3, MovedLease
  <2> QED
    BY <1>2, <1>3, <2>1, MaintainStep
<1>4. CASE GetReady(c)
  <2>1. /\ UNCHANGED <<null, calls>> /\ UNCHANGED connVars /\ Head(self.pool) \in Conns
        /\ loc[c].pc \notin {"use", "putlock"}
    BY <1>4, ReadyEffect DEF history
  <2>2. PICK p \in {"check", "use"} :
            Moved(c, p, Head(self.pool), loc[c].next, loc[c].out, loc[c].job)
    BY <1>4, ReadyEffect
  <2> QED
    BY <1>1, <1>2, <2>1, <2>2, GotStep
<1>5. ASSUME NEW k \in Conns, NullConnected(c, k) PROVE L!Next
  <2>1. /\ UNCHANGED <<null, calls>> /\ status[k] = "absent" /\ Becomes(k, "idle")
        /\ loc[c].pc \notin {"use", "putlock"}
    BY <1>5, NullConnectedEffect DEF history
  <2>2. PICK p \in {"check", "use"} :
            Moved(c, p, k, loc[c].next, loc[c].out, loc[c].job)
    BY <1>5, NullConnectedEffect
  <2>3. UNCHANGED Dirt
    <3>1. \A e \in Conns : status'[e] \in {"intrans", "active"}
                              <=> status[e] \in {"intrans", "active"}
      BY <2>1 DEF Becomes
    <3> QED
      BY <3>1 DEF Dirt
  <2> QED
    BY <1>2, <2>1, <2>2, <2>3, GotStep
<1>6. CASE Quiet(c)
  <2>1. /\ UNCHANGED <<null, calls>> /\ UNCHANGED connVars
        /\ loc[c].pc \notin {"use", "putlock"}
    BY <1>6, QuietEffect
  <2>2. PICK p, n, o, j :
            /\ p \in {"idle", "lock", "check", "use"} /\ Moved(c, p, loc[c].conn, n, o, j)
            /\ p \in {"check", "use"} <=> loc[c].pc \in {"got", "check"}
    BY <1>6, QuietEffect
  <2>3. CASE p \in {"check", "use"}
    <3>1. loc[c].conn \in Conns
      BY <2>2, <2>3, ClientFields
    <3> QED
      BY <1>1, <1>2, <2>1, <2>2, <2>3, <3>1, GotStep
  <2>4. CASE p \in {"idle", "lock"}
    BY <1>3, <2>1, <2>2, <2>4
  <2> QED
    BY <2>2, <2>3, <2>4
<1>7. CASE GetQueue(c)
  <2>1. UNCHANGED <<null, calls>> /\ loc[c].pc \notin {"use", "putlock"}
        /\ Moved(c, "wait", loc[c].conn, loc[c].pc, loc[c].out, loc[c].job)
    BY <1>7, QueueUpEffect DEF history
  <2> QED
    BY <1>3, <2>1
<1>8. CASE NullConnect(c)
  <2>1. UNCHANGED <<null, calls>> /\ loc[c].pc \notin {"use", "putlock"}
        /\ Moved(c, "connect", loc[c].conn, loc[c].next, loc[c].out, loc[c].job)
    BY <1>8, NullConnectEffect DEF history
  <2> QED
    BY <1>3, <2>1
<1>9. CASE NullConnectFailed(c)
  <2>1. UNCHANGED <<null, calls>> /\ loc[c].pc \notin {"use", "putlock"}
        /\ Moved(c, "idle", NoConn, "idle", loc[c].out, NewConnection)
    BY <1>9, NullFailedEffect DEF history, Left
  <2> QED
    BY <1>3, <2>1
<1>10. CASE WaitInterrupted(c)
  <2>1. /\ UNCHANGED <<null, calls>> /\ loc[c].pc \in {"wait", "got"}
        /\ loc'[c].pc = "idle"
        /\ \A u \in Tasks : u # c => loc'[u].pc = loc[u].pc /\ loc'[u].conn = loc[u].conn
    BY <1>10, InterruptedEffect
  <2>2. Lent(loc'[c]) = NoConn /\ Lent(loc[c]) = NoConn
    BY <2>1 DEF Lent
  <2>3. \A u \in Clients : u # c => Lent(loc'[u]) = Lent(loc[u])
    BY <2>1 DEF Lent, Tasks
  <2>4. Lease' = Lease
    BY <2>2, <2>3, LeaseOthers
  <2> QED
    BY <1>2, <2>1, <2>4, MaintainStep
<1>11. ASSUME NEW st \in Leaves, PutConn(c, st) PROVE L!Next
  <2>1. UNCHANGED <<null, calls>>
    BY <1>11 DEF PutConn, history
  <2> QED
    BY <1>2, <1>11, <2>1, PutConnEffect, BackStep
<1>12. ASSUME NEW st \in Leaves, NullPutConn(c, st) PROVE L!Next
  <2>1. UNCHANGED <<null, calls>>
    BY <1>12 DEF NullPutConn, history
  <2>2. CASE loc[c].pc \in {"use", "putlock"} /\ NullPut(c, st)
    BY <1>2, <2>1, <2>2, NullPutEffect, BackStep
  <2>3. CASE loc[c].pc = "use" /\ loc' = GoTo(c, "putlock")
    <3>1. Moved(c, "putlock", loc[c].conn, loc[c].next, loc[c].out, loc[c].job)
      BY <1>0, <2>3, MovesPc, Names
    <3>2. Lease' = Lease
      BY <1>0, <2>3, <3>1, MovedLease
    <3> QED
      BY <1>2, <2>1, <3>2, MaintainStep
  <2> QED
    BY <1>12, <2>2, <2>3 DEF NullPutConn
<1>13. ASSUME NEW st \in Leaves, CheckBad(c, st) PROVE L!Next
  <2>1. UNCHANGED <<null, calls>> /\ loc[c].pc = "check" /\ PutBack(c, st, "sleep")
    BY <1>13 DEF CheckBad, history
  <2>2. Passing(c, loc[c].conn, "sleep", self)
        /\ (\/ Queues(c, loc[c].conn, "sleep", st)
            \/ ReturnForms(c, loc[c].conn, "sleep", st, self))
    BY <2>1, PutBackEffect
  <2> QED
    BY <1>2, <2>1, <2>2, BackStep
<1>14. CASE PutCancelled(c)
  <2>1. /\ UNCHANGED <<null, calls>> /\ Close({loc[c].conn}) /\ loc' = Leaving(c, "idle")
        /\ loc[c].pc \in {"putlock", "add"}
    BY <1>14 DEF PutCancelled
  <2>2. Moved(c, "idle", NoConn, "idle", loc[c].out, NewConnection)
    BY <1>0, <2>1, MovesLeaving, Names DEF Left
  <2>3. CASE loc[c].pc = "add"
    BY <1>3, <2>1, <2>2, <2>3
  <2>4. CASE loc[c].pc = "putlock"
    <3>1. LeaseOf(c) /\ Lease[c] = Lent(loc[c]) /\ Lease'[c] = NoConn
      BY <1>0, <2>2, MovedLease
    <3>2. \A e \in Conns : e # loc[c].conn => status'[e] = status[e]
      BY <2>1 DEF Close
    <3> QED
      BY <1>2, <2>1, <2>4, <3>1, <3>2, GivenStep
  <2> QED
    BY <2>1, <2>3, <2>4
<1> QED
  BY <1>4, <1>5, <1>6, <1>7, <1>8, <1>9, <1>10, <1>11, <1>12, <1>13, <1>14
     DEF ClientStep, PutStep, Start, Interrupt, Quiet

\* A step of a worker, or one that returns a connection
LEMMA WorkerLeases ==
    ASSUME Shape, TasksOpen, Leasing',
           \/ \E t \in Tasks : Reset(t) \/ AddLocked(t)
           \/ \E w \in Workers : WorkerStep(w)
    PROVE  L!Next
<1>0. Types
  BY DEF Shape
<1>1. ASSUME UNCHANGED <<null, calls>>, Lease' = Lease PROVE L!Next
  BY <1>1, LimitKept, MaintainStep
<1>2. ASSUME NEW t \in Tasks, Reset(t) PROVE L!Next
  <2>1. UNCHANGED <<null, calls>> /\ loc[t].pc = "reset"
    BY <1>2 DEF Reset, history
  <2>2. Lease' = Lease
    BY <1>2, <2>1, ResetEffect, PassLease
  <2> QED
    BY <1>1, <2>1, <2>2
<1>3. ASSUME NEW t \in Tasks, AddLocked(t) PROVE L!Next
  <2>1. UNCHANGED <<null, calls>> /\ loc[t].pc = "add" /\ FALSE \in BOOLEAN
    BY <1>3 DEF AddLocked, history
  <2>2. Lease' = Lease
    BY <1>3, <2>1, AddLockedEffect, PassLease
  <2> QED
    BY <1>1, <2>1, <2>2
<1>4. ASSUME NEW w \in Workers, WorkerStep(w) PROVE L!Next
  <2>0. w \in Tasks /\ w \notin Clients
    BY WorkerFields
  <2>1. ASSUME NEW p, NEW c, NEW n, NEW o, NEW j, Moved(w, p, c, n, o, j)
        PROVE  Lease' = Lease
    BY <2>0, <2>1, MovedLease
  <2>2. UNCHANGED loc => Lease' = Lease
    BY DEF Lease
  <2>3. CASE WorkerStop(w) \/ WorkerAdd(w) \/ WorkerDiscard(w)
    <3>1. /\ UNCHANGED <<null, calls>>
          /\ UNCHANGED loc \/ \E p, c, n, o, j : Moved(w, p, c, n, o, j)
      BY <2>3, TakeEffect DEF history
    <3> QED
      BY <1>1, <2>1, <2>2, <3>1
  <2>4. CASE WorkerReturn(w)
    <3>1. PICK c : c = Head(self.tasks).conn
      OBVIOUS
    <3>2. Passing(w, c, "idle", Taken)
      BY <2>4, <3>1, WorkerReturnEffect
    <3>3. self.tasks # <<>> /\ Head(self.tasks).kind = "return" /\ UNCHANGED <<null, calls>>
      BY <2>4 DEF WorkerReturn, Take, history
    <3>4. status[c] # "absent"
      BY <1>0, <3>1, <3>3, HeadOpen
    <3>5. ReturnForms(w, c, "idle", status[c], Taken)
      BY <2>4, <3>1, <3>4, WorkerReturnEffect
    <3>6. PICK s : s = Taken
      OBVIOUS
    <3>7. Lease' = Lease
      BY <2>0, <3>2, <3>5, <3>6, PassLease
    <3> QED
      BY <1>1, <3>3, <3>7
  <2>5. ASSUME NEW k \in Conns, Connected(w, k) PROVE L!Next
    <3>1. UNCHANGED <<null, calls>>
      BY <2>5 DEF Connected, history
    <3>2. Lease' = Lease
      BY <2>0, <2>5, ConnectedEffect, PassLease
    <3> QED
      BY <1>1, <3>1, <3>2
  <2>6. CASE ConnectRetry(w) \/ ConnectGiveUp(w)
    <3>1. UNCHANGED <<null, calls>> /\ Left(w, "idle")
      BY <2>6, RetryEffect, GiveUpEffect DEF history
    <3> QED
      BY <1>1, <2>1, <3>1 DEF Left
  <2>7. CASE Shrink(w)
    <3>1. UNCHANGED <<null, calls>> /\ UNCHANGED loc
      BY <2>7, ShrinkEffect DEF history
    <3> QED
      BY <1>1, <2>2, <3>1
  <2> QED
    BY <1>4, <2>3, <2>4, <2>5, <2>6, <2>7 DEF WorkerStep
<1> QED
  BY <1>2, <1>3, <1>4

\* A step of a caller
LEMMA CallerLeases ==
    ASSUME Shape, Leasing', NEW a \in Callers, CallerStep(a) \/ Call(a) \/ CloseCancelled(a)
    PROVE  L!Next
<1>0. a \in Tasks /\ a \notin Clients /\ Types
  BY CallerFields
<1>1. ASSUME UNCHANGED null,
             UNCHANGED calls
             \/ \E m : m \notin {"resize", "wait"} /\ calls' = calls \cup {m},
             \/ UNCHANGED loc
             \/ \E p, c, n, o, j : Moved(a, p, c, n, o, j)
             \/ Lease' = Lease
      PROVE  L!Next
  <2>1. Capacity' = Capacity
    BY <1>1, LimitKept
  <2>2. CASE UNCHANGED loc
    BY <2>1, <2>2, MaintainStep DEF Lease
  <2>3. ASSUME NEW p, NEW c, NEW n, NEW o, NEW j, Moved(a, p, c, n, o, j)
        PROVE  L!Next
    <3>1. Lease' = Lease
      BY <1>0, <2>3, MovedLease
    <3> QED
      BY <2>1, <3>1, MaintainStep
  <2>4. CASE Lease' = Lease
    BY <2>1, <2>4, MaintainStep
  <2> QED
    BY <1>1, <2>2, <2>3, <2>4
<1>2. CASE FailWaiting(a)
  <2>1. /\ UNCHANGED <<null, calls>>
        /\ \A u \in Tasks : u # a =>
              /\ loc'[u].pc = IF u \in loc[a].out THEN "failed" ELSE loc[u].pc
              /\ loc'[u].conn = loc[u].conn
    BY <1>2, FailEffect DEF history
  <2>2. \A u \in loc[a].out \cap Clients : loc[u].pc = "wait"
    BY <1>0 DEF Shape, Queued
  <2>3. \A u \in Clients : u # a => Lent(loc'[u]) = Lent(loc[u])
    <3> SUFFICES ASSUME NEW u \in Clients PROVE Lent(loc'[u]) = Lent(loc[u])
      OBVIOUS
    <3>1. u \in Tasks /\ u # a
      BY <1>0 DEF Tasks
    <3>2. CASE u \in loc[a].out
      <4>1. loc[u].pc = "wait" /\ loc'[u].pc = "failed"
        BY <2>1, <2>2, <3>1, <3>2
      <4> QED
        BY <4>1 DEF Lent
    <3>3. CASE u \notin loc[a].out
      <4>1. loc'[u].pc = loc[u].pc /\ loc'[u].conn = loc[u].conn
        BY <2>1, <3>1, <3>3
      <4> QED
        BY <4>1 DEF Lent
    <3> QED
      BY <3>2, <3>3
  <2>4. Lease' = Lease
    BY <1>0, <2>3, LeaseOthers
  <2> QED
    BY <1>1, <2>1, <2>4
<1>3. CASE CloseCancelled(a)
  <2>1. UNCHANGED <<null, calls>> /\ loc' = [loc EXCEPT ![a] = At("idle", NoConn, "idle")]
    BY <1>3 DEF CloseCancelled
  <2>2. Restarted(a, "idle", NoConn)
    BY <1>0, <2>1, MovesRestarted, Names
  <2> QED
    BY <1>1, <2>1, <2>2 DEF Restarted
<1>4. CASE CheckNext(a)
  <2>1. UNCHANGED <<null, calls>> /\ \E p, c, n, o, j : Moved(a, p, c, n, o, j)
    BY <1>4, CheckNextEffect DEF history
  <2> QED
    BY <1>1, <2>1
<1>5. CASE Checked(a)
  <2>1. UNCHANGED <<null, calls>> /\ FALSE \in BOOLEAN
    BY <1>5 DEF Checked, history
  <2>2. /\ Passing(a, loc[a].conn, "checking", self)
        /\ \/ Replaces(a, loc[a].conn, "checking", self)
           \/ AddForms(a, loc[a].conn, "checking", FALSE, self)
    BY <1>5, CheckedEffect
  <2>3. Replaces(a, loc[a].conn, "checking", self)
          => ReturnForms(a, loc[a].conn, "checking", "idle", self)
    BY DEF ReturnForms
  <2>4. Lease' = Lease
    BY <1>0, <2>1, <2>2, <2>3, PassLease
  <2> QED
    BY <1>1, <2>1, <2>4
<1>6. CASE WaitDone(a)
  <2>1. /\ UNCHANGED <<null, calls>>
        /\ Moved(a, "idle", loc[a].conn, loc[a].next, loc[a].out, loc[a].job)
    BY <1>6, WaitDoneEffect DEF history
  <2> QED
    BY <1>1, <2>1
<1>7. ASSUME UNCHANGED connVars, UNCHANGED loc \/ \E p, c, n, o, j : Moved(a, p, c, n, o, j)
      PROVE  L!Next
  <2>1. UNCHANGED Dirt
    BY <1>7 DEF Dirt, connVars
  <2>2. CASE UNCHANGED loc
    BY <2>1, <2>2, ResizeStep DEF Lease
  <2>3. ASSUME NEW p, NEW c, NEW n, NEW o, NEW j, Moved(a, p, c, n, o, j)
        PROVE  L!Next
    <3>1. Lease' = Lease
      BY <1>0, <2>3, MovedLease
    <3> QED
      BY <2>1, <3>1, ResizeStep
  <2> QED
    BY <1>7, <2>2, <2>3
<1>8. CASE Wait(a)
  <2>1. /\ UNCHANGED connVars
        /\ UNCHANGED loc \/ \E p, c, n, o, j : Moved(a, p, c, n, o, j)
    BY <1>8, WaitEffect
  <2> QED
    BY <1>7, <2>1
<1>9. ASSUME NEW size \in NewSizes, Resize(a, size) PROVE L!Next
  <2>1. UNCHANGED connVars /\ UNCHANGED loc
    BY <1>9, ResizeEffect
  <2> QED
    BY <1>7, <2>1
<1>10. CASE Check(a)
  <2>1. /\ UNCHANGED null /\ calls' = calls \cup {"check"}
        /\ \E p, c, n, o, j : Moved(a, p, c, n, o, j)
    BY <1>10, CheckEffect DEF Calling
  <2> QED
    BY <1>1, <2>1
<1>11. CASE Drain(a)
  <2>1. UNCHANGED null /\ calls' = calls \cup {"drain"} /\ UNCHANGED loc
    BY <1>11, DrainEffect DEF Calling
  <2> QED
    BY <1>1, <2>1
<1>12. CASE ClosePool(a)
  <2>1. UNCHANGED null /\ (UNCHANGED calls \/ calls' = calls \cup {"close"})
    BY <1>12 DEF ClosePool, Calling
  <2>2. \E p, c, n, o, j : Moved(a, p, c, n, o, j)
    BY <1>12, CloseEffect
  <2> QED
    BY <1>1, <2>1, <2>2
<1> QED
  BY <1>2, <1>3, <1>4, <1>5, <1>6, <1>8, <1>9, <1>10, <1>11, <1>12 DEF CallerStep, Call

\* Every step
LEMMA NextLeases ==
    ASSUME Shape, TasksOpen, Leasing, Leasing', Next
    PROVE  L!Next
<1>1. ASSUME UNCHANGED <<null, calls, loc>> PROVE L!Next
  <2>1. Lease' = Lease /\ Capacity' = Capacity
    BY <1>1, LimitKept DEF Lease
  <2> QED
    BY <2>1, MaintainStep
<1>2. CASE Tick \/ TickShrink
  BY <1>1, <1>2, TickEffect, TickShrinkEffect DEF history
<1>3. CASE Break
  BY <1>1, <1>3 DEF Break, history
<1>4. ASSUME NEW c \in Clients, ClientStep(c) \/ PutStep(c) \/ Start(c) \/ Interrupt(c)
      PROVE  L!Next
  BY <1>4, ClientLeases
<1>5. ASSUME NEW a \in Callers, CallerStep(a) \/ Call(a) \/ CloseCancelled(a)
      PROVE  L!Next
  BY <1>5, CallerLeases
<1> QED
  BY <1>2, <1>3, <1>4, <1>5, WorkerLeases DEF Next

\* Both pools implement Leases: a connection is with one client at a time, never in the
\* transaction of another, and no more than max_size of them are
THEOREM LeasesCorrect == Spec => ImplementsLeases
<1>1. Init => L!Init
  <2> SUFFICES ASSUME Init PROVE L!Init
    OBVIOUS
  <2>1. Lease = [k \in Clients |-> NoConn]
    <3>1. \A k \in Clients : Lent(loc[k]) = NoConn
      BY DEF Init, At, Lent, Tasks
    <3> QED
      BY <3>1 DEF Lease
  <2>2. Dirt = {}
    BY DEF Init, Dirt
  <2>3. Capacity \in Nat
    BY AsyncAssumption DEF AsyncAssumption, Init, Capacity
  <2> QED
    BY <2>1, <2>2, <2>3 DEF L!Init, Lease, Lent, Dirt, Capacity
<1>2. /\ Shape /\ Owned /\ Books /\ Washed /\ Within
      /\ (Shape /\ Owned /\ Books /\ Washed /\ Within)'
      /\ [Next]_vars
      => [L!Next]_(L!vars)
  <2> SUFFICES ASSUME Shape, Owned, Books, Washed, Within,
                      (Shape /\ Owned /\ Books /\ Washed /\ Within)', [Next]_vars
               PROVE  [L!Next]_(L!vars)
    OBVIOUS
  <2>1. CASE Next
    <3>1. Leasing /\ TasksOpen
      BY LeasingHolds, OwnedTasks DEF Shape
    <3>2. Leasing'
      BY LeasingNext
    <3> QED
      BY <2>1, <3>1, <3>2, NextLeases
  <2>2. CASE UNCHANGED vars
    BY <2>2 DEF vars, connVars, history, L!vars
  <2> QED
    BY <2>1, <2>2
<1> QED
  BY <1>1, <1>2, OwnersCorrect, BooksCorrect, WashedCorrect, WithinCorrect, PTL
     DEF Spec, ImplementsLeases, L!Spec

=============================================================================

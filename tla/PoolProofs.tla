------------------------------ MODULE PoolProofs ------------------------------
(***************************************************************************)
(* Proofs about Pool, for any number of clients, workers, callers and      *)
(* connections and any parameters of the pool.                             *)
(***************************************************************************)
EXTENDS Pool, Counting

(* What the provers need to know of tasks *)

\* The tasks the pool creates are tasks
LEMMA TaskTypes ==
    /\ NewConnection \in AddTasks /\ GrowTask \in AddTasks
    /\ AddTasks \subseteq TaskSet
    /\ Schedule \in TaskSet /\ StopWorker \in TaskSet /\ ShrinkPool \in TaskSet
    /\ \A c \in Conns : ReturnConnection(c) \in TaskSet
    /\ ShrinkPool \in Delayable /\ Delayable \subseteq TaskSet
<1> MaxAttempts \in Nat
  BY PoolAssumption DEF PoolAssumption
<1>1. 0 \in 0..MaxAttempts /\ 1..MaxAttempts \subseteq 0..MaxAttempts
  OBVIOUS
<1>2. NewConnection \in AddTasks /\ GrowTask \in AddTasks
  <2>1. \A g \in BOOLEAN, k \in 0..MaxAttempts : AddConnection(g, k) \in AddTasks
    BY DEF AddTasks
  <2> QED
    BY <1>1, <2>1 DEF NewConnection, GrowTask
<1>3. \A d \in Delayable : d = ShrinkPool \/ d \in AddTasks
  BY <1>1 DEF Delayable, AddTasks
<1> QED
  BY <1>2, <1>3 DEF TaskSet, Delayable

\* The fields of a task, by its kind
LEMMA TaskFields ==
    ASSUME NEW t \in TaskSet
    PROVE  /\ t.kind = "add" => t \in AddTasks
           /\ t.kind = "return" => t.conn \in Conns
           /\ t.kind # "return" => t.conn = NoConn
           /\ t.kind \in {"add", "return", "shrink", "schedule", "stop"}
  BY DEF TaskSet, AddTasks, Task, AddConnection, ReturnConnection, ShrinkPool,
     Schedule, StopWorker

\* ... of an AddConnection, which can be delayed until its last attempt
LEMMA AddFields ==
    ASSUME NEW t \in AddTasks
    PROVE  /\ t.kind = "add" /\ t.conn = NoConn
           /\ t.growing \in BOOLEAN /\ t.attempt \in 0..MaxAttempts
           /\ t.attempt < MaxAttempts
                => AddConnection(t.growing, t.attempt + 1) \in Delayable
  BY PoolAssumption DEF PoolAssumption, AddTasks, Task, AddConnection, Delayable

\* Copies of a task are a sequence of tasks
LEMMA CopiesType ==
    ASSUME NEW n \in Int, NEW S, NEW t \in S
    PROVE  Copies(n, t) \in Seq(S)
<1>1. CASE n \in Nat
  BY <1>1 DEF Copies
<1>2. CASE n < 0
  <2>1. 1..n = 1..0
    BY <1>2
  <2> QED
    BY <2>1 DEF Copies
<1> QED
  BY <1>1, <1>2

(* What the actions read *)

\* A task added to the queue
LEMMA AppendTask ==
    ASSUME TypeOK, NEW t \in TaskSet
    PROVE  Append(tasks, t) \in Seq(TaskSet)
  BY DEF TypeOK, TypeTasks

\* A task taken from the queue
LEMMA HeadTask ==
    ASSUME TypeOK, tasks # <<>>
    PROVE  Head(tasks) \in TaskSet /\ Tail(tasks) \in Seq(TaskSet)
  BY DEF TypeOK, TypeTasks

\* A thread holds a connection where it should
LEMMA HeldConn ==
    ASSUME TypeOK, NEW t \in Threads, pc[t] \in Holding
    PROVE  conn[t] \in Conns
  BY DEF TypeOK, TypeThreads

\* _maybe_grow_pool() keeps the types
LEMMA GrowTypes ==
    ASSUME TypeOK, MaybeGrow
    PROVE  nconns' \in Int /\ growing' \in BOOLEAN /\ tasks' \in Seq(TaskSet)
<1>1. CASE nconns >= maxSize \/ growing
  BY <1>1 DEF MaybeGrow, TypeOK, TypeCounts, TypeTasks
<1>2. CASE ~(nconns >= maxSize \/ growing)
  BY <1>2, AppendTask, TaskTypes DEF MaybeGrow, RunTask, TypeOK, TypeCounts
<1> QED
  BY <1>1, <1>2

\* The tasks open() starts with
LEMMA OpenTasks ==
    ASSUME TypeOK
    PROVE  Append(Copies(nconns, NewConnection), Schedule) \in Seq(TaskSet)
BY CopiesType, TaskTypes DEF TypeOK, TypeCounts

\* The tasks close() queues
LEMMA CloseTasks ==
    ASSUME TypeOK
    PROVE  \A n \in {0, Cardinality(Workers)} :
               tasks \o Copies(n, StopWorker) \in Seq(TaskSet)
BY FS_CardinalityType, PoolAssumption, CopiesType, TaskTypes DEF PoolAssumption, TypeOK,
   TypeTasks

(* A conjunct of TypeOK is kept by a step that leaves its variables alone *)

\* ... for each of the conjuncts
LEMMA UnchangedTypes ==
    ASSUME TypeOK
    PROVE  /\ UNCHANGED flagVars => TypeFlags'
           /\ UNCHANGED sizeVars => TypeSizes'
           /\ UNCHANGED countVars => TypeCounts'
           /\ UNCHANGED <<pool, waiting>> => TypeQueues'
           /\ UNCHANGED taskVars => TypeTasks'
           /\ UNCHANGED threadVars => TypeThreads'
           /\ UNCHANGED callerVars => TypeCallers'
           /\ UNCHANGED posVars => TypePos'
           /\ UNCHANGED connVars => TypeConns'
  BY DEF TypeOK, TypeFlags, TypeSizes, TypeCounts, TypeQueues, TypeTasks,
     TypeThreads, TypeCallers, TypePos, TypeConns, flagVars, sizeVars, countVars,
     taskVars, threadVars, callerVars, posVars, connVars

(***************************************************************************)
(* TypeOK holds of every reachable state: the state keeps its types, and a *)
(* thread holds a connection exactly between getting one (or creating, or  *)
(* taking it out of a task) and handing it on (pool.py:222-280, 656-781).  *)
(***************************************************************************)
THEOREM TypeCorrect == Spec => []TypeOK
<1>1. Init => TypeOK
  <2> SUFFICES ASSUME Init
               PROVE  TypeOK
    OBVIOUS
  <2> USE PoolAssumption DEF PoolAssumption, Init
  <2>1. opened \in BOOLEAN /\ closed \in BOOLEAN /\ growing \in BOOLEAN
    BY Zenon
  <2>2. TypeFlags
    BY <2>1 DEF TypeFlags
  <2>3. TypeQueues
    BY DEF TypeQueues
  <2>4. TypeSizes
    BY DEF TypeSizes
  <2>5. TypeCounts
    BY <2>1 DEF TypeCounts
  <2>6. TypeTasks
    BY DEF TypeTasks
  <2>7. TypeThreads
    BY TaskTypes DEF TypeThreads, PCs, Holding
  <2>8. TypeCallers /\ TypePos
    BY DEF TypeCallers, TypePos
  <2>9. TypeConns
    BY DEF TypeConns
  <2> QED
    BY <2>2, <2>3, <2>4, <2>5, <2>6, <2>7, <2>8, <2>9 DEF TypeOK
<1>2. TypeOK /\ [Next]_vars => TypeOK'
  <2> SUFFICES ASSUME TypeOK, [Next]_vars
               PROVE  TypeOK'
    OBVIOUS
  <2> USE DEF TypeOK
  <2>1. ASSUME NEW c \in Clients, GetConn(c)
        PROVE  TypeOK'
    BY <2>1, UnchangedTypes DEF GetConn, GoTo, TypeThreads, Threads, PCs, Holding, threadVars,
       TypeOK
  <2>2. ASSUME NEW c \in Clients, GetReady(c)
        PROVE  TypeOK'
    BY <2>2, PoolAssumption, UnchangedTypes DEF GetReady, TypeCounts, countVars, TypeQueues,
       GoTo, PoolAssumption, TypeThreads, Threads, PCs, Holding, threadVars, TypeOK
  <2>3. ASSUME NEW c \in Clients, GetTooMany(c)
        PROVE  TypeOK'
    BY <2>3, UnchangedTypes DEF GetTooMany, GoTo, TypeThreads, Threads, PCs, Holding,
       threadVars, TypeOK
  <2>4. ASSUME NEW c \in Clients, GetQueue(c)
        PROVE  TypeOK'
    <3>1. TypeCounts'
      BY <2>4, GrowTypes DEF GetQueue, TypeCounts, countVars
    <3>2. TypeQueues'
      BY <2>4 DEF GetQueue, TypeQueues
    <3>3. TypeTasks'
      BY <2>4, GrowTypes DEF GetQueue, TypeTasks, taskVars
    <3>4. TypeThreads'
      BY <2>4 DEF GetQueue, GoTo, TypeThreads, Threads, PCs, Holding, threadVars
    <3> QED
      BY <2>4, <3>1, <3>2, <3>3, <3>4, UnchangedTypes DEF GetQueue, TypeOK
  <2>5. ASSUME NEW c \in Clients, GetTooLate(c)
        PROVE  TypeOK'
    BY <2>5, UnchangedTypes DEF GetTooLate, GoTo, TypeThreads, Threads, PCs, Holding,
       threadVars, TypeOK
  <2>6. ASSUME NEW c \in Clients, WaitGot(c)
        PROVE  TypeOK'
    BY <2>6, PoolAssumption, UnchangedTypes DEF WaitGot, GoTo, TypePos, PoolAssumption,
       TypeThreads, Threads, PCs, Holding, threadVars, posVars, TypeOK
  <2>7. ASSUME NEW c \in Clients, WaitFailed(c)
        PROVE  TypeOK'
    BY <2>7, UnchangedTypes DEF WaitFailed, GoTo, TypeThreads, Threads, PCs, Holding,
       threadVars, TypePos, posVars, TypeOK
  <2>8. ASSUME NEW c \in Clients, WaitTimeout(c)
        PROVE  TypeOK'
    <3>1. TypeQueues'
      BY <2>8 DEF WaitTimeout, Forget, TypeQueues
    <3>2. TypeThreads'
      BY <2>8, PoolAssumption DEF WaitTimeout, GoTo, TypePos, PoolAssumption,
         TypeThreads, Threads, PCs, Holding, threadVars
    <3>3. TypeCallers'
      BY <2>8 DEF WaitTimeout, Forget, TypeCallers, callerVars
    <3>4. TypePos'
      BY <2>8 DEF WaitTimeout, Forget, TypePos, posVars
    <3> QED
      BY <2>8, <3>1, <3>2, <3>3, <3>4, UnchangedTypes DEF WaitTimeout, TypeOK
  <2>9. ASSUME NEW c \in Clients, CheckGood(c)
        PROVE  TypeOK'
    BY <2>9, UnchangedTypes DEF CheckGood, GoTo, TypeThreads, Threads, PCs, Holding,
       threadVars, TypeOK
  <2>10. ASSUME NEW c \in Clients, CheckBad(c)
        PROVE  TypeOK'
    BY <2>10, UnchangedTypes DEF CheckBad, PutBack, GoTo, TypeThreads, Threads, PCs, Holding,
       threadVars, TypeOK
  <2>11. ASSUME NEW c \in Clients, HandOver(c)
        PROVE  TypeOK'
    BY <2>11, TaskTypes, HeldConn, UnchangedTypes DEF HandOver, RunTask, Threads, Holding,
       TypeTasks, taskVars, GoTo, Release, TypeThreads, PCs, threadVars, TypeOK
  <2>12. ASSUME NEW c \in Clients, NEW st \in Leaves, PutConn(c, st)
        PROVE  TypeOK'
    BY <2>12, PoolAssumption, UnchangedTypes DEF PutConn, PutBack, GoTo, Release, TypeThreads,
       Threads, PCs, Holding, threadVars, Close, PoolAssumption, TypeConns, LiveStatus,
       connVars, TypeOK
  <2>13. ASSUME NEW t \in Threads, ReturnDiscard(t)
        PROVE  TypeOK'
    <3>1. TypeTasks'
      BY <2>13, TaskTypes DEF ReturnDiscard, RunTask, TypeTasks, taskVars
    <3>2. TypeThreads'
      BY <2>13 DEF ReturnDiscard, GoTo, Release, TypeThreads, Threads, PCs, Holding,
         threadVars
    <3>3. TypeConns'
      BY <2>13 DEF ReturnDiscard, Close, TypeConns, LiveStatus, connVars
    <3> QED
      BY <2>13, <3>1, <3>2, <3>3, UnchangedTypes DEF ReturnDiscard, TypeOK
  <2>14. ASSUME NEW t \in Threads, ReturnKeep(t)
        PROVE  TypeOK'
    BY <2>14, UnchangedTypes DEF ReturnKeep, GoTo, TypeThreads, Threads, PCs, Holding,
       threadVars, Close, TypeConns, LiveStatus, connVars, TypeOK
  <2>15. ASSUME NEW t \in Threads, AddClosed(t)
        PROVE  TypeOK'
    BY <2>15, UnchangedTypes DEF AddClosed, GoTo, Release, TypeThreads, Threads, PCs, Holding,
       threadVars, Close, TypeConns, LiveStatus, connVars, TypeOK
  <2>16. ASSUME NEW t \in Threads, AddGive(t)
        PROVE  TypeOK'
    BY <2>16, HeldConn, UnchangedTypes DEF AddGive, TypeQueues, GoTo, Release, TypeThreads,
       Threads, PCs, Holding, threadVars, IsFirst, Alive, TypePos, posVars, TypeOK
  <2>17. ASSUME NEW t \in Threads, AddKeep(t)
        PROVE  TypeOK'
    <3>1. TypeFlags'
      BY <2>17 DEF AddKeep, TypeFlags, flagVars
    <3>2. TypeQueues'
      BY <2>17, HeldConn DEF AddKeep, Holding, TypeQueues
    <3>3. TypeThreads'
      BY <2>17 DEF AddKeep, GoTo, Release, TypeThreads, Threads, PCs, Holding,
         threadVars
    <3> QED
      BY <2>17, <3>1, <3>2, <3>3, UnchangedTypes DEF AddKeep, TypeOK
  <2>18. ASSUME NEW w \in Workers, WorkerStop(w)
        PROVE  TypeOK'
    BY <2>18, UnchangedTypes DEF WorkerStop, Take, TypeTasks, taskVars, GoTo, TypeThreads,
       Threads, PCs, Holding, threadVars, TypeOK
  <2>19. ASSUME NEW w \in Workers, WorkerDiscard(w)
        PROVE  TypeOK'
    BY <2>19, UnchangedTypes DEF WorkerDiscard, Take, TypeTasks, taskVars, Close, TypeConns,
       LiveStatus, connVars, TypeThreads, Threads, PCs, Holding, threadVars, TypeOK
  <2>20. ASSUME NEW w \in Workers, WorkerAdd(w)
        PROVE  TypeOK'
    BY <2>20, HeadTask, TaskFields, UnchangedTypes DEF WorkerAdd, Take, TypeTasks, taskVars,
       GoTo, TypeThreads, Threads, PCs, Holding, threadVars, TypeOK
  <2>21. ASSUME NEW w \in Workers, WorkerReturn(w)
        PROVE  TypeOK'
    BY <2>21, HeadTask, TaskFields, PoolAssumption, UnchangedTypes DEF WorkerReturn, Take,
       TypeTasks, taskVars, GoTo, PoolAssumption, TypeThreads, Threads, PCs, Holding,
       threadVars, TypeOK
  <2>22. ASSUME NEW w \in Workers, WorkerShrink(w)
        PROVE  TypeOK'
    <3>1. TypeTasks'
      BY <2>22, TaskTypes DEF WorkerShrink, Take, Delay, TypeTasks, taskVars
    <3>2. TypeThreads'
      BY <2>22 DEF WorkerShrink, GoTo, Take, TypeThreads, Threads, PCs, Holding,
         threadVars
    <3> QED
      BY <2>22, <3>1, <3>2, UnchangedTypes DEF WorkerShrink, TypeOK
  <2>23. ASSUME NEW w \in Workers, WorkerSchedule(w)
        PROVE  TypeOK'
    BY <2>23, TaskTypes, UnchangedTypes DEF WorkerSchedule, Take, Delay, TypeTasks, taskVars,
       TypeOK
  <2>24. ASSUME NEW w \in Workers, Shrink(w)
        PROVE  TypeOK'
    <3>1. TypeCounts'
      BY <2>24 DEF Shrink, TypeCounts, countVars
    <3>2. TypeQueues'
      BY <2>24 DEF Shrink, TypeQueues
    <3>3. TypeThreads'
      BY <2>24 DEF Shrink, GoTo, TypeThreads, Threads, PCs, Holding, threadVars
    <3>4. TypeConns'
      BY <2>24 DEF Shrink, Close, TypeConns, LiveStatus, connVars
    <3> QED
      BY <2>24, <3>1, <3>2, <3>3, <3>4, UnchangedTypes DEF Shrink, TypeOK
  <2>25. ASSUME NEW w \in Workers, Regrow(w)
        PROVE  TypeOK'
    <3>1. TypeCounts'
      <4>1. CASE MustGrow
        BY <2>25, <4>1 DEF Regrow, TypeCounts, countVars
      <4>2. CASE ~MustGrow
        BY <2>25, <4>2 DEF Regrow, TypeCounts, countVars
      <4> QED
        BY <4>1, <4>2
    <3>2. TypeTasks'
      BY <2>25, TaskTypes DEF Regrow, RunTask, TypeTasks, taskVars
    <3>3. TypeThreads'
      BY <2>25 DEF Regrow, GoTo, TypeThreads, Threads, PCs, Holding, threadVars
    <3> QED
      BY <2>25, <3>1, <3>2, <3>3, UnchangedTypes DEF Regrow, TypeOK
  <2>26. ASSUME NEW w \in Workers, ConnectRetry(w)
        PROVE  TypeOK'
    <3>1. TypeTasks'
      BY <2>26, AddFields DEF ConnectRetry, Delay, TypeThreads, TypeTasks, taskVars
    <3>2. TypeThreads'
      BY <2>26 DEF ConnectRetry, GoTo, TypeThreads, Threads, PCs, Holding,
         threadVars
    <3> QED
      BY <2>26, <3>1, <3>2, UnchangedTypes DEF ConnectRetry, TypeOK
  <2>27. ASSUME NEW w \in Workers, ConnectGiveUp(w)
        PROVE  TypeOK'
    BY <2>27, UnchangedTypes DEF ConnectGiveUp, TypeCounts, countVars, GoTo, TypeThreads,
       Threads, PCs, Holding, threadVars, TypeOK
  <2>28. ASSUME NEW w \in Workers, NEW c \in Conns, ConnectOk(w, c)
        PROVE  TypeOK'
    BY <2>28, PoolAssumption, UnchangedTypes DEF ConnectOk, GoTo, PoolAssumption, TypeThreads,
       Threads, PCs, Holding, threadVars, TypeSizes, TypeConns, LiveStatus, connVars, TypeOK
  <2>29. ASSUME NEW a \in Callers, CloseConns(a)
        PROVE  TypeOK'
    BY <2>29, UnchangedTypes DEF CloseConns, GoTo, TypeThreads, Threads, PCs, Holding,
       threadVars, TypeCallers, callerVars, Close, TypeConns, LiveStatus, connVars, TypeOK
  <2>30. ASSUME NEW a \in Callers, FailWaiting(a)
        PROVE  TypeOK'
    BY <2>30, UnchangedTypes DEF FailWaiting, GoTo, TypeThreads, Threads, PCs, Holding,
       threadVars, TypeCallers, callerVars, TypePos, posVars, TypeOK
  <2>31. ASSUME NEW a \in Callers, DrainNext(a)
        PROVE  TypeOK'
    <3>1. TypeTasks'
      BY <2>31, TaskTypes, AppendTask DEF DrainNext, RunTask, TypeTasks, taskVars
    <3>2. TypeThreads'
      BY <2>31 DEF DrainNext, GoTo, TypeThreads, Threads, PCs, Holding, threadVars
    <3>3. TypeCallers'
      BY <2>31 DEF DrainNext, TypeCallers, callerVars
    <3>4. TypeConns'
      BY <2>31 DEF DrainNext, Close, TypeConns, LiveStatus, connVars
    <3> QED
      BY <2>31, <3>1, <3>2, <3>3, <3>4, UnchangedTypes DEF DrainNext, TypeOK
  <2>32. ASSUME NEW a \in Callers, CheckNext(a)
        PROVE  TypeOK'
    <3>1. TypeTasks'
      BY <2>32, TaskTypes, AppendTask DEF CheckNext, RunTask, TypeTasks, taskVars
    <3>2. TypeThreads'
      <4>1. pc[a] = "checking" /\ a \in Threads /\ UNCHANGED task
        BY <2>32 DEF CheckNext, Threads
      <4>2. CASE UNCHANGED <<pc, conn, ret>>
        BY <4>1, <4>2, UnchangedTypes DEF threadVars
      <4>3. CASE GoTo(a, "idle") /\ UNCHANGED <<conn, ret>>
        BY <4>1, <4>3 DEF GoTo, TypeThreads, PCs, Holding
      <4>4. ASSUME NEW c \in todo[a], conn' = [conn EXCEPT ![a] = c],
                   ret' = [ret EXCEPT ![a] = "checking"], GoTo(a, "add")
            PROVE  TypeThreads'
        BY <4>4, PoolAssumption, <4>1 DEF TypeCallers, PoolAssumption, GoTo, TypeThreads, PCs,
           Holding
      <4> QED
        BY <2>32, <4>2, <4>3, <4>4 DEF CheckNext
    <3>3. TypeCallers'
      BY <2>32, ZenonT(40) DEF CheckNext, TypeCallers, callerVars
    <3>4. TypeConns'
      BY <2>32 DEF CheckNext, Close, TypeConns, LiveStatus, connVars
    <3> QED
      BY <2>32, <3>1, <3>2, <3>3, <3>4, UnchangedTypes DEF CheckNext, TypeOK
  <2>33. ASSUME NEW a \in Callers, ResizeLocked(a)
        PROVE  TypeOK'
    <3>1. TypeSizes'
      BY <2>33 DEF ResizeLocked, TypeCallers, TypeSizes, sizeVars
    <3>2. TypeCounts'
      BY <2>33 DEF ResizeLocked, TypeCounts, countVars
    <3>3. TypeTasks'
      BY <2>33, TaskTypes, CopiesType DEF ResizeLocked, TypeCallers, TypeTasks,
         taskVars
    <3>4. TypeThreads'
      BY <2>33 DEF ResizeLocked, GoTo, TypeThreads, Threads, PCs, Holding,
         threadVars
    <3> QED
      BY <2>33, <3>1, <3>2, <3>3, <3>4, UnchangedTypes DEF ResizeLocked, TypeOK
  <2>34. ASSUME NEW a \in Callers, WaitPoolLocked(a)
        PROVE  TypeOK'
    BY <2>34, UnchangedTypes DEF WaitPoolLocked, TypeFlags, flagVars, GoTo, TypeThreads,
       Threads, PCs, Holding, threadVars, TypeOK
  <2>35. ASSUME NEW a \in Callers, WaitPoolDone(a)
        PROVE  TypeOK'
    BY <2>35, UnchangedTypes DEF WaitPoolDone, TypeFlags, flagVars, GoTo, TypeThreads,
       Threads, PCs, Holding, threadVars, TypeOK
  <2>36. ASSUME NEW a \in Callers, Open(a)
        PROVE  TypeOK'
    BY <2>36, OpenTasks, UnchangedTypes DEF Open, TypeFlags, flagVars, TypeTasks, taskVars,
       TypeOK
  <2>37. ASSUME NEW a \in Callers, ClosePool(a)
        PROVE  TypeOK'
    BY <2>37, UnchangedTypes DEF ClosePool, GoTo, TypeThreads, Threads, PCs, Holding,
       threadVars, TypeOK
  <2>38. ASSUME NEW a \in Callers, Drain(a)
        PROVE  TypeOK'
    BY <2>38, UnchangedTypes DEF Drain, TypeSizes, sizeVars, TypeQueues, GoTo, TypeThreads,
       Threads, PCs, Holding, threadVars, TypeCallers, callerVars, TypeOK
  <2>39. ASSUME NEW a \in Callers, Check(a)
        PROVE  TypeOK'
    <3>1. TypeCounts'
      BY <2>39, GrowTypes DEF Check, TypeCounts, countVars
    <3>2. TypeQueues'
      BY <2>39 DEF Check, TypeQueues
    <3>3. TypeTasks'
      BY <2>39, GrowTypes DEF Check, TypeTasks, taskVars
    <3>4. TypeThreads'
      BY <2>39 DEF Check, GoTo, TypeThreads, Threads, PCs, Holding, threadVars
    <3>5. TypeCallers'
      BY <2>39 DEF Check, TypeQueues, TypeCallers, callerVars
    <3> QED
      BY <2>39, <3>1, <3>2, <3>3, <3>4, <3>5, UnchangedTypes DEF Check, TypeOK
  <2>40. ASSUME NEW a \in Callers, WaitPool(a)
        PROVE  TypeOK'
    BY <2>40, UnchangedTypes DEF WaitPool, GoTo, TypeThreads, Threads, PCs, Holding,
       threadVars, TypeOK
  <2>41. ASSUME NEW a \in Callers, NEW size \in Sizes, Resize(a, size)
        PROVE  TypeOK'
    BY <2>41, PoolAssumption, UnchangedTypes DEF Resize, TypeSizes, sizeVars, GoTo,
       TypeThreads, Threads, PCs, Holding, threadVars, SizePairs, PoolAssumption, TypeCallers,
       callerVars, TypeOK
  <2>42. ASSUME NEW d \in Delayable, Tick(d)
        PROVE  TypeOK'
    BY <2>42, TaskTypes, UnchangedTypes DEF Tick, RunTask, TypeTasks, taskVars, TypeOK
  <2>43. ASSUME NEW i \in 1..Cardinality(Conns), Break(i)
        PROVE  TypeOK'
    BY <2>43, UnchangedTypes DEF Break, TypeConns, LiveStatus, connVars, TypeOK
  <2>44. ASSUME NEW a \in Callers, CloseLocked(a)
        PROVE  TypeOK'
    <3>1. TypeFlags'
      BY <2>44 DEF CloseLocked, TypeFlags, flagVars
    <3>2. TypeQueues'
      BY <2>44 DEF CloseLocked, TypeQueues
    <3>3. TypeTasks'
      BY <2>44, CloseTasks DEF CloseLocked, TypeTasks, taskVars
    <3>4. TypeThreads'
      BY <2>44 DEF CloseLocked, GoTo, TypeThreads, Threads, PCs, Holding, threadVars
    <3>5. TypeCallers'
      BY <2>44 DEF CloseLocked, Alive, TypeQueues, TypeCallers, callerVars
    <3> QED
      BY <2>44, <3>1, <3>2, <3>3, <3>4, <3>5, UnchangedTypes DEF CloseLocked, TypeOK
  <2>45. CASE UNCHANGED vars
    BY <2>45, UnchangedTypes DEF vars, TypeOK
  <2> QED
    BY <2>1, <2>2, <2>3, <2>4, <2>5, <2>6, <2>7, <2>8, <2>9, <2>10, <2>11, <2>12,
       <2>13, <2>14, <2>15, <2>16, <2>17, <2>18, <2>19, <2>20, <2>21, <2>22, <2>23,
       <2>24, <2>25, <2>26, <2>27, <2>28, <2>29, <2>30, <2>31, <2>32, <2>33, <2>34,
       <2>35, <2>36, <2>37, <2>38, <2>39, <2>40, <2>41, <2>42, <2>43, <2>44,
       <2>45 DEF
       Next, ClientStep, ReturnStep, WorkerStep, CallerStep, Call
<1> QED
  BY <1>1, <1>2, PTL DEF Spec

-----------------------------------------------------------------------------
(***************************************************************************)
(* No connection stays in the pool while a client is queued, and none gets *)
(* into a closed pool (pool.py:248-260, 750-777).  The two together are    *)
(* inductive.                                                              *)
(***************************************************************************)
THEOREM QueuesCorrect == Spec => [](NoMissedHandoff /\ ClosedPoolEmpty)
<1> DEFINE Inv == NoMissedHandoff /\ ClosedPoolEmpty
<1>1. Init => Inv
  BY DEF Init, NoMissedHandoff, ClosedPoolEmpty
<1>2. TypeOK /\ Inv /\ [Next]_vars => Inv'
  <2> SUFFICES ASSUME TypeOK, Inv, [Next]_vars
               PROVE  Inv'
    OBVIOUS
  <2> USE DEF NoMissedHandoff, ClosedPoolEmpty, flagVars
  <2>1. ASSUME NEW c \in Clients, GetConn(c) \/ ClientStep(c)
        PROVE  Inv'
    BY <2>1 DEF GetReady, TypeOK, TypeQueues, GetQueue, WaitTimeout, Forget, ClientStep,
       GetConn, GetTooMany, GetTooLate, WaitGot, WaitFailed, CheckGood, CheckBad, HandOver,
       PutConn
  <2>2. ASSUME NEW t \in Threads, ReturnStep(t)
        PROVE  Inv'
    BY <2>2 DEF AddGive, AddKeep, ReturnStep, ReturnDiscard, ReturnKeep, AddClosed
  <2>3. ASSUME NEW w \in Workers, WorkerStep(w)
        PROVE  Inv'
    BY <2>3 DEF Shrink, TypeOK, TypeQueues, WorkerStep, WorkerStop, WorkerDiscard, WorkerAdd,
       WorkerReturn, WorkerShrink, WorkerSchedule, Regrow, ConnectRetry, ConnectGiveUp,
       ConnectOk
  <2>4. ASSUME NEW a \in Callers, CallerStep(a)
        PROVE  Inv'
    BY <2>4 DEF CallerStep, CloseLocked, CloseConns, FailWaiting, DrainNext, CheckNext,
       ResizeLocked, WaitPoolLocked, WaitPoolDone
  <2>5. ASSUME NEW a \in Callers, Call(a)
        PROVE  Inv'
    BY <2>5 DEF Call, Open, ClosePool, Drain, Check, WaitPool, Resize
  <2>6. ASSUME NEW d \in Delayable, Tick(d)
        PROVE  Inv'
    BY <2>6 DEF Tick
  <2>7. ASSUME NEW i \in 1..Cardinality(Conns), Break(i)
        PROVE  Inv'
    BY <2>7 DEF Break
  <2>8. CASE UNCHANGED vars
    BY <2>8 DEF vars
  <2> QED
    BY <2>1, <2>2, <2>3, <2>4, <2>5, <2>6, <2>7, <2>8 DEF Next
<1> QED
  BY <1>1, <1>2, TypeCorrect, PTL DEF Spec

(***************************************************************************)
(* The pool never exceeds max_size before the first resize() (pool.py:     *)
(* 309-317, 695-706).  What makes it inductive: a thread is in the middle  *)
(* of resize() only if the call has been counted.                          *)
(***************************************************************************)
ResizeCounted == \A a \in Callers : pc[a] = "resize" => resizes > 0

\* _maybe_grow_pool() does not exceed max_size
LEMMA GrowSize ==
    ASSUME TypeOK, WithinMaxSize, UNCHANGED sizeVars, MaybeGrow
    PROVE  WithinMaxSize'
  BY DEF TypeOK, TypeSizes, TypeCounts, WithinMaxSize, MaybeGrow, sizeVars

\* The pool never exceeds max_size before the first resize() (pool.py:309-317,695-706)
THEOREM SizeCorrect == Spec => [](WithinMaxSize /\ ResizeCounted)
<1> DEFINE Inv == WithinMaxSize /\ ResizeCounted
<1>1. Init => Inv
  BY PoolAssumption DEF PoolAssumption, Init, WithinMaxSize, ResizeCounted, Threads
<1>2. TypeOK /\ Inv /\ [Next]_vars => Inv'
  <2> SUFFICES ASSUME TypeOK, Inv, [Next]_vars
               PROVE  Inv'
    OBVIOUS
  <2>0. ASSUME UNCHANGED sizeVars, NEW t \in Threads, NEW where, where # "resize",
               UNCHANGED pc \/ GoTo(t, where)
        PROVE  ResizeCounted'
    BY <2>0 DEF ResizeCounted, GoTo, sizeVars, TypeOK, TypeThreads, Threads
  <2>1. ASSUME NEW c \in Clients, GetConn(c) \/ ClientStep(c)
        PROVE  Inv'
    BY <2>1, PoolAssumption, GrowSize DEF PoolAssumption, ClientStep, GetConn, GetReady,
       GetTooMany, GetQueue, GetTooLate, WaitGot, WaitFailed, WaitTimeout, CheckGood,
       CheckBad, HandOver, PutConn, PutBack, GoTo, TypeOK, TypeThreads, Threads,
       ResizeCounted, sizeVars, WithinMaxSize, countVars
  <2>2. ASSUME NEW t \in Threads, ReturnStep(t)
        PROVE  Inv'
    BY <2>2, <2>0 DEF ReturnStep, ReturnDiscard, ReturnKeep, AddClosed, AddGive, AddKeep,
       countVars, TypeOK, TypeThreads, WithinMaxSize, sizeVars
  <2>3. ASSUME NEW w \in Workers, WorkerStep(w)
        PROVE  Inv'
    BY <2>3, <2>0 DEF WorkerStep, WorkerStop, WorkerDiscard, WorkerAdd, WorkerReturn,
       WorkerShrink, WorkerSchedule, Shrink, Regrow, ConnectRetry, ConnectGiveUp, ConnectOk,
       threadVars, Threads, WithinMaxSize, TypeOK, TypeSizes, TypeCounts, sizeVars, MustGrow,
       countVars
  <2>4. ASSUME NEW a \in Callers, CallerStep(a)
        PROVE  Inv'
    <3>1. CASE ResizeLocked(a)
      BY <3>1 DEF ResizeLocked, ResizeCounted, WithinMaxSize
    <3>2. CASE UNCHANGED <<sizeVars, nconns>>
      BY <2>4, <3>2, <2>0 DEF CallerStep, CloseLocked, CloseConns, FailWaiting, DrainNext,
         CheckNext, ResizeLocked, WaitPoolLocked, WaitPoolDone, WithinMaxSize, sizeVars,
         Threads
    <3> QED
      BY <2>4, <3>1, <3>2 DEF CallerStep, CloseLocked, CloseConns, FailWaiting,
         DrainNext, CheckNext, WaitPoolLocked, WaitPoolDone, countVars
  <2>5. ASSUME NEW a \in Callers, Call(a)
        PROVE  Inv'
    BY <2>0, GrowSize, <2>5 DEF Resize, TypeOK, TypeSizes, WithinMaxSize, ResizeCounted,
       Check, Threads, Open, ClosePool, Drain, WaitPool, sizeVars, countVars, threadVars,
       GoTo, TypeThreads, Call
  <2>6. CASE UNCHANGED <<sizeVars, countVars, pc>>
    BY <2>6 DEF WithinMaxSize, ResizeCounted, sizeVars, countVars
  <2> QED
    BY <2>1, <2>2, <2>3, <2>4, <2>5, <2>6 DEF Next, Tick, Break, threadVars, vars
<1> QED
  BY <1>1, <1>2, TypeCorrect, PTL DEF Spec

-----------------------------------------------------------------------------
(* Before open() *)

\* Nothing happens in a pool that was not opened: open() finds it as Init made it
Fresh ==
    ~opened =>
        /\ closed /\ ~growing /\ nconns = MinSize
        /\ pool = <<>> /\ waiting = <<>> /\ tasks = <<>>
        /\ \A d \in Delayable : delayed[d] = 0
        /\ \A t \in Threads : pc[t] \in {"idle", "drain"}
        /\ \A t \in Clients \cup Workers : pc[t] = "idle"
        /\ \A a \in Callers : todo[a] = {}
        /\ \A c \in Clients : got[c] = NoConn
        /\ failed = {}

(***************************************************************************)
(* A pool that was not opened is as the constructor made it, whatever the  *)
(* threads have called: open() does not have to look at what is left of    *)
(* an earlier use (pool.py:382-424).                                       *)
(***************************************************************************)
THEOREM FreshCorrect == Spec => []Fresh
<1>1. Init => Fresh
  BY DEF Init, Fresh, Threads
<1>2. TypeOK /\ Fresh /\ [Next]_vars => Fresh'
  <2> SUFFICES ASSUME TypeOK, Fresh, [Next]_vars, ~opened'
               PROVE  Fresh'
    BY DEF Fresh
  <2> USE DEF flagVars, Threads
  <2>1. CASE \E c \in Clients : GetConn(c) \/ ClientStep(c)
    BY <2>1 DEF ClientStep, GetConn, GetReady, GetTooMany, GetQueue, GetTooLate, WaitGot,
       WaitFailed, WaitTimeout, CheckGood, CheckBad, HandOver, PutConn, Fresh, GoTo, TypeOK,
       TypeThreads, countVars, taskVars, callerVars, posVars
  <2>2. CASE \E t \in Threads : ReturnStep(t)
    BY <2>2 DEF ReturnStep, ReturnDiscard, ReturnKeep, AddClosed, AddGive, AddKeep, Fresh
  <2>3. CASE \E w \in Workers : WorkerStep(w)
    BY <2>3 DEF WorkerStep, WorkerStop, WorkerDiscard, WorkerAdd, WorkerReturn, WorkerShrink,
       WorkerSchedule, Shrink, Regrow, ConnectRetry, ConnectGiveUp, ConnectOk, Fresh, Take
  <2>4. CASE \E a \in Callers : CallerStep(a) \/ Call(a)
    <3> PICK a \in Callers : CallerStep(a) \/ Call(a)
      BY <2>4
    <3>1. ~opened
      BY DEF CallerStep, CloseLocked, CloseConns, FailWaiting, DrainNext, CheckNext,
         ResizeLocked, WaitPoolLocked, WaitPoolDone, Call, Open, ClosePool, Drain,
         Check, WaitPool, Resize
    <3>2. pc[a] \in {"idle", "drain"} /\ closed /\ todo[a] = {} /\ pool = <<>>
      BY <3>1 DEF Fresh
    <3>3. DrainNext(a) \/ Drain(a)
      BY <3>1, <3>2 DEF CallerStep, CloseLocked, CloseConns, FailWaiting, CheckNext,
         ResizeLocked, WaitPoolLocked, WaitPoolDone, Call, Open, ClosePool, Check,
         WaitPool, Resize
    <3>4. CASE DrainNext(a)
      BY <3>1, <3>2, <3>4 DEF DrainNext, GoTo, Fresh, TypeOK, TypeThreads, countVars,
         posVars
    <3>5. CASE Drain(a)
      BY <3>1, <3>2, <3>5, PoolAssumption DEF Drain, Fresh, TypeOK, TypeCallers,
         PoolAssumption, GoTo, TypeThreads, countVars, taskVars, posVars
    <3> QED
      BY <3>3, <3>4, <3>5
  <2>5. CASE \E d \in Delayable : Tick(d)
    BY <2>5 DEF Tick, Fresh
  <2>6. CASE \E i \in 1..Cardinality(Conns) : Break(i)
    BY <2>6 DEF Break, Fresh
  <2>7. CASE UNCHANGED vars
    BY <2>7 DEF vars, Fresh, countVars, taskVars, threadVars, callerVars, posVars
  <2> QED
    BY <2>1, <2>2, <2>3, <2>4, <2>5, <2>6, <2>7 DEF Next
<1> QED
  BY <1>1, <1>2, TypeCorrect, PTL DEF Spec

-----------------------------------------------------------------------------
(* What a waiting client is promised *)

\* A client is in the queue once at most
QueuedOnce ==
    \A i, j \in DOMAIN waiting :
        waiting[i] = waiting[j] /\ waiting[i] # Gone => i = j

\* ... waiting, with nothing given to it or held against it
QueuedUnanswered ==
    \A i \in DOMAIN waiting : waiting[i] # Gone =>
        /\ pc[waiting[i]] = "wait" /\ got[waiting[i]] = NoConn
        /\ waiting[i] \notin failed
        /\ \A a \in Callers : waiting[i] \notin failing[a]

\* The same of a client that one close() is going to fail
ToFailUnanswered ==
    \A a \in Callers : \A c \in failing[a] :
        /\ pc[c] = "wait" /\ got[c] = NoConn /\ c \notin failed
        /\ \A b \in Callers : c \in failing[b] => a = b

\* A client that has failed was not served, and one that was served has not left
FailedUnserved == \A c \in failed : pc[c] = "wait" /\ got[c] = NoConn
ServedWaits == \A c \in Clients : got[c] # NoConn => pc[c] = "wait"

OneAnswer ==
    /\ QueuedOnce /\ QueuedUnanswered /\ ToFailUnanswered
    /\ FailedUnserved /\ ServedWaits

\* A step in which nobody stops waiting, and nobody is answered
LEMMA NoAnswer ==
    ASSUME TypeOK, OneAnswer, UNCHANGED <<waiting, failing, got, failed>>,
           \A c \in Clients : pc[c] = "wait" => pc'[c] = "wait"
    PROVE  OneAnswer'
BY DEF TypeOK, TypeQueues, TypeCallers, TypePos, OneAnswer, QueuedOnce, QueuedUnanswered,
   ToFailUnanswered, FailedUnserved, ServedWaits

(***************************************************************************)
(* A client in wait() is answered once: it is in the queue, or on the list *)
(* of a close(), or has failed, or has been given a connection, never two  *)
(* of these, and it is found there only while it waits                     *)
(* (WaitingClient, pool.py:786-861).                                       *)
(***************************************************************************)
THEOREM AnswersCorrect == Spec => []OneAnswer
<1>1. Init => OneAnswer
  BY DEF Init, OneAnswer, QueuedOnce, QueuedUnanswered, ToFailUnanswered,
     FailedUnserved, ServedWaits
<1>2. TypeOK /\ OneAnswer /\ [Next]_vars => OneAnswer'
  <2> SUFFICES ASSUME TypeOK, OneAnswer, [Next]_vars
               PROVE  OneAnswer'
    OBVIOUS
  <2>0. /\ \A i \in DOMAIN waiting : waiting[i] # Gone => waiting[i] \in Clients
        /\ waiting \in Seq(Clients \cup {Gone})
        /\ failing \in [Callers -> SUBSET Clients] /\ failed \subseteq Clients
        /\ got \in [Clients -> Conns \cup {NoConn}]
        /\ pc \in [Threads -> PCs] /\ Clients \subseteq Threads
        /\ NoConn \notin Conns /\ Gone \notin Clients
        /\ Clients \cap Workers = {} /\ Clients \cap Callers = {}
    BY PoolAssumption DEF PoolAssumption, TypeOK, TypeQueues, TypeCallers, TypePos,
       TypeThreads, Threads
  <2> USE DEF GoTo, flagVars
  <2>1. CASE \E c \in Clients : GetConn(c) \/ ClientStep(c)
    <3> PICK c \in Clients : GetConn(c) \/ ClientStep(c)
      BY <2>1
    <3>1. CASE GetQueue(c)
      BY <3>1, <2>0 DEF GetQueue, callerVars, posVars, OneAnswer, QueuedUnanswered,
         ToFailUnanswered, FailedUnserved, ServedWaits, QueuedOnce
    <3>2. CASE WaitGot(c)
      BY <3>2, <2>0 DEF WaitGot, callerVars, OneAnswer, QueuedOnce, QueuedUnanswered,
         ToFailUnanswered, FailedUnserved, ServedWaits
    <3>3. CASE WaitFailed(c)
      BY <3>3, <2>0 DEF WaitFailed, callerVars, OneAnswer, QueuedOnce, QueuedUnanswered,
         ToFailUnanswered, FailedUnserved, ServedWaits
    <3>4. CASE WaitTimeout(c)
      BY <2>0, <3>4 DEF WaitTimeout, Forget, OneAnswer, QueuedOnce, QueuedUnanswered,
         ToFailUnanswered, FailedUnserved, ServedWaits
    <3>5. CASE UNCHANGED <<waiting, failing, got, failed>> /\ pc[c] # "wait"
      BY <2>0, <3>5, NoAnswer DEF ClientStep, GetConn, GetReady, GetTooMany, GetQueue,
         GetTooLate, WaitGot, WaitFailed, WaitTimeout, CheckGood, CheckBad, PutBack, HandOver,
         PutConn
    <3> QED
      BY <3>1, <3>2, <3>3, <3>4, <3>5 DEF ClientStep, GetConn, GetReady, GetTooMany,
         GetTooLate, CheckGood, CheckBad, HandOver, PutConn, callerVars, posVars
  <2>2. CASE \E t \in Threads : ReturnStep(t)
    <3> PICK t \in Threads : ReturnStep(t)
      BY <2>2
    <3>1. \A d \in Clients : pc[d] = "wait" => pc'[d] = "wait"
      BY <2>0 DEF ReturnStep, ReturnDiscard, ReturnKeep, AddClosed, AddGive, AddKeep
    <3>2. CASE AddGive(t)
      <4> PICK i \in DOMAIN waiting :
                  /\ IsFirst(i)
                  /\ got' = [got EXCEPT ![waiting[i]] = conn[t]]
                  /\ waiting' = SubSeq(waiting, i + 1, Len(waiting))
        BY <3>2 DEF AddGive
      <4>1. UNCHANGED <<failing, failed>>
        BY <3>2 DEF AddGive, callerVars
      <4> DEFINE c == waiting[i]
      <4>2. c \in Clients /\ c # Gone
        BY <2>0 DEF IsFirst, Alive
      <4>3. /\ pc[c] = "wait" /\ c \notin failed
            /\ \A a \in Callers : c \notin failing[a]
        BY <4>2 DEF OneAnswer, QueuedUnanswered
      <4>4. \A j \in DOMAIN waiting' :
               i + j \in DOMAIN waiting /\ i + j # i /\ waiting'[j] = waiting[i + j]
        BY <2>0
      <4>5. \A j \in DOMAIN waiting' : waiting'[j] # Gone =>
               waiting'[j] \in Clients \ {c} /\ got'[waiting'[j]] = got[waiting'[j]]
        BY <2>0, <4>2, <4>4 DEF OneAnswer, QueuedOnce
      <4>6. \A d \in Clients : d # c => got'[d] = got[d]
        BY <2>0
      <4>7. QueuedOnce'
        BY <4>4, <2>0 DEF QueuedOnce, OneAnswer
      <4> HIDE DEF c
      <4>8. QueuedUnanswered'
        BY <2>0, <3>1, <4>1, <4>4, <4>5 DEF OneAnswer, QueuedUnanswered
      <4>9. ToFailUnanswered' /\ FailedUnserved' /\ ServedWaits'
        BY <2>0, <3>1, <4>1, <4>3, <4>6 DEF OneAnswer, ToFailUnanswered, FailedUnserved,
           ServedWaits
      <4> QED
        BY <4>7, <4>8, <4>9 DEF OneAnswer
    <3>3. CASE AddKeep(t)
      BY <3>3, <2>0, <3>1 DEF AddKeep, callerVars, posVars, OneAnswer, QueuedOnce,
         QueuedUnanswered, ToFailUnanswered, FailedUnserved, ServedWaits
    <3>4. CASE UNCHANGED <<waiting, failing, got, failed>>
      BY <3>1, <3>4, NoAnswer
    <3> QED
      BY <3>2, <3>3, <3>4 DEF ReturnStep, ReturnDiscard, ReturnKeep, AddClosed,
         callerVars, posVars
  <2>3. CASE \E w \in Workers : WorkerStep(w)
    BY <2>3, <2>0, NoAnswer DEF WorkerStep, WorkerStop, WorkerDiscard, WorkerAdd,
       WorkerReturn, WorkerShrink, WorkerSchedule, Shrink, Regrow, ConnectRetry,
       ConnectGiveUp, ConnectOk, PCs, callerVars, posVars, threadVars
  <2>4. CASE \E a \in Callers : CallerStep(a) \/ Call(a)
    <3> PICK a \in Callers : CallerStep(a) \/ Call(a)
      BY <2>4
    <3>1. \A d \in Clients : pc'[d] = pc[d]
      <4>1. CASE CallerStep(a)
        <5>1. \/ UNCHANGED pc
              \/ \E where \in PCs : pc' = [pc EXCEPT ![a] = where]
          BY <4>1 DEF CallerStep, CloseLocked, CloseConns, FailWaiting, DrainNext,
             CheckNext, ResizeLocked, WaitPoolLocked, WaitPoolDone, PCs
        <5> QED
          BY <2>0, <5>1
      <4>2. CASE Call(a)
        BY <2>0, <4>2 DEF Call, Open, ClosePool, Drain, Check, WaitPool, Resize,
           threadVars
      <4> QED
        BY <4>1, <4>2
    <3>2. CASE CloseLocked(a)
      BY <3>2, <2>0, <3>1 DEF CloseLocked, posVars, OneAnswer, QueuedOnce, QueuedUnanswered,
         ToFailUnanswered, FailedUnserved, ServedWaits, Alive
    <3>3. CASE FailWaiting(a)
      BY <3>3, <2>0, <3>1 DEF FailWaiting, OneAnswer, QueuedOnce, QueuedUnanswered,
         ToFailUnanswered, FailedUnserved, ServedWaits
    <3>4. CASE UNCHANGED <<waiting, failing, got, failed>>
      BY <3>1, <3>4, NoAnswer
    <3> QED
      BY <3>2, <3>3, <3>4 DEF CallerStep, CloseConns, DrainNext, CheckNext,
         ResizeLocked, WaitPoolLocked, WaitPoolDone, Call, Open, ClosePool, Drain,
         Check, WaitPool, Resize, callerVars, posVars
  <2>5. CASE UNCHANGED <<waiting, failing, got, failed, pc>>
    BY <2>5, NoAnswer
  <2> QED
    BY <2>1, <2>2, <2>3, <2>4, <2>5 DEF Next, Tick, Break, vars, callerVars, posVars,
       threadVars
<1> QED
  BY <1>1, <1>2, TypeCorrect, PTL DEF Spec

-----------------------------------------------------------------------------
(* Who owns a connection *)

\* A caller keeps connections it has taken out while it closes or checks them
TakenOut ==
    \A a \in Callers : todo[a] # {} =>
        \/ pc[a] \in {"closing", "drain", "checking"}
        \/ pc[a] = "add" /\ ret[a] = "checking"

\* ... and has none when it takes others out (pool.py:330-351, 441-458, 530-533)
THEOREM TakenOutCorrect == Spec => []TakenOut
<1>1. Init => TakenOut
  BY DEF Init, TakenOut
<1>2. TypeOK /\ TakenOut /\ [Next]_vars => TakenOut'
  <2> SUFFICES ASSUME TypeOK, TakenOut, [Next]_vars
               PROVE  TakenOut'
    OBVIOUS
  <2>0. /\ pc \in [Threads -> PCs] /\ DOMAIN ret = Threads
        /\ todo \in [Callers -> SUBSET Conns]
        /\ Callers \subseteq Threads /\ Workers \subseteq Threads
        /\ Clients \subseteq Threads
        /\ Clients \cap Callers = {} /\ Workers \cap Callers = {}
    BY PoolAssumption DEF PoolAssumption, TypeOK, TypeCallers, TypeThreads, Threads
  <2> USE DEF GoTo
  <2>1. CASE \E c \in Clients : GetConn(c) \/ ClientStep(c)
    BY <2>1, <2>0 DEF ClientStep, GetConn, GetReady, GetTooMany, GetQueue, GetTooLate,
       WaitGot, WaitFailed, WaitTimeout, CheckGood, CheckBad, PutBack, HandOver, PutConn,
       callerVars, TakenOut
  <2>2. CASE \E t \in Threads : ReturnStep(t)
    BY <2>2, <2>0 DEF ReturnStep, ReturnDiscard, ReturnKeep, AddClosed, AddGive, AddKeep,
       callerVars, TakenOut
  <2>3. CASE \E w \in Workers : WorkerStep(w)
    BY <2>3, <2>0 DEF WorkerStep, WorkerStop, WorkerDiscard, WorkerAdd, WorkerReturn,
       WorkerShrink, WorkerSchedule, Shrink, Regrow, ConnectRetry, ConnectGiveUp, ConnectOk,
       callerVars, threadVars, TakenOut
  <2>4. CASE \E a \in Callers : CallerStep(a)
    <3> PICK a \in Callers : CallerStep(a)
      BY <2>4
    <3>1. \A b \in Callers : b # a =>
             pc'[b] = pc[b] /\ todo'[b] = todo[b] /\ ret'[b] = ret[b]
      BY <2>0 DEF CallerStep, CloseLocked, CloseConns, FailWaiting, DrainNext,
         CheckNext, ResizeLocked, WaitPoolLocked, WaitPoolDone, callerVars
    <3>2. \/ todo'[a] = {}
          \/ pc'[a] \in {"closing", "drain", "checking"}
          \/ pc'[a] = "add" /\ ret'[a] = "checking"
      BY <2>0 DEF CallerStep, CloseLocked, CloseConns, FailWaiting, DrainNext,
         CheckNext, ResizeLocked, WaitPoolLocked, WaitPoolDone, callerVars, TakenOut
    <3> QED
      BY <3>1, <3>2 DEF TakenOut
  <2>5. CASE \E a \in Callers : Call(a)
    BY <2>5, <2>0 DEF Call, Open, ClosePool, Drain, Check, WaitPool, Resize, callerVars,
       threadVars, TakenOut
  <2>6. CASE UNCHANGED <<todo, pc, ret>>
    BY <2>6 DEF TakenOut
  <2> QED
    BY <2>1, <2>2, <2>3, <2>4, <2>5, <2>6 DEF Next, Tick, Break, vars, callerVars,
       threadVars
<1> QED
  BY <1>1, <1>2, TypeCorrect, PTL DEF Spec

\* Copies of a task without a connection are queued
LEMMA CopiesConcat ==
    ASSUME NEW T, NEW s \in Seq(T), NEW n \in Nat, NEW t \in T, t.conn = NoConn,
           OneEach(TaskConns(s), NoConn)
    PROVE  /\ OneEach(TaskConns(s \o Copies(n, t)), NoConn)
           /\ Images(TaskConns(s \o Copies(n, t)), NoConn) = Images(TaskConns(s), NoConn)
<1> DEFINE u == Copies(n, t)
<1>1. u \in Seq(T) /\ \A i \in DOMAIN u : u[i].conn = NoConn
  BY DEF Copies
<1> HIDE DEF u
<1>2. /\ OneEach(TaskConns(s \o u), NoConn)
      /\ Images(TaskConns(s \o u), NoConn) = Images(TaskConns(s), NoConn)
  BY <1>1, ConnsConcat
<1> QED
  BY <1>2 DEF u

\* The open connections, and those of each kind of owner
Live == {c \in Conns : status[c] # "absent"}
Pooled == Elements(pool)
Tasked == Images(TaskConns(tasks), NoConn)
Held == Images(conn, NoConn)
Given == Images(got, NoConn)
Out == UNION {todo[a] : a \in Callers}

\* No owner of a kind has what another of the same kind has ...
Singles ==
    /\ Distinct(pool) /\ OneEach(TaskConns(tasks), NoConn) /\ OneEach(conn, NoConn) /\ OneEach(got, NoConn)
    /\ \A a, b \in Callers : a # b => todo[a] \cap todo[b] = {}

\* ... nor do owners of two kinds ...
Apart ==
    /\ Pooled \cap Tasked = {} /\ Pooled \cap Held = {} /\ Pooled \cap Given = {}
    /\ Pooled \cap Out = {} /\ Tasked \cap Held = {} /\ Tasked \cap Given = {}
    /\ Tasked \cap Out = {} /\ Held \cap Given = {} /\ Held \cap Out = {}
    /\ Given \cap Out = {}

\* ... and the open connections are those that someone owns
Owned ==
    /\ Singles /\ Apart
    /\ Live = Pooled \cup Tasked \cup Held \cup Given \cup Out

\* What has no owner, or one, is in no place, or in one
LEMMA OwnedPlaces ==
    ASSUME TypeOK, Owned
    PROVE  ExclusiveOwnership
<1> SUFFICES ASSUME NEW c \in Conns
             PROVE  Cardinality(Places(c)) = IF status[c] = "absent" THEN 0 ELSE 1
  BY DEF ExclusiveOwnership
<1>0. /\ c # NoConn
      /\ DOMAIN conn = Threads /\ DOMAIN got = Clients
      /\ DOMAIN TaskConns(tasks) = DOMAIN tasks
      /\ \A i \in DOMAIN tasks : TaskConns(tasks)[i] = tasks[i].conn
  BY PoolAssumption DEF PoolAssumption, TypeOK, TypeThreads, TypePos, TaskConns
<1>1. /\ c \in Pooled <=> \E i \in DOMAIN pool : pool[i] = c
      /\ c \in Tasked <=> \E i \in DOMAIN tasks : tasks[i].conn = c
      /\ c \in Held <=> \E t \in Threads : conn[t] = c
      /\ c \in Given <=> \E k \in Clients : got[k] = c
      /\ c \in Out <=> \E a \in Callers : c \in todo[a]
  BY <1>0 DEF Pooled, Elements, Tasked, Held, Given, Out, Images
<1>2. /\ \A i, j \in DOMAIN pool : pool[i] = c /\ pool[j] = c => i = j
      /\ \A i, j \in DOMAIN tasks : tasks[i].conn = c /\ tasks[j].conn = c => i = j
      /\ \A t, u \in Threads : conn[t] = c /\ conn[u] = c => t = u
      /\ \A k, l \in Clients : got[k] = c /\ got[l] = c => k = l
      /\ \A a, b \in Callers : c \in todo[a] /\ c \in todo[b] => a = b
  BY <1>0 DEF Owned, Singles, Distinct, OneEach
<1>3. CASE status[c] = "absent"
  BY <1>3, <1>1, FS_EmptySet DEF Owned, Live, Places
<1>4. CASE status[c] # "absent"
  <2>0. SUFFICES \E p : Places(c) = {p}
    BY <1>4, FS_Singleton
  <2>1. CASE c \in Pooled
    <3>1. c \notin Tasked /\ c \notin Held /\ c \notin Given /\ c \notin Out
      BY <2>1 DEF Owned, Apart
    <3> PICK i \in DOMAIN pool : pool[i] = c
      BY <1>1, <2>1
    <3>2. Places(c) = {<<"pool", i>>}
      BY <1>1, <1>2, <3>1 DEF Places
    <3> QED
      BY <3>2
  <2>2. CASE c \in Tasked
    <3>1. c \notin Pooled /\ c \notin Held /\ c \notin Given /\ c \notin Out
      BY <2>2 DEF Owned, Apart
    <3> PICK i \in DOMAIN tasks : tasks[i].conn = c
      BY <1>1, <2>2
    <3>2. Places(c) = {<<"task", i>>}
      BY <1>1, <1>2, <3>1 DEF Places
    <3> QED
      BY <3>2
  <2>3. CASE c \in Held
    <3>1. c \notin Pooled /\ c \notin Tasked /\ c \notin Given /\ c \notin Out
      BY <2>3 DEF Owned, Apart
    <3> PICK t \in Threads : conn[t] = c
      BY <1>1, <2>3
    <3>2. Places(c) = {<<"thread", t>>}
      BY <1>1, <1>2, <3>1 DEF Places
    <3> QED
      BY <3>2
  <2>4. CASE c \in Given
    <3>1. c \notin Pooled /\ c \notin Tasked /\ c \notin Held /\ c \notin Out
      BY <2>4 DEF Owned, Apart
    <3> PICK k \in Clients : got[k] = c
      BY <1>1, <2>4
    <3>2. Places(c) = {<<"client", k>>}
      BY <1>1, <1>2, <3>1 DEF Places
    <3> QED
      BY <3>2
  <2>5. CASE c \in Out
    <3>1. c \notin Pooled /\ c \notin Tasked /\ c \notin Held /\ c \notin Given
      BY <2>5 DEF Owned, Apart
    <3> PICK a \in Callers : c \in todo[a]
      BY <1>1, <2>5
    <3>2. Places(c) = {<<"caller", a>>}
      BY <1>1, <1>2, <3>1 DEF Places
    <3> QED
      BY <3>2
  <2> QED
    BY <1>4, <2>1, <2>2, <2>3, <2>4, <2>5 DEF Owned, Live
<1> QED
  BY <1>3, <1>4

(* What a step does to the owners of a kind *)

\* Nothing
LEMMA OwnersSame ==
    /\ UNCHANGED pool => Pooled' = Pooled
    /\ UNCHANGED tasks => Tasked' = Tasked
    /\ UNCHANGED conn => Held' = Held
    /\ UNCHANGED got => Given' = Given
    /\ UNCHANGED todo => Out' = Out
    /\ UNCHANGED status => Live' = Live
  BY DEF Pooled, Tasked, Held, Given, Out, Live

\* A thread gets a connection ...
LEMMA HeldMore ==
    ASSUME TypeOK, OneEach(conn, NoConn), NEW t \in Threads, pc[t] \notin Holding,
           NEW x \in Conns, x \notin Held, conn' = [conn EXCEPT ![t] = x]
    PROVE  OneEach(conn, NoConn)' /\ Held' = Held \cup {x}
BY PoolAssumption DEF PoolAssumption, TypeOK, TypeThreads, Held, OneEach, Images

\* ... or lets one go
LEMMA HeldLess ==
    ASSUME TypeOK, OneEach(conn, NoConn), NEW t \in Threads, Release(t)
    PROVE  OneEach(conn, NoConn)' /\ Held' = Held \ {conn[t]}
BY PoolAssumption DEF PoolAssumption, TypeOK, TypeThreads, Release, Held, OneEach, Images

\* A task is queued ...
LEMMA TaskedMore ==
    ASSUME TypeOK, OneEach(TaskConns(tasks), NoConn), NEW t \in TaskSet, RunTask(t),
           t.conn \notin Tasked
    PROVE  OneEach(TaskConns(tasks), NoConn)' /\ Tasked' = Tasked \cup ({t.conn} \ {NoConn})
BY ConnsAppend DEF TypeOK, TypeTasks, RunTask, Tasked

\* ... a task without a connection
LEMMA TaskedSame ==
    ASSUME TypeOK, OneEach(TaskConns(tasks), NoConn), NEW t \in TaskSet, t.kind # "return",
           RunTask(t)
    PROVE  OneEach(TaskConns(tasks), NoConn)' /\ Tasked' = Tasked
BY TaskFields, TaskedMore DEF Tasked, Images

\* ... or the first one is taken
LEMMA TaskedLess ==
    ASSUME TypeOK, OneEach(TaskConns(tasks), NoConn), tasks # <<>>, tasks' = Tail(tasks)
    PROVE  /\ OneEach(TaskConns(tasks), NoConn)' /\ Tasked' = Tasked \ {Head(tasks).conn}
           /\ Head(tasks).conn \in Tasked \cup {NoConn}
<1>1. tasks \in Seq(TaskSet)
  BY DEF TypeOK, TypeTasks
<1> QED
  BY <1>1, ConnsTail DEF Tasked

\* The pool may grow
LEMMA TaskedGrow ==
    ASSUME TypeOK, OneEach(TaskConns(tasks), NoConn), MaybeGrow
    PROVE  OneEach(TaskConns(tasks), NoConn)' /\ Tasked' = Tasked
BY TaskedSame, TaskTypes, OwnersSame DEF GrowTask, AddConnection, Task, MaybeGrow

\* A caller takes everything out of the pool ...
LEMMA OutMore ==
    ASSUME TypeOK, Singles, NEW a \in Callers, todo[a] = {}, Pooled \cap Out = {},
           todo' = [todo EXCEPT ![a] = {pool[i] : i \in DOMAIN pool}], pool' = <<>>
    PROVE  /\ Distinct(pool)' /\ Pooled' = {} /\ Out' = Out \cup Pooled
           /\ \A b, c \in Callers : b # c => todo'[b] \cap todo'[c] = {}
BY ElementsEmpty DEF Pooled, Elements, TypeOK, TypeCallers, Out, Singles

\* ... or has done with some of what it took
LEMMA OutLess ==
    ASSUME TypeOK, Singles, NEW a \in Callers, NEW R, R \subseteq todo[a],
           todo' = [todo EXCEPT ![a] = @ \ R]
    PROVE  /\ Out' = Out \ R /\ R \subseteq Out
           /\ \A b, c \in Callers : b # c => todo'[b] \cap todo'[c] = {}
BY DEF TypeOK, TypeCallers, Out, Singles

\* Connections are closed
LEMMA LiveLess ==
    ASSUME NEW cs, Close(cs)
    PROVE  Live' = Live \ cs
  BY DEF Close, Live

\* A connection changes its status, and is not closed
LEMMA LiveSame ==
    ASSUME TypeOK, NEW x \in Live, NEW st, st # "absent",
           status' = [status EXCEPT ![x] = st]
    PROVE  Live' = Live
  BY DEF Live, TypeOK, TypeConns

\* A waiting client is given a connection ...
LEMMA GivenMore ==
    ASSUME TypeOK, OneEach(got, NoConn), NEW c \in Clients, got[c] = NoConn,
           NEW x \in Conns, x \notin Given, got' = [got EXCEPT ![c] = x]
    PROVE  OneEach(got, NoConn)' /\ Given' = Given \cup {x}
BY PoolAssumption DEF PoolAssumption, TypeOK, TypePos, Given, OneEach, Images

\* ... or takes it
LEMMA GivenLess ==
    ASSUME TypeOK, OneEach(got, NoConn), NEW c \in Clients, got' = [got EXCEPT ![c] = NoConn]
    PROVE  OneEach(got, NoConn)' /\ Given' = Given \ {got[c]}
BY PoolAssumption DEF PoolAssumption, TypeOK, TypePos, Given, OneEach, Images

\* The clients' steps
LEMMA ClientOwned ==
    ASSUME TypeOK, Owned, NEW c \in Clients, GetConn(c) \/ ClientStep(c)
    PROVE  Owned'
<1>0. c \in Threads /\ NoConn \notin Conns /\ Clients \subseteq Threads
  BY PoolAssumption DEF PoolAssumption, Threads
<1>1. CASE GetReady(c)
  <2>1. /\ pool # <<>> /\ pool' = Tail(pool) /\ pc[c] \notin Holding
        /\ conn' = [conn EXCEPT ![c] = Head(pool)]
        /\ UNCHANGED <<tasks, got, todo, status>>
    BY <1>1 DEF GetReady, Holding, taskVars, callerVars, posVars, connVars
  <2>2. pool \in Seq(Conns) /\ Head(pool) \in Conns
    BY <2>1 DEF TypeOK, TypeQueues
  <2>3. /\ Head(pool) \in Pooled /\ Distinct(pool)'
        /\ Pooled' = Pooled \ {Head(pool)}
    BY <2>1, <2>2, ElementsTail DEF Pooled, Owned, Singles
  <2>4. OneEach(conn, NoConn)' /\ Held' = Held \cup {Head(pool)}
    BY <1>0, <2>1, <2>2, <2>3, HeldMore DEF Owned, Singles, Apart
  <2> QED
    BY <2>1, <2>3, <2>4, OwnersSame DEF Owned, Singles, Apart
<1>2. CASE GetQueue(c)
  BY <1>2, TaskedGrow, OwnersSame DEF GetQueue, callerVars, posVars, connVars, Owned, Singles,
     Apart
<1>3. CASE WaitGot(c)
  <2>1. /\ got[c] # NoConn /\ pc[c] \notin Holding
        /\ conn' = [conn EXCEPT ![c] = got[c]] /\ got' = [got EXCEPT ![c] = NoConn]
        /\ UNCHANGED <<pool, tasks, todo, status>>
    BY <1>3 DEF WaitGot, Holding, taskVars, callerVars, connVars
  <2>2. got[c] \in Conns /\ got[c] \in Given
    BY <2>1 DEF TypeOK, TypePos, Given, Images
  <2>3. OneEach(conn, NoConn)' /\ Held' = Held \cup {got[c]}
    BY <1>0, <2>1, <2>2, HeldMore DEF Owned, Singles, Apart
  <2>4. OneEach(got, NoConn)' /\ Given' = Given \ {got[c]}
    BY <2>1, GivenLess DEF Owned, Singles
  <2> QED
    BY <2>1, <2>2, <2>3, <2>4, OwnersSame DEF Owned, Singles, Apart
<1>4. CASE WaitTimeout(c)
  <2>1. /\ pc[c] \notin Holding
        /\ conn' = [conn EXCEPT ![c] = got[c]] /\ got' = [got EXCEPT ![c] = NoConn]
        /\ UNCHANGED <<pool, tasks, todo, status>>
    BY <1>4 DEF WaitTimeout, Holding, taskVars, connVars
  <2>2. OneEach(got, NoConn)' /\ Given' = Given \ {got[c]}
    BY <2>1, GivenLess DEF Owned, Singles
  <2>3. CASE got[c] # NoConn
    <3>1. got[c] \in Conns /\ got[c] \in Given
      BY <2>3 DEF TypeOK, TypePos, Given, Images
    <3>2. OneEach(conn, NoConn)' /\ Held' = Held \cup {got[c]}
      BY <1>0, <2>1, <3>1, HeldMore DEF Owned, Singles, Apart
    <3> QED
      BY <2>1, <2>2, <3>1, <3>2, OwnersSame DEF Owned, Singles, Apart
  <2>4. CASE got[c] = NoConn
    <3>1. conn[c] = NoConn
      BY <1>0, <2>1 DEF TypeOK, TypeThreads
    <3>2. UNCHANGED conn
      BY <1>0, <2>1, <2>4, <3>1 DEF TypeOK, TypeThreads
    <3>3. NoConn \notin Given
      BY DEF Given, Images
    <3> QED
      BY <2>1, <2>2, <2>4, <3>2, <3>3, OwnersSame DEF Owned, Singles, Apart
  <2> QED
    BY <2>3, <2>4
<1>5. CASE HandOver(c)
  <2>1. /\ pc[c] \in Holding /\ RunTask(ReturnConnection(conn[c])) /\ Release(c)
        /\ UNCHANGED <<pool, got, todo, status>>
    BY <1>5 DEF HandOver, Holding, callerVars, posVars, connVars
  <2>2. conn[c] \in Conns /\ conn[c] \in Held
    BY <1>0, <2>1, HeldConn DEF TypeOK, TypeThreads, Held, Images
  <2>3. /\ ReturnConnection(conn[c]) \in TaskSet
        /\ ReturnConnection(conn[c]).conn = conn[c]
    BY <2>2, TaskTypes DEF ReturnConnection, Task
  <2>4. OneEach(TaskConns(tasks), NoConn)' /\ Tasked' = Tasked \cup {conn[c]}
    BY <1>0, <2>1, <2>2, <2>3, TaskedMore DEF Owned, Singles, Apart
  <2>5. OneEach(conn, NoConn)' /\ Held' = Held \ {conn[c]}
    BY <1>0, <2>1, HeldLess DEF Owned, Singles
  <2> QED
    BY <2>1, <2>2, <2>4, <2>5, OwnersSame DEF Owned, Singles, Apart
<1>6. ASSUME NEW st \in Leaves, PutConn(c, st)
      PROVE  Owned'
  <2>1. pc[c] \in Holding /\ UNCHANGED <<pool, tasks, got, todo>>
    BY <1>6 DEF PutConn, Holding, taskVars, callerVars, posVars
  <2>2. conn[c] \in Conns /\ conn[c] \in Held
    BY <1>0, <2>1, HeldConn DEF TypeOK, TypeThreads, Held, Images
  <2>3. CASE closed
    BY <1>6, <2>3, <1>0, HeldLess, LiveLess, <2>1, <2>2, OwnersSame DEF PutConn, Owned,
       Singles, Apart
  <2>4. CASE ~closed
    BY <1>6, <2>4, PoolAssumption, <2>2, LiveSame, <2>1, OwnersSame DEF PutConn,
       PoolAssumption, Owned, Singles, Apart
  <2> QED
    BY <2>3, <2>4
<1>7. CASE UNCHANGED <<pool, tasks, conn, got, todo, status>>
  BY <1>7, OwnersSame DEF Owned, Singles, Apart
<1> QED
  BY <1>1, <1>2, <1>3, <1>4, <1>5, <1>6, <1>7 DEF ClientStep, GetConn, GetTooMany,
     GetTooLate, WaitFailed, CheckGood, CheckBad, taskVars, callerVars, posVars, connVars

\* The steps of a thread that returns a connection
LEMMA ReturnOwned ==
    ASSUME TypeOK, OneAnswer, Owned, NEW t \in Threads, ReturnStep(t)
    PROVE  Owned'
<1>0. NoConn \notin Conns
  BY PoolAssumption DEF PoolAssumption
<1>1. pc[t] \in Holding /\ UNCHANGED todo
  BY DEF ReturnStep, ReturnDiscard, ReturnKeep, AddClosed, AddGive, AddKeep, Holding,
     callerVars
<1>2. conn[t] \in Conns /\ conn[t] \in Held
  BY <1>1, HeldConn DEF TypeOK, TypeThreads, Held, Images
<1>3. Release(t) => OneEach(conn, NoConn)' /\ Held' = Held \ {conn[t]}
  BY HeldLess DEF Owned, Singles
<1>4. Close({conn[t]}) => Live' = Live \ {conn[t]}
  BY LiveLess
<1>5. CASE ReturnDiscard(t)
  BY <1>5, TaskedSame, TaskTypes, <1>1, <1>2, <1>3, <1>4, OwnersSame DEF ReturnDiscard,
     posVars, Owned, Singles, NewConnection, AddConnection, Task, Apart
<1>6. CASE ReturnKeep(t)
  BY <1>6, <1>2, LiveSame, <1>1, OwnersSame DEF ReturnKeep, taskVars, posVars, Owned, Singles,
     Apart
<1>7. CASE AddClosed(t)
  BY <1>7, <1>1, <1>2, <1>3, <1>4, OwnersSame DEF AddClosed, taskVars, posVars, Owned,
     Singles, Apart
<1>8. CASE AddGive(t)
  <2> PICK i \in DOMAIN waiting :
              IsFirst(i) /\ got' = [got EXCEPT ![waiting[i]] = conn[t]]
    BY <1>8 DEF AddGive
  <2>1. Release(t) /\ UNCHANGED <<pool, tasks, status>>
    BY <1>8 DEF AddGive, taskVars, connVars
  <2>2. waiting[i] \in Clients /\ got[waiting[i]] = NoConn
    BY DEF IsFirst, Alive, TypeOK, TypeQueues, OneAnswer, QueuedUnanswered
  <2>3. OneEach(got, NoConn)' /\ Given' = Given \cup {conn[t]}
    BY <1>2, <2>2, GivenMore DEF Owned, Singles, Apart
  <2> QED
    BY <1>1, <1>2, <1>3, <2>1, <2>3, OwnersSame DEF Owned, Singles, Apart
<1>9. CASE AddKeep(t)
  BY <1>9, <1>2, ElementsAppend, <1>1, <1>3, OwnersSame DEF AddKeep, taskVars, posVars,
     connVars, TypeOK, TypeQueues, Owned, Singles, Apart, Pooled
<1> QED
  BY <1>5, <1>6, <1>7, <1>8, <1>9 DEF ReturnStep

\* The workers' steps
LEMMA WorkerOwned ==
    ASSUME TypeOK, Owned, NEW w \in Workers, WorkerStep(w)
    PROVE  Owned'
<1>0. w \in Threads /\ NoConn \notin Conns
  BY PoolAssumption DEF PoolAssumption, Threads
<1>t. ASSUME NEW kind, Take(w, kind)
      PROVE  /\ tasks # <<>> /\ Head(tasks).kind = kind /\ pc[w] = "idle"
             /\ OneEach(TaskConns(tasks), NoConn)' /\ Tasked' = Tasked \ {Head(tasks).conn}
             /\ Head(tasks).conn \in Tasked \cup {NoConn}
             /\ kind # "return" => Tasked' = Tasked
             /\ kind = "return" => Head(tasks).conn \in Conns
  BY <1>t, TaskedLess, HeadTask, TaskFields DEF Take, Owned, Singles, Tasked, Images
<1>1. CASE WorkerStop(w) \/ WorkerAdd(w) \/ WorkerShrink(w) \/ WorkerSchedule(w)
  BY <1>1, <1>t, OwnersSame DEF WorkerStop, WorkerAdd, WorkerShrink, WorkerSchedule,
     threadVars, callerVars, posVars, connVars, Owned, Singles, Apart
<1>2. CASE WorkerDiscard(w)
  BY <1>2, <1>t, LiveLess, <1>0, OwnersSame DEF WorkerDiscard, callerVars, posVars, Live,
     Owned, Singles, Apart
<1>3. CASE WorkerReturn(w)
  <2>1. /\ Take(w, "return") /\ conn' = [conn EXCEPT ![w] = Head(tasks).conn]
        /\ UNCHANGED <<pool, got, todo, status>>
    BY <1>3 DEF WorkerReturn, callerVars, posVars, connVars
  <2>2. /\ OneEach(TaskConns(tasks), NoConn)' /\ Tasked' = Tasked \ {Head(tasks).conn}
        /\ Head(tasks).conn \in Tasked /\ Head(tasks).conn \in Conns /\ pc[w] = "idle"
    BY <1>0, <1>t, <2>1
  <2>3. Head(tasks).conn \notin Held /\ pc[w] \notin Holding
    BY <2>2 DEF Owned, Apart, Holding
  <2>4. OneEach(conn, NoConn)' /\ Held' = Held \cup {Head(tasks).conn}
    BY <1>0, <2>1, <2>2, <2>3, HeldMore DEF Owned, Singles
  <2> QED
    BY <2>1, <2>2, <2>4, OwnersSame DEF Owned, Singles, Apart
<1>4. CASE Shrink(w)
  <2>1. UNCHANGED <<tasks, conn, got, todo>>
    BY <1>4 DEF Shrink, taskVars, callerVars, posVars
  <2>2. CASE nconns > minSize /\ nconnsMin > 0 /\ pool # <<>>
    <3>1. pool # <<>> /\ pool' = Tail(pool) /\ Close({Head(pool)})
      BY <1>4, <2>2 DEF Shrink
    <3>2. /\ Head(pool) \in Pooled /\ Distinct(pool)'
          /\ Pooled' = Pooled \ {Head(pool)}
      BY <3>1, ElementsTail DEF Pooled, Owned, Singles, TypeOK, TypeQueues
    <3>3. Live' = Live \ {Head(pool)}
      BY <3>1, LiveLess
    <3> QED
      BY <2>1, <3>2, <3>3, OwnersSame DEF Owned, Singles, Apart
  <2>3. CASE UNCHANGED <<pool, status>>
    BY <2>1, <2>3, OwnersSame DEF Owned, Singles, Apart
  <2> QED
    BY <1>4, <2>2, <2>3 DEF Shrink, connVars
<1>5. CASE Regrow(w)
  BY <1>5, OwnersSame, TaskedSame, TaskTypes DEF Regrow, callerVars, posVars, connVars, Owned,
     Singles, GrowTask, AddConnection, Task, Apart
<1>6. ASSUME NEW c \in Conns, ConnectOk(w, c)
      PROVE  Owned'
  <2>1. /\ status[c] = "absent" /\ pc[w] \notin Holding
        /\ status' = [status EXCEPT ![c] = "idle"] /\ conn' = [conn EXCEPT ![w] = c]
        /\ UNCHANGED <<pool, tasks, got, todo>>
    BY <1>6 DEF ConnectOk, Holding, taskVars, callerVars, posVars
  <2>2. c \notin Live /\ Live' = Live \cup {c}
    BY <2>1 DEF Live, TypeOK, TypeConns
  <2>3. OneEach(conn, NoConn)' /\ Held' = Held \cup {c}
    BY <1>0, <2>1, <2>2, HeldMore DEF Owned, Singles
  <2> QED
    BY <2>1, <2>2, <2>3, OwnersSame DEF Owned, Singles, Apart
<1>7. CASE ConnectRetry(w) \/ ConnectGiveUp(w)
  BY <1>7, OwnersSame DEF ConnectRetry, ConnectGiveUp, taskVars, callerVars, posVars,
     connVars, Owned, Singles, Apart
<1> QED
  BY <1>1, <1>2, <1>3, <1>4, <1>5, <1>6, <1>7 DEF WorkerStep

\* The callers' steps
LEMMA CallerOwned ==
    ASSUME TypeOK, Fresh, TakenOut, Owned, NEW a \in Callers, CallerStep(a) \/ Call(a)
    PROVE  Owned'
<1>0. a \in Threads /\ NoConn \notin Conns
  BY PoolAssumption DEF PoolAssumption, Threads
<1>1. CASE CloseLocked(a) \/ Drain(a) \/ Check(a)
  <2>1. /\ pc[a] \in {"close", "idle"}
        /\ todo' = [todo EXCEPT ![a] = {pool[i] : i \in DOMAIN pool}] /\ pool' = <<>>
        /\ UNCHANGED <<conn, got, status>>
    BY <1>1 DEF CloseLocked, Drain, Check, posVars, connVars
  <2>2. todo[a] = {}
    BY <2>1 DEF TakenOut
  <2>3. /\ Distinct(pool)' /\ Pooled' = {} /\ Out' = Out \cup Pooled
        /\ \A b, c \in Callers : b # c => todo'[b] \cap todo'[c] = {}
    BY <2>1, <2>2, OutMore DEF Owned, Apart
  <2>4. OneEach(TaskConns(tasks), NoConn)' /\ Tasked' = Tasked
    <3>1. CASE CloseLocked(a)
      BY FS_CardinalityType, PoolAssumption, TaskTypes, <3>1, CopiesConcat DEF PoolAssumption,
         StopWorker, Task, TypeOK, TypeTasks, CloseLocked, Owned, Singles, Tasked
    <3>2. CASE Drain(a)
      BY <3>2, OwnersSame DEF Drain, taskVars, Owned, Singles
    <3>3. CASE Check(a)
      BY <3>3, TaskedGrow DEF Check, Owned, Singles
    <3> QED
      BY <1>1, <3>1, <3>2, <3>3
  <2> QED
    BY <2>1, <2>3, <2>4, OwnersSame DEF Owned, Singles, Apart
<1>2. CASE CloseConns(a)
  <2>1. /\ Close(todo[a]) /\ todo' = [todo EXCEPT ![a] = @ \ todo[a]]
        /\ UNCHANGED <<pool, tasks, conn, got>>
    BY <1>2 DEF CloseConns, taskVars, posVars, TypeOK, TypeCallers
  <2>2. /\ Out' = Out \ todo[a] /\ todo[a] \subseteq Out
        /\ \A b, c \in Callers : b # c => todo'[b] \cap todo'[c] = {}
    BY <2>1, OutLess DEF Owned
  <2>3. Live' = Live \ todo[a]
    BY <2>1, LiveLess
  <2> QED
    BY <2>1, <2>2, <2>3, OwnersSame DEF Owned, Singles, Apart
<1>3. ASSUME NEW c \in todo[a], todo' = [todo EXCEPT ![a] = @ \ {c}],
             Close({c}), RunTask(NewConnection), UNCHANGED <<pool, conn, got>>
      PROVE  Owned'
  <2>1. /\ Out' = Out \ {c} /\ c \in Out
        /\ \A b, d \in Callers : b # d => todo'[b] \cap todo'[d] = {}
    <3>1. {c} \subseteq todo[a] /\ Singles
      BY DEF Owned
    <3>2. /\ Out' = Out \ {c} /\ {c} \subseteq Out
          /\ \A b, d \in Callers : b # d => todo'[b] \cap todo'[d] = {}
      BY <1>3, <3>1, OutLess
    <3> QED
      BY <3>2
  <2>2. Live' = Live \ {c}
    BY <1>3, LiveLess
  <2>3. OneEach(TaskConns(tasks), NoConn)' /\ Tasked' = Tasked
    BY <1>3, TaskedSame, TaskTypes DEF Owned, Singles, NewConnection, AddConnection, Task
  <2> QED
    BY <1>3, <2>1, <2>2, <2>3, OwnersSame DEF Owned, Singles, Apart
<1>4. ASSUME NEW c \in todo[a], todo' = [todo EXCEPT ![a] = @ \ {c}],
             pc[a] = "checking", conn' = [conn EXCEPT ![a] = c],
             UNCHANGED <<pool, tasks, got, status>>
      PROVE  Owned'
  <2>1. /\ Out' = Out \ {c} /\ c \in Out
        /\ \A b, d \in Callers : b # d => todo'[b] \cap todo'[d] = {}
    <3>1. {c} \subseteq todo[a] /\ Singles
      BY DEF Owned
    <3>2. /\ Out' = Out \ {c} /\ {c} \subseteq Out
          /\ \A b, d \in Callers : b # d => todo'[b] \cap todo'[d] = {}
      BY <1>4, <3>1, OutLess
    <3> QED
      BY <3>2
  <2>2. c \in Conns /\ c \notin Held /\ pc[a] \notin Holding
    BY <1>4, <2>1 DEF TypeOK, TypeCallers, Owned, Apart, Holding
  <2>3. OneEach(conn, NoConn)' /\ Held' = Held \cup {c}
    BY <1>0, <1>4, <2>2, HeldMore DEF Owned, Singles
  <2> QED
    BY <1>4, <2>1, <2>3, OwnersSame DEF Owned, Singles, Apart
<1>5. CASE ResizeLocked(a)
  <2>1. /\ tasks' = tasks \o Copies(resizing[a][3], NewConnection)
        /\ UNCHANGED <<pool, conn, got, todo, status>>
    BY <1>5 DEF ResizeLocked, callerVars, posVars, connVars
  <2>2. /\ resizing[a][3] \in Nat /\ tasks \in Seq(TaskSet)
        /\ NewConnection \in TaskSet /\ NewConnection.conn = NoConn
    BY TaskTypes DEF TypeOK, TypeCallers, TypeTasks, NewConnection, AddConnection, Task
  <2>3. OneEach(TaskConns(tasks), NoConn)' /\ Tasked' = Tasked
    BY <2>1, <2>2, CopiesConcat DEF Owned, Singles, Tasked
  <2> QED
    BY <2>1, <2>3, OwnersSame DEF Owned, Singles, Apart
<1>6. CASE Open(a)
  <2>1. /\ tasks = <<>> /\ nconns \in Nat
        /\ tasks' = Append(Copies(nconns, NewConnection), Schedule)
        /\ UNCHANGED <<pool, conn, got, todo, status>>
    BY <1>6, PoolAssumption DEF Open, Fresh, PoolAssumption, threadVars, callerVars,
       posVars, connVars
  <2> DEFINE u == <<>> \o Copies(nconns, NewConnection)
  <2>2. /\ NewConnection \in TaskSet /\ NewConnection.conn = NoConn
        /\ Schedule \in TaskSet /\ Schedule.conn = NoConn
        /\ u \in Seq(TaskSet) /\ u = Copies(nconns, NewConnection)
    BY <2>1, TaskTypes, CopiesType DEF NewConnection, AddConnection, Schedule, Task
  <2>3. OneEach(TaskConns(u), NoConn) /\ Images(TaskConns(u), NoConn) = Tasked
    <3>1. <<>> \in Seq(TaskSet) /\ OneEach(TaskConns(<<>>), NoConn)
      BY <2>1 DEF Owned, Singles
    <3> QED
      BY <2>1, <2>2, <3>1, CopiesConcat DEF Tasked
  <2>4. NoConn \notin Tasked /\ tasks' = Append(u, Schedule)
    BY <2>1, <2>2 DEF Tasked, Images
  <2> HIDE DEF u
  <2>5. /\ OneEach(TaskConns(Append(u, Schedule)), NoConn)
        /\ Images(TaskConns(Append(u, Schedule)), NoConn) = Tasked
    <3>1. Schedule.conn \notin Images(TaskConns(u), NoConn)
      BY <2>2, <2>3, <2>4
    <3>2. /\ OneEach(TaskConns(Append(u, Schedule)), NoConn)
          /\ Images(TaskConns(Append(u, Schedule)), NoConn)
               = Images(TaskConns(u), NoConn) \cup ({Schedule.conn} \ {NoConn})
      BY ONLY <2>2, <2>3, <3>1, ConnsAppend
    <3> QED
      BY <2>2, <2>3, <3>2
  <2>6. OneEach(TaskConns(tasks), NoConn)' /\ Tasked' = Tasked
    BY <2>4, <2>5 DEF Tasked
  <2> QED
    BY <2>1, <2>6, OwnersSame DEF Owned, Singles, Apart
<1>7. CASE UNCHANGED <<pool, tasks, conn, got, todo, status>>
  BY <1>7, OwnersSame DEF Owned, Singles, Apart
<1>8. CASE DrainNext(a) \/ CheckNext(a)
  BY <1>3, <1>4, <1>7, <1>8 DEF DrainNext, CheckNext, posVars, connVars
<1> QED
  BY <1>1, <1>2, <1>5, <1>6, <1>7, <1>8 DEF CallerStep, FailWaiting, WaitPoolLocked,
     WaitPoolDone, Call, ClosePool, WaitPool, Resize, taskVars, callerVars, posVars,
     connVars

\* The scheduler's steps, and the server's
LEMMA OtherOwned ==
    ASSUME TypeOK, Owned,
           \/ \E d \in Delayable : Tick(d)
           \/ \E i \in 1..Cardinality(Conns) : Break(i)
    PROVE  Owned'
<1>1. ASSUME NEW d \in Delayable, Tick(d)
      PROVE  Owned'
  BY <1>1, TaskTypes, TaskedSame, OwnersSame DEF Tick, threadVars, callerVars, posVars,
     connVars, Delayable, AddConnection, ShrinkPool, Task, Owned, Singles, Apart
<1>2. ASSUME NEW i \in 1..Cardinality(Conns), Break(i)
      PROVE  Owned'
  <2>1. /\ i \in DOMAIN pool /\ status' = [status EXCEPT ![pool[i]] = "unknown"]
        /\ UNCHANGED <<pool, tasks, conn, got, todo>>
    BY <1>2 DEF Break, taskVars, threadVars, callerVars, posVars
  <2>2. pool[i] \in Live
    BY <2>1 DEF Owned, Pooled, Elements
  <2>3. Live' = Live
    BY <2>1, <2>2, LiveSame
  <2> QED
    BY <2>1, <2>3, OwnersSame DEF Owned, Singles, Apart
<1> QED
  BY <1>1, <1>2

\* Every open connection is owned, once
THEOREM OwnedCorrect == Spec => []Owned
<1>1. Init => Owned
  BY ElementsEmpty DEF Init, Pooled, OneEach, TaskConns, Tasked, Images, Held, Given, Out,
     Live, Owned, Singles, Apart
<1>2. TypeOK /\ Fresh /\ OneAnswer /\ TakenOut /\ Owned /\ [Next]_vars => Owned'
  BY OwnersSame, ClientOwned, ReturnOwned, WorkerOwned, CallerOwned, OtherOwned DEF Owned,
     Singles, Apart, vars, taskVars, threadVars, callerVars, posVars, connVars, Next
<1> QED
  BY <1>1, <1>2, TypeCorrect, FreshCorrect, AnswersCorrect, TakenOutCorrect, PTL DEF Spec

(***************************************************************************)
(* An open connection has one owner at any time, a closed one has none:    *)
(* the pool, a task, a thread, a waiting client or what a caller has taken *)
(* out (pool.py:222-280, 330-351, 656-781, 262-271).                       *)
(***************************************************************************)
THEOREM OwnershipCorrect == Spec => []ExclusiveOwnership
<1>1. TypeOK /\ Owned => ExclusiveOwnership
  BY OwnedPlaces
<1> QED
  BY <1>1, TypeCorrect, OwnedCorrect, PTL

-----------------------------------------------------------------------------
(* What is counted *)

\* The tasks that stand for a connection, and those that make the pool grow
RequestTasks == {t \in TaskSet : t.kind \in {"add", "return"}}
GrowTasks == {t \in TaskSet : t.growing}

\* The tasks of the periodic shrink
ShrinkTasks == {t \in TaskSet : t.kind \in {"shrink", "schedule"}}

\* The same of the delayed tasks
RetryTasks == Delayable \ {ShrinkPool}
GrowRetryTasks == {AddConnection(TRUE, k) : k \in 1..MaxAttempts}

\* Who holds, was given, or is making a connection, and who makes the pool grow
Holders == {t \in Threads : conn[t] # NoConn}
Served == {c \in Clients : got[c] # NoConn}
Connecting == {w \in Workers : pc[w] = "connect"}
Growers ==
    {w \in Workers : \/ pc[w] = "connect" /\ task[w].growing
                     \/ pc[w] = "regrow"
                     \/ pc[w] = "add" /\ ret[w] = "regrow"}

\* How many of each there are
NPooled == Len(pool)
NRequests == Cardinality(Indices(tasks, RequestTasks))
NGrowing == Cardinality(Indices(tasks, GrowTasks))
NShrinks == Cardinality(Indices(tasks, ShrinkTasks))
NRetries == Cardinality(Stock(delayed, RetryTasks))
NGrowRetries == Cardinality(Stock(delayed, GrowRetryTasks))
NOut == Cardinality(Piles(todo, Callers))
NHeld == Cardinality(Holders)
NServed == Cardinality(Served)
NConnecting == Cardinality(Connecting)
NGrowers == Cardinality(Growers)

\* Nothing that is counted is infinite
RetriesFinite ==
    IsFiniteSet(Stock(delayed, RetryTasks)) /\ IsFiniteSet(Stock(delayed, GrowRetryTasks))
OutFinite == IsFiniteSet(Piles(todo, Callers))
HeldFinite == IsFiniteSet(Holders)
ServedFinite == IsFiniteSet(Served)
Finite == RetriesFinite /\ OutFinite /\ HeldFinite /\ ServedFinite

\* The three counts of an open pool
Balanced ==
    nconns = NPooled + NRequests + NRetries + NOut + NHeld + NServed + NConnecting
GrowsOnce == NGrowing + NGrowRetries + NGrowers = IF growing THEN 1 ELSE 0
ShrinksOnce == delayed[ShrinkPool] + NShrinks = 1

\* A worker grows the pool only after it has added a new connection, and close()
\* has connections to close only in a closed pool
Errands ==
    /\ \A w \in Workers : pc[w] = "return" => ret[w] # "regrow"
    /\ \A a \in Callers : pc[a] = "closing" => closed

Books == Finite /\ Balanced /\ GrowsOnce /\ ShrinksOnce
Counted == closed \/ Books

\* What is finite has a natural number of elements
LEMMA CountTypes ==
    ASSUME TypeOK, Finite
    PROVE  /\ NPooled \in Nat /\ NRequests \in Nat /\ NGrowing \in Nat /\ NShrinks \in Nat
           /\ NRetries \in Nat /\ NGrowRetries \in Nat /\ NOut \in Nat /\ NHeld \in Nat
           /\ NServed \in Nat /\ NConnecting \in Nat /\ NGrowers \in Nat
           /\ nconns \in Int /\ delayed[ShrinkPool] \in Nat
BY IndicesFinite, PoolAssumption, FS_Subset, FiniteCounts, TaskTypes DEF NRequests, NGrowing,
   NShrinks, TypeOK, TypeTasks, PoolAssumption, Connecting, Growers, Finite, RetriesFinite,
   OutFinite, HeldFinite, ServedFinite, NRetries, NGrowRetries, NOut, NHeld, NServed,
   NConnecting, NGrowers, NPooled, TypeQueues, TypeCounts

(* What a step does to the numbers *)

\* Nothing
LEMMA CountsSame ==
    /\ UNCHANGED pool => NPooled' = NPooled
    /\ UNCHANGED tasks => NRequests' = NRequests /\ NGrowing' = NGrowing /\ NShrinks' = NShrinks
    /\ UNCHANGED delayed => /\ NRetries' = NRetries /\ NGrowRetries' = NGrowRetries
                            /\ RetriesFinite => RetriesFinite'
    /\ UNCHANGED todo => NOut' = NOut /\ (OutFinite => OutFinite')
    /\ UNCHANGED conn => NHeld' = NHeld /\ (HeldFinite => HeldFinite')
    /\ UNCHANGED got => NServed' = NServed /\ (ServedFinite => ServedFinite')
    /\ UNCHANGED pc => NConnecting' = NConnecting
    /\ UNCHANGED <<pc, ret, task>> => NGrowers' = NGrowers
  BY DEF NPooled, NRequests, NGrowing, NShrinks, NRetries, NGrowRetries, NOut, NHeld,
     NServed, NConnecting, NGrowers, RetriesFinite, OutFinite, HeldFinite, ServedFinite,
     Holders, Served, Connecting, Growers

\* A task is queued
LEMMA TaskCounted ==
    ASSUME TypeOK, NEW t \in TaskSet, RunTask(t)
    PROVE  /\ NRequests' = NRequests + (IF t.kind \in {"add", "return"} THEN 1 ELSE 0)
           /\ NGrowing' = NGrowing + (IF t.growing THEN 1 ELSE 0)
           /\ NShrinks' = NShrinks + (IF t.kind \in {"shrink", "schedule"} THEN 1 ELSE 0)
BY IndicesAppend DEF TypeOK, TypeTasks, RunTask, RequestTasks, GrowTasks, ShrinkTasks,
   NRequests, NGrowing, NShrinks

\* ... or taken
LEMMA TaskTaken ==
    ASSUME TypeOK, NEW w, NEW kind, Take(w, kind)
    PROVE  /\ Head(tasks) \in TaskSet /\ Head(tasks).kind = kind
           /\ NRequests' = NRequests - (IF kind \in {"add", "return"} THEN 1 ELSE 0)
           /\ NGrowing' = NGrowing - (IF Head(tasks).growing THEN 1 ELSE 0)
           /\ NShrinks' = NShrinks - (IF kind \in {"shrink", "schedule"} THEN 1 ELSE 0)
<1> DEFINE t == Head(tasks)
<1>1. /\ tasks \in Seq(TaskSet) /\ tasks # <<>> /\ tasks' = Tail(tasks)
      /\ t \in TaskSet /\ t.kind = kind
  BY DEF TypeOK, TypeTasks, Take
<1>2. /\ t \in RequestTasks <=> kind \in {"add", "return"}
      /\ t \in GrowTasks <=> t.growing
      /\ t \in ShrinkTasks <=> kind \in {"shrink", "schedule"}
  BY <1>1 DEF RequestTasks, GrowTasks, ShrinkTasks
<1>3. \A S : Cardinality(Indices(tasks', S))
               = Cardinality(Indices(tasks, S)) - (IF t \in S THEN 1 ELSE 0)
  BY <1>1, IndicesTail
<1> HIDE DEF t
<1>4. /\ NRequests' = NRequests - (IF kind \in {"add", "return"} THEN 1 ELSE 0)
      /\ NGrowing' = NGrowing - (IF t.growing THEN 1 ELSE 0)
      /\ NShrinks' = NShrinks - (IF kind \in {"shrink", "schedule"} THEN 1 ELSE 0)
  BY <1>2, <1>3 DEF NRequests, NGrowing, NShrinks
<1> QED
  BY <1>1, <1>4 DEF t

\* Connections are requested
LEMMA ManyCounted ==
    ASSUME TypeOK, NEW n \in Nat, tasks' = tasks \o Copies(n, NewConnection)
    PROVE  NRequests' = NRequests + n /\ NGrowing' = NGrowing /\ NShrinks' = NShrinks
<1>1. /\ tasks \in Seq(TaskSet) /\ NewConnection \in TaskSet
      /\ Copies(n, NewConnection) \in Seq(TaskSet)
      /\ NewConnection \in RequestTasks /\ NewConnection \notin GrowTasks
      /\ NewConnection \notin ShrinkTasks
  <2>1. /\ tasks \in Seq(TaskSet) /\ NewConnection \in TaskSet
        /\ Copies(n, NewConnection) \in Seq(TaskSet)
    BY TaskTypes, CopiesType DEF TypeOK, TypeTasks
  <2>2. NewConnection.kind = "add" /\ NewConnection.growing = FALSE
    BY DEF NewConnection, AddConnection, Task
  <2> QED
    BY <2>1, <2>2 DEF RequestTasks, GrowTasks, ShrinkTasks
<1>2. \A S : Cardinality(Indices(Copies(n, NewConnection), S))
               = IF NewConnection \in S THEN n ELSE 0
  BY IndicesCopies DEF Copies
<1>3. \A S : Cardinality(Indices(tasks', S))
               = Cardinality(Indices(tasks, S))
                   + Cardinality(Indices(Copies(n, NewConnection), S))
  BY <1>1, IndicesConcat
<1>4. \A S : Cardinality(Indices(tasks, S)) \in Nat
  BY <1>1, IndicesFinite
<1> QED
  BY <1>1, <1>2, <1>3, <1>4 DEF NRequests, NGrowing, NShrinks

\* The pool may grow
LEMMA GrowCounted ==
    ASSUME TypeOK, Finite, MaybeGrow
    PROVE  /\ NShrinks' = NShrinks
           /\ \/ UNCHANGED <<nconns, growing, NRequests, NGrowing>>
              \/ /\ ~growing /\ growing' = TRUE /\ nconns' = nconns + 1
                 /\ NRequests' = NRequests + 1 /\ NGrowing' = NGrowing + 1
<1>1. NRequests \in Nat /\ NGrowing \in Nat /\ NShrinks \in Nat /\ nconns \in Int
  BY CountTypes
<1>2. CASE nconns >= maxSize \/ growing
  BY <1>2, CountsSame, <1>1 DEF MaybeGrow
<1>3. CASE ~(nconns >= maxSize \/ growing)
  <2>1. nconns' = nconns + 1 /\ growing' = TRUE /\ ~growing /\ RunTask(GrowTask)
    BY <1>3 DEF MaybeGrow
  <2>2. /\ GrowTask \in TaskSet /\ GrowTask.kind = "add" /\ GrowTask.growing
    BY TaskTypes DEF GrowTask, AddConnection, Task
  <2>3. NRequests' = NRequests + 1 /\ NGrowing' = NGrowing + 1 /\ NShrinks' = NShrinks
    BY <1>1, <2>1, <2>2, TaskCounted
  <2> QED
    BY <1>1, <2>1, <2>3
<1> QED
  BY <1>2, <1>3

\* The kinds of delayed tasks
LEMMA RetryKinds ==
    /\ RetryTasks \subseteq Delayable /\ GrowRetryTasks \subseteq Delayable
    /\ ShrinkPool \notin RetryTasks /\ ShrinkPool \notin GrowRetryTasks
    /\ \A d \in RetryTasks : d.kind = "add" /\ (d \in GrowRetryTasks <=> d.growing)
    /\ ShrinkPool.kind = "shrink" /\ ShrinkPool.growing = FALSE
<1>1. ShrinkPool.kind = "shrink" /\ ShrinkPool.growing = FALSE
  BY DEF ShrinkPool, Task
<1>2. \A g \in BOOLEAN, k \in 1..MaxAttempts :
         /\ AddConnection(g, k).kind = "add" /\ AddConnection(g, k).growing = g
         /\ AddConnection(g, k).attempt = k /\ AddConnection(g, k) \in Delayable
  BY DEF AddConnection, Task, Delayable
<1>3. \A d \in RetryTasks : \E g \in BOOLEAN, k \in 1..MaxAttempts : d = AddConnection(g, k)
  BY DEF RetryTasks, Delayable
<1>4. GrowRetryTasks \subseteq Delayable /\ RetryTasks \subseteq Delayable
  BY <1>2 DEF GrowRetryTasks, RetryTasks
<1>5. \A d \in GrowRetryTasks : d.kind = "add" /\ d.growing = TRUE
  BY DEF GrowRetryTasks, AddConnection, Task
<1>6. ASSUME NEW d \in RetryTasks
      PROVE  d.kind = "add" /\ (d \in GrowRetryTasks <=> d.growing)
  <2> PICK g \in BOOLEAN, k \in 1..MaxAttempts : d = AddConnection(g, k)
    BY <1>3
  <2>1. d.kind = "add" /\ d.growing = g
    BY <1>2
  <2>2. g => d \in GrowRetryTasks
    BY DEF GrowRetryTasks
  <2> QED
    BY <1>5, <2>1, <2>2
<1> QED
  BY <1>1, <1>4, <1>5, <1>6 DEF RetryTasks

\* A task is delayed
LEMMA DelayCounted ==
    ASSUME TypeOK, RetriesFinite, NEW d \in Delayable, Delay(d)
    PROVE  /\ RetriesFinite'
           /\ NRetries' = NRetries + (IF d \in RetryTasks THEN 1 ELSE 0)
           /\ NGrowRetries' = NGrowRetries + (IF d \in GrowRetryTasks THEN 1 ELSE 0)
           /\ delayed'[ShrinkPool] = delayed[ShrinkPool] + (IF d = ShrinkPool THEN 1 ELSE 0)
<1>1. delayed \in [Delayable -> Nat] /\ delayed' = [delayed EXCEPT ![d] = @ + 1]
  BY DEF TypeOK, TypeTasks, Delay
<1>2. \A D \in SUBSET Delayable : IsFiniteSet(Stock(delayed, D)) =>
         Counts(Stock(delayed', D), Cardinality(Stock(delayed, D))
                                      + (IF d \in D THEN 1 ELSE 0))
  BY <1>1, StockMore
<1>3. delayed'[ShrinkPool] = delayed[ShrinkPool] + (IF d = ShrinkPool THEN 1 ELSE 0)
  BY <1>1, TaskTypes
<1> QED
  BY <1>2, <1>3, RetryKinds DEF RetriesFinite, NRetries, NGrowRetries, Counts

\* ... or its time comes
LEMMA TickCounted ==
    ASSUME TypeOK, RetriesFinite, NEW d \in Delayable, Tick(d)
    PROVE  /\ RetriesFinite'
           /\ NRetries' = NRetries - (IF d \in RetryTasks THEN 1 ELSE 0)
           /\ NGrowRetries' = NGrowRetries - (IF d \in GrowRetryTasks THEN 1 ELSE 0)
           /\ delayed'[ShrinkPool] = delayed[ShrinkPool] - (IF d = ShrinkPool THEN 1 ELSE 0)
<1>1. /\ delayed \in [Delayable -> Nat] /\ delayed[d] > 0
      /\ delayed' = [delayed EXCEPT ![d] = @ - 1]
  BY DEF TypeOK, TypeTasks, Tick
<1>2. \A D \in SUBSET Delayable : IsFiniteSet(Stock(delayed, D)) =>
         Counts(Stock(delayed', D), Cardinality(Stock(delayed, D))
                                      - (IF d \in D THEN 1 ELSE 0))
  BY <1>1, StockLess
<1>3. delayed'[ShrinkPool] = delayed[ShrinkPool] - (IF d = ShrinkPool THEN 1 ELSE 0)
  BY <1>1, TaskTypes
<1> QED
  BY <1>2, <1>3, RetryKinds DEF RetriesFinite, NRetries, NGrowRetries, Counts

\* A thread gets a connection ...
LEMMA HolderMore ==
    ASSUME TypeOK, HeldFinite, NEW t \in Threads, pc[t] \notin Holding,
           NEW x \in Conns, conn' = [conn EXCEPT ![t] = x]
    PROVE  HeldFinite' /\ NHeld' = NHeld + 1
<1>1. /\ conn \in [Threads -> Conns \cup {NoConn}] /\ conn[t] = NoConn /\ x # NoConn
      /\ conn' = [conn EXCEPT ![t] = x]
  BY PoolAssumption DEF PoolAssumption, TypeOK, TypeThreads
<1>2. Holders' = Holders \cup {t} /\ t \notin Holders
  BY <1>1 DEF Holders
<1>3. Counts(Holders', NHeld + 1)
  BY <1>2, AddOne DEF HeldFinite, NHeld
<1> QED
  BY <1>3 DEF Counts, HeldFinite, NHeld

\* ... or lets one go
LEMMA HolderLess ==
    ASSUME TypeOK, HeldFinite, NEW t \in Threads, pc[t] \in Holding, Release(t)
    PROVE  HeldFinite' /\ NHeld' = NHeld - 1
BY TakeOne DEF TypeOK, TypeThreads, Release, Holders, HeldFinite, NHeld, Counts

\* A waiting client is given a connection ...
LEMMA ServedMore ==
    ASSUME TypeOK, ServedFinite, NEW c \in Clients, got[c] = NoConn,
           NEW x \in Conns, got' = [got EXCEPT ![c] = x]
    PROVE  ServedFinite' /\ NServed' = NServed + 1
BY PoolAssumption, AddOne DEF PoolAssumption, TypeOK, TypePos, Served, ServedFinite, NServed,
   Counts

\* ... or takes it
LEMMA ServedLess ==
    ASSUME TypeOK, ServedFinite, NEW c \in Clients, got[c] # NoConn,
           got' = [got EXCEPT ![c] = NoConn]
    PROVE  ServedFinite' /\ NServed' = NServed - 1
BY TakeOne DEF TypeOK, TypePos, Served, ServedFinite, NServed, Counts

\* A caller takes everything out of the pool ...
LEMMA PileMore ==
    ASSUME TypeOK, OutFinite, Distinct(pool), NEW a \in Callers, todo[a] = {},
           todo' = [todo EXCEPT ![a] = {pool[i] : i \in DOMAIN pool}], pool' = <<>>
    PROVE  OutFinite' /\ NOut' = NOut + NPooled /\ NPooled' = 0
<1>1. pool \in Seq(Conns) /\ todo \in [Callers -> SUBSET Conns]
  BY DEF TypeOK, TypeQueues, TypeCallers
<1>2. /\ IsFiniteSet(Elements(pool)) /\ Cardinality(Elements(pool)) = NPooled
      /\ Elements(pool) \in SUBSET Conns
  <2>1. Counts(Elements(pool), Len(pool))
    BY <1>1, ElementsCount
  <2>2. Elements(pool) \in SUBSET Conns
    BY <1>1 DEF Elements
  <2> QED
    BY <2>1, <2>2 DEF Counts, NPooled
<1>3. todo' = [todo EXCEPT ![a] = Elements(pool)]
  BY DEF Elements
<1>4. Counts(Piles(todo', Callers), NOut + Cardinality(Elements(pool)))
  BY <1>1, <1>2, <1>3, PilesMore DEF OutFinite, NOut
<1> QED
  BY <1>2, <1>4 DEF Counts, OutFinite, NOut, NPooled

\* ... or has done with one of the connections
LEMMA PileLess ==
    ASSUME TypeOK, OutFinite, NEW a \in Callers, NEW c \in todo[a],
           todo' = [todo EXCEPT ![a] = @ \ {c}]
    PROVE  OutFinite' /\ NOut' = NOut - 1
<1>1. todo \in [Callers -> SUBSET Conns]
  BY DEF TypeOK, TypeCallers
<1>2. Counts(Piles(todo', Callers), NOut - 1)
  BY <1>1, PilesLess DEF OutFinite, NOut
<1> QED
  BY <1>2 DEF Counts, OutFinite, NOut

\* One worker goes on, the others stay where they are: who connects and who grows
LEMMA WorkerCounted ==
    ASSUME NEW w \in Workers,
           \A v \in Workers : v # w =>
               pc'[v] = pc[v] /\ ret'[v] = ret[v] /\ task'[v] = task[v]
    PROVE  /\ NConnecting' = NConnecting + (IF w \in Connecting' THEN 1 ELSE 0)
                                         - (IF w \in Connecting THEN 1 ELSE 0)
           /\ NGrowers' = NGrowers + (IF w \in Growers' THEN 1 ELSE 0)
                                   - (IF w \in Growers THEN 1 ELSE 0)
<1>1. IsFiniteSet(Connecting) /\ IsFiniteSet(Growers)
  BY PoolAssumption, FS_Subset DEF PoolAssumption, Connecting, Growers
<1>2. /\ \A v : v # w => (v \in Connecting <=> v \in Connecting')
      /\ \A v : v # w => (v \in Growers <=> v \in Growers')
  BY DEF Connecting, Growers
<1>3. Counts(Connecting', NConnecting + (IF w \in Connecting' THEN 1 ELSE 0)
                                      - (IF w \in Connecting THEN 1 ELSE 0))
  BY <1>1, <1>2, OneChange DEF NConnecting
<1>4. Counts(Growers', NGrowers + (IF w \in Growers' THEN 1 ELSE 0)
                                - (IF w \in Growers THEN 1 ELSE 0))
  BY <1>1, <1>2, OneChange DEF NGrowers
<1> QED
  BY <1>3, <1>4 DEF Counts, NConnecting, NGrowers

\* No worker does
LEMMA WorkersSame ==
    ASSUME \A v \in Workers : pc'[v] = pc[v] /\ ret'[v] = ret[v] /\ task'[v] = task[v]
    PROVE  NConnecting' = NConnecting /\ NGrowers' = NGrowers
BY DEF Connecting, Growers, NConnecting, NGrowers

\* The clients' steps keep the books of an open pool
LEMMA ClientBooks ==
    ASSUME TypeOK, Books, ~closed, NEW c \in Clients, GetConn(c) \/ ClientStep(c)
    PROVE  Books'
<1>0. c \in Threads /\ c \notin Workers
  BY PoolAssumption DEF PoolAssumption, Threads
<1>1. /\ NPooled \in Nat /\ NRequests \in Nat /\ NGrowing \in Nat /\ NShrinks \in Nat
      /\ NRetries \in Nat /\ NGrowRetries \in Nat /\ NOut \in Nat /\ NHeld \in Nat
      /\ NServed \in Nat /\ NConnecting \in Nat /\ NGrowers \in Nat
      /\ nconns \in Int /\ delayed[ShrinkPool] \in Nat
  BY CountTypes DEF Books
<1>2. NConnecting' = NConnecting /\ NGrowers' = NGrowers
  BY <1>0, WorkersSame DEF ClientStep, GetConn, GetReady, GetTooMany, GetQueue, GetTooLate,
     WaitGot, WaitFailed, WaitTimeout, CheckGood, CheckBad, HandOver, PutConn, PutBack, GoTo,
     TypeOK, TypeThreads, Threads
<1>3. CASE GetReady(c)
  <2>1. /\ pool # <<>> /\ pool' = Tail(pool) /\ pc[c] \notin Holding
        /\ conn' = [conn EXCEPT ![c] = Head(pool)]
        /\ UNCHANGED <<nconns, growing, tasks, delayed, got, todo>>
    BY <1>3 DEF GetReady, Holding, taskVars, callerVars, posVars
  <2>2. NPooled' = NPooled - 1 /\ Head(pool) \in Conns
    BY <2>1 DEF NPooled, TypeOK, TypeQueues
  <2>3. HeldFinite' /\ NHeld' = NHeld + 1
    BY <1>0, <2>1, <2>2, HolderMore DEF Books, Finite
  <2> QED
    BY <1>1, <1>2, <2>1, <2>2, <2>3, CountsSame DEF Books, Finite, Balanced, GrowsOnce,
       ShrinksOnce
<1>4. CASE GetQueue(c)
  <2>1. MaybeGrow /\ UNCHANGED <<pool, delayed, conn, got, todo>>
    BY <1>4 DEF GetQueue, callerVars, posVars
  <2>2. /\ NShrinks' = NShrinks
        /\ \/ UNCHANGED <<nconns, growing, NRequests, NGrowing>>
           \/ /\ ~growing /\ growing' = TRUE /\ nconns' = nconns + 1
              /\ NRequests' = NRequests + 1 /\ NGrowing' = NGrowing + 1
    BY <2>1, GrowCounted DEF Books
  <2>3. /\ NPooled' = NPooled /\ NRetries' = NRetries /\ NGrowRetries' = NGrowRetries
        /\ NOut' = NOut /\ NHeld' = NHeld /\ NServed' = NServed
        /\ UNCHANGED delayed /\ Finite'
    BY <2>1, CountsSame DEF Books, Finite
  <2>4. Balanced'
    BY <1>1, <1>2, <2>2, <2>3 DEF Books, Balanced
  <2>5. GrowsOnce'
    BY <1>1, <1>2, <2>2, <2>3 DEF Books, GrowsOnce
  <2>6. ShrinksOnce'
    BY <1>1, <2>2, <2>3 DEF Books, ShrinksOnce
  <2> QED
    BY <2>3, <2>4, <2>5, <2>6 DEF Books
<1>5. CASE WaitGot(c) \/ WaitTimeout(c)
  <2>1. /\ pc[c] \notin Holding
        /\ conn' = [conn EXCEPT ![c] = got[c]] /\ got' = [got EXCEPT ![c] = NoConn]
        /\ UNCHANGED <<pool, nconns, growing, tasks, delayed, todo>>
    BY <1>5 DEF WaitGot, WaitTimeout, Holding, countVars, taskVars, callerVars
  <2>2. CASE got[c] # NoConn
    <3>1. got[c] \in Conns
      BY <2>2 DEF TypeOK, TypePos
    <3>2. HeldFinite' /\ NHeld' = NHeld + 1
      BY <1>0, <2>1, <3>1, HolderMore DEF Books, Finite
    <3>3. ServedFinite' /\ NServed' = NServed - 1
      BY <2>1, <2>2, ServedLess DEF Books, Finite
    <3> QED
      BY <1>1, <1>2, <2>1, <3>2, <3>3, CountsSame DEF Books, Finite, Balanced,
         GrowsOnce, ShrinksOnce
  <2>3. CASE got[c] = NoConn
    BY <1>0, <2>1, <2>3, <1>1, <1>2, CountsSame DEF TypeOK, TypeThreads, TypePos, Books,
       Finite, Balanced, GrowsOnce, ShrinksOnce
  <2> QED
    BY <2>2, <2>3
<1>6. CASE HandOver(c)
  <2>1. /\ pc[c] \in Holding /\ RunTask(ReturnConnection(conn[c])) /\ Release(c)
        /\ UNCHANGED <<pool, nconns, growing, delayed, got, todo>>
    BY <1>6 DEF HandOver, Holding, countVars, callerVars, posVars
  <2>2. /\ ReturnConnection(conn[c]) \in TaskSet
        /\ ReturnConnection(conn[c]).kind = "return"
        /\ ~ReturnConnection(conn[c]).growing
    BY <1>0, <2>1, HeldConn, TaskTypes DEF ReturnConnection, Task
  <2>3. NRequests' = NRequests + 1 /\ NGrowing' = NGrowing /\ NShrinks' = NShrinks
    BY <1>1, <2>1, <2>2, TaskCounted
  <2>4. HeldFinite' /\ NHeld' = NHeld - 1
    BY <1>0, <2>1, HolderLess DEF Books, Finite
  <2> QED
    BY <1>1, <1>2, <2>1, <2>3, <2>4, CountsSame DEF Books, Finite, Balanced, GrowsOnce,
       ShrinksOnce
<1>7. CASE UNCHANGED <<pool, nconns, growing, tasks, delayed, conn, got, todo>>
  BY <1>1, <1>2, <1>7, CountsSame DEF Books, Finite, Balanced, GrowsOnce, ShrinksOnce
<1> QED
  BY <1>3, <1>4, <1>5, <1>6, <1>7 DEF ClientStep, GetConn, GetTooMany, GetTooLate,
     WaitFailed, CheckGood, CheckBad, PutConn, countVars, taskVars, callerVars, posVars

\* A thread that returns a connection keeps the books
LEMMA ReturnBooks ==
    ASSUME TypeOK, OneAnswer, Errands, Books, ~closed, NEW t \in Threads, ReturnStep(t)
    PROVE  Books'
<1>1. /\ NPooled \in Nat /\ NRequests \in Nat /\ NGrowing \in Nat /\ NShrinks \in Nat
      /\ NRetries \in Nat /\ NGrowRetries \in Nat /\ NOut \in Nat /\ NHeld \in Nat
      /\ NServed \in Nat /\ NConnecting \in Nat /\ NGrowers \in Nat
      /\ nconns \in Int /\ delayed[ShrinkPool] \in Nat
  BY CountTypes DEF Books
<1>2. /\ pc[t] \in Holding /\ UNCHANGED <<todo, nconns, growing, delayed>>
      /\ pc[t] \in {"return", "add"} /\ UNCHANGED <<ret, task>>
      /\ pc' = [pc EXCEPT ![t] = ret[t]] \/ (pc[t] = "return" /\ pc' = [pc EXCEPT ![t] = "add"])
  BY DEF ReturnStep, ReturnDiscard, ReturnKeep, AddClosed, AddGive, AddKeep, Holding,
     countVars, taskVars, callerVars, GoTo
<1>3. NConnecting' = NConnecting /\ NGrowers' = NGrowers
  BY <1>2, <1>1, WorkerCounted, WorkersSame DEF TypeOK, TypeThreads, Threads, Connecting,
     Errands, Growers
<1>4. Release(t) => HeldFinite' /\ NHeld' = NHeld - 1
  BY <1>2, HolderLess DEF Books, Finite
<1>5. conn[t] \in Conns
  BY <1>2, HeldConn
<1>6. CASE ReturnDiscard(t)
  BY <1>6, TaskTypes, <1>1, TaskCounted, <1>2, <1>3, <1>4, CountsSame DEF ReturnDiscard,
     posVars, NewConnection, AddConnection, Task, Books, Finite, Balanced, GrowsOnce,
     ShrinksOnce
<1>7. CASE ReturnKeep(t)
  BY <1>7, <1>1, <1>2, <1>3, CountsSame DEF ReturnKeep, taskVars, posVars, Books, Finite,
     Balanced, GrowsOnce, ShrinksOnce
<1>8. CASE AddGive(t)
  <2> PICK i \in DOMAIN waiting :
              IsFirst(i) /\ got' = [got EXCEPT ![waiting[i]] = conn[t]]
    BY <1>8 DEF AddGive
  <2>1. Release(t) /\ UNCHANGED <<pool, tasks>>
    BY <1>8 DEF AddGive, taskVars
  <2>2. waiting[i] \in Clients /\ got[waiting[i]] = NoConn
    BY DEF IsFirst, Alive, TypeOK, TypeQueues, OneAnswer, QueuedUnanswered
  <2>3. ServedFinite' /\ NServed' = NServed + 1
    BY <1>5, <2>2, ServedMore DEF Books, Finite
  <2> QED
    BY <1>1, <1>2, <1>3, <1>4, <2>1, <2>3, CountsSame DEF Books, Finite, Balanced,
       GrowsOnce, ShrinksOnce
<1>9. CASE AddKeep(t)
  BY <1>9, <1>5, <1>1, <1>2, <1>3, <1>4, CountsSame, SMTT(40) DEF AddKeep, taskVars, posVars, NPooled,
     TypeOK, TypeQueues, Books, Finite, Balanced, GrowsOnce, ShrinksOnce
<1> QED
  BY <1>6, <1>7, <1>8, <1>9 DEF ReturnStep, AddClosed

\* The workers keep the books
LEMMA WorkerBooks ==
    ASSUME TypeOK, Books, ~closed, NEW w \in Workers, WorkerStep(w)
    PROVE  Books'
<1>0. w \in Threads /\ Workers \subseteq Threads
  BY DEF Threads
<1>1. /\ NPooled \in Nat /\ NRequests \in Nat /\ NGrowing \in Nat /\ NShrinks \in Nat
      /\ NRetries \in Nat /\ NGrowRetries \in Nat /\ NOut \in Nat /\ NHeld \in Nat
      /\ NServed \in Nat /\ NConnecting \in Nat /\ NGrowers \in Nat
      /\ nconns \in Int /\ delayed[ShrinkPool] \in Nat
  BY CountTypes DEF Books
<1>2. UNCHANGED <<todo, got>>
  BY DEF WorkerStep, WorkerStop, WorkerDiscard, WorkerAdd, WorkerReturn, WorkerShrink,
     WorkerSchedule, Shrink, Regrow, ConnectRetry, ConnectGiveUp, ConnectOk, callerVars,
     posVars
<1>3. /\ NConnecting' = NConnecting + (IF w \in Connecting' THEN 1 ELSE 0)
                                    - (IF w \in Connecting THEN 1 ELSE 0)
      /\ NGrowers' = NGrowers + (IF w \in Growers' THEN 1 ELSE 0)
                              - (IF w \in Growers THEN 1 ELSE 0)
  BY <1>0, WorkerCounted DEF WorkerStep, WorkerStop, WorkerDiscard, WorkerAdd, WorkerReturn,
     WorkerShrink, WorkerSchedule, Shrink, Regrow, ConnectRetry, ConnectGiveUp, ConnectOk,
     GoTo, threadVars, TypeOK, TypeThreads
<1>4. /\ pc \in [Threads -> PCs] /\ task \in [Workers -> AddTasks]
      /\ DOMAIN ret = Threads
  BY DEF TypeOK, TypeThreads
<1>5. CASE WorkerStop(w)
  <2>1. /\ Take(w, "stop") /\ GoTo(w, "stopped")
        /\ UNCHANGED <<pool, nconns, growing, delayed, conn>>
    BY <1>5 DEF WorkerStop, countVars
  <2>2. Head(tasks).kind = "stop" /\ Head(tasks) \in TaskSet /\ pc[w] = "idle"
    BY <2>1, TaskTaken DEF Take
  <2>3. ~Head(tasks).growing
    BY <2>2 DEF TaskSet, AddTasks, AddConnection, ReturnConnection, ShrinkPool, Schedule,
       StopWorker, Task
  <2>4. NRequests' = NRequests /\ NGrowing' = NGrowing /\ NShrinks' = NShrinks
    BY <1>1, <2>1, <2>3, TaskTaken
  <2>5. NConnecting' = NConnecting /\ NGrowers' = NGrowers
    BY <1>0, <1>1, <1>3, <1>4, <2>1, <2>2 DEF Connecting, Growers, GoTo
  <2> QED
    BY <1>1, <1>2, <2>1, <2>4, <2>5, CountsSame DEF Books, Finite, Balanced, GrowsOnce,
       ShrinksOnce
<1>6. CASE WorkerAdd(w)
  <2>1. /\ Take(w, "add") /\ task' = [task EXCEPT ![w] = Head(tasks)]
        /\ GoTo(w, "connect") /\ UNCHANGED <<pool, nconns, growing, delayed, conn>>
    BY <1>6 DEF WorkerAdd, countVars
  <2>2. /\ NRequests' = NRequests - 1 /\ NShrinks' = NShrinks /\ pc[w] = "idle"
        /\ NGrowing' = NGrowing - (IF Head(tasks).growing THEN 1 ELSE 0)
    BY <1>1, <2>1, TaskTaken, SMTT(40) DEF Take
  <2>3. /\ NConnecting' = NConnecting + 1
        /\ NGrowers' = NGrowers + (IF Head(tasks).growing THEN 1 ELSE 0)
    BY <1>0, <1>4, <2>1, <2>2, <1>1, <1>3 DEF Connecting, Growers, GoTo
  <2> QED
    BY <1>1, <1>2, <2>1, <2>2, <2>3, CountsSame DEF Books, Finite, Balanced, GrowsOnce,
       ShrinksOnce
<1>7. CASE WorkerReturn(w)
  <2>1. /\ Take(w, "return") /\ conn' = [conn EXCEPT ![w] = Head(tasks).conn]
        /\ ret' = [ret EXCEPT ![w] = "idle"] /\ GoTo(w, "return")
        /\ UNCHANGED <<pool, nconns, growing, delayed>>
    BY <1>7 DEF WorkerReturn, countVars
  <2>2. Head(tasks).kind = "return" /\ Head(tasks) \in TaskSet /\ pc[w] = "idle"
    BY <2>1, TaskTaken DEF Take
  <2>3. Head(tasks).growing = FALSE /\ Head(tasks).conn \in Conns
    BY <2>2 DEF TaskSet, AddTasks, AddConnection, ReturnConnection, ShrinkPool, Schedule,
       StopWorker, Task
  <2>4. NRequests' = NRequests - 1 /\ NGrowing' = NGrowing /\ NShrinks' = NShrinks
    BY <1>1, <2>1, <2>3, TaskTaken
  <2>5. HeldFinite' /\ NHeld' = NHeld + 1
    BY <1>0, <2>1, <2>2, <2>3, HolderMore DEF Books, Finite, Holding
  <2>6. NConnecting' = NConnecting /\ NGrowers' = NGrowers
    BY <1>0, <1>1, <1>3, <1>4, <2>1, <2>2 DEF Connecting, Growers, GoTo
  <2> QED
    BY <1>1, <1>2, <2>1, <2>4, <2>5, <2>6, CountsSame DEF Books, Finite, Balanced,
       GrowsOnce, ShrinksOnce
<1>8. CASE WorkerShrink(w) \/ WorkerSchedule(w)
  <2>1. /\ Take(w, "shrink") \/ Take(w, "schedule")
        /\ Delay(ShrinkPool)
        /\ UNCHANGED <<pool, nconns, growing, conn, ret, task>>
        /\ UNCHANGED pc \/ GoTo(w, "shrink")
    BY <1>8 DEF WorkerShrink, WorkerSchedule, countVars, threadVars
  <2>2. /\ Head(tasks).kind \in {"shrink", "schedule"} /\ Head(tasks) \in TaskSet
        /\ pc[w] = "idle"
    BY <2>1, TaskTaken DEF Take
  <2>3. Head(tasks).growing = FALSE
    BY <2>2 DEF TaskSet, AddTasks, AddConnection, ReturnConnection, ShrinkPool, Schedule,
       StopWorker, Task
  <2>4. NRequests' = NRequests /\ NGrowing' = NGrowing /\ NShrinks' = NShrinks - 1
    BY <2>1, <1>1, <2>3, TaskTaken
  <2>5. /\ RetriesFinite' /\ NRetries' = NRetries /\ NGrowRetries' = NGrowRetries
        /\ delayed'[ShrinkPool] = delayed[ShrinkPool] + 1
    BY <1>1, <2>1, DelayCounted, RetryKinds, TaskTypes DEF Books, Finite
  <2>6. NConnecting' = NConnecting /\ NGrowers' = NGrowers
    BY <1>0, <1>1, <1>3, <1>4, <2>1, <2>2 DEF Connecting, Growers, GoTo
  <2> QED
    BY <1>1, <1>2, <2>1, <2>4, <2>5, <2>6, CountsSame DEF Books, Finite, Balanced,
       GrowsOnce, ShrinksOnce
<1>9. CASE Shrink(w)
  <2>1. /\ pc[w] = "shrink" /\ GoTo(w, "idle")
        /\ UNCHANGED <<tasks, delayed, conn, growing>>
    BY <1>9 DEF Shrink, taskVars
  <2>2. NConnecting' = NConnecting /\ NGrowers' = NGrowers
    BY <1>0, <1>1, <1>3, <1>4, <2>1 DEF Connecting, Growers, GoTo
  <2>3. \/ pool # <<>> /\ pool' = Tail(pool) /\ nconns' = nconns - 1
        \/ UNCHANGED <<pool, nconns>>
    BY <1>9 DEF Shrink
  <2>4. \/ NPooled' = NPooled - 1 /\ nconns' = nconns - 1
        \/ UNCHANGED <<NPooled, nconns>>
    BY <2>3 DEF NPooled, TypeOK, TypeQueues
  <2>5. /\ NRequests' = NRequests /\ NGrowing' = NGrowing /\ NShrinks' = NShrinks
        /\ NRetries' = NRetries /\ NGrowRetries' = NGrowRetries
        /\ NOut' = NOut /\ NHeld' = NHeld /\ NServed' = NServed
        /\ UNCHANGED <<delayed, growing>> /\ Finite'
    BY <1>2, <2>1, CountsSame DEF Books, Finite
  <2>6. Balanced'
    BY <1>1, <2>2, <2>4, <2>5 DEF Books, Balanced
  <2>7. GrowsOnce' /\ ShrinksOnce'
    BY <2>2, <2>5 DEF Books, GrowsOnce, ShrinksOnce
  <2> QED
    BY <2>5, <2>6, <2>7 DEF Books
<1>10. CASE Regrow(w)
  <2>1. /\ pc[w] = "regrow" /\ GoTo(w, "idle")
        /\ UNCHANGED <<pool, delayed, conn>>
    BY <1>10 DEF Regrow
  <2>2. NConnecting' = NConnecting /\ NGrowers' = NGrowers - 1
    BY <1>0, <1>1, <1>3, <1>4, <2>1 DEF Connecting, Growers, GoTo
  <2>3. CASE nconns' = nconns + 1 /\ RunTask(GrowTask) /\ UNCHANGED growing
    BY TaskTypes, <1>1, <2>3, TaskCounted, <1>2, <2>1, <2>2, CountsSame DEF GrowTask,
       AddConnection, Task, Books, Finite, Balanced, GrowsOnce, ShrinksOnce
  <2>4. CASE growing' = FALSE /\ UNCHANGED <<nconns, tasks>>
    BY PoolAssumption, FS_Subset, FiniteCounts, <1>1, <1>2, <2>1, <2>2, <2>4, CountsSame DEF
       PoolAssumption, Growers, NGrowers, Books, Finite, Balanced, GrowsOnce, ShrinksOnce
  <2> QED
    BY <1>10, <2>3, <2>4 DEF Regrow
<1>11. ASSUME NEW c \in Conns, ConnectOk(w, c)
       PROVE  Books'
  <2>1. /\ pc[w] = "connect" /\ GoTo(w, "add") /\ conn' = [conn EXCEPT ![w] = c]
        /\ ret' = [ret EXCEPT ![w] = IF task[w].growing THEN "regrow" ELSE "idle"]
        /\ UNCHANGED <<pool, nconns, growing, tasks, delayed, task>>
    BY <1>11 DEF ConnectOk, countVars, taskVars
  <2>2. HeldFinite' /\ NHeld' = NHeld + 1
    BY <1>0, <2>1, HolderMore DEF Books, Finite, Holding
  <2>3. NConnecting' = NConnecting - 1 /\ NGrowers' = NGrowers
    BY <1>0, <1>1, <1>3, <1>4, <2>1 DEF Connecting, Growers, GoTo
  <2> QED
    BY <1>1, <1>2, <2>1, <2>2, <2>3, CountsSame DEF Books, Finite, Balanced, GrowsOnce,
       ShrinksOnce
<1>12. CASE ConnectRetry(w)
  <2> DEFINE d == AddConnection(task[w].growing, task[w].attempt + 1)
  <2>1. /\ pc[w] = "connect" /\ GoTo(w, "idle") /\ Delay(d)
        /\ UNCHANGED <<pool, nconns, growing, tasks, conn, ret, task>>
    BY <1>12 DEF ConnectRetry, countVars
  <2>2. d \in Delayable /\ task[w].growing \in BOOLEAN
    BY <1>4, <1>12, AddFields DEF ConnectRetry
  <2>3. d.kind = "add" /\ d.growing = task[w].growing
    BY DEF AddConnection, Task
  <2> HIDE DEF d
  <2>4. d \in RetryTasks /\ d # ShrinkPool /\ (d \in GrowRetryTasks <=> task[w].growing)
    BY <2>2, <2>3, RetryKinds DEF RetryTasks
  <2>5. /\ RetriesFinite' /\ NRetries' = NRetries + 1
        /\ NGrowRetries' = NGrowRetries + (IF task[w].growing THEN 1 ELSE 0)
        /\ delayed'[ShrinkPool] = delayed[ShrinkPool]
    BY <1>1, <2>1, <2>2, <2>4, DelayCounted DEF Books, Finite
  <2>6. /\ NConnecting' = NConnecting - 1
        /\ NGrowers' = NGrowers - (IF task[w].growing THEN 1 ELSE 0)
    BY <1>0, <1>4, <2>1, <1>1, <1>3 DEF Connecting, Growers, GoTo
  <2> QED
    BY <1>1, <1>2, <2>1, <2>5, <2>6, CountsSame DEF Books, Finite, Balanced, GrowsOnce,
       ShrinksOnce
<1>13. CASE ConnectGiveUp(w)
  <2>1. /\ pc[w] = "connect" /\ GoTo(w, "idle") /\ nconns' = nconns - 1
        /\ growing' = (growing /\ ~task[w].growing)
        /\ UNCHANGED <<pool, tasks, delayed, conn, ret, task>>
    BY <1>13 DEF ConnectGiveUp, taskVars
  <2>2. /\ NConnecting' = NConnecting - 1
        /\ NGrowers' = NGrowers - (IF task[w].growing THEN 1 ELSE 0)
    BY <1>0, <1>4, <2>1, <1>1, <1>3 DEF Connecting, Growers, GoTo
  <2>3. NGrowers' \in Nat
    BY PoolAssumption, FS_Subset, FiniteCounts DEF PoolAssumption, Growers, NGrowers
  <2>4. Balanced' /\ Finite' /\ ShrinksOnce'
    BY <1>1, <1>2, <2>1, <2>2, CountsSame DEF Books, Finite, Balanced, ShrinksOnce
  <2>5. GrowsOnce'
    <3>1. NGrowing' = NGrowing /\ NGrowRetries' = NGrowRetries
      BY <2>1, CountsSame
    <3>2. CASE task[w].growing
      <4>1. NGrowers' = NGrowers - 1
        BY <1>1, <2>2, <3>2
      <4>2. ~growing'
        BY <2>1, <3>2, Zenon
      <4> QED
        BY <1>1, <2>3, <3>1, <4>1, <4>2 DEF Books, GrowsOnce
    <3>3. CASE ~task[w].growing
      <4>1. NGrowers' = NGrowers
        BY <1>1, <2>2, <3>3
      <4>2. growing' <=> growing
        BY <2>1, <3>3, Zenon
      <4> QED
        BY <1>1, <3>1, <4>1, <4>2 DEF Books, GrowsOnce
    <3> QED
      BY <3>2, <3>3
  <2> QED
    BY <2>4, <2>5 DEF Books
<1> QED
  BY <1>5, <1>6, <1>7, <1>8, <1>9, <1>10, <1>11, <1>12, <1>13 DEF WorkerStep,
     WorkerDiscard

\* open() finds nothing, and asks for the connections that nconns counts
LEMMA OpenBooks ==
    ASSUME TypeOK, Fresh, NEW a \in Callers, Open(a)
    PROVE  Books'
<1>1. /\ nconns \in Nat /\ ~growing /\ pool = <<>> /\ tasks = <<>>
      /\ \A d \in Delayable : delayed[d] = 0
      /\ \A t \in Threads : pc[t] \notin Holding
      /\ \A t \in Workers : pc[t] = "idle"
      /\ \A b \in Callers : todo[b] = {}
      /\ \A c \in Clients : got[c] = NoConn
      /\ tasks' = Append(Copies(nconns, NewConnection), Schedule)
      /\ UNCHANGED <<nconns, growing, pool, delayed, pc, conn, ret, task, todo, got>>
  BY PoolAssumption DEF PoolAssumption, Open, Fresh, Holding, countVars, threadVars,
     callerVars, posVars
<1>2. NPooled = 0
  BY <1>1 DEF NPooled
<1>3. /\ Counts(Stock(delayed, RetryTasks), 0) /\ Counts(Stock(delayed, GrowRetryTasks), 0)
      /\ delayed[ShrinkPool] = 0
  BY <1>1, RetryKinds, TaskTypes, StockEmpty, EmptyCounts
<1>4. Counts(Piles(todo, Callers), 0)
  <2>1. Piles(todo, Callers) = {}
    BY <1>1 DEF Piles
  <2> QED
    BY <2>1, EmptyCounts
<1>5. Counts(Holders, 0) /\ Counts(Served, 0)
  <2>1. Holders = {} /\ Served = {}
    BY <1>1 DEF Holders, Served, TypeOK, TypeThreads
  <2> QED
    BY <2>1, EmptyCounts
<1>6. NConnecting = 0 /\ NGrowers = 0
  BY <1>1, EmptyCounts DEF Connecting, Growers, Counts, NConnecting, NGrowers
<1>7. /\ RetriesFinite /\ OutFinite /\ HeldFinite /\ ServedFinite
      /\ NRetries = 0 /\ NGrowRetries = 0 /\ NOut = 0 /\ NHeld = 0 /\ NServed = 0
  BY <1>3, <1>4, <1>5 DEF Counts, RetriesFinite, OutFinite, HeldFinite, ServedFinite,
     NRetries, NGrowRetries, NOut, NHeld, NServed
<1>8. NRequests' = nconns /\ NGrowing' = 0 /\ NShrinks' = 1
  <2> DEFINE u == Copies(nconns, NewConnection)
  <2>1. /\ NewConnection \in TaskSet /\ NewConnection.kind = "add"
        /\ NewConnection.growing = FALSE
        /\ Schedule \in TaskSet /\ Schedule.kind = "schedule" /\ Schedule.growing = FALSE
    BY TaskTypes DEF NewConnection, AddConnection, Schedule, Task
  <2>2. /\ NewConnection \in RequestTasks /\ NewConnection \notin GrowTasks
        /\ NewConnection \notin ShrinkTasks
        /\ Schedule \notin RequestTasks /\ Schedule \notin GrowTasks
        /\ Schedule \in ShrinkTasks
    BY <2>1 DEF RequestTasks, GrowTasks, ShrinkTasks
  <2>3. u \in Seq(TaskSet)
    BY <1>1, <2>1, CopiesType
  <2>4. \A S : Cardinality(Indices(u, S)) = IF NewConnection \in S THEN nconns ELSE 0
    BY <1>1, IndicesCopies DEF Copies
  <2> HIDE DEF u
  <2>5. \A S : Cardinality(Indices(Append(u, Schedule), S))
                 = Cardinality(Indices(u, S)) + (IF Schedule \in S THEN 1 ELSE 0)
    BY <2>1, <2>3, IndicesAppend
  <2>6. tasks' = Append(u, Schedule)
    BY <1>1 DEF u
  <2> QED
    BY <1>1, <2>2, <2>4, <2>5, <2>6 DEF NRequests, NGrowing, NShrinks
<1>9. /\ NPooled' = 0 /\ NRetries' = 0 /\ NGrowRetries' = 0 /\ NOut' = 0 /\ NHeld' = 0
      /\ NServed' = 0 /\ NConnecting' = 0 /\ NGrowers' = 0
      /\ Finite' /\ UNCHANGED <<nconns, growing>> /\ delayed'[ShrinkPool] = 0
  BY <1>1, <1>2, <1>3, <1>6, <1>7, CountsSame DEF Finite
<1> QED
  BY <1>1, <1>8, <1>9 DEF Books, Balanced, GrowsOnce, ShrinksOnce

\* The callers keep the books of an open pool, until close()
LEMMA CallerBooks ==
    ASSUME TypeOK, Fresh, TakenOut, Owned, Errands, Books, ~closed,
           NEW a \in Callers, CallerStep(a) \/ Call(a)
    PROVE  Counted'
<1>0. a \in Threads /\ a \notin Workers
  BY PoolAssumption DEF PoolAssumption, Threads
<1>1. /\ NPooled \in Nat /\ NRequests \in Nat /\ NGrowing \in Nat /\ NShrinks \in Nat
      /\ NRetries \in Nat /\ NGrowRetries \in Nat /\ NOut \in Nat /\ NHeld \in Nat
      /\ NServed \in Nat /\ NConnecting \in Nat /\ NGrowers \in Nat
      /\ nconns \in Int /\ delayed[ShrinkPool] \in Nat
  BY CountTypes DEF Books
<1>2. NConnecting' = NConnecting /\ NGrowers' = NGrowers
  BY <1>0, WorkersSame DEF CallerStep, CloseLocked, CloseConns, FailWaiting, DrainNext,
     CheckNext, ResizeLocked, WaitPoolLocked, WaitPoolDone, Call, Open, ClosePool, Drain,
     Check, WaitPool, Resize, GoTo, threadVars, TypeOK, TypeThreads, Threads
<1>3. CASE CloseLocked(a)
  BY <1>3 DEF CloseLocked, Counted
<1>4. ASSUME CloseConns(a) \/ Open(a)
      PROVE  FALSE
  BY <1>4 DEF CloseConns, Open, Errands, Fresh
<1>5. ASSUME NEW c \in todo[a], todo' = [todo EXCEPT ![a] = @ \ {c}],
             RunTask(NewConnection),
             UNCHANGED <<pool, nconns, growing, delayed, conn, got>>
      PROVE  Books'
  <2>1. OutFinite' /\ NOut' = NOut - 1
    BY <1>5, PileLess DEF Books, Finite
  <2>2. /\ NewConnection \in TaskSet /\ NewConnection.kind = "add"
        /\ NewConnection.growing = FALSE
    BY TaskTypes DEF NewConnection, AddConnection, Task
  <2>3. NRequests' = NRequests + 1 /\ NGrowing' = NGrowing /\ NShrinks' = NShrinks
    BY <1>1, <1>5, <2>2, TaskCounted
  <2> QED
    BY <1>1, <1>2, <1>5, <2>1, <2>3, CountsSame DEF Books, Finite, Balanced, GrowsOnce,
       ShrinksOnce
<1>6. ASSUME NEW c \in todo[a], todo' = [todo EXCEPT ![a] = @ \ {c}],
             pc[a] = "checking", conn' = [conn EXCEPT ![a] = c],
             UNCHANGED <<pool, nconns, growing, tasks, delayed, got>>
      PROVE  Books'
  <2>1. OutFinite' /\ NOut' = NOut - 1
    BY <1>6, PileLess DEF Books, Finite
  <2>2. c \in Conns /\ pc[a] \notin Holding
    BY <1>6 DEF Holding, TypeOK, TypeCallers
  <2>3. HeldFinite' /\ NHeld' = NHeld + 1
    BY <1>0, <1>6, <2>2, HolderMore DEF Books, Finite
  <2> QED
    BY <1>1, <1>2, <1>6, <2>1, <2>3, CountsSame DEF Books, Finite, Balanced, GrowsOnce,
       ShrinksOnce
<1>7. CASE ResizeLocked(a)
  <2>0. resizing[a][3] \in Nat
    BY DEF TypeOK, TypeCallers
  <2> PICK n \in Nat : n = resizing[a][3]
    BY <2>0
  <2>1. /\ nconns' = nconns + n
        /\ tasks' = tasks \o Copies(n, NewConnection)
        /\ UNCHANGED <<pool, growing, delayed, conn, got, todo>>
    BY <1>7 DEF ResizeLocked, callerVars, posVars
  <2>2. /\ NRequests' = NRequests + n
        /\ NGrowing' = NGrowing /\ NShrinks' = NShrinks
    BY <2>1, ManyCounted
  <2>3. /\ NPooled' = NPooled /\ NRetries' = NRetries /\ NGrowRetries' = NGrowRetries
        /\ NOut' = NOut /\ NHeld' = NHeld /\ NServed' = NServed /\ Finite'
    BY <2>1, CountsSame DEF Books, Finite
  <2>4. Balanced'
    <3>1. nconns = NPooled + NRequests + NRetries + NOut + NHeld + NServed + NConnecting
      BY DEF Books, Balanced
    <3>2. nconns' = nconns + n
      BY <2>1
    <3>3. nconns' = NPooled' + NRequests' + NRetries' + NOut' + NHeld' + NServed'
                      + NConnecting'
      BY ONLY <1>1, <1>2, <2>2, <2>3, <3>1, <3>2, n \in Nat
    <3> QED
      BY <3>3 DEF Balanced
  <2>5. GrowsOnce' /\ ShrinksOnce'
    BY <1>2, <2>1, <2>2, <2>3 DEF Books, GrowsOnce, ShrinksOnce
  <2> QED
    BY <2>3, <2>4, <2>5 DEF Counted, Books
<1>8. CASE Drain(a) \/ Check(a)
  <2>1. /\ pc[a] = "idle" /\ pool' = <<>>
        /\ todo' = [todo EXCEPT ![a] = {pool[i] : i \in DOMAIN pool}]
        /\ UNCHANGED <<delayed, conn, got>>
    BY <1>8 DEF Drain, Check, taskVars, posVars
  <2>2. todo[a] = {} /\ Distinct(pool)
    BY <2>1 DEF TakenOut, Owned, Singles
  <2>3. OutFinite' /\ NOut' = NOut + NPooled /\ NPooled' = 0
    BY <2>1, <2>2, PileMore DEF Books, Finite
  <2>4. /\ NShrinks' = NShrinks
        /\ \/ UNCHANGED <<nconns, growing, NRequests, NGrowing>>
           \/ /\ ~growing /\ growing' = TRUE /\ nconns' = nconns + 1
              /\ NRequests' = NRequests + 1 /\ NGrowing' = NGrowing + 1
    BY CountsSame, GrowCounted, <1>8 DEF Drain, countVars, taskVars, Check, Books
  <2>5. /\ NRetries' = NRetries /\ NGrowRetries' = NGrowRetries /\ NHeld' = NHeld
        /\ NServed' = NServed /\ UNCHANGED delayed /\ Finite'
    BY <2>1, <2>3, CountsSame DEF Books, Finite
  <2>6. Balanced'
    BY <1>1, <1>2, <2>3, <2>4, <2>5 DEF Books, Balanced
  <2>7. GrowsOnce'
    BY <1>1, <1>2, <2>4, <2>5 DEF Books, GrowsOnce
  <2>8. ShrinksOnce'
    BY <1>1, <2>4, <2>5 DEF Books, ShrinksOnce
  <2> QED
    BY <2>5, <2>6, <2>7, <2>8 DEF Counted, Books
<1>9. CASE UNCHANGED <<pool, nconns, growing, tasks, delayed, conn, got, todo>>
  BY <1>1, <1>2, <1>9, CountsSame DEF Counted, Books, Finite, Balanced, GrowsOnce,
     ShrinksOnce
<1>10. CASE DrainNext(a) \/ CheckNext(a)
  BY <1>10, <1>5, <1>6, <1>9 DEF DrainNext, CheckNext, countVars, posVars, Counted
<1> QED
  BY <1>3, <1>4, <1>5, <1>6, <1>7, <1>8, <1>9, <1>10 DEF Counted, CallerStep,
     FailWaiting, WaitPoolLocked, WaitPoolDone, Call, ClosePool, WaitPool, Resize,
     countVars, taskVars, callerVars, posVars

\* The scheduler and the server keep them
LEMMA OtherBooks ==
    ASSUME TypeOK, Books,
           \/ \E d \in Delayable : Tick(d)
           \/ \E i \in 1..Cardinality(Conns) : Break(i)
    PROVE  Books'
<1>1. /\ NPooled \in Nat /\ NRequests \in Nat /\ NGrowing \in Nat /\ NShrinks \in Nat
      /\ NRetries \in Nat /\ NGrowRetries \in Nat /\ NOut \in Nat /\ NHeld \in Nat
      /\ NServed \in Nat /\ NConnecting \in Nat /\ NGrowers \in Nat
      /\ nconns \in Int /\ delayed[ShrinkPool] \in Nat
  BY CountTypes DEF Books
<1>2. ASSUME NEW d \in Delayable, Tick(d)
      PROVE  Books'
  <2>1. /\ RunTask(d)
        /\ UNCHANGED <<pool, nconns, growing, pc, conn, ret, task, got, todo>>
    BY <1>2 DEF Tick, countVars, threadVars, callerVars, posVars
  <2>2. /\ RetriesFinite'
        /\ NRetries' = NRetries - (IF d \in RetryTasks THEN 1 ELSE 0)
        /\ NGrowRetries' = NGrowRetries - (IF d \in GrowRetryTasks THEN 1 ELSE 0)
        /\ delayed'[ShrinkPool] = delayed[ShrinkPool] - (IF d = ShrinkPool THEN 1 ELSE 0)
    BY <1>2, TickCounted DEF Books, Finite
  <2>3. /\ d \in TaskSet
        /\ d # ShrinkPool => d \in RetryTasks /\ d.kind = "add"
                             /\ (d \in GrowRetryTasks <=> d.growing)
        /\ d = ShrinkPool => /\ d \notin RetryTasks /\ d \notin GrowRetryTasks
                             /\ d.kind = "shrink" /\ d.growing = FALSE
    BY RetryKinds, TaskTypes DEF RetryTasks
  <2>4. /\ NRequests' = NRequests + (IF d.kind \in {"add", "return"} THEN 1 ELSE 0)
        /\ NGrowing' = NGrowing + (IF d.growing THEN 1 ELSE 0)
        /\ NShrinks' = NShrinks + (IF d.kind \in {"shrink", "schedule"} THEN 1 ELSE 0)
    BY <2>1, <2>3, TaskCounted
  <2>5. CASE d = ShrinkPool
    BY <1>1, <2>2, <2>3, <2>4, <2>5, <2>1, CountsSame DEF Books, Finite, Balanced, GrowsOnce,
       ShrinksOnce
  <2>6. CASE d # ShrinkPool
    BY <1>1, <2>2, <2>3, <2>4, <2>6, <2>1, CountsSame DEF Books, Finite, Balanced, GrowsOnce,
       ShrinksOnce
  <2> QED
    BY <2>5, <2>6
<1>3. ASSUME NEW i \in 1..Cardinality(Conns), Break(i)
      PROVE  Books'
  BY <1>3, <1>1, CountsSame DEF Break, countVars, taskVars, threadVars, callerVars, posVars,
     Books, Finite, Balanced, GrowsOnce, ShrinksOnce
<1> QED
  BY <1>2, <1>3

\* No step gives a thread an errand it should not have
LEMMA ErrandsKept ==
    ASSUME TypeOK, Fresh, Errands, [Next]_vars
    PROVE  Errands'
<1>0. /\ pc \in [Threads -> PCs] /\ DOMAIN ret = Threads
      /\ \A t \in Threads : ret[t] \in {"idle", "request", "regrow", "checking"}
      /\ Callers \subseteq Threads /\ Workers \subseteq Threads /\ Clients \subseteq Threads
      /\ Clients \cap Callers = {} /\ Workers \cap Callers = {}
      /\ Clients \cap Workers = {}
  BY PoolAssumption DEF PoolAssumption, TypeOK, TypeThreads, Threads
<1> USE DEF GoTo
<1>1. CASE \E c \in Clients : GetConn(c) \/ ClientStep(c)
  BY <1>1, <1>0 DEF ClientStep, GetConn, GetReady, GetTooMany, GetQueue, GetTooLate, WaitGot,
     WaitFailed, WaitTimeout, CheckGood, CheckBad, PutBack, HandOver, PutConn, flagVars,
     Errands
<1>2. CASE \E t \in Threads : ReturnStep(t)
  BY <1>2, <1>0 DEF ReturnStep, ReturnDiscard, ReturnKeep, AddClosed, AddGive, AddKeep,
     flagVars, Errands
<1>3. CASE \E w \in Workers : WorkerStep(w)
  BY <1>3, <1>0 DEF WorkerStep, WorkerStop, WorkerDiscard, WorkerAdd, WorkerReturn,
     WorkerShrink, WorkerSchedule, Shrink, Regrow, ConnectRetry, ConnectGiveUp, ConnectOk,
     flagVars, threadVars, Errands
<1>4. CASE \E a \in Callers : CallerStep(a) \/ Call(a)
  <2> PICK a \in Callers : CallerStep(a) \/ Call(a)
    BY <1>4
  <2>1. /\ UNCHANGED pc \/ \E where : pc' = [pc EXCEPT ![a] = where]
        /\ UNCHANGED ret \/ \E next : ret' = [ret EXCEPT ![a] = next]
    BY DEF CallerStep, CloseLocked, CloseConns, FailWaiting, DrainNext, CheckNext,
       ResizeLocked, WaitPoolLocked, WaitPoolDone, Call, Open, ClosePool, Drain, Check,
       WaitPool, Resize, threadVars
  <2>2. \A w \in Workers : pc'[w] = pc[w] /\ ret'[w] = ret[w]
    BY <1>0, <2>1
  <2>3. CASE Open(a)
    BY <1>0, <2>3, <2>2 DEF Open, Fresh, threadVars, Errands
  <2>4. CASE ~Open(a)
    <3>1. closed => closed'
      BY <2>4 DEF CallerStep, CloseLocked, CloseConns, FailWaiting, DrainNext, CheckNext,
         ResizeLocked, WaitPoolLocked, WaitPoolDone, Call, ClosePool, Drain, Check,
         WaitPool, Resize, flagVars
    <3>2. pc'[a] = "closing" => closed'
      BY <1>0, <2>4 DEF CallerStep, CloseLocked, CloseConns, FailWaiting, DrainNext,
         CheckNext, ResizeLocked, WaitPoolLocked, WaitPoolDone, Call, ClosePool, Drain,
         Check, WaitPool, Resize, flagVars, Errands
    <3>3. \A b \in Callers : pc'[b] = "closing" => closed'
      BY <1>0, <2>1, <3>1, <3>2 DEF Errands
    <3> QED
      BY <2>2, <3>3 DEF Errands
  <2> QED
    BY <2>3, <2>4
<1>5. CASE UNCHANGED <<pc, ret, closed>>
  BY <1>5 DEF Errands
<1> QED
  BY <1>1, <1>2, <1>3, <1>4, <1>5 DEF Next, Tick, Break, vars, flagVars, threadVars

\* The books of an open pool are right: each step counts what it moves
\* (pool.py:293-312, 336-351, 502-536, 656-781, 790-800)
THEOREM BooksCorrect == Spec => [](Errands /\ Counted)
<1>1. Init => Errands /\ Counted
  BY DEF Init, Errands, Counted, Threads
<1>2. TypeOK /\ Fresh /\ OneAnswer /\ TakenOut /\ Owned /\ Errands /\ Counted /\ [Next]_vars
        => Errands' /\ Counted'
  <2> SUFFICES ASSUME TypeOK, Fresh, OneAnswer, TakenOut, Owned, Errands, Counted,
                      [Next]_vars
               PROVE  Counted'
    BY ErrandsKept
  <2>1. CASE closed
    <3>1. CASE \E a \in Callers : Open(a)
      BY <3>1, OpenBooks DEF Counted
    <3>2. CASE ~\E a \in Callers : Open(a)
      <4>1. closed'
        BY <2>1, <3>2 DEF Next, vars, flagVars, ClientStep, GetConn, GetReady,
           GetTooMany, GetQueue, GetTooLate, WaitGot, WaitFailed, WaitTimeout, CheckGood,
           CheckBad, HandOver, PutConn, ReturnStep, ReturnDiscard, ReturnKeep, AddClosed,
           AddGive, AddKeep, WorkerStep, WorkerStop, WorkerDiscard, WorkerAdd,
           WorkerReturn, WorkerShrink, WorkerSchedule, Shrink, Regrow, ConnectRetry,
           ConnectGiveUp, ConnectOk, CallerStep, CloseLocked, CloseConns, FailWaiting,
           DrainNext, CheckNext, ResizeLocked, WaitPoolLocked, WaitPoolDone, Call,
           ClosePool, Drain, Check, WaitPool, Resize, Tick, Break
      <4> QED
        BY <4>1 DEF Counted
    <3> QED
      BY <3>1, <3>2
  <2>2. CASE ~closed
    BY <2>2, CountsSame, ClientBooks, ReturnBooks, WorkerBooks, CallerBooks, OtherBooks DEF
       Counted, vars, countVars, taskVars, threadVars, callerVars, posVars, Books, Finite,
       Balanced, GrowsOnce, ShrinksOnce, Next
  <2> QED
    BY <2>1, <2>2
<1> QED
  BY <1>1, <1>2, TypeCorrect, FreshCorrect, AnswersCorrect, TakenOutCorrect,
     OwnedCorrect, PTL DEF Spec

\* The books count what the properties count
LEMMA BooksTell ==
    ASSUME TypeOK, Counted
    PROVE  Accounting /\ GrowOneAtATime /\ ShrinkForever
<1> SUFFICES ASSUME Books
             PROVE  /\ nconns = Slots
                    /\ GrowingTasks = IF growing THEN 1 ELSE 0
                    /\ ShrinkForever
  BY DEF Counted, Accounting, GrowOneAtATime, ShrinkForever
<1>1. \A i \in DOMAIN tasks : tasks[i] \in TaskSet
  BY DEF TypeOK, TypeTasks
<1>2. /\ Indices(tasks, RequestTasks)
           = {i \in DOMAIN tasks : tasks[i].kind \in {"add", "return"}}
      /\ Indices(tasks, GrowTasks) = {i \in DOMAIN tasks : tasks[i].growing}
      /\ Indices(tasks, ShrinkTasks)
           = {i \in DOMAIN tasks : tasks[i].kind \in {"shrink", "schedule"}}
  BY <1>1 DEF Indices, RequestTasks, GrowTasks, ShrinkTasks
<1>3. nconns = Slots
  BY <1>2 DEF Books, Balanced, Slots, NPooled, NRequests, NRetries, NOut, NHeld, NServed,
     NConnecting, Stock, Piles, RetryTasks, Holders, Served, Connecting
<1>4. ShrinkForever
  BY CountTypes, <1>2 DEF Books, NShrinks, ShrinksOnce, ShrinkForever
<1>5. GrowingTasks = IF growing THEN 1 ELSE 0
  <2> DEFINE G1 == {w \in Workers : pc[w] = "connect" /\ task[w].growing}
             G2 == {w \in Workers : pc[w] = "regrow"}
             G3 == {w \in Workers : pc[w] = "add" /\ ret[w] = "regrow"}
  <2>1. IsFiniteSet(G1) /\ IsFiniteSet(G2) /\ IsFiniteSet(G3)
    BY PoolAssumption, FS_Subset DEF PoolAssumption
  <2>2. /\ Growers = (G1 \cup G2) \cup G3
        /\ G1 \cap G2 = {} /\ (G1 \cup G2) \cap G3 = {}
    BY DEF Growers
  <2>3. /\ Cardinality(G1) \in Nat /\ Cardinality(G2) \in Nat /\ Cardinality(G3) \in Nat
    BY <2>1, FiniteCounts
  <2>4. GrowingTasks = NGrowing + NGrowRetries + Cardinality(G1) + Cardinality(G2)
                         + Cardinality(G3)
    BY <1>2 DEF GrowingTasks, NGrowing, NGrowRetries, Stock, GrowRetryTasks
  <2> HIDE DEF G1, G2, G3
  <2>5. Counts(G1 \cup G2, Cardinality(G1) + Cardinality(G2))
    BY <2>1, <2>2, AddMany
  <2>6. Counts((G1 \cup G2) \cup G3, Cardinality(G1) + Cardinality(G2) + Cardinality(G3))
    BY <2>5, <2>1, <2>2, AddMany DEF Counts
  <2>7. NGrowers = Cardinality(G1) + Cardinality(G2) + Cardinality(G3)
    BY <2>2, <2>6 DEF NGrowers, Counts
  <2>8. NGrowing \in Nat /\ NGrowRetries \in Nat
    BY CountTypes DEF Books
  <2>9. NGrowing + NGrowRetries + NGrowers = IF growing THEN 1 ELSE 0
    BY DEF Books, GrowsOnce
  <2> QED
    BY ONLY <2>3, <2>4, <2>7, <2>8, <2>9
<1> QED
  BY <1>3, <1>4, <1>5

(***************************************************************************)
(* The books of the pool are right, for any number of clients, workers,    *)
(* callers and connections: a connection has one owner, _nconns counts the *)
(* connections of an open pool, wherever they are, and _growing tells      *)
(* whether a growing attempt is on its way (base.py:77, pool.py:293-312,   *)
(* 656-781).                                                               *)
(***************************************************************************)
THEOREM BookkeepingCorrect == Spec => []Bookkeeping
<1>1. TypeOK /\ Errands /\ Counted /\ ExclusiveOwnership => Bookkeeping
  BY BooksTell DEF Bookkeeping
<1> QED
  BY <1>1, TypeCorrect, BooksCorrect, OwnershipCorrect, PTL

(***************************************************************************)
(* The shrink task of an open pool is scheduled once: it is neither lost   *)
(* nor doubled, whatever the workers do (pool.py:1008-1012).               *)
(***************************************************************************)
THEOREM ShrinkCorrect == Spec => []ShrinkForever
<1>1. TypeOK /\ Errands /\ Counted => ShrinkForever
  BY BooksTell
<1> QED
  BY <1>1, TypeCorrect, BooksCorrect, PTL

-----------------------------------------------------------------------------
(* Why a client waits *)

\* A client is in the queue
Queued == Alive # {}

\* What WaitersGrowPool says of the state: the pool is growing, or can't
Growing == growing \/ nconns >= maxSize

\* _maybe_grow_pool(): the pool is growing then, or can't
LEMMA MaybeGrowGrows ==
    ASSUME TypeOK, UNCHANGED maxSize, MaybeGrow
    PROVE  Growing'
  BY DEF MaybeGrow, Growing, TypeOK, TypeSizes, TypeCounts

(***************************************************************************)
(* A client waits only if the pool is growing or can't: _getconn_unchecked *)
(* gives it the chance when the client joins the queue, the pool is not    *)
(* shrunk while somebody waits, and the last growing attempt looks at the  *)
(* queue before it stops (pool.py:248-260, 692-706, 783-800).              *)
(***************************************************************************)
THEOREM WaitersCorrect == Spec => []WaitersGrowPool
<1>1. Init => WaitersGrowPool
  BY DEF Init, WaitersGrowPool
<1>2. TypeOK /\ Fresh /\ NoMissedHandoff /\ ResizeCounted /\ WaitersGrowPool
      /\ [Next]_vars => WaitersGrowPool'
  <2> SUFFICES ASSUME TypeOK, Fresh, NoMissedHandoff, ResizeCounted, WaitersGrowPool,
                      [Next]_vars
               PROVE  WaitersGrowPool'
    OBVIOUS
  <2> SUFFICES ASSUME Reliable, resizes' = 0, ~closed', Queued'
               PROVE  Growing'
    BY DEF WaitersGrowPool, Growing, Queued
  <2>0. /\ nconns \in Int /\ growing \in BOOLEAN /\ resizes \in Nat
        /\ maxSize \in Nat /\ minSize \in Nat /\ minSize <= maxSize
        /\ waiting \in Seq(Clients \cup {Gone}) /\ pool \in Seq(Conns)
    BY DEF TypeOK, TypeCounts, TypeSizes, TypeQueues
  <2>w. waiting = <<>> => ~Queued
    BY DEF Queued, Alive
  <2>i. resizes = 0 /\ ~closed /\ Queued => Growing
    BY DEF WaitersGrowPool, Growing, Queued
  <2>u. UNCHANGED waiting => Queued' = Queued
    BY DEF Queued, Alive
  <2>s. ASSUME resizes = 0, ~closed, Queued, UNCHANGED <<maxSize, nconns, growing>>
        PROVE  Growing'
    BY <2>i, <2>s DEF Growing
  <2>1. ASSUME NEW c \in Clients, GetConn(c) \/ ClientStep(c)
        PROVE  Growing'
    BY <2>1, MaybeGrowGrows, <2>s, <2>u DEF ClientStep, GetConn, GetReady, GetTooMany,
       GetQueue, GetTooLate, WaitGot, WaitFailed, WaitTimeout, CheckGood, CheckBad, HandOver,
       PutConn, flagVars, sizeVars, Forget, Queued, Alive, countVars
  <2>2. ASSUME NEW t \in Threads, ReturnStep(t)
        PROVE  Growing'
    BY <2>2, <2>u, <2>s DEF ReturnStep, ReturnDiscard, ReturnKeep, AddClosed, AddGive,
       AddKeep, flagVars, sizeVars, countVars, IsFirst, Queued, Alive
  <2>3. ASSUME NEW w \in Workers, WorkerStep(w)
        PROVE  Growing'
    <3>1. UNCHANGED <<resizes, closed, maxSize, minSize, waiting>>
      BY <2>3 DEF WorkerStep, WorkerStop, WorkerDiscard, WorkerAdd, WorkerReturn,
         WorkerShrink, WorkerSchedule, Shrink, Regrow, ConnectRetry, ConnectGiveUp,
         ConnectOk, flagVars, sizeVars
    <3>2. Queued /\ waiting # <<>> /\ Growing
      BY <2>i, <2>u, <2>w, <3>1
    <3>3. CASE Shrink(w)
      BY <3>2, <3>1, <3>3 DEF NoMissedHandoff, Shrink, Growing
    <3>4. CASE Regrow(w)
      BY <2>0, <3>1, <3>2, <3>4 DEF Regrow, MustGrow, Growing
    <3>5. CASE UNCHANGED <<nconns, growing>>
      BY <3>1, <3>2, <3>5 DEF Growing
    <3> QED
      BY <2>3, <3>3, <3>4, <3>5 DEF WorkerStep, WorkerStop, WorkerDiscard, WorkerAdd,
         WorkerReturn, WorkerShrink, WorkerSchedule, ConnectRetry, ConnectGiveUp,
         ConnectOk, countVars
  <2>4. ASSUME NEW a \in Callers, CallerStep(a)
        PROVE  Growing'
    <3>1. ~ResizeLocked(a) /\ ~CloseLocked(a)
      BY DEF ResizeLocked, CloseLocked, ResizeCounted
    <3> QED
      BY <2>s, <2>u, <2>4, <3>1 DEF CallerStep, CloseConns, FailWaiting, DrainNext,
         CheckNext, WaitPoolLocked, WaitPoolDone, flagVars, sizeVars, countVars
  <2>5. ASSUME NEW a \in Callers, Call(a)
        PROVE  Growing'
    <3>1. CASE Check(a)
      BY <3>1, MaybeGrowGrows DEF Check, sizeVars
    <3>2. CASE Open(a)
      BY <2>u, <2>w, <3>2 DEF Open, Fresh
    <3>3. CASE UNCHANGED <<resizes, closed, waiting, maxSize, nconns, growing>>
      BY <2>s, <2>u, <3>3
    <3>4. ASSUME NEW size \in Sizes
          PROVE  ~Resize(a, size)
      BY <2>0 DEF Resize
    <3> QED
      BY <2>5, <3>1, <3>2, <3>3, <3>4 DEF Call, ClosePool, Drain, WaitPool, flagVars,
         sizeVars, countVars
  <2>6. CASE UNCHANGED <<flagVars, sizeVars, countVars, waiting>>
    BY <2>s, <2>u, <2>6 DEF flagVars, sizeVars, countVars
  <2> QED
    BY <2>1, <2>2, <2>3, <2>4, <2>5, <2>6 DEF Next, Tick, Break, vars
<1> QED
  BY <1>1, <1>2, TypeCorrect, FreshCorrect, QueuesCorrect, SizeCorrect, PTL DEF Spec

\* No connection gets into a closed pool, also when close() overtakes a thread in
\* _add_to_pool() (pool.py:750-767)
COROLLARY ClosedCorrect == Spec => []ClosedPoolEmpty
  BY QueuesCorrect, PTL
=============================================================================

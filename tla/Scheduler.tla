------------------------------ MODULE Scheduler ------------------------------
(***************************************************************************)
(* The task scheduler of the connection pool                               *)
(* (psycopg_pool/sched.py): any number of threads enter tasks to be run at *)
(* a time in the future, one runner thread pops the tasks that are due and *)
(* sleeps on an event, with a timeout, when none is.                       *)
(*                                                                         *)
(* Every block executed under Scheduler._lock is one step.  The push of a  *)
(* task and the event.set() that follows it outside the lock are two steps *)
(* of the entering thread, and the runner's critical section, the call of  *)
(* the action and the wait are three steps of the runner.                  *)
(***************************************************************************)
EXTENDS Integers, FiniteSets

CONSTANTS
    Threads,        \* the threads that call enter() and enterabs()
    Tasks,          \* the tasks they may enter, each one once
    StopTasks,      \* the tasks whose action is None
    MaxTime,        \* bound: the last instant of the clock
    EmptyTimeout,   \* EMPTY_QUEUE_TIMEOUT
    NoTask          \* the runner's local variable "task" when it is None

ASSUME SchedulerAssumption ==
    /\ StopTasks \subseteq Tasks
    /\ MaxTime \in Nat
    /\ EmptyTimeout \in Nat \ {0}
    /\ NoTask \notin Tasks

Instants == 0 .. MaxTime

VARIABLES
    now,        \* monotonic()
    queue,      \* _queue, a heap: the set of the tasks in it
    time,       \* Task.time, of the tasks entered so far
    entered,    \* the tasks entered so far
    event,      \* _event
    setting,    \* the threads between the push and the event.set()
    runner,     \* the program counter of run()
    task,       \* run(): the task popped from the queue
    deadline    \* run(): the instant at which event.wait(delay) times out

vars == <<now, queue, time, entered, event, setting, runner, task, deadline>>

TypeOK ==
    /\ now \in Instants
    /\ queue \subseteq entered
    /\ entered \subseteq Tasks
    /\ time \in [Tasks -> Instants]
    /\ event \in BOOLEAN
    /\ setting \subseteq Threads
    /\ runner \in {"loop", "act", "wait", "stopped"}
    /\ task \in Tasks \cup {NoTask}
    /\ (runner = "act") => (task \in entered \ queue)
    /\ deadline \in Nat

Init ==
    /\ now = 0
    /\ queue = {}
    /\ time = [t \in Tasks |-> 0]
    /\ entered = {}
    /\ event = FALSE
    /\ setting = {}
    /\ runner = "loop"
    /\ task = NoTask
    /\ deadline = 0

(***************************************************************************)
(* enter() and enterabs(): push the task and notice whether it is now the  *)
(* root of the heap.  heappush only moves a task over a strictly later     *)
(* one, so a task with the time of the root is not the first.  The time is *)
(* any: enter() reads the clock before it takes the lock, and enterabs()   *)
(* takes the caller's.                                                     *)
(***************************************************************************)
IsFirst_OnlyIfEmpty(t, at) == queue = {}  \* mutant

IsFirst(t, at) == \A u \in queue : at < time[u]

EnterAbs(p, t, at) ==
    /\ p \notin setting
    /\ t \notin entered
    /\ entered' = entered \cup {t}
    /\ queue' = queue \cup {t}
    /\ time' = [time EXCEPT ![t] = at]
    /\ setting' = IF IsFirst(t, at) THEN setting \cup {p} ELSE setting
    /\ UNCHANGED <<now, event, runner, task, deadline>>

SetEvent(p) ==
    /\ p \in setting
    /\ event' = TRUE
    /\ setting' = setting \ {p}
    /\ UNCHANGED <<now, queue, time, entered, runner, task, deadline>>

(***************************************************************************)
(* run(): the critical section.  Pop the task at the root of the heap (any *)
(* of those with the least time) if it is due, otherwise compute how long  *)
(* to sleep; clear the event in both cases.                                *)
(***************************************************************************)
IsRoot(t) == t \in queue /\ \A u \in queue : time[t] <= time[u]

RunnerPop(t) ==
    /\ runner = "loop"
    /\ IsRoot(t)
    /\ time[t] <= now
    /\ queue' = queue \ {t}
    /\ task' = t
    /\ event' = FALSE
    /\ runner' = "act"
    /\ UNCHANGED <<now, time, entered, setting, deadline>>

RunnerDelay ==
    /\ runner = "loop"
    /\ \A t \in queue : time[t] > now
    /\ \/ /\ queue = {}
          /\ deadline' = now + EmptyTimeout
       \/ \E t \in queue : IsRoot(t) /\ deadline' = time[t]
    /\ event' = FALSE
    /\ runner' = "wait"
    /\ UNCHANGED <<now, queue, time, entered, setting, task>>

\* Run the action of the task; a task without action terminates the loop.
\* A failing action is logged and the loop goes on.
RunnerAct ==
    /\ runner = "act"
    /\ runner' = IF task \in StopTasks THEN "stopped" ELSE "loop"
    /\ task' = NoTask
    /\ UNCHANGED <<now, queue, time, entered, event, setting, deadline>>

\* mutant: the event is set, the wait is without timeout
RunnerWake_NoTimeout ==
    /\ runner = "wait"
    /\ event
    /\ runner' = "loop"
    /\ UNCHANGED <<now, queue, time, entered, event, setting, task, deadline>>

\* event.wait(delay) returns: the event is set or the timeout has expired
RunnerWake ==
    /\ runner = "wait"
    /\ event \/ now >= deadline
    /\ runner' = "loop"
    /\ UNCHANGED <<now, queue, time, entered, event, setting, task, deadline>>

Tick ==
    /\ now < MaxTime
    /\ now' = now + 1
    /\ UNCHANGED <<queue, time, entered, event, setting, runner, task, deadline>>

Next ==
    \/ \E p \in Threads, t \in Tasks, at \in Instants : EnterAbs(p, t, at)
    \/ \E p \in Threads : SetEvent(p)
    \/ \E t \in Tasks : RunnerPop(t)
    \/ RunnerDelay
    \/ RunnerAct
    \/ RunnerWake
    \/ Tick

\* Threads that are running take their next step, and time passes.
Fairness ==
    /\ \A p \in Threads : WF_vars(SetEvent(p))
    /\ WF_vars(\E t \in Tasks : RunnerPop(t))
    /\ WF_vars(RunnerDelay)
    /\ WF_vars(RunnerAct)
    /\ WF_vars(RunnerWake)
    /\ WF_vars(Tick)

Spec == Init /\ [][Next]_vars

FairSpec == Spec /\ Fairness

-----------------------------------------------------------------------------
(***************************************************************************)
(* No wakeup is lost: when the runner sleeps, it will wake up in time for  *)
(* every task in the queue, because the event is set, or a thread that has *)
(* pushed a task is about to set it, or the timeout it sleeps for is not   *)
(* later than the task.  A task entered in front of the one the runner     *)
(* sleeps for depends on event.clear() being in the critical section that  *)
(* looks at the queue (sched.py:70-80) and on event.set() after the push.  *)
(***************************************************************************)
NoLostWakeup ==
    (runner = "wait" /\ ~event /\ setting = {}) =>
        \A t \in queue : deadline <= time[t]

(***************************************************************************)
(* Every task entered runs, unless the runner is stopped: the sleeping     *)
(* runner is always woken up, by the timeout or by the event.              *)
(***************************************************************************)
EveryTaskRuns ==
    \A t \in Tasks : (t \in queue) ~> (t \notin queue \/ runner = "stopped")

=============================================================================

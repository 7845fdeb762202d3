----------------------------- MODULE MCScheduler -----------------------------
(* Scheduler on a small instance: two threads enter two tasks and the None  *)
(* that stops the runner, at any of four instants.                          *)
EXTENDS Scheduler

CONSTANTS p1, p2, a, b, stop

MCThreads == {p1, p2}
MCTasks == {a, b, stop}
MCStopTasks == {stop}
=============================================================================

----------------------------- MODULE TaskTable -----------------------------
(***************************************************************************)
(* What the tables task_queue (mysql/migrations/002_TaskQueue.up.sql) and  *)
(* workflow (006_Workflow.up.sql) and the workers on them have in common.  *)
(***************************************************************************)
EXTENDS Integers, FiniteSets

CONSTANTS
  Tasks,        \* the rows, natural numbers
  Workers,      \* the threads that own a Manager
  MaxFaults     \* bound: crashes, errors and lost connections

ASSUME TasksAssumption == Tasks \subseteq Nat /\ IsFiniteSet(Tasks) /\ MaxFaults \in Nat

VARIABLES
  name,         \* the aWorker each thread passes to get()
  status, worker,   \* the columns of a row
  stale,        \* `updated' is more than an hour ago
  lock,         \* who has a row locked, or Nobody
  pc,           \* where a worker is: "idle", a place inside get(), "running"
  sTask,        \* the task a worker has selected or runs, or NoTask
  faults,
  granted       \* history: the workers a task was given to in the last hour

Nobody == "nobody"
NoTask == -1

\* The lock of a row tells its owner from nobody.
ASSUME WorkersAssumption == Nobody \notin Workers

Fault == faults < MaxFaults /\ faults' = faults + 1

-----------------------------------------------------------------------------
(* What is said of both tables.                                            *)

\* A task is given to one worker an hour: the row lock and "ensure we pick
\* task" (Workflow.hpp:107, the test of ROW_COUNT) keep two get() calls from
\* the same row.  TaskQueue has no such test and promises less (GrantedOnce).
OncePerHour == \A t \in Tasks : Cardinality(granted[t]) <= 1

\* A finished task is never given out again, although the UPDATE may come long
\* after the look at the status; a late worker's done() may still turn
\* another's 'done' into 'error', never the reverse.
FinishedKept ==
  \A t \in Tasks :
    /\ status[t] = "error" => status'[t] = "error"
    /\ status[t] = "done" => status'[t] \in {"done", "error"}

=============================================================================

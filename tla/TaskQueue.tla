----------------------------- MODULE TaskQueue -----------------------------
(***************************************************************************)
(* MySQL::TaskQueue::Manager (mysql/TaskQueue.hpp): workers that share the *)
(* table task_queue (mysql/migrations/002_TaskQueue.up.sql).               *)
(*                                                                         *)
(* MySQL: SELECT ... FOR UPDATE SKIP LOCKED reads what is committed and    *)
(* keeps its row locked until COMMIT; a plain UPDATE waits for the lock;   *)
(* ON UPDATE CURRENT_TIMESTAMP touches `updated' only when the statement   *)
(* changes some column of the row.                                         *)
(***************************************************************************)
EXTENDS TaskTable

VARIABLES
  config,       \* Config::isolation and Config::reverse
  untouched     \* history: the tasks given out without touching `updated'

rows == <<status, worker, stale>>
hist == <<granted, untouched>>
vars == <<config, name, rows, lock, pc, sTask, faults, hist>>

Init ==
  /\ config \in [isolation : BOOLEAN, reverse : BOOLEAN]
  /\ name \in {[w \in Workers |-> w], [w \in Workers |-> "shared"]}
  /\ status = [t \in Tasks |-> "new"]
  /\ worker = [t \in Tasks |-> Nobody]
  /\ stale = [t \in Tasks |-> FALSE]
  /\ lock = [t \in Tasks |-> Nobody]
  /\ pc = [w \in Workers |-> "idle"]
  /\ sTask = [w \in Workers |-> NoTask]
  /\ faults = 0
  /\ granted = [t \in Tasks |-> {}]
  /\ untouched = {}

-----------------------------------------------------------------------------
(* Manager::get                                                            *)

\* where(): a new task, or one to resume.
Where(w, t) ==
  \/ status[t] = "new"
  \/ /\ status[t] = "started" /\ stale[t]
     /\ config.isolation => worker[t] = name[w]

\* ORDER BY id, ASC or DESC: t is the first of s.
First(t, s) == \A u \in s : IF config.reverse THEN t >= u ELSE t <= u

\* Mutant of Lock: a SELECT without FOR UPDATE.
LockNothing(w, t) == UNCHANGED lock

\* FOR UPDATE
Lock(w, t) == lock' = [lock EXCEPT ![t] = w]

\* BEGIN and SELECT.  With no row left get() commits and returns nothing.
Select(w) ==
  LET found == {t \in Tasks : Where(w, t) /\ lock[t] = Nobody} IN
    /\ pc[w] = "idle"
    /\ pc' = [pc EXCEPT ![w] = "selected"]
    /\ \E t \in found :
         /\ First(t, found)
         /\ sTask' = [sTask EXCEPT ![w] = t]
         /\ Lock(w, t)
    /\ UNCHANGED <<config, name, rows, faults, hist>>

Changes(w, t) == status[t] # "started" \/ worker[t] # name[w]

\* UPDATE ... SET status = 'started', worker = ... and COMMIT.
Started(w, t) ==
  /\ status' = [status EXCEPT ![t] = "started"]
  /\ worker' = [worker EXCEPT ![t] = name[w]]
  /\ stale' = [stale EXCEPT ![t] = @ /\ ~Changes(w, t)]
  /\ lock' = [lock EXCEPT ![t] = Nobody]
  /\ untouched' = IF Changes(w, t) THEN untouched ELSE untouched \cup {t}

Pick(w) ==
  /\ pc[w] = "selected"
  /\ Started(w, sTask[w])
  /\ pc' = [pc EXCEPT ![w] = "running"]
  /\ granted' = [granted EXCEPT ![sTask[w]] = @ \cup {w}]
  /\ UNCHANGED <<config, name, sTask, faults>>

\* The connection breaks inside get(), and MySQL rolls back; or it breaks when
\* the COMMIT was done already, and nobody has the task.
GetFails(w) ==
  /\ pc[w] = "selected"
  /\ Fault
  /\ \/ Started(w, sTask[w])
     \/ lock' = [lock EXCEPT ![sTask[w]] = Nobody] /\ UNCHANGED <<rows, untouched>>
  /\ pc' = [pc EXCEPT ![w] = "idle"]
  /\ sTask' = [sTask EXCEPT ![w] = NoTask]
  /\ UNCHANGED <<config, name, granted>>

-----------------------------------------------------------------------------
(* Manager::update and Manager::done                                       *)

\* A new cookie touches `updated', the same one does not.
Update(w) ==
  /\ pc[w] = "running" /\ lock[sTask[w]] = Nobody
  /\ status[sTask[w]] = "started"
  /\ stale' = [stale EXCEPT ![sTask[w]] = FALSE]
  /\ UNCHANGED <<config, name, status, worker, lock, pc, sTask, faults, hist>>

\* Mutant of DoneWhere: the task can be given back after the fact.
DoneAlways(t) == TRUE

\* WHERE id = ... AND status IN ('started','done')
DoneWhere(t) == status[t] \in {"started", "done"}

\* aSuccess or not; whoever has the task by now.
Done(w) ==
  /\ pc[w] = "running" /\ lock[sTask[w]] = Nobody
  /\ \E new \in {"done", "error"} :
       status' = IF DoneWhere(sTask[w]) THEN [status EXCEPT ![sTask[w]] = new] ELSE status
  /\ stale' = [stale EXCEPT ![sTask[w]] = FALSE]
  /\ pc' = [pc EXCEPT ![w] = "idle"]
  /\ sTask' = [sTask EXCEPT ![w] = NoTask]
  /\ UNCHANGED <<config, name, worker, lock, faults, hist>>

\* The worker dies with its task and is started again.
Crash(w) ==
  /\ pc[w] = "running"
  /\ Fault
  /\ pc' = [pc EXCEPT ![w] = "idle"]
  /\ sTask' = [sTask EXCEPT ![w] = NoTask]
  /\ UNCHANGED <<config, name, rows, lock, hist>>

\* Mutant of Hour: `updated' is never old enough.
HourNever(t) == FALSE /\ UNCHANGED vars

\* An hour without an update of the row.
Hour(t) ==
  /\ status[t] = "started" /\ ~stale[t] /\ lock[t] = Nobody
  /\ stale' = [stale EXCEPT ![t] = TRUE]
  /\ granted' = [granted EXCEPT ![t] = {}]
  /\ untouched' = untouched \ {t}
  /\ UNCHANGED <<config, name, status, worker, lock, pc, sTask, faults>>

Next ==
  \/ \E w \in Workers :
       Select(w) \/ Pick(w) \/ GetFails(w) \/ Update(w) \/ Done(w) \/ Crash(w)
  \/ \E t \in Tasks : Hour(t)

(* Workers keep asking, finish get() and finish their tasks; time passes.  *)
(* A row lock can be busy again and again, so done() gets strong fairness: *)
(* InnoDB grants locks in order.                                           *)
Fairness ==
  /\ \A w \in Workers : WF_vars(Select(w)) /\ WF_vars(Pick(w)) /\ SF_vars(Done(w))
  /\ \A t \in Tasks : WF_vars(Hour(t))

Spec == Init /\ [][Next]_vars
FairSpec == Spec /\ Fairness

-----------------------------------------------------------------------------
(* Properties.                                                             *)

\* A task is given to one worker an hour: SKIP LOCKED keeps two get() calls
\* from the same row.  The exception is what `updated' does not see, a task
\* taken again under the name it was started with: that one is given out
\* again at once.
GrantedOnce == \A t \in Tasks : Cardinality(granted[t]) <= 1 \/ t \in untouched

\* A finished task is never given out again, although the UPDATE in get() does
\* not look at the status; a late worker's done() may still turn
\* another's 'done' into 'error', never the reverse.
FinishedStays == [][FinishedKept]_vars

\* Every task is finished, whoever dies while holding it or inside get().
TasksFinish == \A t \in Tasks : <>(status[t] \in {"done", "error"})

=============================================================================

------------------------------ MODULE Workflow ------------------------------
(***************************************************************************)
(* MySQL::Workflow::Manager (mysql/Workflow.hpp) on the table workflow     *)
(* (mysql/migrations/006_Workflow.up.sql): tasks of one strand are meant   *)
(* to run one after the other.  All get() calls here name the same space   *)
(* and task prefix; tasks are numbered in the order of priority and id.    *)
(*                                                                         *)
(* MySQL: the WITH clause is a plain read of the statement's snapshot,     *)
(* while the SELECT ... FOR UPDATE SKIP LOCKED around it reads what is     *)
(* committed now and locks its row.  `updated' changes, and ROW_COUNT()    *)
(* counts, only when a column really changes.  NULL NOT IN (...) is true   *)
(* for an empty list only.                                                 *)
(***************************************************************************)
EXTENDS TaskTable

CONSTANT Strands    \* the values of the column strand besides NULL

VARIABLES
  strand,       \* a column of a row
  sStrands,     \* what the WITH clause returned
  open,         \* the transaction an exception in get() left open
  abandoned     \* history: the tasks that were started and have no worker

rows == <<strand, status, worker, stale>>
hist == <<granted, abandoned>>
vars == <<name, rows, lock, pc, sStrands, sTask, open, faults, hist>>

Null == "NULL"

\* A transaction left open: the row it locked, and whether it updated it.
Closed == [task |-> NoTask, updated |-> FALSE]

Init ==
  /\ name \in {[w \in Workers |-> w], [w \in Workers |-> "shared"]}
  /\ strand \in [Tasks -> Strands \cup {Null}]
  /\ status = [t \in Tasks |-> "new"]
  /\ worker = [t \in Tasks |-> Nobody]
  /\ stale = [t \in Tasks |-> FALSE]
  /\ lock = [t \in Tasks |-> Nobody]
  /\ pc = [w \in Workers |-> "idle"]
  /\ sStrands = [w \in Workers |-> {}]
  /\ sTask = [w \in Workers |-> NoTask]
  /\ open = [w \in Workers |-> Closed]
  /\ faults = 0
  /\ granted = [t \in Tasks |-> {}]
  /\ abandoned = {}

-----------------------------------------------------------------------------
(* Manager::get                                                            *)

\* Mutant of Where: a started task is resumed at once.
WhereStarted(t) == status[t] \in {"new", "started"}

\* sWhere
Where(t) == status[t] = "new" \/ (status[t] = "started" /\ stale[t])

\* The effect of the UPDATE, once committed.
Started(w, t) ==
  /\ status' = [status EXCEPT ![t] = "started"]
  /\ worker' = [worker EXCEPT ![t] = name[w]]
  /\ stale' = [stale EXCEPT ![t] = FALSE]
  /\ UNCHANGED strand

\* BEGIN commits what an earlier get() left open.
Begin(w) ==
  /\ pc[w] = "idle" /\ open[w] # Closed
  /\ LET t == open[w].task IN
       /\ lock' = [lock EXCEPT ![t] = Nobody]
       /\ \/ open[w].updated /\ Started(w, t) /\ abandoned' = abandoned \cup {t}
          \/ ~open[w].updated /\ UNCHANGED <<rows, abandoned>>
  /\ open' = [open EXCEPT ![w] = Closed]
  /\ UNCHANGED <<name, pc, sStrands, sTask, faults, granted>>

\* Mutant of ReadStrands: finished tasks still hold their strand.
ReadStrandsDone(w) ==
  /\ pc[w] = "idle" /\ open[w] = Closed
  /\ pc' = [pc EXCEPT ![w] = "strands"]
  /\ sStrands' = [sStrands EXCEPT ![w] = {strand[t] : t \in {u \in Tasks : status[u] # "new"}} \ {Null}]
  /\ UNCHANGED <<name, rows, lock, sTask, open, faults, hist>>

\* WITH s AS (SELECT DISTINCT strand ... WHERE status IN ('started') ...)
ReadStrands(w) ==
  /\ pc[w] = "idle" /\ open[w] = Closed
  /\ pc' = [pc EXCEPT ![w] = "strands"]
  /\ sStrands' = [sStrands EXCEPT ![w] = {strand[t] : t \in {u \in Tasks : status[u] = "started"}} \ {Null}]
  /\ UNCHANGED <<name, rows, lock, sTask, open, faults, hist>>

\* w.strand NOT IN (SELECT * FROM s)
NotIn(t, s) == IF strand[t] = Null THEN s = {} ELSE strand[t] \notin s

\* FOR UPDATE
Lock(w, t) == lock' = [lock EXCEPT ![t] = w]

\* The SELECT takes the first row; without one get() commits and returns {}.
Select(w) ==
  LET found == {t \in Tasks : Where(t) /\ NotIn(t, sStrands[w]) /\ lock[t] = Nobody}
  IN  /\ pc[w] = "strands"
      /\ \/ /\ pc' = [pc EXCEPT ![w] = "selected"]
            /\ \E t \in found :
                 /\ \A u \in found : t <= u
                 /\ sTask' = [sTask EXCEPT ![w] = t]
                 /\ Lock(w, t)
         \/ /\ found = {}
            /\ pc' = [pc EXCEPT ![w] = "idle"]
            /\ UNCHANGED <<sTask, lock>>
      /\ sStrands' = [sStrands EXCEPT ![w] = {}]
      /\ UNCHANGED <<name, rows, open, faults, hist>>

\* ROW_COUNT() = 1 after UPDATE ... WHERE id = ... AND sWhere.
RowCount(w, t) == Where(t) /\ (status[t] # "started" \/ worker[t] # name[w])

Leave(w) ==
  /\ pc' = [pc EXCEPT ![w] = "idle"]
  /\ sTask' = [sTask EXCEPT ![w] = NoTask]

\* UPDATE, SELECT ROW_COUNT(), and COMMIT or ROLLBACK.
Pick(w) ==
  LET t == sTask[w] IN
    /\ pc[w] = "selected"
    /\ lock' = [lock EXCEPT ![t] = Nobody]
    /\ \/ /\ RowCount(w, t)
          /\ Started(w, t)
          /\ pc' = [pc EXCEPT ![w] = "running"]
          /\ granted' = [granted EXCEPT ![t] = @ \cup {w}]
          /\ abandoned' = abandoned \ {t}
          /\ UNCHANGED sTask
       \/ /\ ~RowCount(w, t)
          /\ Leave(w)
          /\ UNCHANGED <<rows, hist>>
    /\ UNCHANGED <<name, sStrands, open, faults>>

\* A statement fails and get() returns {} with the transaction open.
GetThrows(w) ==
  /\ pc[w] = "selected"
  /\ Fault
  /\ \E u \in {FALSE, RowCount(w, sTask[w])} :
       open' = [open EXCEPT ![w] = [task |-> sTask[w], updated |-> u]]
  /\ Leave(w)
  /\ UNCHANGED <<name, rows, lock, sStrands, hist>>

\* The connection is lost, before COMMIT was done or after.
ConnectionLost(w) ==
  /\ pc[w] = "selected"
  /\ Fault
  /\ lock' = [lock EXCEPT ![sTask[w]] = Nobody]
  /\ \/ /\ RowCount(w, sTask[w])
        /\ Started(w, sTask[w])
        /\ abandoned' = abandoned \cup {sTask[w]}
     \/ UNCHANGED <<rows, abandoned>>
  /\ Leave(w)
  /\ UNCHANGED <<name, sStrands, open, granted>>

-----------------------------------------------------------------------------
(* Manager::update and Manager::done                                       *)

\* A new cookie touches `updated', the same one does not.
Update(w) ==
  /\ pc[w] = "running" /\ lock[sTask[w]] = Nobody
  /\ status[sTask[w]] = "started"
  /\ stale' = [stale EXCEPT ![sTask[w]] = FALSE]
  /\ UNCHANGED <<name, strand, status, worker, lock, pc, sStrands, sTask, open, faults, hist>>

\* WHERE id = ... AND status IN ('started','done')
DoneWhere(t) == status[t] \in {"started", "done"}

Done(w) ==
  /\ pc[w] = "running" /\ lock[sTask[w]] = Nobody
  /\ \E new \in {"done", "error"} :
       status' = IF DoneWhere(sTask[w]) THEN [status EXCEPT ![sTask[w]] = new] ELSE status
  /\ stale' = [stale EXCEPT ![sTask[w]] = FALSE]
  /\ Leave(w)
  /\ UNCHANGED <<name, strand, worker, lock, sStrands, open, faults, hist>>

\* The worker dies with its task and is started again.
Crash(w) ==
  /\ pc[w] = "running"
  /\ Fault
  /\ Leave(w)
  /\ abandoned' = abandoned \cup {sTask[w]}
  /\ UNCHANGED <<name, rows, lock, sStrands, open, granted>>

\* An hour without an update of the row.
Hour(t) ==
  /\ status[t] = "started" /\ ~stale[t] /\ lock[t] = Nobody
  /\ stale' = [stale EXCEPT ![t] = TRUE]
  /\ granted' = [granted EXCEPT ![t] = {}]
  /\ UNCHANGED <<name, strand, status, worker, lock, pc, sStrands, sTask, open, faults, abandoned>>

Get(w) == Begin(w) \/ ReadStrands(w) \/ Select(w) \/ Pick(w)

Next ==
  \/ \E w \in Workers :
       \/ Get(w) \/ GetThrows(w) \/ ConnectionLost(w)
       \/ Update(w) \/ Done(w) \/ Crash(w)
  \/ \E t \in Tasks : Hour(t)

(* Workers keep asking and finish their tasks, time passes; a row lock may *)
(* be busy again and again, and InnoDB grants it in order.                 *)
Fairness ==
  /\ \A w \in Workers : WF_vars(Get(w)) /\ SF_vars(Done(w))
  /\ \A t \in Tasks : WF_vars(Hour(t))

Spec == Init /\ [][Next]_vars
FairSpec == Spec /\ Fairness

-----------------------------------------------------------------------------
(* Properties.                                                             *)

\* Every task is finished, unless a started task lost its worker: that one
\* keeps its own strand in the WITH clause, and is not resumed.
TasksFinish == \A t \in Tasks : <>(status[t] \in {"done", "error"} \/ abandoned # {})

\* "can't run 2nd flow, since strand already taken" (mysql/test.cpp:476): of
\* the tasks of one strand at most one is started.
StrandExclusive ==
  \A t, u \in Tasks :
    t # u /\ strand[t] # Null /\ strand[t] = strand[u] =>
      ~(status[t] = "started" /\ status[u] = "started")

=============================================================================

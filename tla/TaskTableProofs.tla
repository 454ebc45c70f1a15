-------------------------- MODULE TaskTableProofs --------------------------
(***************************************************************************)
(* The safety of the two managers of a table of tasks, TaskQueue and       *)
(* Workflow, for every set of tasks, strands and workers.  Whom a task was *)
(* granted to depends on the rows of the table, and those on who has them  *)
(* locked: Locks says that a row stays as SELECT ... FOR UPDATE found it   *)
(* until its transaction ends, Once that a row which can be given out has  *)
(* not been given out in this hour.                                        *)
(*                                                                         *)
(* In Workflow, the second half, a transaction that get() left open after  *)
(* an exception holds its row too, and commits it when the next get()      *)
(* begins: FlowLocks covers a row for as long as either of the two has it  *)
(* locked.                                                                 *)
(***************************************************************************)
EXTENDS TaskQueue, TLAPS, FiniteSetTheorems

\* The constants and the variables that Workflow adds to the table.
CONSTANT Strands
VARIABLES strand, sStrands, open, abandoned

W == INSTANCE Workflow

-----------------------------------------------------------------------------
(* TaskQueue                                                               *)

TypeOK ==
  /\ config \in [isolation : BOOLEAN, reverse : BOOLEAN]
  /\ name \in [Workers -> Workers \cup {"shared"}]
  /\ status \in [Tasks -> {"new", "started", "done", "error"}]
  /\ worker \in [Tasks -> Workers \cup {"shared", Nobody}]
  /\ stale \in [Tasks -> BOOLEAN]
  /\ lock \in [Tasks -> Workers \cup {Nobody}]
  /\ pc \in [Workers -> {"idle", "selected", "running"}]
  /\ sTask \in [Workers -> Tasks \cup {NoTask}]
  /\ faults \in 0..MaxFaults
  /\ granted \in [Tasks -> SUBSET Workers]
  /\ untouched \in SUBSET Tasks

\* What where() accepts from some worker.
Resumable(t) == status[t] = "new" \/ (status[t] = "started" /\ stale[t])

\* A worker inside get() has its row locked, and the row is still one to give
\* out; a worker that runs a task knows which.
Locks ==
  \A w \in Workers :
    /\ pc[w] = "selected" =>
         sTask[w] \in Tasks /\ lock[sTask[w]] = w /\ Resumable(sTask[w])
    /\ pc[w] = "running" => sTask[w] \in Tasks

\* A task that `updated' keeps track of has been given out at most once this
\* hour, and not at all while it can be given out.
Once ==
  \A t \in Tasks \ untouched :
    /\ granted[t] = {} \/ \E w \in Workers : granted[t] = {w}
    /\ Resumable(t) => granted[t] = {}

IInv == TypeOK /\ Locks /\ Once

-----------------------------------------------------------------------------
\* What the UPDATE and the COMMIT of get() do to the row a worker has locked:
\* the other rows stay, and this one cannot be given out again unless the
\* UPDATE changed nothing, which untouched records.
LEMMA StartedLemma ==
  ASSUME TypeOK, NEW w \in Workers, NEW t \in Tasks, Started(w, t)
  PROVE  /\ status' \in [Tasks -> {"new", "started", "done", "error"}]
         /\ worker' \in [Tasks -> Workers \cup {"shared", Nobody}]
         /\ stale' \in [Tasks -> BOOLEAN]
         /\ lock' \in [Tasks -> Workers \cup {Nobody}]
         /\ untouched' \in SUBSET Tasks /\ untouched \subseteq untouched'
         /\ \A u \in Tasks \ {t} : Resumable(u)' <=> Resumable(u)
         /\ \A u \in Tasks \ {t} : lock'[u] = lock[u] /\ status'[u] = status[u]
         /\ status'[t] = "started"
         /\ Resumable(t)' => t \in untouched'
<1>1. /\ status' \in [Tasks -> {"new", "started", "done", "error"}]
      /\ worker' \in [Tasks -> Workers \cup {"shared", Nobody}]
      /\ lock' \in [Tasks -> Workers \cup {Nobody}]
      /\ untouched' \in SUBSET Tasks /\ untouched \subseteq untouched'
      /\ \A u \in Tasks \ {t} : lock'[u] = lock[u] /\ status'[u] = status[u]
      /\ status'[t] = "started"
  BY DEF TypeOK, Started
<1>2. stale' \in [Tasks -> BOOLEAN]
  BY Zenon DEF TypeOK, Started
<1>3. \A u \in Tasks \ {t} : stale'[u] = stale[u]
  BY Zenon DEF TypeOK, Started
<1>4. \A u \in Tasks \ {t} : Resumable(u)' <=> Resumable(u)
  BY <1>1, <1>3, Zenon DEF Resumable
<1>5. stale'[t] => ~Changes(w, t)
  BY Zenon DEF TypeOK, Started
<1>6. ~Changes(w, t) => t \in untouched'
  BY DEF Started
<1>7. Resumable(t)' => t \in untouched'
  BY <1>1, <1>5, <1>6 DEF Resumable
<1> QED
  BY <1>1, <1>2, <1>4, <1>7

\* The initial states satisfy the inductive invariant.
LEMMA InitIInv == Init => IInv
<1> SUFFICES ASSUME Init PROVE IInv
  OBVIOUS
<1>1. TypeOK
  <2>1. name \in [Workers -> Workers \cup {"shared"}]
    BY DEF Init
  <2>2. stale \in [Tasks -> BOOLEAN]
    BY Zenon DEF Init
  <2> QED
    BY <2>1, <2>2, TasksAssumption DEF Init, TypeOK
<1> QED
  BY <1>1 DEF Init, IInv, Locks, Once

\* SELECT ... FOR UPDATE SKIP LOCKED takes a row nobody else has locked.
LEMMA SelectIInv == ASSUME IInv, NEW w \in Workers, Select(w) PROVE IInv'
<1> USE DEF IInv
<1>1. PICK t \in Tasks :
        /\ Where(w, t) /\ lock[t] = Nobody
        /\ sTask' = [sTask EXCEPT ![w] = t] /\ lock' = [lock EXCEPT ![t] = w]
  BY DEF Select, Lock
<1>2. Resumable(t)
  BY <1>1 DEF Where, Resumable
<1>3. TypeOK'
  BY <1>1 DEF TypeOK, Select, rows, hist
<1>4. \A u \in Tasks : Resumable(u)' <=> Resumable(u)
  BY DEF Resumable, Select, rows
<1>5. Locks'
  <2> SUFFICES ASSUME NEW v \in Workers
               PROVE  /\ pc'[v] = "selected" => /\ sTask'[v] \in Tasks
                                                /\ lock'[sTask'[v]] = v
                                                /\ Resumable(sTask[v])'
                      /\ pc'[v] = "running" => sTask'[v] \in Tasks
    BY DEF Locks
  <2>1. CASE v = w
    BY <2>1, <1>1, <1>2, <1>4 DEF TypeOK, Select
  <2>2. CASE v # w
    BY <2>2, <1>1, <1>4, WorkersAssumption DEF TypeOK, Locks, Select
  <2> QED
    BY <2>1, <2>2
<1>6. Once'
  BY <1>4 DEF Once, Select, hist
<1> QED
  BY <1>3, <1>5, <1>6

\* A worker that unlocks its row, and changes no other, leaves the other
\* workers inside get() with their rows as they were.
LEMMA UnlockLemma ==
  ASSUME TypeOK, Locks, NEW w \in Workers, pc[w] = "selected",
         NEW next \in {"idle", "running"},
         pc' = [pc EXCEPT ![w] = next],
         \/ sTask' = sTask
         \/ next = "idle" /\ sTask' = [sTask EXCEPT ![w] = NoTask],
         \A u \in Tasks \ {sTask[w]} : lock'[u] = lock[u],
         \A u \in Tasks \ {sTask[w]} : Resumable(u)' <=> Resumable(u)
  PROVE  Locks'
<1> SUFFICES ASSUME NEW v \in Workers
             PROVE  /\ pc'[v] = "selected" => /\ sTask'[v] \in Tasks
                                              /\ lock'[sTask'[v]] = v
                                              /\ Resumable(sTask[v])'
                    /\ pc'[v] = "running" => sTask'[v] \in Tasks
  BY DEF Locks
<1>1. CASE v = w
  BY <1>1 DEF TypeOK, Locks
<1>2. CASE v # w /\ pc[v] = "selected"
  <2>1. sTask'[v] = sTask[v] /\ pc'[v] = pc[v]
    BY <1>2 DEF TypeOK
  <2>2. sTask[v] \in Tasks \ {sTask[w]}
    BY <1>2 DEF Locks
  <2> QED
    BY <1>2, <2>1, <2>2 DEF Locks
<1>3. CASE v # w /\ pc[v] # "selected"
  BY <1>3 DEF TypeOK, Locks
<1> QED
  BY <1>1, <1>2, <1>3

\* get() gives its row to the worker: it was not given out in this hour, or
\* its `updated' does not tell.
LEMMA PickIInv == ASSUME IInv, NEW w \in Workers, Pick(w) PROVE IInv'
<1> USE DEF IInv
<1>0. PICK t \in Tasks : t = sTask[w]
  BY DEF Locks, Pick
<1>1. Resumable(t) /\ pc[w] = "selected" /\ Started(w, t)
  BY <1>0 DEF Locks, Pick
<1>2. granted' = [granted EXCEPT ![t] = @ \cup {w}]
  BY <1>0 DEF Pick
<1>3. TypeOK'
  <2>1. granted' \in [Tasks -> SUBSET Workers]
    BY <1>2 DEF TypeOK
  <2> QED
    BY <1>1, <2>1, StartedLemma DEF TypeOK, Pick
<1>4. Locks'
  <2>1. /\ \A u \in Tasks \ {t} : lock'[u] = lock[u]
        /\ \A u \in Tasks \ {t} : Resumable(u)' <=> Resumable(u)
    BY <1>1, StartedLemma
  <2>2. pc' = [pc EXCEPT ![w] = "running"] /\ sTask' = sTask
    BY DEF Pick
  <2> QED
    BY <1>1, <2>1, <2>2, <1>0, UnlockLemma
<1>5. Once'
  <2> SUFFICES ASSUME NEW u \in Tasks \ untouched'
               PROVE  /\ granted'[u] = {} \/ \E v \in Workers : granted'[u] = {v}
                      /\ Resumable(u)' => granted'[u] = {}
    BY DEF Once
  <2>1. u \notin untouched
    BY <1>1, StartedLemma
  <2>2. CASE u = t
    <3>1. granted[t] = {}
      BY <1>1, <2>1, <2>2 DEF Once
    <3>2. granted'[t] = {w}
      BY <1>1, <1>2, <3>1 DEF TypeOK
    <3>3. ~Resumable(t)'
      BY <1>1, <2>2, StartedLemma
    <3> QED
      BY <2>2, <3>2, <3>3
  <2>3. CASE u # t
    <3>1. granted'[u] = granted[u] /\ (Resumable(u)' <=> Resumable(u))
      BY <1>1, <1>2, <2>3, StartedLemma DEF TypeOK
    <3> QED
      BY <2>1, <3>1 DEF Once
  <2> QED
    BY <2>2, <2>3
<1> QED
  BY <1>3, <1>4, <1>5

\* A get() that fails rolls back, or it committed and nobody has the task.
LEMMA GetFailsIInv == ASSUME IInv, NEW w \in Workers, GetFails(w) PROVE IInv'
<1> USE DEF IInv
<1>0. PICK t \in Tasks : t = sTask[w]
  BY DEF Locks, GetFails
<1>1. Resumable(t) /\ pc[w] = "selected"
  BY <1>0 DEF Locks, GetFails
<1>2. /\ pc' = [pc EXCEPT ![w] = "idle"] /\ sTask' = [sTask EXCEPT ![w] = NoTask]
      /\ granted' = granted /\ faults' \in 0..MaxFaults
      /\ config' = config /\ name' = name
  BY TasksAssumption DEF GetFails, Fault, TypeOK
<1>3. CASE Started(w, t)
  <2>1. TypeOK'
    BY <1>1, <1>2, <1>3, StartedLemma DEF TypeOK
  <2>2. Locks'
    <3>1. /\ \A u \in Tasks \ {t} : lock'[u] = lock[u]
          /\ \A u \in Tasks \ {t} : Resumable(u)' <=> Resumable(u)
      BY <1>1, <1>3, StartedLemma
    <3> QED
      BY <1>1, <1>2, <3>1, <1>0, UnlockLemma
  <2>3. Once'
    <3> SUFFICES ASSUME NEW u \in Tasks \ untouched'
                 PROVE  /\ granted'[u] = {} \/ \E v \in Workers : granted'[u] = {v}
                        /\ Resumable(u)' => granted'[u] = {}
      BY DEF Once
    <3>1. u \notin untouched /\ (u = t => ~Resumable(u)') /\ (u # t => Resumable(u)' <=> Resumable(u))
      BY <1>1, <1>3, StartedLemma
    <3> QED
      BY <1>2, <3>1 DEF Once
  <2> QED
    BY <2>1, <2>2, <2>3
<1>4. CASE lock' = [lock EXCEPT ![t] = Nobody] /\ UNCHANGED <<rows, untouched>>
  <2>1. TypeOK'
    BY <1>1, <1>2, <1>4 DEF TypeOK, rows
  <2>2. \A u \in Tasks : Resumable(u)' <=> Resumable(u)
    BY <1>4 DEF Resumable, rows
  <2>3. Locks'
    <3>1. \A u \in Tasks \ {t} : lock'[u] = lock[u]
      BY <1>4 DEF TypeOK
    <3> QED
      BY <1>1, <1>2, <2>2, <3>1, <1>0, UnlockLemma
  <2>4. Once'
    BY <1>2, <1>4, <2>2 DEF Once
  <2> QED
    BY <2>1, <2>3, <2>4
<1> QED
  BY <1>0, <1>3, <1>4 DEF GetFails

\* update(), done() and the hour change a row that nobody has locked, and can
\* only make a row resumable that was given to nobody in this hour.
LEMMA UnlockedLemma ==
  ASSUME IInv, TypeOK', NEW t \in Tasks, lock[t] = Nobody, lock' = lock,
         NEW w \in Workers,
         \/ pc' = pc /\ sTask' = sTask
         \/ /\ pc[w] = "running"
            /\ pc' = [pc EXCEPT ![w] = "idle"] /\ sTask' = [sTask EXCEPT ![w] = NoTask],
         \A u \in Tasks \ {t} : /\ Resumable(u)' <=> Resumable(u)
                                /\ granted'[u] = granted[u]
                                /\ u \in untouched <=> u \in untouched',
         \/ granted'[t] = {}
         \/ /\ granted'[t] = granted[t] /\ untouched' = untouched
            /\ Resumable(t)' => Resumable(t)
  PROVE  IInv'
<1> USE DEF IInv
<1>1. Locks'
  <2> SUFFICES ASSUME NEW v \in Workers
               PROVE  /\ pc'[v] = "selected" => /\ sTask'[v] \in Tasks
                                                /\ lock'[sTask'[v]] = v
                                                /\ Resumable(sTask[v])'
                      /\ pc'[v] = "running" => sTask'[v] \in Tasks
    BY DEF Locks
  <2>1. CASE pc'[v] = "selected"
    <3>1. pc[v] = "selected" /\ sTask'[v] = sTask[v]
      BY <2>1 DEF TypeOK
    <3>2. sTask[v] \in Tasks \ {t}
      BY <3>1, WorkersAssumption DEF Locks
    <3> QED
      BY <3>1, <3>2 DEF Locks
  <2>2. CASE pc'[v] # "selected"
    BY <2>2 DEF TypeOK, Locks
  <2> QED
    BY <2>1, <2>2
<1>2. Once'
  <2> SUFFICES ASSUME NEW u \in Tasks \ untouched'
               PROVE  /\ granted'[u] = {} \/ \E v \in Workers : granted'[u] = {v}
                      /\ Resumable(u)' => granted'[u] = {}
    BY DEF Once
  <2>1. CASE u = t
    BY <2>1 DEF Once
  <2>2. CASE u # t
    BY <2>2 DEF Once
  <2> QED
    BY <2>1, <2>2
<1> QED
  BY <1>1, <1>2

\* update(), done(), a crash and the hour keep the inductive invariant.
LEMMA RowsIInv ==
  ASSUME IInv, NEW w \in Workers, Update(w) \/ Done(w)
  PROVE  IInv'
<1> USE DEF IInv
<1>0. PICK t \in Tasks : t = sTask[w]
  BY DEF Locks, Update, Done
<1>1. lock[t] = Nobody /\ pc[w] = "running" /\ lock' = lock
  BY <1>0 DEF Update, Done
<1>2. stale' = [stale EXCEPT ![t] = FALSE] /\ granted' = granted /\ untouched' = untouched
  BY <1>0 DEF Update, Done, hist
<1>3. stale' \in [Tasks -> BOOLEAN] /\ ~stale'[t] /\ \A u \in Tasks \ {t} : stale'[u] = stale[u]
  BY <1>1, <1>2, Zenon DEF TypeOK
<1>4. /\ status' \in [Tasks -> {"new", "started", "done", "error"}]
      /\ \A u \in Tasks \ {t} : status'[u] = status[u]
      /\ status'[t] = "new" => status[t] = "new"
  BY <1>0 DEF TypeOK, Update, Done
<1>5. \/ pc' = pc /\ sTask' = sTask
      \/ /\ pc' = [pc EXCEPT ![w] = "idle"] /\ sTask' = [sTask EXCEPT ![w] = NoTask]
  BY DEF Update, Done
<1>6. TypeOK'
  <2>1. pc' \in [Workers -> {"idle", "selected", "running"}] /\ sTask' \in [Workers -> Tasks \cup {NoTask}]
    BY <1>5 DEF TypeOK
  <2>2. config' = config /\ name' = name /\ worker' = worker /\ faults' = faults
    BY DEF Update, Done
  <2> QED
    BY <1>1, <1>2, <1>3, <1>4, <2>1, <2>2 DEF TypeOK
<1>7. \A u \in Tasks \ {t} : Resumable(u)' <=> Resumable(u)
  BY <1>3, <1>4, Zenon DEF Resumable
<1>8. Resumable(t)' => Resumable(t)
  BY <1>3, <1>4 DEF Resumable
<1> QED
  BY <1>1, <1>2, <1>5, <1>6, <1>7, <1>8, UnlockedLemma

\* An hour makes a row resumable and starts the count of its workers anew.
LEMMA HourIInv == ASSUME IInv, NEW t \in Tasks, Hour(t) PROVE IInv'
<1> USE DEF IInv
<1>1. stale' \in [Tasks -> BOOLEAN] /\ \A u \in Tasks \ {t} : stale'[u] = stale[u]
  BY Zenon DEF TypeOK, Hour
<1>2. /\ granted' \in [Tasks -> SUBSET Workers] /\ granted'[t] = {}
      /\ \A u \in Tasks \ {t} : granted'[u] = granted[u] /\ (u \in untouched <=> u \in untouched')
  BY DEF TypeOK, Hour
<1>3. TypeOK'
  BY <1>1, <1>2 DEF TypeOK, Hour
<1>4. \A u \in Tasks \ {t} : Resumable(u)' <=> Resumable(u)
  BY <1>1, Zenon DEF Resumable, Hour
<1>5. Locks'
  <2> SUFFICES ASSUME NEW v \in Workers
               PROVE  /\ pc'[v] = "selected" => /\ sTask'[v] \in Tasks
                                                /\ lock'[sTask'[v]] = v
                                                /\ Resumable(sTask[v])'
                      /\ pc'[v] = "running" => sTask'[v] \in Tasks
    BY DEF Locks
  <2>1. pc[v] = "selected" => sTask[v] # t
    BY WorkersAssumption DEF Locks, Hour
  <2> QED
    BY <1>4, <2>1 DEF Locks, Hour
<1>6. Once'
  BY <1>2, <1>4 DEF Once
<1> QED
  BY <1>3, <1>5, <1>6

\* A crash of a worker leaves the table alone.
LEMMA CrashIInv == ASSUME IInv, NEW w \in Workers, Crash(w) PROVE IInv'
<1> USE DEF IInv
<1>1. TypeOK'
  BY TasksAssumption DEF TypeOK, Crash, Fault, rows, hist
<1>2. \A u \in Tasks : Resumable(u)' <=> Resumable(u)
  BY DEF Resumable, Crash, rows
<1>3. Locks'
  BY <1>2 DEF TypeOK, Locks, Crash
<1>4. Once'
  BY <1>2 DEF Once, Crash, hist
<1> QED
  BY <1>1, <1>3, <1>4

\* The inductive invariant holds in every reachable state.
THEOREM Invariant == Spec => []IInv
<1>1. IInv /\ [Next]_vars => IInv'
  <2> SUFFICES ASSUME IInv, [Next]_vars PROVE IInv'
    OBVIOUS
  <2>1. CASE UNCHANGED vars
    BY <2>1 DEF vars, rows, hist, IInv, TypeOK, Locks, Once, Resumable
  <2>2. ASSUME NEW w \in Workers,
               Select(w) \/ Pick(w) \/ GetFails(w) \/ Update(w) \/ Done(w) \/ Crash(w)
        PROVE  IInv'
    BY <2>2, SelectIInv, PickIInv, GetFailsIInv, RowsIInv, CrashIInv
  <2>3. ASSUME NEW t \in Tasks, Hour(t) PROVE IInv'
    BY <2>3, HourIInv
  <2> QED
    BY <2>1, <2>2, <2>3 DEF Next
<1> QED
  BY <1>1, InitIInv, PTL DEF Spec

-----------------------------------------------------------------------------
\* A task is given to one worker an hour, whatever the interleaving of get()
\* calls, lost connections, crashes and late update() and done(), unless it was
\* given out without touching `updated' (TaskQueue::Manager::get).
THEOREM GrantedOnceHolds == Spec => []GrantedOnce
<1>1. IInv => GrantedOnce
  <2> SUFFICES ASSUME IInv, NEW t \in Tasks \ untouched PROVE Cardinality(granted[t]) <= 1
    BY DEF GrantedOnce
  <2>1. granted[t] = {} \/ \E w \in Workers : granted[t] = {w}
    BY DEF IInv, Once
  <2>2. CASE granted[t] = {}
    BY <2>2, FS_EmptySet
  <2>3. ASSUME NEW w \in Workers, granted[t] = {w} PROVE Cardinality(granted[t]) <= 1
    <3>1. Cardinality({w}) = 1
      BY FS_Singleton
    <3> QED
      BY <2>3, <3>1
  <2> QED
    BY <2>1, <2>2, <2>3
<1> QED
  BY <1>1, Invariant, PTL

\* No step takes a task out of 'error', or out of 'done' to anything but
\* 'error': get() updates only the row it has locked, which was not finished
\* when it was selected and is not since; done() tests the status.
THEOREM FinishedStaysHolds == Spec => FinishedStays
<1>1. ASSUME IInv, [Next]_vars, NEW t \in Tasks
      PROVE  /\ status[t] = "error" => status'[t] = "error"
             /\ status[t] = "done" => status'[t] \in {"done", "error"}
  <2>1. ASSUME NEW w \in Workers, Pick(w) \/ GetFails(w)
        PROVE  status'[t] = status[t] \/ Resumable(t)
    <3>1. PICK u \in Tasks : u = sTask[w] /\ Resumable(u)
      BY <1>1, <2>1 DEF IInv, Locks, Pick, GetFails
    <3>2. CASE Started(w, u)
      BY <1>1, <3>1, <3>2, StartedLemma DEF IInv
    <3>3. CASE ~Started(w, u)
      BY <2>1, <3>1, <3>3 DEF Pick, GetFails, rows
    <3> QED
      BY <3>2, <3>3
  <2>2. ASSUME NEW w \in Workers, Done(w)
        PROVE  /\ status[t] = "error" => status'[t] = "error"
               /\ status[t] = "done" => status'[t] \in {"done", "error"}
    BY <1>1, <2>2 DEF Done, DoneWhere, IInv, TypeOK
  <2>3. ASSUME \/ UNCHANGED vars
               \/ \E w \in Workers : Select(w) \/ Update(w) \/ Crash(w)
               \/ \E u \in Tasks : Hour(u)
        PROVE  status' = status
    BY <2>3 DEF vars, rows, Select, Update, Crash, Hour
  <2> QED
    BY <1>1, <2>1, <2>2, <2>3 DEF Next, Resumable
<1>2. IInv /\ [Next]_vars => [FinishedKept]_vars
  BY <1>1 DEF FinishedKept
<1> QED
  BY <1>2, Invariant, PTL DEF Spec, FinishedStays

-----------------------------------------------------------------------------
(* Workflow                                                                *)

Statuses == {"new", "started", "done", "error"}
Transactions == [task : Tasks \cup {W!NoTask}, updated : BOOLEAN]

FlowTypeOK ==
  /\ name \in [Workers -> Workers \cup {"shared"}]
  /\ strand \in [Tasks -> Strands \cup {W!Null}]
  /\ status \in [Tasks -> Statuses]
  /\ worker \in [Tasks -> Workers \cup {"shared", W!Nobody}]
  /\ stale \in [Tasks -> BOOLEAN]
  /\ lock \in [Tasks -> Workers \cup {W!Nobody}]
  /\ pc \in [Workers -> {"idle", "strands", "selected", "running"}]
  /\ sStrands \in [Workers -> SUBSET Strands]
  /\ sTask \in [Workers -> Tasks \cup {W!NoTask}]
  /\ open \in [Workers -> Transactions]
  /\ faults \in 0..MaxFaults
  /\ granted \in [Tasks -> SUBSET Workers]
  /\ abandoned \in SUBSET Tasks

\* A row that get() has selected, or that a transaction left open has, is locked
\* by the worker and still one to give out.
FlowHolds(w, t) == t \in Tasks /\ lock[t] = w /\ W!Where(t)

FlowLocksOf(w) ==
  /\ pc[w] = "selected" => FlowHolds(w, sTask[w])
  /\ pc[w] = "running" => sTask[w] \in Tasks
  /\ open[w] # W!Closed => pc[w] = "idle" /\ FlowHolds(w, open[w].task)

FlowLocks == \A w \in Workers : FlowLocksOf(w)

\* A task has been given out at most once this hour, and not at all while it
\* can be given out.
FlowOnce ==
  \A t \in Tasks :
    /\ granted[t] = {} \/ \E w \in Workers : granted[t] = {w}
    /\ W!Where(t) => granted[t] = {}

FlowIInv == FlowTypeOK /\ FlowLocks /\ FlowOnce

-----------------------------------------------------------------------------
\* The same assumption, as Workflow writes it.
LEMMA FlowWorkers == W!Nobody \notin Workers
  BY WorkersAssumption DEF Nobody, W!Nobody

\* What the UPDATE of get() does to a row once it is committed: the other rows
\* stay, and this one cannot be given out again within the hour.
LEMMA FlowStartedLemma ==
  ASSUME FlowTypeOK, NEW w \in Workers, NEW t \in Tasks, W!Started(w, t)
  PROVE  /\ strand' = strand
         /\ status' \in [Tasks -> Statuses]
         /\ worker' \in [Tasks -> Workers \cup {"shared", W!Nobody}]
         /\ stale' \in [Tasks -> BOOLEAN]
         /\ \A u \in Tasks \ {t} : (W!Where(u)' <=> W!Where(u)) /\ status'[u] = status[u]
         /\ ~W!Where(t)' /\ status'[t] = "started"
<1>1. /\ strand' = strand
      /\ status' \in [Tasks -> Statuses]
      /\ worker' \in [Tasks -> Workers \cup {"shared", W!Nobody}]
      /\ \A u \in Tasks \ {t} : status'[u] = status[u]
      /\ status'[t] = "started"
  BY DEF FlowTypeOK, W!Started, Statuses
<1>2. /\ stale' \in [Tasks -> BOOLEAN]
      /\ ~stale'[t]
      /\ \A u \in Tasks \ {t} : stale'[u] = stale[u]
  BY Zenon DEF FlowTypeOK, W!Started
<1>3. \A u \in Tasks \ {t} : W!Where(u)' <=> W!Where(u)
  BY <1>1, <1>2, Zenon DEF W!Where
<1>4. ~W!Where(t)'
  BY <1>1, <1>2 DEF W!Where
<1> QED
  BY <1>1, <1>2, <1>3, <1>4

\* What a step does to a row that another worker has locked, or nobody, does
\* not matter to a worker that takes no part in it.
LEMMA FlowOthersLemma ==
  ASSUME NEW v \in Workers, FlowLocksOf(v), NEW t \in Tasks, lock[t] # v,
         pc'[v] = pc[v], sTask'[v] = sTask[v], open'[v] = open[v],
         \A u \in Tasks \ {t} : lock'[u] = lock[u] /\ (W!Where(u)' <=> W!Where(u))
  PROVE  FlowLocksOf(v)'
<1>1. ASSUME NEW u, FlowHolds(v, u) PROVE FlowHolds(v, u)'
  BY <1>1 DEF FlowHolds
<1>2. pc'[v] = "selected" => FlowHolds(v, sTask[v])'
  <2> SUFFICES ASSUME pc'[v] = "selected" PROVE FlowHolds(v, sTask[v])'
    OBVIOUS
  <2>1. PICK u : u = sTask[v] /\ u = sTask'[v] /\ FlowHolds(v, u)
    BY DEF FlowLocksOf
  <2>2. FlowHolds(v, u)'
    BY <1>1, <2>1
  <2> QED
    BY <2>1, <2>2 DEF FlowHolds
<1>3. open'[v] # W!Closed => pc'[v] = "idle" /\ FlowHolds(v, open[v].task)'
  <2> SUFFICES ASSUME open'[v] # W!Closed PROVE pc'[v] = "idle" /\ FlowHolds(v, open[v].task)'
    OBVIOUS
  <2>1. PICK u : u = open[v].task /\ u = open'[v].task /\ FlowHolds(v, u)
    BY DEF FlowLocksOf
  <2>2. FlowHolds(v, u)'
    BY <1>1, <2>1
  <2> QED
    BY <2>1, <2>2 DEF FlowHolds, FlowLocksOf
<1> QED
  BY <1>2, <1>3 DEF FlowLocksOf, W!Closed

\* The initial states satisfy the inductive invariant.
LEMMA FlowInitIInv == W!Init => FlowIInv
<1> SUFFICES ASSUME W!Init PROVE FlowIInv
  OBVIOUS
<1>1. FlowTypeOK
  <2>1. name \in [Workers -> Workers \cup {"shared"}]
    BY DEF W!Init
  <2>2. stale \in [Tasks -> BOOLEAN]
    BY Zenon DEF W!Init
  <2>3. W!Closed \in Transactions
    BY DEF W!Closed, Transactions
  <2> QED
    BY <2>1, <2>2, <2>3, TasksAssumption DEF W!Init, FlowTypeOK, Statuses
<1>2. FlowLocks
  BY DEF W!Init, FlowLocks, FlowLocksOf
<1>3. FlowOnce
  BY DEF W!Init, FlowOnce
<1> QED
  BY <1>1, <1>2, <1>3 DEF FlowIInv

\* BEGIN commits what a failed get() left open: the row was to be given out and
\* is now started, but nobody has it.
LEMMA FlowBeginIInv == ASSUME FlowIInv, NEW w \in Workers, W!Begin(w) PROVE FlowIInv'
<1> USE DEF FlowIInv
<1>0. PICK t \in Tasks : t = open[w].task /\ lock[t] = w
  BY DEF FlowLocks, FlowLocksOf, FlowHolds, W!Begin
<1>1. /\ pc[w] = "idle" /\ open[w] # W!Closed
      /\ lock' = [lock EXCEPT ![t] = W!Nobody]
      /\ open' = [open EXCEPT ![w] = W!Closed]
      /\ name' = name /\ pc' = pc /\ sStrands' = sStrands /\ sTask' = sTask
      /\ faults' = faults /\ granted' = granted
  BY <1>0 DEF W!Begin
<1>2. \/ W!Started(w, t) /\ abandoned' = abandoned \cup {t}
      \/ UNCHANGED <<W!rows, abandoned>>
  BY <1>0 DEF W!Begin
<1>3. FlowTypeOK'
  <2>1. W!Closed \in Transactions
    BY DEF W!Closed, Transactions
  <2>2. CASE W!Started(w, t) /\ abandoned' = abandoned \cup {t}
    BY <1>1, <2>1, <2>2, FlowStartedLemma DEF FlowTypeOK
  <2>3. CASE UNCHANGED <<W!rows, abandoned>>
    BY <1>1, <2>1, <2>3 DEF FlowTypeOK, W!rows
  <2> QED
    BY <1>2, <2>2, <2>3
<1>4. \A u \in Tasks : W!Where(u)' => W!Where(u)
  BY <1>2, FlowStartedLemma DEF W!Where, W!rows
<1>5. \A u \in Tasks \ {t} : lock'[u] = lock[u] /\ (W!Where(u)' <=> W!Where(u))
  <2>1. CASE W!Started(w, t)
    BY <1>1, <2>1, FlowStartedLemma DEF FlowTypeOK
  <2>2. CASE UNCHANGED <<W!rows, abandoned>>
    BY <1>1, <2>2 DEF FlowTypeOK, W!Where, W!rows
  <2> QED
    BY <1>2, <2>1, <2>2
<1>6. FlowLocks'
  <2> SUFFICES ASSUME NEW v \in Workers PROVE FlowLocksOf(v)'
    BY DEF FlowLocks
  <2>1. CASE v = w
    BY <1>1, <2>1 DEF FlowTypeOK, FlowLocksOf
  <2>2. CASE v # w
    <3>1. open'[v] = open[v] /\ pc'[v] = pc[v] /\ sTask'[v] = sTask[v]
      BY <1>1, <2>2 DEF FlowTypeOK
    <3> QED
      BY <1>0, <1>5, <2>2, <3>1, FlowOthersLemma DEF FlowLocks
  <2> QED
    BY <2>1, <2>2
<1>7. FlowOnce'
  BY <1>1, <1>4 DEF FlowOnce
<1> QED
  BY <1>3, <1>6, <1>7

\* The WITH clause reads and changes nothing.
LEMMA FlowReadStrandsIInv == ASSUME FlowIInv, NEW w \in Workers, W!ReadStrands(w) PROVE FlowIInv'
<1> USE DEF FlowIInv
<1>1. FlowTypeOK'
  <2>1. {strand[t] : t \in {u \in Tasks : status[u] = "started"}} \ {W!Null} \in SUBSET Strands
    BY DEF FlowTypeOK
  <2> QED
    BY <2>1 DEF FlowTypeOK, W!ReadStrands, W!rows, W!hist
<1>2. \A u \in Tasks : W!Where(u)' <=> W!Where(u)
  BY DEF W!Where, W!ReadStrands, W!rows
<1>3. FlowLocks'
  BY <1>2 DEF FlowTypeOK, FlowLocks, FlowLocksOf, FlowHolds, W!ReadStrands
<1>4. FlowOnce'
  BY <1>2 DEF FlowOnce, W!ReadStrands, W!hist
<1> QED
  BY <1>1, <1>3, <1>4

\* SELECT ... FOR UPDATE SKIP LOCKED takes a row nobody else has locked, or get()
\* returns without one.
LEMMA FlowSelectIInv == ASSUME FlowIInv, NEW w \in Workers, W!Select(w) PROVE FlowIInv'
<1> USE DEF FlowIInv
<1>1. /\ pc[w] = "strands" /\ sStrands' = [sStrands EXCEPT ![w] = {}]
      /\ name' = name /\ W!rows' = W!rows /\ open' = open /\ faults' = faults /\ W!hist' = W!hist
  BY DEF W!Select
<1>2. open[w] = W!Closed
  BY <1>1 DEF FlowLocks, FlowLocksOf
<1>3. \A u \in Tasks : W!Where(u)' <=> W!Where(u)
  BY <1>1 DEF W!Where, W!rows
<1>4. FlowOnce'
  BY <1>1, <1>3 DEF FlowOnce, W!hist
<1>5. CASE pc' = [pc EXCEPT ![w] = "idle"] /\ UNCHANGED <<sTask, lock>>
  <2>1. FlowTypeOK'
    BY <1>1, <1>5 DEF FlowTypeOK, W!rows, W!hist
  <2>2. FlowLocks'
    BY <1>1, <1>2, <1>3, <1>5 DEF FlowTypeOK, FlowLocks, FlowLocksOf, FlowHolds
  <2> QED
    BY <1>4, <2>1, <2>2
<1>6. ASSUME NEW t \in Tasks, W!Where(t), lock[t] = W!Nobody,
             pc' = [pc EXCEPT ![w] = "selected"],
             sTask' = [sTask EXCEPT ![w] = t], lock' = [lock EXCEPT ![t] = w]
      PROVE  FlowIInv'
  <2>1. FlowTypeOK'
    BY <1>1, <1>6 DEF FlowTypeOK, W!rows, W!hist
  <2>2. FlowLocks'
    <3> SUFFICES ASSUME NEW v \in Workers PROVE FlowLocksOf(v)'
      BY DEF FlowLocks
    <3>1. CASE v = w
      BY <1>1, <1>2, <1>3, <1>6, <3>1 DEF FlowTypeOK, FlowLocksOf, FlowHolds
    <3>2. CASE v # w
      <4>1. open'[v] = open[v] /\ pc'[v] = pc[v] /\ sTask'[v] = sTask[v] /\ lock[t] # v
        BY <1>1, <1>6, <3>2, FlowWorkers DEF FlowTypeOK
      <4>2. \A u \in Tasks \ {t} : lock'[u] = lock[u]
        BY <1>6 DEF FlowTypeOK
      <4> QED
        BY <1>3, <4>1, <4>2, FlowOthersLemma DEF FlowLocks
    <3> QED
      BY <3>1, <3>2
  <2> QED
    BY <1>4, <2>1, <2>2
<1> QED
  BY <1>5, <1>6 DEF W!Select, W!Lock

\* The worker's own part of the invariant after get() returned, and the
\* others', when the row it had locked is free.
LEMMA FlowReleaseLemma ==
  ASSUME FlowIInv, NEW w \in Workers, pc[w] = "selected", NEW t \in Tasks, t = sTask[w],
         open' = open, NEW next \in {"idle", "running"},
         pc' = [pc EXCEPT ![w] = next],
         \/ sTask' = sTask
         \/ next = "idle" /\ sTask' = [sTask EXCEPT ![w] = W!NoTask],
         \A u \in Tasks \ {t} : lock'[u] = lock[u] /\ (W!Where(u)' <=> W!Where(u))
  PROVE  FlowLocks'
<1> USE DEF FlowIInv
<1> SUFFICES ASSUME NEW v \in Workers PROVE FlowLocksOf(v)'
  BY DEF FlowLocks
<1>1. lock[t] = w /\ open[w] = W!Closed
  BY DEF FlowLocks, FlowLocksOf, FlowHolds
<1>2. CASE v = w
  BY <1>1, <1>2 DEF FlowTypeOK, FlowLocksOf
<1>3. CASE v # w
  <2>1. open'[v] = open[v] /\ pc'[v] = pc[v] /\ sTask'[v] = sTask[v] /\ lock[t] # v
    BY <1>1, <1>3 DEF FlowTypeOK
  <2> QED
    BY <2>1, FlowOthersLemma DEF FlowLocks
<1> QED
  BY <1>2, <1>3

\* get() gives its row to the worker: it was not given out in this hour.
LEMMA FlowPickIInv == ASSUME FlowIInv, NEW w \in Workers, W!Pick(w) PROVE FlowIInv'
<1> USE DEF FlowIInv
<1>0. PICK t \in Tasks : t = sTask[w]
  BY DEF FlowLocks, FlowLocksOf, FlowHolds, W!Pick
<1>1. /\ W!Where(t) /\ pc[w] = "selected" /\ lock' = [lock EXCEPT ![t] = W!Nobody]
      /\ name' = name /\ sStrands' = sStrands /\ open' = open /\ faults' = faults
  BY <1>0 DEF FlowLocks, FlowLocksOf, FlowHolds, W!Pick
<1>2. \A u \in Tasks \ {t} : lock'[u] = lock[u]
  BY <1>1 DEF FlowTypeOK
<1>3. CASE /\ W!Started(w, t)
           /\ pc' = [pc EXCEPT ![w] = "running"]
           /\ granted' = [granted EXCEPT ![t] = @ \cup {w}]
           /\ abandoned' = abandoned \ {t}
           /\ UNCHANGED sTask
  <2>1. FlowTypeOK'
    <3>1. granted' \in [Tasks -> SUBSET Workers]
      BY <1>3 DEF FlowTypeOK
    <3> QED
      BY <1>1, <1>3, <3>1, FlowStartedLemma DEF FlowTypeOK
  <2>2. FlowLocks'
    <3>1. \A u \in Tasks \ {t} : W!Where(u)' <=> W!Where(u)
      BY <1>3, FlowStartedLemma
    <3> QED
      BY <1>0, <1>1, <1>2, <1>3, <3>1, FlowReleaseLemma
  <2>3. FlowOnce'
    <3> SUFFICES ASSUME NEW u \in Tasks
                 PROVE  /\ granted'[u] = {} \/ \E v \in Workers : granted'[u] = {v}
                        /\ W!Where(u)' => granted'[u] = {}
      BY DEF FlowOnce
    <3>1. CASE u = t
      <4>1. granted[t] = {}
        BY <1>1 DEF FlowOnce
      <4>2. granted'[t] = {w}
        BY <1>3, <4>1 DEF FlowTypeOK
      <4>3. ~W!Where(t)'
        BY <1>3, FlowStartedLemma
      <4> QED
        BY <3>1, <4>2, <4>3
    <3>2. CASE u # t
      <4>1. granted'[u] = granted[u] /\ (W!Where(u)' <=> W!Where(u))
        BY <1>3, <3>2, FlowStartedLemma DEF FlowTypeOK
      <4> QED
        BY <4>1 DEF FlowOnce
    <3> QED
      BY <3>1, <3>2
  <2> QED
    BY <2>1, <2>2, <2>3
<1>4. CASE W!Leave(w) /\ UNCHANGED <<W!rows, W!hist>>
  <2>1. FlowTypeOK'
    BY <1>1, <1>4 DEF FlowTypeOK, W!Leave, W!rows, W!hist
  <2>2. \A u \in Tasks : W!Where(u)' <=> W!Where(u)
    BY <1>4 DEF W!Where, W!rows
  <2>3. FlowLocks'
    BY <1>0, <1>1, <1>2, <1>4, <2>2, FlowReleaseLemma DEF W!Leave
  <2>4. FlowOnce'
    BY <1>4, <2>2 DEF FlowOnce, W!hist
  <2> QED
    BY <2>1, <2>3, <2>4
<1> QED
  BY <1>0, <1>3, <1>4 DEF W!Pick

\* An exception hands the row from get() to the transaction it leaves open.
LEMMA FlowGetThrowsIInv == ASSUME FlowIInv, NEW w \in Workers, W!GetThrows(w) PROVE FlowIInv'
<1> USE DEF FlowIInv
<1>0. PICK t \in Tasks : t = sTask[w]
  BY DEF FlowLocks, FlowLocksOf, FlowHolds, W!GetThrows
<1>1. PICK u \in BOOLEAN : open' = [open EXCEPT ![w] = [task |-> t, updated |-> u]]
  <2>1. PICK u \in {FALSE, W!RowCount(w, sTask[w])} :
          open' = [open EXCEPT ![w] = [task |-> sTask[w], updated |-> u]]
    BY DEF W!GetThrows
  <2>2. u \in BOOLEAN
    BY <2>1, Zenon DEF W!RowCount
  <2> QED
    BY <1>0, <2>1, <2>2
<1>2. /\ pc[w] = "selected" /\ W!Leave(w) /\ faults' \in 0..MaxFaults
      /\ name' = name /\ W!rows' = W!rows /\ lock' = lock /\ sStrands' = sStrands /\ W!hist' = W!hist
  BY TasksAssumption DEF W!GetThrows, W!Fault, FlowTypeOK
<1>3. FlowTypeOK'
  <2>1. [task |-> t, updated |-> u] \in Transactions
    BY Zenon DEF Transactions
  <2>2. open' \in [Workers -> Transactions]
    BY <1>1, <2>1 DEF FlowTypeOK
  <2> QED
    BY <1>2, <2>2 DEF FlowTypeOK, W!Leave, W!rows, W!hist
<1>4. \A x \in Tasks : W!Where(x)' <=> W!Where(x)
  BY <1>2 DEF W!Where, W!rows
<1>5. FlowLocks'
  <2> SUFFICES ASSUME NEW v \in Workers PROVE FlowLocksOf(v)'
    BY DEF FlowLocks
  <2>1. lock[t] = w /\ W!Where(t)
    BY <1>0, <1>2 DEF FlowLocks, FlowLocksOf, FlowHolds
  <2>2. CASE v = w
    <3>1. open'[w].task = t /\ pc'[w] = "idle"
      BY <1>1, <1>2 DEF FlowTypeOK, W!Leave
    <3> QED
      BY <1>2, <1>4, <2>1, <2>2, <3>1 DEF FlowLocksOf, FlowHolds
  <2>3. CASE v # w
    <3>1. open'[v] = open[v] /\ pc'[v] = pc[v] /\ sTask'[v] = sTask[v] /\ lock[t] # v
      BY <1>1, <1>2, <2>1, <2>3 DEF FlowTypeOK, W!Leave
    <3> QED
      BY <1>2, <1>4, <3>1, FlowOthersLemma DEF FlowLocks
  <2> QED
    BY <2>2, <2>3
<1>6. FlowOnce'
  BY <1>2, <1>4 DEF FlowOnce, W!hist
<1> QED
  BY <1>3, <1>5, <1>6

\* A lost connection rolls back, or it committed and nobody has the task.
LEMMA FlowConnectionLostIInv == ASSUME FlowIInv, NEW w \in Workers, W!ConnectionLost(w) PROVE FlowIInv'
<1> USE DEF FlowIInv
<1>0. PICK t \in Tasks : t = sTask[w]
  BY DEF FlowLocks, FlowLocksOf, FlowHolds, W!ConnectionLost
<1>1. /\ pc[w] = "selected" /\ W!Leave(w) /\ faults' \in 0..MaxFaults
      /\ lock' = [lock EXCEPT ![t] = W!Nobody]
      /\ name' = name /\ sStrands' = sStrands /\ open' = open /\ granted' = granted
  BY <1>0, TasksAssumption DEF W!ConnectionLost, W!Fault, FlowTypeOK
<1>2. \/ W!Started(w, t) /\ abandoned' = abandoned \cup {t}
      \/ UNCHANGED <<W!rows, abandoned>>
  BY <1>0 DEF W!ConnectionLost
<1>3. FlowTypeOK'
  <2>1. CASE W!Started(w, t) /\ abandoned' = abandoned \cup {t}
    BY <1>1, <2>1, FlowStartedLemma DEF FlowTypeOK, W!Leave
  <2>2. CASE UNCHANGED <<W!rows, abandoned>>
    BY <1>1, <2>2 DEF FlowTypeOK, W!Leave, W!rows
  <2> QED
    BY <1>2, <2>1, <2>2
<1>4. /\ \A u \in Tasks \ {t} : lock'[u] = lock[u] /\ (W!Where(u)' <=> W!Where(u))
      /\ W!Where(t)' => W!Where(t)
  <2>1. CASE W!Started(w, t)
    BY <1>1, <2>1, FlowStartedLemma DEF FlowTypeOK
  <2>2. CASE UNCHANGED <<W!rows, abandoned>>
    BY <1>1, <2>2 DEF FlowTypeOK, W!Where, W!rows
  <2> QED
    BY <1>2, <2>1, <2>2
<1>5. FlowLocks'
  BY <1>0, <1>1, <1>4, FlowReleaseLemma DEF W!Leave
<1>6. FlowOnce'
  BY <1>1, <1>4 DEF FlowOnce
<1> QED
  BY <1>3, <1>5, <1>6

\* update() and done() change a row that nobody has locked, and make none to
\* be given out.
LEMMA FlowRowsIInv ==
  ASSUME FlowIInv, NEW w \in Workers, W!Update(w) \/ W!Done(w)
  PROVE  FlowIInv'
<1> USE DEF FlowIInv
<1>0. PICK t \in Tasks : t = sTask[w]
  BY DEF FlowLocks, FlowLocksOf, W!Update, W!Done
<1>1. /\ lock[t] = W!Nobody /\ pc[w] = "running" /\ open[w] = W!Closed
      /\ name' = name /\ strand' = strand /\ worker' = worker /\ lock' = lock
      /\ sStrands' = sStrands /\ open' = open /\ faults' = faults
      /\ granted' = granted /\ abandoned' = abandoned
  BY <1>0 DEF FlowLocks, FlowLocksOf, W!Update, W!Done, W!hist
<1>2. /\ stale' \in [Tasks -> BOOLEAN] /\ ~stale'[t]
      /\ \A u \in Tasks \ {t} : stale'[u] = stale[u]
  <2>1. stale' = [stale EXCEPT ![t] = FALSE]
    BY <1>0 DEF W!Update, W!Done
  <2> QED
    BY <2>1, Zenon DEF FlowTypeOK
<1>3. /\ status' \in [Tasks -> Statuses]
      /\ \A u \in Tasks \ {t} : status'[u] = status[u]
      /\ status'[t] = "new" => status[t] = "new"
  BY <1>0 DEF FlowTypeOK, W!Update, W!Done, Statuses
<1>4. \/ pc' = pc /\ sTask' = sTask
      \/ W!Leave(w)
  BY DEF W!Update, W!Done
<1>5. FlowTypeOK'
  <2>1. pc' \in [Workers -> {"idle", "strands", "selected", "running"}]
        /\ sTask' \in [Workers -> Tasks \cup {W!NoTask}]
    BY <1>4 DEF FlowTypeOK, W!Leave
  <2> QED
    BY <1>1, <1>2, <1>3, <2>1 DEF FlowTypeOK
<1>6. \A u \in Tasks \ {t} : W!Where(u)' <=> W!Where(u)
  BY <1>2, <1>3, Zenon DEF W!Where
<1>7. W!Where(t)' => W!Where(t)
  BY <1>2, <1>3 DEF W!Where
<1>8. FlowLocks'
  <2> SUFFICES ASSUME NEW v \in Workers PROVE FlowLocksOf(v)'
    BY DEF FlowLocks
  <2>1. CASE v = w
    BY <1>0, <1>1, <1>4, <2>1 DEF FlowTypeOK, FlowLocksOf, W!Leave
  <2>2. CASE v # w
    <3>1. pc'[v] = pc[v] /\ sTask'[v] = sTask[v] /\ lock[t] # v
      BY <1>1, <1>4, <2>2, FlowWorkers DEF FlowTypeOK, W!Leave
    <3> QED
      BY <1>1, <1>6, <3>1, FlowOthersLemma DEF FlowLocks
  <2> QED
    BY <2>1, <2>2
<1>9. FlowOnce'
  BY <1>1, <1>6, <1>7 DEF FlowOnce
<1> QED
  BY <1>5, <1>8, <1>9

\* A crash of a worker that runs a task leaves the table alone.
LEMMA FlowCrashIInv == ASSUME FlowIInv, NEW w \in Workers, W!Crash(w) PROVE FlowIInv'
<1> USE DEF FlowIInv
<1>1. open[w] = W!Closed /\ sTask[w] \in Tasks
  BY DEF FlowLocks, FlowLocksOf, W!Crash
<1>2. FlowTypeOK'
  <2>1. faults' \in 0..MaxFaults
    BY TasksAssumption DEF FlowTypeOK, W!Crash, W!Fault
  <2>2. abandoned' \in SUBSET Tasks
    BY <1>1 DEF FlowTypeOK, W!Crash
  <2> QED
    BY <2>1, <2>2 DEF FlowTypeOK, W!Crash, W!Leave, W!rows
<1>3. \A u \in Tasks : W!Where(u)' <=> W!Where(u)
  BY DEF W!Where, W!Crash, W!rows
<1>4. FlowLocks'
  BY <1>1, <1>3 DEF FlowTypeOK, FlowLocks, FlowLocksOf, FlowHolds, W!Crash, W!Leave
<1>5. FlowOnce'
  BY <1>3 DEF FlowOnce, W!Crash
<1> QED
  BY <1>2, <1>4, <1>5

\* An hour makes a row resumable and starts the count of its workers anew.
LEMMA FlowHourIInv == ASSUME FlowIInv, NEW t \in Tasks, W!Hour(t) PROVE FlowIInv'
<1> USE DEF FlowIInv
<1>1. stale' \in [Tasks -> BOOLEAN] /\ \A u \in Tasks \ {t} : stale'[u] = stale[u]
  BY Zenon DEF FlowTypeOK, W!Hour
<1>2. /\ granted' \in [Tasks -> SUBSET Workers] /\ granted'[t] = {}
      /\ \A u \in Tasks \ {t} : granted'[u] = granted[u]
  BY DEF FlowTypeOK, W!Hour
<1>3. FlowTypeOK'
  BY <1>1, <1>2 DEF FlowTypeOK, W!Hour
<1>4. \A u \in Tasks \ {t} : W!Where(u)' <=> W!Where(u)
  BY <1>1, Zenon DEF W!Where, W!Hour
<1>5. FlowLocks'
  <2> SUFFICES ASSUME NEW v \in Workers PROVE FlowLocksOf(v)'
    BY DEF FlowLocks
  <2>1. /\ pc'[v] = pc[v] /\ sTask'[v] = sTask[v] /\ open'[v] = open[v]
        /\ lock[t] # v /\ lock' = lock
    BY FlowWorkers DEF W!Hour
  <2> QED
    BY <1>4, <2>1, FlowOthersLemma DEF FlowLocks
<1>6. FlowOnce'
  BY <1>2, <1>4 DEF FlowOnce
<1> QED
  BY <1>3, <1>5, <1>6

\* The inductive invariant holds in every reachable state.
THEOREM FlowInvariant == W!Spec => []FlowIInv
<1>1. FlowIInv /\ [W!Next]_(W!vars) => FlowIInv'
  <2> SUFFICES ASSUME FlowIInv, [W!Next]_(W!vars) PROVE FlowIInv'
    OBVIOUS
  <2>1. CASE UNCHANGED W!vars
    BY <2>1 DEF W!vars, W!rows, W!hist, FlowIInv, FlowTypeOK, FlowLocks, FlowLocksOf, FlowHolds, FlowOnce, W!Where
  <2>2. ASSUME NEW w \in Workers, W!Get(w) \/ W!GetThrows(w) \/ W!ConnectionLost(w)
        PROVE  FlowIInv'
    BY <2>2, FlowBeginIInv, FlowReadStrandsIInv, FlowSelectIInv, FlowPickIInv, FlowGetThrowsIInv,
       FlowConnectionLostIInv DEF W!Get
  <2>3. ASSUME NEW w \in Workers, W!Update(w) \/ W!Done(w) \/ W!Crash(w) PROVE FlowIInv'
    BY <2>3, FlowRowsIInv, FlowCrashIInv
  <2>4. ASSUME NEW t \in Tasks, W!Hour(t) PROVE FlowIInv'
    BY <2>4, FlowHourIInv
  <2> QED
    BY <2>1, <2>2, <2>3, <2>4 DEF W!Next
<1> QED
  BY <1>1, FlowInitIInv, PTL DEF W!Spec

-----------------------------------------------------------------------------
\* A task is given to one worker an hour, also after a get() that threw and left
\* its transaction open, or lost its connection before or after the COMMIT
\* (Workflow::Manager::get).
THEOREM OncePerHourHolds == W!Spec => []OncePerHour
<1>1. FlowIInv => OncePerHour
  <2> SUFFICES ASSUME FlowIInv, NEW t \in Tasks PROVE Cardinality(granted[t]) <= 1
    BY DEF OncePerHour
  <2>1. granted[t] = {} \/ \E w \in Workers : granted[t] = {w}
    BY DEF FlowIInv, FlowOnce
  <2>2. CASE granted[t] = {}
    BY <2>2, FS_EmptySet
  <2>3. ASSUME NEW w \in Workers, granted[t] = {w} PROVE Cardinality(granted[t]) <= 1
    <3>1. Cardinality({w}) = 1
      BY FS_Singleton
    <3> QED
      BY <2>3, <3>1
  <2> QED
    BY <2>1, <2>2, <2>3
<1> QED
  BY <1>1, FlowInvariant, PTL

\* No step takes a task out of 'error', or out of 'done' to anything but
\* 'error': what get() updates, at once or when the transaction it left open is
\* committed much later, was locked all the time and is not finished.
THEOREM FlowFinishedKept == W!Spec => [][FinishedKept]_(W!vars)
<1>1. ASSUME FlowIInv, [W!Next]_(W!vars), NEW t \in Tasks
      PROVE  /\ status[t] = "error" => status'[t] = "error"
             /\ status[t] = "done" => status'[t] \in {"done", "error"}
  <2>1. ASSUME NEW w \in Workers, NEW u \in Tasks, W!Where(u),
               W!Started(w, u) \/ UNCHANGED W!rows
        PROVE  status'[t] = status[t] \/ W!Where(t)
    BY <1>1, <2>1, FlowStartedLemma DEF FlowIInv, W!rows
  <2>2. ASSUME NEW w \in Workers, W!Pick(w) \/ W!ConnectionLost(w)
        PROVE  status'[t] = status[t] \/ W!Where(t)
    <3>1. PICK u \in Tasks : u = sTask[w] /\ W!Where(u)
      BY <1>1, <2>2 DEF FlowIInv, FlowLocks, FlowLocksOf, FlowHolds, W!Pick, W!ConnectionLost
    <3>2. W!Started(w, u) \/ UNCHANGED W!rows
      BY <2>2, <3>1 DEF W!Pick, W!ConnectionLost
    <3> QED
      BY <2>1, <3>1, <3>2
  <2>3. ASSUME NEW w \in Workers, W!Begin(w)
        PROVE  status'[t] = status[t] \/ W!Where(t)
    <3>1. PICK u \in Tasks : u = open[w].task /\ W!Where(u)
      BY <1>1, <2>3 DEF FlowIInv, FlowLocks, FlowLocksOf, FlowHolds, W!Begin
    <3>2. W!Started(w, u) \/ UNCHANGED W!rows
      BY <2>3, <3>1 DEF W!Begin
    <3> QED
      BY <2>1, <3>1, <3>2
  <2>4. ASSUME NEW w \in Workers, W!Done(w)
        PROVE  /\ status[t] = "error" => status'[t] = "error"
               /\ status[t] = "done" => status'[t] \in {"done", "error"}
    BY <1>1, <2>4 DEF W!Done, W!DoneWhere, FlowIInv, FlowTypeOK
  <2>5. ASSUME \/ UNCHANGED W!vars
               \/ \E w \in Workers : \/ W!ReadStrands(w) \/ W!Select(w) \/ W!GetThrows(w)
                                      \/ W!Update(w) \/ W!Crash(w)
               \/ \E u \in Tasks : W!Hour(u)
        PROVE  status' = status
    BY <2>5 DEF W!vars, W!rows, W!ReadStrands, W!Select, W!GetThrows, W!Update, W!Crash, W!Hour
  <2> QED
    BY <1>1, <2>2, <2>3, <2>4, <2>5 DEF W!Next, W!Get, W!Where
<1>2. FlowIInv /\ [W!Next]_(W!vars) => [FinishedKept]_(W!vars)
  BY <1>1 DEF FinishedKept
<1> QED
  BY <1>2, FlowInvariant, PTL DEF W!Spec

=============================================================================

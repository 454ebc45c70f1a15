----------------------------- MODULE SafeQueue -----------------------------
(***************************************************************************)
(* Threads::SafeQueue and Threads::SafeQueueThread (threads/SafeQueue.hpp) *)
(* started in, and stopped by, a Threads::Group (threads/Group.hpp).       *)
(*                                                                         *)
(* A step is one critical section of a mutex or one access to an atomic.   *)
(* The k-th call of insert() brings item k, so m_Counter is also the name  *)
(* of the last item.  The sections under SafeQueueThread::m_Mutex only     *)
(* read (the deadline is written before m_Stop, and nobody looks at it     *)
(* before m_Stop), so holding that mutex is not part of the state.         *)
(***************************************************************************)
EXTENDS Integers, Sequences, FiniteSets

CONSTANTS
  Workers,      \* the threads Group::start creates for the queue
  MaxItems,     \* bound: calls of insert()
  MaxThrows     \* bound: calls of the handler that throw

ASSUME WorkersAssumption == IsFiniteSet(Workers) /\ Workers # {}
ASSUME BoundsAssumption == MaxItems \in Nat /\ MaxThrows \in Nat

VARIABLES
  params,       \* SafeQueueThread::Params: retry, and whether linger > 0
  m_List,       \* the items waiting, oldest first
  m_Counter,    \* items ever inserted
  m_Stop,
  m_Done,       \* items the workers are finished with
  m_Deadline,   \* "none", "armed" or "expired"
  pc,           \* where each worker is
  caller,       \* who called SafeQueueThread::exiting(): the loop or handle()
  sItem,        \* the item in each worker's hand, 0 when none
  seen,         \* the first of the two values idle() compares, as read
  stopper,      \* Group::wait(): "up", "deadline", "stopped", "joined"
  throws,       \* how often the handler has thrown
  outcome,      \* history: how item k ended: "ok", "failed", "dropped"
  atStop        \* history: m_Counter when m_Stop was set

vars == <<params, m_List, m_Counter, m_Stop, m_Done, m_Deadline, pc, caller,
          sItem, seen, stopper, throws, outcome, atStop>>

queueVars == <<m_List, m_Counter, m_Stop>>
stopVars  == <<params, m_Deadline, stopper, atStop>>

Items == 1..MaxItems
Unread == [of |-> "none", value |-> 0]
Readings == [of : {"none", "done", "count"}, value : 0..MaxItems]

Init ==
  /\ params \in [retry : BOOLEAN, linger : BOOLEAN]
  /\ m_List = <<>>
  /\ m_Counter = 0
  /\ m_Stop = FALSE
  /\ m_Done = 0
  /\ m_Deadline = "none"
  /\ pc = [w \in Workers |-> "exiting"]
  /\ caller = [w \in Workers |-> "loop"]
  /\ sItem = [w \in Workers |-> 0]
  /\ seen = [w \in Workers |-> Unread]
  /\ stopper = "up"
  /\ throws = 0
  /\ outcome = [k \in Items |-> "none"]
  /\ atStop = 0

-----------------------------------------------------------------------------
(* The condition variable.  A notified thread still has to take the mutex, *)
(* so it becomes "awake" and looks at the list later.                      *)

Blocked(p) == {w \in Workers : p[w] = "blocked"}

\* notify_one: some blocked worker, or nobody.
WakeupOne(p) ==
  IF Blocked(p) = {} THEN {p}
  ELSE {[p EXCEPT ![w] = "awake"] : w \in Blocked(p)}

WakeupAll(p) == [w \in Workers |-> IF p[w] = "blocked" THEN "awake" ELSE p[w]]

\* Mutant of Timeout: wait() instead of wait_for().
TimeoutNever(w) == pc[w] = "blocked" /\ FALSE /\ UNCHANGED vars

\* wait_for gives up after 500 ms.
Timeout(w) ==
  /\ pc[w] = "blocked"
  /\ pc' = [pc EXCEPT ![w] = "awake"]
  /\ UNCHANGED <<queueVars, stopVars, m_Done, caller, sItem, seen, throws, outcome>>

-----------------------------------------------------------------------------
(* The producers' side: insert() from any thread, until the Group joined.  *)

Insert ==
  /\ m_Counter < MaxItems
  /\ stopper # "joined"
  /\ m_List' = Append(m_List, m_Counter + 1)
  /\ m_Counter' = m_Counter + 1
  /\ pc' \in WakeupOne(pc)
  /\ UNCHANGED <<m_Stop, stopVars, m_Done, caller, sItem, seen, throws, outcome>>

-----------------------------------------------------------------------------
(* SafeQueueThread::exiting(), called by the worker loop and by handle().  *)

\* exiting() returned false: wait for an item, or call the handler.
Proceed(w) ==
  /\ pc' = [pc EXCEPT ![w] = IF caller[w] = "loop" THEN "wait" ELSE "run"]
  /\ UNCHANGED outcome

\* exiting() returned true: the thread ends, or handle() gives the item up.
Leave(w) ==
  IF caller[w] = "loop"
  THEN /\ pc' = [pc EXCEPT ![w] = "exit"]
       /\ UNCHANGED outcome
  ELSE /\ pc' = [pc EXCEPT ![w] = "finish"]
       /\ outcome' = [outcome EXCEPT ![sItem[w]] = "dropped"]

\* m_Queue.exiting()
CheckStop(w) ==
  /\ pc[w] = "exiting"
  /\ \/ /\ ~m_Stop
        /\ Proceed(w)
     \/ /\ m_Stop
        /\ pc' = [pc EXCEPT ![w] = "deadline"]
        /\ UNCHANGED outcome
  /\ UNCHANGED <<queueVars, stopVars, m_Done, caller, sItem, seen, throws>>

\* !m_Deadline, else the first operand of the comparison in idle(): C++ does
\* not say which of the two is read first.
CheckDeadline(w) ==
  /\ pc[w] = "deadline"
  /\ \/ /\ m_Deadline = "none"
        /\ Leave(w)
        /\ UNCHANGED seen
     \/ /\ m_Deadline # "none"
        /\ pc' = [pc EXCEPT ![w] = "idle"]
        /\ \E r \in {[of |-> "done", value |-> m_Done], [of |-> "count", value |-> m_Counter]} :
             seen' = [seen EXCEPT ![w] = r]
        /\ UNCHANGED outcome
  /\ UNCHANGED <<queueVars, stopVars, m_Done, caller, sItem, throws>>

\* Mutant of IdleNow: the queue is empty, items in hand forgotten.
IdleByList(w) == m_List = <<>>

\* The second operand of idle(), and m_Deadline->expired().
IdleNow(w) ==
  seen[w].value = IF seen[w].of = "done" THEN m_Counter ELSE m_Done

CheckIdle(w) ==
  /\ pc[w] = "idle"
  /\ IF IdleNow(w) \/ m_Deadline = "expired" THEN Leave(w) ELSE Proceed(w)
  /\ seen' = [seen EXCEPT ![w] = Unread]
  /\ UNCHANGED <<queueVars, stopVars, m_Done, caller, sItem, throws>>

-----------------------------------------------------------------------------
(* SafeQueue::wait() and the rest of the worker.                           *)

\* Mutant of Take: the head is copied and not popped.
TakeWithoutPop(w) ==
  /\ m_List # <<>>
  /\ sItem' = [sItem EXCEPT ![w] = Head(m_List)]
  /\ m_List' = m_List
  /\ caller' = [caller EXCEPT ![w] = "handle"]
  /\ pc' \in WakeupOne([pc EXCEPT ![w] = "exiting"])

\* Pop the head; with more left, wake another worker.
Take(w) ==
  /\ m_List # <<>>
  /\ sItem' = [sItem EXCEPT ![w] = Head(m_List)]
  /\ m_List' = Tail(m_List)
  /\ caller' = [caller EXCEPT ![w] = "handle"]
  /\ LET p == [pc EXCEPT ![w] = "exiting"]
     IN  pc' \in IF Tail(m_List) = <<>> THEN {p} ELSE WakeupOne(p)

Wait(w) ==
  /\ pc[w] = "wait"
  /\ \/ Take(w)
     \/ /\ m_List = <<>>
        /\ pc' = [pc EXCEPT ![w] = "blocked"]
        /\ UNCHANGED <<m_List, sItem, caller>>
  /\ UNCHANGED <<m_Counter, m_Stop, stopVars, m_Done, seen, throws, outcome>>

\* wait() after wait_for: with nothing to take it returns false, and the loop
\* starts over.
Awake(w) ==
  /\ pc[w] = "awake"
  /\ \/ Take(w)
     \/ /\ m_List = <<>>
        /\ pc' = [pc EXCEPT ![w] = "exiting"]
        /\ UNCHANGED <<m_List, sItem, caller>>
  /\ UNCHANGED <<m_Counter, m_Stop, stopVars, m_Done, seen, throws, outcome>>

\* m_Handler returns.
HandlerReturns(w) ==
  /\ pc[w] = "run"
  /\ outcome' = [outcome EXCEPT ![sItem[w]] = "ok"]
  /\ pc' = [pc EXCEPT ![w] = "finish"]
  /\ UNCHANGED <<queueVars, stopVars, m_Done, caller, sItem, seen, throws>>

\* Mutant of HandlerThrows: the exception leaves handle() and ends the thread.
HandlerThrowsOut(w) ==
  /\ pc[w] = "run"
  /\ throws < MaxThrows
  /\ throws' = throws + 1
  /\ pc' = [pc EXCEPT ![w] = "exit"]
  /\ UNCHANGED <<queueVars, stopVars, m_Done, caller, sItem, seen, outcome>>

\* m_Handler throws: without retry the item is over, else it is tried again
\* after the delay, unless exiting() has become true.
HandlerThrows(w) ==
  /\ pc[w] = "run"
  /\ throws < MaxThrows
  /\ throws' = throws + 1
  /\ \/ /\ params.retry
        /\ pc' = [pc EXCEPT ![w] = "exiting"]
        /\ UNCHANGED outcome
     \/ /\ ~params.retry
        /\ pc' = [pc EXCEPT ![w] = "finish"]
        /\ outcome' = [outcome EXCEPT ![sItem[w]] = "failed"]
  /\ UNCHANGED <<queueVars, stopVars, m_Done, caller, sItem, seen>>

\* Mutants of Finish: only items the handler accepted are counted, or a failed
\* one is counted by the catch block too.
FinishOnlyOk(w) ==
  /\ pc[w] = "finish"
  /\ m_Done' = m_Done + IF outcome[sItem[w]] = "ok" THEN 1 ELSE 0
  /\ pc' = [pc EXCEPT ![w] = "exiting"]
  /\ caller' = [caller EXCEPT ![w] = "loop"]
  /\ sItem' = [sItem EXCEPT ![w] = 0]
  /\ UNCHANGED <<queueVars, stopVars, seen, throws, outcome>>

FinishTwice(w) ==
  /\ pc[w] = "finish"
  /\ m_Done' = m_Done + IF outcome[sItem[w]] = "failed" THEN 2 ELSE 1
  /\ pc' = [pc EXCEPT ![w] = "exiting"]
  /\ caller' = [caller EXCEPT ![w] = "loop"]
  /\ sItem' = [sItem EXCEPT ![w] = 0]
  /\ UNCHANGED <<queueVars, stopVars, seen, throws, outcome>>

\* m_Done++
Finish(w) ==
  /\ pc[w] = "finish"
  /\ m_Done' = m_Done + 1
  /\ pc' = [pc EXCEPT ![w] = "exiting"]
  /\ caller' = [caller EXCEPT ![w] = "loop"]
  /\ sItem' = [sItem EXCEPT ![w] = 0]
  /\ UNCHANGED <<queueVars, stopVars, seen, throws, outcome>>

Worker(w) ==
  \/ CheckStop(w) \/ CheckDeadline(w) \/ CheckIdle(w)
  \/ Wait(w) \/ Awake(w)
  \/ HandlerReturns(w) \/ HandlerThrows(w) \/ Finish(w)

-----------------------------------------------------------------------------
(* Group::wait() runs the at_stop callback, then joins the threads.        *)

AtStopDeadline ==
  /\ stopper = "up"
  /\ stopper' = "deadline"
  /\ m_Deadline' = IF params.linger THEN "armed" ELSE "none"
  /\ UNCHANGED <<params, queueVars, m_Done, pc, caller, sItem, seen, throws, outcome, atStop>>

\* SafeQueue::stop()
Stop ==
  /\ stopper = "deadline"
  /\ stopper' = "stopped"
  /\ m_Stop' = TRUE
  /\ atStop' = m_Counter
  /\ pc' = WakeupAll(pc)
  /\ UNCHANGED <<params, m_List, m_Counter, m_Done, m_Deadline, caller, sItem, seen, throws, outcome>>

Join ==
  /\ stopper = "stopped"
  /\ \A w \in Workers : pc[w] = "exit"
  /\ stopper' = "joined"
  /\ UNCHANGED <<params, queueVars, m_Done, m_Deadline, pc, caller, sItem, seen, throws, outcome, atStop>>

\* The linger seconds pass.
Expire ==
  /\ m_Deadline = "armed"
  /\ m_Deadline' = "expired"
  /\ UNCHANGED <<params, queueVars, m_Done, pc, caller, sItem, seen, stopper, throws, outcome, atStop>>

Joined == stopper = "joined" /\ UNCHANGED vars

Next ==
  \/ Insert
  \/ \E w \in Workers : (Worker(w) \/ Timeout(w))
  \/ AtStopDeadline \/ Stop \/ Join \/ Expire
  \/ Joined

(* Every thread runs, a timed wait ends, time passes; nobody has to insert *)
(* or to begin the shutdown, and no handler has to throw.                  *)
Fairness ==
  /\ \A w \in Workers : WF_vars(Worker(w)) /\ WF_vars(Timeout(w))
  /\ WF_vars(Stop) /\ WF_vars(Join) /\ WF_vars(Expire)

Spec == Init /\ [][Next]_vars
FairSpec == Spec /\ Fairness

-----------------------------------------------------------------------------
(* Properties.                                                             *)

PCs == {"exiting", "deadline", "idle", "wait", "blocked", "awake", "run", "finish", "exit"}

\* Every variable has the type its C++ counterpart has; m_Done never passes
\* m_Counter, so the unsigned difference in size() does not wrap.
TypeOK ==
  /\ params \in [retry : BOOLEAN, linger : BOOLEAN]
  /\ m_List \in Seq(Items)
  /\ m_Counter \in 0..MaxItems
  /\ m_Stop \in BOOLEAN
  /\ m_Done \in 0..m_Counter
  /\ m_Deadline \in {"none", "armed", "expired"}
  /\ pc \in [Workers -> PCs]
  /\ caller \in [Workers -> {"loop", "handle"}]
  /\ sItem \in [Workers -> 0..MaxItems]
  /\ seen \in [Workers -> Readings]
  /\ stopper \in {"up", "deadline", "stopped", "joined"}
  /\ throws \in 0..MaxThrows
  /\ outcome \in [Items -> {"none", "ok", "failed", "dropped"}]
  /\ atStop \in 0..MaxItems

\* The workers that have an item in hand.
Holding == {w \in Workers : sItem[w] # 0}

\* Every inserted item is in exactly one place: queued, in one worker's hand
\* or counted in m_Done.  size() and idle() (SafeQueue.hpp:213-214) rest on it.
Accounting == m_Counter = Len(m_List) + Cardinality(Holding) + m_Done

\* No two workers hold the same item, and the items still queued are exactly
\* the youngest ones: the pop in SafeQueue::wait hands each item out once, in
\* insertion order, whichever worker comes first.
OneOwner ==
  /\ \A v, w \in Holding : sItem[v] = sItem[w] => v = w
  /\ \A w \in Holding : sItem[w] <= m_Counter - Len(m_List)
  /\ \A i \in 1..Len(m_List) : m_List[i] = m_Counter - Len(m_List) + i

\* The linger promise (SafeQueue.hpp:140, "delay exit if have pending tasks"):
\* while the deadline has not expired, and nothing was inserted after stop,
\* no item is given up and no worker ends while an item is unfinished,
\* whatever the order in which idle() reads its two counters.
LingerHolds ==
  m_Deadline = "armed" /\ m_Counter = atStop =>
    /\ \A k \in Items : outcome[k] # "dropped"
    /\ (\E w \in Workers : pc[w] = "exit") => m_Done = m_Counter

\* After the shutdown began, every worker sees it and the Group's join ends,
\* also when the notification of stop() fell between a worker's look at m_Stop
\* and its wait (the 500 ms of wait_for are what saves that worker).
Termination == (stopper # "up") ~> (stopper = "joined")

\* An inserted item is handled, or the queue stops: no wakeup of a worker is
\* lost between insert(), wait() and the notify in wait().
ItemsAreServed == \A k \in Items : (m_Counter >= k) ~> (outcome[k] # "none" \/ m_Stop)

=============================================================================

------------------------ MODULE OrderedWorkerProofs ------------------------
(***************************************************************************)
(* OrderedWorker implements OrderedPipe, for any number of workers and     *)
(* tasks and for handlers that throw as often as they like.                *)
(*                                                                         *)
(* That the serials leave in order is not inductive: it rests on where a   *)
(* serial can be.  m_Worker's list is the unbroken run of serials that     *)
(* nobody has taken (Backlog), each serial below it is in one place at     *)
(* most (OnePlace), and what has left or was lost to an exception is in no *)
(* place at all (Turn, Lost).                                              *)
(***************************************************************************)
EXTENDS OrderedWorker, TLAPS

Types ==
  /\ workQ \in Seq(Nat)
  /\ joinQ \subseteq Nat
  /\ m_Serial \in 0..Size
  /\ m_NextJoin \in Nat
  /\ pc \in [Threads -> {"loop", "wait", "taken", "run", "exit"}]
  /\ item \in [Threads -> Nat \cup {NoTask}]
  /\ output \in Seq(Nat)
  /\ failed \subseteq Nat

\* The serials below FirstQueued have been taken from m_Worker.
FirstQueued == m_Serial - Len(workQ)

\* m_Worker's list holds the serials from FirstQueued on, in order.
Backlog ==
  /\ Len(workQ) <= m_Serial
  /\ \A i \in 1..Len(workQ) : workQ[i] = FirstQueued + i - 1

\* A thread has a task in hand exactly inside handle(), and no serial is in
\* two places.
OnePlace ==
  /\ \A t \in Threads : item[t] # NoTask <=> pc[t] \in {"taken", "run"}
  /\ \A t \in Threads : item[t] # NoTask => item[t] < FirstQueued /\ item[t] \notin joinQ
  /\ \A t, u \in Threads : t # u /\ item[t] # NoTask => item[t] # item[u]
  /\ \A k \in joinQ : k < FirstQueued

\* output holds 0, 1, 2, ...; it is ahead of m_NextJoin once the joiner threw.
Turn ==
  /\ Len(output) \in {m_NextJoin, m_NextJoin + 1}
  /\ Len(output) <= FirstQueued
  /\ \A i \in 1..Len(output) : output[i] = i - 1
  /\ item[Joiner] # NoTask => item[Joiner] = m_NextJoin /\ Len(output) = m_NextJoin
  /\ \A t \in Threads : item[t] # NoTask => item[t] >= Len(output)
  /\ \A k \in joinQ : k >= Len(output)

\* A serial whose handler or joiner threw is gone, and its turn never passes.
Lost ==
  \A k \in failed :
    /\ k \in m_NextJoin..(FirstQueued - 1)
    /\ k \notin joinQ
    /\ \A t \in Threads : k # item[t]

\* MapReduce has polled to the end before it stops the threads.
Polling ==
  /\ sCount = m_NextJoin
  /\ driver = "mapreduce" /\ phase # "insert" => m_Serial = Size /\ sCount >= Size

IInv == Types /\ Backlog /\ OnePlace /\ Turn /\ Lost /\ Polling

-----------------------------------------------------------------------------
\* The invariant holds before the first task.
LEMMA InitOk == Init => IInv
<1> SUFFICES ASSUME Init PROVE IInv
  OBVIOUS
<1>1. Types
  BY SizeAssumption DEF Init, Types, NoTask
<1>2. Backlog
  BY DEF Init, Backlog, FirstQueued
<1>3. OnePlace
  BY DEF Init, OnePlace, NoTask
<1>4. Turn
  BY ThreadsAssumption DEF Init, Turn, FirstQueued, NoTask, Threads
<1>5. Lost /\ Polling
  BY DEF Init, Lost, Polling
<1> QED
  BY <1>1, <1>2, <1>3, <1>4, <1>5 DEF IInv

\* What a thread does without a task in hand, before it has one.
LEMMA IdleStep ==
  ASSUME IInv, NEW t \in Threads, CheckStop(t) \/ NothingTaken(t)
  PROVE  IInv'
<1> USE DEF IInv
<1>0. /\ pc' = [pc EXCEPT ![t] = pc'[t]] /\ pc[t] \in {"loop", "wait"}
      /\ pc'[t] \in {"loop", "wait", "exit"}
      /\ UNCHANGED <<driver, workQ, joinQ, m_Serial, m_NextJoin, item, m_Stop, phase, sCount, throws, output, failed>>
  BY DEF CheckStop, NothingTaken, Types
<1>1. Types'
  BY <1>0 DEF Types
<1>2. OnePlace'
  BY <1>0 DEF OnePlace, Types, FirstQueued
<1> QED
  BY <1>0, <1>1, <1>2 DEF Backlog, Turn, Lost, Polling, FirstQueued

\* m_Worker's list loses its first serial to a worker's hand.
LEMMA TakeWorkStep ==
  ASSUME IInv, NEW w \in Workers, TakeWork(w)
  PROVE  IInv'
<1> USE DEF IInv
<1>0. w \in Threads /\ w # Joiner /\ Joiner \in Threads
  BY ThreadsAssumption DEF Threads
<1>1. /\ Head(workQ) = FirstQueued /\ FirstQueued \in Nat
      /\ Len(workQ') = Len(workQ) - 1 /\ workQ' \in Seq(Nat)
      /\ \A i \in 1..Len(workQ') : workQ'[i] = workQ[i + 1]
      /\ Len(workQ) \in Nat /\ Len(workQ) > 0
  BY DEF TakeWork, Types, Backlog, FirstQueued
<1>2. /\ item' = [item EXCEPT ![w] = FirstQueued] /\ item[w] = NoTask
      /\ pc' = [pc EXCEPT ![w] = "taken"]
      /\ UNCHANGED <<driver, joinQ, m_Serial, m_NextJoin, phase, sCount, output, failed>>
  BY <1>0, <1>1 DEF TakeWork, OnePlace, Types
<1>3. FirstQueued' = FirstQueued + 1
  BY <1>1, <1>2, SizeAssumption DEF FirstQueued, Types
<1>4. Types'
  BY <1>1, <1>2 DEF Types
<1>5. Backlog'
  <2>1. Len(workQ') <= m_Serial'
    BY <1>1, <1>2, SizeAssumption DEF Backlog, Types
  <2>2. ASSUME NEW i \in 1..Len(workQ')
        PROVE  workQ'[i] = FirstQueued' + i - 1
    <3>1. i \in Nat /\ i + 1 \in 1..Len(workQ)
      BY <1>1
    <3>2. workQ[i + 1] = FirstQueued + (i + 1) - 1
      BY <3>1 DEF Backlog
    <3> QED
      BY <1>1, <1>3, <3>1, <3>2
  <2> QED
    BY <2>1, <2>2 DEF Backlog
<1>6. OnePlace'
  BY <1>0, <1>1, <1>2, <1>3 DEF OnePlace, Types, NoTask
<1>7. Turn'
  BY <1>0, <1>1, <1>2, <1>3 DEF Turn, Types, NoTask
<1>8. Lost'
  BY <1>0, <1>1, <1>2, <1>3 DEF Lost, Types, NoTask
<1> QED
  BY <1>2, <1>4, <1>5, <1>6, <1>7, <1>8 DEF Polling

\* The task whose turn it is moves from the priority queue to the joiner.
LEMMA TakeJoinStep ==
  ASSUME IInv, TakeJoin
  PROVE  IInv'
<1> USE DEF IInv
<1>0. Joiner \in Threads
  BY DEF Threads
<1>2. /\ item' = [item EXCEPT ![Joiner] = m_NextJoin] /\ item[Joiner] = NoTask
      /\ joinQ' = joinQ \ {m_NextJoin} /\ m_NextJoin \in joinQ
      /\ pc' = [pc EXCEPT ![Joiner] = "taken"]
      /\ FirstQueued' = FirstQueued
      /\ UNCHANGED <<driver, workQ, m_Serial, m_NextJoin, phase, sCount, output, failed>>
  BY <1>0 DEF TakeJoin, CheckTop, OnePlace, FirstQueued, Types
<1>3. Len(output) = m_NextJoin
  BY <1>2 DEF Turn, Types
<1>4. Types'
  BY <1>0, <1>2 DEF Types
<1>5. OnePlace'
  BY <1>0, <1>2 DEF OnePlace, Types, NoTask
<1>6. Turn'
  BY <1>0, <1>2, <1>3 DEF Turn, Types, NoTask
<1>7. Lost'
  BY <1>0, <1>2 DEF Lost, Types, NoTask
<1> QED
  BY <1>2, <1>4, <1>5, <1>6, <1>7 DEF Polling, Backlog

\* handle() goes on, or gives the task up because its queue has stopped.
LEMMA HandleStep ==
  ASSUME IInv, NEW t \in Threads, Handle(t)
  PROVE  IInv'
<1> USE DEF IInv
<1>0. /\ UNCHANGED <<driver, workQ, joinQ, m_Serial, m_NextJoin, phase, sCount, output, failed>>
      /\ FirstQueued' = FirstQueued
      /\ pc[t] = "taken"
  BY DEF Handle, FirstQueued
<1>1. CASE pc' = [pc EXCEPT ![t] = "run"] /\ UNCHANGED item
  BY <1>0, <1>1 DEF Types, Backlog, OnePlace, Turn, Lost, Polling
<1>2. CASE pc' = [pc EXCEPT ![t] = "loop"] /\ item' = [item EXCEPT ![t] = NoTask]
  <2>1. Types'
    BY <1>0, <1>2 DEF Types
  <2>2. OnePlace'
    BY <1>0, <1>2 DEF OnePlace, Types, NoTask
  <2>3. Turn'
    BY <1>0, <1>2 DEF Turn, Types, Threads
  <2>4. Lost'
    BY <1>0, <1>2 DEF Lost, Types, NoTask
  <2> QED
    BY <1>0, <2>1, <2>2, <2>3, <2>4 DEF Backlog, Polling
<1> QED
  BY <1>1, <1>2 DEF Handle

\* A worker hands its task to the joiner's queue, or loses it.
LEMMA WorkStep ==
  ASSUME IInv, NEW w \in Workers, Work(w)
  PROVE  IInv'
<1> USE DEF IInv
<1>0. w \in Threads /\ w # Joiner /\ Joiner \in Threads
  BY ThreadsAssumption DEF Threads
<1>1. /\ UNCHANGED <<driver, workQ, m_Serial, m_NextJoin, phase, sCount, output>>
      /\ FirstQueued' = FirstQueued /\ FirstQueued \in Nat
      /\ pc' = [pc EXCEPT ![w] = "loop"] /\ item' = [item EXCEPT ![w] = NoTask]
      /\ item[w] # NoTask /\ item[w] \in Nat /\ item[w] < FirstQueued
      /\ item[w] >= Len(output) /\ item[w] \notin joinQ
      /\ \A u \in Threads : u # w => item[u] # item[w]
      /\ Len(output) \in Nat /\ Len(output) >= m_NextJoin
  BY <1>0 DEF Work, Over, FirstQueued, OnePlace, Types, Turn, Backlog
<1>2. \/ joinQ' = joinQ \cup {item[w]} /\ failed' = failed
      \/ joinQ' = joinQ /\ failed' = failed \cup {item[w]}
  BY DEF Work, Throw
<1>3. Types'
  BY <1>0, <1>1, <1>2 DEF Types
<1>4. OnePlace'
  BY <1>0, <1>1, <1>2 DEF OnePlace, Types, NoTask
<1>5. Turn'
  BY <1>0, <1>1, <1>2 DEF Turn, Types, NoTask
<1>6. Lost'
  <2>1. \A k \in failed : k # item[w]
    BY <1>0 DEF Lost
  <2>2. \A k \in failed' : \A t \in Threads : k # item'[t]
    BY <1>0, <1>1, <1>2, <2>1 DEF Lost, Types, NoTask
  <2>3. \A k \in failed' : k \notin joinQ'
    BY <1>1, <1>2, <2>1 DEF Lost
  <2>4. ASSUME NEW k \in failed'
        PROVE  k \in m_NextJoin'..(FirstQueued' - 1)
    <3>1. CASE k \in failed
      BY <1>1, <3>1 DEF Lost
    <3>2. CASE k = item[w]
      BY <1>1, <3>2 DEF Types
    <3> QED
      BY <1>2, <3>1, <3>2
  <2> QED
    BY <2>2, <2>3, <2>4 DEF Lost
<1> QED
  BY <1>1, <1>3, <1>4, <1>5, <1>6 DEF Backlog, Polling

\* The joiner is called with the serial that follows the last one.
LEMMA JoinStep ==
  ASSUME IInv, Join
  PROVE  /\ IInv'
         /\ Len(output) < m_Serial /\ output' = Append(output, Len(output))
<1> USE DEF IInv
<1>0. Joiner \in Threads
  BY DEF Threads
<1> DEFINE k == Len(output)
<1>1. /\ k \in Nat /\ item[Joiner] = k /\ m_NextJoin = k /\ k < FirstQueued
      /\ k \notin joinQ /\ FirstQueued \in Nat /\ FirstQueued <= m_Serial
      /\ \A u \in Threads : u # Joiner => item[u] # k
  BY <1>0 DEF Join, Over, OnePlace, Turn, Types, Backlog, FirstQueued
<1>2. /\ UNCHANGED <<driver, workQ, joinQ, m_Serial, phase>>
      /\ FirstQueued' = FirstQueued
      /\ pc' = [pc EXCEPT ![Joiner] = "loop"] /\ item' = [item EXCEPT ![Joiner] = NoTask]
      /\ output' = Append(output, k)
      /\ \/ m_NextJoin' = k + 1 /\ sCount' = sCount + 1 /\ failed' = failed
         \/ m_NextJoin' = k /\ sCount' = sCount /\ failed' = failed \cup {k}
  BY <1>1 DEF Join, Over, Throw, FirstQueued
<1> HIDE DEF k
<1>3. /\ output' \in Seq(Nat) /\ Len(output') = k + 1
      /\ \A i \in 1..Len(output') : output'[i] = i - 1
  BY <1>1, <1>2 DEF Turn, Types, k
<1>4. Types'
  <2>1. m_NextJoin' \in Nat
    BY <1>1, <1>2
  <2>2. failed' \subseteq Nat
    BY <1>1, <1>2 DEF Types
  <2>3. item' \in [Threads -> Nat \cup {NoTask}]
    BY <1>2 DEF Types
  <2> QED
    BY <1>2, <1>3, <2>1, <2>2, <2>3 DEF Types
<1>5. OnePlace'
  BY <1>0, <1>2 DEF OnePlace, Types, NoTask
<1>6. Turn'
  <2>1. \A t \in Threads : item'[t] # NoTask => item'[t] >= k + 1
    BY <1>0, <1>1, <1>2 DEF Turn, Types, NoTask, k
  <2>2. \A j \in joinQ : j >= k + 1
    BY <1>1 DEF Turn, Types, k
  <2> QED
    BY <1>0, <1>1, <1>2, <1>3, <2>1, <2>2 DEF Turn, Types
<1>7. Lost'
  <2>1. \A j \in failed : j # k
    BY <1>0, <1>1 DEF Lost
  <2>2. \A j \in failed' : \A t \in Threads : j # item'[t]
    BY <1>0, <1>1, <1>2 DEF Lost, Types, NoTask
  <2>3. ASSUME NEW j \in failed'
        PROVE  j \in m_NextJoin'..(FirstQueued' - 1)
    <3>1. CASE j \in failed
      BY <1>1, <1>2, <2>1, <3>1 DEF Lost
    <3>2. CASE j = k /\ m_NextJoin' = k
      BY <1>1, <1>2, <3>2
    <3> QED
      BY <1>2, <2>1, <3>1, <3>2
  <2> QED
    BY <1>1, <1>2, <2>2, <2>3 DEF Lost
<1>8. Polling' /\ Backlog'
  BY <1>1, <1>2, SizeAssumption DEF Polling, Backlog, Types
<1> QED
  BY <1>1, <1>2, <1>4, <1>5, <1>6, <1>7, <1>8, SizeAssumption DEF Types, k

\* The owner adds a task behind the last one.
LEMMA InsertStep ==
  ASSUME IInv, Insert
  PROVE  IInv'
<1> USE DEF IInv
<1>1. /\ workQ' \in Seq(Nat) /\ Len(workQ') = Len(workQ) + 1 /\ Len(workQ) \in Nat
      /\ \A i \in 1..Len(workQ) : workQ'[i] = workQ[i]
      /\ workQ'[Len(workQ) + 1] = m_Serial
      /\ m_Serial' = m_Serial + 1 /\ m_Serial \in Nat /\ m_Serial < Size
  BY SizeAssumption DEF Insert, Types
<1>2. /\ FirstQueued' = FirstQueued /\ phase = "insert"
      /\ UNCHANGED <<driver, joinQ, m_NextJoin, pc, item, phase, sCount, output, failed>>
  BY <1>1 DEF Insert, FirstQueued
<1>3. Types'
  BY <1>1, <1>2, SizeAssumption DEF Types
<1>4. Backlog'
  BY <1>1, <1>2 DEF Backlog, FirstQueued
<1> QED
  BY <1>1, <1>2, <1>3, <1>4 DEF OnePlace, Turn, Lost, Polling

\* The end of the input and the shutdown touch no task.
LEMMA OwnerStep ==
  ASSUME IInv, EndOfInput \/ Stop \/ Joined
  PROVE  IInv' /\ UNCHANGED <<m_Serial, output>>
<1> USE DEF IInv
<1>1. UNCHANGED <<driver, workQ, joinQ, m_Serial, m_NextJoin, pc, item, sCount, throws, output, failed>>
  BY DEF EndOfInput, Stop, Joined
<1>2. Types' /\ Backlog' /\ OnePlace' /\ Turn' /\ Lost'
  BY <1>1 DEF Types, Backlog, OnePlace, Turn, Lost, FirstQueued
<1>3. Polling'
  BY <1>1 DEF Polling, EndOfInput, Polled, Stop, Joined
<1> QED
  BY <1>1, <1>2, <1>3

\* Every step keeps the invariant and is a step of OrderedPipe or none.
LEMMA NextOk == IInv /\ [Next]_vars => IInv' /\ [Abstract!Next]_(Abstract!pipe)
<1> SUFFICES ASSUME IInv, [Next]_vars
             PROVE  IInv' /\ [Abstract!Next]_(Abstract!pipe)
  OBVIOUS
<1> USE DEF Abstract!pipe
<1>1. CASE UNCHANGED vars
  BY <1>1 DEF vars, IInv, Types, Backlog, OnePlace, Turn, Lost, Polling, FirstQueued
<1>2. ASSUME NEW t \in Threads, CheckStop(t) \/ NothingTaken(t) \/ Handle(t)
      PROVE  IInv' /\ UNCHANGED <<m_Serial, output>>
  BY <1>2, IdleStep, HandleStep DEF CheckStop, NothingTaken, Handle
<1>3. ASSUME NEW w \in Workers, TakeWork(w) \/ Work(w)
      PROVE  IInv' /\ UNCHANGED <<m_Serial, output>>
  BY <1>3, TakeWorkStep, WorkStep DEF TakeWork, Work
<1>4. CASE TakeJoin
  BY <1>4, TakeJoinStep DEF TakeJoin
<1>5. CASE Join
  BY <1>5, JoinStep DEF Join, Abstract!Next, Abstract!Emit
<1>6. CASE Insert
  BY <1>6, InsertStep DEF Insert, Abstract!Next, Abstract!Enter
<1>7. CASE EndOfInput \/ Stop \/ Joined
  BY <1>7, OwnerStep
<1> QED
  BY <1>1, <1>2, <1>3, <1>4, <1>5, <1>6, <1>7 DEF Next, Thread

-----------------------------------------------------------------------------
\* The invariant of every reachable state.
THEOREM Inductive == Spec => []IInv
<1>1. IInv /\ [Next]_vars => IInv'
  BY NextOk
<1> QED
  BY <1>1, InitOk, PTL DEF Spec

\* "perform task in threads but pass to join function in order"
\* (OrderedWorker.hpp:10): OrderedWorker implements OrderedPipe.
THEOREM Refinement == Spec => InOrder
<1>1. Init => Abstract!Init
  BY DEF Init, Abstract!Init
<1> QED
  BY <1>1, NextOk, Inductive, PTL DEF Spec, InOrder, Abstract!Spec

\* MapReduce returns with every chunk reduced, in order (MapReduce.hpp:37-41).
THEOREM MapReduceComplete == Spec => []CompleteResult
<1>1. IInv => CompleteResult
  <2> SUFFICES ASSUME IInv, driver = "mapreduce", phase = "returned"
               PROVE  failed = {} /\ output = [i \in 1..Size |-> i - 1]
    BY DEF CompleteResult
  <2> USE DEF IInv
  <2>1. m_Serial = Size /\ m_NextJoin >= Size /\ FirstQueued <= Size
    BY SizeAssumption DEF Polling, FirstQueued, Types
  <2>2. failed = {}
    BY <2>1, SizeAssumption DEF Lost, Types, FirstQueued
  <2>3. Len(output) = Size
    BY <2>1, SizeAssumption DEF Turn, Types, FirstQueued
  <2>4. output = [i \in 1..Size |-> i - 1]
    BY <2>3 DEF Turn, Types
  <2> QED
    BY <2>2, <2>4
<1> QED
  BY <1>1, Inductive, PTL

=============================================================================

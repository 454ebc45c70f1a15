-------------------------- MODULE SafeQueueProofs --------------------------
(***************************************************************************)
(* The safety of SafeQueue for every set of workers and every number of    *)
(* items.  The invariants the run checks are not inductive alone: who      *)
(* holds an item depends on the program counters (Control), and the linger *)
(* promise on what a worker may have read before it compares (Stopping).   *)
(***************************************************************************)
EXTENDS SafeQueue, TLAPS, FiniteSetTheorems

\* A worker holds an item exactly while it is inside handle(), and it carries
\* a reading exactly while it is between the two reads of idle().
Control ==
  \A w \in Workers :
    /\ sItem[w] # 0 <=> caller[w] = "handle"
    /\ pc[w] \in {"run", "finish"} => caller[w] = "handle"
    /\ pc[w] \in {"wait", "blocked", "awake", "exit"} => caller[w] = "loop"
    /\ pc[w] = "idle" => seen[w].of # "none"

\* What the shutdown has done so far, and how old a worker's reading can be.
Stopping ==
  /\ m_Stop <=> stopper \in {"stopped", "joined"}
  /\ stopper = "up" => m_Deadline = "none"
  /\ atStop <= m_Counter
  /\ \A k \in Items : outcome[k] = "dropped" => m_Stop
  /\ \A w \in Workers : pc[w] \in {"deadline", "idle", "exit"} => m_Stop
  /\ \A w \in Workers : pc[w] = "idle" =>
       /\ seen[w].of = "done" => seen[w].value <= m_Done
       /\ seen[w].of = "count" => seen[w].value \in atStop..m_Counter

IInv == TypeOK /\ Control /\ Accounting /\ OneOwner /\ Stopping /\ LingerHolds


-----------------------------------------------------------------------------
\* notify_one moves at most a blocked worker, and only to "awake".
LEMMA WakeupOneLemma ==
  ASSUME NEW p \in [Workers -> PCs], NEW q \in WakeupOne(p)
  PROVE  /\ q \in [Workers -> PCs]
         /\ \A v \in Workers : q[v] = p[v] \/ (p[v] = "blocked" /\ q[v] = "awake")
BY DEF WakeupOne, Blocked, PCs

\* The workers that hold an item are finitely many, so they can be counted.
LEMMA HoldingFinite == IsFiniteSet(Holding) /\ Cardinality(Holding) \in Nat
<1>1. Holding \subseteq Workers
  BY DEF Holding
<1> QED
  BY <1>1, WorkersAssumption, FS_Subset, FS_CardinalityType

\* A worker that takes an item into an empty hand is one more holder.
LEMMA TakeCount ==
  ASSUME NEW w \in Workers, sItem \in [Workers -> 0..MaxItems], sItem[w] = 0,
         NEW k \in Items, sItem' = [sItem EXCEPT ![w] = k]
  PROVE  /\ Holding' = Holding \cup {w}
         /\ Cardinality(Holding') = Cardinality(Holding) + 1
<1>1. Holding' = Holding \cup {w}
  BY BoundsAssumption DEF Holding, Items
<1>2. w \notin Holding
  BY DEF Holding
<1> QED
  BY <1>1, <1>2, HoldingFinite, FS_AddElement

\* A worker that lets its item go is one holder less.
LEMMA FinishCount ==
  ASSUME NEW w \in Workers, sItem \in [Workers -> 0..MaxItems], sItem[w] # 0,
         sItem' = [sItem EXCEPT ![w] = 0]
  PROVE  /\ Holding' = Holding \ {w}
         /\ Cardinality(Holding') = Cardinality(Holding) - 1
         /\ Cardinality(Holding) > 0
<1>1. Holding' = Holding \ {w}
  BY DEF Holding
<1>2. w \in Holding
  BY DEF Holding
<1>3. Cardinality(Holding') = Cardinality(Holding) - 1
  BY <1>1, <1>2, HoldingFinite, FS_RemoveElement
<1>4. Cardinality(Holding) # 0
  BY <1>2, HoldingFinite, FS_EmptySet
<1> QED
  BY <1>1, <1>3, <1>4, HoldingFinite

\* With all items done nobody holds one, and none is queued.
LEMMA AllDone ==
  ASSUME TypeOK, Accounting, m_Done = m_Counter
  PROVE  Holding = {} /\ m_List = <<>>
<1>1. Cardinality(Holding) = 0 /\ Len(m_List) = 0
  BY HoldingFinite DEF TypeOK, Accounting
<1>2. Holding = {}
  BY <1>1, HoldingFinite, FS_EmptySet
<1>3. m_List = <<>>
  BY <1>1 DEF TypeOK
<1> QED
  BY <1>2, <1>3

-----------------------------------------------------------------------------
\* The initial states satisfy the inductive invariant.
LEMMA InitIInv == Init => IInv
<1> SUFFICES ASSUME Init PROVE IInv
  OBVIOUS
<1>1. TypeOK
  <2>1. Unread \in Readings
    BY BoundsAssumption DEF Unread, Readings
  <2>2. m_Stop \in BOOLEAN
    BY Zenon DEF Init
  <2> QED
    BY <2>1, <2>2, BoundsAssumption DEF Init, TypeOK, PCs, Items
<1>2. Holding = {}
  BY DEF Init, Holding
<1>3. Accounting
  BY <1>2, FS_EmptySet DEF Init, Accounting
<1>4. OneOwner
  BY <1>2 DEF Init, OneOwner
<1>5. Control /\ Stopping /\ LingerHolds
  BY DEF Init, Control, Stopping, LingerHolds
<1> QED
  BY <1>1, <1>3, <1>4, <1>5 DEF IInv

\* insert() keeps the inductive invariant.
LEMMA InsertIInv == IInv /\ Insert => IInv'
<1> SUFFICES ASSUME IInv, Insert PROVE IInv'
  OBVIOUS
<1> USE DEF IInv
<1>0. /\ m_Counter + 1 \in Items
      /\ m_Counter' = m_Counter + 1
      /\ Len(m_List') = Len(m_List) + 1
      /\ \A i \in 1..Len(m_List') :
           m_List'[i] = IF i = Len(m_List) + 1 THEN m_Counter + 1 ELSE m_List[i]
  BY BoundsAssumption DEF Insert, TypeOK, Items
<1>1. /\ pc' \in [Workers -> PCs]
      /\ \A v \in Workers : pc'[v] = pc[v] \/ (pc[v] = "blocked" /\ pc'[v] = "awake")
  <2>1. pc \in [Workers -> PCs] /\ pc' \in WakeupOne(pc)
    BY DEF Insert, TypeOK
  <2> QED
    BY ONLY <2>1, WakeupOneLemma
<1>2. TypeOK'
  <2>1. m_List' \in Seq(Items) /\ m_Counter' \in 0..MaxItems /\ m_Done' \in 0..m_Counter'
    BY <1>0 DEF Insert, TypeOK, Items
  <2> QED
    BY <2>1, <1>1 DEF Insert, TypeOK, stopVars
<1>3. Holding' = Holding
  BY DEF Insert, Holding
<1>4. Accounting'
  BY <1>0, <1>3, HoldingFinite DEF Insert, Accounting, TypeOK
<1>5. OneOwner'
  <2>1. \A v, w \in Holding' : sItem'[v] = sItem'[w] => v = w
    BY <1>3 DEF Insert, OneOwner
  <2>2. \A w \in Holding' : sItem'[w] <= m_Counter' - Len(m_List')
    BY <1>0, <1>3 DEF Insert, OneOwner, TypeOK, Holding
  <2>3. \A i \in 1..Len(m_List') : m_List'[i] = m_Counter' - Len(m_List') + i
    <3> SUFFICES ASSUME NEW i \in 1..Len(m_List')
                 PROVE  m_List'[i] = m_Counter' - Len(m_List') + i
      OBVIOUS
    <3>1. CASE i = Len(m_List) + 1
      BY <1>0, <3>1 DEF TypeOK
    <3>2. CASE i # Len(m_List) + 1
      <4>1. i \in 1..Len(m_List)
        BY <1>0, <3>2 DEF TypeOK
      <4>2. m_List[i] = m_Counter - Len(m_List) + i
        BY <4>1 DEF OneOwner
      <4>3. m_List'[i] = m_List[i]
        BY <1>0, <3>2
      <4> QED
        BY <1>0, <4>2, <4>3 DEF TypeOK
    <3> QED
      BY <3>1, <3>2
  <2> QED
    BY <2>1, <2>2, <2>3 DEF OneOwner
<1>6. Control'
  BY <1>1 DEF Insert, Control
<1>7. Stopping'
  BY <1>0, <1>1 DEF Insert, Stopping, stopVars, TypeOK
<1>8. LingerHolds'
  BY <1>0, <1>1 DEF Insert, Stopping, LingerHolds, stopVars, TypeOK
<1> QED
  BY <1>2, <1>4, <1>5, <1>6, <1>7, <1>8


\* What exiting() returning true does, when it is allowed to: the readings that
\* made CheckIdle or CheckDeadline leave show that nothing is pending, unless
\* the linger time is over or something was inserted after stop().
LEMMA LeaveIInv ==
  ASSUME NEW w \in Workers, IInv, m_Stop, pc[w] \in {"deadline", "idle"},
         m_Deadline = "armed" /\ m_Counter = atStop => m_Done = m_Counter,
         Leave(w), seen' \in [Workers -> Readings],
         \A v \in Workers : v # w => seen'[v] = seen[v],
         UNCHANGED <<queueVars, stopVars, m_Done, caller, sItem, throws>>
  PROVE  IInv'
<1> USE DEF IInv
<1>1. CASE caller[w] = "loop"
  <2>1. pc' = [pc EXCEPT ![w] = "exit"] /\ outcome' = outcome
    BY <1>1 DEF Leave
  <2>2. TypeOK'
    BY <2>1 DEF TypeOK, PCs, queueVars, stopVars
  <2>3. Accounting' /\ OneOwner'
    BY DEF Accounting, OneOwner, Holding, queueVars
  <2>4. Control'
    BY <1>1, <2>1 DEF Control, TypeOK
  <2>5. Stopping'
    BY <2>1 DEF Stopping, TypeOK, queueVars, stopVars
  <2>6. LingerHolds'
    BY <2>1 DEF LingerHolds, TypeOK, queueVars, stopVars
  <2> QED
    BY <2>2, <2>3, <2>4, <2>5, <2>6
<1>2. CASE caller[w] # "loop"
  <2>1. pc' = [pc EXCEPT ![w] = "finish"] /\ outcome' = [outcome EXCEPT ![sItem[w]] = "dropped"]
    BY <1>2 DEF Leave
  <2>2. caller[w] = "handle" /\ sItem[w] \in Items
    BY <1>2, BoundsAssumption DEF TypeOK, Control, Items
  <2>3. ~(m_Deadline = "armed" /\ m_Counter = atStop)
    BY <2>2, AllDone DEF Holding, Control
  <2>4. TypeOK'
    BY <2>1, <2>2 DEF TypeOK, PCs, queueVars, stopVars
  <2>5. Accounting' /\ OneOwner'
    BY DEF Accounting, OneOwner, Holding, queueVars
  <2>6. Control'
    BY <2>1, <2>2 DEF Control, TypeOK
  <2>7. Stopping'
    BY <2>1, <2>2 DEF Stopping, TypeOK, queueVars, stopVars
  <2>8. LingerHolds'
    BY <2>3 DEF LingerHolds, queueVars, stopVars
  <2> QED
    BY <2>4, <2>5, <2>6, <2>7, <2>8
<1> QED
  BY <1>1, <1>2

\* exiting() returning false sends a worker on without touching anything else.
LEMMA ProceedIInv ==
  ASSUME NEW w \in Workers, IInv, pc[w] \in {"exiting", "idle"},
         Proceed(w), seen' \in [Workers -> Readings],
         \A v \in Workers : v # w => seen'[v] = seen[v],
         UNCHANGED <<queueVars, stopVars, m_Done, caller, sItem, throws>>
  PROVE  IInv'
<1> USE DEF IInv
<1>1. /\ pc' = [pc EXCEPT ![w] = IF caller[w] = "loop" THEN "wait" ELSE "run"]
      /\ outcome' = outcome
  BY DEF Proceed
<1>2. TypeOK'
  BY <1>1 DEF TypeOK, PCs, queueVars, stopVars
<1>3. Accounting' /\ OneOwner'
  BY DEF Accounting, OneOwner, Holding, queueVars
<1>4. Control'
  BY <1>1 DEF Control, TypeOK
<1>5. Stopping'
  BY <1>1 DEF Stopping, TypeOK, queueVars, stopVars
<1>6. LingerHolds'
  BY <1>1 DEF LingerHolds, TypeOK, queueVars, stopVars
<1> QED
  BY <1>2, <1>3, <1>4, <1>5, <1>6

\* The three steps of exiting() keep the inductive invariant.
LEMMA ExitingIInv ==
  ASSUME NEW w \in Workers, IInv, CheckStop(w) \/ CheckDeadline(w) \/ CheckIdle(w)
  PROVE  IInv'
<1> USE DEF IInv
<1>1. CASE CheckStop(w) /\ ~m_Stop
  BY <1>1, ProceedIInv DEF CheckStop, TypeOK
<1>2. CASE CheckStop(w) /\ m_Stop
  <2>1. /\ pc' = [pc EXCEPT ![w] = "deadline"]
        /\ UNCHANGED <<queueVars, stopVars, m_Done, caller, sItem, seen, throws, outcome>>
    BY <1>2 DEF CheckStop
  <2>2. TypeOK'
    BY <2>1 DEF TypeOK, PCs, queueVars, stopVars
  <2>3. Accounting' /\ OneOwner'
    BY <2>1 DEF Accounting, OneOwner, Holding, queueVars
  <2>4. Control'
    BY <2>1 DEF Control, TypeOK
  <2>5. Stopping'
    BY <1>2, <2>1 DEF Stopping, TypeOK, queueVars, stopVars
  <2>6. LingerHolds'
    BY <2>1 DEF LingerHolds, TypeOK, queueVars, stopVars
  <2> QED
    BY <2>2, <2>3, <2>4, <2>5, <2>6
<1>3. CASE CheckDeadline(w) /\ m_Deadline = "none"
  BY <1>3, LeaveIInv DEF CheckDeadline, TypeOK, Stopping
<1>4. CASE CheckDeadline(w) /\ m_Deadline # "none"
  <2>1. PICK r \in {[of |-> "done", value |-> m_Done], [of |-> "count", value |-> m_Counter]} :
          seen' = [seen EXCEPT ![w] = r]
    BY <1>4 DEF CheckDeadline
  <2>2. /\ pc[w] = "deadline"
        /\ pc' = [pc EXCEPT ![w] = "idle"]
        /\ UNCHANGED <<queueVars, stopVars, m_Done, caller, sItem, throws, outcome>>
    BY <1>4 DEF CheckDeadline
  <2>3. r \in Readings /\ r.of # "none"
    BY <2>1, BoundsAssumption DEF TypeOK, Readings
  <2>4. TypeOK'
    BY <2>1, <2>2, <2>3 DEF TypeOK, PCs, queueVars, stopVars
  <2>5. Accounting' /\ OneOwner'
    BY <2>2 DEF Accounting, OneOwner, Holding, queueVars
  <2>6. Control'
    BY <2>1, <2>2, <2>3 DEF Control, TypeOK
  <2>7. Stopping'
    BY <2>1, <2>2 DEF Stopping, TypeOK, queueVars, stopVars
  <2>8. LingerHolds'
    BY <2>2 DEF LingerHolds, TypeOK, queueVars, stopVars
  <2> QED
    BY <2>4, <2>5, <2>6, <2>7, <2>8
<1>5. CASE CheckIdle(w)
  <2>1. /\ pc[w] = "idle"
        /\ seen' = [seen EXCEPT ![w] = Unread]
        /\ UNCHANGED <<queueVars, stopVars, m_Done, caller, sItem, throws>>
    BY <1>5 DEF CheckIdle
  <2>2. Unread \in Readings
    BY BoundsAssumption DEF Unread, Readings
  <2>3. seen' \in [Workers -> Readings] /\ \A v \in Workers : v # w => seen'[v] = seen[v]
    BY <2>1, <2>2 DEF TypeOK
  <2>4. CASE IdleNow(w) \/ m_Deadline = "expired"
    <3>1. ASSUME m_Deadline = "armed", m_Counter = atStop
          PROVE  m_Done = m_Counter
      <4>1. seen[w].value = IF seen[w].of = "done" THEN m_Counter ELSE m_Done
        BY <2>4, <3>1 DEF IdleNow
      <4>2. seen[w].of \in {"done", "count"} /\ seen[w].value \in 0..MaxItems
        BY <2>1 DEF TypeOK, Control, Readings
      <4>3. CASE seen[w].of = "done"
        BY <2>1, <4>1, <4>2, <4>3 DEF Stopping, TypeOK
      <4>4. CASE seen[w].of = "count"
        BY <2>1, <3>1, <4>1, <4>2, <4>4 DEF Stopping, TypeOK
      <4> QED
        BY <4>2, <4>3, <4>4
    <3>2. Leave(w) /\ m_Stop
      BY <1>5, <2>1, <2>4 DEF CheckIdle, Stopping
    <3> QED
      BY <2>1, <2>3, <3>1, <3>2, LeaveIInv
  <2>5. CASE ~(IdleNow(w) \/ m_Deadline = "expired")
    <3>1. Proceed(w)
      BY <1>5, <2>5 DEF CheckIdle
    <3> QED
      BY <2>1, <2>3, <3>1, ProceedIInv
  <2> QED
    BY <2>4, <2>5
<1> QED
  BY <1>1, <1>2, <1>3, <1>4, <1>5 DEF CheckStop, CheckDeadline


\* Popping the head of the list into an empty hand keeps the inductive
\* invariant, with the notify_one that follows.
LEMMA TakeIInv ==
  ASSUME NEW w \in Workers, IInv, pc[w] \in {"wait", "awake"}, Take(w),
         UNCHANGED <<m_Counter, m_Stop, stopVars, m_Done, seen, throws, outcome>>
  PROVE  IInv'
<1> USE DEF IInv
<1>1. caller[w] = "loop" /\ sItem[w] = 0
  BY DEF Control, TypeOK
<1>2. /\ m_List # <<>>
      /\ Head(m_List) \in Items
      /\ Head(m_List) = m_List[1]
      /\ Tail(m_List) \in Seq(Items)
      /\ Len(Tail(m_List)) = Len(m_List) - 1
      /\ Len(m_List) \in Nat \ {0}
      /\ \A i \in 1..Len(Tail(m_List)) : Tail(m_List)[i] = m_List[i + 1]
  BY DEF Take, TypeOK
<1>3. /\ sItem' = [sItem EXCEPT ![w] = Head(m_List)]
      /\ m_List' = Tail(m_List)
      /\ caller' = [caller EXCEPT ![w] = "handle"]
  BY DEF Take
<1> DEFINE p == [pc EXCEPT ![w] = "exiting"]
<1>4. p \in [Workers -> PCs] /\ pc' \in {p} \cup WakeupOne(p)
  BY DEF Take, TypeOK, PCs
<1>5. /\ pc' \in [Workers -> PCs]
      /\ \A v \in Workers : pc'[v] = p[v] \/ (p[v] = "blocked" /\ pc'[v] = "awake")
  <2> HIDE DEF p
  <2> QED
    BY ONLY <1>4, WakeupOneLemma
<1>6. pc'[w] = "exiting" /\ \A v \in Workers : v # w =>
        pc'[v] = pc[v] \/ (pc[v] = "blocked" /\ pc'[v] = "awake")
  BY <1>5 DEF TypeOK
<1>7. Holding' = Holding \cup {w} /\ Cardinality(Holding') = Cardinality(Holding) + 1
  BY <1>1, <1>2, <1>3, TakeCount DEF TypeOK
<1>8. Head(m_List) = m_Counter - Len(m_List) + 1
  BY <1>2 DEF OneOwner
<1>9. TypeOK'
  <2>1. sItem' \in [Workers -> 0..MaxItems] /\ m_List' \in Seq(Items)
    BY <1>2, <1>3 DEF TypeOK, Items
  <2>2. caller' \in [Workers -> {"loop", "handle"}]
    BY <1>3 DEF TypeOK
  <2> QED
    BY <2>1, <2>2, <1>5 DEF TypeOK, stopVars
<1>10. Accounting'
  BY <1>2, <1>3, <1>7, HoldingFinite DEF Accounting, TypeOK
<1>11. OneOwner'
  <2>1. \A v \in Workers : sItem'[v] = IF v = w THEN Head(m_List) ELSE sItem[v]
    BY <1>3 DEF TypeOK
  <2>2. \A v \in Holding' : v \in Workers /\ (v # w => v \in Holding)
    BY <1>7 DEF Holding
  <2>3. \A v \in Holding : sItem[v] \in Nat /\ sItem[v] < Head(m_List)
    BY <1>2, <1>8 DEF OneOwner, Holding, TypeOK
  <2>4. \A u, v \in Holding' : sItem'[u] = sItem'[v] => u = v
    BY <1>2, <2>1, <2>2, <2>3 DEF OneOwner, Items
  <2>5. \A v \in Holding' : sItem'[v] <= m_Counter' - Len(m_List')
    BY <1>2, <1>3, <1>8, <2>1, <2>2, <2>3 DEF OneOwner, TypeOK, Items
  <2>6. ASSUME NEW i \in 1..Len(m_List')
        PROVE  m_List'[i] = m_Counter' - Len(m_List') + i
    <3>1. i + 1 \in 1..Len(m_List)
      BY <1>2, <1>3
    <3>2. m_List[i + 1] = m_Counter - Len(m_List) + (i + 1)
      BY <3>1 DEF OneOwner
    <3>3. m_List'[i] = m_List[i + 1]
      BY <1>2, <1>3
    <3> QED
      BY <1>2, <1>3, <3>2, <3>3 DEF TypeOK
  <2> QED
    BY <2>4, <2>5, <2>6 DEF OneOwner
<1>12. Control'
  BY <1>2, <1>3, <1>6 DEF Control, TypeOK, Items
<1>13. Stopping'
  BY <1>6 DEF Stopping, TypeOK, stopVars
<1>14. LingerHolds'
  <2>1. \A v \in Workers : pc'[v] = "exit" => pc[v] = "exit"
    BY <1>6
  <2> QED
    BY <2>1 DEF LingerHolds, stopVars
<1> QED
  BY <1>9, <1>10, <1>11, <1>12, <1>13, <1>14

\* A worker that changes nothing but its place, between places that mean the
\* same to the invariant: giving up a wait, blocking, retrying.
LEMMA MoveIInv ==
  ASSUME NEW w \in Workers, IInv, NEW to \in {"blocked", "awake", "exiting"},
         pc' = [pc EXCEPT ![w] = to],
         to \in {"blocked", "awake"} => caller[w] = "loop",
         throws' \in 0..MaxThrows,
         UNCHANGED <<queueVars, stopVars, m_Done, caller, sItem, seen, outcome>>
  PROVE  IInv'
<1> USE DEF IInv
<1>1. TypeOK'
  BY DEF TypeOK, PCs, queueVars, stopVars
<1>2. Accounting' /\ OneOwner'
  BY DEF Accounting, OneOwner, Holding, queueVars
<1>3. Control'
  BY DEF Control, TypeOK
<1>4. Stopping'
  BY DEF Stopping, TypeOK, queueVars, stopVars
<1>5. LingerHolds'
  BY DEF LingerHolds, TypeOK, queueVars, stopVars
<1> QED
  BY <1>1, <1>2, <1>3, <1>4, <1>5

\* The handler's verdict on an item in hand keeps the inductive invariant.
LEMMA VerdictIInv ==
  ASSUME NEW w \in Workers, IInv, pc[w] = "run", NEW o \in {"ok", "failed"},
         outcome' = [outcome EXCEPT ![sItem[w]] = o],
         pc' = [pc EXCEPT ![w] = "finish"],
         throws' \in 0..MaxThrows,
         UNCHANGED <<queueVars, stopVars, m_Done, caller, sItem, seen>>
  PROVE  IInv'
<1> USE DEF IInv
<1>1. TypeOK'
  BY DEF TypeOK, PCs, queueVars, stopVars
<1>2. Accounting' /\ OneOwner'
  BY DEF Accounting, OneOwner, Holding, queueVars
<1>3. Control'
  BY DEF Control, TypeOK
<1>4. Stopping'
  BY DEF Stopping, TypeOK, queueVars, stopVars
<1>5. LingerHolds'
  BY DEF LingerHolds, TypeOK, queueVars, stopVars
<1> QED
  BY <1>1, <1>2, <1>3, <1>4, <1>5

\* m_Done++ keeps the inductive invariant: it counts an item that was held.
LEMMA FinishIInv == ASSUME NEW w \in Workers, IInv, Finish(w) PROVE IInv'
<1> USE DEF IInv
<1>1. /\ pc[w] = "finish"
      /\ m_Done' = m_Done + 1
      /\ pc' = [pc EXCEPT ![w] = "exiting"]
      /\ caller' = [caller EXCEPT ![w] = "loop"]
      /\ sItem' = [sItem EXCEPT ![w] = 0]
      /\ UNCHANGED <<queueVars, stopVars, seen, throws, outcome>>
  BY DEF Finish
<1>2. sItem[w] # 0
  BY <1>1 DEF Control
<1>3. /\ Holding' = Holding \ {w}
      /\ Cardinality(Holding') = Cardinality(Holding) - 1
      /\ Cardinality(Holding) > 0
  BY <1>1, <1>2, FinishCount DEF TypeOK
<1>4. m_Done < m_Counter
  BY <1>3, HoldingFinite DEF Accounting, TypeOK
<1>5. TypeOK'
  <2>1. sItem' \in [Workers -> 0..MaxItems] /\ m_Done' \in 0..m_Counter'
    BY <1>1, <1>4, BoundsAssumption DEF TypeOK, queueVars
  <2> QED
    BY <1>1, <2>1 DEF TypeOK, PCs, queueVars, stopVars
<1>6. Accounting'
  <2>1. Cardinality(Holding') = Cardinality(Holding) - 1
    BY <1>3
  <2>2. m_List' = m_List /\ m_Counter' = m_Counter /\ m_Done' = m_Done + 1
    BY <1>1 DEF queueVars
  <2>3. Len(m_List) \in Nat /\ m_Counter \in Nat /\ m_Done \in Nat /\ Cardinality(Holding) \in Nat
    BY HoldingFinite, BoundsAssumption DEF TypeOK
  <2> QED
    BY <2>1, <2>2, <2>3 DEF Accounting
<1>7. OneOwner'
  <2>1. \A v \in Holding' : v \in Holding /\ sItem'[v] = sItem[v]
    BY <1>1, <1>3 DEF Holding, TypeOK
  <2> QED
    BY <1>1, <2>1 DEF OneOwner, queueVars
<1>8. Control'
  BY <1>1 DEF Control, TypeOK
<1>9. Stopping'
  BY <1>1 DEF Stopping, TypeOK, queueVars, stopVars, Readings
<1>10. LingerHolds'
  <2>1. \A v \in Workers : pc'[v] = "exit" => pc[v] = "exit"
    BY <1>1 DEF TypeOK
  <2> QED
    BY <1>1, <1>4, <2>1 DEF LingerHolds, TypeOK, queueVars, stopVars
<1> QED
  BY <1>5, <1>6, <1>7, <1>8, <1>9, <1>10

\* Every step of a worker keeps the inductive invariant.
LEMMA WorkerIInv == ASSUME NEW w \in Workers, IInv, Worker(w) \/ Timeout(w) PROVE IInv'
<1>1. CASE CheckStop(w) \/ CheckDeadline(w) \/ CheckIdle(w)
  BY <1>1, ExitingIInv
<1>2. CASE Timeout(w)
  BY <1>2, MoveIInv DEF Timeout, IInv, Control, TypeOK
<1>3. CASE Wait(w)
  <2>1. CASE Take(w)
    BY <1>3, <2>1, TakeIInv DEF Wait
  <2>2. CASE ~Take(w)
    BY <1>3, <2>2, MoveIInv DEF Wait, IInv, Control, TypeOK, queueVars
  <2> QED
    BY <2>1, <2>2
<1>4. CASE Awake(w)
  <2>1. CASE Take(w)
    BY <1>4, <2>1, TakeIInv DEF Awake
  <2>2. CASE ~Take(w)
    BY <1>4, <2>2, MoveIInv DEF Awake, IInv, Control, TypeOK, queueVars
  <2> QED
    BY <2>1, <2>2
<1>5. CASE HandlerReturns(w)
  BY <1>5, VerdictIInv DEF HandlerReturns, IInv, TypeOK
<1>6. CASE HandlerThrows(w)
  <2>1. throws' \in 0..MaxThrows
    BY <1>6, BoundsAssumption DEF HandlerThrows, IInv, TypeOK
  <2>2. CASE params.retry
    BY <1>6, <2>1, <2>2, MoveIInv DEF HandlerThrows
  <2>3. CASE ~params.retry
    BY <1>6, <2>1, <2>3, VerdictIInv DEF HandlerThrows
  <2> QED
    BY <2>2, <2>3
<1>7. CASE Finish(w)
  BY <1>7, FinishIInv
<1> QED
  BY <1>1, <1>2, <1>3, <1>4, <1>5, <1>6, <1>7 DEF Worker

\* The shutdown keeps the inductive invariant.
LEMMA ShutdownIInv == ASSUME IInv, AtStopDeadline \/ Stop \/ Join \/ Expire PROVE IInv'
<1> USE DEF IInv
<1>1. CASE AtStopDeadline
  <2>1. TypeOK'
    BY <1>1 DEF AtStopDeadline, TypeOK, queueVars
  <2>2. Accounting' /\ OneOwner' /\ Control'
    BY <1>1 DEF AtStopDeadline, Accounting, OneOwner, Control, Holding, queueVars
  <2>3. Stopping'
    BY <1>1 DEF AtStopDeadline, Stopping, queueVars
  <2>4. LingerHolds'
    BY <1>1 DEF AtStopDeadline, Stopping, LingerHolds, queueVars
  <2> QED
    BY <2>1, <2>2, <2>3, <2>4
<1>2. CASE Stop
  <2>1. /\ pc' \in [Workers -> PCs]
        /\ \A v \in Workers : pc'[v] = pc[v] \/ (pc[v] = "blocked" /\ pc'[v] = "awake")
    BY <1>2 DEF Stop, WakeupAll, TypeOK, PCs
  <2>2. m_Stop' \in BOOLEAN
    BY <1>2, Zenon DEF Stop
  <2>3. TypeOK'
    BY <1>2, <2>1, <2>2, BoundsAssumption DEF Stop, TypeOK
  <2>4. Accounting' /\ OneOwner'
    BY <1>2 DEF Stop, Accounting, OneOwner, Holding
  <2>5. Control'
    BY <1>2, <2>1 DEF Stop, Control
  <2>6. Stopping'
    BY <1>2, <2>1 DEF Stop, Stopping, TypeOK
  <2>7. LingerHolds'
    BY <1>2, <2>1 DEF Stop, Stopping, LingerHolds
  <2> QED
    BY <2>3, <2>4, <2>5, <2>6, <2>7
<1>3. CASE Join \/ Expire
  <2>1. TypeOK'
    BY <1>3 DEF Join, Expire, TypeOK, queueVars
  <2>2. Accounting' /\ OneOwner' /\ Control'
    BY <1>3 DEF Join, Expire, Accounting, OneOwner, Control, Holding, queueVars
  <2>3. Stopping' /\ LingerHolds'
    BY <1>3 DEF Join, Expire, Stopping, LingerHolds, queueVars
  <2> QED
    BY <2>1, <2>2, <2>3
<1> QED
  BY <1>1, <1>2, <1>3

\* IInv is an inductive invariant of the queue and its workers.
THEOREM Inductive == Spec => []IInv
<1>1. IInv /\ [Next]_vars => IInv'
  <2> SUFFICES ASSUME IInv, [Next]_vars PROVE IInv'
    OBVIOUS
  <2>1. CASE Insert
    BY <2>1, InsertIInv
  <2>2. CASE \E w \in Workers : Worker(w) \/ Timeout(w)
    BY <2>2, WorkerIInv
  <2>3. CASE AtStopDeadline \/ Stop \/ Join \/ Expire
    BY <2>3, ShutdownIInv
  <2>4. CASE UNCHANGED vars
    BY <2>4 DEF vars, IInv, TypeOK, Control, Accounting, OneOwner, Stopping, LingerHolds, Holding
  <2> QED
    BY <2>1, <2>2, <2>3, <2>4 DEF Next, Joined
<1> QED
  BY InitIInv, <1>1, PTL DEF Spec

\* Type correctness of SafeQueueThread, and m_Done never passes m_Counter.
THEOREM TypeCorrect == Spec => []TypeOK
BY Inductive, PTL DEF IInv

\* Every inserted item is queued, in one hand or counted done.
THEOREM AccountingHolds == Spec => []Accounting
BY Inductive, PTL DEF IInv

\* The queue hands every item to one worker, in insertion order.
THEOREM OneOwnerHolds == Spec => []OneOwner
BY Inductive, PTL DEF IInv

\* The linger promise of the shutdown, in either order of idle()'s two reads.
THEOREM LingerPromise == Spec => []LingerHolds
BY Inductive, PTL DEF IInv

=============================================================================

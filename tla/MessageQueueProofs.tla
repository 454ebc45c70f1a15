------------------------- MODULE MessageQueueProofs -------------------------
(***************************************************************************)
(* The safety of MessageQueue for every set of producers, consumers and    *)
(* task names.  Locks: only the transaction that has the row of            *)
(* mq_producer, or the gap where the first row will be, has uncommitted    *)
(* rows of mq_data, and nobody else can commit any meanwhile.  Pending:    *)
(* those rows continue the committed ones without a hole up to sPosition.  *)
(* Unique: is_exists() has looked at all the rows there are.  Progress:    *)
(* what a Consumer object is past and has not committed it works on now,   *)
(* or left behind in a failure.                                            *)
(***************************************************************************)
EXTENDS MessageQueue, TLAPS, FiniteSetTheorems, SequenceTheorems

TypeOK ==
  /\ mq_data \in Seq(Names)
  /\ mq_producer \in Nat \cup {NoRow}
  /\ rowLock \in Producers \cup {Nobody}
  /\ gapLock \in SUBSET Producers
  /\ pc \in [Producers -> {"begin", "select", "exists", "data", "position", "next", "end"}]
  /\ sPosition \in [Producers -> Nat]
  /\ aTask \in [Producers -> Names]
  /\ added \in [Producers -> SUBSET (Nat \X Names)]
  /\ snapshot \in [Producers -> Nat \cup {NoRow}]
  /\ calls \in [Producers -> Nat]
  /\ mq_consumer \in [Consumers -> Nat]
  /\ m_Position \in [Consumers -> Nat]
  /\ sTasks \in [Consumers -> SUBSET Nat]
  /\ cpc \in [Consumers -> {"init", "select", "work"}]
  /\ faults \in Nat
  /\ early \in SUBSET Producers
  /\ consumed \in [Consumers -> [Serials -> Nat]]
  /\ skipped \in [Consumers -> SUBSET Nat]

\* The producer's transaction has locked the row of the queue, or its gap.
Holds(p) == rowLock = p \/ p \in gapLock

\* Who has the row locked has no rival in the gap, and once there is a row there
\* is no gap; who is inside insert(), or has uncommitted rows, has one of them.
LocksOf(p) ==
  /\ pc[p] \in {"exists", "data", "position", "next"} => Holds(p)
  /\ Holds(p) => pc[p] \in {"select", "exists", "data", "position", "next"}
  /\ added[p] # {} => rowLock = p \/ (p \in gapLock /\ pc[p] = "position")
Locks ==
  /\ rowLock # Nobody => gapLock \subseteq {rowLock}
  /\ mq_producer # NoRow => gapLock = {}
  /\ \A p \in Producers : LocksOf(p)

\* The last serial that the transaction has inserted: sPosition++ comes first.
Top(p) == IF pc[p] = "data" THEN sPosition[p] - 1 ELSE sPosition[p]

\* The uncommitted rows have the serials after the committed ones, each once.
PendingOf(p) ==
  /\ IsFiniteSet(added[p]) /\ Len(mq_data) + Cardinality(added[p]) = Top(p)
  /\ \A r \in added[p] : Len(mq_data) < r[1] /\ r[1] <= Top(p)
  /\ \A s \in (Len(mq_data) + 1)..Top(p) : \E r \in added[p] : r[1] = s
  /\ \A r, q \in added[p] : r[1] = q[1] => r = q
Pending == \A p \in Producers : Holds(p) => PendingOf(p)

\* No task twice among the committed rows, among those of a transaction, or
\* between them; after is_exists() not with the task to insert either.
Rows(p) == {mq_data[i] : i \in 1..Len(mq_data)} \cup {r[2] : r \in added[p]}
UniqueOf(p) ==
  /\ \A r, q \in added[p] : r[2] = q[2] => r = q
  /\ \A r \in added[p] : \A i \in 1..Len(mq_data) : mq_data[i] # r[2]
  /\ pc[p] = "data" => aTask[p] \notin Rows(p)
SnapshotOf(p) ==
  pc[p] # "end" => snapshot[p] = NoRow \/ (Holds(p) /\ snapshot[p] = Len(mq_data))
Unique ==
  early = {} =>
    /\ \A i, j \in 1..Len(mq_data) : i # j => mq_data[i] # mq_data[j]
    /\ \A p \in Producers : SnapshotOf(p) /\ (Holds(p) => UniqueOf(p))

ProgressOf(c) ==
  /\ mq_consumer[c] <= Len(mq_data) /\ m_Position[c] <= Len(mq_data)
  /\ cpc[c] # "work" => sTasks[c] = {}
  /\ cpc[c] # "init" => mq_consumer[c] <= m_Position[c]
  /\ \A s \in sTasks[c] : mq_consumer[c] < s /\ s <= m_Position[c]
  /\ cpc[c] # "init" =>
       \A s \in (mq_consumer[c] + 1)..m_Position[c] : s \in sTasks[c] \cup skipped[c]
Progress == \A c \in Consumers : ProgressOf(c)

IInv == TypeOK /\ Locks /\ Pending /\ PositionIsLast /\ Unique /\ Progress /\ ConsumedOnce

-----------------------------------------------------------------------------
\* Whatever a transaction has locked is its own: a producer is not Nobody.
LEMMA HoldsFacts ==
  ASSUME TypeOK, NEW p \in Producers
  PROVE  p # Nobody
BY ProducersAssumption

\* Serials are positive numbers.
LEMMA SerialFacts == \A s \in Serials : s \in Nat /\ s > 0
<1>1. Cardinality(Producers) \in Nat
  BY ProducersAssumption, FS_CardinalityType
<1>2. MaxSerial \in Int
  BY <1>1, QueueAssumption DEF MaxSerial
<1> QED
  BY <1>2 DEF Serials

\* Init establishes the invariant.
LEMMA InitIInv == Init => IInv
<1> SUFFICES ASSUME Init PROVE IInv
  OBVIOUS
<1>1. TypeOK
  <2>1. mq_data \in Seq(Names) /\ mq_producer \in Nat \cup {NoRow}
    BY EmptySeq DEF Init
  <2>2. consumed \in [Consumers -> [Serials -> Nat]]
    BY DEF Init
  <2>3. /\ rowLock \in Producers \cup {Nobody} /\ gapLock \in SUBSET Producers
        /\ snapshot \in [Producers -> Nat \cup {NoRow}]
        /\ added \in [Producers -> SUBSET (Nat \X Names)]
        /\ faults \in Nat /\ early \in SUBSET Producers
    BY DEF Init
  <2> QED
    BY <2>1, <2>2, <2>3 DEF Init, TypeOK
<1>2. Locks /\ Pending
  BY HoldsFacts, <1>1 DEF Init, Locks, LocksOf, Pending, Holds
<1>3. PositionIsLast
  BY DEF Init, PositionIsLast
<1>4. Unique
  <2>1. \A i \in 1..Len(mq_data) : FALSE
    BY EmptySeq DEF Init
  <2> QED
    BY <2>1, HoldsFacts, <1>1 DEF Init, Unique, SnapshotOf, Holds
<1>5. Progress
  BY EmptySeq DEF Init, Progress, ProgressOf
<1>6. ConsumedOnce
  BY SerialFacts DEF Init, ConsumedOnce
<1> QED
  BY <1>1, <1>2, <1>3, <1>4, <1>5, <1>6 DEF IInv

-----------------------------------------------------------------------------
(* The steps of a producer.                                                *)

\* A step of p that commits nothing leaves the others' transactions alone.
Frame(p) ==
  /\ UNCHANGED <<mq_data, mq_producer, consumerVars>>
  /\ early \subseteq early'
  /\ \A q \in Producers \ {p} :
       /\ pc'[q] = pc[q] /\ sPosition'[q] = sPosition[q] /\ aTask'[q] = aTask[q]
       /\ added'[q] = added[q] /\ snapshot'[q] = snapshot[q]
       /\ (rowLock' = q <=> rowLock = q) /\ (q \in gapLock' <=> q \in gapLock)

\* So only p's own part of the invariant has to be looked at.
LEMMA FrameLemma ==
  ASSUME IInv, NEW p \in Producers, Frame(p), TypeOK',
         rowLock' # Nobody => gapLock' \subseteq {rowLock'},
         mq_producer' # NoRow => gapLock' = {},
         LocksOf(p)', Holds(p)' => PendingOf(p)',
         early' = {} => SnapshotOf(p)' /\ (Holds(p)' => UniqueOf(p)')
  PROVE  IInv'
<1> USE DEF IInv
<1>1. Locks'
  BY DEF Locks, LocksOf, Frame, Holds
<1>2. Pending'
  <2> SUFFICES ASSUME NEW q \in Producers, Holds(q)', q # p PROVE PendingOf(q)'
    BY DEF Pending
  <2>1. PendingOf(q)
    BY DEF Pending, Frame, Holds
  <2>2. Top(q)' = Top(q) /\ added'[q] = added[q] /\ mq_data' = mq_data
    BY DEF Frame, Top
  <2> QED
    BY <2>1, <2>2 DEF PendingOf
<1>3. PositionIsLast' /\ Progress' /\ ConsumedOnce'
  BY DEF PositionIsLast, Frame, consumerVars, Progress, ProgressOf, ConsumedOnce
<1>4. Unique'
  <2> SUFFICES ASSUME early' = {}
               PROVE  Unique'
    BY DEF Unique
  <2>1. early = {}
    BY DEF Frame
  <2>2. ASSUME NEW q \in Producers \ {p}
        PROVE  SnapshotOf(q)' /\ (Holds(q)' => UniqueOf(q)')
    <3>1. SnapshotOf(q) /\ (Holds(q) => UniqueOf(q))
      BY <2>1 DEF Unique
    <3>2. /\ Holds(q)' <=> Holds(q)
          /\ added'[q] = added[q] /\ mq_data' = mq_data /\ snapshot'[q] = snapshot[q]
          /\ pc'[q] = pc[q] /\ aTask'[q] = aTask[q]
      BY DEF Frame, Holds
    <3> QED
      BY <3>1, <3>2 DEF SnapshotOf, UniqueOf, Rows
  <2>3. \A i, j \in 1..Len(mq_data') : i # j => mq_data'[i] # mq_data'[j]
    BY <2>1 DEF Unique, Frame
  <2> QED
    BY <2>2, <2>3 DEF Unique
<1> QED
  BY <1>1, <1>2, <1>3, <1>4

\* BEGIN, and what the user may read before insert().
LEMMA BeginIInv ==
  ASSUME IInv, NEW p \in Producers, Begin(p)
  PROVE  IInv'
<1> USE DEF IInv
<1>1. /\ pc[p] = "begin" /\ pc' = [pc EXCEPT ![p] = "select"]
      /\ UNCHANGED <<tables, locks, sPosition, aTask, added, calls, consumerVars, faults>>
      /\ \/ snapshot' = snapshot /\ early' = early
         \/ snapshot' = [snapshot EXCEPT ![p] = Len(mq_data)] /\ early' = early \cup {p}
  BY DEF Begin, Step
<1>2. Len(mq_data) \in Nat
  BY LenProperties DEF TypeOK
<1>3. Frame(p)
  BY <1>1 DEF Frame, TypeOK, tables, locks
<1>4. TypeOK'
  <2>1. /\ pc' \in [Producers -> {"begin", "select", "exists", "data", "position", "next", "end"}]
        /\ snapshot' \in [Producers -> Nat \cup {NoRow}] /\ early' \in SUBSET Producers
    BY <1>1, <1>2 DEF TypeOK
  <2>2. UNCHANGED <<tables, locks, sPosition, aTask, added, calls, consumerVars, faults>>
    BY <1>1
  <2> QED
    BY <2>1, <2>2 DEF TypeOK, tables, locks, consumerVars
<1>5. ~Holds(p) /\ ~Holds(p)' /\ added[p] = {} /\ added'[p] = {} /\ pc'[p] = "select"
  BY <1>1 DEF Locks, LocksOf, Holds, locks, TypeOK
<1>6. /\ rowLock' # Nobody => gapLock' \subseteq {rowLock'}
      /\ mq_producer' # NoRow => gapLock' = {}
  BY <1>1 DEF Locks, locks, tables
<1>7. LocksOf(p)'
  BY <1>5 DEF LocksOf
<1>8. early' = {} => SnapshotOf(p)'
  BY <1>1, <1>5 DEF Unique, SnapshotOf
<1> QED
  BY <1>3, <1>4, <1>5, <1>6, <1>7, <1>8, FrameLemma

\* SELECT ... FOR UPDATE takes the row, or the gap where it will be.
LEMMA SelectForUpdateIInv ==
  ASSUME IInv, NEW p \in Producers, SelectForUpdate(p)
  PROVE  IInv'
<1> USE DEF IInv
<1>1. /\ pc[p] = "select" /\ pc' = [pc EXCEPT ![p] = "exists"]
      /\ UNCHANGED <<tables, aTask, added, snapshot, calls, early, consumerVars, faults>>
  BY DEF SelectForUpdate, Step
<1>2. Len(mq_data) \in Nat /\ NoRow \notin Nat
  BY LenProperties DEF TypeOK, NoRow
<1>3. /\ sPosition' \in [Producers -> Nat] /\ rowLock' \in Producers \cup {Nobody}
      /\ gapLock' \in SUBSET Producers
      /\ \A q \in Producers \ {p} : sPosition'[q] = sPosition[q]
                 /\ (rowLock' = q <=> rowLock = q) /\ (q \in gapLock' <=> q \in gapLock)
  BY HoldsFacts DEF SelectForUpdate, TypeOK, locks
<1>4. pc' \in [Producers -> {"begin", "select", "exists", "data", "position", "next", "end"}]
      /\ pc'[p] = "exists" /\ \A q \in Producers \ {p} : pc'[q] = pc[q]
  BY <1>1 DEF TypeOK
<1>5. Frame(p)
  BY <1>1, <1>3, <1>4 DEF Frame, tables
<1>6. TypeOK'
  BY <1>1, <1>3, <1>4 DEF TypeOK, tables, consumerVars
<1>7. /\ rowLock' # Nobody => gapLock' \subseteq {rowLock'}
      /\ mq_producer' # NoRow => gapLock' = {}
      /\ Holds(p)' /\ (rowLock = p => rowLock' = p)
  BY <1>1 DEF SelectForUpdate, Locks, Holds, locks, tables
<1>8. LocksOf(p)'
  <2>1. added'[p] # {} => rowLock = p
    BY <1>1 DEF Locks, LocksOf
  <2> QED
    BY <1>4, <1>7, <2>1 DEF LocksOf
<1>9. PendingOf(p)'
  <2>1. CASE rowLock = p
    <3>1. PendingOf(p) /\ sPosition'[p] = sPosition[p]
      BY <2>1, HoldsFacts DEF SelectForUpdate, Pending, Holds
    <3>2. Top(p)' = Top(p) /\ added'[p] = added[p] /\ mq_data' = mq_data
      BY <1>1, <1>4, <3>1 DEF Top, tables
    <3> QED
      BY <3>1, <3>2 DEF PendingOf
  <2>2. CASE rowLock # p
    <3>1. added'[p] = {} /\ mq_data' = mq_data
      BY <1>1, <2>2 DEF Locks, LocksOf, tables
    <3>2. sPosition'[p] = Len(mq_data)
      BY <1>2, <2>2, EmptySeq DEF SelectForUpdate, PositionIsLast, TypeOK
    <3>3. Top(p)' = Len(mq_data)
      BY <1>4, <3>2 DEF Top
    <3> QED
      BY <1>2, <3>1, <3>3, FS_EmptySet DEF PendingOf
  <2> QED
    BY <2>1, <2>2
<1>10. ASSUME early' = {} PROVE SnapshotOf(p)' /\ UniqueOf(p)'
  <2>1. SnapshotOf(p) /\ (Holds(p) => UniqueOf(p))
    BY <1>1, <1>10 DEF Unique
  <2>2. SnapshotOf(p)'
    BY <1>1, <1>7, <2>1 DEF SnapshotOf, tables
  <2>3. added[p] # {} => Holds(p)
    BY DEF Locks, LocksOf, Holds
  <2>4. added'[p] = added[p] /\ mq_data' = mq_data /\ pc'[p] # "data"
    BY <1>1, <1>4 DEF tables
  <2>5. CASE added[p] = {}
    BY <2>2, <2>4, <2>5 DEF UniqueOf
  <2>6. CASE added[p] # {}
    BY <2>1, <2>2, <2>3, <2>4, <2>6 DEF UniqueOf
  <2> QED
    BY <2>5, <2>6
<1> QED
  BY <1>5, <1>6, <1>7, <1>8, <1>9, <1>10, FrameLemma

\* is_exists() reads the snapshot of the transaction.
LEMMA ExistsIInv ==
  ASSUME IInv, NEW p \in Producers, Exists(p)
  PROVE  IInv'
<1> USE DEF IInv
<1> DEFINE seen == IF snapshot[p] = NoRow THEN Len(mq_data) ELSE snapshot[p]
           found == \/ \E s \in 1..seen : mq_data[s] = aTask[p]
                    \/ \E r \in added[p] : r[2] = aTask[p]
<1>1. /\ pc[p] = "exists" /\ pc' = [pc EXCEPT ![p] = IF found THEN "next" ELSE "data"]
      /\ snapshot' = [snapshot EXCEPT ![p] = seen]
      /\ sPosition' = [sPosition EXCEPT ![p] = IF found THEN sPosition[p] ELSE sPosition[p] + 1]
      /\ UNCHANGED <<tables, locks, aTask, added, calls, early, consumerVars, faults>>
  BY DEF Exists, Step
<1>2. seen \in Nat
  BY LenProperties DEF TypeOK
<1>3. /\ early = {} => seen = Len(mq_data)
      /\ (\A s \in 1..seen : mq_data[s] # aTask[p]) /\ (\A r \in added[p] : r[2] # aTask[p])
           <=> ~found
  BY <1>1 DEF Unique, SnapshotOf
<1> HIDE DEF seen, found
<1>4. /\ pc' \in [Producers -> {"begin", "select", "exists", "data", "position", "next", "end"}]
      /\ sPosition' \in [Producers -> Nat] /\ snapshot' \in [Producers -> Nat \cup {NoRow}]
      /\ pc'[p] = (IF found THEN "next" ELSE "data")
      /\ sPosition'[p] = (IF found THEN sPosition[p] ELSE sPosition[p] + 1)
      /\ snapshot'[p] = seen /\ sPosition[p] \in Nat
      /\ \A q \in Producers \ {p} : pc'[q] = pc[q] /\ sPosition'[q] = sPosition[q]
                                      /\ snapshot'[q] = snapshot[q]
  BY <1>1, <1>2 DEF TypeOK
<1>5. UNCHANGED <<tables, locks, aTask, added, calls, early, consumerVars, faults>>
  BY <1>1
<1>6. Frame(p)
  BY <1>4, <1>5 DEF Frame, tables, locks
<1>7. TypeOK'
  BY <1>4, <1>5 DEF TypeOK, tables, locks, consumerVars
<1>8. /\ rowLock' # Nobody => gapLock' \subseteq {rowLock'}
      /\ mq_producer' # NoRow => gapLock' = {}
      /\ Holds(p) /\ Holds(p)'
  BY <1>1 DEF Locks, LocksOf, Holds, tables, locks
<1>9. LocksOf(p)'
  <2>1. added'[p] # {} => rowLock' = p
    BY <1>1 DEF Locks, LocksOf, locks
  <2> QED
    BY <1>4, <1>8, <2>1 DEF LocksOf
<1>10. PendingOf(p)'
  <2>1. Top(p)' = Top(p) /\ added'[p] = added[p] /\ mq_data' = mq_data
    BY <1>1, <1>4 DEF Top, tables
  <2> QED
    BY <1>8, <2>1 DEF Pending, PendingOf
<1>11. ASSUME early' = {} PROVE SnapshotOf(p)' /\ UniqueOf(p)'
  <2>1. UniqueOf(p) /\ seen = Len(mq_data) /\ added'[p] = added[p] /\ mq_data' = mq_data
        /\ aTask'[p] = aTask[p]
    BY <1>1, <1>3, <1>8, <1>11 DEF Unique, tables
  <2>2. SnapshotOf(p)'
    BY <1>4, <1>8, <2>1 DEF SnapshotOf
  <2>3. pc'[p] = "data" => aTask[p] \notin Rows(p)
    BY <1>3, <1>4, <2>1 DEF Rows
  <2>4. pc'[p] = "data" => aTask'[p] \notin Rows(p)'
    BY <2>1, <2>3 DEF Rows
  <2> QED
    BY <2>1, <2>2, <2>4 DEF UniqueOf
<1> QED
  BY <1>6, <1>7, <1>8, <1>9, <1>10, <1>11, FrameLemma

\* The row inserted is the next one, and is_exists() has not found its task.
LEMMA InsertDataIInv ==
  ASSUME IInv, NEW p \in Producers, InsertData(p)
  PROVE  IInv'
<1> USE DEF IInv
<1> DEFINE new == <<sPosition[p], aTask[p]>>
<1>1. /\ pc[p] = "data" /\ pc' = [pc EXCEPT ![p] = "position"]
      /\ added' = [added EXCEPT ![p] = added[p] \cup {new}]
      /\ UNCHANGED <<tables, locks, sPosition, aTask, snapshot, calls, early, consumerVars, faults>>
  BY DEF InsertData, Step
<1>2. /\ new \in Nat \X Names /\ new[1] = sPosition[p] /\ new[2] = aTask[p]
      /\ sPosition[p] \in Nat /\ Len(mq_data) \in Nat
      /\ added[p] \in SUBSET (Nat \X Names)
  BY LenProperties DEF TypeOK
<1> HIDE DEF new
<1>3. /\ pc' \in [Producers -> {"begin", "select", "exists", "data", "position", "next", "end"}]
      /\ pc'[p] = "position" /\ \A q \in Producers \ {p} : pc'[q] = pc[q]
  BY <1>1 DEF TypeOK
<1>4. /\ added' \in [Producers -> SUBSET (Nat \X Names)]
      /\ added'[p] = added[p] \cup {new} /\ \A q \in Producers \ {p} : added'[q] = added[q]
  BY <1>1, <1>2 DEF TypeOK
<1>5. UNCHANGED <<tables, locks, sPosition, aTask, snapshot, calls, early, consumerVars, faults>>
  BY <1>1
<1>6. Frame(p)
  BY <1>3, <1>4, <1>5 DEF Frame, tables, locks
<1>7. TypeOK'
  BY <1>3, <1>4, <1>5 DEF TypeOK, tables, locks, consumerVars
<1>8. /\ rowLock' # Nobody => gapLock' \subseteq {rowLock'}
      /\ mq_producer' # NoRow => gapLock' = {}
      /\ Holds(p) /\ Holds(p)'
  BY <1>1 DEF Locks, LocksOf, Holds, tables, locks
<1>9. LocksOf(p)'
  BY <1>3, <1>8 DEF LocksOf, Holds
<1>10. /\ PendingOf(p) /\ Top(p) = sPosition[p] - 1 /\ Top(p)' = sPosition[p]
       /\ mq_data' = mq_data
  BY <1>1, <1>3, <1>8 DEF Pending, Top, tables
<1>11. PendingOf(p)'
  <2>1. /\ IsFiniteSet(added[p]) /\ Len(mq_data) + Cardinality(added[p]) = sPosition[p] - 1
        /\ \A r \in added[p] : Len(mq_data) < r[1] /\ r[1] <= sPosition[p] - 1
    BY <1>10 DEF PendingOf
  <2>2. new \notin added[p] /\ \A r \in added[p] : r[1] # new[1]
    BY <1>2, <2>1
  <2>3. /\ IsFiniteSet(added'[p]) /\ Cardinality(added'[p]) = Cardinality(added[p]) + 1
        /\ Cardinality(added[p]) \in Nat
    BY <1>4, <2>1, <2>2, FS_AddElement, FS_CardinalityType
  <2>4. \A s \in (Len(mq_data) + 1)..sPosition[p] : \E r \in added'[p] : r[1] = s
    BY <1>2, <1>4, <1>10 DEF PendingOf
  <2>5. \A r, q \in added'[p] : r[1] = q[1] => r = q
    BY <1>4, <1>10, <2>2 DEF PendingOf
  <2>6. \A r \in added'[p] : Len(mq_data) < r[1] /\ r[1] <= sPosition[p]
    BY <1>2, <1>4, <2>1, <2>3
  <2>7. Len(mq_data) + Cardinality(added'[p]) = sPosition[p]
    BY <1>2, <2>1, <2>3
  <2> QED
    BY <1>10, <2>3, <2>4, <2>5, <2>6, <2>7 DEF PendingOf
<1>12. ASSUME early' = {} PROVE SnapshotOf(p)' /\ UniqueOf(p)'
  <2>1. UniqueOf(p) /\ SnapshotOf(p)
    BY <1>1, <1>8, <1>12 DEF Unique
  <2>2. /\ \A r \in added[p] : r[2] # aTask[p]
        /\ \A i \in 1..Len(mq_data) : mq_data[i] # aTask[p]
    BY <1>1, <2>1 DEF UniqueOf, Rows
  <2>3. SnapshotOf(p)'
    BY <1>1, <1>3, <1>8, <2>1 DEF SnapshotOf, tables
  <2>4. /\ \A r, q \in added'[p] : r[2] = q[2] => r = q
        /\ \A r \in added'[p] : \A i \in 1..Len(mq_data) : mq_data[i] # r[2]
    BY <1>2, <1>4, <2>1, <2>2 DEF UniqueOf
  <2> QED
    BY <1>3, <1>10, <2>3, <2>4 DEF UniqueOf
<1> QED
  BY <1>6, <1>7, <1>8, <1>9, <1>11, <1>12, FrameLemma

\* The row of mq_producer is written; against another's gap lock this waits or
\* ends in a deadlock.
LEMMA InsertPositionIInv ==
  ASSUME IInv, NEW p \in Producers, InsertPosition(p)
  PROVE  IInv'
<1> USE DEF IInv
<1>1. /\ pc[p] = "position" /\ pc' = [pc EXCEPT ![p] = "next"]
      /\ rowLock = p \/ (rowLock = Nobody /\ gapLock \subseteq {p})
      /\ rowLock' = p
      /\ UNCHANGED <<tables, gapLock, sPosition, aTask, added, snapshot, calls, early,
                     consumerVars, faults>>
  BY DEF InsertPosition, Step
<1>2. /\ pc' \in [Producers -> {"begin", "select", "exists", "data", "position", "next", "end"}]
      /\ pc'[p] = "next" /\ \A q \in Producers \ {p} : pc'[q] = pc[q]
  BY <1>1 DEF TypeOK
<1>3. Frame(p)
  BY <1>1, <1>2, HoldsFacts DEF Frame, tables
<1>4. TypeOK'
  BY <1>1, <1>2 DEF TypeOK, tables, consumerVars
<1>5. /\ gapLock' \subseteq {rowLock'} /\ (mq_producer' # NoRow => gapLock' = {})
      /\ Holds(p) /\ Holds(p)'
  BY <1>1, HoldsFacts DEF Locks, LocksOf, Holds, tables
<1>6. LocksOf(p)'
  BY <1>1, <1>2, <1>5 DEF LocksOf
<1>7. PendingOf(p)'
  <2>1. Top(p)' = Top(p) /\ added'[p] = added[p] /\ mq_data' = mq_data
    BY <1>1, <1>2 DEF Top, tables
  <2> QED
    BY <1>5, <2>1 DEF Pending, PendingOf
<1>8. early' = {} => SnapshotOf(p)' /\ UniqueOf(p)'
  <2>1. early' = {} => UniqueOf(p) /\ SnapshotOf(p)
    BY <1>1, <1>5 DEF Unique
  <2> QED
    BY <1>1, <1>2, <1>5, <2>1 DEF SnapshotOf, UniqueOf, tables
<1> QED
  BY <1>3, <1>4, <1>5, <1>6, <1>7, <1>8, FrameLemma

\* Another insert() in the same transaction.
LEMMA AgainIInv ==
  ASSUME IInv, NEW p \in Producers, Again(p)
  PROVE  IInv'
<1> USE DEF IInv
<1>1. /\ pc[p] = "next" /\ pc' = [pc EXCEPT ![p] = "select"]
      /\ calls' = [calls EXCEPT ![p] = calls[p] + 1]
      /\ \E t \in Names : aTask' = [aTask EXCEPT ![p] = t]
      /\ UNCHANGED <<tables, locks, sPosition, added, snapshot, early, consumerVars, faults>>
  BY DEF Again, Step
<1>2. /\ pc' \in [Producers -> {"begin", "select", "exists", "data", "position", "next", "end"}]
      /\ pc'[p] = "select" /\ \A q \in Producers \ {p} : pc'[q] = pc[q]
  BY <1>1 DEF TypeOK
<1>3. aTask' \in [Producers -> Names] /\ \A q \in Producers \ {p} : aTask'[q] = aTask[q]
  BY <1>1 DEF TypeOK
<1>4. calls' \in [Producers -> Nat]
  BY <1>1 DEF TypeOK
<1>5. UNCHANGED <<tables, locks, sPosition, added, snapshot, early, consumerVars, faults>>
  BY <1>1
<1>6. Frame(p)
  BY <1>2, <1>3, <1>5 DEF Frame, tables, locks
<1>7. TypeOK'
  BY <1>2, <1>3, <1>4, <1>5 DEF TypeOK, tables, locks, consumerVars
<1>8. /\ rowLock' # Nobody => gapLock' \subseteq {rowLock'}
      /\ mq_producer' # NoRow => gapLock' = {}
      /\ Holds(p) /\ Holds(p)'
  BY <1>1 DEF Locks, LocksOf, Holds, tables, locks
<1>9. LocksOf(p)'
  <2>1. added'[p] # {} => rowLock' = p
    BY <1>1 DEF Locks, LocksOf, locks
  <2> QED
    BY <1>2, <1>8, <2>1 DEF LocksOf
<1>10. PendingOf(p)'
  <2>1. Top(p)' = Top(p) /\ added'[p] = added[p] /\ mq_data' = mq_data
    BY <1>1, <1>2 DEF Top, tables
  <2> QED
    BY <1>8, <2>1 DEF Pending, PendingOf
<1>11. early' = {} => SnapshotOf(p)' /\ UniqueOf(p)'
  <2>1. early' = {} => UniqueOf(p) /\ SnapshotOf(p)
    BY <1>1, <1>8 DEF Unique
  <2> QED
    BY <1>1, <1>2, <1>5, <1>8, <2>1 DEF SnapshotOf, UniqueOf, tables
<1> QED
  BY <1>6, <1>7, <1>8, <1>9, <1>10, <1>11, FrameLemma

\* After a rollback nothing of the transaction is left.
LEMMA RollbackIInv ==
  ASSUME IInv, NEW p \in Producers, Rollback(p), faults' \in Nat
  PROVE  IInv'
<1> USE DEF IInv
<1>1. /\ pc' = [pc EXCEPT ![p] = "begin"]
      /\ added' = [added EXCEPT ![p] = {}]
      /\ snapshot' = [snapshot EXCEPT ![p] = NoRow]
      /\ calls' = [calls EXCEPT ![p] = 0]
      /\ UNCHANGED <<tables, sPosition, aTask, early, consumerVars>>
  BY DEF Rollback
<1>2. /\ pc' \in [Producers -> {"begin", "select", "exists", "data", "position", "next", "end"}]
      /\ pc'[p] = "begin" /\ \A q \in Producers \ {p} : pc'[q] = pc[q]
  BY <1>1 DEF TypeOK
<1>3. /\ added' \in [Producers -> SUBSET (Nat \X Names)]
      /\ added'[p] = {} /\ \A q \in Producers \ {p} : added'[q] = added[q]
  BY <1>1 DEF TypeOK
<1>4. /\ snapshot' \in [Producers -> Nat \cup {NoRow}] /\ calls' \in [Producers -> Nat]
      /\ snapshot'[p] = NoRow /\ \A q \in Producers \ {p} : snapshot'[q] = snapshot[q]
  BY <1>1 DEF TypeOK
<1>5. /\ rowLock' \in Producers \cup {Nobody} /\ gapLock' \in SUBSET Producers
      /\ ~Holds(p)' /\ gapLock' \subseteq gapLock /\ rowLock' \in {rowLock, Nobody}
      /\ \A q \in Producers \ {p} : (rowLock' = q <=> rowLock = q) /\ (q \in gapLock' <=> q \in gapLock)
  BY HoldsFacts DEF Rollback, Unlock, TypeOK, Holds
<1>6. UNCHANGED <<tables, sPosition, aTask, early, consumerVars>>
  BY <1>1
<1>7. Frame(p)
  BY <1>2, <1>3, <1>4, <1>5, <1>6 DEF Frame, tables
<1>8. TypeOK'
  BY <1>2, <1>3, <1>4, <1>5, <1>6 DEF TypeOK, tables, consumerVars
<1>9. /\ rowLock' # Nobody => gapLock' \subseteq {rowLock'}
      /\ mq_producer' # NoRow => gapLock' = {}
  BY <1>5, <1>6 DEF Locks, tables
<1>10. LocksOf(p)' /\ SnapshotOf(p)'
  BY <1>2, <1>3, <1>4, <1>5 DEF LocksOf, SnapshotOf
<1> QED
  BY <1>5, <1>7, <1>8, <1>9, <1>10, FrameLemma

\* A function on 1..n is a sequence of n elements.
LEMMA FunctionIsSeq ==
  ASSUME NEW S, NEW n \in Nat, NEW f \in [1..n -> S]
  PROVE  f \in Seq(S) /\ Len(f) = n
<1>1. f \in Seq(S)
  BY SeqDef
<1>2. Len(f) \in Nat /\ 1..Len(f) = 1..n
  BY <1>1, LenProperties
<1>3. \A i \in Int : (1 <= i /\ i <= Len(f)) <=> (1 <= i /\ i <= n)
  BY <1>2
<1> QED
  BY <1>1, <1>2, <1>3

\* What COMMIT appends to the queue: the transaction's rows, in their order.
Appended(p) == [i \in 1..Cardinality(added[p]) |->
                  (CHOOSE r \in added[p] : r[1] = Len(mq_data) + i)[2]]

\* The rows of a transaction as the sequence by which COMMIT extends mq_data.
LEMMA AppendedFacts ==
  ASSUME TypeOK, NEW p \in Producers, PendingOf(p), pc[p] = "next"
  PROVE  /\ Cardinality(added[p]) \in Nat /\ Len(mq_data) \in Nat
         /\ Len(mq_data) + Cardinality(added[p]) = sPosition[p]
         /\ Appended(p) \in Seq(Names) /\ Len(Appended(p)) = Cardinality(added[p])
         /\ \A i \in 1..Cardinality(added[p]) :
              \E r \in added[p] : r[1] = Len(mq_data) + i /\ Appended(p)[i] = r[2]
<1> DEFINE k == Cardinality(added[p])
<1>1. k \in Nat /\ Len(mq_data) \in Nat /\ Len(mq_data) + k = sPosition[p]
  BY LenProperties, FS_CardinalityType DEF TypeOK, PendingOf, Top
<1>2. \A i \in 1..k : \E r \in added[p] : r[1] = Len(mq_data) + i
  BY <1>1 DEF PendingOf, Top
<1>3. \A i \in 1..k : Appended(p)[i] = (CHOOSE r \in added[p] : r[1] = Len(mq_data) + i)[2]
  BY DEF Appended
<1>4. \A i \in 1..k : \E r \in added[p] : r[1] = Len(mq_data) + i /\ Appended(p)[i] = r[2]
  BY <1>2, <1>3
<1>5. \A r \in added[p] : r[2] \in Names
  BY DEF TypeOK
<1>6. Appended(p) \in [1..k -> Names]
  <2>1. Appended(p) = [i \in 1..k |-> Appended(p)[i]]
    BY DEF Appended
  <2>2. \A i \in 1..k : Appended(p)[i] \in Names
    BY <1>4, <1>5
  <2> HIDE DEF k
  <2> QED
    BY <2>1, <2>2
<1>7. Appended(p) \in Seq(Names) /\ Len(Appended(p)) = k
  BY <1>1, <1>6, FunctionIsSeq
<1> QED
  BY <1>1, <1>4, <1>7

\* COMMIT publishes the rows and the position together.
LEMMA CommitIInv ==
  ASSUME IInv, NEW p \in Producers, Commit(p)
  PROVE  IInv'
<1> USE DEF IInv
<1>1. /\ pc[p] = "next" /\ pc' = [pc EXCEPT ![p] = "end"]
      /\ mq_data' = mq_data \o Appended(p)
      /\ mq_producer' = (IF added[p] = {} THEN mq_producer ELSE sPosition[p])
      /\ added' = [added EXCEPT ![p] = {}]
      /\ UNCHANGED <<sPosition, aTask, snapshot, calls, early, consumerVars, faults>>
  BY DEF Commit, Step, Appended
<1>2. /\ pc' \in [Producers -> {"begin", "select", "exists", "data", "position", "next", "end"}]
      /\ pc'[p] = "end" /\ \A q \in Producers \ {p} : pc'[q] = pc[q]
  BY <1>1 DEF TypeOK
<1>3. /\ added' \in [Producers -> SUBSET (Nat \X Names)]
      /\ added'[p] = {} /\ \A q \in Producers \ {p} : added'[q] = added[q]
  BY <1>1 DEF TypeOK
<1>4. /\ rowLock' \in Producers \cup {Nobody} /\ gapLock' \in SUBSET Producers
      /\ ~Holds(p)' /\ gapLock' \subseteq gapLock /\ rowLock' \in {rowLock, Nobody}
      /\ p \notin gapLock' /\ (rowLock = p => rowLock' = Nobody)
      /\ \A q \in Producers \ {p} : (rowLock' = q <=> rowLock = q) /\ (q \in gapLock' <=> q \in gapLock)
  BY HoldsFacts DEF Commit, Unlock, TypeOK, Holds
<1>5. UNCHANGED <<sPosition, aTask, snapshot, calls, early, consumerVars, faults>>
  BY <1>1
<1>6. PendingOf(p)
  BY <1>1 DEF Locks, LocksOf, Pending
<1> DEFINE k == Cardinality(added[p])
           tail == Appended(p)
<1>7. /\ k \in Nat /\ Len(mq_data) \in Nat /\ Len(mq_data) + k = sPosition[p]
      /\ tail \in Seq(Names) /\ Len(tail) = k
      /\ \A i \in 1..k : \E r \in added[p] : r[1] = Len(mq_data) + i /\ tail[i] = r[2]
  BY <1>1, <1>6, AppendedFacts
<1> HIDE DEF k, tail
<1>8. /\ mq_data' \in Seq(Names) /\ Len(mq_data') = Len(mq_data) + k
      /\ \A i \in 1..(Len(mq_data) + k) :
           mq_data'[i] = IF i <= Len(mq_data) THEN mq_data[i] ELSE tail[i - Len(mq_data)]
  BY <1>1, <1>7, ConcatProperties DEF TypeOK, tail
<1>9. TypeOK'
  <2>1. mq_producer' \in Nat \cup {NoRow}
    BY <1>1 DEF TypeOK
  <2> QED
    BY <1>2, <1>3, <1>4, <1>5, <1>8, <2>1 DEF TypeOK, consumerVars
<1>10. /\ rowLock' # Nobody => gapLock' \subseteq {rowLock'}
       /\ LocksOf(p)' /\ SnapshotOf(p)'
  BY <1>2, <1>3, <1>4 DEF Locks, LocksOf, SnapshotOf
<1>11. CASE added[p] = {}
  <2>1. k = 0
    BY <1>11, FS_EmptySet DEF k
  <2>2. tail = <<>>
    BY <1>7, <2>1, EmptySeq
  <2>3. mq_data' = mq_data /\ mq_producer' = mq_producer
    BY <1>1, <1>11, <2>2, ConcatEmptySeq DEF TypeOK, tail
  <2>4. Frame(p)
    BY <1>2, <1>3, <1>4, <1>5, <2>3 DEF Frame
  <2>5. mq_producer' # NoRow => gapLock' = {}
    BY <1>4, <2>3 DEF Locks
  <2> QED
    BY <1>4, <1>9, <1>10, <2>4, <2>5, FrameLemma
<1>12. CASE added[p] # {}
  <2>1. rowLock = p /\ gapLock' = {} /\ rowLock' = Nobody
    BY <1>1, <1>4, <1>12, HoldsFacts DEF Locks, LocksOf
  <2>2. ASSUME NEW q \in Producers \ {p}
        PROVE  ~Holds(q) /\ ~Holds(q)' /\ added[q] = {} /\ added'[q] = {} /\ pc'[q] = pc[q]
    BY <1>2, <1>3, <1>4, <2>1, HoldsFacts DEF Locks, LocksOf, Holds
  <2>3. Locks'
    <3>1. \A q \in Producers \ {p} : LocksOf(q)'
      BY <2>2 DEF Locks, LocksOf
    <3> QED
      BY <1>10, <2>1, <3>1 DEF Locks
  <2>4. Pending'
    BY <1>4, <2>2 DEF Pending
  <2>5. k > 0
    <3>1. PICK r \in added[p] : TRUE
      BY <1>12
    <3>2. Len(mq_data) < r[1] /\ r[1] <= sPosition[p] /\ r[1] \in Nat
      BY <1>1, <1>6, <3>1 DEF PendingOf, Top, TypeOK
    <3> QED
      BY <1>7, <3>2
  <2>6. PositionIsLast'
    BY <1>1, <1>7, <1>8, <1>12, <2>5, EmptySeq DEF PositionIsLast
  <2>7. ASSUME early' = {} PROVE Unique'
    <3>1. /\ UniqueOf(p)
          /\ \A i, j \in 1..Len(mq_data) : i # j => mq_data[i] # mq_data[j]
          /\ \A q \in Producers \ {p} : SnapshotOf(q)
      BY <1>5, <2>1, <2>7 DEF Unique, Holds
    <3>2. \A q \in Producers \ {p} : SnapshotOf(q)'
      BY <1>5, <2>2, <3>1 DEF SnapshotOf
    <3>3. ASSUME NEW i \in 1..k, NEW j \in 1..Len(mq_data) PROVE tail[i] # mq_data[j]
      <4>1. PICK r \in added[p] : tail[i] = r[2]
        BY <1>7
      <4> QED
        BY <3>1, <4>1 DEF UniqueOf
    <3>4. ASSUME NEW i \in 1..k, NEW j \in 1..k, i # j PROVE tail[i] # tail[j]
      <4>1. PICK r \in added[p] : r[1] = Len(mq_data) + i /\ tail[i] = r[2]
        BY <1>7
      <4>2. PICK q \in added[p] : q[1] = Len(mq_data) + j /\ tail[j] = q[2]
        BY <1>7
      <4>3. r[1] # q[1]
        BY <1>7, <3>4, <4>1, <4>2
      <4> QED
        BY <3>1, <4>1, <4>2, <4>3 DEF UniqueOf
    <3>5. ASSUME NEW i \in 1..(Len(mq_data) + k), NEW j \in 1..(Len(mq_data) + k), i # j
          PROVE  mq_data'[i] # mq_data'[j]
      <4>1. CASE i <= Len(mq_data) /\ j <= Len(mq_data)
        <5>1. i \in 1..Len(mq_data) /\ j \in 1..Len(mq_data)
          BY <1>7, <4>1
        <5> QED
          BY <1>8, <3>1, <3>5, <4>1, <5>1
      <4>2. CASE i <= Len(mq_data) /\ j > Len(mq_data)
        <5>1. i \in 1..Len(mq_data) /\ j - Len(mq_data) \in 1..k
          BY <1>7, <4>2
        <5>2. mq_data'[i] = mq_data[i] /\ mq_data'[j] = tail[j - Len(mq_data)]
          BY <1>7, <1>8, <4>2
        <5> QED
          BY <3>3, <5>1, <5>2
      <4>3. CASE i > Len(mq_data) /\ j <= Len(mq_data)
        <5>1. j \in 1..Len(mq_data) /\ i - Len(mq_data) \in 1..k
          BY <1>7, <4>3
        <5>2. mq_data'[j] = mq_data[j] /\ mq_data'[i] = tail[i - Len(mq_data)]
          BY <1>7, <1>8, <4>3
        <5> QED
          BY <3>3, <5>1, <5>2
      <4>4. CASE i > Len(mq_data) /\ j > Len(mq_data)
        <5>1. /\ i - Len(mq_data) \in 1..k /\ j - Len(mq_data) \in 1..k
              /\ i - Len(mq_data) # j - Len(mq_data)
          BY <1>7, <3>5, <4>4
        <5>2. mq_data'[i] = tail[i - Len(mq_data)] /\ mq_data'[j] = tail[j - Len(mq_data)]
          BY <1>7, <1>8, <4>4
        <5> QED
          BY <3>4, <5>1, <5>2
      <4> QED
        BY <1>7, <4>1, <4>2, <4>3, <4>4
    <3> QED
      BY <1>4, <1>8, <1>10, <2>2, <3>2, <3>5 DEF Unique
  <2>8. Progress' /\ ConsumedOnce'
    <3>1. ConsumedOnce'
      BY <1>5 DEF ConsumedOnce, consumerVars
    <3>2. ASSUME NEW c \in Consumers PROVE ProgressOf(c)'
      <4>1. ProgressOf(c) /\ mq_consumer[c] \in Nat /\ m_Position[c] \in Nat
        BY DEF Progress, TypeOK
      <4>2. mq_consumer[c] <= Len(mq_data') /\ m_Position[c] <= Len(mq_data')
        BY <1>7, <1>8, <4>1 DEF ProgressOf
      <4>3. UNCHANGED <<mq_consumer, m_Position, sTasks, cpc, consumed, skipped>>
        BY <1>5 DEF consumerVars
      <4> QED
        BY <4>1, <4>2, <4>3 DEF ProgressOf
    <3> QED
      BY <3>1, <3>2 DEF Progress
  <2>9. Unique'
    BY <2>7 DEF Unique
  <2> QED
    BY <1>9, <2>3, <2>4, <2>6, <2>8, <2>9
<1> QED
  BY <1>11, <1>12

-----------------------------------------------------------------------------
(* The steps of a consumer.                                                *)

\* They change nothing that the producers see.
LEMMA ConsumerFrame ==
  ASSUME IInv, UNCHANGED <<tables, locks, producerVars>>
  PROVE  Locks' /\ Pending' /\ PositionIsLast' /\ Unique'
<1> USE DEF IInv, tables, locks, producerVars
<1>1. Locks' /\ PositionIsLast'
  BY DEF Locks, LocksOf, Holds, PositionIsLast
<1>2. Pending'
  BY DEF Pending, PendingOf, Top, Holds
<1>3. Unique'
  BY DEF Unique, UniqueOf, SnapshotOf, Rows, Holds
<1> QED
  BY <1>1, <1>2, <1>3

\* The part of the other consumers.
LEMMA OtherConsumers ==
  ASSUME IInv, NEW c \in Consumers, mq_data' = mq_data,
         \A d \in Consumers \ {c} :
           /\ mq_consumer'[d] = mq_consumer[d] /\ m_Position'[d] = m_Position[d]
           /\ sTasks'[d] = sTasks[d] /\ cpc'[d] = cpc[d] /\ skipped'[d] = skipped[d]
           /\ consumed'[d] = consumed[d],
         ProgressOf(c)',
         \A s \in Serials :
           IF s <= mq_consumer'[c] THEN consumed'[c][s] = 1 \/ s \in skipped'[c]
                                   ELSE consumed'[c][s] = 0
  PROVE  Progress' /\ ConsumedOnce'
<1>1. Progress'
  <2> SUFFICES ASSUME NEW d \in Consumers \ {c} PROVE ProgressOf(d)'
    BY DEF Progress
  <2> QED
    BY DEF IInv, Progress, ProgressOf
<1>2. ConsumedOnce'
  <2> SUFFICES ASSUME NEW d \in Consumers \ {c}, NEW s \in Serials
               PROVE  IF s <= mq_consumer'[d] THEN consumed'[d][s] = 1 \/ s \in skipped'[d]
                                              ELSE consumed'[d][s] = 0
    BY DEF ConsumedOnce
  <2> QED
    BY DEF IInv, ConsumedOnce
<1> QED
  BY <1>1, <1>2

\* A new Consumer object reads its committed position.
LEMMA CInitIInv ==
  ASSUME IInv, NEW c \in Consumers, CInit(c)
  PROVE  IInv'
<1> USE DEF IInv
<1>1. /\ cpc[c] = "init" /\ cpc' = [cpc EXCEPT ![c] = "select"]
      /\ m_Position' = [m_Position EXCEPT ![c] = mq_consumer[c]]
      /\ UNCHANGED <<tables, locks, producerVars, mq_consumer, sTasks, consumed, skipped, faults>>
  BY DEF CInit
<1>2. /\ cpc' \in [Consumers -> {"init", "select", "work"}] /\ cpc'[c] = "select"
      /\ m_Position' \in [Consumers -> Nat] /\ m_Position'[c] = mq_consumer[c]
      /\ mq_consumer[c] \in Nat
      /\ \A d \in Consumers \ {c} : cpc'[d] = cpc[d] /\ m_Position'[d] = m_Position[d]
  BY <1>1 DEF TypeOK
<1>3. UNCHANGED <<tables, locks, producerVars, mq_consumer, sTasks, consumed, skipped, faults>>
  BY <1>1
<1>4. TypeOK'
  BY <1>2, <1>3 DEF TypeOK, tables, locks, producerVars
<1>5. ProgressOf(c)'
  <2>1. ProgressOf(c) /\ sTasks[c] = {}
    BY <1>1 DEF Progress, ProgressOf
  <2> QED
    BY <1>2, <1>3, <2>1 DEF ProgressOf, tables
<1>6. Progress' /\ ConsumedOnce'
  BY <1>2, <1>3, <1>5, OtherConsumers DEF ConsumedOnce, tables
<1> QED
  BY <1>3, <1>4, <1>6, ConsumerFrame

\* select() fetches what is past m_Position and moves it.
LEMMA SelectTasksIInv ==
  ASSUME IInv, NEW c \in Consumers, SelectTasks(c)
  PROVE  IInv'
<1> USE DEF IInv
<1> DEFINE last == IF m_Position[c] + Limit < Len(mq_data) THEN m_Position[c] + Limit
                                                         ELSE Len(mq_data)
           next == (m_Position[c] + 1)..last
<1>1. /\ cpc[c] = "select" /\ Len(mq_data) > m_Position[c]
      /\ cpc' = [cpc EXCEPT ![c] = "work"]
      /\ sTasks' = [sTasks EXCEPT ![c] = next]
      /\ m_Position' = [m_Position EXCEPT ![c] = last]
      /\ UNCHANGED <<tables, locks, producerVars, mq_consumer, consumed, skipped, faults>>
  BY DEF SelectTasks
<1>2. Len(mq_data) \in Nat /\ m_Position[c] \in Nat /\ mq_consumer[c] \in Nat
  BY LenProperties DEF TypeOK
<1>3. last \in Nat /\ m_Position[c] <= last /\ last <= Len(mq_data)
  BY <1>1, <1>2, QueueAssumption
<1>4. next \in SUBSET Nat /\ \A s \in Nat : s \in next <=> m_Position[c] < s /\ s <= last
  BY <1>2, <1>3
<1> HIDE DEF last, next
<1>5. /\ cpc' \in [Consumers -> {"init", "select", "work"}] /\ cpc'[c] = "work"
      /\ m_Position' \in [Consumers -> Nat] /\ m_Position'[c] = last
      /\ sTasks' \in [Consumers -> SUBSET Nat] /\ sTasks'[c] = next
      /\ \A d \in Consumers \ {c} : cpc'[d] = cpc[d] /\ m_Position'[d] = m_Position[d]
                                      /\ sTasks'[d] = sTasks[d]
  BY <1>1, <1>3, <1>4 DEF TypeOK
<1>6. UNCHANGED <<tables, locks, producerVars, mq_consumer, consumed, skipped, faults>>
  BY <1>1
<1>7. TypeOK'
  BY <1>5, <1>6 DEF TypeOK, tables, locks, producerVars
<1>8. ProgressOf(c)'
  <2>1. /\ mq_consumer[c] <= Len(mq_data) /\ mq_consumer[c] <= m_Position[c]
        /\ \A s \in (mq_consumer[c] + 1)..m_Position[c] : s \in skipped[c]
    BY <1>1 DEF Progress, ProgressOf
  <2>2. \A s \in (mq_consumer[c] + 1)..last : s \in next \cup skipped[c]
    BY <1>2, <1>3, <1>4, <2>1
  <2>3. \A s \in next : mq_consumer[c] < s /\ s <= last
    BY <1>2, <1>3, <1>4, <2>1
  <2>4. mq_consumer[c] <= last
    BY <1>2, <1>3, <2>1
  <2>5. mq_data' = mq_data /\ mq_consumer' = mq_consumer /\ skipped' = skipped
    BY <1>6 DEF tables
  <2> QED
    BY <1>3, <1>5, <2>1, <2>2, <2>3, <2>4, <2>5 DEF ProgressOf
<1>9. Progress' /\ ConsumedOnce'
  BY <1>5, <1>6, <1>8, OtherConsumers DEF ConsumedOnce, tables
<1> QED
  BY <1>6, <1>7, <1>9, ConsumerFrame

\* update() and the work of the user are committed together.
LEMMA CommittedIInv ==
  ASSUME IInv, NEW c \in Consumers, cpc[c] = "work", Committed(c),
         NEW to \in {"select", "init"}, cpc' = [cpc EXCEPT ![c] = to],
         sTasks' = [sTasks EXCEPT ![c] = {}], faults' \in Nat,
         UNCHANGED <<tables, locks, producerVars, m_Position, skipped>>
  PROVE  IInv'
<1> USE DEF IInv
<1> DEFINE new == [s \in Serials |-> consumed[c][s] + IF s \in sTasks[c] THEN 1 ELSE 0]
<1>1. /\ mq_consumer' = [mq_consumer EXCEPT ![c] = m_Position[c]]
      /\ consumed' = [consumed EXCEPT ![c] = new]
  BY DEF Committed
<1>2. new \in [Serials -> Nat]
  BY DEF TypeOK
<1>3. \A s \in Serials : new[s] = consumed[c][s] + IF s \in sTasks[c] THEN 1 ELSE 0
  OBVIOUS
<1> HIDE DEF new
<1>4. /\ mq_consumer' \in [Consumers -> Nat] /\ mq_consumer'[c] = m_Position[c]
      /\ cpc' \in [Consumers -> {"init", "select", "work"}] /\ cpc'[c] = to
      /\ sTasks' \in [Consumers -> SUBSET Nat] /\ sTasks'[c] = {}
      /\ \A d \in Consumers \ {c} : mq_consumer'[d] = mq_consumer[d] /\ cpc'[d] = cpc[d]
                                      /\ sTasks'[d] = sTasks[d]
  BY <1>1 DEF TypeOK
<1>5. /\ consumed' \in [Consumers -> [Serials -> Nat]] /\ consumed'[c] = new
      /\ \A d \in Consumers \ {c} : consumed'[d] = consumed[d]
  BY <1>1, <1>2 DEF TypeOK
<1>6. TypeOK'
  BY <1>4, <1>5 DEF TypeOK, tables, locks, producerVars
<1>7. /\ ProgressOf(c) /\ m_Position[c] \in Nat /\ mq_consumer[c] \in Nat
      /\ skipped'[c] = skipped[c] /\ m_Position'[c] = m_Position[c]
  BY DEF Progress, TypeOK
<1>8. ProgressOf(c)'
  BY <1>4, <1>7 DEF ProgressOf, tables
<1>9. ASSUME NEW s \in Serials
      PROVE  IF s <= m_Position[c] THEN new[s] = 1 \/ s \in skipped[c] ELSE new[s] = 0
  <2>1. s \in Nat
    BY SerialFacts
  <2>2. IF s <= mq_consumer[c] THEN consumed[c][s] = 1 \/ s \in skipped[c]
                               ELSE consumed[c][s] = 0
    BY DEF ConsumedOnce
  <2>3. CASE s <= mq_consumer[c]
    <3>1. s \notin sTasks[c] /\ s <= m_Position[c]
      BY <1>7, <2>1, <2>3 DEF ProgressOf, TypeOK
    <3> QED
      BY <1>3, <2>2, <2>3, <3>1
  <2>4. CASE mq_consumer[c] < s /\ s <= m_Position[c]
    <3>1. s \in sTasks[c] \/ s \in skipped[c]
      BY <1>7, <2>1, <2>4 DEF ProgressOf
    <3>2. consumed[c][s] = 0
      BY <1>7, <2>1, <2>2, <2>4
    <3> QED
      BY <1>3, <2>4, <3>1, <3>2
  <2>5. CASE m_Position[c] < s
    <3>1. s \notin sTasks[c] /\ ~(s <= mq_consumer[c]) /\ ~(s <= m_Position[c])
      BY <1>7, <2>1, <2>5 DEF ProgressOf
    <3> QED
      BY <1>3, <2>2, <3>1
  <2> QED
    BY <1>7, <2>1, <2>3, <2>4, <2>5
<1>10. Progress' /\ ConsumedOnce'
  BY <1>4, <1>5, <1>7, <1>8, <1>9, OtherConsumers DEF tables
<1> QED
  BY <1>6, <1>10, ConsumerFrame

\* Nothing was committed: a new Consumer object starts from the committed
\* position, the old one leaves its rows behind.
LEMMA LeftBehindIInv ==
  ASSUME IInv, NEW c \in Consumers, cpc[c] = "work", faults' \in Nat,
         \/ cpc' = [cpc EXCEPT ![c] = "init"] /\ UNCHANGED skipped
         \/ /\ cpc' = [cpc EXCEPT ![c] = "select"]
            /\ skipped' = [skipped EXCEPT ![c] = skipped[c] \cup sTasks[c]],
         sTasks' = [sTasks EXCEPT ![c] = {}],
         UNCHANGED <<tables, locks, producerVars, m_Position, mq_consumer, consumed>>
  PROVE  IInv'
<1> USE DEF IInv
<1>1. /\ sTasks' \in [Consumers -> SUBSET Nat] /\ sTasks'[c] = {}
      /\ skipped' \in [Consumers -> SUBSET Nat] /\ skipped[c] \subseteq skipped'[c]
      /\ cpc' \in [Consumers -> {"init", "select", "work"}]
      /\ cpc'[c] = "init" \/ (cpc'[c] = "select" /\ sTasks[c] \subseteq skipped'[c])
      /\ \A d \in Consumers \ {c} : cpc'[d] = cpc[d] /\ sTasks'[d] = sTasks[d]
                                      /\ skipped'[d] = skipped[d]
  <2>1. /\ sTasks' \in [Consumers -> SUBSET Nat] /\ sTasks'[c] = {} /\ sTasks[c] \in SUBSET Nat
        /\ \A d \in Consumers \ {c} : sTasks'[d] = sTasks[d]
    BY DEF TypeOK
  <2>2. CASE cpc' = [cpc EXCEPT ![c] = "init"] /\ UNCHANGED skipped
    <3>1. skipped' = skipped /\ skipped \in [Consumers -> SUBSET Nat]
      BY <2>2 DEF TypeOK
    <3>2. /\ cpc' \in [Consumers -> {"init", "select", "work"}] /\ cpc'[c] = "init"
          /\ \A d \in Consumers \ {c} : cpc'[d] = cpc[d]
      BY <2>2 DEF TypeOK
    <3> QED
      BY <2>1, <3>1, <3>2
  <2>3. CASE /\ cpc' = [cpc EXCEPT ![c] = "select"]
             /\ skipped' = [skipped EXCEPT ![c] = skipped[c] \cup sTasks[c]]
    <3>1. /\ skipped' \in [Consumers -> SUBSET Nat] /\ skipped'[c] = skipped[c] \cup sTasks[c]
          /\ \A d \in Consumers \ {c} : skipped'[d] = skipped[d]
      BY <2>1, <2>3 DEF TypeOK
    <3>2. /\ cpc' \in [Consumers -> {"init", "select", "work"}] /\ cpc'[c] = "select"
          /\ \A d \in Consumers \ {c} : cpc'[d] = cpc[d]
      BY <2>3 DEF TypeOK
    <3> QED
      BY <2>1, <3>1, <3>2
  <2> QED
    BY <2>2, <2>3
<1>2. TypeOK'
  BY <1>1 DEF TypeOK, tables, locks, producerVars
<1>3. ProgressOf(c)'
  <2>1. ProgressOf(c)
    BY DEF Progress
  <2> QED
    BY <1>1, <2>1 DEF ProgressOf, tables
<1>4. Progress' /\ ConsumedOnce'
  BY <1>1, <1>3, OtherConsumers DEF ConsumedOnce, tables
<1> QED
  BY <1>2, <1>4, ConsumerFrame

-----------------------------------------------------------------------------
\* The invariant is inductive: every step of a producer or a consumer, with the
\* errors and rollbacks, keeps it.
THEOREM Invariant == Spec => []IInv
<1>1. Init => IInv
  BY InitIInv
<1>2. IInv /\ [Next]_vars => IInv'
  <2> SUFFICES ASSUME IInv, [Next]_vars PROVE IInv'
    OBVIOUS
  <2>1. ASSUME NEW p \in Producers, Insert(p) PROVE IInv'
    <3>1. CASE Abort(p)
      BY <3>1, RollbackIInv DEF Abort, IInv, TypeOK
    <3> QED
      BY <2>1, <3>1, BeginIInv, SelectForUpdateIInv, ExistsIInv, InsertDataIInv,
         InsertPositionIInv, AgainIInv, CommitIInv DEF Insert
  <2>2. ASSUME NEW p \in Producers, ProducerFails(p) PROVE IInv'
    <3>1. faults' \in Nat /\ Rollback(p)
      BY <2>2 DEF ProducerFails, Fault, IInv, TypeOK
    <3> QED
      BY <3>1, RollbackIInv
  <2>3. ASSUME NEW c \in Consumers, Consume(c) PROVE IInv'
    <3>1. CASE UpdateCommit(c)
      BY <3>1, CommittedIInv DEF UpdateCommit, IInv, TypeOK
    <3> QED
      BY <2>3, <3>1, CInitIInv, SelectTasksIInv DEF Consume
  <2>4. ASSUME NEW c \in Consumers, ConsumerFails(c) PROVE IInv'
    <3>1. faults' \in Nat
      BY <2>4 DEF ConsumerFails, Fault, IInv, TypeOK
    <3> QED
      BY <2>4, <3>1, CommittedIInv, LeftBehindIInv DEF ConsumerFails
  <2>5. CASE UNCHANGED vars
    <3>1. Progress' /\ ConsumedOnce' /\ TypeOK'
      BY <2>5 DEF IInv, vars, tables, locks, producerVars, consumerVars, TypeOK, Progress,
                  ProgressOf, ConsumedOnce
    <3> QED
      BY <2>5, <3>1, ConsumerFrame DEF IInv, vars
  <2> QED
    BY <2>1, <2>2, <2>3, <2>4, <2>5 DEF Next
<1> QED
  BY <1>1, <1>2, PTL DEF Spec

\* The position in mq_producer is the last committed serial, also when the first
\* producers of the queue race in SELECT ... FOR UPDATE for the row that is not
\* there.
THEOREM PositionIsLastHolds == Spec => []PositionIsLast
<1>1. IInv => PositionIsLast
  BY DEF IInv
<1> QED
  BY <1>1, Invariant, PTL

\* insert() never puts a task into the queue that is there already, for as long
\* as no user has read in his transaction before insert().
THEOREM NoDuplicatesHolds == Spec => []NoDuplicates
<1>1. IInv => NoDuplicates
  BY DEF IInv, Unique, NoDuplicates
<1> QED
  BY <1>1, Invariant, PTL

\* What the position of a consumer in mq_consumer covers has been worked on in
\* exactly one committed transaction, whatever failed before, save what a
\* Consumer object left behind.
THEOREM ConsumedOnceHolds == Spec => []ConsumedOnce
<1>1. IInv => ConsumedOnce
  BY DEF IInv
<1> QED
  BY <1>1, Invariant, PTL

=============================================================================

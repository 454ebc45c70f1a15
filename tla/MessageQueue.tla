---------------------------- MODULE MessageQueue ----------------------------
(***************************************************************************)
(* MySQL::MessageQueue (mysql/MessageQueue.hpp): Producer::insert and      *)
(* Consumer::select, update on the tables mq_producer, mq_data and         *)
(* mq_consumer (mysql/migrations/001_MessageQueue.up.sql), for one queue.  *)
(* "user must start and commit transaction": a producer here runs one      *)
(* transaction of a few insert() calls and starts it over when it failed.  *)
(*                                                                         *)
(* InnoDB, REPEATABLE READ: FOR UPDATE locks the row of mq_producer, or    *)
(* when there is none the gap, which several transactions can lock; an     *)
(* INSERT into a gap waits for the others' gap locks, one with the key of  *)
(* an uncommitted row waits for that row; of transactions that wait for    *)
(* each other one is rolled back.  Plain SELECTs see the snapshot taken by *)
(* the first of them, and the transaction's own changes.                   *)
(***************************************************************************)
EXTENDS Integers, Sequences, FiniteSets

CONSTANTS
  Names,        \* the values of the column task
  Producers,    \* transactions of Producer users
  Consumers,    \* Consumer::Config::name, one process each
  Limit,        \* Consumer::Config::limit
  MaxInserts,   \* bound: insert() calls of a transaction
  MaxFaults     \* bound: errors, crashes and lost connections

ASSUME QueueAssumption == {Limit, MaxInserts} \subseteq Nat \ {0} /\ MaxFaults \in Nat

VARIABLES
  mq_data,      \* the committed rows: the task of each serial, 1 first
  mq_producer,  \* the committed position, or NoRow
  rowLock,      \* who has mq_producer's row locked, or Nobody
  gapLock,      \* who has locked the gap where that row will be
  pc,           \* of a producer: "begin", "select", "exists", "data", "position", "next", "end"
  sPosition,    \* of the insert() under way
  aTask,        \* its argument
  added,        \* the rows its transaction has inserted, as <<serial, task>>
  snapshot,     \* how many committed rows its plain reads see, or NoRow
  calls,        \* the insert() calls of its transaction
  mq_consumer,  \* the committed positions
  m_Position,   \* Consumer::m_Position
  sTasks,       \* the serials select() returned, while they are worked on
  cpc,          \* of a consumer: "init", "select", "work"
  faults,
  early,        \* history: producers whose user had read before insert()
  consumed,     \* history: how often each consumer has committed each serial
  skipped       \* history: serials a Consumer object has left behind

tables == <<mq_data, mq_producer>>
locks == <<rowLock, gapLock>>
producerVars == <<pc, sPosition, aTask, added, snapshot, calls, early>>
consumerVars == <<mq_consumer, m_Position, sTasks, cpc, consumed, skipped>>
vars == <<tables, locks, producerVars, consumerVars, faults>>

NoRow == -1
Nobody == "nobody"
ASSUME ProducersAssumption == IsFiniteSet(Producers) /\ Nobody \notin Producers
MaxSerial == MaxInserts * Cardinality(Producers)
Serials == 1..MaxSerial

Init ==
  /\ mq_data = <<>> /\ mq_producer = NoRow
  /\ rowLock = Nobody /\ gapLock = {}
  /\ pc = [p \in Producers |-> "begin"]
  /\ sPosition = [p \in Producers |-> 0]
  /\ aTask \in [Producers -> Names]
  /\ added = [p \in Producers |-> {}]
  /\ snapshot = [p \in Producers |-> NoRow]
  /\ calls = [p \in Producers |-> 0]
  /\ mq_consumer = [c \in Consumers |-> 0]
  /\ m_Position = [c \in Consumers |-> 0]
  /\ sTasks = [c \in Consumers |-> {}]
  /\ cpc = [c \in Consumers |-> "init"]
  /\ faults = 0
  /\ early = {}
  /\ consumed = [c \in Consumers |-> [s \in Serials |-> 0]]
  /\ skipped = [c \in Consumers |-> {}]

Fault == faults < MaxFaults /\ faults' = faults + 1
Step(p, from, to) == pc[p] = from /\ pc' = [pc EXCEPT ![p] = to]

-----------------------------------------------------------------------------
(* Producer                                                                *)

\* The user's BEGIN; he may read something of his own first.
Begin(p) ==
  /\ Step(p, "begin", "select")
  /\ \/ UNCHANGED <<snapshot, early>>
     \/ snapshot' = [snapshot EXCEPT ![p] = Len(mq_data)] /\ early' = early \cup {p}
  /\ UNCHANGED <<tables, locks, sPosition, aTask, added, calls, consumerVars, faults>>

\* SELECT position FROM mq_producer ... FOR UPDATE
SelectForUpdate(p) ==
  /\ Step(p, "select", "exists")
  /\ \/ /\ rowLock = p
        /\ UNCHANGED <<locks, sPosition>>
     \/ /\ rowLock = Nobody /\ mq_producer # NoRow
        /\ rowLock' = p
        /\ sPosition' = [sPosition EXCEPT ![p] = mq_producer]
        /\ UNCHANGED gapLock
     \/ /\ rowLock = Nobody /\ mq_producer = NoRow
        /\ gapLock' = gapLock \cup {p}
        /\ sPosition' = [sPosition EXCEPT ![p] = 0]
        /\ UNCHANGED rowLock
  /\ UNCHANGED <<tables, aTask, added, snapshot, calls, early, consumerVars, faults>>

\* Mutant of Exists: is_exists() looks at the newest row only.
ExistsLast(p) ==
  LET seen == IF snapshot[p] = NoRow THEN Len(mq_data) ELSE snapshot[p]
      found == \E s \in {seen} \ {0} : mq_data[s] = aTask[p]
  IN  /\ Step(p, "exists", IF found THEN "next" ELSE "data")
      /\ snapshot' = [snapshot EXCEPT ![p] = seen]
      /\ sPosition' = [sPosition EXCEPT ![p] = IF found THEN @ ELSE @ + 1]
      /\ UNCHANGED <<tables, locks, aTask, added, calls, early, consumerVars, faults>>

\* is_exists(): ALREADY, or on with sPosition++.
Exists(p) ==
  LET seen == IF snapshot[p] = NoRow THEN Len(mq_data) ELSE snapshot[p]
      found == \/ \E s \in 1..seen : mq_data[s] = aTask[p]
               \/ \E r \in added[p] : r[2] = aTask[p]
  IN  /\ Step(p, "exists", IF found THEN "next" ELSE "data")
      /\ snapshot' = [snapshot EXCEPT ![p] = seen]
      /\ sPosition' = [sPosition EXCEPT ![p] = IF found THEN @ ELSE @ + 1]
      /\ UNCHANGED <<tables, locks, aTask, added, calls, early, consumerVars, faults>>

\* Another transaction has put a row with p's serial and has not committed.
Taken(p) == \E q \in Producers \ {p} : \E r \in added[q] : r[1] = sPosition[p]

\* INSERT INTO mq_data.  A committed row with this serial is a "duplicate key"
\* error: see Abort.
InsertData(p) ==
  /\ ~Taken(p) /\ sPosition[p] > Len(mq_data)
  /\ Step(p, "data", "position")
  /\ added' = [added EXCEPT ![p] = @ \cup {<<sPosition[p], aTask[p]>>}]
  /\ UNCHANGED <<tables, locks, sPosition, aTask, snapshot, calls, early, consumerVars, faults>>

\* Mutant of InsertPosition: without ON DUPLICATE KEY UPDATE.
InsertPositionPlain(p) ==
  /\ Step(p, "position", IF mq_producer = NoRow /\ rowLock # p THEN "next" ELSE "position")
  /\ rowLock = p \/ (rowLock = Nobody /\ gapLock \subseteq {p})
  /\ rowLock' = p
  /\ UNCHANGED <<tables, gapLock, sPosition, aTask, added, snapshot, calls, early, consumerVars, faults>>

\* INSERT INTO mq_producer ... ON DUPLICATE KEY UPDATE
InsertPosition(p) ==
  /\ Step(p, "position", "next")
  /\ rowLock = p \/ (rowLock = Nobody /\ gapLock \subseteq {p})
  /\ rowLock' = p
  /\ UNCHANGED <<tables, gapLock, sPosition, aTask, added, snapshot, calls, early, consumerVars, faults>>

\* The user calls insert() again.
Again(p) ==
  /\ calls[p] + 1 < MaxInserts
  /\ Step(p, "next", "select")
  /\ calls' = [calls EXCEPT ![p] = @ + 1]
  /\ \E t \in Names : aTask' = [aTask EXCEPT ![p] = t]
  /\ UNCHANGED <<tables, locks, sPosition, added, snapshot, early, consumerVars, faults>>

Unlock(p) ==
  /\ rowLock' = IF rowLock = p THEN Nobody ELSE rowLock
  /\ gapLock' = gapLock \ {p}

\* Mutant of Commit: the position is written back from before the insert.
CommitStale(p) ==
  /\ Step(p, "next", "end")
  /\ mq_data' = mq_data \o [i \in 1..Cardinality(added[p]) |->
                  (CHOOSE r \in added[p] : r[1] = Len(mq_data) + i)[2]]
  /\ mq_producer' = IF mq_producer = NoRow THEN 0 ELSE mq_producer
  /\ Unlock(p)
  /\ added' = [added EXCEPT ![p] = {}]
  /\ UNCHANGED <<sPosition, aTask, snapshot, calls, early, consumerVars, faults>>

\* The user's COMMIT.
Commit(p) ==
  /\ Step(p, "next", "end")
  /\ mq_data' = mq_data \o [i \in 1..Cardinality(added[p]) |->
                  (CHOOSE r \in added[p] : r[1] = Len(mq_data) + i)[2]]
  /\ mq_producer' = IF added[p] = {} THEN mq_producer ELSE sPosition[p]
  /\ Unlock(p)
  /\ added' = [added EXCEPT ![p] = {}]
  /\ UNCHANGED <<sPosition, aTask, snapshot, calls, early, consumerVars, faults>>

\* The transaction is rolled back, and the user starts it over.
Rollback(p) ==
  /\ pc' = [pc EXCEPT ![p] = "begin"]
  /\ Unlock(p)
  /\ added' = [added EXCEPT ![p] = {}]
  /\ snapshot' = [snapshot EXCEPT ![p] = NoRow]
  /\ calls' = [calls EXCEPT ![p] = 0]
  /\ UNCHANGED <<tables, sPosition, aTask, early, consumerVars>>

\* The duplicate key, or the choice of InnoDB among transactions that wait for
\* each other: one for a row of mq_data, one for the gap of mq_producer.
Abort(p) ==
  /\ \/ pc[p] = "data" /\ ~Taken(p) /\ sPosition[p] <= Len(mq_data)
     \/ pc[p] = "data" /\ p \in gapLock /\ Taken(p)
     \/ pc[p] = "position" /\ rowLock = Nobody
        /\ \E q \in gapLock \ {p} : pc[q] = "data" /\ Taken(q)
  /\ Rollback(p)
  /\ UNCHANGED faults

\* A lost connection, or the user's own error.
ProducerFails(p) ==
  /\ pc[p] \in {"select", "exists", "data", "position", "next"}
  /\ Fault
  /\ Rollback(p)

-----------------------------------------------------------------------------
(* Consumer                                                                *)

\* init()
CInit(c) ==
  /\ cpc[c] = "init"
  /\ cpc' = [cpc EXCEPT ![c] = "select"]
  /\ m_Position' = [m_Position EXCEPT ![c] = mq_consumer[c]]
  /\ UNCHANGED <<tables, locks, producerVars, mq_consumer, sTasks, consumed, skipped, faults>>

\* Mutant of SelectTasks: serial >= m_Position.
SelectTasksAgain(c) ==
  LET last == IF m_Position[c] + Limit < Len(mq_data) THEN m_Position[c] + Limit ELSE Len(mq_data) IN
    /\ cpc[c] = "select" /\ Len(mq_data) > m_Position[c]
    /\ cpc' = [cpc EXCEPT ![c] = "work"]
    /\ sTasks' = [sTasks EXCEPT ![c] = (m_Position[c]..last) \cap Serials]
    /\ m_Position' = [m_Position EXCEPT ![c] = last]
    /\ UNCHANGED <<tables, locks, producerVars, mq_consumer, consumed, skipped, faults>>

\* Mutant of SelectTasks: m_Position goes on by the limit.
SelectTasksJump(c) ==
  LET last == IF m_Position[c] + Limit < Len(mq_data) THEN m_Position[c] + Limit ELSE Len(mq_data) IN
    /\ cpc[c] = "select" /\ Len(mq_data) > m_Position[c]
    /\ cpc' = [cpc EXCEPT ![c] = "work"]
    /\ sTasks' = [sTasks EXCEPT ![c] = (m_Position[c] + 1)..last]
    /\ m_Position' = [m_Position EXCEPT ![c] = @ + Limit]
    /\ UNCHANGED <<tables, locks, producerVars, mq_consumer, consumed, skipped, faults>>

\* select(): the next rows, and m_Position already past them.
SelectTasks(c) ==
  LET last == IF m_Position[c] + Limit < Len(mq_data) THEN m_Position[c] + Limit ELSE Len(mq_data) IN
    /\ cpc[c] = "select" /\ Len(mq_data) > m_Position[c]
    /\ cpc' = [cpc EXCEPT ![c] = "work"]
    /\ sTasks' = [sTasks EXCEPT ![c] = (m_Position[c] + 1)..last]
    /\ m_Position' = [m_Position EXCEPT ![c] = last]
    /\ UNCHANGED <<tables, locks, producerVars, mq_consumer, consumed, skipped, faults>>

\* The user's work and update() in one transaction, committed.
Committed(c) ==
  /\ mq_consumer' = [mq_consumer EXCEPT ![c] = m_Position[c]]
  /\ consumed' = [consumed EXCEPT ![c] = [s \in Serials |-> @[s] + IF s \in sTasks[c] THEN 1 ELSE 0]]

UpdateCommit(c) ==
  /\ cpc[c] = "work"
  /\ Committed(c)
  /\ cpc' = [cpc EXCEPT ![c] = "select"]
  /\ sTasks' = [sTasks EXCEPT ![c] = {}]
  /\ UNCHANGED <<tables, locks, producerVars, m_Position, skipped, faults>>

\* The work or the COMMIT fails (the latter perhaps after the fact).  The user
\* makes a new Consumer, or goes on with the one he has, which does not return
\* these rows again.
ConsumerFails(c) ==
  /\ cpc[c] = "work"
  /\ Fault
  /\ \/ Committed(c) /\ cpc' = [cpc EXCEPT ![c] = "init"] /\ UNCHANGED skipped
     \/ cpc' = [cpc EXCEPT ![c] = "init"] /\ UNCHANGED <<mq_consumer, consumed, skipped>>
     \/ /\ cpc' = [cpc EXCEPT ![c] = "select"]
        /\ skipped' = [skipped EXCEPT ![c] = @ \cup sTasks[c]]
        /\ UNCHANGED <<mq_consumer, consumed>>
  /\ sTasks' = [sTasks EXCEPT ![c] = {}]
  /\ UNCHANGED <<tables, locks, producerVars, m_Position>>

Insert(p) ==
  \/ Begin(p) \/ SelectForUpdate(p) \/ Exists(p) \/ InsertData(p)
  \/ InsertPosition(p) \/ Again(p) \/ Commit(p) \/ Abort(p)
Consume(c) == CInit(c) \/ SelectTasks(c) \/ UpdateCommit(c)

Next ==
  \/ \E p \in Producers : Insert(p) \/ ProducerFails(p)
  \/ \E c \in Consumers : Consume(c) \/ ConsumerFails(c)

(* Users go on with their transactions, consumers keep selecting.  InnoDB  *)
(* grants a lock that becomes free again and again in order: SF.           *)
Fairness ==
  /\ \A p \in Producers : SF_vars(Insert(p))
  /\ \A c \in Consumers : WF_vars(Consume(c))

Spec == Init /\ [][Next]_vars
FairSpec == Spec /\ Fairness

-----------------------------------------------------------------------------
(* Properties.                                                             *)

\* The position that producers count from is the last committed serial, also
\* when the first producers of a queue race for the row that is not there.
PositionIsLast == mq_producer = IF mq_data = <<>> THEN NoRow ELSE Len(mq_data)

\* ALREADY is reliable: no task is in the queue twice, unless the user had read
\* in his transaction before insert() and is_exists() looked at an old snapshot.
NoDuplicates ==
  \A i, j \in 1..Len(mq_data) : i # j /\ mq_data[i] = mq_data[j] => early # {}

\* What a consumer's committed position covers it has consumed exactly once, in
\* the transaction that moved the position, unless it went on after a failure
\* with the same Consumer object; beyond the position nothing is consumed.
ConsumedOnce ==
  \A c \in Consumers : \A s \in Serials :
    IF s <= mq_consumer[c] THEN consumed[c][s] = 1 \/ s \in skipped[c]
                           ELSE consumed[c][s] = 0

\* Once the queue's row is there every transaction ends, those included that
\* raced for the first insert and were rolled back.  (Before that nothing keeps
\* two of them from being each other's victim for ever.)
InsertsEnd == \A p \in Producers : (mq_producer # NoRow) ~> (pc[p] = "end")

\* Every committed task reaches every consumer.
TasksArrive ==
  \A c \in Consumers, s \in Serials :
    (Len(mq_data) >= s) ~> (consumed[c][s] >= 1 \/ s \in skipped[c])

=============================================================================

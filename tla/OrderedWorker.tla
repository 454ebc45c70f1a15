--------------------------- MODULE OrderedWorker ---------------------------
(***************************************************************************)
(* Threads::OrderedWorker (threads/OrderedWorker.hpp): a SafeQueueThread   *)
(* of workers that feeds a second one with a single thread, a priority     *)
(* queue and a check; and Threads::MapReduce (threads/MapReduce.hpp),      *)
(* which drives it.                                                        *)
(*                                                                         *)
(* The condition variables are the business of module SafeQueue: here a    *)
(* thread whose timed wait ends without an item just looks again.          *)
(***************************************************************************)
EXTENDS Integers, Sequences, FiniteSets

CONSTANTS
  Workers,      \* the threads of m_Worker
  Joiner,       \* the one thread of m_Join
  Size,         \* the tasks: chunks of MapReduce, calls of insert()
  MaxThrows     \* bound: handler and joiner calls that throw

ASSUME ThreadsAssumption == IsFiniteSet(Workers) /\ Workers # {} /\ Joiner \notin Workers
ASSUME SizeAssumption == Size \in Nat /\ MaxThrows \in Nat

VARIABLES
  driver,       \* "plain": a user who may stop early; "mapreduce"
  workQ,        \* m_Worker's list of serials
  joinQ,        \* m_Join's priority queue, as the set of its serials
  m_Serial,
  m_NextJoin,
  pc,           \* "loop", "wait", "taken", "run", "exit"
  item,         \* the serial a thread has in hand, or NoTask
  m_Stop,       \* the queues told to stop: "work", "join"
  phase,        \* of the driver: "insert", "stop", "stopjoin", "join", "returned"
  sCount,       \* reduced tasks (MapReduce)
  throws,
  output,       \* history: the serials passed to the join function
  failed        \* history: the serials whose handler or joiner threw

vars == <<driver, workQ, joinQ, m_Serial, m_NextJoin, pc, item, m_Stop, phase,
          sCount, throws, output, failed>>

Threads == Workers \cup {Joiner}
Serials == 0..(Size - 1)
NoTask == -1

Init ==
  /\ driver \in {"plain", "mapreduce"}
  /\ workQ = <<>> /\ joinQ = {}
  /\ m_Serial = 0 /\ m_NextJoin = 0
  /\ pc = [t \in Threads |-> "loop"]
  /\ item = [t \in Threads |-> NoTask]
  /\ m_Stop = {}
  /\ phase = "insert"
  /\ sCount = 0 /\ throws = 0
  /\ output = <<>> /\ failed = {}

-----------------------------------------------------------------------------
(* The loop of SafeQueueThread::start, without linger and without retry.   *)

QueueOf(t) == IF t = Joiner THEN "join" ELSE "work"

CheckStop(t) ==
  /\ pc[t] = "loop"
  /\ pc' = [pc EXCEPT ![t] = IF QueueOf(t) \in m_Stop THEN "exit" ELSE "wait"]
  /\ UNCHANGED <<driver, workQ, joinQ, m_Serial, m_NextJoin, item, m_Stop, phase, sCount, throws, output, failed>>

\* wait() without a check: the oldest task of m_Worker.
TakeWork(w) ==
  /\ pc[w] = "wait" /\ workQ # <<>>
  /\ item' = [item EXCEPT ![w] = Head(workQ)]
  /\ workQ' = Tail(workQ)
  /\ pc' = [pc EXCEPT ![w] = "taken"]
  /\ UNCHANGED <<driver, joinQ, m_Serial, m_NextJoin, m_Stop, phase, sCount, throws, output, failed>>

\* Mutant of CheckTop: any task will do.
CheckNothing(k) == TRUE

\* .check: only the task whose turn it is.
CheckTop(k) == k = m_NextJoin

\* Mutant of Top: the default order of std::priority_queue.
TopGreatest(k) == k \in joinQ /\ \A j \in joinQ : k >= j

\* std::greater<Task>: the smallest serial is on top.
Top(k) == k \in joinQ /\ \A j \in joinQ : k <= j

\* wait() with the check, on the top of the priority queue.
TakeJoin ==
  /\ pc[Joiner] = "wait"
  /\ \E k \in joinQ :
       /\ Top(k) /\ CheckTop(k)
       /\ item' = [item EXCEPT ![Joiner] = k]
       /\ joinQ' = joinQ \ {k}
  /\ pc' = [pc EXCEPT ![Joiner] = "taken"]
  /\ UNCHANGED <<driver, workQ, m_Serial, m_NextJoin, m_Stop, phase, sCount, throws, output, failed>>

\* wait() returned false: nothing there, or not its turn yet.
NothingTaken(t) ==
  /\ pc[t] = "wait"
  /\ IF t = Joiner THEN ~\E k \in joinQ : Top(k) /\ CheckTop(k) ELSE workQ = <<>>
  /\ pc' = [pc EXCEPT ![t] = "loop"]
  /\ UNCHANGED <<driver, workQ, joinQ, m_Serial, m_NextJoin, item, m_Stop, phase, sCount, throws, output, failed>>

\* handle(): a stopped queue gives up what it has just popped.
Handle(t) ==
  /\ pc[t] = "taken"
  /\ \/ /\ QueueOf(t) \notin m_Stop
        /\ pc' = [pc EXCEPT ![t] = "run"]
        /\ UNCHANGED item
     \/ /\ QueueOf(t) \in m_Stop
        /\ pc' = [pc EXCEPT ![t] = "loop"]
        /\ item' = [item EXCEPT ![t] = NoTask]
  /\ UNCHANGED <<driver, workQ, joinQ, m_Serial, m_NextJoin, m_Stop, phase, sCount, throws, output, failed>>

Over(t) ==
  /\ pc[t] = "run"
  /\ pc' = [pc EXCEPT ![t] = "loop"]
  /\ item' = [item EXCEPT ![t] = NoTask]

\* The exception ends in handle(), and without retry the task with it.
Throw(t) ==
  /\ throws < MaxThrows
  /\ throws' = throws + 1
  /\ failed' = failed \cup {item[t]}

\* aHandler, and m_Join.insert of what it made.
Work(w) ==
  /\ Over(w)
  /\ \/ joinQ' = joinQ \cup {item[w]} /\ UNCHANGED <<throws, failed>>
     \/ Throw(w) /\ UNCHANGED joinQ
  /\ UNCHANGED <<driver, workQ, m_Serial, m_NextJoin, m_Stop, phase, sCount, output>>

\* Mutant of Join: the turn passes on although the joiner threw.
JoinAlwaysNext ==
  /\ Over(Joiner)
  /\ output' = Append(output, item[Joiner])
  /\ m_NextJoin' = m_NextJoin + 1
  /\ sCount' = sCount + 1
  /\ \/ UNCHANGED <<throws, failed>>
     \/ Throw(Joiner)
  /\ UNCHANGED <<driver, workQ, joinQ, m_Serial, m_Stop, phase>>

\* Mutant of Join: m_NextJoin is forgotten.
JoinWithoutNext ==
  /\ Over(Joiner)
  /\ output' = Append(output, item[Joiner])
  /\ \/ sCount' = sCount + 1 /\ UNCHANGED <<throws, failed>>
     \/ Throw(Joiner) /\ UNCHANGED sCount
  /\ UNCHANGED <<driver, workQ, joinQ, m_Serial, m_NextJoin, m_Stop, phase>>

\* aJoiner, which counts in sCount, then m_NextJoin++.
Join ==
  /\ Over(Joiner)
  /\ output' = Append(output, item[Joiner])
  /\ \/ /\ m_NextJoin' = m_NextJoin + 1
        /\ sCount' = sCount + 1
        /\ UNCHANGED <<throws, failed>>
     \/ Throw(Joiner) /\ UNCHANGED <<m_NextJoin, sCount>>
  /\ UNCHANGED <<driver, workQ, joinQ, m_Serial, m_Stop, phase>>

Thread(t) ==
  \/ CheckStop(t) \/ NothingTaken(t) \/ Handle(t)
  \/ t \in Workers /\ (TakeWork(t) \/ Work(t))
  \/ t = Joiner /\ (TakeJoin \/ Join)

-----------------------------------------------------------------------------
(* The thread that owns the OrderedWorker.                                 *)

Insert ==
  /\ phase = "insert" /\ m_Serial < Size
  /\ workQ' = Append(workQ, m_Serial)
  /\ m_Serial' = m_Serial + 1
  /\ UNCHANGED <<driver, joinQ, m_NextJoin, pc, item, m_Stop, phase, sCount, throws, output, failed>>

\* MapReduce inserts everything and polls sCount; anybody else calls
\* Group::wait when he likes.
Polled == sCount >= Size

EndOfInput ==
  /\ \/ driver = "mapreduce" /\ m_Serial = Size /\ Polled
     \/ driver = "plain"
  /\ phase = "insert"
  /\ phase' = "stop"
  /\ UNCHANGED <<driver, workQ, joinQ, m_Serial, m_NextJoin, pc, item, m_Stop, sCount, throws, output, failed>>

\* Group::wait(): the at_stop of m_Worker, then the one of m_Join.
Stop ==
  /\ \/ phase = "stop" /\ phase' = "stopjoin" /\ m_Stop' = m_Stop \cup {"work"}
     \/ phase = "stopjoin" /\ phase' = "join" /\ m_Stop' = m_Stop \cup {"join"}
  /\ UNCHANGED <<driver, workQ, joinQ, m_Serial, m_NextJoin, pc, item, sCount, throws, output, failed>>

Joined ==
  /\ phase = "join" /\ \A t \in Threads : pc[t] = "exit"
  /\ phase' = "returned"
  /\ UNCHANGED <<driver, workQ, joinQ, m_Serial, m_NextJoin, pc, item, m_Stop, sCount, throws, output, failed>>

Next ==
  \/ \E t \in Threads : Thread(t)
  \/ Insert \/ EndOfInput \/ Stop \/ Joined

\* Every thread runs, and so does the caller of MapReduce; a plain user need
\* neither insert nor stop.
Fairness ==
  /\ \A t \in Threads : WF_vars(Thread(t))
  /\ WF_vars(Insert /\ driver = "mapreduce")
  /\ WF_vars(EndOfInput /\ driver = "mapreduce")
  /\ WF_vars(Stop) /\ WF_vars(Joined)

Spec == Init /\ [][Next]_vars
FairSpec == Spec /\ Fairness

-----------------------------------------------------------------------------
(* Properties.                                                             *)

Abstract == INSTANCE OrderedPipe WITH entered <- m_Serial

\* "pass to join function in order" (OrderedWorker.hpp:11): whichever worker is
\* fastest and whatever throws or stops, the serials reach the join function as
\* 0, 1, 2, ..., none twice and none skipped.
InOrder == Abstract!Spec

\* MapReduce returns only when the reducer has seen every chunk, in order.
CompleteResult ==
  driver = "mapreduce" /\ phase = "returned" =>
    failed = {} /\ output = [i \in 1..Size |-> i - 1]

\* With mappers and reducers that do not throw MapReduce returns; one that
\* throws leaves it polling sCount for ever.
MapReduceReturns ==
  (driver = "mapreduce") ~> (phase = "returned" \/ failed # {})

\* A task that threw blocks exactly the tasks behind it: everything inserted
\* before the first failure still reaches the join function.
EarlierTasksJoin ==
  \A k \in Serials :
    (m_Serial > k) ~> \/ Len(output) > k
                      \/ phase # "insert"
                      \/ \E j \in failed : j <= k

=============================================================================

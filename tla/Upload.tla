------------------------------- MODULE Upload -------------------------------
(***************************************************************************)
(* The spool directory between Threads::DiskQueue::Producer and Consumer   *)
(* (threads/DiskQueue.hpp), and MySQL::Upload (mysql/Upload.hpp), whose    *)
(* handler applies a file inside MySQL::Once::transaction (mysql/Once.hpp) *)
(* so that a file is applied once although it may be handled again.        *)
(*                                                                         *)
(* Files are named by numbers, in the order std::sort gives their names;   *)
(* their content is left out, since the log knows a file by its name.      *)
(* MySQL keeps a transaction's INSERT private and its key locked until it  *)
(* ends.                                                                   *)
(***************************************************************************)
EXTENDS Integers, Sequences, FiniteSets

CONSTANTS
  Names,        \* the file names, natural numbers
  Producers,    \* callers of push(), one call each
  Consumers,    \* Upload::Consumer processes that share the directory
  MaxFaults     \* bound: errors and crashes

ASSUME NamesAssumption == Names \subseteq Nat /\ IsFiniteSet(Names) /\ MaxFaults \in Nat

VARIABLES
  disk,         \* the names of the queued files
  tmp,          \* the producers whose ".tmp" file is in the directory
  ppc, pname,   \* where each push() is, and the name it pushes
  cpc,          \* where each consumer is
  sFiles,       \* the rest of the sorted list a consumer works on
  inTxn,        \* names a consumer's open transaction has put in transaction_log
  transaction_log,  \* the names committed
  applied,      \* how often each name's statements were committed
  faults,
  pushed,       \* history: the names some push() has renamed into place
  listed,       \* history: the names of the listing a consumer works on
  forgotten     \* history: names truncated from the log

diskVars == <<disk, tmp>>
producerVars == <<ppc, pname, pushed>>
consumerVars == <<cpc, sFiles, inTxn, listed>>
db == <<transaction_log, applied, forgotten>>
vars == <<diskVars, producerVars, consumerVars, db, faults>>

Init ==
  /\ disk = {}
  /\ tmp = {}
  /\ ppc = [p \in Producers |-> "exists"]
  /\ pname \in [Producers -> Names]
  /\ cpc = [c \in Consumers |-> "list"]
  /\ sFiles = [c \in Consumers |-> <<>>]
  /\ inTxn = [c \in Consumers |-> {}]
  /\ transaction_log = {}
  /\ applied = [n \in Names |-> 0]
  /\ faults = 0
  /\ pushed = {} /\ forgotten = {}
  /\ listed = [c \in Consumers |-> {}]

Fault == faults < MaxFaults /\ faults' = faults + 1

-----------------------------------------------------------------------------
(* DiskQueue::Producer::push                                               *)

PStep(p, from, to) == ppc[p] = from /\ ppc' = [ppc EXCEPT ![p] = to]

\* std::filesystem::exists, and the early return.
Exists(p) ==
  /\ PStep(p, "exists", IF pname[p] \in disk THEN "done" ELSE "write")
  /\ UNCHANGED <<diskVars, pname, pushed, consumerVars, db, faults>>

\* File::write into the tmp file, with sync.
Write(p) ==
  /\ PStep(p, "write", "rename")
  /\ tmp' = tmp \cup {p}
  /\ UNCHANGED <<disk, pname, pushed, consumerVars, db, faults>>

\* std::filesystem::rename replaces what is there; without its tmp file it
\* throws.  The sync of the directory that follows changes nothing here.
Rename(p) ==
  /\ \/ /\ p \in tmp
        /\ PStep(p, "rename", "done")
        /\ disk' = disk \cup {pname[p]}
        /\ tmp' = tmp \ {p}
        /\ pushed' = pushed \cup {pname[p]}
     \/ /\ p \notin tmp
        /\ PStep(p, "rename", "threw")
        /\ UNCHANGED <<diskVars, pushed>>
  /\ UNCHANGED <<pname, consumerVars, db, faults>>

\* The writer throws: the guard removes the tmp file.
WriteThrows(p) ==
  /\ PStep(p, "write", "threw")
  /\ Fault
  /\ UNCHANGED <<diskVars, pname, pushed, consumerVars, db>>

\* The process dies in push() and leaves its tmp file.
ProducerCrash(p) ==
  /\ ppc[p] \in {"write", "rename"}
  /\ ppc' = [ppc EXCEPT ![p] = "dead"]
  /\ Fault
  /\ UNCHANGED <<diskVars, pname, pushed, consumerVars, db>>

\* cleanup() of any Producer removes every tmp file, in use or not.
Cleanup ==
  /\ tmp # {}
  /\ tmp' = {}
  /\ UNCHANGED <<disk, producerVars, consumerVars, db, faults>>

-----------------------------------------------------------------------------
(* DiskQueue::Consumer::worker with Upload::Consumer::upload               *)

CStep(c, from, to) == cpc[c] = from /\ cpc' = [cpc EXCEPT ![c] = to]
Current(c) == Head(sFiles[c])

\* listFiles: the names of the directory, in some order.
Listings ==
  {files \in [1..Cardinality(disk) -> disk] : \A n \in disk : \E i \in DOMAIN files : files[i] = n}

\* Mutant of SortedFiles: the order of the directory.
UnsortedFiles == Listings

\* update(): listFiles and std::sort, of which there is one result.
SortedFiles ==
  {files \in Listings : \A i, j \in DOMAIN files : i < j => files[i] < files[j]}

List(c) ==
  /\ disk # {}
  /\ CStep(c, "list", "begin")
  /\ \E files \in SortedFiles : sFiles' = [sFiles EXCEPT ![c] = files]
  /\ listed' = [listed EXCEPT ![c] = disk]
  /\ UNCHANGED <<diskVars, producerVars, inTxn, db, faults>>

\* BEGIN and SELECT COUNT(1).
Begin(c) ==
  /\ CStep(c, "begin", IF Current(c) \in transaction_log THEN "commit" ELSE "insert")
  /\ UNCHANGED <<diskVars, producerVars, sFiles, inTxn, listed, db, faults>>

\* Mutant of Fails: upload() swallows the exception and the file is removed.
FailsRemoves(c) ==
  /\ cpc' = [cpc EXCEPT ![c] = "remove"]
  /\ inTxn' = [inTxn EXCEPT ![c] = {}]
  /\ UNCHANGED <<sFiles, listed>>

\* Mutant of Fails: the try block is outside the worker's loop.
FailsForGood(c) ==
  /\ cpc' = [cpc EXCEPT ![c] = "ended"]
  /\ sFiles' = [sFiles EXCEPT ![c] = <<>>]
  /\ inTxn' = [inTxn EXCEPT ![c] = {}]
  /\ UNCHANGED listed

\* The exception leaves the loop over the list, the connection is closed (which
\* rolls back) and the worker sleeps before it lists again.
Fails(c) ==
  /\ cpc' = [cpc EXCEPT ![c] = "list"]
  /\ sFiles' = [sFiles EXCEPT ![c] = <<>>]
  /\ inTxn' = [inTxn EXCEPT ![c] = {}]
  /\ UNCHANGED listed

\* Mutant of LogInsert: transaction_log without its primary key.
LogInsertAlways(c) ==
  /\ CStep(c, "insert", "apply")
  /\ inTxn' = [inTxn EXCEPT ![c] = {Current(c)}]
  /\ UNCHANGED <<diskVars, producerVars, sFiles, listed, db, faults>>

\* INSERT INTO transaction_log: the primary key makes it wait for another
\* transaction with the same key, and fail when that one has committed.
LogInsert(c) ==
  /\ cpc[c] = "insert"
  /\ \A d \in Consumers \ {c} : Current(c) \notin inTxn[d]
  /\ \/ /\ Current(c) \notin transaction_log
        /\ CStep(c, "insert", "apply")
        /\ inTxn' = [inTxn EXCEPT ![c] = {Current(c)}]
        /\ UNCHANGED <<sFiles, listed>>
     \/ /\ Current(c) \in transaction_log
        /\ Fails(c)
  /\ UNCHANGED <<diskVars, producerVars, db, faults>>

\* File::by_string: read the file, run its lines.  The file may be gone.
Apply(c) ==
  /\ cpc[c] = "apply"
  /\ \/ Current(c) \in disk /\ CStep(c, "apply", "commit") /\ UNCHANGED <<sFiles, inTxn, listed>>
     \/ Current(c) \notin disk /\ Fails(c)
  /\ UNCHANGED <<diskVars, producerVars, db, faults>>

Committed(c) ==
  /\ transaction_log' = transaction_log \cup inTxn[c]
  /\ applied' = [n \in Names |-> IF n \in inTxn[c] THEN applied[n] + 1 ELSE applied[n]]
  /\ inTxn' = [inTxn EXCEPT ![c] = {}]

Commit(c) ==
  /\ CStep(c, "commit", "remove")
  /\ Committed(c)
  /\ UNCHANGED <<diskVars, producerVars, sFiles, listed, forgotten, faults>>

\* The connection breaks at COMMIT, before or after the server has done it.
CommitBreaks(c) ==
  /\ cpc[c] = "commit"
  /\ Fault
  /\ cpc' = [cpc EXCEPT ![c] = "list"]
  /\ sFiles' = [sFiles EXCEPT ![c] = <<>>]
  /\ \/ Committed(c)
     \/ inTxn' = [inTxn EXCEPT ![c] = {}] /\ UNCHANGED <<transaction_log, applied>>
  /\ UNCHANGED <<diskVars, producerVars, listed, forgotten>>

\* m_Size--, std::filesystem::remove, and the next file of the list.  The file
\* may be gone already: remove() reports that, it does not throw.
RemoveFile(c) ==
  /\ CStep(c, "remove", IF Len(sFiles[c]) = 1 THEN "list" ELSE "begin")
  /\ disk' = disk \ {Current(c)}
  /\ sFiles' = [sFiles EXCEPT ![c] = Tail(@)]
  /\ UNCHANGED <<tmp, producerVars, inTxn, listed, db, faults>>

\* A statement fails.
HandlerThrows(c) ==
  /\ cpc[c] \in {"begin", "insert", "apply"}
  /\ Fault
  /\ Fails(c)
  /\ UNCHANGED <<diskVars, producerVars, db>>

\* The process dies and is started again; MySQL rolls its transaction back.
ConsumerCrash(c) ==
  /\ cpc[c] # "list"
  /\ Fault
  /\ Fails(c)
  /\ UNCHANGED <<diskVars, producerVars, db>>

\* truncate_transaction_log(), two days later.
Truncate(n) ==
  /\ n \in transaction_log
  /\ transaction_log' = transaction_log \ {n}
  /\ forgotten' = forgotten \cup {n}
  /\ UNCHANGED <<diskVars, producerVars, consumerVars, applied, faults>>

Producer(p) == Exists(p) \/ Write(p) \/ Rename(p)
Consumer(c) == List(c) \/ Begin(c) \/ LogInsert(c) \/ Apply(c) \/ Commit(c) \/ RemoveFile(c)

Next ==
  \/ \E p \in Producers : Producer(p) \/ WriteThrows(p) \/ ProducerCrash(p)
  \/ \E c \in Consumers : Consumer(c) \/ CommitBreaks(c) \/ HandlerThrows(c) \/ ConsumerCrash(c)
  \/ Cleanup
  \/ \E n \in Names : Truncate(n)

\* The consumers' threads run; producers come when they like.
Fairness == \A c \in Consumers : WF_vars(Consumer(c))

Spec == Init /\ [][Next]_vars
FairSpec == Spec /\ Fairness

-----------------------------------------------------------------------------
(* Properties.                                                             *)

\* Exactly the "once" of MySQL::Once: whatever crashes between COMMIT and
\* remove, breaks at COMMIT or is handled by two consumers at once, a file's
\* statements are committed at most once while its log entry is kept.
AppliedOnce == \A n \in Names : applied[n] <= 1 \/ n \in forgotten

\* A file that push() put in the queue is not lost: it stays in the directory
\* until its statements are committed.
QueuedOrApplied == \A n \in pushed : n \in disk \/ applied[n] >= 1

\* The files of one listing are applied in the order of their names: an error
\* stops the pass, so no file is begun before the earlier ones of the listing
\* are committed, by this consumer or by another.
AppliedInOrder ==
  \A c \in Consumers :
    cpc[c] # "list" => \A m \in listed[c] : m < Current(c) => applied[m] >= 1

\* Every queued file is applied and removed: errors and crashes only delay it.
Drained == \A n \in Names : n \in disk ~> (n \notin disk /\ applied[n] >= 1)

=============================================================================

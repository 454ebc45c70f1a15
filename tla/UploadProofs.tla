---------------------------- MODULE UploadProofs ----------------------------
(***************************************************************************)
(* MySQL::Once and the spool directory, for any number of files, producers *)
(* and consumers, and for any number of errors and crashes: a file is      *)
(* applied once (AppliedOnce), is not removed before it is applied         *)
(* (QueuedOrApplied), and follows the earlier ones of its listing          *)
(* (AppliedInOrder).                                                       *)
(*                                                                         *)
(* The first rests on the primary key: two open transactions never hold    *)
(* the same name, and none holds a committed one (LogKey).  The second     *)
(* rests on what a consumer knows of its file at each point (Progress).    *)
(* The third adds what it knows of the rest of its listing (Pass).         *)
(***************************************************************************)
EXTENDS Upload, TLAPS, SequenceTheorems, FiniteSetTheorems

\* Nothing is said of sFiles: the argument holds for any list of files.
Types ==
  /\ pname \in [Producers -> Names] /\ pushed \subseteq Names /\ disk \subseteq Names
  /\ cpc \in [Consumers -> {"list", "begin", "insert", "apply", "commit", "remove"}]
  /\ inTxn = [c \in Consumers |-> inTxn[c]]
  /\ applied \in [Names -> Nat]
  /\ sFiles = [c \in Consumers |-> sFiles[c]]

\* The primary key of transaction_log, and its row locks.
LogKey ==
  /\ \A c \in Consumers : inTxn[c] \cap transaction_log = {}
  /\ \A c, d \in Consumers : c # d => inTxn[c] \cap inTxn[d] = {}

\* The log knows every name that was applied, unless it was truncated.
LogComplete ==
  \A n \in Names :
    /\ n \in transaction_log => applied[n] >= 1
    /\ n \notin transaction_log => applied[n] = 0 \/ n \in forgotten

\* What a consumer has established about the file it works on.
Progress ==
  \A c \in Consumers : \A n \in Names : n = Current(c) =>
    /\ cpc[c] = "apply" => n \in inTxn[c]
    /\ cpc[c] = "commit" => n \in inTxn[c] \/ applied[n] >= 1
    /\ cpc[c] = "remove" => applied[n] >= 1

IInv == Types /\ LogKey /\ LogComplete /\ Progress /\ AppliedOnce /\ QueuedOrApplied

-----------------------------------------------------------------------------
\* The invariant holds of an empty directory and an empty log.
LEMMA InitOk == Init => IInv
  BY DEF Init, IInv, Types, LogKey, LogComplete, Progress, AppliedOnce, QueuedOrApplied

\* A producer, or what stops one, never takes a file out of the directory.
LEMMA ProducerStep ==
  ASSUME IInv, UNCHANGED <<consumerVars, db>>, UNCHANGED pname,
         \/ UNCHANGED <<disk, pushed>>
         \/ \E n \in Names : disk' = disk \cup {n} /\ pushed' = pushed \cup {n}
  PROVE  IInv'
<1> USE DEF IInv
<1>1. UNCHANGED <<cpc, sFiles, inTxn, listed, transaction_log, applied, forgotten, pname>>
  BY DEF consumerVars, db
<1>2. Types' /\ LogKey' /\ LogComplete' /\ AppliedOnce'
  BY <1>1 DEF Types, LogKey, LogComplete, AppliedOnce
<1>3. Progress'
  BY <1>1 DEF Progress, Current
<1>4. QueuedOrApplied'
  BY <1>1 DEF QueuedOrApplied
<1> QED
  BY <1>2, <1>3, <1>4

\* A consumer that keeps its transaction, or has none, moves on to a place
\* about which it has established what Progress asks.
LEMMA MoveStep ==
  ASSUME IInv, NEW c \in Consumers, NEW to \in {"list", "begin", "insert", "commit"},
         cpc' = [cpc EXCEPT ![c] = to],
         UNCHANGED <<disk, pushed, pname, inTxn, transaction_log, applied, forgotten>>,
         sFiles' = [sFiles EXCEPT ![c] = sFiles'[c]],
         \A n \in Names : n = Current(c)' /\ to = "commit" => n \in inTxn[c] \/ applied[n] >= 1
  PROVE  IInv'
<1> USE DEF IInv
<1>1. Types' /\ LogKey' /\ LogComplete' /\ AppliedOnce' /\ QueuedOrApplied'
  BY DEF Types, LogKey, LogComplete, AppliedOnce, QueuedOrApplied
<1>2. Progress'
  BY DEF Progress, Current, Types
<1> QED
  BY <1>1, <1>2

\* An error or a crash ends the transaction and the pass.
LEMMA FailsStep ==
  ASSUME IInv, NEW c \in Consumers, Fails(c),
         UNCHANGED <<disk, pushed, pname, transaction_log, applied, forgotten>>
  PROVE  IInv'
<1> USE DEF IInv
<1>1. Types'
  BY DEF Types, Fails
<1>2. LogKey'
  BY DEF LogKey, Fails, Types
<1>3. Progress'
  BY DEF Progress, Current, Fails, Types
<1> QED
  BY <1>1, <1>2, <1>3 DEF LogComplete, AppliedOnce, QueuedOrApplied

\* INSERT INTO transaction_log takes the key no other transaction holds.
LEMMA LogInsertStep ==
  ASSUME IInv, NEW c \in Consumers, LogInsert(c)
  PROVE  IInv'
<1> USE DEF IInv
<1>1. UNCHANGED <<disk, pushed, pname, transaction_log, applied, forgotten>>
  BY DEF LogInsert, diskVars, producerVars, db
<1>2. CASE Fails(c)
  BY <1>1, <1>2, FailsStep
<1>3. CASE /\ Current(c) \notin transaction_log
           /\ CStep(c, "insert", "apply")
           /\ inTxn' = [inTxn EXCEPT ![c] = {Current(c)}]
           /\ UNCHANGED <<sFiles, listed>>
  <2>1. Types'
    BY <1>1, <1>3 DEF Types, CStep
  <2>2. LogKey'
    BY <1>1, <1>3 DEF LogKey, LogInsert, Types
  <2>3. Progress'
    BY <1>1, <1>3 DEF Progress, Current, CStep, Types
  <2> QED
    BY <1>1, <2>1, <2>2, <2>3 DEF LogComplete, AppliedOnce, QueuedOrApplied
<1> QED
  BY <1>2, <1>3 DEF LogInsert

\* COMMIT publishes the transaction, wherever the consumer goes next.
LEMMA CommittedStep ==
  ASSUME IInv, NEW c \in Consumers, NEW to \in {"list", "remove"}, Committed(c),
         cpc[c] = "commit", cpc' = [cpc EXCEPT ![c] = to],
         sFiles' = [sFiles EXCEPT ![c] = sFiles'[c]], to = "remove" => sFiles' = sFiles,
         UNCHANGED <<disk, pushed, pname, forgotten>>
  PROVE  IInv'
<1> USE DEF IInv
<1>1. Types'
  <2>1. applied' \in [Names -> Nat]
    BY DEF Types, Committed
  <2>2. cpc' \in [Consumers -> {"list", "begin", "insert", "apply", "commit", "remove"}]
    BY DEF Types
  <2>3. inTxn' = [d \in Consumers |-> inTxn'[d]] /\ sFiles' = [d \in Consumers |-> sFiles'[d]]
    BY DEF Types, Committed
  <2> QED
    BY <2>1, <2>2, <2>3 DEF Types
<1>2. \A n \in Names : applied'[n] = IF n \in inTxn[c] THEN applied[n] + 1 ELSE applied[n]
  BY DEF Committed
<1>3. \A n \in Names : applied[n] \in Nat
  BY DEF Types
<1>4. LogKey'
  BY DEF LogKey, Committed, Types
<1>5. LogComplete' /\ AppliedOnce'
  BY <1>2, <1>3 DEF LogComplete, AppliedOnce, LogKey, Committed
<1>6. QueuedOrApplied'
  <2>1. \A n \in Names : applied[n] >= 1 => applied'[n] >= 1
    BY <1>2, <1>3
  <2> QED
    BY <2>1 DEF QueuedOrApplied, Types
<1>7. Progress'
  <2>1. \A d \in Consumers \ {c} : cpc'[d] = cpc[d] /\ inTxn'[d] = inTxn[d] /\ Current(d)' = Current(d)
    BY DEF Committed, Types, Current
  <2>2. to = "remove" => Current(c)' = Current(c)
    BY DEF Current
  <2> QED
    BY <1>2, <1>3, <2>1, <2>2 DEF Progress, Types
<1> QED
  BY <1>1, <1>4, <1>5, <1>6, <1>7

\* The file goes after its name was applied.
LEMMA RemoveFileStep ==
  ASSUME IInv, NEW c \in Consumers, RemoveFile(c)
  PROVE  IInv'
<1> USE DEF IInv
<1>1. /\ UNCHANGED <<pushed, pname, inTxn, transaction_log, applied, forgotten>>
      /\ disk' = disk \ {Current(c)} /\ cpc[c] = "remove"
      /\ sFiles' = [sFiles EXCEPT ![c] = sFiles'[c]]
      /\ \E to \in {"list", "begin"} : cpc' = [cpc EXCEPT ![c] = to]
  BY DEF RemoveFile, CStep, producerVars, db, Types
<1>2. Types'
  BY <1>1 DEF Types
<1>3. QueuedOrApplied'
  BY <1>1 DEF QueuedOrApplied, Progress, Types
<1>4. Progress'
  BY <1>1 DEF Progress, Current, Types
<1> QED
  BY <1>1, <1>2, <1>3, <1>4 DEF LogKey, LogComplete, AppliedOnce

\* Truncating the log makes a name forgotten; what was applied stays so.
LEMMA TruncateStep ==
  ASSUME IInv, NEW n \in Names, Truncate(n)
  PROVE  IInv'
<1> USE DEF IInv
<1>1. UNCHANGED <<disk, pushed, pname, cpc, sFiles, inTxn, applied>>
  BY DEF Truncate, diskVars, producerVars, consumerVars
<1>2. Types' /\ QueuedOrApplied'
  BY <1>1 DEF Types, QueuedOrApplied
<1>3. Progress'
  BY <1>1 DEF Progress, Current
<1>4. LogKey' /\ LogComplete' /\ AppliedOnce'
  BY <1>1 DEF LogKey, LogComplete, AppliedOnce, Truncate
<1> QED
  BY <1>2, <1>3, <1>4

\* Every step of the consumers keeps the invariant.
LEMMA ConsumerStep ==
  ASSUME IInv, NEW c \in Consumers,
         Consumer(c) \/ CommitBreaks(c) \/ HandlerThrows(c) \/ ConsumerCrash(c)
  PROVE  IInv'
<1> USE DEF diskVars, producerVars, consumerVars, db
<1>1. CASE List(c)
  <2>1. /\ cpc' = [cpc EXCEPT ![c] = "begin"]
        /\ sFiles' = [sFiles EXCEPT ![c] = sFiles'[c]]
    BY <1>1 DEF List, CStep, IInv, Types
  <2> QED
    BY <1>1, <2>1, MoveStep DEF List
<1>2. CASE Begin(c)
  <2>1. PICK to \in {"commit", "insert"} :
          /\ cpc' = [cpc EXCEPT ![c] = to]
          /\ to = "commit" => Current(c) \in transaction_log
    BY <1>2 DEF Begin, CStep
  <2>2. \A n \in Names : n = Current(c)' /\ to = "commit" => applied[n] >= 1
    BY <1>2, <2>1 DEF Begin, IInv, LogComplete, Current
  <2>3. sFiles' = [sFiles EXCEPT ![c] = sFiles'[c]]
    BY <1>2 DEF Begin, IInv, Types
  <2> QED
    BY <1>2, <2>1, <2>2, <2>3, MoveStep DEF Begin
<1>3. CASE LogInsert(c)
  BY <1>3, LogInsertStep
<1>4. CASE Apply(c)
  <2>1. CASE Fails(c)
    BY <1>4, <2>1, FailsStep DEF Apply
  <2>2. CASE CStep(c, "apply", "commit") /\ UNCHANGED <<sFiles, inTxn, listed>>
    <3>1. \A n \in Names : n = Current(c)' => n \in inTxn[c]
      BY <2>2 DEF IInv, Progress, Current, CStep
    <3>2. sFiles' = [sFiles EXCEPT ![c] = sFiles'[c]]
      BY <2>2 DEF IInv, Types
    <3> QED
      BY <1>4, <2>2, <3>1, <3>2, MoveStep DEF Apply, CStep
  <2> QED
    BY <1>4, <2>1, <2>2 DEF Apply
<1>5. CASE Commit(c)
  <2>1. sFiles' = [sFiles EXCEPT ![c] = sFiles'[c]]
    BY <1>5 DEF Commit, IInv, Types
  <2> QED
    BY <1>5, <2>1, CommittedStep DEF Commit, CStep
<1>6. CASE RemoveFile(c)
  BY <1>6, RemoveFileStep
<1>7. CASE CommitBreaks(c)
  <2>1. CASE Committed(c)
    <3>1. sFiles' = [sFiles EXCEPT ![c] = sFiles'[c]]
      BY <1>7 DEF CommitBreaks, IInv, Types
    <3> QED
      BY <1>7, <2>1, <3>1, CommittedStep DEF CommitBreaks
  <2>2. CASE inTxn' = [inTxn EXCEPT ![c] = {}] /\ UNCHANGED <<transaction_log, applied>>
    BY <1>7, <2>2, FailsStep DEF CommitBreaks, Fails
  <2> QED
    BY <1>7, <2>1, <2>2 DEF CommitBreaks
<1>8. CASE HandlerThrows(c) \/ ConsumerCrash(c)
  BY <1>8, FailsStep DEF HandlerThrows, ConsumerCrash
<1> QED
  BY <1>1, <1>2, <1>3, <1>4, <1>5, <1>6, <1>7, <1>8 DEF Consumer

\* Every step keeps the invariant.
LEMMA NextOk == IInv /\ [Next]_vars => IInv'
<1> SUFFICES ASSUME IInv, [Next]_vars PROVE IInv'
  OBVIOUS
<1> USE DEF diskVars, producerVars, consumerVars, db
<1>1. CASE UNCHANGED vars
  BY <1>1, ProducerStep DEF vars
<1>2. ASSUME NEW p \in Producers, Producer(p) \/ WriteThrows(p) \/ ProducerCrash(p)
      PROVE  IInv'
  <2>1. \/ UNCHANGED <<disk, pushed>>
        \/ disk' = disk \cup {pname[p]} /\ pushed' = pushed \cup {pname[p]}
    BY <1>2 DEF Producer, Exists, Write, Rename, WriteThrows, ProducerCrash
  <2>2. pname[p] \in Names
    BY DEF IInv, Types
  <2>3. UNCHANGED <<consumerVars, db>> /\ UNCHANGED pname
    BY <1>2 DEF Producer, Exists, Write, Rename, WriteThrows, ProducerCrash
  <2> QED
    BY <2>1, <2>2, <2>3, ProducerStep
<1>3. ASSUME NEW c \in Consumers,
             Consumer(c) \/ CommitBreaks(c) \/ HandlerThrows(c) \/ ConsumerCrash(c)
      PROVE  IInv'
  BY <1>3, ConsumerStep
<1>4. CASE Cleanup
  BY <1>4, ProducerStep DEF Cleanup
<1>5. ASSUME NEW n \in Names, Truncate(n)
      PROVE  IInv'
  BY <1>5, TruncateStep
<1> QED
  BY <1>1, <1>2, <1>3, <1>4, <1>5 DEF Next

-----------------------------------------------------------------------------
\* The invariant of every reachable state.
THEOREM Inductive == Spec => []IInv
  BY InitOk, NextOk, PTL DEF Spec

\* MySQL::Once (Once.hpp:10-24): the statements of a file are committed at
\* most once while its name stays in transaction_log.
THEOREM UploadedOnce == Spec => []AppliedOnce
<1>1. IInv => AppliedOnce
  BY DEF IInv
<1> QED
  BY <1>1, Inductive, PTL

\* A queued file is removed only after its statements were committed
\* (DiskQueue.hpp:62-66).
THEOREM NothingLost == Spec => []QueuedOrApplied
<1>1. IInv => QueuedOrApplied
  BY DEF IInv
<1> QED
  BY <1>1, Inductive, PTL

-----------------------------------------------------------------------------
(* The order of a pass.                                                    *)

Increasing(files) == \A i, j \in 1..Len(files) : i < j => files[i] < files[j]
Has(files, n) == \E i \in 1..Len(files) : files[i] = n

\* The files a consumer has still to do are sorted, and what is missing from
\* them has been applied.
PassOf(c) ==
  /\ sFiles[c] \in Seq(Names) /\ Increasing(sFiles[c]) /\ listed[c] \subseteq Names
  /\ cpc[c] # "list" =>
       /\ sFiles[c] # <<>>
       /\ \A m \in listed[c] : applied[m] >= 1 \/ Has(sFiles[c], m)
Pass ==
  /\ listed = [c \in Consumers |-> listed[c]]
  /\ \A c \in Consumers : PassOf(c)

\* No consumer has begun a pass.
LEMMA PassInit == Init => Pass
<1> SUFFICES ASSUME Init PROVE Pass
  OBVIOUS
<1>1. <<>> \in Seq(Names) /\ Len(<<>>) = 0
  BY EmptySeq
<1> QED
  BY <1>1 DEF Init, Pass, PassOf, Increasing

\* No step takes back what was applied.
LEMMA AppliedGrows ==
  ASSUME IInv, [Next]_vars, NEW n \in Names, applied[n] >= 1
  PROVE  applied'[n] >= 1
<1>1. applied[n] \in Nat
  BY DEF IInv, Types
<1>2. UNCHANGED applied \/ \E c \in Consumers : Committed(c)
  BY DEF Next, Producer, Exists, Write, Rename, WriteThrows, ProducerCrash, Consumer, List, Begin,
         LogInsert, Apply, Commit, RemoveFile, CommitBreaks, HandlerThrows, ConsumerCrash, Cleanup,
         Truncate, db, vars
<1> QED
  BY <1>1, <1>2 DEF Committed

\* A consumer whose list does not change keeps what it knows.
LEMMA PassKept ==
  ASSUME IInv, [Next]_vars, NEW c \in Consumers, PassOf(c),
         sFiles'[c] = sFiles[c], listed'[c] = listed[c], cpc[c] = "list" => cpc'[c] = "list"
  PROVE  PassOf(c)'
BY AppliedGrows DEF PassOf, Has

\* The names of the directory, sorted.
LEMMA ListPass ==
  ASSUME IInv, Pass, NEW c \in Consumers, List(c)
  PROVE  PassOf(c)'
<1>1. PICK files \in SortedFiles : sFiles' = [sFiles EXCEPT ![c] = files]
  BY DEF List
<1> DEFINE n == Cardinality(disk)
<1>2. disk \subseteq Names /\ disk # {} /\ n \in Nat
  BY FS_Subset, FS_CardinalityType, NamesAssumption DEF IInv, Types, List
<1> HIDE DEF n
<1>3. /\ files \in [1..n -> disk]
      /\ \A m \in disk : \E i \in 1..n : files[i] = m
      /\ \A i, j \in 1..n : i < j => files[i] < files[j]
  BY <1>1 DEF SortedFiles, Listings, n
<1>4. files \in Seq(disk) /\ Len(files) = n
  BY <1>2, <1>3, SeqDef
<1>5. files \in Seq(Names) /\ Increasing(files) /\ \A m \in disk : Has(files, m)
  BY <1>2, <1>3, <1>4 DEF Increasing, Has
<1>6. files # <<>>
  BY <1>2, <1>5, EmptySeq DEF Has
<1>7. sFiles'[c] = files /\ listed'[c] = disk
  BY <1>1 DEF List, IInv, Types, Pass
<1> QED
  BY <1>2, <1>5, <1>6, <1>7 DEF PassOf

\* The first of the list has been applied when it goes.
LEMMA RemovePass ==
  ASSUME IInv, Pass, NEW c \in Consumers, RemoveFile(c)
  PROVE  PassOf(c)'
<1> DEFINE old == sFiles[c]
           new == Tail(old)
<1>1. /\ cpc[c] = "remove" /\ cpc'[c] = (IF Len(old) = 1 THEN "list" ELSE "begin")
      /\ sFiles'[c] = new /\ listed'[c] = listed[c] /\ applied' = applied
  BY DEF RemoveFile, CStep, IInv, Types, db
<1>2. /\ old \in Seq(Names) /\ old # <<>> /\ Increasing(old) /\ listed[c] \subseteq Names
      /\ \A m \in listed[c] : applied[m] >= 1 \/ Has(old, m)
  BY <1>1 DEF Pass, PassOf
<1>3. Len(old) \in Nat \ {0} /\ Head(old) = old[1] /\ old[1] \in Names
  BY <1>2, EmptySeq, HeadTailProperties
<1>4. applied[old[1]] >= 1
  BY <1>1, <1>3 DEF IInv, Progress, Current
<1>5. /\ new \in Seq(Names) /\ Len(new) = Len(old) - 1
      /\ \A i \in 1..Len(new) : new[i] = old[i + 1]
  BY <1>2, HeadTailProperties
<1> HIDE DEF old, new
<1>6. Increasing(new)
  <2> SUFFICES ASSUME NEW i \in 1..Len(new), NEW j \in 1..Len(new), i < j
               PROVE  new[i] < new[j]
    BY DEF Increasing
  <2>1. i + 1 \in 1..Len(old) /\ j + 1 \in 1..Len(old) /\ i + 1 < j + 1
    BY <1>3, <1>5
  <2> QED
    BY <1>2, <1>5, <2>1 DEF Increasing
<1>7. ASSUME NEW m \in listed[c] PROVE applied[m] >= 1 \/ Has(new, m)
  <2>1. CASE applied[m] >= 1
    BY <2>1
  <2>2. CASE Has(old, m)
    <3>1. PICK i \in 1..Len(old) : old[i] = m
      BY <2>2 DEF Has
    <3>2. CASE i = 1
      BY <1>4, <3>1, <3>2
    <3>3. CASE i # 1
      <4>1. i - 1 \in 1..Len(new) /\ (i - 1) + 1 = i
        BY <1>3, <1>5, <3>3
      <4> QED
        BY <1>5, <3>1, <4>1 DEF Has
    <3> QED
      BY <3>2, <3>3
  <2> QED
    BY <1>2, <2>1, <2>2
<1>8. cpc'[c] # "list" => new # <<>>
  <2>1. Len(old) = 1 \/ Len(new) # 0
    BY <1>3, <1>5
  <2> QED
    BY <1>1, <2>1, EmptySeq
<1> QED
  BY <1>1, <1>2, <1>5, <1>6, <1>7, <1>8 DEF PassOf

\* The end of a pass, by an error or a crash.
LEMMA EndPass ==
  ASSUME IInv, Pass, NEW c \in Consumers,
         cpc' = [cpc EXCEPT ![c] = "list"], sFiles' = [sFiles EXCEPT ![c] = <<>>], listed' = listed
  PROVE  PassOf(c)'
<1>1. <<>> \in Seq(Names) /\ Len(<<>>) = 0
  BY EmptySeq
<1>2. cpc'[c] = "list" /\ sFiles'[c] = <<>> /\ listed'[c] = listed[c]
  BY DEF IInv, Types
<1> QED
  BY <1>1, <1>2 DEF Pass, PassOf, Increasing

\* Every step keeps what the consumers know of their listings.
LEMMA PassNext == IInv /\ Pass /\ [Next]_vars => Pass'
<1> SUFFICES ASSUME IInv, Pass, [Next]_vars PROVE Pass'
  OBVIOUS
<1>1. CASE UNCHANGED <<cpc, sFiles, listed>>
  <2>1. \A d \in Consumers : PassOf(d)'
    BY <1>1, PassKept DEF Pass
  <2> QED
    BY <1>1, <2>1 DEF Pass
<1>2. ASSUME NEW c \in Consumers,
             Consumer(c) \/ CommitBreaks(c) \/ HandlerThrows(c) \/ ConsumerCrash(c)
      PROVE  Pass'
  <2>1. /\ listed' = [d \in Consumers |-> listed'[d]]
        /\ \A d \in Consumers \ {c} : /\ cpc'[d] = cpc[d] /\ sFiles'[d] = sFiles[d]
                                      /\ listed'[d] = listed[d]
    BY <1>2 DEF Consumer, List, Begin, LogInsert, Apply, Commit, RemoveFile, CommitBreaks, Fails,
                HandlerThrows, ConsumerCrash, CStep, IInv, Types, Pass
  <2>2. \A d \in Consumers \ {c} : PassOf(d)'
    BY <2>1, PassKept DEF Pass
  <2>3. PassOf(c)'
    <3>1. CASE List(c)
      BY <3>1, ListPass
    <3>2. CASE RemoveFile(c)
      BY <3>2, RemovePass
    <3>3. CASE Fails(c) \/ CommitBreaks(c)
      BY <3>3, EndPass DEF Fails, CommitBreaks
    <3>4. CASE /\ cpc[c] # "list" /\ UNCHANGED <<sFiles, listed>>
      BY <3>4, PassKept DEF Pass
    <3> QED
      BY <1>2, <3>1, <3>2, <3>3, <3>4
      DEF Consumer, Begin, LogInsert, Apply, Commit, HandlerThrows, ConsumerCrash, CStep
  <2> QED
    BY <2>1, <2>2, <2>3 DEF Pass
<1> QED
  BY <1>1, <1>2 DEF Next, Producer, Exists, Write, Rename, WriteThrows, ProducerCrash, Cleanup,
                    Truncate, vars, consumerVars

\* The files of one listing are applied in the order of std::sort, whatever
\* errors, crashes and other consumers come between (DiskQueue.hpp:38-70).
THEOREM InOrderHolds == Spec => []AppliedInOrder
<1>1. IInv /\ Pass => AppliedInOrder
  <2> SUFFICES ASSUME IInv, Pass, NEW c \in Consumers, cpc[c] # "list",
                      NEW m \in listed[c], m < Current(c)
               PROVE  applied[m] >= 1
    BY DEF AppliedInOrder
  <2>1. /\ sFiles[c] \in Seq(Names) /\ sFiles[c] # <<>> /\ Increasing(sFiles[c])
        /\ m \in Names /\ (applied[m] >= 1 \/ Has(sFiles[c], m))
    BY DEF Pass, PassOf
  <2>2. Len(sFiles[c]) \in Nat \ {0} /\ Current(c) = sFiles[c][1] /\ sFiles[c][1] \in Names
    BY <2>1, EmptySeq, HeadTailProperties DEF Current
  <2>3. m \in Int /\ sFiles[c][1] \in Int
    BY <2>1, <2>2, NamesAssumption
  <2>4. ASSUME NEW i \in 1..Len(sFiles[c]), sFiles[c][i] = m PROVE FALSE
    <3>1. i = 1 \/ sFiles[c][1] < sFiles[c][i]
      BY <2>1, <2>2 DEF Increasing
    <3> QED
      BY <2>2, <2>3, <2>4, <3>1
  <2> QED
    BY <2>1, <2>4 DEF Has
<1> QED
  BY <1>1, PassInit, PassNext, Inductive, PTL DEF Spec

=============================================================================

------------------------------ MODULE MQProofs ------------------------------
(***************************************************************************)
(* The safety of MQ for every set of clients, servers, hashes and slots,   *)
(* and every limit.  That a hash is queued once rests on the list in etcd: *)
(* whoever committed a hash left it there (Stored), and who is about to    *)
(* commit one has seen a list without it (Fresh), the very list the        *)
(* transaction compares with.                                              *)
(***************************************************************************)
EXTENDS MQ, TLAPS, FiniteSetTheorems, SequenceTheorems

Stages == {"wire", "size", "get", "txn", "insert", "leave", "reply"}
Request == [stage : Stages, client : Clients, hash : Hashes, server : Servers,
            old : Seq(Hashes), code : Nat]
Transaction == [client : Clients, hash : Hashes, old : Seq(Hashes)]

TypeOK ==
  /\ scenario \in Scenarios
  /\ todo \in [Clients -> Seq(Hashes)]
  /\ awaits \in [Clients -> Slots \cup {NoSlot}]
  /\ cup \in [Clients -> BOOLEAN]
  /\ inserts \in [Clients -> Nat]
  /\ req \in [Slots -> Request \cup {Free}]
  /\ late \in SUBSET Transaction
  /\ etcd \in [Clients -> Seq(Hashes)]
  /\ m_Active \in [Servers -> BOOLEAN]
  /\ m_Running \in [Servers -> Int]
  /\ m_Queue \in [Servers -> Seq(Keys)]
  /\ phase \in [Servers -> {"up", "requests", "tasks", "stopped"}]
  /\ expired \in [Servers -> BOOLEAN]
  /\ faults \in Nat
  /\ inserted \in [Keys -> Nat]
  /\ acked \in SUBSET Keys /\ orphaned \in SUBSET Keys /\ evicted \in SUBSET Keys

\* A client waits for the request with the head of its queue.
Awaiting ==
  \A c \in Clients : awaits[c] # NoSlot =>
    /\ todo[c] # <<>> /\ req[awaits[c]] # Free
    /\ req[awaits[c]].client = c /\ req[awaits[c]].hash = Head(todo[c])

\* The request in slot i has committed k and not yet put it in the queue.
Pends(i, k) == At(i, "insert") /\ KeyOf(i) = k

\* k was committed to etcd.
Committed(k) == inserted[k] >= 1 \/ k \in orphaned \/ \E i \in Slots : Pends(i, k)

InEtcd(k) == \E n \in 1..Len(etcd[k[1]]) : etcd[k[1]][n] = k[2]

\* A transaction that is to come has read a list without its hash.
Unseen(t) == \A n \in 1..Len(t.old) : t.old[n] # t.hash
Fresh ==
  /\ \A i \in Slots : At(i, "txn") => Unseen(req[i])
  /\ \A t \in late : Unseen(t)

\* What was committed is in etcd until it is evicted, and what is in etcd was
\* committed, and so was what is or will be answered with 200.
Stored ==
  /\ \A k \in Keys : Committed(k) => InEtcd(k) \/ k \in evicted
  /\ \A k \in Keys : InEtcd(k) => Committed(k)
  /\ \A i \in Slots : At(i, "leave") \/ At(i, "reply") =>
       (req[i].code = 200 => Committed(KeyOf(i)))
  /\ \A k \in acked : Committed(k)

\* A hash that is not evicted was committed for one request, which has put it in
\* the queue, or will.
Single ==
  \A k \in Keys \ evicted :
    /\ inserted[k] <= 1
    /\ \A i \in Slots : Pends(i, k) => inserted[k] = 0
    /\ \A i, j \in Slots : Pends(i, k) /\ Pends(j, k) => i = j

\* m_Running counts the requests inside process().
Counted == \A s \in Servers : m_Running[s] = Cardinality(Inside(s))

\* Nobody enters a server that stops, so a server that did not have to cut the
\* wait short has nobody inside when it goes on to its tasks.
Stopping ==
  \A s \in Servers :
    /\ m_Active[s] => phase[s] = "up"
    /\ phase[s] = "tasks" /\ ~expired[s] => Inside(s) = {}

IInv == TypeOK /\ Awaiting /\ Fresh /\ Stored /\ Single /\ Counted /\ Stopping

-----------------------------------------------------------------------------
(* Requests: what a step of one coroutine does to its slot.                *)

\* The request in slot i goes on with its client, hash and server.
Moved(i) ==
  /\ req' \in [Slots -> Request \cup {Free}]
  /\ req[i] \in Request /\ req'[i] \in Request
  /\ req'[i].client = req[i].client /\ req'[i].hash = req[i].hash
  /\ req'[i].server = req[i].server
  /\ \A j \in Slots \ {i} : req'[j] = req[j]

\* A request is told from a free slot by its stage.
LEMMA RequestFacts ==
  /\ Free.stage = "free" /\ Free \notin Request
  /\ \A r \in Request : /\ r # Free /\ r.stage \in Stages /\ r.client \in Clients
                        /\ r.hash \in Hashes /\ r.server \in Servers
                        /\ r.old \in Seq(Hashes) /\ r.code \in Nat
                        /\ <<r.client, r.hash>> \in Keys
BY DEF Free, Request, Stages, Keys

\* A slot with a stage of its own holds a request.
LEMMA AtFacts ==
  ASSUME TypeOK, NEW i \in Slots, NEW st \in Stages, At(i, st)
  PROVE  req[i] \in Request
<1>1. req[i] \in Request \cup {Free} /\ req[i].stage = st
  BY DEF TypeOK, At
<1>2. st # "free"
  BY DEF Stages
<1> QED
  BY <1>1, <1>2, RequestFacts

\* Go(i, st)
LEMMA GoMoves ==
  ASSUME TypeOK, NEW i \in Slots, req[i] \in Request, NEW st \in Stages, Go(i, st)
  PROVE  /\ Moved(i) /\ req'[i].stage = st
         /\ req'[i].old = req[i].old /\ req'[i].code = req[i].code
<1>1. req'[i] = [req[i] EXCEPT !.stage = st] /\ \A j \in Slots \ {i} : req'[j] = req[j]
  BY DEF Go, TypeOK
<1>2. req'[i] \in Request
  BY <1>1 DEF Request
<1>3. req' \in [Slots -> Request \cup {Free}]
  BY <1>2 DEF Go, TypeOK
<1>4. /\ req'[i].client = req[i].client /\ req'[i].hash = req[i].hash
      /\ req'[i].server = req[i].server /\ req'[i].stage = st
      /\ req'[i].old = req[i].old /\ req'[i].code = req[i].code
  BY <1>1 DEF Request
<1> QED
  BY <1>1, <1>2, <1>3, <1>4 DEF Moved

\* Result(i, code), and the answers that are made without process_i.
Ends(i, st, code) == req' = [req EXCEPT ![i].stage = st, ![i].code = code]

\* Ends changes the stage and the code of one request.
LEMMA EndsMoves ==
  ASSUME TypeOK, NEW i \in Slots, req[i] \in Request, NEW st \in Stages, NEW code \in Nat,
         Ends(i, st, code)
  PROVE  /\ Moved(i) /\ req'[i].stage = st
         /\ req'[i].old = req[i].old /\ req'[i].code = code
<1>1. /\ req'[i] = [stage |-> st, client |-> req[i].client, hash |-> req[i].hash,
                    server |-> req[i].server, old |-> req[i].old, code |-> code]
      /\ \A j \in Slots \ {i} : req'[j] = req[j]
  BY DEF TypeOK, Request, Ends
<1>2. req'[i] \in Request
  BY <1>1 DEF Request
<1>3. req' \in [Slots -> Request \cup {Free}]
  BY <1>2 DEF TypeOK, Ends
<1>4. /\ req'[i].client = req[i].client /\ req'[i].hash = req[i].hash
      /\ req'[i].server = req[i].server /\ req'[i].stage = st
      /\ req'[i].old = req[i].old /\ req'[i].code = code
  BY <1>1 DEF Request
<1> QED
  BY <1>1, <1>2, <1>3, <1>4 DEF Moved

\* Result sends one request to the end of process().
LEMMA ResultMoves ==
  ASSUME TypeOK, NEW i \in Slots, req[i] \in Request, NEW code \in Nat, Result(i, code)
  PROVE  /\ Moved(i) /\ req'[i].stage = "leave"
         /\ req'[i].old = req[i].old /\ req'[i].code = code
<1>1. Ends(i, "leave", code) /\ "leave" \in Stages
  BY DEF Result, Ends, Stages
<1> QED
  BY <1>1, EndsMoves

\* What EtcdGet makes of a request whose hash it did not find.
LEMMA ReadMoves ==
  ASSUME TypeOK, NEW i \in Slots, req[i] \in Request, NEW old \in Seq(Hashes),
         req' = [req EXCEPT ![i].stage = "txn", ![i].old = old]
  PROVE  Moved(i) /\ req'[i].stage = "txn" /\ req'[i].old = old
<1>1. /\ req'[i] = [stage |-> "txn", client |-> req[i].client, hash |-> req[i].hash,
                    server |-> req[i].server, old |-> old, code |-> req[i].code]
      /\ \A j \in Slots \ {i} : req'[j] = req[j]
  BY DEF TypeOK, Request
<1>2. req'[i] \in Request
  BY <1>1 DEF Request, Stages
<1>3. req' \in [Slots -> Request \cup {Free}]
  BY <1>2 DEF TypeOK
<1>4. /\ req'[i].client = req[i].client /\ req'[i].hash = req[i].hash
      /\ req'[i].server = req[i].server /\ req'[i].stage = "txn" /\ req'[i].old = old
  BY <1>1 DEF Request
<1> QED
  BY <1>1, <1>2, <1>3, <1>4 DEF Moved

\* Whoever waits for a request still waits for it when it went on.
LEMMA AwaitingMoved ==
  ASSUME TypeOK, Awaiting, NEW i \in Slots, Moved(i), UNCHANGED <<todo, awaits>>
  PROVE  Awaiting'
<1> SUFFICES ASSUME NEW c \in Clients, awaits[c] # NoSlot
             PROVE  /\ todo[c] # <<>> /\ req'[awaits[c]] # Free
                    /\ req'[awaits[c]].client = c /\ req'[awaits[c]].hash = Head(todo[c])
  BY DEF Awaiting
<1>1. awaits[c] \in Slots
  BY DEF TypeOK
<1>2. CASE awaits[c] = i
  BY <1>2, RequestFacts DEF Awaiting, Moved
<1>3. CASE awaits[c] # i
  BY <1>1, <1>3 DEF Awaiting, Moved
<1> QED
  BY <1>2, <1>3

\* A step that neither commits nor enqueues keeps what is known of the hashes,
\* when it carries on only what it found out.
LEMMA DataKept ==
  ASSUME TypeOK, Fresh, Stored, Single,
         UNCHANGED <<etcd, inserted, orphaned, evicted>>,
         \A j \in Slots, k \in Keys : Pends(j, k)' <=> Pends(j, k),
         \A j \in Slots : At(j, "txn")' => Unseen(req[j])',
         \A t \in late' : Unseen(t),
         \A j \in Slots : At(j, "leave")' \/ At(j, "reply")' =>
            (req'[j].code = 200 => KeyOf(j)' \in Keys /\ \E k \in Keys : k = KeyOf(j)' /\ Committed(k)),
         \A k \in acked' : k \in Keys /\ Committed(k)
  PROVE  Fresh' /\ Stored' /\ Single'
<1>1. \A k \in Keys : Committed(k)' <=> Committed(k)
  BY DEF Committed
<1>2. \A k \in Keys : InEtcd(k)' <=> InEtcd(k)
  BY DEF InEtcd
<1>3. Fresh'
  BY DEF Fresh, Unseen
<1>4. Stored'
  <2>1. \A k \in Keys : Committed(k)' => InEtcd(k)' \/ k \in evicted'
    BY <1>1, <1>2 DEF Stored
  <2>2. \A k \in Keys : InEtcd(k)' => Committed(k)'
    BY <1>1, <1>2 DEF Stored
  <2>3. ASSUME NEW j \in Slots, At(j, "leave")' \/ At(j, "reply")', req'[j].code = 200
        PROVE  Committed(KeyOf(j))'
    <3>1. PICK k \in Keys : k = KeyOf(j)' /\ Committed(k)
      BY <2>3
    <3>2. Committed(k)'
      BY <1>1, <3>1
    <3> QED
      BY <3>1, <3>2 DEF Committed, Pends
  <2>4. \A k \in acked' : Committed(k)'
    BY <1>1
  <2> QED
    BY <2>1, <2>2, <2>3, <2>4 DEF Stored
<1>5. Single'
  BY DEF Single
<1> QED
  BY <1>3, <1>4, <1>5

\* The same for one request that goes on.
LEMMA DataMoved ==
  ASSUME TypeOK, Fresh, Stored, Single, NEW i \in Slots, Moved(i),
         UNCHANGED <<etcd, inserted, acked, orphaned, evicted>>,
         req[i].stage # "insert", req'[i].stage # "insert",
         req'[i].stage = "txn" => Unseen(req[i])',
         req'[i].stage \in {"leave", "reply"} /\ req'[i].code = 200 => Committed(KeyOf(i)),
         \A t \in late' : Unseen(t)
  PROVE  Fresh' /\ Stored' /\ Single'
<1>1. KeyOf(i)' = KeyOf(i) /\ KeyOf(i) \in Keys
  BY RequestFacts DEF Moved, KeyOf
<1>2. \A j \in Slots, k \in Keys : Pends(j, k)' <=> Pends(j, k)
  BY DEF Pends, At, KeyOf, Moved
<1>3. \A j \in Slots : At(j, "txn")' => Unseen(req[j])'
  BY DEF Fresh, At, Moved, Unseen
<1>4. ASSUME NEW j \in Slots, At(j, "leave")' \/ At(j, "reply")', req'[j].code = 200
      PROVE  KeyOf(j)' \in Keys /\ \E k \in Keys : k = KeyOf(j)' /\ Committed(k)
  <2>1. CASE j = i
    BY <1>1, <1>4, <2>1 DEF At, Committed, Pends
  <2>2. CASE j # i
    <3>1. req'[j] = req[j] /\ KeyOf(j)' = KeyOf(j) /\ (At(j, "leave") \/ At(j, "reply"))
      BY <1>4, <2>2 DEF Moved, KeyOf, At
    <3>2. req[j] \in Request
      BY <3>1, AtFacts DEF Stages
    <3>3. KeyOf(j) \in Keys
      BY <3>2, RequestFacts DEF KeyOf
    <3>4. Committed(KeyOf(j))
      BY <1>4, <3>1 DEF Stored
    <3> QED
      BY <3>1, <3>3, <3>4 DEF Committed, Pends
  <2> QED
    BY <2>1, <2>2
<1>5. \A k \in acked' : k \in Keys /\ Committed(k)
  BY DEF TypeOK, Stored
<1> QED
  BY <1>2, <1>3, <1>4, <1>5, DataKept

-----------------------------------------------------------------------------
(* etcd: what a transaction does to the list of a client.                  *)

\* The new list ends with the hash, and has nothing else that the old had not.
LEMMA RememberLemma ==
  ASSUME NEW old \in Seq(Hashes), NEW h \in Hashes
  PROVE  /\ Remember(old, h) \in Seq(Hashes)
         /\ \E n \in 1..Len(Remember(old, h)) : Remember(old, h)[n] = h
         /\ \A n \in 1..Len(Remember(old, h)) :
              Remember(old, h)[n] = h \/ \E m \in 1..Len(old) : old[m] = Remember(old, h)[n]
<1> DEFINE all == Append(old, h)
<1>1. /\ all \in Seq(Hashes) /\ Len(all) = Len(old) + 1 /\ Len(old) \in Nat
      /\ all[Len(all)] = h /\ \A n \in 1..Len(all) : n = Len(all) \/ (n \in 1..Len(old) /\ all[n] = old[n])
  BY AppendProperties
<1>2. CASE ~(Len(all) > EtcdLimit)
  <2>1. Remember(old, h) = all
    BY <1>2 DEF Remember
  <2> HIDE DEF all
  <2>2. Len(all) \in 1..Len(all)
    BY <1>1
  <2> QED
    BY <1>1, <2>1, <2>2
<1>3. CASE Len(all) > EtcdLimit
  <2> DEFINE first == Len(all) - EtcdLimit + 1
             new == SubSeq(all, first, Len(all))
  <2>1. Remember(old, h) = new
    BY <1>3 DEF Remember
  <2> HIDE DEF all
  <2>2. first \in 1..Len(all) /\ EtcdLimit \in Nat /\ EtcdLimit >= 1
    BY <1>1, <1>3, LimitsAssumption
  <2>3. \A n \in first..Len(all) : all[n] \in Hashes
    BY <1>1, <2>2, ElementOfSeq
  <2>4. /\ new \in Seq(Hashes) /\ Len(new) = EtcdLimit
        /\ \A n \in 1..EtcdLimit : new[n] = all[first + n - 1]
    <3>1. first \in Int /\ Len(all) \in Int /\ first <= Len(all) /\ Len(all) - first + 1 = EtcdLimit
      BY <1>1, <2>2
    <3> HIDE DEF first
    <3> QED
      BY <2>3, <3>1, SubSeqProperties
  <2>5. new[EtcdLimit] = h
    BY <1>1, <2>2, <2>4
  <2>6. \A n \in 1..EtcdLimit : first + n - 1 \in 1..Len(all)
    BY <1>1, <2>2
  <2>7. \A n \in 1..Len(new) : new[n] = h \/ \E m \in 1..Len(old) : old[m] = new[n]
    <3> SUFFICES ASSUME NEW n \in 1..EtcdLimit
                 PROVE  new[n] = h \/ \E m \in 1..Len(old) : old[m] = new[n]
      BY <2>4
    <3>1. PICK m \in 1..Len(all) : new[n] = all[m]
      BY <2>4, <2>6
    <3> HIDE DEF new
    <3> QED
      BY <1>1, <3>1
  <2>8. \E n \in 1..Len(new) : new[n] = h
    BY <2>2, <2>4, <2>5
  <2> HIDE DEF new
  <2> QED
    BY <2>1, <2>4, <2>7, <2>8
<1> QED
  BY <1>2, <1>3

\* A transaction that etcd applies puts its key in the list, and what leaves the
\* list is evicted.
LEMMA CommitLemma ==
  ASSUME TypeOK, NEW t, t.client \in Clients, t.hash \in Hashes, t.old \in Seq(Hashes),
         Compare(t), Commit(t), NEW k0 \in Keys, k0 = <<t.client, t.hash>>
  PROVE  /\ etcd' \in [Clients -> Seq(Hashes)]
         /\ evicted' \in SUBSET Keys /\ evicted \subseteq evicted'
         /\ InEtcd(k0)'
         /\ \A k \in Keys : InEtcd(k) => InEtcd(k)' \/ k \in evicted'
         /\ \A k \in Keys : InEtcd(k)' => InEtcd(k) \/ k = k0
<1> DEFINE new == Remember(t.old, t.hash)
<1>1. /\ new \in Seq(Hashes)
      /\ \E n \in 1..Len(new) : new[n] = t.hash
      /\ \A n \in 1..Len(new) : new[n] = t.hash \/ \E m \in 1..Len(t.old) : t.old[m] = new[n]
  BY RememberLemma
<1>2. /\ etcd' = [etcd EXCEPT ![t.client] = new] /\ etcd[t.client] = t.old
      /\ evicted' = evicted \cup {<<t.client, h>> : h \in ToSet(t.old) \ ToSet(new)}
  BY DEF Commit, Compare
<1> HIDE DEF new
<1>3. /\ etcd' \in [Clients -> Seq(Hashes)] /\ etcd'[t.client] = new
      /\ \A c \in Clients \ {t.client} : etcd'[c] = etcd[c]
  BY <1>1, <1>2 DEF TypeOK
<1>4. /\ ToSet(t.old) = {t.old[n] : n \in 1..Len(t.old)}
      /\ ToSet(new) = {new[n] : n \in 1..Len(new)}
  BY <1>1, LenProperties DEF ToSet
<1>5. ToSet(t.old) \subseteq Hashes
  BY <1>4, ElementOfSeq
<1>6. evicted' \in SUBSET Keys /\ evicted \subseteq evicted'
  BY <1>2, <1>5 DEF TypeOK, Keys
<1>7. InEtcd(k0)'
  BY <1>1, <1>3 DEF InEtcd
<1>8. ASSUME NEW k \in Keys, InEtcd(k) PROVE InEtcd(k)' \/ k \in evicted'
  <2>1. CASE k[1] # t.client
    BY <1>3, <1>8, <2>1 DEF InEtcd, Keys
  <2>2. CASE k[1] = t.client /\ k[2] \in ToSet(new)
    BY <1>3, <1>4, <2>2 DEF InEtcd
  <2>3. CASE k[1] = t.client /\ k[2] \notin ToSet(new)
    <3>1. k[2] \in ToSet(t.old) /\ k = <<t.client, k[2]>>
      BY <1>2, <1>4, <1>8, <2>3 DEF InEtcd, Keys
    <3> QED
      BY <1>2, <2>3, <3>1
  <2> QED
    BY <2>1, <2>2, <2>3
<1>9. ASSUME NEW k \in Keys, InEtcd(k)' PROVE InEtcd(k) \/ k = k0
  <2>1. CASE k[1] # t.client
    BY <1>3, <1>9, <2>1 DEF InEtcd, Keys
  <2>2. CASE k[1] = t.client
    <3>1. k = <<t.client, k[2]>>
      BY <2>2 DEF Keys
    <3>2. PICK n \in 1..Len(new) : new[n] = k[2]
      BY <1>3, <1>9, <2>2 DEF InEtcd
    <3> QED
      BY <1>1, <1>2, <2>2, <3>1, <3>2 DEF InEtcd
  <2> QED
    BY <2>1, <2>2
<1> QED
  BY <1>3, <1>6, <1>7, <1>8, <1>9

-----------------------------------------------------------------------------
(* The requests inside a server.                                           *)

\* The requests inside process() are finitely many, so they can be counted.
LEMMA InsideFinite ==
  ASSUME NEW s \in Servers
  PROVE  IsFiniteSet(Inside(s)) /\ Cardinality(Inside(s)) \in Nat
<1>1. Inside(s) \subseteq Slots
  BY DEF Inside
<1> QED
  BY <1>1, LimitsAssumption, FS_Subset, FS_CardinalityType

\* A request that goes on within process(), or outside of it, enters and leaves
\* no server.
LEMMA InsideSame ==
  ASSUME NEW i \in Slots, Moved(i),
         req[i].stage \in {"wire", "reply"} <=> req'[i].stage \in {"wire", "reply"},
         NEW s \in Servers
  PROVE  Inside(s)' = Inside(s)
BY RequestFacts DEF Inside, Moved

\* What is known of the stopping servers depends on who is inside.
LEMMA StopKept ==
  ASSUME Counted, Stopping, \A s \in Servers : Inside(s)' = Inside(s),
         UNCHANGED <<m_Active, m_Running, phase, expired>>
  PROVE  Counted' /\ Stopping'
BY DEF Counted, Stopping

\* All of it for a request that goes on without a commit.
LEMMA MovedIInv ==
  ASSUME IInv, TypeOK', NEW i \in Slots, Moved(i),
         UNCHANGED <<todo, awaits, m_Active, m_Running, phase, expired>>,
         UNCHANGED <<etcd, inserted, acked, orphaned, evicted>>,
         req[i].stage # "insert", req'[i].stage # "insert",
         req[i].stage \in {"wire", "reply"} <=> req'[i].stage \in {"wire", "reply"},
         req'[i].stage = "txn" => Unseen(req[i])',
         req'[i].stage \in {"leave", "reply"} /\ req'[i].code = 200 => Committed(KeyOf(i)),
         \A t \in late' : Unseen(t)
  PROVE  IInv'
<1>1. Awaiting'
  BY AwaitingMoved DEF IInv
<1>2. Fresh' /\ Stored' /\ Single'
  BY DataMoved DEF IInv
<1>3. \A s \in Servers : Inside(s)' = Inside(s)
  BY InsideSame
<1>4. Counted' /\ Stopping'
  BY <1>3, StopKept DEF IInv
<1> QED
  BY <1>1, <1>2, <1>4 DEF IInv

-----------------------------------------------------------------------------
(* The inductive invariant, action by action.                              *)

\* The initial states satisfy it.
LEMMA InitIInv == Init => IInv
<1> SUFFICES ASSUME Init PROVE IInv
  OBVIOUS
<1>1. TypeOK
  <2>1. /\ cup \in [Clients -> BOOLEAN] /\ m_Active \in [Servers -> BOOLEAN]
        /\ expired \in [Servers -> BOOLEAN]
    BY Zenon DEF Init
  <2> QED
    BY <2>1, EmptySeq DEF Init, TypeOK
<1>2. \A i \in Slots : req[i] = Free /\ req[i].stage = "free"
  BY RequestFacts DEF Init
<1>3. Awaiting /\ Fresh /\ Single
  BY <1>2 DEF Init, Awaiting, Fresh, Single, Pends, At
<1>4. Stored
  <2>1. \A k \in Keys : ~Committed(k)
    BY <1>2 DEF Init, Committed, Pends, At
  <2>2. \A k \in Keys : ~InEtcd(k)
    BY DEF Init, InEtcd, Keys
  <2> QED
    BY <1>2, <2>1, <2>2 DEF Init, Stored, At
<1>5. \A s \in Servers : Inside(s) = {}
  BY <1>2 DEF Inside
<1>6. Counted
  BY <1>5, FS_EmptySet DEF Init, Counted
<1>7. Stopping
  BY <1>5 DEF Init, Stopping
<1> QED
  BY <1>1, <1>3, <1>4, <1>6, <1>7 DEF IInv

\* A step that leaves the requests, etcd and the servers' counters alone.
LEMMA Untouched ==
  ASSUME IInv, TypeOK', Awaiting',
         UNCHANGED <<req, late, etcd, inserted, acked, orphaned, evicted>>,
         UNCHANGED <<m_Active, m_Running, phase, expired>>
  PROVE  IInv'
<1>1. /\ \A k \in Keys : (Committed(k)' <=> Committed(k)) /\ (InEtcd(k)' <=> InEtcd(k))
      /\ \A i \in Slots, k \in Keys : Pends(i, k)' <=> Pends(i, k)
  BY DEF Committed, InEtcd, Pends, At, KeyOf
<1>2. Fresh' /\ Single'
  BY <1>1 DEF IInv, Fresh, Single, Unseen, At
<1>3. Stored'
  BY DEF IInv, Stored, Committed, InEtcd, Pends, At, KeyOf
<1>4. \A s \in Servers : Inside(s)' = Inside(s)
  BY DEF Inside
<1>5. Counted' /\ Stopping'
  BY <1>4, StopKept DEF IInv
<1> QED
  BY <1>2, <1>3, <1>5 DEF IInv

\* insert() puts a message behind the head.
LEMMA ClientInsertIInv ==
  ASSUME IInv, NEW c \in Clients, NEW h \in Hashes, ClientInsert(c, h), scenario' = scenario
  PROVE  IInv'
<1> USE DEF IInv
<1>1. Append(todo[c], h) \in Seq(Hashes)
  BY AppendProperties DEF TypeOK
<1>2. TypeOK'
  BY <1>1 DEF TypeOK, ClientInsert, etcdVars, serverVars, history
<1>3. Awaiting'
  <2> SUFFICES ASSUME NEW d \in Clients, awaits[d] # NoSlot
               PROVE  /\ todo'[d] # <<>> /\ req[awaits[d]] # Free
                      /\ req[awaits[d]].client = d /\ req[awaits[d]].hash = Head(todo'[d])
    BY DEF Awaiting, ClientInsert
  <2>1. CASE d = c
    <3>1. todo'[c] = Append(todo[c], h) /\ todo[c] \in Seq(Hashes) /\ todo[c] # <<>>
      BY <2>1 DEF TypeOK, ClientInsert, Awaiting
    <3>2. todo'[c] # <<>> /\ Head(todo'[c]) = Head(todo[c])
      BY <3>1, HeadTailAppend, AppendProperties
    <3> QED
      BY <2>1, <3>2 DEF Awaiting
  <2>2. CASE d # c
    BY <2>2 DEF TypeOK, ClientInsert, Awaiting
  <2> QED
    BY <2>1, <2>2
<1> QED
  BY <1>2, <1>3, Untouched DEF ClientInsert, etcdVars, serverVars, history

\* A put() that times out is forgotten, and a client that stops sends no more.
LEMMA ClientIInv ==
  ASSUME IInv, NEW c \in Clients, PutTimeout(c) \/ ClientStop(c), scenario' = scenario
  PROVE  IInv'
<1> USE DEF IInv
<1>1. CASE PutTimeout(c)
  <2>1. TypeOK'
    BY <1>1 DEF TypeOK, PutTimeout, Fault, etcdVars, serverVars, history
  <2>2. Awaiting'
    BY <1>1 DEF TypeOK, Awaiting, PutTimeout
  <2> QED
    BY <1>1, <2>1, <2>2, Untouched DEF PutTimeout, etcdVars, serverVars, history
<1>2. CASE ClientStop(c)
  <2>1. cup' \in [Clients -> BOOLEAN]
    BY <1>2, Zenon DEF TypeOK, ClientStop
  <2>2. TypeOK'
    BY <1>2, <2>1 DEF TypeOK, ClientStop, etcdVars, serverVars, history
  <2>3. Awaiting'
    BY <1>2 DEF Awaiting, ClientStop
  <2> QED
    BY <1>2, <2>2, <2>3, Untouched DEF ClientStop, etcdVars, serverVars, history
<1> QED
  BY <1>1, <1>2

\* put() makes a request with the head of the client's queue.
LEMMA PutIInv ==
  ASSUME IInv, NEW c \in Clients, NEW s \in Servers, NEW i \in Slots, Put(c, s, i),
         scenario' = scenario
  PROVE  IInv'
<1> USE DEF IInv
<1> DEFINE new == [stage |-> "wire", client |-> c, hash |-> Head(todo[c]),
                   server |-> s, old |-> <<>>, code |-> 0]
<1>1. /\ req' = [req EXCEPT ![i] = new] /\ req[i] = Free /\ todo[c] # <<>>
      /\ awaits' = [awaits EXCEPT ![c] = i] /\ awaits[c] = NoSlot /\ i # NoSlot
      /\ UNCHANGED <<todo, cup, inserts, etcdVars, serverVars, faults, history>>
  BY LimitsAssumption DEF Put, NoSlot
<1>2. Head(todo[c]) \in Hashes
  BY <1>1, HeadTailProperties DEF TypeOK
<1>3. new \in Request
  BY <1>2, EmptySeq DEF Request, Stages
<1>4. new.stage = "wire" /\ new.client = c /\ new.hash = Head(todo[c])
  OBVIOUS
<1> HIDE DEF new
<1>5. req'[i] = new /\ \A j \in Slots \ {i} : req'[j] = req[j]
  BY <1>1 DEF TypeOK
<1>6. TypeOK'
  BY <1>1, <1>3 DEF TypeOK, etcdVars, serverVars, history
<1>7. Awaiting'
  <2> SUFFICES ASSUME NEW d \in Clients, awaits'[d] # NoSlot
               PROVE  /\ todo[d] # <<>> /\ req'[awaits'[d]] # Free
                      /\ req'[awaits'[d]].client = d /\ req'[awaits'[d]].hash = Head(todo[d])
    BY <1>1 DEF Awaiting
  <2>1. CASE d = c
    BY <1>1, <1>3, <1>4, <1>5, <2>1, RequestFacts DEF TypeOK
  <2>2. CASE d # c
    <3>1. awaits'[d] = awaits[d] /\ awaits[d] \in Slots
      BY <1>1, <2>2 DEF TypeOK
    <3>2. awaits[d] # i
      BY <1>1, <2>2, <3>1 DEF Awaiting
    <3> QED
      BY <1>5, <3>1, <3>2 DEF Awaiting
  <2> QED
    BY <2>1, <2>2
<1>8. Fresh' /\ Stored' /\ Single'
  <2>1. Free.stage = "free"
    BY RequestFacts
  <2>2. \A j \in Slots, k \in Keys : Pends(j, k)' <=> Pends(j, k)
    BY <1>1, <1>4, <1>5, <2>1 DEF Pends, At, KeyOf
  <2>3. \A j \in Slots : At(j, "txn")' => Unseen(req[j])'
    BY <1>4, <1>5 DEF Fresh, At, Unseen
  <2>4. ASSUME NEW j \in Slots, At(j, "leave")' \/ At(j, "reply")', req'[j].code = 200
        PROVE  KeyOf(j)' \in Keys /\ \E k \in Keys : k = KeyOf(j)' /\ Committed(k)
    <3>1. j # i
      BY <1>4, <1>5, <2>4 DEF At
    <3>2. req'[j] = req[j] /\ KeyOf(j)' = KeyOf(j) /\ (At(j, "leave") \/ At(j, "reply"))
      BY <1>5, <2>4, <3>1 DEF KeyOf, At
    <3>3. KeyOf(j) \in Keys
      BY <3>2, AtFacts, RequestFacts DEF KeyOf, Stages
    <3>4. Committed(KeyOf(j))
      BY <2>4, <3>2 DEF Stored
    <3> QED
      BY <3>2, <3>3, <3>4 DEF Committed, Pends
  <2>5. \A k \in acked' : k \in Keys /\ Committed(k)
    BY <1>1 DEF TypeOK, Stored, history
  <2>6. \A t \in late' : Unseen(t)
    BY <1>1 DEF Fresh, etcdVars
  <2> QED
    BY <1>1, <2>2, <2>3, <2>4, <2>5, <2>6, DataKept DEF etcdVars, history
<1>9. Counted' /\ Stopping'
  <2>1. \A x \in Servers : Inside(x)' = Inside(x)
    BY <1>1, <1>4, <1>5 DEF Inside
  <2> QED
    BY <1>1, <2>1, StopKept DEF serverVars
<1> QED
  BY <1>6, <1>7, <1>8, <1>9

\* An answer frees its slot; a client that waits for it takes 200 as the end of
\* its head.
LEMMA AnswerIInv ==
  ASSUME IInv, NEW i \in Slots, Answer(i), scenario' = scenario
  PROVE  IInv'
<1> USE DEF IInv
<1>1. At(i, "reply") /\ req' = [req EXCEPT ![i] = Free] /\ req[i] \in Request
  BY AtFacts DEF Answer, At, Stages
<1>2. req'[i] = Free /\ \A j \in Slots \ {i} : req'[j] = req[j]
  BY <1>1 DEF TypeOK
<1>3. PICK c \in Clients : c = req[i].client
  BY <1>1, RequestFacts
<1>4. \/ /\ awaits[c] = i /\ awaits' = [awaits EXCEPT ![c] = NoSlot]
         /\ \/ /\ req[i].code = 200
               /\ todo' = [todo EXCEPT ![c] = Tail(@)]
               /\ acked' = acked \cup {<<c, req[i].hash>>}
            \/ todo' = todo /\ acked' = acked
      \/ awaits[c] # i /\ UNCHANGED <<awaits, todo, acked>>
  BY <1>3 DEF Answer
<1>5. UNCHANGED <<cup, inserts, etcdVars, serverVars, faults, inserted, orphaned, evicted>>
  BY DEF Answer
<1>6. TypeOK'
  <2>1. req' \in [Slots -> Request \cup {Free}]
    BY <1>1 DEF TypeOK
  <2>2. todo' \in [Clients -> Seq(Hashes)]
    <3>1. CASE todo' = [todo EXCEPT ![c] = Tail(@)] /\ awaits[c] = i
      <4>1. todo[c] # <<>> /\ todo[c] \in Seq(Hashes)
        BY <3>1, LimitsAssumption DEF Awaiting, TypeOK, NoSlot
      <4>2. Tail(todo[c]) \in Seq(Hashes)
        BY <4>1, HeadTailProperties
      <4> QED
        BY <3>1, <4>2 DEF TypeOK
    <3> QED
      BY <1>4, <3>1 DEF TypeOK
  <2>3. awaits' \in [Clients -> Slots \cup {NoSlot}]
    BY <1>4 DEF TypeOK
  <2>4. acked' \in SUBSET Keys
    BY <1>1, <1>3, <1>4, RequestFacts DEF TypeOK
  <2> QED
    BY <1>5, <2>1, <2>2, <2>3, <2>4 DEF TypeOK, etcdVars, serverVars
<1>7. Awaiting'
  <2> SUFFICES ASSUME NEW d \in Clients, awaits'[d] # NoSlot
               PROVE  /\ todo'[d] # <<>> /\ req'[awaits'[d]] # Free
                      /\ req'[awaits'[d]].client = d /\ req'[awaits'[d]].hash = Head(todo'[d])
    BY DEF Awaiting
  <2>1. awaits'[d] = awaits[d] /\ awaits[d] \in Slots /\ todo'[d] = todo[d]
    BY <1>4 DEF TypeOK
  <2>2. awaits[d] # i
    BY <1>3, <1>4, <2>1 DEF Awaiting, TypeOK
  <2> QED
    BY <1>2, <2>1, <2>2 DEF Awaiting
<1>8. Fresh' /\ Stored' /\ Single'
  <2>1. Free.stage = "free" /\ req[i].stage = "reply"
    BY <1>1, RequestFacts DEF At
  <2>2. \A j \in Slots, k \in Keys : Pends(j, k)' <=> Pends(j, k)
    BY <1>2, <2>1 DEF Pends, At, KeyOf
  <2>3. \A j \in Slots : At(j, "txn")' => Unseen(req[j])'
    BY <1>2, <2>1 DEF Fresh, At, Unseen
  <2>4. ASSUME NEW j \in Slots, At(j, "leave")' \/ At(j, "reply")', req'[j].code = 200
        PROVE  KeyOf(j)' \in Keys /\ \E k \in Keys : k = KeyOf(j)' /\ Committed(k)
    <3>1. j # i
      BY <1>2, <2>1, <2>4 DEF At
    <3>2. req'[j] = req[j] /\ KeyOf(j)' = KeyOf(j) /\ (At(j, "leave") \/ At(j, "reply"))
      BY <1>2, <2>4, <3>1 DEF KeyOf, At
    <3>3. KeyOf(j) \in Keys
      BY <3>2, AtFacts, RequestFacts DEF KeyOf, Stages
    <3>4. Committed(KeyOf(j))
      BY <2>4, <3>2 DEF Stored
    <3> QED
      BY <3>2, <3>3, <3>4 DEF Committed, Pends
  <2>5. \A k \in acked' : k \in Keys /\ Committed(k)
    <3>1. req[i].code = 200 => Committed(<<c, req[i].hash>>)
      BY <1>1, <1>3 DEF Stored, KeyOf
    <3>2. \A k \in acked : Committed(k)
      BY DEF Stored
    <3>3. acked' = acked \/ (req[i].code = 200 /\ acked' = acked \cup {<<c, req[i].hash>>})
      BY <1>4
    <3> QED
      BY <1>6, <3>1, <3>2, <3>3 DEF TypeOK
  <2>6. \A t \in late' : Unseen(t)
    BY <1>5 DEF Fresh, etcdVars
  <2> QED
    BY <1>5, <2>2, <2>3, <2>4, <2>5, <2>6, DataKept DEF etcdVars
<1>9. Counted' /\ Stopping'
  <2>1. \A x \in Servers : Inside(x)' = Inside(x)
    BY <1>1, <1>2 DEF Inside, At
  <2> QED
    BY <1>5, <2>1, StopKept DEF serverVars
<1> QED
  BY <1>6, <1>7, <1>8, <1>9

\* A request enters while m_Active is set, or is refused at once.
LEMMA AdmitIInv ==
  ASSUME IInv, NEW i \in Slots, Admit(i), scenario' = scenario
  PROVE  IInv'
<1> USE DEF IInv
<1>1. At(i, "wire") /\ req[i] \in Request
  BY AtFacts DEF Admit, Stages
<1>2. PICK s \in Servers : s = req[i].server
  BY <1>1, RequestFacts
<1>3. UNCHANGED <<clientVars, etcdVars, m_Active, m_Queue, phase, expired, faults, history>>
  BY DEF Admit
<1>4. CASE /\ m_Active[s]
           /\ m_Running' = [m_Running EXCEPT ![s] = @ + 1]
           /\ Go(i, "size")
  <2>1. Moved(i) /\ req'[i].stage = "size"
    BY <1>1, <1>4, GoMoves DEF Stages
  <2>2. TypeOK'
    BY <1>3, <1>4, <2>1 DEF TypeOK, Moved, clientVars, etcdVars, history
  <2>3. Awaiting'
    BY <1>3, <2>1, AwaitingMoved DEF clientVars
  <2>4. Fresh' /\ Stored' /\ Single'
    BY <1>1, <1>3, <2>1, DataMoved DEF At, etcdVars, history, Fresh
  <2>5. /\ i \notin Inside(s) /\ Inside(s)' = Inside(s) \cup {i}
        /\ \A x \in Servers \ {s} : Inside(x)' = Inside(x)
    BY <1>1, <1>2, <2>1, RequestFacts DEF Inside, Moved, At
  <2>6. Counted'
    <3>1. Cardinality(Inside(s)') = Cardinality(Inside(s)) + 1
      BY <2>5, InsideFinite, FS_AddElement
    <3> QED
      BY <1>4, <2>5, <3>1 DEF Counted, TypeOK
  <2>7. Stopping'
    BY <1>3, <1>4, <2>5 DEF Stopping
  <2> QED
    BY <2>2, <2>3, <2>4, <2>6, <2>7
<1>5. CASE /\ req' = [req EXCEPT ![i].stage = "reply", ![i].code = 503]
           /\ UNCHANGED m_Running
  <2>0. Ends(i, "reply", 503) /\ "reply" \in Stages
    BY <1>5 DEF Ends, Stages
  <2>1. Moved(i) /\ req'[i].stage = "reply" /\ req'[i].code = 503
    BY <1>1, <2>0, EndsMoves
  <2>2. TypeOK'
    BY <1>3, <1>5, <2>1 DEF TypeOK, Moved, clientVars, etcdVars, history
  <2> QED
    <3>1. /\ UNCHANGED <<todo, awaits, m_Active, m_Running, phase, expired>>
          /\ UNCHANGED <<etcd, inserted, acked, orphaned, evicted>>
          /\ \A t \in late' : Unseen(t)
      BY <1>3, <1>5 DEF Fresh, clientVars, etcdVars, history
    <3>2. req[i].stage = "wire" /\ req'[i].code # 200
      BY <1>1, <2>1 DEF At
    <3> QED
      BY <2>1, <2>2, <3>1, <3>2, MovedIInv
<1> QED
  BY <1>2, <1>4, <1>5 DEF Admit

\* The tests before process_i, the answer of etcd to get, and the errors: a
\* request goes on or has its code.  It says 200 only for a hash it found.
LEMMA ProcessIInv ==
  ASSUME IInv, NEW i \in Slots,
         CheckLimit(i) \/ EtcdGet(i) \/ EtcdGetFails(i) \/ Refused(i),
         scenario' = scenario
  PROVE  IInv'
<1> USE DEF IInv
<1>1. UNCHANGED <<clientVars, etcdVars, serverVars, history>> /\ faults' \in Nat
  BY DEF CheckLimit, EtcdGet, EtcdGetFails, Refused, Fault, TypeOK
<1>2. ASSUME Moved(i) PROVE TypeOK'
  BY <1>1, <1>2 DEF TypeOK, Moved, clientVars, etcdVars, serverVars, history
<1>3. CASE CheckLimit(i)
  <2>1. At(i, "size") /\ req[i] \in Request
    BY <1>3, AtFacts DEF CheckLimit, Stages
  <2>2. /\ Moved(i) /\ req'[i].stage \in {"leave", "get"}
        /\ req'[i].stage = "leave" => req'[i].code # 200
    <3>1. CASE Result(i, 429) \/ Result(i, 400)
      BY <2>1, <3>1, ResultMoves
    <3>2. CASE Go(i, "get")
      BY <2>1, <3>2, GoMoves DEF Stages
    <3> QED
      BY <1>3, <3>1, <3>2 DEF CheckLimit
  <2> QED
    BY <1>1, <1>2, <2>1, <2>2, MovedIInv DEF At, Fresh, clientVars, etcdVars, serverVars, history
<1>4. CASE EtcdGet(i)
  <2>1. At(i, "get") /\ req[i] \in Request
    BY <1>4, AtFacts DEF EtcdGet, Stages
  <2>2. PICK c \in Clients : c = req[i].client
    BY <2>1, RequestFacts
  <2>3. CASE Contains(etcd[c], req[i].hash) /\ Result(i, 200)
    <3>1. Moved(i) /\ req'[i].stage = "leave"
      BY <2>1, <2>3, ResultMoves
    <3>2. KeyOf(i) \in Keys /\ InEtcd(KeyOf(i))
      BY <2>1, <2>2, <2>3, RequestFacts DEF KeyOf, InEtcd, Contains
    <3>3. Committed(KeyOf(i))
      BY <3>2 DEF Stored
    <3> QED
      BY <1>1, <1>2, <2>1, <3>1, <3>3, MovedIInv DEF At, Fresh, clientVars, etcdVars, serverVars, history
  <2>4. CASE /\ ~Contains(etcd[c], req[i].hash)
             /\ req' = [req EXCEPT ![i].stage = "txn", ![i].old = etcd[c]]
    <3>1. Moved(i) /\ req'[i].stage = "txn" /\ req'[i].old = etcd[c]
      BY <2>1, <2>4, ReadMoves DEF TypeOK
    <3>2. Unseen(req[i])'
      BY <2>4, <3>1 DEF Unseen, Contains, Moved
    <3> QED
      BY <1>1, <1>2, <2>1, <3>1, <3>2, MovedIInv DEF At, Fresh, clientVars, etcdVars, serverVars, history
  <2> QED
    BY <1>4, <2>2, <2>3, <2>4 DEF EtcdGet
<1>5. CASE EtcdGetFails(i)
  <2>1. At(i, "get") /\ req[i] \in Request /\ Result(i, 502)
    BY <1>5, AtFacts DEF EtcdGetFails, Stages
  <2>2. Moved(i) /\ req'[i].stage = "leave" /\ req'[i].code = 502
    BY <2>1, ResultMoves
  <2> QED
    BY <1>1, <1>2, <2>1, <2>2, MovedIInv DEF At, Fresh, clientVars, etcdVars, serverVars, history
<1>6. CASE Refused(i)
  <2>1. At(i, "wire") /\ req[i] \in Request
    BY <1>6, AtFacts DEF Refused, Stages
  <2>2. Moved(i) /\ req'[i].stage = "reply" /\ req'[i].code = 0
    <3>1. Ends(i, "reply", 0) /\ "reply" \in Stages
      BY <1>6 DEF Refused, Ends, Stages
    <3> QED
      BY <2>1, <3>1, EndsMoves
  <2> QED
    BY <1>1, <1>2, <2>1, <2>2, MovedIInv DEF At, Fresh, clientVars, etcdVars, serverVars, history
<1> QED
  BY <1>3, <1>4, <1>5, <1>6

\* The transaction: a commit is the first of its hash, or the hash was evicted
\* before.
LEMMA EtcdTxnIInv ==
  ASSUME IInv, NEW i \in Slots, EtcdTxn(i), scenario' = scenario
  PROVE  IInv'
<1> USE DEF IInv
<1>1. At(i, "txn") /\ req[i] \in Request
  BY AtFacts DEF EtcdTxn, Stages
<1>2. UNCHANGED <<clientVars, late, serverVars, faults, inserted, acked, orphaned>>
  BY DEF EtcdTxn
<1>3. CASE Result(i, 502) /\ UNCHANGED <<etcd, evicted>>
  <2>1. Moved(i) /\ req'[i].stage = "leave" /\ req'[i].code = 502
    BY <1>1, <1>3, ResultMoves
  <2>2. TypeOK'
    BY <1>2, <1>3, <2>1 DEF TypeOK, Moved, clientVars, serverVars
  <2> QED
    BY <1>1, <1>2, <1>3, <2>1, <2>2, MovedIInv DEF At, Fresh, clientVars, serverVars
<1>4. CASE Compare(req[i]) /\ Commit(req[i]) /\ Go(i, "insert")
  <2>1. Moved(i) /\ req'[i].stage = "insert"
    BY <1>1, <1>4, GoMoves DEF Stages
  <2>2. PICK t : t = req[i]
    OBVIOUS
  <2>3. PICK k0 \in Keys : k0 = <<t.client, t.hash>>
    BY <1>1, <2>2, RequestFacts
  <2>4. KeyOf(i) = k0 /\ KeyOf(i)' = k0
    BY <2>1, <2>2, <2>3 DEF KeyOf, Moved
  <2>5. /\ etcd' \in [Clients -> Seq(Hashes)]
        /\ evicted' \in SUBSET Keys /\ evicted \subseteq evicted'
        /\ InEtcd(k0)'
        /\ \A k \in Keys : InEtcd(k) => InEtcd(k)' \/ k \in evicted'
        /\ \A k \in Keys : InEtcd(k)' => InEtcd(k) \/ k = k0
    <3>1. t.client \in Clients /\ t.hash \in Hashes /\ t.old \in Seq(Hashes)
      BY <1>1, <2>2, RequestFacts
    <3>2. Compare(t) /\ Commit(t)
      BY <1>4, <2>2 DEF Compare, Commit
    <3> QED
      BY <2>3, <3>1, <3>2, CommitLemma
  <2>6. ~InEtcd(k0)
    BY <1>1, <1>4, <2>2, <2>3 DEF Fresh, Unseen, Compare, InEtcd
  <2>7. k0 \in evicted \/ ~Committed(k0)
    BY <2>6 DEF Stored
  <2>8. TypeOK'
    BY <1>2, <2>1, <2>5 DEF TypeOK, Moved, clientVars, serverVars
  <2>9. Awaiting'
    BY <1>2, <2>1, AwaitingMoved DEF clientVars
  <2>10. /\ \A k \in Keys : Pends(i, k)' <=> k = k0
         /\ \A j \in Slots \ {i}, k \in Keys : Pends(j, k)' <=> Pends(j, k)
         /\ \A k \in Keys : ~Pends(i, k)
    BY <1>1, <2>1, <2>4 DEF Pends, At, KeyOf, Moved
  <2>11. \A k \in Keys : Committed(k)' <=> (Committed(k) \/ k = k0)
    BY <1>2, <2>10 DEF Committed
  <2>12. Fresh'
    BY <1>2, <2>1 DEF Fresh, At, Moved, Unseen
  <2>13. Stored'
    <3>1. ASSUME NEW j \in Slots, At(j, "leave")' \/ At(j, "reply")', req'[j].code = 200
          PROVE  Committed(KeyOf(j))'
      <4>1. j # i
        BY <2>1, <3>1 DEF At
      <4>2. req'[j] = req[j] /\ (At(j, "leave") \/ At(j, "reply"))
        BY <2>1, <3>1, <4>1 DEF Moved, At
      <4>3. PICK k \in Keys : k = KeyOf(j) /\ k = KeyOf(j)'
        BY <4>2, AtFacts, RequestFacts DEF KeyOf, Stages
      <4>4. Committed(k)
        BY <3>1, <4>2, <4>3 DEF Stored
      <4>5. Committed(k)'
        BY <2>11, <4>4
      <4> QED
        BY <4>3, <4>5 DEF Committed, Pends
    <3>2. \A k \in Keys : Committed(k)' => InEtcd(k)' \/ k \in evicted'
      BY <2>5, <2>11 DEF Stored
    <3>3. \A k \in Keys : InEtcd(k)' => Committed(k)'
      BY <2>5, <2>11 DEF Stored
    <3>4. \A k \in acked' : Committed(k)'
      BY <1>2, <2>11 DEF Stored, TypeOK
    <3> QED
      BY <3>1, <3>2, <3>3, <3>4 DEF Stored
  <2>14. Single'
    <3> SUFFICES ASSUME NEW k \in Keys \ evicted'
                 PROVE  /\ inserted'[k] <= 1
                        /\ \A j \in Slots : Pends(j, k)' => inserted'[k] = 0
                        /\ \A j, l \in Slots : Pends(j, k)' /\ Pends(l, k)' => j = l
      BY DEF Single
    <3>1. k \notin evicted /\ inserted'[k] = inserted[k]
      BY <1>2, <2>5
    <3>2. CASE k = k0
      <4>1. inserted[k] = 0 /\ \A j \in Slots : ~Pends(j, k)
        BY <2>7, <3>1, <3>2 DEF Committed, TypeOK
      <4> QED
        BY <2>10, <3>1, <4>1
    <3>3. CASE k # k0
      BY <2>10, <3>1, <3>3 DEF Single
    <3> QED
      BY <3>2, <3>3
  <2>15. Counted' /\ Stopping'
    <3>1. \A s \in Servers : Inside(s)' = Inside(s)
      BY <1>1, <2>1, InsideSame DEF At
    <3> QED
      BY <1>2, <3>1, StopKept DEF serverVars
  <2> QED
    BY <2>8, <2>9, <2>12, <2>13, <2>14, <2>15
<1> QED
  BY <1>3, <1>4 DEF EtcdTxn

\* A transaction whose coroutine gave up is on its way as it was sent.
LEMMA EtcdTxnTimeoutIInv ==
  ASSUME IInv, NEW i \in Slots, EtcdTxnTimeout(i), scenario' = scenario
  PROVE  IInv'
<1> USE DEF IInv
<1>1. At(i, "txn") /\ req[i] \in Request /\ Result(i, 502)
  BY AtFacts DEF EtcdTxnTimeout, Stages
<1>2. PICK t : t = [client |-> req[i].client, hash |-> req[i].hash, old |-> req[i].old]
  OBVIOUS
<1>3. late' = late \cup {t} /\ UNCHANGED <<clientVars, etcd, serverVars, history>> /\ faults' \in Nat
  BY <1>2 DEF EtcdTxnTimeout, Fault, TypeOK
<1>4. t \in Transaction /\ Unseen(t)
  <2>1. t.hash = req[i].hash /\ t.old = req[i].old
    BY <1>2
  <2>2. Unseen(t)
    BY <1>1, <2>1 DEF Fresh, Unseen
  <2>3. t \in Transaction
    BY <1>1, <1>2, RequestFacts DEF Transaction
  <2> QED
    BY <2>2, <2>3
<1>5. Moved(i) /\ req'[i].stage = "leave" /\ req'[i].code = 502
  BY <1>1, ResultMoves
<1>6. TypeOK'
  BY <1>3, <1>4, <1>5 DEF TypeOK, Moved, clientVars, serverVars, history
<1>7. /\ UNCHANGED <<todo, awaits, m_Active, m_Running, phase, expired>>
      /\ UNCHANGED <<etcd, inserted, acked, orphaned, evicted>>
      /\ \A u \in late' : Unseen(u)
  BY <1>3, <1>4 DEF Fresh, clientVars, serverVars, history
<1> QED
  BY <1>1, <1>5, <1>6, <1>7, MovedIInv DEF At

\* It is applied after all: the hash is in etcd, and nobody will queue it.
LEMMA LateTxnIInv ==
  ASSUME IInv, NEW t \in late, LateTxn(t), scenario' = scenario
  PROVE  IInv'
<1> USE DEF IInv
<1>1. /\ late' = late \ {t}
      /\ UNCHANGED <<clientVars, req, serverVars, faults, inserted, acked>>
  BY DEF LateTxn
<1>2. /\ t \in Transaction /\ Unseen(t) /\ t.client \in Clients /\ t.hash \in Hashes
      /\ t.old \in Seq(Hashes)
  BY DEF TypeOK, Fresh, Transaction
<1>3. PICK k0 \in Keys : k0 = <<t.client, t.hash>>
  BY <1>2 DEF Keys
<1>4. Awaiting'
  BY <1>1 DEF Awaiting, clientVars
<1>5. Fresh'
  BY <1>1 DEF Fresh, At, Unseen
<1>6. Counted' /\ Stopping'
  <2>1. \A s \in Servers : Inside(s)' = Inside(s)
    BY <1>1 DEF Inside
  <2> QED
    BY <1>1, <2>1, StopKept DEF serverVars
<1>7. \A i \in Slots, k \in Keys : Pends(i, k)' <=> Pends(i, k)
  BY <1>1 DEF Pends, At, KeyOf
<1>8. CASE UNCHANGED <<etcd, evicted, orphaned>>
  <2>1. TypeOK'
    BY <1>1, <1>8 DEF TypeOK, clientVars, serverVars
  <2>2. Stored' /\ Single'
    BY <1>1, <1>7, <1>8 DEF Stored, Single, Committed, InEtcd, Pends, At, KeyOf
  <2> QED
    BY <1>4, <1>5, <1>6, <2>1, <2>2
<1>9. CASE Compare(t) /\ Commit(t) /\ orphaned' = orphaned \cup {k0}
  <2>1. /\ etcd' \in [Clients -> Seq(Hashes)]
        /\ evicted' \in SUBSET Keys /\ evicted \subseteq evicted'
        /\ InEtcd(k0)'
        /\ \A k \in Keys : InEtcd(k) => InEtcd(k)' \/ k \in evicted'
        /\ \A k \in Keys : InEtcd(k)' => InEtcd(k) \/ k = k0
    BY <1>2, <1>3, <1>9, CommitLemma
  <2>2. TypeOK'
    BY <1>1, <1>9, <2>1 DEF TypeOK, clientVars, serverVars
  <2>3. \A k \in Keys : Committed(k)' <=> (Committed(k) \/ k = k0)
    BY <1>1, <1>7, <1>9 DEF Committed
  <2>4. Stored'
    <3>1. ASSUME NEW j \in Slots, At(j, "leave")' \/ At(j, "reply")', req'[j].code = 200
          PROVE  Committed(KeyOf(j))'
      <4>1. req'[j] = req[j] /\ (At(j, "leave") \/ At(j, "reply"))
        BY <1>1, <3>1 DEF At
      <4>2. PICK k \in Keys : k = KeyOf(j) /\ k = KeyOf(j)'
        BY <4>1, AtFacts, RequestFacts DEF KeyOf, Stages
      <4>3. Committed(k)
        BY <3>1, <4>1, <4>2 DEF Stored
      <4>4. Committed(k)'
        BY <2>3, <4>3
      <4> QED
        BY <4>2, <4>4 DEF Committed, Pends
    <3>2. \A k \in Keys : Committed(k)' => InEtcd(k)' \/ k \in evicted'
      BY <2>1, <2>3 DEF Stored
    <3>3. \A k \in Keys : InEtcd(k)' => Committed(k)'
      BY <2>1, <2>3 DEF Stored
    <3>4. \A k \in acked' : Committed(k)'
      BY <1>1, <2>3 DEF Stored, TypeOK
    <3> QED
      BY <3>1, <3>2, <3>3, <3>4 DEF Stored
  <2>5. Single'
    BY <1>1, <1>7, <2>1 DEF Single
  <2> QED
    BY <1>4, <1>5, <1>6, <2>2, <2>4, <2>5
<1> QED
  BY <1>3, <1>8, <1>9 DEF LateTxn

\* The hash that was committed is put in the queue, once.
LEMMA EnqueueIInv ==
  ASSUME IInv, NEW i \in Slots, Enqueue(i), scenario' = scenario
  PROVE  IInv'
<1> USE DEF IInv
<1>1. At(i, "insert") /\ req[i] \in Request /\ Result(i, 200)
  BY AtFacts DEF Enqueue, Stages
<1>2. Moved(i) /\ req'[i].stage = "leave"
  BY <1>1, ResultMoves
<1>3. PICK k0 \in Keys : k0 = KeyOf(i) /\ k0 = KeyOf(i)'
  BY <1>1, <1>2, RequestFacts DEF KeyOf, Moved
<1>4. PICK s \in Servers : s = req[i].server
  BY <1>1, RequestFacts
<1>5. /\ m_Queue' = [m_Queue EXCEPT ![s] = Append(@, k0)]
      /\ inserted' = [inserted EXCEPT ![k0] = @ + 1]
      /\ UNCHANGED <<clientVars, etcdVars, m_Active, m_Running, phase, expired, faults>>
      /\ UNCHANGED <<acked, orphaned, evicted>>
  BY <1>3, <1>4 DEF Enqueue
<1>6. /\ inserted' \in [Keys -> Nat] /\ inserted'[k0] = inserted[k0] + 1
      /\ \A k \in Keys \ {k0} : inserted'[k] = inserted[k]
  BY <1>5 DEF TypeOK
<1>7. TypeOK'
  <2>1. m_Queue' \in [Servers -> Seq(Keys)]
    <3>1. Append(m_Queue[s], k0) \in Seq(Keys)
      BY AppendProperties DEF TypeOK
    <3> QED
      BY <1>5, <3>1 DEF TypeOK
  <2> QED
    BY <1>2, <1>5, <1>6, <2>1 DEF TypeOK, Moved, clientVars, etcdVars
<1>8. Awaiting'
  BY <1>2, <1>5, AwaitingMoved DEF clientVars
<1>9. /\ \A k \in Keys : ~Pends(i, k)' /\ (Pends(i, k) <=> k = k0)
      /\ \A j \in Slots \ {i}, k \in Keys : Pends(j, k)' <=> Pends(j, k)
  BY <1>1, <1>2, <1>3 DEF Pends, At, KeyOf, Moved
<1>10. \A k \in Keys : Committed(k)' <=> Committed(k)
  <2>1. Committed(k0)' /\ Committed(k0)
    BY <1>6, <1>9 DEF Committed, TypeOK
  <2>2. \A k \in Keys \ {k0} : Committed(k)' <=> Committed(k)
    BY <1>5, <1>6, <1>9 DEF Committed
  <2> QED
    BY <2>1, <2>2
<1>11. Fresh'
  BY <1>2, <1>5 DEF Fresh, At, Moved, Unseen, etcdVars
<1>12. Stored'
  <2>1. ASSUME NEW j \in Slots, At(j, "leave")' \/ At(j, "reply")', req'[j].code = 200
        PROVE  Committed(KeyOf(j))'
    <3>1. PICK k \in Keys : k = KeyOf(j)' /\ Committed(k)
      <4>1. CASE j = i
        BY <1>3, <1>9, <4>1 DEF Committed
      <4>2. CASE j # i
        <5>1. req'[j] = req[j] /\ (At(j, "leave") \/ At(j, "reply")) /\ KeyOf(j)' = KeyOf(j)
          BY <1>2, <2>1, <4>2 DEF Moved, At, KeyOf
        <5>2. KeyOf(j) \in Keys
          BY <5>1, AtFacts, RequestFacts DEF KeyOf, Stages
        <5>3. Committed(KeyOf(j))
          BY <2>1, <5>1 DEF Stored
        <5> QED
          BY <5>1, <5>2, <5>3 DEF Committed, Pends
      <4> QED
        BY <4>1, <4>2
    <3>2. Committed(k)'
      BY <1>10, <3>1
    <3> QED
      BY <3>1, <3>2 DEF Committed, Pends
  <2>2. \A k \in Keys : InEtcd(k)' <=> InEtcd(k)
    BY <1>5 DEF InEtcd, etcdVars
  <2>3. \A k \in acked' : Committed(k)'
    BY <1>5, <1>10 DEF Stored, TypeOK
  <2> QED
    BY <1>5, <1>10, <2>1, <2>2, <2>3 DEF Stored
<1>13. Single'
  <2> SUFFICES ASSUME NEW k \in Keys \ evicted
               PROVE  /\ inserted'[k] <= 1
                      /\ \A j \in Slots : Pends(j, k)' => inserted'[k] = 0
                      /\ \A j, l \in Slots : Pends(j, k)' /\ Pends(l, k)' => j = l
    BY <1>5 DEF Single
  <2>1. CASE k = k0
    <3>1. inserted[k] = 0 /\ \A j \in Slots : Pends(j, k) => j = i
      BY <1>9, <2>1 DEF Single
    <3> QED
      BY <1>6, <1>9, <2>1, <3>1
  <2>2. CASE k # k0
    BY <1>6, <1>9, <2>2 DEF Single
  <2> QED
    BY <2>1, <2>2
<1>14. Counted' /\ Stopping'
  <2>1. \A x \in Servers : Inside(x)' = Inside(x)
    BY <1>1, <1>2, InsideSame DEF At
  <2> QED
    BY <1>5, <2>1, StopKept
<1> QED
  BY <1>7, <1>8, <1>11, <1>12, <1>13, <1>14

\* A request that has its code leaves the server.
LEMMA CleanupIInv ==
  ASSUME IInv, NEW i \in Slots, Cleanup(i), scenario' = scenario
  PROVE  IInv'
<1> USE DEF IInv
<1>1. At(i, "leave") /\ req[i] \in Request /\ Go(i, "reply")
  BY AtFacts DEF Cleanup, Stages
<1>2. Moved(i) /\ req'[i].stage = "reply" /\ req'[i].code = req[i].code
  BY <1>1, GoMoves DEF Stages
<1>3. PICK s \in Servers : s = req[i].server
  BY <1>1, RequestFacts
<1>4. /\ m_Running' = [m_Running EXCEPT ![s] = @ - 1]
      /\ UNCHANGED <<clientVars, etcdVars, m_Active, m_Queue, phase, expired, faults, history>>
  BY <1>3 DEF Cleanup
<1>5. TypeOK'
  BY <1>2, <1>4 DEF TypeOK, Moved, clientVars, etcdVars, history
<1>6. Awaiting'
  BY <1>2, <1>4, AwaitingMoved DEF clientVars
<1>7. Fresh' /\ Stored' /\ Single'
  <2>1. req[i].code = 200 => Committed(KeyOf(i))
    BY <1>1 DEF Stored
  <2>2. /\ UNCHANGED <<etcd, inserted, acked, orphaned, evicted>>
        /\ \A t \in late' : Unseen(t)
    BY <1>4 DEF etcdVars, history, Fresh
  <2> QED
    BY <1>1, <1>2, <2>1, <2>2, DataMoved DEF At
<1>8. /\ i \in Inside(s) /\ Inside(s)' = Inside(s) \ {i}
      /\ \A x \in Servers \ {s} : Inside(x)' = Inside(x)
  BY <1>1, <1>2, <1>3, RequestFacts DEF Inside, Moved, At
<1>9. Counted'
  <2>1. Cardinality(Inside(s)') = Cardinality(Inside(s)) - 1
    BY <1>8, InsideFinite, FS_RemoveElement
  <2> QED
    BY <1>4, <1>8, <2>1 DEF Counted, TypeOK
<1>10. Stopping'
  BY <1>4, <1>8 DEF Stopping
<1> QED
  BY <1>5, <1>6, <1>7, <1>9, <1>10

\* The worker of the queue, and the phases of a stop: who waited for m_Running
\* to be zero has nobody inside.
LEMMA ServerIInv ==
  ASSUME IInv, NEW s \in Servers, Handle(s) \/ AtStop(s) \/ RequestsDone(s) \/ Linger(s),
         scenario' = scenario
  PROVE  IInv'
<1> USE DEF IInv
<1>1. UNCHANGED <<clientVars, req, etcdVars, m_Running, faults, history>>
  BY DEF Handle, AtStop, RequestsDone, Linger
<1>2. TypeOK'
  <2>1. m_Queue' \in [Servers -> Seq(Keys)]
    <3>1. CASE Handle(s)
      <4>1. Tail(m_Queue[s]) \in Seq(Keys)
        BY <3>1, HeadTailProperties DEF Handle, TypeOK
      <4> QED
        BY <3>1, <4>1 DEF Handle, TypeOK
    <3>2. CASE ~Handle(s)
      BY <3>2 DEF AtStop, RequestsDone, Linger, TypeOK
    <3> QED
      BY <3>1, <3>2
  <2>2. m_Active' \in [Servers -> BOOLEAN]
    BY Zenon DEF TypeOK, Handle, AtStop, RequestsDone, Linger
  <2>3. expired' \in [Servers -> BOOLEAN]
    BY Zenon DEF TypeOK, Handle, AtStop, RequestsDone, Linger
  <2>4. phase' \in [Servers -> {"up", "requests", "tasks", "stopped"}]
    BY DEF TypeOK, Handle, AtStop, RequestsDone, Linger
  <2> QED
    BY <1>1, <2>1, <2>2, <2>3, <2>4 DEF TypeOK, clientVars, etcdVars, history
<1>3. Awaiting'
  BY <1>1 DEF Awaiting, clientVars
<1>4. Fresh' /\ Stored' /\ Single'
  <2>1. UNCHANGED <<req, late, etcd, inserted, acked, orphaned, evicted>>
    BY <1>1 DEF etcdVars, history
  <2>2. \A i \in Slots, k \in Keys : Pends(i, k)' <=> Pends(i, k)
    BY <2>1 DEF Pends, At, KeyOf
  <2>3. Fresh' /\ Single'
    BY <2>1, <2>2 DEF Fresh, Single, Unseen, At
  <2>4. Stored'
    BY <2>1 DEF Stored, Committed, InEtcd, Pends, At, KeyOf
  <2> QED
    BY <2>3, <2>4
<1>5. \A x \in Servers : Inside(x)' = Inside(x)
  BY <1>1 DEF Inside
<1>6. Counted'
  BY <1>1, <1>5 DEF Counted
<1>7. Stopping'
  <2> SUFFICES ASSUME NEW x \in Servers
               PROVE  /\ m_Active'[x] => phase'[x] = "up"
                      /\ phase'[x] = "tasks" /\ ~expired'[x] => Inside(x) = {}
    BY <1>5 DEF Stopping
  <2>1. CASE Handle(s)
    BY <2>1 DEF Handle, Stopping
  <2>2. CASE AtStop(s)
    <3>1. m_Active'[x] => m_Active[x] /\ x # s
      BY <2>2, Zenon DEF AtStop, TypeOK
    <3>2. x # s => phase'[x] = phase[x]
      BY <2>2 DEF AtStop, TypeOK
    <3>3. x = s => phase'[x] = "requests"
      BY <2>2 DEF AtStop, TypeOK
    <3> QED
      BY <2>2, <3>1, <3>2, <3>3 DEF AtStop, Stopping
  <2>3. CASE RequestsDone(s)
    <3>1. CASE x # s
      BY <2>3, <3>1 DEF RequestsDone, Stopping, TypeOK
    <3>2. CASE x = s
      <4>1. ~expired[s] => Inside(s) = {}
        <5>1. ~expired[s] => Cardinality(Inside(s)) = 0
          BY <2>3 DEF RequestsDone, Counted
        <5> QED
          BY <5>1, InsideFinite, FS_EmptySet
      <4>2. ~m_Active[s]
        BY <2>3 DEF RequestsDone, Stopping
      <4> QED
        BY <2>3, <3>2, <4>1, <4>2 DEF RequestsDone
    <3> QED
      BY <3>1, <3>2
  <2>4. CASE Linger(s)
    <3>1. ~expired'[x] => ~expired[x]
      BY <2>4, Zenon DEF Linger, TypeOK
    <3> QED
      BY <2>4, <3>1 DEF Linger, Stopping
  <2> QED
    BY <2>1, <2>2, <2>3, <2>4
<1> QED
  BY <1>2, <1>3, <1>4, <1>6, <1>7

\* A process that ends, or is killed, takes its requests with it; a commit that
\* was not enqueued is orphaned.
LEMMA VanishIInv ==
  ASSUME IInv, NEW s \in Servers, TasksDone(s) \/ Crash(s), scenario' = scenario
  PROVE  IInv'
<1> USE DEF IInv
<1> DEFINE gone == Inside(s)
<1>1. /\ req' = [i \in Slots |-> IF i \in gone THEN Free ELSE req[i]]
      /\ awaits' = [c \in Clients |-> IF awaits[c] \in gone THEN NoSlot ELSE awaits[c]]
      /\ orphaned' = orphaned \cup {KeyOf(i) : i \in {j \in gone : At(j, "insert")}}
      /\ m_Running' = [m_Running EXCEPT ![s] = 0]
      /\ UNCHANGED <<todo, cup, inserts, etcdVars, m_Active, expired, inserted, acked, evicted>>
  BY DEF TasksDone, Crash, Vanish
<1>2. /\ gone \subseteq Slots
      /\ \A i \in gone : req[i] \in Request /\ KeyOf(i) \in Keys
                        /\ req[i].stage \notin {"wire", "reply"} /\ req[i].server = s
  BY RequestFacts DEF Inside, TypeOK, KeyOf
<1>3. /\ m_Queue' \in [Servers -> Seq(Keys)] /\ faults' \in Nat
      /\ phase' \in [Servers -> {"up", "requests", "tasks", "stopped"}]
      /\ \A x \in Servers \ {s} : phase'[x] = phase[x]
      /\ phase'[s] \in {"up", "stopped"} /\ (m_Active[s] => phase'[s] = "up")
  <2>1. CASE TasksDone(s)
    BY <2>1 DEF TasksDone, TypeOK, Stopping
  <2>2. CASE Crash(s)
    BY <2>2, EmptySeq DEF Crash, Fault, TypeOK
  <2> QED
    BY <2>1, <2>2
<1> HIDE DEF gone
<1>4. TypeOK'
  <2>1. orphaned' \in SUBSET Keys
    BY <1>1, <1>2 DEF TypeOK
  <2>2. req' \in [Slots -> Request \cup {Free}] /\ awaits' \in [Clients -> Slots \cup {NoSlot}]
    BY <1>1 DEF TypeOK
  <2>3. m_Running' \in [Servers -> Int]
    BY <1>1 DEF TypeOK
  <2>4. UNCHANGED <<todo, cup, inserts, etcdVars, m_Active, expired, inserted, acked, evicted>>
    BY <1>1
  <2> QED
    BY <1>3, <2>1, <2>2, <2>3, <2>4 DEF TypeOK, etcdVars
<1>5. Awaiting'
  <2> SUFFICES ASSUME NEW c \in Clients, awaits'[c] # NoSlot
               PROVE  /\ todo[c] # <<>> /\ req'[awaits'[c]] # Free
                      /\ req'[awaits'[c]].client = c /\ req'[awaits'[c]].hash = Head(todo[c])
    BY <1>1 DEF Awaiting
  <2>1. awaits'[c] = awaits[c] /\ awaits[c] \notin gone /\ awaits[c] \in Slots
    BY <1>1 DEF TypeOK
  <2>2. req'[awaits[c]] = req[awaits[c]]
    BY <1>1, <2>1
  <2> QED
    BY <2>1, <2>2 DEF Awaiting
<1>6. /\ \A i \in Slots \ gone : req'[i] = req[i]
      /\ \A i \in gone : req'[i] = Free /\ req'[i].stage = "free"
  BY <1>1, <1>2, RequestFacts
<1>7. /\ \A i \in gone, k \in Keys : ~Pends(i, k)' /\ (Pends(i, k) => k \in orphaned')
      /\ \A i \in Slots \ gone, k \in Keys : Pends(i, k)' <=> Pends(i, k)
  BY <1>1, <1>6 DEF Pends, At, KeyOf
<1>8. \A k \in Keys : k \in orphaned' => k \in orphaned \/ \E i \in gone : Pends(i, k)
  BY <1>1 DEF Pends
<1>9. \A k \in Keys : Committed(k)' <=> Committed(k)
  BY <1>1, <1>2, <1>7, <1>8 DEF Committed
<1>10. Fresh'
  BY <1>1, <1>6 DEF Fresh, At, Unseen, etcdVars
<1>11. Stored'
  <2>1. ASSUME NEW j \in Slots, At(j, "leave")' \/ At(j, "reply")', req'[j].code = 200
        PROVE  Committed(KeyOf(j))'
    <3>1. req'[j] = req[j] /\ (At(j, "leave") \/ At(j, "reply"))
      BY <1>6, <2>1 DEF At
    <3>2. PICK k \in Keys : k = KeyOf(j) /\ k = KeyOf(j)'
      BY <3>1, AtFacts, RequestFacts DEF KeyOf, Stages
    <3>3. Committed(k)
      BY <2>1, <3>1, <3>2 DEF Stored
    <3>4. Committed(k)'
      BY <1>9, <3>3
    <3> QED
      BY <3>2, <3>4 DEF Committed, Pends
  <2>2. \A k \in Keys : InEtcd(k)' <=> InEtcd(k)
    BY <1>1 DEF InEtcd, etcdVars
  <2>3. \A k \in acked' : Committed(k)'
    BY <1>1, <1>9 DEF Stored, TypeOK
  <2> QED
    BY <1>1, <1>9, <2>1, <2>2, <2>3 DEF Stored
<1>12. Single'
  BY <1>1, <1>2, <1>7 DEF Single
<1>13. Inside(s)' = {} /\ \A x \in Servers \ {s} : Inside(x)' = Inside(x)
  <2>1. ASSUME NEW i \in Inside(s)' PROVE FALSE
    <3>1. i \in Slots /\ req'[i] # Free /\ req'[i].server = s
          /\ req'[i].stage \notin {"wire", "reply"}
      BY <2>1 DEF Inside
    <3>2. i \notin gone /\ req'[i] = req[i]
      BY <1>6, <3>1
    <3> QED
      BY <3>1, <3>2 DEF gone, Inside
  <2>2. ASSUME NEW x \in Servers \ {s} PROVE Inside(x)' = Inside(x)
    BY <1>2, <1>6 DEF Inside
  <2> QED
    BY <2>1, <2>2
<1>14. Counted'
  BY <1>1, <1>13, FS_EmptySet DEF Counted, TypeOK
<1>15. Stopping'
  BY <1>1, <1>3, <1>13 DEF Stopping
<1> QED
  BY <1>4, <1>5, <1>10, <1>11, <1>12, <1>14, <1>15

\* Every step keeps the inductive invariant.
LEMMA NextIInv == IInv /\ [Next]_vars => IInv'
<1> SUFFICES ASSUME IInv, [Next]_vars PROVE IInv'
  OBVIOUS
<1>1. scenario.servers \subseteq Servers /\ scenario.hashes \subseteq Hashes
  BY LimitsAssumption DEF IInv, TypeOK
<1>2. CASE UNCHANGED vars
  <2>1. UNCHANGED <<scenario, todo, awaits, cup, inserts, req, late, etcd, m_Active, m_Running,
                    m_Queue, phase, expired, faults, inserted, acked, orphaned, evicted>>
    BY <1>2 DEF vars, clientVars, etcdVars, serverVars, history
  <2>2. TypeOK' /\ Awaiting'
    BY <2>1 DEF IInv, TypeOK, Awaiting
  <2> QED
    BY <2>1, <2>2, Untouched
<1>3. CASE Next
  <2>1. scenario' = scenario
    BY <1>3 DEF Next
  <2>2. ASSUME NEW c \in Clients, NEW h \in scenario.hashes, ClientInsert(c, h) PROVE IInv'
    BY <1>1, <2>1, <2>2, ClientInsertIInv
  <2>3. ASSUME NEW c \in Clients, NEW s \in scenario.servers, NEW i \in Slots, Put(c, s, i)
        PROVE  IInv'
    BY <1>1, <2>1, <2>3, PutIInv
  <2>4. ASSUME NEW c \in Clients, PutTimeout(c) \/ ClientStop(c) PROVE IInv'
    BY <2>1, <2>4, ClientIInv
  <2>5. ASSUME NEW i \in Slots,
               Coroutine(i) \/ EtcdGetFails(i) \/ EtcdTxnTimeout(i) \/ Refused(i)
        PROVE  IInv'
    BY <2>1, <2>5, AdmitIInv, ProcessIInv, EtcdTxnIInv, EtcdTxnTimeoutIInv, EnqueueIInv,
       CleanupIInv, AnswerIInv DEF Coroutine
  <2>6. ASSUME NEW t \in late, LateTxn(t) PROVE IInv'
    BY <2>1, <2>6, LateTxnIInv
  <2>7. ASSUME NEW s \in scenario.servers, ServerStep(s) \/ AtStop(s) \/ Crash(s) PROVE IInv'
    BY <1>1, <2>1, <2>7, ServerIInv, VanishIInv DEF ServerStep
  <2> QED
    BY <1>3, <2>2, <2>3, <2>4, <2>5, <2>6, <2>7 DEF Next
<1> QED
  BY <1>2, <1>3

-----------------------------------------------------------------------------
\* The inductive invariant holds in every reachable state.
THEOREM Invariant == Spec => []IInv
BY InitIInv, NextIInv, PTL DEF Spec

\* A hash reaches some server's queue at most once, however often it is sent,
\* to however many servers, and whichever answers and transactions are late or
\* lost, as long as etcd has not evicted it (MQ::Server::process_i).
THEOREM AtMostOnceHolds == Spec => []AtMostOnce
<1>1. IInv => AtMostOnce
  BY DEF IInv, Single, AtMostOnce
<1> QED
  BY <1>1, Invariant, PTL

\* What a client heard 200 for is in a queue or about to be, or the commit lost
\* its coroutine: 200 is never said for a hash that nobody committed
\* (MQ::Server::process, MQ::Client).
THEOREM AckedIsQueuedHolds == Spec => []AckedIsQueued
<1>1. IInv => AckedIsQueued
  <2> SUFFICES ASSUME IInv, NEW k \in acked
               PROVE  \/ inserted[k] >= 1
                      \/ k \in orphaned
                      \/ \E i \in Slots : req[i] # Free /\ At(i, "insert") /\ KeyOf(i) = k
    BY DEF AckedIsQueued
  <2>1. Committed(k)
    BY DEF IInv, Stored
  <2>2. ASSUME NEW i \in Slots, Pends(i, k) PROVE req[i] # Free
    BY <2>2, AtFacts, RequestFacts DEF IInv, Pends, Stages
  <2> QED
    BY <2>1, <2>2 DEF Committed, Pends
<1> QED
  BY <1>1, Invariant, PTL

\* A server that stops within its linger ends with nobody inside process() and
\* an empty queue, and m_Running never outlives the last request
\* (MQ::Server at_stop).
THEOREM CleanStopHolds == Spec => CleanStop
<1>1. ASSUME IInv, IInv', [Next]_vars, NEW s \in Servers
      PROVE  /\ phase[s] # "stopped" /\ phase'[s] = "stopped" /\ ~expired[s] =>
                   Inside(s) = {} /\ m_Queue[s] = <<>>
             /\ Inside(s)' = {} => m_Running'[s] = 0
  <2>1. Inside(s)' = {} => m_Running'[s] = 0
    <3>1. m_Running'[s] = Cardinality(Inside(s)')
      BY <1>1 DEF IInv, Counted
    <3> QED
      BY <3>1, FS_EmptySet
  <2>2. ASSUME phase[s] # "stopped", phase'[s] = "stopped", ~expired[s]
        PROVE  Inside(s) = {} /\ m_Queue[s] = <<>>
    <3>1. \E x \in Servers : TasksDone(x) /\ phase' = [phase EXCEPT ![x] = "stopped"]
      <4>1. phase' # phase
        BY <2>2
      <4>2. ~UNCHANGED vars
        BY <4>1 DEF vars, serverVars
      <4>3. ASSUME NEW i \in Slots,
                   Coroutine(i) \/ EtcdGetFails(i) \/ EtcdTxnTimeout(i) \/ Refused(i)
            PROVE  phase' = phase
        BY <4>3 DEF Coroutine, Admit, CheckLimit, EtcdGet, EtcdTxn, Enqueue, Cleanup, Answer,
             EtcdGetFails, EtcdTxnTimeout, Refused, serverVars
      <4>4. ASSUME NEW c \in Clients,
                   \/ \E h \in scenario.hashes : ClientInsert(c, h)
                   \/ \E x \in scenario.servers, i \in Slots : Put(c, x, i)
                   \/ PutTimeout(c) \/ ClientStop(c)
            PROVE  phase' = phase
        BY <4>4 DEF ClientInsert, Put, PutTimeout, ClientStop, serverVars
      <4>5. ASSUME NEW t \in late, LateTxn(t) PROVE phase' = phase
        BY <4>5 DEF LateTxn, serverVars
      <4>6. PICK x \in scenario.servers : ServerStep(x) \/ AtStop(x) \/ Crash(x)
        BY <1>1, <4>1, <4>2, <4>3, <4>4, <4>5 DEF Next
      <4>7. x \in Servers
        BY <1>1, <4>6, LimitsAssumption DEF IInv, TypeOK
      <4>8. ~AtStop(x) /\ ~RequestsDone(x)
        BY <1>1, <2>2, <4>7 DEF AtStop, RequestsDone, IInv, TypeOK
      <4>9. ~Crash(x) /\ ~Handle(x) /\ ~Linger(x)
        BY <4>1 DEF Crash, Handle, Linger
      <4> QED
        BY <4>6, <4>7, <4>8, <4>9 DEF ServerStep, TasksDone
    <3>2. TasksDone(s)
      BY <1>1, <2>2, <3>1 DEF IInv, TypeOK
    <3> QED
      BY <1>1, <2>2, <3>2 DEF TasksDone, IInv, Stopping
  <2> QED
    BY <2>1, <2>2
<1>2. IInv /\ IInv' /\ [Next]_vars =>
        [\A s \in Servers :
           /\ phase[s] # "stopped" /\ phase'[s] = "stopped" /\ ~expired[s] =>
                Inside(s) = {} /\ m_Queue[s] = <<>>
           /\ Inside(s)' = {} => m_Running'[s] = 0]_vars
  BY <1>1
<1> QED
  BY <1>2, Invariant, PTL DEF Spec, CleanStop

=============================================================================

---------------------------- MODULE NetworkProofs ----------------------------
(***************************************************************************)
(* The safety of the two systems that talk over the network: Http2, for    *)
(* every set of requests and all sizes of windows and frames, and          *)
(* Discovery, for every set of services and values.                        *)
(*                                                                         *)
(* Http2.  Places follows the requests through the strands: each is in one *)
(* place at most, and only a request that is in none has its promise set,  *)
(* which is why no promise is set twice.  Greeting follows the first       *)
(* frames: until the server has read the preface nothing but the preface   *)
(* and SETTINGS is in the client's Output or on the wire, because the      *)
(* Manager passes no request on before the server's SETTINGS have come.    *)
(*                                                                         *)
(* Discovery.  SdControlOf says what the state of a Notify is at each of   *)
(* its etcd calls, SdAnsweredOf what the answer to a put tells: with those *)
(* RefreshedIsPublished is inductive.  SdLeased and SdExclusive are about  *)
(* etcd: no key outlives its lease, and no two services ever use the same  *)
(* one, so that the keys of a service that is gone hang on leases that     *)
(* nobody refreshes.                                                       *)
(***************************************************************************)
EXTENDS Http2, Registration, TLAPS, SequenceTheorems

\* What Discovery adds to the state in Registration: the steps.
D == INSTANCE Discovery

(***************************************************************************)
(* Http2: where a request is.                                              *)
(***************************************************************************)


\* The requests whose promise is set.
Done == {r \in Requests : answers[r] # <<>>}

\* The shape of what holds the requests.
PlacesOK ==
  /\ called \subseteq Requests
  /\ data = [status |-> data.status, requests |-> data.requests]
  /\ peer = [streams |-> peer.streams, pending |-> peer.pending, failed |-> peer.failed,
             limit |-> peer.limit]
  /\ data.requests \in Seq(Requests) /\ posted \in Seq(Requests)
  /\ peer.pending \in Seq(Requests)
  /\ answers = [r \in Requests |-> answers[r]]
  /\ \A r \in Requests : answers[r] = <<>> \/ \E v : answers[r] = <<v>>

\* The sequences and m_Streams hold no request twice.
Distinct ==
  /\ IsInjective(data.requests) /\ IsInjective(posted)
  /\ IsInjective(peer.pending) /\ IsInjective(peer.streams)

\* A request that Manager::async was called with is in one place at most: with
\* the Manager, on the way to the Peer, in m_Pending, in m_Streams or answered.
Apart(m, p, q, s, d) ==
  /\ m \cup p \cup q \cup s \cup d \subseteq called
  /\ m \cap (p \cup q \cup s \cup d) = {}
  /\ p \cap (q \cup s \cup d) = {}
  /\ q \cap (s \cup d) = {}
  /\ s \cap d = {}

OnePlace ==
  Apart(ToSet(data.requests), ToSet(posted), ToSet(peer.pending), Range(peer.streams), Done)

Places == PlacesOK /\ Distinct /\ OnePlace

-----------------------------------------------------------------------------
\* A queue of requests that gets one which is not in it.
LEMMA AppendDistinct ==
  ASSUME NEW S, NEW q \in Seq(S), NEW x \in S
  PROVE  /\ Append(q, x) \in Seq(S)
         /\ ToSet(Append(q, x)) = ToSet(q) \cup {x}
         /\ IsInjective(q) /\ x \notin ToSet(q) => IsInjective(Append(q, x))
<1>1. /\ Append(q, x) \in Seq(S) /\ Len(q) \in Nat
      /\ DOMAIN q = 1 .. Len(q) /\ DOMAIN Append(q, x) = 1 .. Len(q) + 1
      /\ \A i \in 1 .. Len(q) : Append(q, x)[i] = q[i]
      /\ Append(q, x)[Len(q) + 1] = x
  OBVIOUS
<1>2. ToSet(Append(q, x)) = ToSet(q) \cup {x}
  BY <1>1 DEF ToSet
<1>3. ASSUME IsInjective(q), x \notin ToSet(q) PROVE IsInjective(Append(q, x))
  BY <1>1, <1>3 DEF IsInjective, ToSet
<1> QED
  BY <1>1, <1>2, <1>3

\* A queue of requests that loses its first one.
LEMMA TailDistinct ==
  ASSUME NEW S, NEW q \in Seq(S), q # <<>>
  PROVE  /\ Tail(q) \in Seq(S) /\ Head(q) \in S
         /\ ToSet(q) = ToSet(Tail(q)) \cup {Head(q)}
         /\ IsInjective(q) => IsInjective(Tail(q)) /\ Head(q) \notin ToSet(Tail(q))
<1>1. /\ Tail(q) \in Seq(S) /\ Head(q) \in S /\ Len(q) \in Nat \ {0}
      /\ DOMAIN q = 1 .. Len(q) /\ DOMAIN Tail(q) = 1 .. Len(q) - 1
      /\ \A i \in 1 .. Len(q) - 1 : Tail(q)[i] = q[i + 1]
      /\ Head(q) = q[1]
  OBVIOUS
<1>2. ToSet(q) = ToSet(Tail(q)) \cup {Head(q)}
  <2>1. \A x \in ToSet(q) : x = Head(q) \/ x \in ToSet(Tail(q))
    <3> SUFFICES ASSUME NEW i \in 1 .. Len(q) PROVE q[i] = Head(q) \/ q[i] \in ToSet(Tail(q))
      BY <1>1 DEF ToSet
    <3>1. CASE i = 1
      BY <1>1, <3>1
    <3>2. CASE i # 1
      <4>1. i - 1 \in 1 .. Len(q) - 1 /\ Tail(q)[i - 1] = q[i]
        BY <1>1, <3>2
      <4> QED
        BY <1>1, <4>1 DEF ToSet
    <3> QED
      BY <3>1, <3>2
  <2>2. Head(q) \in ToSet(q) /\ ToSet(Tail(q)) \subseteq ToSet(q)
    BY <1>1 DEF ToSet
  <2> QED
    BY <2>1, <2>2
<1>3. ASSUME IsInjective(q) PROVE IsInjective(Tail(q)) /\ Head(q) \notin ToSet(Tail(q))
  <2>1. IsInjective(Tail(q))
    BY <1>1, <1>3 DEF IsInjective
  <2>2. Head(q) \notin ToSet(Tail(q))
    BY <1>1, <1>3 DEF IsInjective, ToSet
  <2> QED
    BY <2>1, <2>2
<1> QED
  BY <1>1, <1>2, <1>3

\* Two queues that have no request in common, one after the other.
LEMMA ConcatDistinct ==
  ASSUME NEW S, NEW p \in Seq(S), NEW q \in Seq(S)
  PROVE  /\ p \o q \in Seq(S)
         /\ ToSet(p \o q) = ToSet(p) \cup ToSet(q)
         /\ IsInjective(p) /\ IsInjective(q) /\ ToSet(p) \cap ToSet(q) = {}
              => IsInjective(p \o q)
<1>1. /\ p \o q \in Seq(S) /\ Len(p) \in Nat /\ Len(q) \in Nat
      /\ DOMAIN p = 1 .. Len(p) /\ DOMAIN q = 1 .. Len(q)
      /\ DOMAIN (p \o q) = 1 .. Len(p) + Len(q)
      /\ \A i \in 1 .. Len(p) : (p \o q)[i] = p[i]
      /\ \A i \in Len(p) + 1 .. Len(p) + Len(q) : (p \o q)[i] = q[i - Len(p)]
  OBVIOUS
<1>2. ToSet(p \o q) = ToSet(p) \cup ToSet(q)
  <2>1. ASSUME NEW i \in 1 .. Len(q) PROVE q[i] \in ToSet(p \o q)
    <3>1. i + Len(p) \in DOMAIN (p \o q) /\ (p \o q)[i + Len(p)] = q[i]
      BY <1>1
    <3> QED
      BY <3>1 DEF ToSet
  <2>2. ASSUME NEW i \in 1 .. Len(p) PROVE p[i] \in ToSet(p \o q)
    BY <1>1 DEF ToSet
  <2>3. ASSUME NEW i \in 1 .. Len(p) + Len(q) PROVE (p \o q)[i] \in ToSet(p) \cup ToSet(q)
    <3>1. CASE i \in 1 .. Len(p)
      BY <1>1, <3>1 DEF ToSet
    <3>2. CASE i \in Len(p) + 1 .. Len(p) + Len(q)
      <4>1. i - Len(p) \in 1 .. Len(q)
        BY <1>1, <3>2
      <4> QED
        BY <1>1, <3>2, <4>1 DEF ToSet
    <3> QED
      BY <1>1, <3>1, <3>2
  <2> QED
    BY <1>1, <2>1, <2>2, <2>3 DEF ToSet
<1>3. ASSUME IsInjective(p), IsInjective(q), ToSet(p) \cap ToSet(q) = {}
      PROVE  IsInjective(p \o q)
  <2> SUFFICES ASSUME NEW i \in 1 .. Len(p) + Len(q), NEW j \in 1 .. Len(p) + Len(q),
                      (p \o q)[i] = (p \o q)[j]
               PROVE  i = j
    BY <1>1 DEF IsInjective
  <2>1. \A k \in 1 .. Len(p) : (p \o q)[k] \in ToSet(p)
    BY <1>1 DEF ToSet
  <2>2. \A k \in Len(p) + 1 .. Len(p) + Len(q) :
          k - Len(p) \in 1 .. Len(q) /\ (p \o q)[k] \in ToSet(q)
    BY <1>1 DEF ToSet
  <2>3. CASE i \in 1 .. Len(p) /\ j \in 1 .. Len(p)
    BY <1>1, <1>3, <2>3 DEF IsInjective
  <2>4. CASE i \in Len(p) + 1 .. Len(p) + Len(q) /\ j \in Len(p) + 1 .. Len(p) + Len(q)
    <3>1. i - Len(p) = j - Len(p)
      BY <1>1, <1>3, <2>2, <2>4 DEF IsInjective
    <3> QED
      BY <1>1, <3>1
  <2>5. CASE i \in 1 .. Len(p) /\ j \in Len(p) + 1 .. Len(p) + Len(q)
    BY <1>3, <2>1, <2>2, <2>5
  <2>6. CASE i \in Len(p) + 1 .. Len(p) + Len(q) /\ j \in 1 .. Len(p)
    BY <1>3, <2>1, <2>2, <2>6
  <2> QED
    BY <1>1, <2>3, <2>4, <2>5, <2>6
<1> QED
  BY <1>1, <1>2, <1>3

\* m_Streams gets a stream for a request that has none.
LEMMA SetInfoDistinct ==
  ASSUME NEW f, NEW s, NEW x
  PROVE  /\ Range(SetInfo(f, s, x)) \subseteq Range(f) \cup {x}
         /\ IsInjective(f) /\ x \notin Range(f) => IsInjective(SetInfo(f, s, x))
<1>1. DOMAIN SetInfo(f, s, x) = DOMAIN f \cup {s}
  BY DEF SetInfo
<1>2. \A t \in DOMAIN f \cup {s} : SetInfo(f, s, x)[t] = IF t = s THEN x ELSE f[t]
  BY DEF SetInfo
<1> QED
  BY <1>1, <1>2 DEF Range, IsInjective

\* m_Streams loses a stream, and with it the stream's request.
LEMMA EraseDistinct ==
  ASSUME NEW f, NEW s
  PROVE  /\ Range(Erase(f, s)) \subseteq Range(f)
         /\ IsInjective(f) => IsInjective(Erase(f, s))
         /\ IsInjective(f) /\ s \in DOMAIN f => f[s] \notin Range(Erase(f, s))
<1>1. DOMAIN Erase(f, s) = DOMAIN f \ {s} /\ \A t \in DOMAIN f \ {s} : Erase(f, s)[t] = f[t]
  BY DEF Erase
<1> QED
  BY <1>1 DEF Range, IsInjective

\* Nothing is kept in an empty sequence or map.
LEMMA EmptyDistinct == ToSet(<<>>) = {} /\ Range(<<>>) = {} /\ IsInjective(<<>>)
  BY DEF ToSet, Range, IsInjective

\* Setting promises that are not set.
LEMMA SetAllLemma ==
  ASSUME PlacesOK, NEW rs, rs \subseteq Requests, rs \cap Done = {}, NEW v,
         answers' = SetAll(rs, v)
  PROVE  /\ answers' = [r \in Requests |-> answers'[r]]
         /\ \A r \in Requests : answers'[r] = <<>> \/ \E u : answers'[r] = <<u>>
         /\ Done' = Done \cup rs
<1>1. answers' = [r \in Requests |-> IF r \in rs THEN Append(answers[r], v) ELSE answers[r]]
  BY DEF SetAll
<1>2. ASSUME NEW r \in rs PROVE answers'[r] = <<v>>
  <2>1. answers[r] = <<>>
    BY <1>2 DEF Done
  <2>2. Append(<<>>, v) = <<v>>
    OBVIOUS
  <2>3. answers'[r] = Append(answers[r], v)
    BY <1>1, <1>2
  <2> QED
    BY <2>1, <2>2, <2>3
<1>3. \A r \in Requests \ rs : answers'[r] = answers[r]
  BY <1>1
<1>4. answers' = [r \in Requests |-> answers'[r]]
  BY <1>1
<1>5. \A r \in Requests : answers'[r] = <<>> \/ \E u : answers'[r] = <<u>>
  BY <1>2, <1>3 DEF PlacesOK
<1>6. Done' = Done \cup rs
  BY <1>2, <1>3 DEF Done
<1> QED
  BY <1>4, <1>5, <1>6

\* The initial states: no request is anywhere.
LEMMA InitPlaces == Init => Places
<1> SUFFICES ASSUME Init PROVE Places
  OBVIOUS
<1>1. /\ data.requests = <<>> /\ posted = <<>> /\ peer.pending = <<>> /\ peer.streams = <<>>
      /\ called = {} /\ Done = {}
  BY DEF Init, Done
<1>2. peer = [streams |-> peer.streams, pending |-> peer.pending, failed |-> peer.failed,
              limit |-> peer.limit]
  BY DEF Init
<1>3. PlacesOK
  <2>1. <<>> \in Seq(Requests)
    OBVIOUS
  <2>2. data = [status |-> data.status, requests |-> data.requests]
    BY DEF Init
  <2>3. answers = [r \in Requests |-> answers[r]] /\ \A r \in Requests : answers[r] = <<>>
    BY DEF Init
  <2> QED
    BY <1>1, <1>2, <2>1, <2>2, <2>3 DEF PlacesOK
<1> QED
  BY <1>1, <1>3, EmptyDistinct DEF Places, Distinct, OnePlace, Apart

\* Manager::async keeps a new request, passes it on or fails it.
LEMMA CallPlaces == ASSUME Places, NEW r \in Requests, Call(r) PROVE Places'
<1> USE DEF Places
<1>1. r \notin called /\ called' = called \cup {r} /\ peer' = peer
  BY DEF Call, peerVars
<1>2. r \notin ToSet(data.requests) /\ r \notin ToSet(posted) /\ r \notin Done
  BY <1>1 DEF OnePlace, Apart
<1>3. CASE data' = [data EXCEPT !.requests = Append(@, r)] /\ UNCHANGED <<posted, answers>>
  <2>1. data' = [status |-> data.status, requests |-> Append(data.requests, r)]
    BY <1>3 DEF PlacesOK
  <2>2. /\ data'.requests \in Seq(Requests) /\ IsInjective(data'.requests)
        /\ ToSet(data'.requests) = ToSet(data.requests) \cup {r}
    BY <1>2, <2>1, AppendDistinct DEF PlacesOK, Distinct
  <2>3. PlacesOK'
    BY <1>1, <1>3, <2>1, <2>2 DEF PlacesOK
  <2>4. Done' = Done
    BY <1>3 DEF Done
  <2> QED
    BY <1>1, <1>3, <2>2, <2>3, <2>4 DEF Distinct, OnePlace, Apart
<1>4. CASE posted' = Append(posted, r) /\ UNCHANGED <<data, answers>>
  <2>1. /\ posted' \in Seq(Requests) /\ IsInjective(posted')
        /\ ToSet(posted') = ToSet(posted) \cup {r}
    BY <1>2, <1>4, AppendDistinct DEF PlacesOK, Distinct
  <2>2. PlacesOK'
    BY <1>1, <1>4, <2>1 DEF PlacesOK
  <2>3. Done' = Done
    BY <1>4 DEF Done
  <2> QED
    BY <1>1, <1>4, <2>1, <2>2, <2>3 DEF Distinct, OnePlace, Apart
<1>5. CASE answers' = SetAll({r}, Failed) /\ UNCHANGED <<data, posted>>
  <2>1. /\ answers' = [x \in Requests |-> answers'[x]]
        /\ \A x \in Requests : answers'[x] = <<>> \/ \E u : answers'[x] = <<u>>
        /\ Done' = Done \cup {r}
    BY <1>2, <1>5, SetAllLemma
  <2>2. PlacesOK'
    BY <1>1, <1>5, <2>1 DEF PlacesOK
  <2> QED
    BY <1>1, <1>5, <2>1, <2>2 DEF Distinct, OnePlace, Apart
<1> QED
  BY <1>3, <1>4, <1>5 DEF Call

\* notify_i sends what the Manager kept on to the Peer, or fails it.
LEMMA NotifiedPlaces == ASSUME Places, Notified PROVE Places'
<1> USE DEF Places
<1>1. /\ data' = [status |-> Head(notes), requests |-> <<>>]
      /\ peer' = peer /\ called' = called
  BY DEF Notified, peerVars
<1>2. data'.requests = <<>>
  BY <1>1
<1>3. CASE posted' = posted \o data.requests /\ UNCHANGED answers
  <2>1. /\ posted' \in Seq(Requests) /\ IsInjective(posted')
        /\ ToSet(posted') = ToSet(posted) \cup ToSet(data.requests)
    <3>1. ToSet(posted) \cap ToSet(data.requests) = {}
      BY DEF OnePlace, Apart
    <3> QED
      BY <1>3, <3>1, ConcatDistinct DEF PlacesOK, Distinct
  <2>2. PlacesOK'
    BY <1>1, <1>3, <2>1 DEF PlacesOK
  <2>3. Done' = Done
    BY <1>3 DEF Done
  <2> QED
    BY <1>1, <1>2, <2>1, <2>2, <2>3, EmptyDistinct DEF Distinct, OnePlace, Apart
<1>4. CASE answers' = SetAll(ToSet(data.requests), Failed) /\ UNCHANGED posted
  <2>1. /\ answers' = [x \in Requests |-> answers'[x]]
        /\ \A x \in Requests : answers'[x] = <<>> \/ \E u : answers'[x] = <<u>>
        /\ Done' = Done \cup ToSet(data.requests)
    <3>1. ToSet(data.requests) \subseteq Requests /\ ToSet(data.requests) \cap Done = {}
      BY DEF OnePlace, Apart, PlacesOK
    <3> QED
      BY <1>4, <3>1, SetAllLemma
  <2>2. PlacesOK'
    BY <1>1, <1>4, <2>1 DEF PlacesOK
  <2> QED
    BY <1>1, <1>2, <1>4, <2>1, <2>2, EmptyDistinct DEF Distinct, OnePlace, Apart
<1> QED
  BY <1>3, <1>4 DEF Notified

\* Peer::async_i fails a request, starts it or lets it wait.
LEMMA PeerAsyncPlaces == ASSUME Places, PeerAsync PROVE Places'
<1> USE DEF Places
<1>1. PICK r \in Requests : r = Head(posted)
  BY TailDistinct DEF PeerAsync, PlacesOK
<1>2. /\ posted' \in Seq(Requests) /\ IsInjective(posted') /\ r \notin ToSet(posted')
      /\ ToSet(posted) = ToSet(posted') \cup {r}
  BY <1>1, TailDistinct DEF PeerAsync, PlacesOK, Distinct
<1>3. data' = data /\ called' = called
  BY DEF PeerAsync, mgrVars
<1>4. /\ r \in called /\ r \notin ToSet(data.requests) /\ r \notin ToSet(peer.pending)
      /\ r \notin Range(peer.streams) /\ r \notin Done
  BY <1>2 DEF OnePlace, Apart
<1>5. CASE answers' = SetAll({r}, Failed) /\ UNCHANGED peer
  <2>1. /\ answers' = [x \in Requests |-> answers'[x]]
        /\ \A x \in Requests : answers'[x] = <<>> \/ \E u : answers'[x] = <<u>>
        /\ Done' = Done \cup {r}
    BY <1>4, <1>5, SetAllLemma
  <2>2. PlacesOK'
    BY <1>2, <1>3, <1>5, <2>1 DEF PlacesOK
  <2> QED
    BY <1>2, <1>3, <1>5, <2>1, <2>2 DEF Distinct, OnePlace, Apart
<1>6. CASE peer' = [peer EXCEPT !.pending = Append(@, r)] /\ UNCHANGED answers
  <2>1. peer' = [streams |-> peer.streams, pending |-> Append(peer.pending, r),
                 failed |-> peer.failed, limit |-> peer.limit]
    BY <1>6 DEF PlacesOK
  <2>2. /\ peer'.pending \in Seq(Requests) /\ IsInjective(peer'.pending)
        /\ ToSet(peer'.pending) = ToSet(peer.pending) \cup {r}
        /\ peer'.streams = peer.streams
    BY <1>4, <2>1, AppendDistinct DEF PlacesOK, Distinct
  <2>3. PlacesOK'
    BY <1>2, <1>3, <1>6, <2>1, <2>2 DEF PlacesOK
  <2>4. Done' = Done
    BY <1>6 DEF Done
  <2> QED
    BY <1>2, <1>3, <2>2, <2>3, <2>4 DEF Distinct, OnePlace, Apart
<1>7. CASE peer' = [peer EXCEPT !.streams = Started(@, r)] /\ UNCHANGED answers
  <2>1. peer' = [streams |-> Started(peer.streams, r), pending |-> peer.pending,
                 failed |-> peer.failed, limit |-> peer.limit]
    BY <1>7 DEF PlacesOK
  <2>2. /\ IsInjective(peer'.streams) /\ peer'.pending = peer.pending
        /\ Range(peer'.streams) \subseteq Range(peer.streams) \cup {r}
    BY <1>4, <2>1, SetInfoDistinct DEF PlacesOK, Distinct, Started
  <2>3. PlacesOK'
    BY <1>2, <1>3, <1>7, <2>1, <2>2 DEF PlacesOK
  <2>4. Done' = Done
    BY <1>7 DEF Done
  <2> QED
    BY <1>2, <1>3, <2>2, <2>3, <2>4 DEF Distinct, OnePlace, Apart
<1> QED
  BY <1>1, <1>5, <1>6, <1>7 DEF PeerAsync, peerVars

\* fail() sets the promise of every request the Peer has.
LEMMA FailPlaces ==
  ASSUME Places, Fail, UNCHANGED <<posted, data, called>>
  PROVE  Places'
<1> USE DEF Places
<1>1. peer' = [streams |-> <<>>, pending |-> <<>>, failed |-> TRUE, limit |-> peer.limit]
  BY DEF Fail, PlacesOK
<1>2. /\ answers' = [x \in Requests |-> answers'[x]]
      /\ \A x \in Requests : answers'[x] = <<>> \/ \E u : answers'[x] = <<u>>
      /\ Done' = Done \cup (Range(peer.streams) \cup ToSet(peer.pending))
  <2>1. /\ Range(peer.streams) \cup ToSet(peer.pending) \subseteq Requests
        /\ (Range(peer.streams) \cup ToSet(peer.pending)) \cap Done = {}
    BY DEF OnePlace, Apart, PlacesOK
  <2> QED
    BY <2>1, SetAllLemma DEF Fail
<1>3. peer'.streams = <<>> /\ peer'.pending = <<>>
  BY <1>1
<1>4. PlacesOK'
  BY <1>1, <1>2, <1>3 DEF PlacesOK
<1> QED
  BY <1>2, <1>3, <1>4, EmptyDistinct DEF Distinct, OnePlace, Apart

\* process_message sets the promise of a stream and starts the first of m_Pending.
LEMMA PushPlaces ==
  ASSUME Places, NEW e, NEW s, NEW size, NEW o, Push(e, s, size, o),
         UNCHANGED <<posted, data, called>>
  PROVE  Places'
<1> USE DEF Places
<1>1. CASE UNCHANGED <<peer, answers>>
  BY <1>1 DEF PlacesOK, Distinct, OnePlace, Apart, Done
<1>2. CASE e = "client" /\ s \in DOMAIN peer.streams
  <2>1. answers' = SetAll({peer.streams[s]}, size)
    BY <1>2 DEF Push
  <2>2. PICK x \in Requests : x = peer.streams[s] /\ x \in Range(peer.streams)
    BY <1>2 DEF OnePlace, Apart, PlacesOK, Range
  <2>3. /\ answers' = [r \in Requests |-> answers'[r]]
        /\ \A r \in Requests : answers'[r] = <<>> \/ \E u : answers'[r] = <<u>>
        /\ Done' = Done \cup {x}
    <3>1. x \notin Done
      BY <2>2 DEF OnePlace, Apart
    <3> QED
      BY <2>1, <2>2, <3>1, SetAllLemma
  <2>4. PICK left : /\ left = Erase(peer.streams, s) /\ IsInjective(left) /\ x \notin Range(left)
                    /\ Range(left) \subseteq Range(peer.streams)
    BY <1>2, <2>2, EraseDistinct DEF Distinct
  <2>5. CASE peer' = [peer EXCEPT !.streams = left]
    <3>1. peer' = [streams |-> left, pending |-> peer.pending, failed |-> peer.failed,
                   limit |-> peer.limit]
      BY <2>5 DEF PlacesOK
    <3>2. PlacesOK'
      BY <2>3, <3>1 DEF PlacesOK
    <3>3. peer'.streams = left /\ peer'.pending = peer.pending
      BY <3>1
    <3> QED
      BY <2>2, <2>3, <2>4, <3>2, <3>3 DEF Distinct, OnePlace, Apart
  <2>6. CASE /\ peer.pending # <<>>
             /\ peer' = [peer EXCEPT !.streams = Started(left, Head(peer.pending)),
                                     !.pending = Tail(@)]
    <3>1. PICK r \in Requests : r = Head(peer.pending)
      BY <2>6, TailDistinct DEF PlacesOK
    <3>2. peer' = [streams |-> Started(left, r), pending |-> Tail(peer.pending),
                   failed |-> peer.failed, limit |-> peer.limit]
      BY <2>6, <3>1 DEF PlacesOK
    <3>3. /\ peer'.pending \in Seq(Requests) /\ IsInjective(peer'.pending)
          /\ ToSet(peer.pending) = ToSet(peer'.pending) \cup {r} /\ r \notin ToSet(peer'.pending)
      BY <2>6, <3>1, <3>2, TailDistinct DEF PlacesOK, Distinct
    <3>4. r \notin Range(peer.streams) /\ r \in called /\ r # x
      BY <2>2, <3>3 DEF OnePlace, Apart
    <3>5. IsInjective(peer'.streams) /\ Range(peer'.streams) \subseteq Range(left) \cup {r}
      BY <2>4, <3>2, <3>4, SetInfoDistinct DEF Started
    <3>6. PlacesOK'
      BY <2>3, <3>2, <3>3 DEF PlacesOK
    <3> QED
      BY <2>2, <2>3, <2>4, <3>3, <3>4, <3>5, <3>6 DEF Distinct, OnePlace, Apart
  <2> QED
    BY <1>2, <2>4, <2>5, <2>6 DEF Push
<1> QED
  BY <1>1, <1>2 DEF Push, peerVars

\* The other steps leave the requests where they are.
LEMMA PlacesKept ==
  ASSUME Places, UNCHANGED <<called, data, posted, peer, answers>>
  PROVE  Places'
  BY DEF Places, PlacesOK, Distinct, OnePlace, Apart, Done

\* Every step keeps each request in one place.
LEMMA PlacesStep == Places /\ [Next]_vars => Places'
<1> SUFFICES ASSUME Places, [Next]_vars PROVE Places'
  OBVIOUS
<1>1. CASE UNCHANGED vars
  BY <1>1, PlacesKept DEF vars, peerVars, mgrVars
<1>2. CASE Notified \/ PeerAsync \/ \E r \in Requests : Call(r)
  BY <1>2, NotifiedPlaces, PeerAsyncPlaces, CallPlaces
<1>3. CASE ConnectFails
  BY <1>3, FailPlaces DEF ConnectFails, mgrVars
<1>4. CASE Connect \/ Break \/ ReadReady \/ ReadHeaderOnly \/ RecvHello
  BY <1>4, PlacesKept DEF Connect, Break, ReadReady, ReadHeaderOnly, RecvHello, peerVars, mgrVars
<1>5. ASSUME NEW e \in Ends, EndStep(e) PROVE Places'
  <2>1. CASE WriteWakes(e) \/ Transmit(e) \/ WriteReturns(e)
    BY <2>1, PlacesKept DEF WriteWakes, Transmit, WriteReturns, peerVars, mgrVars
  <2>2. CASE WriteFails(e) \/ ReadFails(e)
    <3>1. UNCHANGED <<posted, data, called>>
      BY <2>2 DEF WriteFails, ReadFails, mgrVars
    <3>2. Fail \/ UNCHANGED <<peer, answers>>
      BY <2>2 DEF WriteFails, ReadFails
    <3> QED
      BY <3>1, <3>2, FailPlaces, PlacesKept
  <2>3. CASE RecvSettings(e) \/ RecvWindowUpdate(e)
    BY <2>3, PlacesKept DEF RecvSettings, RecvWindowUpdate, peerVars, mgrVars
  <2>4. CASE RecvHeaders(e) \/ RecvData(e)
    <3>1. UNCHANGED <<posted, data, called>>
      BY <2>4 DEF RecvHeaders, RecvData, mgrVars
    <3>2. (\E s, size, o : Push(e, s, size, o)) \/ UNCHANGED <<peer, answers>>
      BY <2>4 DEF RecvHeaders, RecvData, peerVars
    <3> QED
      BY <3>1, <3>2, PushPlaces, PlacesKept
  <2> QED
    BY <1>5, <2>1, <2>2, <2>3, <2>4 DEF EndStep
<1>6. ASSUME NEW s \in Streams, HandlerDone(s) PROVE Places'
  BY <1>6, PlacesKept DEF HandlerDone, peerVars, mgrVars
<1> QED
  BY <1>1, <1>2, <1>3, <1>4, <1>5, <1>6 DEF Next, System

\* A promise is set at most once, by a response, by fail() or by the Manager:
\* no interleaving of a late response, a broken connection and requests on
\* their way between the strands sets it twice (Client.hpp).
THEOREM PromiseSetOnceHolds == Spec => []PromiseSetOnce
<1>1. Places => PromiseSetOnce
  <2> SUFFICES ASSUME Places, NEW r \in Requests PROVE Len(answers[r]) <= 1
    BY DEF PromiseSetOnce
  <2>1. answers[r] = <<>> \/ \E v : answers[r] = <<v>>
    BY DEF Places, PlacesOK
  <2>2. CASE answers[r] = <<>>
    BY <2>2
  <2>3. ASSUME NEW v, answers[r] = <<v>> PROVE Len(answers[r]) <= 1
    <3>1. Len(<<v>>) = 1
      OBVIOUS
    <3> QED
      BY <2>3, <3>1
  <2> QED
    BY <2>1, <2>2, <2>3
<1> QED
  BY <1>1, InitPlaces, PlacesStep, PTL DEF Spec

(***************************************************************************)
(* Http2: the greeting of a connection.                                    *)
(***************************************************************************)

\* The frames client_hello() queues.

Preface == Frame("PREFACE", Connection, 0, FALSE)
Settings == Frame("SETTINGS", Connection, 0, FALSE)

\* An Output that has only frames of the greeting to send.
Greets(q) == [pri |-> q, wq |-> <<>>, info |-> <<>>, budget |-> WindowSize]

\* The parser of each end is somewhere: it is a record with a stage.
Parsers == par = [e \in Ends |-> par[e]] /\ \A e \in Ends : "stage" \in DOMAIN par[e]

\* The server sends nothing before it has read the preface, and so the client
\* neither reads nor learns that it is connected.
ServerSilent ==
  /\ out["server"] = NewOutput
  /\ wr["server"].op \in {"none", "idle"}
  /\ wire["server"] = <<>>
  /\ handling = {}
  /\ rd["client"] # "ready"
  /\ data.status # "connected" /\ notes \in Seq({"error"}) /\ posted = <<>>

\* Until then the client writes the preface, SETTINGS and nothing else: the
\* preface goes to the wire with the first write that takes anything.  o is the
\* client's Output, w its write coroutine, c what it wrote and k the connection.
GreetsWith(q, o, w, c, k) ==
  /\ o = Greets(q)
  /\ w.op \in {"none", "idle", "pri"}
  /\ w.op = "pri" => q # <<>> /\ w.n \in 1 .. Len(q)
  /\ k \in {"none", "connecting"} => q = <<>>
  /\ c \in Seq({Preface, Settings})
  /\ c # <<>> => c[1] = Preface
  /\ c = <<>> => /\ w.sent # "yes"
                 /\ q = <<Preface, Settings>> \/ (q = <<>> /\ w.op = "none")

\* What is left of the greeting in the client's Output.
Queues == {<<>>, <<Settings>>, <<Preface, Settings>>}
GreetsBy(o, w, c, k) == \E q \in Queues : GreetsWith(q, o, w, c, k)
ClientGreets == GreetsBy(out["client"], wr["client"], wire["client"], conn)

\* The ends have an Output, coroutines and a direction of the wire each.
Shapes ==
  /\ out = [e \in Ends |-> out[e]]
  /\ wr = [e \in Ends |-> wr[e]]
  /\ {"op", "n", "sent"} \subseteq DOMAIN wr["client"]
  /\ rd = [e \in Ends |-> rd[e]]
  /\ wire = [e \in Ends |-> wire[e]]

\* Until the server has read the preface, nothing but the greeting is on its way.
Greeting == par["server"].stage = "HELLO" => Shapes /\ ServerSilent /\ ClientGreets

\* Bytes of no frames.
LEMMA BytesEmpty == Bytes(<<>>) = 0
<1> DEFINE Step(g, s) ==
      IF s = {} THEN 0
      ELSE LET x == Max(s)
           IN IF <<>>[x].type = "DATA" THEN g[s \ {x}] + <<>>[x].size ELSE g[s \ {x}]
           Sum(g) == [s \in SUBSET {} |-> Step(g, s)]
           f == CHOOSE g : g = Sum(g)
<1>1. DOMAIN <<>> = {}
  OBVIOUS
<1>2. Bytes(<<>>) = f[{}]
  BY <1>1 DEF Bytes, FoldLeft, MapThenFoldSet
<1>3. \A g : Sum(g) = [s \in SUBSET {} |-> 0]
  OBVIOUS
<1> HIDE DEF Sum
<1>4. Sum([s \in SUBSET {} |-> 0]) = [s \in SUBSET {} |-> 0]
  BY <1>3
<1>5. f = Sum(f)
  BY <1>4
<1>6. f[{}] = 0
  BY <1>3, <1>5
<1> QED
  BY <1>2, <1>6

\* One write takes the first frame of a queue, and no more than there are.
LEMMA MergeLemma ==
  ASSUME NEW S, NEW q \in Seq(S), NEW l \in {1, 2}, Len(q) = l
  PROVE  Merge(q) \in 1 .. l
<1> DEFINE T == {k \in 1 .. Min({Len(q), MaxMerge}) : Bytes(SubSeq(q, 1, k - 1)) < MaxExclusive}
<1>1. MaxMerge \in Nat \ {0} /\ MaxExclusive \in Nat \ {0}
  BY SizesAssumption
<1>2. \E m \in 1 .. l : m = Min({l, MaxMerge})
  <2>1. CASE MaxMerge <= l
    <3>1. \A x \in {l, MaxMerge} : (\A y \in {l, MaxMerge} : x <= y) <=> x = MaxMerge
      BY <1>1, <2>1
    <3>2. Min({l, MaxMerge}) = MaxMerge
      BY <3>1 DEF Min
    <3> QED
      BY <1>1, <2>1, <3>2
  <2>2. CASE ~(MaxMerge <= l)
    <3>1. \A x \in {l, MaxMerge} : (\A y \in {l, MaxMerge} : x <= y) <=> x = l
      BY <1>1, <2>2
    <3>2. Min({l, MaxMerge}) = l
      BY <3>1 DEF Min
    <3> QED
      BY <3>2
  <2> QED
    BY <2>1, <2>2
<1>3. SubSeq(q, 1, 1 - 1) = <<>>
  OBVIOUS
<1>4. 1 \in T /\ T \subseteq 1 .. l
  <2>1. PICK m \in 1 .. l : m = Min({l, MaxMerge})
    BY <1>2
  <2>2. T = {k \in 1 .. m : Bytes(SubSeq(q, 1, k - 1)) < MaxExclusive}
    BY <2>1
  <2>3. Bytes(SubSeq(q, 1, 1 - 1)) < MaxExclusive
    <3>1. 0 < MaxExclusive
      BY <1>1
    <3> QED
      BY <1>3, <3>1, BytesEmpty, Zenon
  <2>4. 1 \in T
    BY <2>1, <2>2, <2>3
  <2>5. T \subseteq 1 .. l
    BY <2>1, <2>2
  <2> QED
    BY <2>4, <2>5
<1> HIDE DEF T
<1>5. \E x \in T : \A y \in T : x >= y
  <2>1. CASE 2 \in T
    BY <1>4, <2>1
  <2>2. CASE 2 \notin T
    BY <1>4, <2>2
  <2> QED
    BY <2>1, <2>2
<1>6. Max(T) \in T
  BY <1>5 DEF Max
<1> QED
  BY <1>4, <1>6 DEF Merge, T

\* Short sequences.
LEMMA TuplesOf ==
  ASSUME NEW T, NEW a \in T, NEW b \in T
  PROVE  /\ Append(<<a>>, b) = <<a, b>>
         /\ SubSeq(<<a, b>>, 2, 2) = <<b>>
<1>1. <<a>> \in Seq(T) /\ <<b>> \in Seq(T) /\ <<a, b>> \in Seq(T)
  OBVIOUS
<1>2. /\ Len(<<a>>) = 1 /\ <<a>>[1] = a
      /\ Len(<<b>>) = 1 /\ <<b>>[1] = b
      /\ Len(<<a, b>>) = 2 /\ <<a, b>>[1] = a /\ <<a, b>>[2] = b
  OBVIOUS
<1>3. ASSUME NEW s \in Seq(T), NEW p \in Seq(T), Len(s) = 1, s[1] = a, Len(p) = 2,
             p[1] = a, p[2] = b
      PROVE  Append(s, b) = p
  <2>1. /\ Append(s, b) \in Seq(T) /\ Len(Append(s, b)) = 2
        /\ Append(s, b)[1] = a /\ Append(s, b)[2] = b
    <3>1. 1 \in 1 .. Len(s) /\ Len(s) + 1 = 2
      BY <1>3
    <3>2. /\ Append(s, b) \in Seq(T) /\ Len(Append(s, b)) = Len(s) + 1
          /\ \A i \in 1 .. Len(s) : Append(s, b)[i] = s[i]
          /\ Append(s, b)[Len(s) + 1] = b
      BY AppendProperties
    <3> QED
      BY <1>3, <3>1, <3>2
  <2>2. \A i \in 1 .. Len(p) : p[i] = Append(s, b)[i]
    BY <1>3, <2>1
  <2> QED
    BY <1>3, <2>1, <2>2, SeqEqual
<1>4. ASSUME NEW s \in Seq(T), NEW p \in Seq(T), Len(s) = 1, s[1] = b, Len(p) = 2,
             p[1] = a, p[2] = b
      PROVE  SubSeq(p, 2, 2) = s
  <2>1. /\ SubSeq(p, 2, 2) \in Seq(T) /\ Len(SubSeq(p, 2, 2)) = 1
        /\ SubSeq(p, 2, 2)[1] = b
    BY <1>4
  <2>2. \A i \in 1 .. Len(s) : s[i] = SubSeq(p, 2, 2)[i]
    BY <1>4, <2>1
  <2> QED
    BY <1>4, <2>1, <2>2, SeqEqual
<1> QED
  BY <1>1, <1>2, <1>3, <1>4

\* The same for any two values.
LEMMA Tuples ==
  ASSUME NEW a, NEW b
  PROVE  /\ Append(<<a>>, b) = <<a, b>>
         /\ SubSeq(<<a, b>>, 2, 2) = <<b>>
<1>1. \E T : a \in T /\ b \in T
  <2>1. a \in {a, b} /\ b \in {a, b}
    OBVIOUS
  <2> QED
    BY <2>1
<1> QED
  BY <1>1, TuplesOf

\* What the queues of the greeting are, and that the preface is what it is.
LEMMA QueuesLemma ==
  /\ \A q \in Queues : q \in Seq({Preface, Settings}) /\ Len(q) \in 0 .. 2
  /\ \A q \in Queues : Len(q) = 0 <=> q = <<>>
  /\ Preface # Settings
<1>1. Preface.type = "PREFACE" /\ Settings.type = "SETTINGS"
  BY DEF Preface, Settings, Frame
<1> QED
  BY <1>1 DEF Queues

\* The first write after a queue of the greeting.
LEMMA NextWriteLemma ==
  ASSUME NEW q \in Queues
  PROVE  /\ NextWrite(Greets(q)).sent = "no"
         /\ q = <<>> => NextWrite(Greets(q)).op = "idle"
         /\ q # <<>> => /\ NextWrite(Greets(q)).op = "pri"
                        /\ NextWrite(Greets(q)).n \in 1 .. Len(q)
<1>1. Greets(q).pri = q /\ Greets(q).wq = <<>>
  BY DEF Greets
<1>2. CASE q = <<>>
  BY <1>1, <1>2 DEF NextWrite
<1>3. CASE q # <<>>
  <2>1. Merge(q) \in 1 .. Len(q)
    BY <1>3, QueuesLemma, MergeLemma
  <2>2. NextWrite(Greets(q)) = [op |-> "pri", n |-> Merge(q), sent |-> "no"]
    BY <1>1, <1>3 DEF NextWrite
  <2> QED
    BY <1>3, <2>1, <2>2
<1> QED
  BY <1>2, <1>3

\* The write coroutine wakes up.
LEMMA WakeGreets ==
  ASSUME NEW o, NEW w, NEW c, NEW k, GreetsBy(o, w, c, k),
         w.op = "idle", o.pri # <<>> \/ o.wq # <<>>
  PROVE  GreetsBy(o, NextWrite(o), c, k)
<1>1. PICK q \in Queues : GreetsWith(q, o, w, c, k)
  BY DEF GreetsBy
<1>2. o.pri = q /\ o.wq = <<>>
  BY <1>1 DEF GreetsWith, Greets
<1>3. NextWrite(o).op = "pri" /\ NextWrite(o).n \in 1 .. Len(q) /\ NextWrite(o).sent = "no"
  BY <1>1, <1>2, NextWriteLemma DEF GreetsWith
<1>4. GreetsWith(q, o, NextWrite(o), c, k)
  BY <1>1, <1>2, <1>3 DEF GreetsWith
<1> QED
  BY <1>4 DEF GreetsBy

\* A write of the greeting puts its first j frames on the wire.
LEMMA WireGreets ==
  ASSUME NEW q \in Queues, NEW c \in Seq({Preface, Settings}), NEW j \in 0 .. Len(q),
         c # <<>> => c[1] = Preface, c = <<>> => q = <<Preface, Settings>>,
         NEW e, e = c \o SubSeq(q, 1, j)
  PROVE  /\ e \in Seq({Preface, Settings})
         /\ e # <<>> => e[1] = Preface
         /\ e = <<>> => c = <<>> /\ j = 0
<1>1. q \in Seq({Preface, Settings})
  BY QueuesLemma
<1>2. PICK d : d = SubSeq(q, 1, j)
  OBVIOUS
<1>3. d \in Seq({Preface, Settings}) /\ Len(d) = j /\ \A i \in 1 .. j : d[i] = q[i]
  BY <1>1, <1>2
<1>4. c \o d \in Seq({Preface, Settings}) /\ Len(c \o d) = Len(c) + j
  BY <1>1, <1>2, <1>3
<1>5. CASE c # <<>>
  BY <1>1, <1>2, <1>3, <1>4, <1>5
<1>6. CASE c = <<>>
  <2>1. q = <<Preface, Settings>>
    BY <1>6
  <2>2. c \o d = d
    BY <1>3, <1>6
  <2>3. j # 0 => d[1] = Preface
    BY <1>1, <1>2, <1>3, <2>1
  <2> QED
    BY <1>1, <1>2, <1>3, <1>4, <1>6, <2>2, <2>3
<1> QED
  BY <1>5, <1>6

\* The socket takes the frames of a write.
LEMMA TransmitGreets ==
  ASSUME NEW o, NEW w, NEW c, NEW k, GreetsBy(o, w, c, k),
         w.op = "pri", w.sent # "yes", NEW v, v.op = w.op, v.n = w.n
  PROVE  GreetsBy(o, v, c \o SubSeq(o.pri, 1, w.n), k)
<1>1. PICK q \in Queues : GreetsWith(q, o, w, c, k)
  BY DEF GreetsBy
<1>2. o.pri = q /\ w.n \in 0 .. Len(q) /\ w.n # 0
  BY <1>1, QueuesLemma DEF GreetsWith, Greets
<1>3. /\ c \in Seq({Preface, Settings})
      /\ c # <<>> => c[1] = Preface
      /\ c = <<>> => q = <<Preface, Settings>>
  BY <1>1 DEF GreetsWith
<1>4. PICK j \in 0 .. Len(q) : j = w.n
  BY <1>2
<1>5. PICK d : d = c \o SubSeq(q, 1, j)
  OBVIOUS
<1>6. /\ d \in Seq({Preface, Settings})
      /\ d # <<>> => d[1] = Preface
      /\ d = <<>> => c = <<>> /\ j = 0
  BY <1>5, <1>3, WireGreets
<1>7. GreetsWith(q, o, v, d, k)
  BY <1>1, <1>2, <1>4, <1>6 DEF GreetsWith
<1> QED
  BY <1>2, <1>5, <1>7, <1>4 DEF GreetsBy

\* A write fails after some of its frames, and the coroutine ends.
LEMMA WriteFailsGreets ==
  ASSUME NEW o, NEW w, NEW c, NEW k, GreetsBy(o, w, c, k),
         w.op = "pri", w.sent # "yes", NEW j \in 0 .. w.n - 1,
         NEW v, v.op = "none", v.sent = "no"
  PROVE  GreetsBy(o, v, c \o SubSeq(o.pri, 1, j), k)
<1>1. PICK q \in Queues : GreetsWith(q, o, w, c, k)
  BY DEF GreetsBy
<1>2. /\ o.pri = q /\ j \in 0 .. Len(q) /\ c \in Seq({Preface, Settings})
      /\ c # <<>> => c[1] = Preface
      /\ c = <<>> => q = <<Preface, Settings>>
  BY <1>1, QueuesLemma DEF GreetsWith, Greets
<1>3. PICK d : d = c \o SubSeq(q, 1, j)
  OBVIOUS
<1>4. /\ d \in Seq({Preface, Settings})
      /\ d # <<>> => d[1] = Preface
      /\ d = <<>> => c = <<>> /\ j = 0
  BY <1>2, <1>3, WireGreets
<1>5. GreetsWith(q, o, v, d, k)
  BY <1>1, <1>4 DEF GreetsWith
<1> QED
  BY <1>2, <1>3, <1>5 DEF GreetsBy

\* A write returns and the next one starts.
LEMMA WriteReturnsGreets ==
  ASSUME NEW o, NEW w, NEW c, NEW k, GreetsBy(o, w, c, k), w.op = "pri", w.sent = "yes"
  PROVE  GreetsBy(Written(o, w), NextWrite(Written(o, w)), c, k)
<1>1. PICK q \in Queues : GreetsWith(q, o, w, c, k)
  BY DEF GreetsBy
<1>2. c # <<>> /\ q # <<>> /\ w.n \in 1 .. Len(q) /\ k \notin {"none", "connecting"}
  BY <1>1 DEF GreetsWith
<1>3. SubSeq(q, w.n + 1, Len(q)) \in Queues
  <2>1. CASE q = <<Settings>>
    <3>1. w.n = 1 /\ SubSeq(q, 2, 1) = <<>> /\ Len(q) = 1
      BY <1>2, <2>1
    <3> QED
      BY <3>1 DEF Queues
  <2>2. CASE q = <<Preface, Settings>>
    <3>1. Len(q) = 2 /\ SubSeq(q, 3, 2) = <<>>
      BY <2>2
    <3>2. SubSeq(q, 2, 2) = <<Settings>>
      BY <2>2, Tuples
    <3>3. CASE w.n + 1 = 2
      BY <3>1, <3>2, <3>3, Zenon DEF Queues
    <3>4. CASE w.n + 1 = 3
      BY <3>1, <3>4, Zenon DEF Queues
    <3> QED
      BY <1>2, <3>1, <3>3, <3>4
  <2> QED
    BY <1>2, <2>1, <2>2 DEF Queues
<1>4. PICK p \in Queues : p = SubSeq(q, w.n + 1, Len(q))
  BY <1>3
<1>5. Written(o, w) = Greets(p)
  <2>1. o = [pri |-> q, wq |-> <<>>, info |-> <<>>, budget |-> WindowSize]
    BY <1>1 DEF GreetsWith, Greets
  <2> QED
    BY <1>4, <2>1 DEF Written, Greets
<1>6. GreetsWith(p, Greets(p), NextWrite(Greets(p)), c, k)
  BY <1>1, <1>2, NextWriteLemma DEF GreetsWith
<1> QED
  BY <1>5, <1>6 DEF GreetsBy

\* connect() returns: the write coroutine waits, and client_hello() queues the
\* greeting.
LEMMA ConnectGreets ==
  ASSUME NEW o, NEW w, NEW c, GreetsBy(o, w, c, "connecting")
  PROVE  GreetsBy(Send(Send(o, Preface), Settings), NextWrite(o), c, "up")
<1>1. PICK q \in Queues : GreetsWith(q, o, w, c, "connecting")
  BY DEF GreetsBy
<1>2. q = <<>> /\ o = Greets(<<>>)
  BY <1>1 DEF GreetsWith
<1>3. NextWrite(o).op = "idle" /\ NextWrite(o).sent = "no"
  BY <1>2, NextWriteLemma DEF Queues
<1>4. Send(Send(o, Preface), Settings) = Greets(<<Preface, Settings>>)
  <2>1. Send(o, Preface) = Greets(<<Preface>>)
    <3>1. Append(<<>>, Preface) = <<Preface>>
      OBVIOUS
    <3> QED
      BY <1>2, <3>1 DEF Send, Greets
  <2>2. Append(<<Preface>>, Settings) = <<Preface, Settings>>
    BY Tuples
  <2>3. Send(Greets(<<Preface>>), Settings) = Greets(<<Preface, Settings>>)
    BY <2>2 DEF Send, Greets
  <2> QED
    BY <2>1, <2>3
<1>5. GreetsWith(<<Preface, Settings>>, Greets(<<Preface, Settings>>), NextWrite(o), c, "up")
  BY <1>1, <1>3 DEF GreetsWith
<1> QED
  BY <1>4, <1>5 DEF GreetsBy, Queues

\* A cancelled write, or a connection that is made, fails or breaks.
LEMMA KeepGreets ==
  ASSUME NEW o, NEW w, NEW c, NEW k, GreetsBy(o, w, c, k),
         NEW v, v.op = w.op, v.n = w.n, v.sent = w.sent \/ v.sent # "yes",
         NEW l, l \in {"none", "connecting"} => k \in {"none", "connecting"}
  PROVE  GreetsBy(o, v, c, l)
  BY DEF GreetsBy, GreetsWith

\* A server that has read the preface never waits for it again.
LEMMA ParsersStep ==
  ASSUME Parsers, [Next]_vars
  PROVE  Parsers' /\ par'["server"].stage \in {par["server"].stage, "HEADER"}
<1>1. "server" \in Ends
  BY DEF Ends
<1>2. CASE par' = par
  BY <1>2 DEF Parsers
<1>3. CASE RecvHello
  <2>1. par' = [par EXCEPT !["server"].stage = "HEADER"]
    BY <1>3 DEF RecvHello
  <2> QED
    BY <1>1, <2>1 DEF Parsers
<1>4. ASSUME NEW e \in Ends, RecvSettings(e)
      PROVE  Parsers' /\ par'["server"].stage \in {par["server"].stage, "HEADER"}
  <2>1. par' = [par EXCEPT ![e].stage = "HEADER"]
    BY <1>4 DEF RecvSettings
  <2> QED
    BY <1>1, <2>1 DEF Parsers
<1>5. ASSUME NEW e \in Ends, RecvHeaders(e), par' # par
      PROVE  Parsers' /\ par'["server"].stage \in {par["server"].stage, "HEADER"}
  <2>1. PICK y : par' = [par EXCEPT ![e].info = y]
    BY <1>5 DEF RecvHeaders
  <2> QED
    BY <1>1, <2>1 DEF Parsers
<1>6. ASSUME NEW e \in Ends, RecvData(e)
      PROVE  Parsers' /\ par'["server"].stage \in {par["server"].stage, "HEADER"}
  <2>1. PICK y, z : par' = [par EXCEPT ![e].budget = z, ![e].info = y]
    BY <1>6 DEF RecvData
  <2> QED
    BY <1>1, <2>1 DEF Parsers
<1> QED
  BY <1>2, <1>3, <1>4, <1>5, <1>6 DEF vars, endVars, Next, System, EndStep, Call, Notified,
     PeerAsync, Connect, ConnectFails, Break, WriteWakes, Transmit, WriteReturns, WriteFails,
     ReadReady, ReadFails, ReadHeaderOnly, RecvWindowUpdate, HandlerDone

\* fail() tells the Manager of an error only.
LEMMA FailSilent ==
  ASSUME notes \in Seq({"error"}), Fail
  PROVE  notes' \in Seq({"error"})
  BY DEF Fail

\* A call before the server has answered is kept by the Manager, or fails.
LEMMA CallGreeting ==
  ASSUME Places, Shapes, ServerSilent, ClientGreets, NEW r \in Requests, Call(r)
  PROVE  Shapes' /\ ServerSilent' /\ ClientGreets'
<1>1. /\ out' = out /\ wr' = wr /\ rd' = rd /\ wire' = wire
      /\ notes' = notes /\ handling' = handling /\ posted' = posted
  BY DEF Call, ServerSilent
<1>2. data'.status # "connected"
  BY DEF Call, ServerSilent, Places, PlacesOK
<1>3. conn' \in {"none", "connecting"} => conn \in {"none", "connecting"}
  BY DEF Call
<1>4. ClientGreets'
  <2>1. PICK k : k = conn'
    OBVIOUS
  <2>2. GreetsBy(out["client"], wr["client"], wire["client"], k)
    BY <1>3, <2>1, KeepGreets DEF ClientGreets
  <2> QED
    BY <1>1, <2>1, <2>2 DEF ClientGreets
<1> QED
  BY <1>1, <1>2, <1>4 DEF Shapes, ServerSilent

\* notify_i tells the Manager of an error, so that nothing is passed on.
LEMMA NotifiedGreeting ==
  ASSUME Shapes, ServerSilent, ClientGreets, Notified
  PROVE  Shapes' /\ ServerSilent' /\ ClientGreets'
<1>1. /\ notes' \in Seq({"error"}) /\ Head(notes) = "error"
      /\ data' = [status |-> Head(notes), requests |-> <<>>]
  BY DEF Notified, ServerSilent
<1>2. posted' = posted /\ data'.status = "error" /\ handling' = handling
  BY <1>1 DEF Notified
<1>3. UNCHANGED endVars
  BY DEF Notified
<1> QED
  BY <1>1, <1>2, <1>3 DEF endVars, Shapes, ServerSilent, ClientGreets

\* The connection is made, and the greeting queued.
LEMMA ConnectGreeting ==
  ASSUME Shapes, ServerSilent, ClientGreets, Connect
  PROVE  Shapes' /\ ServerSilent' /\ ClientGreets'
<1>1. "client" \in Ends /\ "server" \in Ends
  BY DEF Ends
<1>2. /\ out' = [out EXCEPT !["client"] = Send(Send(out["client"], Preface), Settings)]
      /\ wr' = [e \in Ends |-> NextWrite(out[e])] /\ rd' = [e \in Ends |-> "wait"]
      /\ wire' = wire /\ conn = "connecting" /\ conn' = "up"
      /\ posted' = posted /\ notes' = notes /\ data' = data /\ handling' = handling
  BY DEF Connect, mgrVars, Preface, Settings
<1>3. /\ out'["client"] = Send(Send(out["client"], Preface), Settings)
      /\ out'["server"] = out["server"] /\ out' = [e \in Ends |-> out'[e]]
  BY <1>1, <1>2 DEF Shapes, Ends
<1>4. NextWrite(out["server"]).op = "idle"
  <2>1. out["server"] = Greets(<<>>) /\ <<>> \in Queues
    BY DEF ServerSilent, NewOutput, Greets, Queues
  <2> QED
    BY <2>1, NextWriteLemma
<1>5. {"op", "n", "sent"} \subseteq DOMAIN NextWrite(out["client"])
  BY DEF NextWrite
<1>6. ClientGreets'
  <2>1. GreetsBy(out["client"], wr["client"], wire["client"], "connecting")
    BY <1>2 DEF ClientGreets
  <2>2. GreetsBy(Send(Send(out["client"], Preface), Settings), NextWrite(out["client"]),
                 wire["client"], "up")
    BY <2>1, ConnectGreets
  <2> QED
    BY <1>1, <1>2, <1>3, <2>2 DEF ClientGreets
<1>7. Shapes'
  BY <1>1, <1>2, <1>3, <1>5 DEF Shapes
<1>8. ServerSilent'
  BY <1>1, <1>2, <1>3, <1>4 DEF ServerSilent
<1> QED
  BY <1>6, <1>7, <1>8

\* It is not made, or it breaks.
LEMMA DownGreeting ==
  ASSUME Shapes, ServerSilent, ClientGreets, ConnectFails \/ Break
  PROVE  Shapes' /\ ServerSilent' /\ ClientGreets'
<1>1. /\ out' = out /\ wr' = wr /\ wire' = wire /\ conn' = "down"
      /\ posted' = posted /\ data' = data /\ handling' = handling
  BY DEF ConnectFails, Break, mgrVars
<1>2. notes' \in Seq({"error"})
  BY FailSilent DEF ConnectFails, Break, ServerSilent
<1>3. rd' = [e \in Ends |-> rd'[e]] /\ rd'["client"] # "ready"
  BY DEF ConnectFails, Break, Shapes, ServerSilent, Ends
<1>4. GreetsBy(out["client"], wr["client"], wire["client"], "down")
  BY KeepGreets DEF ClientGreets
<1> QED
  BY <1>1, <1>2, <1>3, <1>4 DEF Shapes, ServerSilent, ClientGreets

\* The write coroutines: the server's has nothing to write.
LEMMA WriteGreeting ==
  ASSUME Shapes, ServerSilent, ClientGreets, NEW e \in Ends,
         WriteWakes(e) \/ Transmit(e) \/ WriteReturns(e) \/ WriteFails(e)
  PROVE  Shapes' /\ ServerSilent' /\ ClientGreets'
<1>1. e = "client"
  BY DEF Ends, ServerSilent, NewOutput, WriteWakes, Transmit, WriteReturns, WriteFails, Writing
<1>2. "client" \in Ends /\ "server" \in Ends
  BY DEF Ends
<1>3. /\ conn' = conn /\ posted' = posted /\ data' = data /\ handling' = handling
      /\ out' = [out EXCEPT !["client"] = out'["client"]]
      /\ wr' = [wr EXCEPT !["client"] = wr'["client"]]
      /\ wire' = [wire EXCEPT !["client"] = wire'["client"]]
  BY <1>1, <1>2 DEF WriteWakes, Transmit, WriteReturns, WriteFails, mgrVars, Shapes
<1>4. notes' \in Seq({"error"}) /\ rd' = [f \in Ends |-> rd'[f]] /\ rd'["client"] # "ready"
  BY <1>1, <1>2, FailSilent
     DEF WriteWakes, Transmit, WriteReturns, WriteFails, ServerSilent, Shapes, CancelledRead
<1>5. ServerSilent'
  BY <1>2, <1>3, <1>4 DEF Shapes, ServerSilent
<1>6. /\ out' = [f \in Ends |-> out'[f]] /\ wr' = [f \in Ends |-> wr'[f]]
      /\ wire' = [f \in Ends |-> wire'[f]]
  BY <1>3 DEF Shapes
<1>7. PICK o, w, c, k : /\ o = out["client"] /\ w = wr["client"] /\ c = wire["client"] /\ k = conn
                        /\ GreetsBy(o, w, c, k) /\ {"op", "n", "sent"} \subseteq DOMAIN w
  BY DEF ClientGreets, Shapes
<1>8. w.op \in {"none", "idle", "pri"}
  BY <1>7 DEF GreetsBy, GreetsWith
<1>9. ASSUME NEW p, NEW v, NEW d, GreetsBy(p, v, d, k), {"op", "n", "sent"} \subseteq DOMAIN v,
             out'["client"] = p, wr'["client"] = v, wire'["client"] = d
      PROVE  Shapes' /\ ServerSilent' /\ ClientGreets'
  BY <1>3, <1>4, <1>5, <1>6, <1>7, <1>9 DEF Shapes, ClientGreets
<1>10. {"op", "n", "sent"} \subseteq DOMAIN NextWrite(o)
  BY DEF NextWrite
<1>11. CASE WriteWakes(e)
  <2>1. /\ w.op = "idle" /\ (o.pri # <<>> \/ o.wq # <<>>) /\ out'["client"] = o
        /\ wr'["client"] = NextWrite(o) /\ wire'["client"] = c
    BY <1>1, <1>2, <1>7, <1>11 DEF WriteWakes, Shapes
  <2>2. GreetsBy(o, NextWrite(o), c, k)
    BY <1>7, <2>1, WakeGreets
  <2> QED
    BY <1>9, <1>10, <2>1, <2>2
<1>12. CASE Transmit(e)
  <2>1. /\ w.op = "pri" /\ w.sent # "yes" /\ out'["client"] = o
        /\ wr'["client"] = [w EXCEPT !.sent = "yes"]
        /\ wire'["client"] = c \o SubSeq(o.pri, 1, w.n)
    BY <1>1, <1>2, <1>7, <1>8, <1>12 DEF Transmit, Writing, Queue, Shapes
  <2>2. PICK v : /\ v = [w EXCEPT !.sent = "yes"] /\ v.op = w.op /\ v.n = w.n
                 /\ {"op", "n", "sent"} \subseteq DOMAIN v
    BY <1>7
  <2>3. GreetsBy(o, v, c \o SubSeq(o.pri, 1, w.n), k)
    BY <1>7, <2>1, <2>2, TransmitGreets
  <2> QED
    BY <1>9, <2>1, <2>2, <2>3
<1>13. CASE WriteReturns(e)
  <2>1. /\ w.op = "pri" /\ w.sent = "yes" /\ out'["client"] = Written(o, w)
        /\ wr'["client"] = NextWrite(Written(o, w)) /\ wire'["client"] = c
    BY <1>1, <1>2, <1>7, <1>8, <1>13 DEF WriteReturns, Writing, Shapes
  <2>2. GreetsBy(Written(o, w), NextWrite(Written(o, w)), c, k)
    BY <1>7, <2>1, WriteReturnsGreets
  <2>3. {"op", "n", "sent"} \subseteq DOMAIN NextWrite(Written(o, w))
    BY DEF NextWrite
  <2> QED
    BY <1>9, <2>1, <2>2, <2>3
<1>14. CASE WriteFails(e)
  <2>1. PICK v : v = [op |-> "none", n |-> 0, sent |-> "no"]
    OBVIOUS
  <2>2. v.op = "none" /\ v.sent = "no" /\ {"op", "n", "sent"} \subseteq DOMAIN v
    BY <2>1
  <2>3. /\ w.op = "pri" /\ w.sent # "yes" /\ out'["client"] = o /\ wr'["client"] = v
    BY <1>1, <1>2, <1>7, <1>8, <1>14, <2>1 DEF WriteFails, Writing, Shapes
  <2>4. PICK j \in 0 .. w.n - 1 : wire'["client"] = c \o SubSeq(o.pri, 1, j)
    <3>1. Queue("client") = o.pri
      BY <1>7, <2>3 DEF Queue
    <3>2. PICK j \in 0 .. w.n - 1 : wire' = [wire EXCEPT !["client"] = c \o SubSeq(o.pri, 1, j)]
      BY <1>1, <1>7, <1>14, <3>1 DEF WriteFails
    <3> QED
      BY <1>2, <3>2 DEF Shapes
  <2>5. GreetsBy(o, v, c \o SubSeq(o.pri, 1, j), k)
    BY <1>7, <2>2, <2>3, WriteFailsGreets
  <2> QED
    BY <1>9, <2>2, <2>3, <2>4, <2>5
<1> QED
  BY <1>11, <1>12, <1>13, <1>14

\* The read coroutines fail.
LEMMA ReadFailsGreeting ==
  ASSUME Shapes, ServerSilent, ClientGreets, NEW e \in Ends, ReadFails(e)
  PROVE  Shapes' /\ ServerSilent' /\ ClientGreets'
<1>1. "client" \in Ends /\ "server" \in Ends
  BY DEF Ends
<1>2. /\ out' = out /\ wire' = wire /\ conn' = conn
      /\ posted' = posted /\ data' = data /\ handling' = handling
  BY DEF ReadFails, mgrVars
<1>3. notes' \in Seq({"error"}) /\ rd' = [f \in Ends |-> rd'[f]] /\ rd'["client"] # "ready"
  BY <1>1, FailSilent DEF ReadFails, ServerSilent, Shapes
<1>4. CASE wr' = wr
  BY <1>2, <1>3, <1>4 DEF Shapes, ServerSilent, ClientGreets
<1>5. CASE wr' = [wr EXCEPT !["client"] = CancelledWrite(wr["client"])]
  <2>1. PICK w : w = wr["client"] /\ {"op", "n", "sent"} \subseteq DOMAIN w
    BY DEF Shapes
  <2>2. PICK v : v = CancelledWrite(w)
    OBVIOUS
  <2>3. /\ v.op = w.op /\ v.n = w.n
        /\ v.sent = w.sent \/ v.sent # "yes"
        /\ {"op", "n", "sent"} \subseteq DOMAIN v
    BY <2>1, <2>2 DEF CancelledWrite
  <2>4. GreetsBy(out["client"], v, wire["client"], conn)
    BY <2>1, <2>3, KeepGreets DEF ClientGreets
  <2>5. wr'["client"] = v /\ wr'["server"] = wr["server"] /\ wr' = [f \in Ends |-> wr'[f]]
    BY <1>1, <1>5, <2>1, <2>2 DEF Shapes
  <2> QED
    BY <1>2, <1>3, <2>3, <2>4, <2>5 DEF Shapes, ServerSilent, ClientGreets
<1> QED
  BY <1>4, <1>5 DEF ReadFails

\* Every step before the server has read the preface.
LEMMA GreetingStep ==
  ASSUME Places, Parsers, Greeting, [Next]_vars
  PROVE  Greeting'
<1> SUFFICES ASSUME par'["server"].stage = "HELLO"
             PROVE  Shapes' /\ ServerSilent' /\ ClientGreets'
  BY DEF Greeting
<1>1. par["server"].stage = "HELLO" /\ Shapes /\ ServerSilent /\ ClientGreets
  BY ParsersStep DEF Greeting
<1>2. "client" \in Ends /\ "server" \in Ends
  BY DEF Ends
<1>3. CASE UNCHANGED vars
  BY <1>1, <1>3 DEF vars, endVars, mgrVars, Shapes, ServerSilent, ClientGreets
<1>4. CASE Notified \/ Connect \/ ConnectFails \/ Break \/ \E r \in Requests : Call(r)
  BY <1>1, <1>4, NotifiedGreeting, ConnectGreeting, DownGreeting, CallGreeting
<1>5. ~PeerAsync /\ ~ReadReady /\ ~ReadHeaderOnly /\ \A s \in Streams : ~HandlerDone(s)
  BY <1>1 DEF ServerSilent, PeerAsync, ReadReady, ReadHeaderOnly, HandlerDone
<1>6. ~RecvHello
  <2>1. RecvHello => par'["server"].stage = "HEADER"
    BY <1>2 DEF RecvHello, Parsers
  <2> QED
    BY <2>1
<1>7. ASSUME NEW e \in Ends
      PROVE  ~RecvSettings(e) /\ ~RecvWindowUpdate(e) /\ ~RecvHeaders(e) /\ ~RecvData(e)
  BY <1>1 DEF ServerSilent, Ends, RecvSettings, RecvWindowUpdate, RecvHeaders, RecvData, Reads
<1>8. ASSUME NEW e \in Ends, EndStep(e) PROVE Shapes' /\ ServerSilent' /\ ClientGreets'
  BY <1>1, <1>7, <1>8, WriteGreeting, ReadFailsGreeting DEF EndStep
<1> QED
  BY <1>3, <1>4, <1>5, <1>6, <1>8 DEF Next, System

\* The initial states: no connection and no frame.
LEMMA InitGreeting == Init => Parsers /\ Greeting
<1> SUFFICES ASSUME Init PROVE Parsers /\ Greeting
  OBVIOUS
<1>1. "client" \in Ends /\ "server" \in Ends
  BY DEF Ends
<1>2. Parsers
  BY DEF Init, Parsers
<1>3. Shapes
  BY <1>1 DEF Init, Shapes
<1>4. ServerSilent
  <2>1. notes = <<>> /\ data = [status |-> "not connected", requests |-> <<>>]
    BY DEF Init
  <2>2. /\ out["server"] = NewOutput /\ wr["server"].op = "none" /\ wire["server"] = <<>>
        /\ rd["client"] = "none" /\ handling = {} /\ posted = <<>>
    BY <1>1 DEF Init
  <2>3. notes \in Seq({"error"})
    <3>1. <<>> \in Seq({"error"})
      OBVIOUS
    <3> QED
      BY <2>1, <3>1, Zenon
  <2>4. data.status # "connected"
    BY <2>1
  <2> QED
    BY <2>2, <2>3, <2>4 DEF ServerSilent
<1>5. ClientGreets
  <2>1. /\ out["client"] = Greets(<<>>) /\ wr["client"].op = "none" /\ wr["client"].sent = "no"
        /\ wire["client"] = <<>>
    BY <1>1 DEF Init, NewOutput, Greets
  <2> QED
    BY <2>1 DEF ClientGreets, GreetsBy, GreetsWith, Queues
<1> QED
  BY <1>2, <1>3, <1>4, <1>5 DEF Greeting

\* The preface is the first the server reads, for every size of window, frame and
\* write and whatever fails: the client's write coroutine runs before the
\* preface is queued, but nothing else can be queued until the server has
\* answered it (read_coro, Client.hpp:213-214).
THEOREM PrefaceFirstHolds == Spec => []PrefaceFirst
<1>1. Places /\ Parsers /\ Greeting /\ [Next]_vars => Parsers' /\ Greeting'
  BY ParsersStep, GreetingStep
<1>2. Greeting => PrefaceFirst
  <2> SUFFICES ASSUME Greeting, par["server"].stage = "HELLO", wire["client"] # <<>>
               PROVE  Head(wire["client"]).type = "PREFACE"
    BY DEF PrefaceFirst
  <2>1. wire["client"] \in Seq({Preface, Settings}) /\ wire["client"][1] = Preface
    BY DEF Greeting, ClientGreets, GreetsBy, GreetsWith
  <2>2. Head(wire["client"]) = Preface
    BY <2>1
  <2>3. Preface.type = "PREFACE"
    BY DEF Preface, Frame
  <2> QED
    BY <2>2, <2>3
<1> QED
  BY <1>1, <1>2, InitGreeting, InitPlaces, PlacesStep, PTL DEF Spec

(***************************************************************************)
(* Discovery.                                                              *)
(***************************************************************************)

SdTexts == Values \cup {D!None}
SdLease == 0 .. granted

SdTypeOK ==
  /\ pc \in [Services -> {"wait", "create", "put", "keep", "drop", "stopped", "crashed"}]
  /\ rpc \in [Services -> {"none", "sent", "ok", "bad"}]
  /\ m_Stop \in [Services -> BOOLEAN]
  /\ m_Lease \in [Services -> SdLease]
  /\ m_Value \in [Services -> Values]
  /\ m_Refresh \in [Services -> BOOLEAN]
  /\ sLease \in [Services -> SdLease]
  /\ sValue \in [Services -> SdTexts]
  /\ leases \in SUBSET (1 .. granted)
  /\ granted \in Nat
  /\ kv \in [Services -> [value : SdTexts, lease : SdLease]]
  /\ late \in SUBSET [key : Services, value : SdTexts, lease : SdLease]
  /\ m_Peers \in [Services -> SdTexts]
  /\ engine \in {"starting", "running", "stopping", "stopped"}
  /\ budget \in [updates : Nat, faults : Nat, late : Nat]
  /\ overtaken \in [Services -> BOOLEAN]

\* Where a Notify is and what it keeps then: it refreshes only while no put is
\* under way or to come, and a put is under the lease it has, if it has one.
SdControlOf(n) ==
  /\ m_Refresh[n] => pc[n] \in {"wait", "keep", "drop"} /\ m_Lease[n] # D!NoLease
  /\ D!Over(n) => m_Lease[n] = D!NoLease
  /\ pc[n] \notin {"create", "put"} => sLease[n] = D!NoLease
  /\ pc[n] = "create" => m_Lease[n] = D!NoLease
  /\ pc[n] = "put" => m_Lease[n] \in {D!NoLease, sLease[n]}
  /\ pc[n] = "put" /\ rpc[n] = "ok" => sLease[n] # D!NoLease

\* A put that was answered well is what etcd has, unless its lease is gone or
\* an earlier put came late.
SdAnsweredOf(n) ==
  pc[n] = "put" /\ rpc[n] = "ok" /\ sLease[n] \in leases /\ ~overtaken[n]
    => kv[n] = [value |-> sValue[n], lease |-> sLease[n]]

\* RefreshedIsPublished of one service.
SdRefreshedOf(n) ==
  m_Refresh[n] /\ ~D!Over(n) /\ pc[n] # "drop" /\ ~D!LostLease(n) /\ ~overtaken[n]
    => kv[n] = [value |-> m_Value[n], lease |-> m_Lease[n]]

SdSound(n) == SdControlOf(n) /\ SdAnsweredOf(n) /\ SdRefreshedOf(n)

SdIInv == SdTypeOK /\ \A n \in Services : SdSound(n)

\* No key outlives its lease.
SdLeased == \A n \in Services : kv[n] = D!NoKey \/ kv[n].lease \in leases

\* A lease that a service has, or its key, or a put of it that may still arrive.
SdUses(n, lease) ==
  /\ lease # D!NoLease
  /\ \/ lease \in {m_Lease[n], sLease[n], kv[n].lease}
     \/ \E p \in late : p.key = n /\ p.lease = lease

\* No lease is ever used by two services.
SdExclusive ==
  \A lease \in 1 .. granted, n, k \in Services :
    SdUses(n, lease) /\ SdUses(k, lease) => n = k

\* The key of a service that stopped or crashed, if there still is one, hangs on a
\* lease that lives and that no running service refreshes.
SdGoneIsOrphaned ==
  \A n \in Services :
    D!Over(n) => kv[n] = D!NoKey \/ (kv[n].lease \in leases /\ ~D!Held(kv[n].lease))

-----------------------------------------------------------------------------
\* What a service has is sound after a step of others: they end leases, or
\* grant one that is new, and take the service's key only with its lease.
LEMMA SdOthersLemma ==
  ASSUME SdTypeOK, NEW n \in Services, SdSound(n),
         pc'[n] = pc[n], rpc'[n] = rpc[n], m_Lease'[n] = m_Lease[n],
         m_Value'[n] = m_Value[n], m_Refresh'[n] = m_Refresh[n],
         sLease'[n] = sLease[n], sValue'[n] = sValue[n],
         overtaken'[n] = overtaken[n],
         leases' \subseteq leases \cup {granted + 1},
         kv'[n] = kv[n] \/ kv[n].lease \in leases \ leases'
  PROVE  SdSound(n)'
<1>1. SdControlOf(n)'
  BY DEF SdSound, SdControlOf, D!Over, D!NoLease
<1>2. m_Lease[n] # granted + 1 /\ sLease[n] # granted + 1 /\ D!NoLease \notin leases
  BY DEF SdTypeOK, SdLease, D!NoLease
<1>3. SdAnsweredOf(n)'
  BY <1>2 DEF SdSound, SdAnsweredOf
<1>4. SdRefreshedOf(n)'
  BY <1>2 DEF SdSound, SdRefreshedOf, D!Over, D!LostLease, D!NoLease
<1> QED
  BY <1>1, <1>3, <1>4 DEF SdSound

\* The initial states satisfy the inductive invariant.
LEMMA SdInitIInv == D!Init => SdIInv
<1> SUFFICES ASSUME D!Init PROVE SdIInv
  OBVIOUS
<1>1. SdTypeOK
  <2>1. /\ m_Stop \in [Services -> BOOLEAN] /\ m_Refresh \in [Services -> BOOLEAN]
        /\ overtaken \in [Services -> BOOLEAN]
    BY Zenon DEF D!Init
  <2>2. budget \in [updates : Nat, faults : Nat, late : Nat]
    BY BoundsAssumption DEF D!Init
  <2>3. m_Value \in [Services -> Values]
    BY BoundsAssumption DEF D!Init
  <2> QED
    BY <2>1, <2>2, <2>3 DEF D!Init, SdTypeOK, SdTexts, SdLease, D!NoKey, D!NoLease
<1>2. \A n \in Services : SdSound(n)
  BY DEF D!Init, SdSound, SdControlOf, SdAnsweredOf, SdRefreshedOf, D!Over, D!NoLease
<1> QED
  BY <1>1, <1>2 DEF SdIInv

\* A call of a service arrives in etcd.
LEMMA SdEtcdAppliesIInv == ASSUME SdIInv, NEW n \in Services, D!EtcdApplies(n) PROVE SdIInv'
<1> USE DEF SdIInv
<1>0. /\ rpc[n] = "sent"
      /\ pc' = pc /\ m_Stop' = m_Stop /\ m_Lease' = m_Lease /\ m_Value' = m_Value
      /\ m_Refresh' = m_Refresh /\ sValue' = sValue /\ late' = late
      /\ m_Peers' = m_Peers /\ engine' = engine /\ budget' = budget
  BY DEF D!EtcdApplies, D!engineVars
<1>1. PICK good \in BOOLEAN : rpc' = [rpc EXCEPT ![n] = IF good THEN "ok" ELSE "bad"]
  BY DEF D!EtcdApplies, D!Answer
<1>2. rpc' \in [Services -> {"none", "sent", "ok", "bad"}]
      /\ \A k \in Services \ {n} : rpc'[k] = rpc[k]
  BY <1>1 DEF SdTypeOK
<1>3. CASE /\ pc[n] = "create"
           /\ granted' = granted + 1
           /\ leases' = leases \cup {granted'}
           /\ sLease' = [sLease EXCEPT ![n] = granted']
           /\ UNCHANGED <<kv, overtaken>>
  <2>1. SdTypeOK'
    BY <1>0, <1>2, <1>3 DEF SdTypeOK, SdLease
  <2>2. ASSUME NEW k \in Services, k # n PROVE SdSound(k)'
    <3>1. sLease'[k] = sLease[k] /\ rpc'[k] = rpc[k]
      BY <1>2, <1>3, <2>2 DEF SdTypeOK
    <3> QED
      BY <1>0, <1>3, <3>1, SdOthersLemma
  <2>3. SdSound(n)'
    BY <1>0, <1>3 DEF SdSound, SdControlOf, SdAnsweredOf, SdRefreshedOf, D!Over
  <2> QED
    BY <2>1, <2>2, <2>3
<1>4. CASE /\ pc[n] = "put"
           /\ kv' = D!Put(n, sValue[n], sLease[n])
           /\ overtaken' = [overtaken EXCEPT ![n] = @ /\ sLease[n] \notin leases]
           /\ D!Answer(n, sLease[n] \in leases)
           /\ UNCHANGED <<leases, granted, sLease>>
  <2>1. kv' \in [Services -> [value : SdTexts, lease : SdLease]]
    BY <1>4 DEF SdTypeOK, D!Put
  <2>2. overtaken' \in [Services -> BOOLEAN]
    BY <1>4, Zenon DEF SdTypeOK
  <2>3. SdTypeOK'
    BY <1>0, <1>2, <1>4, <2>1, <2>2 DEF SdTypeOK, SdLease
  <2>4. ASSUME NEW k \in Services, k # n PROVE SdSound(k)'
    <3>1. overtaken'[k] = overtaken[k]
      BY <1>4, <2>4, Zenon DEF SdTypeOK
    <3>2. kv'[k] = kv[k] /\ rpc'[k] = rpc[k]
      BY <1>2, <1>4, <2>4 DEF SdTypeOK, D!Put
    <3> QED
      BY <1>0, <1>4, <3>1, <3>2, SdOthersLemma
  <2>5. sLease[n] \in leases => kv'[n] = [value |-> sValue[n], lease |-> sLease[n]]
    BY <1>4 DEF SdTypeOK, D!Put
  <2>6. rpc'[n] = "ok" => sLease[n] \in leases
    BY <1>4 DEF SdTypeOK, D!Answer
  <2>7. sLease[n] \in leases => sLease[n] # D!NoLease
    BY DEF SdTypeOK, D!NoLease
  <2>8. SdSound(n)'
    BY <1>0, <1>4, <2>5, <2>6, <2>7 DEF SdSound, SdControlOf, SdAnsweredOf, SdRefreshedOf,
           D!Over
  <2> QED
    BY <2>3, <2>4, <2>8
<1>5. CASE /\ pc[n] = "keep"
           /\ UNCHANGED <<leases, granted, kv, sLease, overtaken>>
  <2>1. SdTypeOK'
    BY <1>0, <1>2, <1>5 DEF SdTypeOK, SdLease
  <2>2. ASSUME NEW k \in Services, k # n PROVE SdSound(k)'
    <3>1. rpc'[k] = rpc[k]
      BY <1>2, <2>2
    <3> QED
      BY <1>0, <1>5, <3>1, SdOthersLemma
  <2>3. SdSound(n)'
    BY <1>0, <1>5 DEF SdSound, SdControlOf, SdAnsweredOf, SdRefreshedOf, D!Over, D!LostLease
  <2> QED
    BY <2>1, <2>2, <2>3
<1>6. CASE /\ pc[n] = "drop"
           /\ kv' = IF m_Lease[n] \in leases THEN D!Without(m_Lease[n]) ELSE kv
           /\ leases' = leases \ {m_Lease[n]}
           /\ UNCHANGED <<granted, sLease, overtaken>>
  <2>1. /\ kv' \in [Services -> [value : SdTexts, lease : SdLease]]
        /\ \A k \in Services : kv'[k] = kv[k] \/ kv[k].lease \in leases \ leases'
    BY <1>6 DEF SdTypeOK, D!Without, D!NoKey, SdTexts, SdLease, D!NoLease
  <2>2. SdTypeOK'
    BY <1>0, <1>2, <1>6, <2>1 DEF SdTypeOK, SdLease
  <2>3. ASSUME NEW k \in Services, k # n PROVE SdSound(k)'
    <3>1. rpc'[k] = rpc[k]
      BY <1>2, <2>3
    <3> QED
      BY <1>0, <1>6, <2>1, <3>1, SdOthersLemma
  <2>4. SdSound(n)'
    BY <1>0, <1>6 DEF SdSound, SdControlOf, SdAnsweredOf, SdRefreshedOf, D!Over
  <2> QED
    BY <2>2, <2>3, <2>4
<1> QED
  BY <1>3, <1>4, <1>5, <1>6 DEF D!EtcdApplies

\* A put given up arrives after all: it changes a key only under a lease that
\* lives, and then overtaken says so.
LEMMA SdLatePutIInv == ASSUME SdIInv, D!LatePut PROVE SdIInv'
<1> USE DEF SdIInv
<1>1. PICK p \in late :
        /\ late' = late \ {p}
        /\ kv' = D!Put(p.key, p.value, p.lease)
        /\ overtaken' = [overtaken EXCEPT ![p.key] = @ \/ p.lease \in leases]
  BY DEF D!LatePut
<1>2. /\ pc' = pc /\ rpc' = rpc /\ m_Stop' = m_Stop /\ m_Lease' = m_Lease
      /\ m_Value' = m_Value /\ m_Refresh' = m_Refresh /\ sLease' = sLease
      /\ sValue' = sValue /\ leases' = leases /\ granted' = granted
      /\ m_Peers' = m_Peers /\ engine' = engine /\ budget' = budget
  BY DEF D!LatePut, D!notifyVars, D!engineVars
<1>3. p.key \in Services /\ p.value \in SdTexts /\ p.lease \in SdLease
  BY DEF SdTypeOK
<1>4. overtaken' \in [Services -> BOOLEAN]
  BY <1>1, Zenon DEF SdTypeOK
<1>5. kv' \in [Services -> [value : SdTexts, lease : SdLease]]
  BY <1>1, <1>3 DEF SdTypeOK, D!Put
<1>6. SdTypeOK'
  BY <1>1, <1>2, <1>4, <1>5 DEF SdTypeOK, SdLease
<1>7. ASSUME NEW n \in Services PROVE SdSound(n)'
  <2>1. CASE n = p.key /\ p.lease \in leases
    <3>1. overtaken'[n]
      BY <1>1, <2>1, Zenon DEF SdTypeOK
    <3>2. SdControlOf(n)'
      BY <1>2 DEF SdSound, SdControlOf, D!Over
    <3> QED
      BY <3>1, <3>2 DEF SdSound, SdAnsweredOf, SdRefreshedOf
  <2>2. CASE ~(n = p.key /\ p.lease \in leases)
    <3>1. overtaken'[n] = overtaken[n]
      <4>1. CASE n # p.key
        BY <1>1, <1>3, <4>1, Zenon DEF SdTypeOK
      <4>2. CASE n = p.key
        <5>1. overtaken'[n] = (overtaken[n] \/ p.lease \in leases)
          BY <1>1, <4>2, Zenon DEF SdTypeOK
        <5>2. overtaken[n] \in BOOLEAN
          BY Zenon DEF SdTypeOK
        <5> QED
          BY <2>2, <4>2, <5>1, <5>2
      <4> QED
        BY <4>1, <4>2
    <3>2. kv'[n] = kv[n]
      BY <1>1, <2>2 DEF D!Put, SdTypeOK
    <3> QED
      BY <1>2, <3>1, <3>2, SdOthersLemma
  <2> QED
    BY <2>1, <2>2
<1> QED
  BY <1>6, <1>7

\* A lease ends, and the keys put under it with it.
LEMMA SdExpiresIInv ==
  ASSUME SdIInv, NEW lease \in leases, D!Expires(lease),
         budget' \in [updates : Nat, faults : Nat, late : Nat]
  PROVE  SdIInv'
<1> USE DEF SdIInv
<1>1. /\ kv' \in [Services -> [value : SdTexts, lease : SdLease]]
      /\ \A n \in Services : kv'[n] = kv[n] \/ kv[n].lease \in leases \ leases'
  BY DEF D!Expires, D!Without, SdTypeOK, D!NoKey, SdTexts, SdLease, D!NoLease
<1>2. SdTypeOK'
  BY <1>1 DEF SdTypeOK, D!Expires, D!notifyVars, D!engineVars, SdLease
<1>3. ASSUME NEW n \in Services PROVE SdSound(n)'
  BY <1>1, SdOthersLemma DEF D!Expires, D!notifyVars
<1> QED
  BY <1>2, <1>3

\* What is left of the bounds is a number.
LEMMA SdSpendLemma ==
  ASSUME SdTypeOK, NEW what \in {"updates", "faults", "late"}, D!Spend(what)
  PROVE  budget' \in [updates : Nat, faults : Nat, late : Nat]
BY DEF D!Spend, SdTypeOK

\* A service's own step in its coroutine, or in update() or stop(): etcd stays
\* as it is, and so does every other service.
LEMMA SdOwnStepLemma ==
  ASSUME SdIInv, NEW n \in Services, SdTypeOK', SdSound(n)',
         leases' = leases, kv' = kv, overtaken' = overtaken,
         \A k \in Services \ {n} :
           /\ pc'[k] = pc[k] /\ rpc'[k] = rpc[k] /\ m_Lease'[k] = m_Lease[k]
           /\ m_Value'[k] = m_Value[k] /\ m_Refresh'[k] = m_Refresh[k]
           /\ sLease'[k] = sLease[k] /\ sValue'[k] = sValue[k]
  PROVE  SdIInv'
<1>1. ASSUME NEW k \in Services, k # n PROVE SdSound(k)'
  BY <1>1, SdOthersLemma DEF SdIInv
<1> QED
  BY <1>1 DEF SdIInv

\* The Notify of a service is over: it refreshes nothing and has no lease.
LEMMA SdEndsLemma ==
  ASSUME SdTypeOK, NEW n \in Services, NEW how \in {"stopped", "crashed"}, D!Ends(n, how),
         m_Value' = m_Value
  PROVE  /\ pc' \in [Services -> {"wait", "create", "put", "keep", "drop", "stopped", "crashed"}]
         /\ rpc' \in [Services -> {"none", "sent", "ok", "bad"}]
         /\ m_Stop' \in [Services -> BOOLEAN] /\ m_Refresh' \in [Services -> BOOLEAN]
         /\ m_Lease' \in [Services -> SdLease] /\ sLease' \in [Services -> SdLease]
         /\ sValue' \in [Services -> SdTexts]
         /\ SdSound(n)'
         /\ \A k \in Services \ {n} :
              /\ pc'[k] = pc[k] /\ rpc'[k] = rpc[k] /\ m_Lease'[k] = m_Lease[k]
              /\ m_Value'[k] = m_Value[k] /\ m_Refresh'[k] = m_Refresh[k]
              /\ sLease'[k] = sLease[k] /\ sValue'[k] = sValue[k]
<1>1. /\ m_Stop' \in [Services -> BOOLEAN] /\ m_Refresh' \in [Services -> BOOLEAN]
      /\ ~m_Refresh'[n]
      /\ \A k \in Services \ {n} : m_Refresh'[k] = m_Refresh[k]
  BY Zenon DEF SdTypeOK, D!Ends
<1>2. /\ pc' \in [Services -> {"wait", "create", "put", "keep", "drop", "stopped", "crashed"}]
      /\ rpc' \in [Services -> {"none", "sent", "ok", "bad"}]
      /\ m_Lease' \in [Services -> SdLease] /\ sLease' \in [Services -> SdLease]
      /\ sValue' \in [Services -> SdTexts]
      /\ pc'[n] = how /\ m_Lease'[n] = D!NoLease /\ sLease'[n] = D!NoLease
      /\ \A k \in Services \ {n} :
           /\ pc'[k] = pc[k] /\ rpc'[k] = rpc[k] /\ m_Lease'[k] = m_Lease[k]
           /\ sLease'[k] = sLease[k] /\ sValue'[k] = sValue[k]
  BY DEF SdTypeOK, D!Ends, D!Goes, SdLease, SdTexts, D!NoLease
<1>3. SdSound(n)'
  BY <1>1, <1>2 DEF SdSound, SdControlOf, SdAnsweredOf, SdRefreshedOf, D!NoLease
<1> QED
  BY <1>1, <1>2, <1>3

\* What the own steps of a service leave alone.
LEMMA SdEtcdKept ==
  ASSUME SdTypeOK, D!etcdVars' = D!etcdVars, D!engineVars' = D!engineVars,
         overtaken' = overtaken
  PROVE  /\ leases' = leases /\ granted' = granted /\ kv' = kv /\ late' = late
         /\ m_Peers' = m_Peers /\ engine' = engine /\ SdLease' = SdLease
BY DEF D!etcdVars, D!engineVars, SdLease

\* The loop of start(), up to its next etcd call.
LEMMA SdLoopIInv == ASSUME SdIInv, NEW n \in Services, D!Loop(n) PROVE SdIInv'
<1> USE DEF SdIInv
<1>0. /\ pc[n] = "wait" /\ sLease[n] = D!NoLease
      /\ m_Value' = m_Value /\ budget' = budget /\ overtaken' = overtaken
      /\ leases' = leases /\ granted' = granted /\ kv' = kv /\ late' = late
      /\ m_Peers' = m_Peers /\ engine' = engine /\ SdLease' = SdLease
  BY SdEtcdKept DEF D!Loop, SdSound, SdControlOf
<1>1. CASE D!Ends(n, "stopped")
  <2>1. SdTypeOK'
    BY <1>0, <1>1, SdEndsLemma DEF SdTypeOK
  <2> QED
    BY <1>0, <1>1, <2>1, SdEndsLemma, SdOwnStepLemma
<1>2. ASSUME NEW what \in {"drop", "keep", "create"}, D!Calls(n, what),
             UNCHANGED <<m_Stop, m_Lease, m_Refresh, sLease, sValue>>,
             what = "create" => ~m_Refresh[n] /\ m_Lease[n] = D!NoLease
      PROVE  SdIInv'
  <2>1. SdTypeOK'
    BY <1>0, <1>2 DEF SdTypeOK, D!Calls
  <2>2. pc'[n] = what
    BY <1>2 DEF SdTypeOK, D!Calls
  <2>3. SdSound(n)'
    BY <1>0, <1>2, <2>2 DEF SdSound, SdControlOf, SdAnsweredOf, SdRefreshedOf, D!Over,
           D!LostLease
  <2>4. \A k \in Services \ {n} : pc'[k] = pc[k] /\ rpc'[k] = rpc[k]
    BY <1>2 DEF SdTypeOK, D!Calls
  <2> QED
    BY <1>0, <1>2, <2>1, <2>3, <2>4, SdOwnStepLemma
<1>3. CASE /\ ~m_Refresh[n] /\ D!CallsPut(n, m_Lease[n])
           /\ UNCHANGED <<m_Stop, m_Lease, m_Refresh>>
  <2>1. SdTypeOK'
    BY <1>0, <1>3 DEF SdTypeOK, D!CallsPut, D!Calls, SdTexts
  <2>2. /\ pc'[n] = "put" /\ rpc'[n] = "sent" /\ sLease'[n] = m_Lease[n]
        /\ \A k \in Services \ {n} : /\ pc'[k] = pc[k] /\ rpc'[k] = rpc[k]
                                     /\ sLease'[k] = sLease[k] /\ sValue'[k] = sValue[k]
    BY <1>3 DEF SdTypeOK, D!CallsPut, D!Calls
  <2>3. SdSound(n)'
    BY <1>3, <2>2 DEF SdSound, SdControlOf, SdAnsweredOf, SdRefreshedOf, D!Over
  <2> QED
    BY <1>0, <1>3, <2>1, <2>2, <2>3, SdOwnStepLemma
<1> QED
  BY <1>1, <1>2, <1>3 DEF D!Loop

\* init() ends: its coroutine waits for the timer, and no put is to come.
LEMMA SdInitOverLemma ==
  ASSUME SdTypeOK, NEW n \in Services, D!InitOver(n)
  PROVE  /\ pc' \in [Services -> {"wait", "create", "put", "keep", "drop", "stopped", "crashed"}]
         /\ rpc' \in [Services -> {"none", "sent", "ok", "bad"}]
         /\ sLease' \in [Services -> SdLease] /\ sValue' \in [Services -> SdTexts]
         /\ pc'[n] = "wait" /\ sLease'[n] = D!NoLease
         /\ \A k \in Services \ {n} : /\ pc'[k] = pc[k] /\ rpc'[k] = rpc[k]
                                      /\ sLease'[k] = sLease[k] /\ sValue'[k] = sValue[k]
BY DEF SdTypeOK, D!InitOver, D!Goes, SdLease, SdTexts, D!NoLease

\* The answer to a call, or the exception of one, reaches the Notify.
LEMMA SdCaughtLemma ==
  ASSUME SdTypeOK, NEW n \in Services, D!Caught(n)
  PROVE  /\ m_Refresh' \in [Services -> BOOLEAN] /\ ~m_Refresh'[n]
         /\ \A k \in Services \ {n} : m_Refresh'[k] = m_Refresh[k]
         /\ m_Stop' = m_Stop /\ m_Lease' = m_Lease
BY Zenon DEF SdTypeOK, D!Caught

\* init() after the answer to its put: what it then takes for published is.
LEMMA SdPutAnsweredLemma ==
  ASSUME SdTypeOK, NEW n \in Services, SdSound(n), pc[n] = "put", rpc[n] = "ok",
         D!PutAnswered(n), D!InitOver(n),
         m_Value' = m_Value, leases' = leases, kv' = kv, overtaken' = overtaken
  PROVE  /\ SdSound(n)'
         /\ m_Lease' \in [Services -> SdLease] /\ m_Refresh' \in [Services -> BOOLEAN]
         /\ \A k \in Services \ {n} : /\ m_Lease'[k] = m_Lease[k]
                                      /\ m_Refresh'[k] = m_Refresh[k]
<1>1. /\ m_Lease' \in [Services -> SdLease] /\ m_Lease'[n] = sLease[n]
      /\ \A k \in Services \ {n} : m_Lease'[k] = m_Lease[k]
  BY DEF SdTypeOK, D!PutAnswered
<1>2. /\ m_Refresh' \in [Services -> BOOLEAN]
      /\ \A k \in Services \ {n} : m_Refresh'[k] = m_Refresh[k]
      /\ m_Refresh'[n] = (m_Refresh[n] \/ sValue[n] = m_Value[n])
  BY Zenon DEF SdTypeOK, D!PutAnswered
<1>3. m_Refresh'[n] => sValue[n] = m_Value[n]
  BY <1>2 DEF SdSound, SdControlOf
<1>4. pc'[n] = "wait" /\ sLease'[n] = D!NoLease
  BY SdInitOverLemma
<1>5. SdControlOf(n)'
  <2>1. sLease[n] # D!NoLease
    BY DEF SdSound, SdControlOf
  <2> QED
    BY <1>1, <1>4, <2>1 DEF SdControlOf, D!Over
<1>6. SdAnsweredOf(n)'
  BY <1>4 DEF SdAnsweredOf
<1>7. SdRefreshedOf(n)'
  <2>1. sLease[n] # D!NoLease
    BY DEF SdSound, SdControlOf
  <2> SUFFICES ASSUME m_Refresh'[n], ~D!LostLease(n)', ~overtaken[n]
               PROVE  kv[n] = [value |-> m_Value[n], lease |-> sLease[n]]
    BY <1>1 DEF SdRefreshedOf
  <2>2. sLease[n] \in leases
    BY <1>1, <2>1 DEF D!LostLease
  <2> QED
    BY <1>3, <2>2 DEF SdSound, SdAnsweredOf
<1> QED
  BY <1>1, <1>2, <1>5, <1>6, <1>7 DEF SdSound

\* The Notify goes on with the answer to its call.
LEMMA SdReturnsIInv == ASSUME SdIInv, NEW n \in Services, D!Returns(n) PROVE SdIInv'
<1> USE DEF SdIInv
<1>0. /\ rpc[n] \in {"ok", "bad"}
      /\ m_Value' = m_Value /\ budget' = budget /\ overtaken' = overtaken
      /\ leases' = leases /\ granted' = granted /\ kv' = kv /\ late' = late
      /\ m_Peers' = m_Peers /\ engine' = engine /\ SdLease' = SdLease
  BY SdEtcdKept DEF D!Returns
<1>1. CASE /\ pc[n] = "create" /\ D!CallsPut(n, sLease[n])
           /\ UNCHANGED <<m_Stop, m_Lease, m_Refresh>>
  <2>1. SdTypeOK'
    BY <1>0, <1>1 DEF SdTypeOK, D!CallsPut, D!Calls, SdTexts
  <2>2. /\ pc'[n] = "put" /\ rpc'[n] = "sent" /\ sLease'[n] = sLease[n]
        /\ \A k \in Services \ {n} : /\ pc'[k] = pc[k] /\ rpc'[k] = rpc[k]
                                     /\ sLease'[k] = sLease[k] /\ sValue'[k] = sValue[k]
    BY <1>1 DEF SdTypeOK, D!CallsPut, D!Calls
  <2>3. SdSound(n)'
    BY <1>1, <2>2 DEF SdSound, SdControlOf, SdAnsweredOf, SdRefreshedOf, D!Over
  <2> QED
    BY <1>0, <1>1, <2>1, <2>2, <2>3, SdOwnStepLemma
<1>2. CASE pc[n] = "put" /\ rpc[n] = "ok" /\ D!PutAnswered(n) /\ D!InitOver(n)
  <2>1. /\ SdSound(n)' /\ m_Lease' \in [Services -> SdLease] /\ m_Refresh' \in [Services -> BOOLEAN]
        /\ \A k \in Services \ {n} : /\ m_Lease'[k] = m_Lease[k]
                                     /\ m_Refresh'[k] = m_Refresh[k]
    BY <1>0, <1>2, SdPutAnsweredLemma
  <2>2. m_Stop' = m_Stop
    BY <1>2 DEF D!PutAnswered
  <2>3. SdTypeOK'
    BY <1>0, <1>2, <2>1, <2>2, SdInitOverLemma DEF SdTypeOK
  <2> QED
    BY <1>0, <1>2, <2>1, <2>3, SdInitOverLemma, SdOwnStepLemma
<1>3. CASE pc[n] = "put" /\ D!Caught(n) /\ D!InitOver(n)
  <2>1. SdTypeOK'
    BY <1>0, <1>3, SdCaughtLemma, SdInitOverLemma DEF SdTypeOK
  <2>2. SdSound(n)'
    BY <1>3, SdCaughtLemma, SdInitOverLemma DEF SdControlOf, SdAnsweredOf, SdRefreshedOf,
           SdSound, D!Over
  <2> QED
    BY <1>0, <1>3, <2>1, <2>2, SdCaughtLemma, SdInitOverLemma, SdOwnStepLemma
<1>4. CASE /\ pc[n] = "keep" /\ D!Goes(n, "wait")
           /\ UNCHANGED <<m_Stop, m_Lease, m_Refresh, sLease, sValue>>
  <2>1. SdTypeOK'
    BY <1>0, <1>4 DEF SdTypeOK, D!Goes
  <2>2. pc'[n] = "wait" /\ \A k \in Services \ {n} : pc'[k] = pc[k] /\ rpc'[k] = rpc[k]
    BY <1>4 DEF SdTypeOK, D!Goes
  <2>3. SdSound(n)'
    BY <1>0, <1>4, <2>2 DEF SdSound, SdControlOf, SdAnsweredOf, SdRefreshedOf, D!Over,
           D!LostLease
  <2> QED
    BY <1>0, <1>4, <2>1, <2>2, <2>3, SdOwnStepLemma
<1>5. CASE D!Ends(n, "stopped")
  <2>1. SdTypeOK'
    BY <1>0, <1>5, SdEndsLemma DEF SdTypeOK
  <2> QED
    BY <1>0, <1>5, <2>1, SdEndsLemma, SdOwnStepLemma
<1> QED
  BY <1>1, <1>2, <1>3, <1>4, <1>5 DEF D!Returns

\* A call is given up or its service crashes: what may arrive later is a put.
LEMMA SdAbandonsLemma ==
  ASSUME SdTypeOK, NEW n \in Services, D!Abandons(n)
  PROVE  late' \in SUBSET [key : Services, value : SdTexts, lease : SdLease]
BY DEF SdTypeOK, D!Abandons

\* request() throws.
LEMMA SdGivesUpIInv == ASSUME SdIInv, NEW n \in Services, D!GivesUp(n) PROVE SdIInv'
<1> USE DEF SdIInv
<1>0. /\ m_Value' = m_Value /\ overtaken' = overtaken
      /\ leases' = leases /\ granted' = granted /\ kv' = kv
      /\ m_Peers' = m_Peers /\ engine' = engine /\ SdLease' = SdLease
      /\ late' \in SUBSET [key : Services, value : SdTexts, lease : SdLease]
      /\ budget' \in [updates : Nat, faults : Nat, late : Nat]
  BY SdAbandonsLemma, SdSpendLemma DEF D!GivesUp, D!engineVars, SdLease
<1>1. CASE pc[n] \in {"create", "put"} /\ D!Caught(n) /\ D!InitOver(n)
  <2>1. SdTypeOK'
    BY <1>0, <1>1, SdCaughtLemma, SdInitOverLemma DEF SdTypeOK
  <2>2. SdSound(n)'
    BY <1>1, SdCaughtLemma, SdInitOverLemma DEF SdControlOf, SdAnsweredOf, SdRefreshedOf,
           SdSound, D!Over
  <2> QED
    BY <1>0, <1>1, <2>1, <2>2, SdCaughtLemma, SdInitOverLemma, SdOwnStepLemma
<1>2. CASE /\ pc[n] = "keep" /\ D!Caught(n) /\ D!Goes(n, "wait")
           /\ UNCHANGED <<sLease, sValue>>
  <2>1. SdTypeOK'
    BY <1>0, <1>2, SdCaughtLemma DEF SdTypeOK, D!Goes
  <2>2. pc'[n] = "wait" /\ \A k \in Services \ {n} : pc'[k] = pc[k] /\ rpc'[k] = rpc[k]
    BY <1>2 DEF SdTypeOK, D!Goes
  <2>3. SdSound(n)'
    BY <1>2, <2>2, SdCaughtLemma DEF SdControlOf, SdAnsweredOf, SdRefreshedOf, SdSound, D!Over
  <2> QED
    BY <1>0, <1>2, <2>1, <2>2, <2>3, SdCaughtLemma, SdOwnStepLemma
<1>3. CASE D!Ends(n, "stopped")
  <2>1. SdTypeOK'
    BY <1>0, <1>3, SdEndsLemma DEF SdTypeOK
  <2> QED
    BY <1>0, <1>3, <2>1, SdEndsLemma, SdOwnStepLemma
<1> QED
  BY <1>1, <1>2, <1>3 DEF D!GivesUp

\* A process dies at any point of its coroutine.
LEMMA SdCrashIInv == ASSUME SdIInv, NEW n \in Services, D!Crash(n) PROVE SdIInv'
<1> USE DEF SdIInv
<1>0. /\ m_Value' = m_Value /\ overtaken' = overtaken
      /\ leases' = leases /\ granted' = granted /\ kv' = kv
      /\ m_Peers' = m_Peers /\ engine' = engine /\ SdLease' = SdLease
      /\ late' \in SUBSET [key : Services, value : SdTexts, lease : SdLease]
      /\ budget' \in [updates : Nat, faults : Nat, late : Nat]
      /\ D!Ends(n, "crashed")
  BY SdAbandonsLemma, SdSpendLemma DEF D!Crash, D!engineVars, SdLease
<1>1. SdTypeOK'
  BY <1>0, SdEndsLemma DEF SdTypeOK
<1> QED
  BY <1>0, <1>1, SdEndsLemma, SdOwnStepLemma

\* The service comes back, with nothing of what it had.
LEMMA SdRestartIInv == ASSUME SdIInv, NEW n \in Services, D!Restart(n) PROVE SdIInv'
<1> USE DEF SdIInv
<1>0. /\ pc[n] = "crashed" /\ D!Goes(n, "wait") /\ budget' = budget /\ overtaken' = overtaken
      /\ m_Stop' = m_Stop /\ m_Lease' = m_Lease /\ m_Value' = m_Value
      /\ m_Refresh' = m_Refresh /\ sLease' = sLease /\ sValue' = sValue
      /\ leases' = leases /\ granted' = granted /\ kv' = kv /\ late' = late
      /\ m_Peers' = m_Peers /\ engine' = engine /\ SdLease' = SdLease
  BY SdEtcdKept DEF D!Restart
<1>1. SdTypeOK'
  BY <1>0 DEF SdTypeOK, D!Goes
<1>2. pc'[n] = "wait" /\ \A k \in Services \ {n} : pc'[k] = pc[k] /\ rpc'[k] = rpc[k]
  BY <1>0 DEF SdTypeOK, D!Goes
<1>3. SdSound(n)'
  BY <1>0, <1>2 DEF SdSound, SdControlOf, SdAnsweredOf, SdRefreshedOf, D!Over
<1> QED
  BY <1>0, <1>1, <1>2, <1>3, SdOwnStepLemma

\* update() from another thread: the value is no longer taken for published.
LEMMA SdUpdateIInv ==
  ASSUME SdIInv, NEW n \in Services, NEW value \in Values, D!Update(n, value)
  PROVE  SdIInv'
<1> USE DEF SdIInv
<1>0. /\ pc' = pc /\ rpc' = rpc /\ overtaken' = overtaken
      /\ m_Stop' = m_Stop /\ m_Lease' = m_Lease /\ sLease' = sLease /\ sValue' = sValue
      /\ leases' = leases /\ granted' = granted /\ kv' = kv /\ late' = late
      /\ m_Peers' = m_Peers /\ engine' = engine /\ SdLease' = SdLease
      /\ budget' \in [updates : Nat, faults : Nat, late : Nat]
  BY SdEtcdKept, SdSpendLemma DEF D!Update
<1>1. /\ m_Refresh' \in [Services -> BOOLEAN] /\ ~m_Refresh'[n]
      /\ \A k \in Services \ {n} : m_Refresh'[k] = m_Refresh[k]
  BY Zenon DEF D!Update, SdTypeOK
<1>2. /\ m_Value' \in [Services -> Values]
      /\ \A k \in Services \ {n} : m_Value'[k] = m_Value[k]
  BY DEF D!Update, SdTypeOK
<1>3. SdTypeOK'
  BY <1>0, <1>1, <1>2 DEF SdTypeOK
<1>4. SdSound(n)'
  BY <1>0, <1>1 DEF SdSound, SdControlOf, SdAnsweredOf, SdRefreshedOf, D!Over
<1> QED
  BY <1>0, <1>1, <1>2, <1>3, <1>4, SdOwnStepLemma

\* stop(), and the engine's own steps.
LEMMA SdOtherIInv ==
  ASSUME SdIInv, (\E n \in Services : D!Stop(n)) \/ D!Poll \/ D!StopEngine
  PROVE  SdIInv'
<1> USE DEF SdIInv
<1>0. /\ pc' = pc /\ rpc' = rpc /\ overtaken' = overtaken /\ budget' = budget
      /\ m_Lease' = m_Lease /\ m_Value' = m_Value /\ m_Refresh' = m_Refresh
      /\ sLease' = sLease /\ sValue' = sValue
      /\ leases' = leases /\ granted' = granted /\ kv' = kv /\ late' = late /\ SdLease' = SdLease
  BY DEF D!Stop, D!Poll, D!StopEngine, D!notifyVars, D!etcdVars, SdLease
<1>1. m_Stop' \in [Services -> BOOLEAN]
  <2>1. ASSUME NEW n \in Services, D!Stop(n) PROVE m_Stop' \in [Services -> BOOLEAN]
    BY <2>1, Zenon DEF D!Stop, SdTypeOK
  <2>2. CASE D!Poll \/ D!StopEngine
    BY <2>2 DEF D!Poll, D!StopEngine, D!notifyVars, SdTypeOK
  <2> QED
    BY <2>1, <2>2
<1>2. /\ m_Peers' \in [Services -> SdTexts]
      /\ engine' \in {"starting", "running", "stopping", "stopped"}
  <2>1. D!Published \in [Services -> SdTexts] /\ D!Nobody \in [Services -> SdTexts]
    BY DEF SdTypeOK, D!Published, D!Nobody, SdTexts
  <2>2. CASE D!Poll
    BY <2>1, <2>2 DEF SdTypeOK, D!Poll, D!Found, D!Active
  <2>3. CASE ~D!Poll
    BY <2>3 DEF SdTypeOK, D!Stop, D!StopEngine, D!engineVars
  <2> QED
    BY <2>2, <2>3
<1>3. SdTypeOK'
  BY <1>0, <1>1, <1>2 DEF SdTypeOK
<1>4. ASSUME NEW n \in Services PROVE SdSound(n)'
  BY <1>0, SdOthersLemma
<1> QED
  BY <1>3, <1>4

\* The inductive invariant holds in every reachable state.
THEOREM SdInvariant == D!Spec => []SdIInv
<1>1. SdIInv /\ [D!Next]_(D!vars) => SdIInv'
  <2> SUFFICES ASSUME SdIInv, [D!Next]_(D!vars) PROVE SdIInv'
    OBVIOUS
  <2>1. CASE UNCHANGED D!vars
    BY <2>1 DEF D!vars, D!notifyVars, D!etcdVars, D!engineVars, SdIInv, SdTypeOK, SdSound,
           SdControlOf,
                SdAnsweredOf, SdRefreshedOf, D!Over, D!LostLease, SdLease
  <2>2. ASSUME NEW n \in Services, D!Step(n) \/ D!Fault(n) PROVE SdIInv'
    BY <2>2, SdEtcdAppliesIInv, SdLoopIInv, SdReturnsIInv, SdGivesUpIInv, SdCrashIInv, SdRestartIInv
       DEF D!Step, D!Fault
  <2>3. ASSUME NEW n \in Services, NEW value \in Values, D!Update(n, value) PROVE SdIInv'
    BY <2>3, SdUpdateIInv
  <2>4. CASE D!LatePut
    BY <2>4, SdLatePutIInv
  <2>5. CASE D!ExpireOrphan \/ D!ExpireHeld
    <3>1. PICK lease \in leases : D!Expires(lease)
      BY <2>5 DEF D!ExpireOrphan, D!ExpireHeld
    <3>2. budget' \in [updates : Nat, faults : Nat, late : Nat]
      BY <2>5, SdSpendLemma DEF SdIInv, D!ExpireOrphan, D!ExpireHeld, SdTypeOK
    <3> QED
      BY <3>1, <3>2, SdExpiresIInv
  <2>6. CASE (\E n \in Services : D!Stop(n)) \/ D!Poll \/ D!StopEngine
    BY <2>6, SdOtherIInv
  <2> QED
    BY <2>1, <2>2, <2>3, <2>4, <2>5, <2>6 DEF D!Next
<1> QED
  BY <1>1, SdInitIInv, PTL DEF D!Spec

\* A Notify that only keeps its lease alive has its latest value in etcd, under
\* that lease, whatever calls were lost, late or overtaken before (init, refresh
\* and update of SD::Notify).
THEOREM RefreshedIsPublishedHolds == D!Spec => []RefreshedIsPublished
<1>1. SdIInv => RefreshedIsPublished
  BY DEF SdIInv, SdSound, SdRefreshedOf, RefreshedIsPublished, Over, LostLease, NoLease, D!Over,
         D!LostLease, D!NoLease
<1> QED
  BY <1>1, SdInvariant, PTL

-----------------------------------------------------------------------------
\* No step leaves a key behind when its lease ends, or puts one under a lease
\* that is gone.
LEMMA SdLeasedStep == ASSUME SdIInv, SdLeased, [D!Next]_(D!vars) PROVE SdLeased'
<1> USE DEF SdIInv
<1>1. ASSUME kv' = kv, leases \subseteq leases' PROVE SdLeased'
  BY <1>1 DEF SdLeased, D!NoKey
<1>2. ASSUME NEW n \in Services, NEW value, NEW lease, leases' = leases,
             kv' = D!Put(n, value, lease)
      PROVE  SdLeased'
  BY <1>2 DEF SdLeased, D!Put, SdTypeOK, D!NoKey
<1>3. ASSUME NEW lease, kv' = D!Without(lease), leases' = leases \ {lease}
      PROVE  SdLeased'
  BY <1>3 DEF SdLeased, D!Without, D!NoKey
<1>4. ASSUME NEW n \in Services, D!EtcdApplies(n) PROVE SdLeased'
  <2>1. CASE pc[n] = "put"
    BY <1>2, <1>4, <2>1 DEF D!EtcdApplies
  <2>2. CASE pc[n] = "drop"
    BY <1>1, <1>3, <1>4, <2>2 DEF D!EtcdApplies
  <2>3. CASE pc[n] \notin {"put", "drop"}
    BY <1>1, <1>4, <2>3 DEF D!EtcdApplies
  <2> QED
    BY <2>1, <2>2, <2>3
<1>5. CASE D!LatePut
  <2>1. PICK p \in late : kv' = D!Put(p.key, p.value, p.lease)
    BY <1>5 DEF D!LatePut
  <2>2. p.key \in Services
    BY DEF SdTypeOK
  <2> QED
    BY <1>2, <1>5, <2>1, <2>2 DEF D!LatePut
<1>6. CASE D!ExpireOrphan \/ D!ExpireHeld
  BY <1>3, <1>6 DEF D!ExpireOrphan, D!ExpireHeld, D!Expires
<1>7. ASSUME \/ UNCHANGED D!vars \/ D!Poll \/ D!StopEngine
             \/ \E n \in Services : \/ D!Loop(n) \/ D!Returns(n) \/ D!Fault(n) \/ D!Stop(n)
                                    \/ \E value \in Values : D!Update(n, value)
      PROVE  kv' = kv /\ leases' = leases
  BY <1>7 DEF D!vars, D!etcdVars, D!Poll, D!StopEngine, D!Loop, D!Returns, D!Fault,
         D!GivesUp, D!Crash, D!Restart,
              D!Stop, D!Update
<1> QED
  BY <1>1, <1>4, <1>5, <1>6, <1>7 DEF D!Next, D!Step

\* What a service uses after a step it used before, unless it is the lease that
\* etcd has just granted to it.
LEMMA SdUsesStep ==
  ASSUME SdIInv, [D!Next]_(D!vars), NEW k \in Services, NEW lease \in Nat, SdUses(k, lease)'
  PROVE  \/ SdUses(k, lease)
         \/ lease = granted + 1 /\ granted' = lease /\ pc[k] = "create" /\ D!EtcdApplies(k)
<1> USE DEF SdIInv
<1>1. ASSUME m_Lease'[k] = m_Lease[k], sLease'[k] = sLease[k], late' \subseteq late,
             kv'[k].lease \in {kv[k].lease, D!NoLease} \/ SdUses(k, kv'[k].lease)
      PROVE  SdUses(k, lease)
  BY <1>1 DEF SdUses
<1>2. ASSUME NEW n \in Services, D!EtcdApplies(n)
      PROVE  \/ SdUses(k, lease)
             \/ lease = granted + 1 /\ granted' = lease /\ pc[k] = "create" /\ D!EtcdApplies(k)
  <2>0. m_Lease' = m_Lease /\ late' = late
    BY <1>2 DEF D!EtcdApplies
  <2>1. CASE pc[n] = "create"
    <3>1. /\ granted' = granted + 1 /\ sLease' = [sLease EXCEPT ![n] = granted + 1]
          /\ kv' = kv
      BY <1>2, <2>1 DEF D!EtcdApplies
    <3>2. CASE k = n
      <4>1. sLease'[k] = granted + 1
        BY <3>1, <3>2 DEF SdTypeOK
      <4> QED
        BY <1>2, <2>0, <2>1, <3>1, <3>2, <4>1 DEF SdUses
    <3>3. CASE k # n
      <4>1. sLease'[k] = sLease[k]
        BY <3>1, <3>3 DEF SdTypeOK
      <4> QED
        BY <1>1, <2>0, <3>1, <4>1
    <3> QED
      BY <3>2, <3>3
  <2>2. CASE pc[n] = "put"
    <3>1. kv' = D!Put(n, sValue[n], sLease[n]) /\ sLease' = sLease
      BY <1>2, <2>2 DEF D!EtcdApplies
    <3>2. kv'[k].lease = kv[k].lease \/ kv'[k].lease = sLease[k]
      BY <3>1 DEF D!Put, SdTypeOK
    <3>3. kv'[k].lease = kv[k].lease \/ kv'[k].lease = D!NoLease \/ SdUses(k, kv'[k].lease)
      BY <3>2 DEF SdUses
    <3> QED
      BY <1>1, <2>0, <3>1, <3>3
  <2>3. CASE pc[n] = "keep"
    BY <1>1, <1>2, <2>0, <2>3 DEF D!EtcdApplies
  <2>4. CASE pc[n] = "drop"
    <3>1. sLease' = sLease /\ (kv' = D!Without(m_Lease[n]) \/ kv' = kv)
      BY <1>2, <2>4 DEF D!EtcdApplies
    <3>2. kv'[k].lease \in {kv[k].lease, D!NoLease}
      BY <3>1 DEF D!Without, D!NoKey
    <3> QED
      BY <1>1, <2>0, <3>1, <3>2
  <2> QED
    BY <1>2, <2>1, <2>2, <2>3, <2>4 DEF D!EtcdApplies
<1>3. CASE D!LatePut
  <2>1. PICK p \in late : kv' = D!Put(p.key, p.value, p.lease) /\ late' = late \ {p}
    BY <1>3 DEF D!LatePut
  <2>2. p.key \in Services
    BY DEF SdTypeOK
  <2>3. kv'[k].lease = kv[k].lease \/ (k = p.key /\ kv'[k].lease = p.lease)
    BY <2>1, <2>2 DEF D!Put, SdTypeOK
  <2>4. kv'[k].lease = kv[k].lease \/ kv'[k].lease = D!NoLease \/ SdUses(k, kv'[k].lease)
    BY <2>3 DEF SdUses
  <2>5. m_Lease' = m_Lease /\ sLease' = sLease
    BY <1>3 DEF D!LatePut, D!notifyVars
  <2> QED
    BY <1>1, <2>1, <2>4, <2>5
<1>4. CASE D!ExpireOrphan \/ D!ExpireHeld
  <2>1. PICK x \in leases : D!Expires(x)
    BY <1>4 DEF D!ExpireOrphan, D!ExpireHeld
  <2>2. kv'[k].lease \in {kv[k].lease, D!NoLease}
    BY <2>1 DEF D!Expires, D!Without, D!NoKey
  <2> QED
    BY <1>1, <2>1, <2>2 DEF D!Expires, D!notifyVars
<1>5. ASSUME NEW n \in Services, D!Loop(n) \/ D!Returns(n) \/ D!GivesUp(n) \/ D!Crash(n)
      PROVE  SdUses(k, lease)
  <2>0. kv' = kv
    BY <1>5 DEF D!Loop, D!Returns, D!GivesUp, D!Crash, D!etcdVars
  <2>1. m_Lease'[k] \in {m_Lease[k], sLease[k], D!NoLease}
    BY <1>5 DEF SdTypeOK, D!Loop, D!Returns, D!GivesUp, D!Crash, D!Ends, D!PutAnswered, D!Caught
  <2>2. sLease'[k] \in {m_Lease[k], sLease[k], D!NoLease}
    BY <1>5 DEF SdTypeOK, D!Loop, D!Returns, D!GivesUp, D!Crash, D!Ends, D!CallsPut, D!InitOver
  <2>3. ASSUME NEW p \in late', p.key = k, p.lease = lease PROVE SdUses(k, lease)
    <3>1. p \in late \/ p = [key |-> n, value |-> sValue[n], lease |-> sLease[n]]
      BY <1>5, <2>3 DEF D!Loop, D!Returns, D!GivesUp, D!Crash, D!Abandons, D!etcdVars
    <3> QED
      BY <2>3, <3>1 DEF SdUses
  <2> QED
    BY <2>0, <2>1, <2>2, <2>3 DEF SdUses
<1>6. ASSUME \/ UNCHANGED D!vars \/ D!Poll \/ D!StopEngine
             \/ \E n \in Services : \/ D!Restart(n) \/ D!Stop(n)
                                    \/ \E value \in Values : D!Update(n, value)
      PROVE  m_Lease' = m_Lease /\ sLease' = sLease /\ kv' = kv /\ late' = late
  BY <1>6 DEF D!vars, D!notifyVars, D!etcdVars, D!Poll, D!StopEngine, D!Restart, D!Stop,
         D!Update
<1>7. ASSUME \/ UNCHANGED D!vars \/ D!Poll \/ D!StopEngine
             \/ \E n \in Services : \/ D!Restart(n) \/ D!Stop(n)
                                    \/ \E value \in Values : D!Update(n, value)
      PROVE  SdUses(k, lease)
  BY <1>1, <1>6, <1>7
<1> QED
  BY <1>2, <1>3, <1>4, <1>5, <1>7 DEF D!Next, D!Step, D!Fault

\* Leases are numbered as they are granted, so nobody uses one to come.
LEMMA SdUsesGranted == ASSUME SdIInv, NEW n \in Services, NEW lease, SdUses(n, lease)
                     PROVE  lease \in 1 .. granted
BY DEF SdIInv, SdTypeOK, SdUses, SdLease, D!NoLease

\* A new lease is given to one service only, and no service gets hold of another's.
LEMMA SdExclusiveStep == ASSUME SdIInv, SdExclusive, [D!Next]_(D!vars) PROVE SdExclusive'
<1> SUFFICES ASSUME NEW lease \in 1 .. granted', NEW n \in Services, NEW k \in Services,
                    SdUses(n, lease)', SdUses(k, lease)', n # k
             PROVE  FALSE
  BY DEF SdExclusive
<1>0. granted \in Nat /\ granted' \in {granted, granted + 1}
  <2>1. granted \in Nat
    BY DEF SdIInv, SdTypeOK
  <2>2. ASSUME NEW x \in Services, D!EtcdApplies(x) PROVE granted' \in {granted, granted + 1}
    BY <2>2 DEF D!EtcdApplies
  <2>3. ASSUME NEW x \in Services, D!Loop(x) \/ D!Returns(x) \/ D!Fault(x) \/ D!Stop(x)
                                   \/ \E value \in Values : D!Update(x, value)
        PROVE granted' = granted
    BY <2>3 DEF D!Loop, D!Returns, D!Fault, D!GivesUp, D!Crash, D!Restart, D!Stop,
           D!Update, D!etcdVars
  <2>4. ASSUME \/ UNCHANGED D!vars \/ D!Poll \/ D!StopEngine
               \/ D!LatePut \/ D!ExpireOrphan \/ D!ExpireHeld
        PROVE granted' = granted
    BY <2>4 DEF D!vars, D!etcdVars, D!Poll, D!StopEngine, D!LatePut, D!ExpireOrphan,
           D!ExpireHeld, D!Expires
  <2> QED
    BY <2>1, <2>2, <2>3, <2>4 DEF D!Next, D!Step
<1>1. lease \in Nat
  BY <1>0
<1>2. SdUses(n, lease) \/ (lease = granted + 1 /\ pc[n] = "create" /\ D!EtcdApplies(n))
  BY <1>1, SdUsesStep
<1>3. SdUses(k, lease) \/ (lease = granted + 1 /\ pc[k] = "create" /\ D!EtcdApplies(k))
  BY <1>1, SdUsesStep
<1>4. CASE SdUses(n, lease) /\ SdUses(k, lease)
  BY <1>4, SdUsesGranted DEF SdExclusive
<1>5. CASE SdUses(n, lease) /\ lease = granted + 1
  BY <1>0, <1>5, SdUsesGranted
<1>6. CASE SdUses(k, lease) /\ lease = granted + 1
  BY <1>0, <1>6, SdUsesGranted
<1>7. CASE /\ pc[n] = "create" /\ D!EtcdApplies(n) /\ pc[k] = "create" /\ D!EtcdApplies(k)
  <2>1. /\ sLease' = [sLease EXCEPT ![n] = granted + 1]
        /\ sLease' = [sLease EXCEPT ![k] = granted + 1]
    BY <1>7 DEF D!EtcdApplies
  <2>2. sLease[k] = granted + 1
    BY <2>1 DEF SdIInv, SdTypeOK
  <2> QED
    BY <1>0, <2>2 DEF SdIInv, SdTypeOK, SdLease
<1> QED
  BY <1>2, <1>3, <1>4, <1>5, <1>6, <1>7

\* No key outlives the lease it was put under, and no two services ever use the
\* same lease, also by puts that were given up and arrive late.
THEOREM LeasesHold == D!Spec => [](SdLeased /\ SdExclusive)
<1>1. D!Init => SdLeased /\ SdExclusive
  BY DEF D!Init, SdLeased, SdExclusive
<1>2. SdIInv /\ SdLeased /\ SdExclusive /\ [D!Next]_(D!vars) => SdLeased' /\ SdExclusive'
  BY SdLeasedStep, SdExclusiveStep
<1> QED
  BY <1>1, <1>2, SdInvariant, PTL DEF D!Spec

\* What a service that stopped or crashed has left in etcd, in whatever order its
\* calls, the ones it gave up and its end came, is under a lease that lives and that no
\* running service refreshes: it is gone as soon as that lease expires.
THEOREM GoneIsOrphanedHolds == D!Spec => []SdGoneIsOrphaned
<1>1. SdIInv /\ SdLeased /\ SdExclusive => SdGoneIsOrphaned
  <2> SUFFICES ASSUME SdIInv, SdLeased, SdExclusive, NEW n \in Services, D!Over(n), kv[n] # D!NoKey,
                      D!Held(kv[n].lease)
               PROVE  FALSE
    BY DEF SdGoneIsOrphaned, SdLeased
  <2>1. PICK k \in Services : ~D!Over(k) /\ kv[n].lease \in {m_Lease[k], sLease[k]}
    BY DEF D!Held
  <2>2. kv[n].lease \in 1 .. granted
    BY DEF SdLeased, SdIInv, SdTypeOK
  <2>3. SdUses(n, kv[n].lease) /\ SdUses(k, kv[n].lease)
    BY <2>1, <2>2 DEF SdUses, D!NoLease
  <2> QED
    BY <2>1, <2>2, <2>3 DEF SdExclusive
<1> QED
  BY <1>1, SdInvariant, LeasesHold, PTL
=============================================================================

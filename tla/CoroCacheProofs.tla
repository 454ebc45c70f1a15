--------------------------- MODULE CoroCacheProofs ---------------------------
(***************************************************************************)
(* The safety of CoroCache for every set of keys, every deadline and every *)
(* size of the cache.  Listed: m_List holds the newest WaitData in the     *)
(* order they were made, which are the ones m_Waiters refers to and the    *)
(* ones without a value.  OneCoro: there is at most one Coro(), and it     *)
(* works on the first of m_List.  Order: what has been returned for a key  *)
(* is not newer than what waits to be returned, the cache or the handler   *)
(* that has read the source.  Waiting: what a Get that waits will return   *)
(* is good for it.                                                         *)
(***************************************************************************)
EXTENDS CoroCache, TLAPS, SequenceTheorems

Entries == [value : Nat, created_at : Nat, early_refresh : BOOLEAN]
Elements == [key : AllKeys, value : Entries]
WaitDatas == [key : AllKeys, value : Nat \cup {-1}, stamp : Nat]
Frames == [of : Nat, at : {"posted", "called", "read"}, value : Nat \cup {-1}, stamp : Nat]

\* What a Get has been through; one that returned has returned something good.
Idle == [at |-> "idle"]
Good == [at |-> "done", fresh |-> TRUE, older |-> FALSE]
Suspended == [at : {"waiting", "posted"}, ptr : Nat, since : Nat, floor : Nat \cup {-1}]

TypeOK ==
  /\ m_Lru \in Seq(Elements)
  /\ m_Waiters \in [AllKeys -> Nat]
  /\ m_List \in Seq(Nat)
  /\ waits \in Seq(WaitDatas)
  /\ coros \in SUBSET Frames
  /\ get \in [Gets -> {Idle, Good} \cup Suspended]
  /\ now \in Nat /\ source \in Nat /\ puts \in Nat /\ throws \in Nat
  /\ returned \in [AllKeys -> Nat \cup {-1}]
  /\ slow \in BOOLEAN
  /\ raced \in SUBSET AllKeys

\* m_Index is a function of m_Lru, and the cache keeps to its size.
Indexed(lru) == \A i, j \in 1..Len(lru) : lru[i].key = lru[j].key => i = j
CacheOK == Indexed(m_Lru) /\ Len(m_Lru) <= MaxSize

\* The WaitData 1 .. Served have their values.
Served == Len(waits) - Len(m_List)
Listed ==
  /\ Served >= 0
  /\ \A i \in 1..Len(m_List) : m_List[i] = Served + i
  /\ \A d \in 1..Len(waits) : d > Served => waits[d].value = -1 /\ m_Waiters[waits[d].key] = d
  /\ \A k \in AllKeys : m_Waiters[k] # None =>
       /\ Served < m_Waiters[k] /\ m_Waiters[k] <= Len(waits)
       /\ waits[m_Waiters[k]].key = k

OneCoro ==
  /\ \A f, h \in coros : f = h
  /\ coros # {} => m_List # <<>>
  /\ \A f \in coros : /\ f.at # "posted" => f.of = Served + 1
                      /\ f.at = "read" => f.value \in Nat

\* Nothing returned for the key, or ready to be, is newer than v.
Upto(k, v) ==
  /\ returned[k] <= v
  /\ \A d \in 1..Len(waits) : waits[d].key = k => waits[d].value <= v
CachedUpto(k, v) == \A i \in 1..Len(m_Lru) : m_Lru[i].key = k => m_Lru[i].value.value <= v
Order ==
  \A k \in AllKeys \ raced :
    /\ Upto(k, source) /\ CachedUpto(k, source)
    /\ \A i \in 1..Len(m_Lru) : m_Lru[i].key = k => Upto(k, m_Lru[i].value.value)
    /\ \A f \in coros : f.at = "read" /\ waits[f.of].key = k =>
         Upto(k, f.value) /\ CachedUpto(k, f.value) /\ f.value <= source

WaitingOf(g) ==
  LET w == get[g] IN
    w.at \in {"waiting", "posted"} =>
      /\ 1 <= w.ptr /\ w.ptr <= Len(waits) /\ w.since <= now
      /\ w.at = "waiting" => Served < w.ptr /\ w.floor <= returned[waits[w.ptr].key]
      /\ w.at = "posted" =>
           /\ w.ptr <= Served
           /\ slow \/ waits[w.ptr].stamp + Deadline > w.since
           /\ waits[w.ptr].key \in raced \/ w.floor <= waits[w.ptr].value
Waiting == \A g \in Gets : WaitingOf(g)

IInv == TypeOK /\ CacheOK /\ Listed /\ OneCoro /\ Order /\ Waiting

-----------------------------------------------------------------------------
(* The list of an LRU.                                                     *)

\* Remove takes out the element of the key and keeps the others in their order.
LEMMA RemoveFacts ==
  ASSUME NEW lru \in Seq(Elements), Indexed(lru), NEW key \in L!Keys(lru)
  PROVE  /\ L!Find(lru, key) \in 1..Len(lru) /\ lru[L!Find(lru, key)].key = key
         /\ L!Remove(lru, key) \in Seq(Elements)
         /\ Len(L!Remove(lru, key)) = Len(lru) - 1
         /\ Indexed(L!Remove(lru, key))
         /\ \A i \in 1..(Len(lru) - 1) :
              /\ L!Remove(lru, key)[i].key # key
              /\ \E j \in 1..Len(lru) : L!Remove(lru, key)[i] = lru[j]
<1> DEFINE f == L!Find(lru, key)
           a == SubSeq(lru, 1, f - 1)
           b == SubSeq(lru, f + 1, Len(lru))
           r == L!Remove(lru, key)
<1>1. Len(lru) \in Nat /\ DOMAIN lru = 1..Len(lru) /\ \A i \in 1..Len(lru) : lru[i] \in Elements
  BY LenProperties, ElementOfSeq
<1>2. f \in 1..Len(lru) /\ lru[f].key = key
  BY <1>1 DEF L!Find, L!Keys
<1> HIDE DEF f
<1>3. /\ a \in Seq(Elements) /\ Len(a) = f - 1
      /\ \A i \in 1..(f - 1) : a[i] = lru[i]
  <2>1. f - 1 \in Int /\ \A i \in 1..(f - 1) : lru[i] \in Elements
    BY <1>1, <1>2
  <2>2. /\ a \in Seq(Elements) /\ Len(a) = (IF 1 <= f - 1 THEN f - 1 - 1 + 1 ELSE 0)
        /\ \A i \in 1..(f - 1 - 1 + 1) : a[i] = lru[1 + i - 1]
    BY <2>1, SubSeqProperties
  <2> QED
    BY <1>1, <1>2, <2>2
<1>4. /\ b \in Seq(Elements) /\ Len(b) = Len(lru) - f
      /\ \A i \in 1..(Len(lru) - f) : b[i] = lru[f + i]
  <2>1. f + 1 \in Int /\ Len(lru) \in Int /\ \A i \in (f + 1)..Len(lru) : lru[i] \in Elements
    BY <1>1, <1>2
  <2>2. /\ b \in Seq(Elements)
        /\ Len(b) = (IF f + 1 <= Len(lru) THEN Len(lru) - (f + 1) + 1 ELSE 0)
        /\ \A i \in 1..(Len(lru) - (f + 1) + 1) : b[i] = lru[f + 1 + i - 1]
    BY <2>1, SubSeqProperties
  <2> HIDE DEF b
  <2>3. Len(b) = Len(lru) - f
    <3>1. Len(b) = IF f + 1 <= Len(lru) THEN Len(lru) - (f + 1) + 1 ELSE 0
      BY <2>2
    <3>2. f \in Int /\ Len(lru) \in Int /\ f <= Len(lru)
      BY <1>1, <1>2
    <3> QED
      BY <3>1, <3>2
  <2>4. \A i \in 1..(Len(lru) - f) : i \in 1..(Len(lru) - (f + 1) + 1) /\ f + 1 + i - 1 = f + i
    BY <1>1, <1>2
  <2> QED
    BY <2>2, <2>3, <2>4
<1>5. r = a \o b
  BY DEF L!Remove, f
<1> HIDE DEF a, b, r
<1>6. /\ r \in Seq(Elements) /\ Len(r) = Len(lru) - 1
      /\ \A i \in 1..(Len(lru) - 1) : r[i] = IF i < f THEN lru[i] ELSE lru[i + 1]
  <2>1. /\ r \in Seq(Elements) /\ Len(r) = Len(a) + Len(b)
        /\ \A i \in 1..(Len(a) + Len(b)) : r[i] = IF i <= Len(a) THEN a[i] ELSE b[i - Len(a)]
    BY <1>3, <1>4, <1>5, ConcatProperties
  <2>2. Len(a) + Len(b) = Len(lru) - 1
    BY <1>1, <1>2, <1>3, <1>4
  <2>3. ASSUME NEW i \in 1..(Len(lru) - 1)
        PROVE  r[i] = IF i < f THEN lru[i] ELSE lru[i + 1]
    <3>0. r[i] = IF i <= f - 1 THEN a[i] ELSE b[i - (f - 1)]
      BY <1>3, <2>1, <2>2
    <3>1. CASE i < f
      <4>1. i \in 1..(f - 1) /\ i <= f - 1
        BY <1>1, <1>2, <3>1
      <4> QED
        BY <1>3, <3>0, <3>1, <4>1
    <3>2. CASE i >= f
      <4>1. i - (f - 1) \in 1..(Len(lru) - f) /\ ~(i <= f - 1) /\ f + (i - (f - 1)) = i + 1
        BY <1>1, <1>2, <3>2
      <4>2. b[i - (f - 1)] = lru[i + 1]
        BY <1>4, <4>1
      <4>3. ~(i < f)
        BY <1>1, <1>2, <3>2
      <4> QED
        BY <3>0, <4>1, <4>2, <4>3
    <3> QED
      BY <1>1, <1>2, <3>1, <3>2
  <2> QED
    BY <2>1, <2>2, <2>3
<1>7. Indexed(r)
  BY <1>1, <1>2, <1>6 DEF Indexed
<1>8. ASSUME NEW i \in 1..(Len(lru) - 1)
      PROVE  r[i].key # key /\ \E j \in 1..Len(lru) : r[i] = lru[j]
  BY <1>1, <1>2, <1>6 DEF Indexed
<1> QED
  BY <1>2, <1>6, <1>7, <1>8 DEF r, f

\* A new element in front.
LEMMA InsertFacts ==
  ASSUME NEW lru \in Seq(Elements), Indexed(lru), NEW e \in Elements,
         \A i \in 1..Len(lru) : lru[i].key # e.key
  PROVE  /\ <<e>> \o lru \in Seq(Elements)
         /\ Len(<<e>> \o lru) = Len(lru) + 1
         /\ Indexed(<<e>> \o lru)
         /\ (<<e>> \o lru)[1] = e
         /\ \A i \in 2..(Len(lru) + 1) :
              (<<e>> \o lru)[i].key # e.key /\ \E j \in 1..Len(lru) : (<<e>> \o lru)[i] = lru[j]
<1> DEFINE r == <<e>> \o lru
<1>1. Len(lru) \in Nat
  BY LenProperties
<1>2. <<e>> \in Seq(Elements) /\ Len(<<e>>) = 1 /\ <<e>>[1] = e
  OBVIOUS
<1>3. /\ r \in Seq(Elements) /\ Len(r) = 1 + Len(lru)
      /\ \A i \in 1..(1 + Len(lru)) : r[i] = IF i <= 1 THEN <<e>>[i] ELSE lru[i - 1]
  BY <1>2, ConcatProperties
<1> HIDE DEF r
<1>4. r[1] = e /\ \A i \in 2..(Len(lru) + 1) : r[i] = lru[i - 1] /\ i - 1 \in 1..Len(lru)
  BY <1>1, <1>2, <1>3
<1>5. Indexed(r)
  <2> SUFFICES ASSUME NEW i \in 1..Len(r), NEW j \in 1..Len(r), r[i].key = r[j].key
               PROVE  i = j
    BY DEF Indexed
  <2>1. /\ i = 1 \/ (i \in 2..(Len(lru) + 1) /\ r[i] = lru[i - 1] /\ i - 1 \in 1..Len(lru))
        /\ j = 1 \/ (j \in 2..(Len(lru) + 1) /\ r[j] = lru[j - 1] /\ j - 1 \in 1..Len(lru))
    BY <1>1, <1>3, <1>4
  <2>2. CASE i = 1 \/ j = 1
    BY <1>4, <2>1, <2>2
  <2>3. CASE i # 1 /\ j # 1
    <3>1. i - 1 = j - 1
      BY <2>1, <2>3 DEF Indexed
    <3> QED
      BY <1>1, <2>1, <2>3, <3>1
  <2> QED
    BY <2>2, <2>3
<1> QED
  BY <1>1, <1>3, <1>4, <1>5 DEF r

\* Put: the new value under its key, the others as they were, and not too many.
LEMMA PutFacts ==
  ASSUME NEW lru \in Seq(Elements), Indexed(lru), NEW size \in Nat, Len(lru) <= size,
         NEW key \in AllKeys, NEW x \in Entries
  PROVE  /\ L!Put(lru, key, x, size) \in Seq(Elements)
         /\ Indexed(L!Put(lru, key, x, size))
         /\ Len(L!Put(lru, key, x, size)) <= size
         /\ \A i \in 1..Len(L!Put(lru, key, x, size)) :
              \/ L!Put(lru, key, x, size)[i] = [key |-> key, value |-> x]
              \/ /\ L!Put(lru, key, x, size)[i].key # key
                 /\ \E j \in 1..Len(lru) : L!Put(lru, key, x, size)[i] = lru[j]
<1> DEFINE e == [key |-> key, value |-> x]
           new == L!Put(lru, key, x, size)
<1>1. Len(lru) \in Nat /\ DOMAIN lru = 1..Len(lru)
  BY LenProperties
<1>2. e \in Elements /\ e.key = key
  BY DEF Elements
<1> HIDE DEF e
<1>3. CASE key \in L!Keys(lru)
  <2> DEFINE r == L!Remove(lru, key)
  <2>1. /\ r \in Seq(Elements) /\ Len(r) = Len(lru) - 1 /\ Indexed(r)
        /\ \A i \in 1..(Len(lru) - 1) : r[i].key # key /\ \E j \in 1..Len(lru) : r[i] = lru[j]
    BY <1>3, RemoveFacts
  <2>2. new = <<e>> \o r
    BY <1>3 DEF L!Put, L!Insert, e
  <2> HIDE DEF r, new
  <2>5. \A i \in 1..Len(r) : r[i].key # e.key
    BY <1>2, <2>1
  <2>3. /\ new \in Seq(Elements) /\ Len(new) = Len(r) + 1 /\ Indexed(new) /\ new[1] = e
        /\ \A i \in 2..(Len(r) + 1) : new[i].key # e.key /\ \E j \in 1..Len(r) : new[i] = r[j]
    <3> DEFINE s == <<e>> \o r
    <3>0. r \in Seq(Elements) /\ Indexed(r) /\ e \in Elements
      BY <1>2, <2>1
    <3>1. /\ s \in Seq(Elements) /\ Len(s) = Len(r) + 1 /\ Indexed(s) /\ s[1] = e
          /\ \A i \in 2..(Len(r) + 1) : s[i].key # e.key /\ \E j \in 1..Len(r) : s[i] = r[j]
      BY <2>5, <3>0, InsertFacts
    <3>2. new = s
      BY <2>2
    <3> HIDE DEF s
    <3> QED
      BY <3>1, <3>2
  <2>4. ASSUME NEW i \in 1..Len(new), i # 1
        PROVE  new[i].key # key /\ \E j \in 1..Len(lru) : new[i] = lru[j]
    <3>1. i \in 2..(Len(r) + 1)
      BY <1>1, <2>1, <2>3, <2>4
    <3> QED
      BY <1>2, <2>1, <2>3, <3>1
  <2> QED
    BY <1>1, <2>1, <2>3, <2>4 DEF new, e
<1>4. CASE key \notin L!Keys(lru)
  <2> DEFINE r == <<e>> \o lru
  <2>1. \A i \in 1..Len(lru) : lru[i].key # key
    BY <1>1, <1>4 DEF L!Keys
  <2>2. /\ r \in Seq(Elements) /\ Len(r) = Len(lru) + 1 /\ Indexed(r) /\ r[1] = e
        /\ \A i \in 2..(Len(lru) + 1) : r[i].key # key /\ \E j \in 1..Len(lru) : r[i] = lru[j]
    BY <1>2, <2>1, InsertFacts
  <2>3. new = IF Len(r) <= size THEN r ELSE L!Remove(r, r[Len(r)].key)
    BY <1>4 DEF L!Put, L!Shrink, L!Insert, e
  <2> HIDE DEF r, new
  <2>4. \A i \in 1..Len(r) : r[i] = e \/ (r[i].key # key /\ \E j \in 1..Len(lru) : r[i] = lru[j])
    BY <1>1, <2>2
  <2>5. CASE Len(r) <= size
    BY <2>2, <2>3, <2>4, <2>5 DEF new, e
  <2>6. CASE ~(Len(r) <= size)
    <3>1. r[Len(r)].key \in L!Keys(r)
      BY <1>1, <2>2, LenProperties DEF L!Keys
    <3>2. /\ new \in Seq(Elements) /\ Len(new) = Len(r) - 1 /\ Indexed(new)
          /\ \A i \in 1..(Len(r) - 1) : \E j \in 1..Len(r) : new[i] = r[j]
      <4> DEFINE k == r[Len(r)].key
                 t == L!Remove(r, k)
      <4>1. r \in Seq(Elements) /\ Indexed(r) /\ k \in L!Keys(r)
        BY <2>2, <3>1
      <4> HIDE DEF k
      <4>2. /\ t \in Seq(Elements) /\ Len(t) = Len(r) - 1 /\ Indexed(t)
            /\ \A i \in 1..(Len(r) - 1) : \E j \in 1..Len(r) : t[i] = r[j]
        BY <4>1, RemoveFacts
      <4>3. new = t
        BY <2>3, <2>6 DEF k
      <4> HIDE DEF t
      <4> QED
        BY <4>2, <4>3
    <3>3. Len(new) <= size
      BY <1>1, <2>2, <3>2
    <3>4. ASSUME NEW i \in 1..Len(new)
          PROVE  new[i] = e \/ (new[i].key # key /\ \E j \in 1..Len(lru) : new[i] = lru[j])
      <4>1. PICK j \in 1..Len(r) : new[i] = r[j]
        BY <3>2
      <4> QED
        BY <2>4, <4>1
    <3> QED
      BY <3>2, <3>3, <3>4 DEF new, e
  <2> QED
    BY <2>5, <2>6
<1> QED
  BY <1>3, <1>4

\* Get changes only the order.
LEMMA GetFacts ==
  ASSUME NEW lru \in Seq(Elements), Indexed(lru), NEW key \in L!Keys(lru)
  PROVE  /\ L!Get(lru, key) \in Seq(Elements)
         /\ Indexed(L!Get(lru, key))
         /\ Len(L!Get(lru, key)) = Len(lru) /\ Len(lru) >= 1
         /\ L!Get(lru, key)[1].key = key /\ L!Get(lru, key)[1].value = L!ValueOf(lru, key)
         /\ \A i \in 1..Len(lru) : \E j \in 1..Len(lru) : L!Get(lru, key)[i] = lru[j]
<1> DEFINE e == lru[L!Find(lru, key)]
           r == L!Remove(lru, key)
           new == L!Get(lru, key)
<1>1. Len(lru) \in Nat
  BY LenProperties
<1>2. /\ L!Find(lru, key) \in 1..Len(lru) /\ e.key = key
      /\ r \in Seq(Elements) /\ Len(r) = Len(lru) - 1 /\ Indexed(r)
      /\ \A i \in 1..(Len(lru) - 1) : r[i].key # key /\ \E j \in 1..Len(lru) : r[i] = lru[j]
  BY RemoveFacts
<1>3. e \in Elements
  BY <1>2, ElementOfSeq
<1>4. new = <<e>> \o r
  BY DEF L!Get, L!Touch
<1>7. \A i \in 1..Len(r) : r[i].key # e.key
  BY <1>2
<1> HIDE DEF r, new
<1>5. /\ new \in Seq(Elements) /\ Len(new) = Len(r) + 1 /\ Indexed(new) /\ new[1] = e
      /\ \A i \in 2..(Len(r) + 1) : \E j \in 1..Len(r) : new[i] = r[j]
  <2> DEFINE s == <<e>> \o r
  <2>0. r \in Seq(Elements) /\ Indexed(r)
    BY <1>2
  <2> HIDE DEF e
  <2>1. /\ s \in Seq(Elements) /\ Len(s) = Len(r) + 1 /\ Indexed(s) /\ s[1] = e
        /\ \A i \in 2..(Len(r) + 1) : s[i].key # e.key /\ \E j \in 1..Len(r) : s[i] = r[j]
    BY <1>3, <1>7, <2>0, InsertFacts
  <2>2. new = s
    BY <1>4
  <2> HIDE DEF s
  <2> QED
    BY <2>1, <2>2
<1>6. ASSUME NEW i \in 1..Len(lru) PROVE \E j \in 1..Len(lru) : new[i] = lru[j]
  <2>1. CASE i = 1
    BY <1>2, <1>5, <2>1
  <2>2. CASE i # 1
    <3>1. i \in 2..(Len(r) + 1)
      BY <1>1, <1>2, <2>2
    <3> QED
      BY <1>2, <1>5, <3>1
  <2> QED
    BY <2>1, <2>2
<1>8. e.value = L!ValueOf(lru, key)
  BY DEF L!ValueOf
<1> QED
  BY <1>1, <1>2, <1>5, <1>6, <1>8 DEF new

-----------------------------------------------------------------------------
\* The state of a Get tells what its record is.
LEMMA GetStates ==
  /\ Idle.at = "idle" /\ Good.at = "done" /\ Good.fresh = TRUE /\ Good.older = FALSE
  /\ \A x \in {Idle, Good} \cup Suspended :
       /\ x.at = "idle" => x = Idle
       /\ x.at = "done" => x = Good
       /\ x.at \in {"waiting", "posted"} => x \in Suspended
BY DEF Idle, Good, Suspended

\* The invariant holds of an empty cache and an idle updater.
LEMMA InitIInv == Init => IInv
<1> SUFFICES ASSUME Init PROVE IInv
  OBVIOUS
<1>1. TypeOK
  BY EmptySeq DEF Init, TypeOK, Idle, None
<1>2. Len(m_Lru) = 0 /\ Len(m_List) = 0 /\ Len(waits) = 0
  BY EmptySeq DEF Init
<1>3. CacheOK
  BY <1>2, CacheAssumption DEF CacheOK, Indexed
<1>4. Listed /\ OneCoro
  BY <1>2 DEF Init, Listed, OneCoro, Served
<1>5. Order
  BY <1>2 DEF Init, Order, Upto, CachedUpto
<1>6. Waiting
  BY GetStates DEF Init, Waiting, WaitingOf, Idle
<1> QED
  BY <1>1, <1>2, <1>3, <1>4, <1>5, <1>6 DEF IInv

\* Some lengths and types that every step needs.
LEMMA Basics ==
  ASSUME IInv
  PROVE  /\ Len(waits) \in Nat /\ Len(m_List) \in Nat /\ Len(m_Lru) \in Nat /\ Served \in Nat
         /\ \A d \in 1..Len(waits) : waits[d] \in WaitDatas
         /\ \A i \in 1..Len(m_Lru) : m_Lru[i] \in Elements
         /\ \A f \in coros : f.at = "read" =>
              f.of \in 1..Len(waits) /\ f.of = Served + 1 /\ m_List # <<>>
<1>1. Len(waits) \in Nat /\ Len(m_List) \in Nat /\ Len(m_Lru) \in Nat
  BY LenProperties DEF IInv, TypeOK
<1>2. Served \in Nat
  BY <1>1 DEF IInv, Listed, Served
<1>3. m_List # <<>> => Len(m_List) >= 1
  BY <1>1, EmptySeq DEF IInv, TypeOK
<1>4. \A f \in coros : f.at = "read" => f.of = Served + 1 /\ m_List # <<>>
  BY DEF IInv, OneCoro
<1>5. m_List # <<>> => Served + 1 \in 1..Len(waits)
  BY <1>1, <1>2, <1>3 DEF Served
<1>6. /\ \A d \in 1..Len(waits) : waits[d] \in WaitDatas
      /\ \A i \in 1..Len(m_Lru) : m_Lru[i] \in Elements
  BY ElementOfSeq DEF IInv, TypeOK
<1> QED
  BY <1>1, <1>2, <1>4, <1>5, <1>6

\* New WaitData may come, the old ones stay as they are.
Grown ==
  /\ Len(waits) <= Len(waits') /\ Len(waits') \in Nat /\ Served' = Served
  /\ \A d \in 1..Len(waits) : waits'[d] = waits[d]
  /\ \A d \in 1..Len(waits') : d > Len(waits) => waits'[d].value = -1

\* The list of the cache has no element that was not in it.
CacheKept ==
  /\ Len(m_Lru') \in Nat
  /\ \A i \in 1..Len(m_Lru') : \E j \in 1..Len(m_Lru) :
       m_Lru'[i].key = m_Lru[j].key /\ m_Lru'[i].value.value = m_Lru[j].value.value

\* A value not newer than what the cache, the handler and the source have.
Safe(k, v) ==
  /\ v <= source
  /\ \A i \in 1..Len(m_Lru) : m_Lru[i].key = k => v <= m_Lru[i].value.value
  /\ \A f \in coros : f.at = "read" /\ waits[f.of].key = k => v <= f.value

\* The order of values is kept where safe values are returned.
LEMMA OrderKept ==
  ASSUME IInv, Grown, CacheKept, raced' = raced, source' >= source, source' \in Nat,
         \A f \in coros' : f.at = "read" => f \in coros,
         \A k \in AllKeys \ raced : returned'[k] \in Nat \cup {-1} /\ Safe(k, returned'[k])
  PROVE  Order'
<1> USE DEF IInv
<1> SUFFICES ASSUME NEW k \in AllKeys \ raced
             PROVE  /\ Upto(k, source)' /\ CachedUpto(k, source)'
                    /\ \A i \in 1..Len(m_Lru') : m_Lru'[i].key = k => Upto(k, m_Lru[i].value.value)'
                    /\ \A f \in coros' : f.at = "read" /\ waits'[f.of].key = k =>
                         Upto(k, f.value)' /\ CachedUpto(k, f.value)' /\ f.value <= source'
  BY DEF Order
<1>1. /\ Upto(k, source) /\ CachedUpto(k, source) /\ Safe(k, returned'[k])
      /\ \A i \in 1..Len(m_Lru) : m_Lru[i].key = k => Upto(k, m_Lru[i].value.value)
      /\ \A f \in coros : f.at = "read" /\ waits[f.of].key = k =>
                         Upto(k, f.value) /\ CachedUpto(k, f.value) /\ f.value <= source
  BY DEF Order
<1>2. ASSUME NEW v \in Nat, Upto(k, v), returned'[k] <= v
      PROVE  \A d \in 1..Len(waits') : waits'[d].key = k => waits'[d].value <= v
  BY <1>2, Basics DEF Upto, Grown
<1>3. ASSUME NEW v, CachedUpto(k, v)
      PROVE  \A i \in 1..Len(m_Lru') : m_Lru'[i].key = k => m_Lru'[i].value.value <= v
  BY <1>3 DEF CachedUpto, CacheKept
<1>4. source \in Nat /\ \A i \in 1..Len(m_Lru) : m_Lru[i].value.value \in Nat
  BY Basics DEF TypeOK, Elements, Entries
<1>5. Upto(k, source)' /\ CachedUpto(k, source)'
  <2>1. returned'[k] <= source'
    BY <1>1, <1>4 DEF Safe
  <2>2. \A d \in 1..Len(waits') : waits'[d].key = k => waits'[d].value <= source
    BY <1>1, <1>2, <1>4 DEF Safe
  <2>3. \A d \in 1..Len(waits') : waits'[d].value \in Int
    BY Basics DEF Grown, WaitDatas
  <2>4. \A d \in 1..Len(waits') : waits'[d].key = k => waits'[d].value <= source'
    BY <1>4, <2>2, <2>3
  <2>5. \A i \in 1..Len(m_Lru') : m_Lru'[i].key = k => m_Lru'[i].value.value <= source'
    BY <1>1, <1>3, <1>4 DEF CacheKept
  <2> QED
    BY <2>1, <2>4, <2>5 DEF Upto, CachedUpto
<1>6. ASSUME NEW i \in 1..Len(m_Lru'), m_Lru'[i].key = k
      PROVE  Upto(k, m_Lru[i].value.value)'
  <2>1. PICK j \in 1..Len(m_Lru) :
           m_Lru[j].key = k /\ m_Lru'[i].value.value = m_Lru[j].value.value
    BY <1>6 DEF CacheKept
  <2>2. PICK v \in Nat : v = m_Lru[j].value.value
    BY <1>4
  <2>3. Upto(k, v) /\ returned'[k] <= v
    BY <1>1, <2>1, <2>2 DEF Safe
  <2>4. \A d \in 1..Len(waits') : waits'[d].key = k => waits'[d].value <= v
    BY <1>2, <2>3
  <2> QED
    BY <2>1, <2>2, <2>3, <2>4 DEF Upto
<1>7. ASSUME NEW f \in coros', f.at = "read", waits'[f.of].key = k
      PROVE  Upto(k, f.value)' /\ CachedUpto(k, f.value)' /\ f.value <= source'
  <2>1. f \in coros /\ waits[f.of].key = k /\ f.value \in Nat
    BY <1>7, Basics DEF Grown, OneCoro
  <2>2. Upto(k, f.value) /\ CachedUpto(k, f.value) /\ f.value <= source /\ returned'[k] <= f.value
    BY <1>1, <1>7, <2>1 DEF Safe
  <2>3. \A d \in 1..Len(waits') : waits'[d].key = k => waits'[d].value <= f.value
    BY <1>2, <2>1, <2>2
  <2>4. \A i \in 1..Len(m_Lru') : m_Lru'[i].key = k => m_Lru'[i].value.value <= f.value
    BY <1>3, <2>2
  <2>5. f.value <= source'
    BY <1>4, <2>1, <2>2
  <2> QED
    BY <2>2, <2>3, <2>4, <2>5 DEF Upto, CachedUpto
<1> QED
  BY <1>5, <1>6, <1>7

\* What has been returned already is safe.
LEMMA ReturnedIsSafe ==
  ASSUME IInv, NEW k \in AllKeys \ raced
  PROVE  Safe(k, returned[k])
BY DEF IInv, Order, Upto, Safe

\* A Get that is not concerned by a step goes on waiting for something good.
LEMMA WaitingKept ==
  ASSUME IInv, Grown, now' >= now, now' \in Nat, slow' = slow, raced \subseteq raced',
         \A k \in AllKeys : returned'[k] >= returned[k] /\ returned'[k] \in Int,
         NEW g \in Gets, get'[g] = get[g]
  PROVE  WaitingOf(g)'
<1> USE DEF IInv
<1> SUFFICES ASSUME get[g].at \in {"waiting", "posted"} PROVE WaitingOf(g)'
  BY DEF WaitingOf
<1>1. /\ WaitingOf(g) /\ get[g] \in Suspended
      /\ get[g].ptr \in Nat /\ get[g].since \in Nat /\ get[g].floor \in Int
  BY GetStates DEF Waiting, TypeOK, Suspended
<1>2. PICK d \in 1..Len(waits) : d = get[g].ptr
  BY <1>1, Basics DEF WaitingOf
<1>3. waits'[d] = waits[d] /\ waits[d].key \in AllKeys /\ now \in Nat /\ Len(waits') >= Len(waits)
  BY Basics DEF Grown, WaitDatas, TypeOK
<1>4. returned[waits[d].key] \in Int
  BY <1>3 DEF TypeOK
<1>5. get[g].since <= now' /\ d <= Len(waits')
  BY <1>1, <1>2, <1>3, Basics DEF WaitingOf, Grown
<1>6. get[g].at = "waiting" => get[g].floor <= returned'[waits[d].key]
  BY <1>1, <1>2, <1>3, <1>4 DEF WaitingOf
<1> QED
  BY <1>1, <1>2, <1>3, <1>5, <1>6 DEF WaitingOf, Grown

-----------------------------------------------------------------------------
(* KeyUpdater.                                                             *)

Called(d) == [NoFrame EXCEPT !.of = d, !.at = "called"]

\* The frames that Spawn and the loop of Coro() make.
LEMMA FrameFacts ==
  /\ NoFrame \in Frames /\ NoFrame.at = "posted"
  /\ \A d \in Nat : Called(d) \in Frames /\ Called(d).at = "called" /\ Called(d).of = d
BY DEF NoFrame, Frames, None, Called

\* Schedule finds the WaitData of the key or makes one, which has no value yet.
LEMMA ScheduleFacts ==
  ASSUME IInv, NEW key \in AllKeys, Schedule(key)
  PROVE  /\ m_Waiters' \in [AllKeys -> Nat] /\ m_List' \in Seq(Nat)
         /\ waits' \in Seq(WaitDatas) /\ coros' \in SUBSET Frames
         /\ Grown /\ Listed' /\ OneCoro'
         /\ \A f \in coros' : f.at = "read" => f \in coros
         /\ Scheduled(key) \in 1..Len(waits') /\ Served < Scheduled(key)
         /\ waits'[Scheduled(key)].key = key /\ waits'[Scheduled(key)].value = -1
<1> USE DEF IInv
<1>1. CASE m_Waiters[key] # None /\ UNCHANGED updater
  <2>1. UNCHANGED <<m_Waiters, m_List, waits, coros>>
    BY <1>1 DEF updater
  <2>2. Listed' /\ OneCoro'
    BY <2>1 DEF Listed, OneCoro, Served
  <2>3. Grown
    BY <2>1, Basics DEF Grown, Served
  <2>4. /\ Scheduled(key) = m_Waiters[key] /\ m_Waiters[key] \in Nat
        /\ Served < m_Waiters[key] /\ m_Waiters[key] <= Len(waits)
        /\ waits[m_Waiters[key]].key = key
    BY <1>1 DEF Scheduled, Listed, TypeOK
  <2>5. m_Waiters[key] \in 1..Len(waits)
    BY <2>4, Basics
  <2>6. waits[m_Waiters[key]].value = -1
    BY <2>4, <2>5, Basics DEF Listed
  <2> QED
    BY <2>1, <2>2, <2>3, <2>4, <2>5, <2>6 DEF TypeOK
<1>2. CASE /\ m_Waiters[key] = None
           /\ waits' = Append(waits, [key |-> key, value |-> -1, stamp |-> 0])
           /\ m_Waiters' = [m_Waiters EXCEPT ![key] = Len(waits) + 1]
           /\ m_List' = Append(m_List, Len(waits) + 1)
           /\ coros' = Spawn(m_List, coros)
  <2> DEFINE n == Len(waits) + 1
             new == [key |-> key, value |-> -1, stamp |-> 0]
  <2>1. n \in Nat /\ new \in WaitDatas /\ new.key = key /\ new.value = -1
    BY Basics DEF WaitDatas
  <2> HIDE DEF new
  <2>2. /\ waits' \in Seq(WaitDatas) /\ Len(waits') = n /\ waits'[n] = new
        /\ \A d \in 1..Len(waits) : waits'[d] = waits[d]
    BY <1>2, <2>1, AppendProperties DEF TypeOK, new
  <2>3. /\ m_List' \in Seq(Nat) /\ Len(m_List') = Len(m_List) + 1
        /\ m_List'[Len(m_List) + 1] = n
        /\ \A i \in 1..Len(m_List) : m_List'[i] = m_List[i]
    BY <1>2, <2>1, AppendProperties DEF TypeOK
  <2>4. Served' = Served
    BY <2>2, <2>3, Basics DEF Served
  <2>5. /\ m_Waiters' \in [AllKeys -> Nat] /\ m_Waiters'[key] = n
        /\ \A k \in AllKeys \ {key} : m_Waiters'[k] = m_Waiters[k]
    BY <1>2, <2>1 DEF TypeOK
  <2>6. Grown
    BY <2>1, <2>2, <2>4, Basics DEF Grown
  <2>7. Listed'
    <3>1. ASSUME NEW i \in 1..Len(m_List') PROVE m_List'[i] = Served + i
      <4>1. i \in 1..Len(m_List) \/ i = Len(m_List) + 1
        BY <2>3, Basics
      <4>2. Served + (Len(m_List) + 1) = n
        BY Basics DEF Served
      <4> QED
        BY <2>3, <4>1, <4>2 DEF Listed
    <3>2. ASSUME NEW d \in 1..Len(waits'), d > Served
          PROVE  waits'[d].value = -1 /\ m_Waiters'[waits'[d].key] = d
      <4>1. CASE d = n
        BY <2>1, <2>2, <2>5, <4>1
      <4>2. CASE d # n
        <5>1. d \in 1..Len(waits) /\ d # None
          BY <2>1, <2>2, <4>2, Basics DEF None
        <5>2. /\ waits'[d] = waits[d] /\ waits[d].value = -1 /\ m_Waiters[waits[d].key] = d
              /\ waits[d].key \in AllKeys
          BY <2>2, <3>2, <5>1, Basics DEF Listed, WaitDatas
        <5> QED
          BY <1>2, <2>5, <5>1, <5>2
      <4> QED
        BY <4>1, <4>2
    <3>3. ASSUME NEW k \in AllKeys, m_Waiters'[k] # None
          PROVE  /\ Served < m_Waiters'[k] /\ m_Waiters'[k] <= Len(waits')
                 /\ waits'[m_Waiters'[k]].key = k
      <4>1. CASE k = key
        <5>1. Served < n
          BY Basics DEF Served
        <5> QED
          BY <2>1, <2>2, <2>5, <4>1, <5>1
      <4>2. CASE k # key
        <5>1. /\ m_Waiters'[k] = m_Waiters[k] /\ Served < m_Waiters[k] /\ m_Waiters[k] <= Len(waits)
              /\ waits[m_Waiters[k]].key = k /\ m_Waiters[k] \in Nat
          BY <2>5, <3>3, <4>2 DEF Listed, TypeOK
        <5>2. m_Waiters[k] \in 1..Len(waits)
          BY <5>1, Basics
        <5> QED
          BY <2>1, <2>2, <5>1, <5>2, Basics
      <4> QED
        BY <4>1, <4>2
    <3> QED
      BY <2>4, <3>1, <3>2, <3>3, Basics DEF Listed
  <2>8. /\ coros' \in SUBSET Frames /\ OneCoro'
        /\ \A f \in coros' : f.at = "read" => f \in coros
    <3>1. m_List' # <<>>
      BY <2>3, EmptySeq, Basics
    <3>2. CASE m_List = <<>>
      <4>1. coros' = {NoFrame}
        BY <1>2, <3>2 DEF Spawn, OneCoro
      <4> QED
        BY <3>1, <4>1, FrameFacts DEF OneCoro
    <3>3. CASE m_List # <<>>
      <4>1. coros' = coros
        BY <1>2, <3>3 DEF Spawn
      <4> QED
        BY <2>4, <3>1, <4>1 DEF OneCoro, TypeOK
    <3> QED
      BY <3>2, <3>3
  <2>9. Scheduled(key) = n /\ n \in 1..n /\ Served < n
    BY <1>2, Basics DEF Scheduled, Served
  <2> QED
    BY <2>1, <2>2, <2>3, <2>5, <2>6, <2>7, <2>8, <2>9
<1> QED
  BY <1>1, <1>2 DEF Schedule

\* Steps that leave the WaitData and the cache alone.
LEMMA QuietStep ==
  ASSUME IInv, UNCHANGED <<m_Lru, m_Waiters, m_List, waits, get, returned, slow, raced>>,
         now' \in Nat, now' >= now, source' \in Nat, source' >= source,
         puts' \in Nat, throws' \in Nat,
         coros' \in SUBSET Frames, OneCoro', \A f \in coros' : f.at = "read" => f \in coros
  PROVE  IInv'
<1> USE DEF IInv
<1>1. TypeOK'
  BY DEF TypeOK
<1>2. CacheOK' /\ Listed'
  BY DEF CacheOK, Indexed, Listed, Served
<1>3. Grown /\ CacheKept
  BY Basics DEF Grown, CacheKept, Served
<1>4. Order'
  <2>1. \A k \in AllKeys \ raced : returned'[k] \in Nat \cup {-1} /\ Safe(k, returned'[k])
    BY ReturnedIsSafe DEF TypeOK
  <2> QED
    BY <1>3, <2>1, OrderKept
<1>5. Waiting'
  <2>1. \A k \in AllKeys : returned'[k] >= returned[k] /\ returned'[k] \in Int
    BY DEF TypeOK
  <2>2. ASSUME NEW g \in Gets PROVE WaitingOf(g)'
    BY <1>3, <2>1, WaitingKept
  <2> QED
    BY <2>2 DEF Waiting
<1> QED
  BY <1>1, <1>2, <1>4, <1>5

\* Time passes, the source changes.
LEMMA WorldIInv ==
  ASSUME IInv, Tick \/ Change
  PROVE  IInv'
<1>1. UNCHANGED <<m_Lru, m_Waiters, m_List, waits, coros, get, returned, slow, raced, puts, throws>>
  BY DEF Tick, Change, updater, history
<1>2. now' \in Nat /\ now' >= now /\ source' \in Nat /\ source' >= source
  BY CacheAssumption DEF Tick, Change, IInv, TypeOK
<1>3. OneCoro'
  BY <1>1 DEF IInv, OneCoro, Served
<1> QED
  BY <1>1, <1>2, <1>3, QuietStep DEF IInv, TypeOK

\* Coro() begins, or dies of an exception.
LEMMA CoroIInv ==
  ASSUME IInv, CoroStarts \/ HandlerThrows
  PROVE  IInv'
<1> USE DEF IInv
<1>1. PICK frame \in coros :
        /\ \/ frame.at = "posted" /\ coros' = Around(frame, m_List)
           \/ coros' = coros \ {frame}
        /\ UNCHANGED <<m_Lru, m_Waiters, m_List, waits, get, now, source, puts, returned, slow, raced>>
  BY DEF CoroStarts, HandlerThrows, history
<1>2. coros \ {frame} = {} /\ m_List # <<>>
  BY <1>1 DEF OneCoro
<1>3. throws' \in Nat
  BY DEF CoroStarts, HandlerThrows, TypeOK
<1>4. /\ Len(m_List) \in Nat \ {0} /\ m_List[1] = Served + 1 /\ Head(m_List) = m_List[1]
      /\ Served + 1 \in Nat
  <2>1. Len(m_List) \in Nat \ {0}
    BY <1>2, EmptySeq DEF TypeOK
  <2> QED
    BY <1>2, <2>1, Basics DEF Listed, TypeOK
<1>5. coros' = {} \/ coros' = {Called(Served + 1)}
  BY <1>1, <1>2, <1>4 DEF Around, Called
<1>6. /\ coros' \in SUBSET Frames /\ OneCoro' /\ \A f \in coros' : f.at = "read" => f \in coros
  <2>1. CASE coros' = {}
    BY <2>1 DEF OneCoro
  <2>2. CASE coros' = {Called(Served + 1)}
    BY <1>1, <1>2, <1>4, <2>2, FrameFacts DEF OneCoro, Served
  <2> QED
    BY <1>5, <2>1, <2>2
<1>7. now' \in Nat /\ now' >= now /\ source' \in Nat /\ source' >= source /\ puts' \in Nat
  BY <1>1 DEF TypeOK
<1> QED
  BY <1>1, <1>3, <1>6, <1>7, QuietStep

\* What the handler reads is not older than anything it will replace.
LEMMA HandlerReadsIInv ==
  ASSUME IInv, HandlerReads
  PROVE  IInv'
<1> USE DEF IInv
<1>1. PICK frame \in coros :
        /\ frame.at = "called"
        /\ coros' = (coros \ {frame})
                      \cup {[of |-> frame.of, at |-> "read", value |-> source, stamp |-> now]}
        /\ UNCHANGED <<m_Lru, m_Waiters, m_List, waits, get, now, source, puts, throws, history>>
  BY DEF HandlerReads
<1> DEFINE new == [of |-> frame.of, at |-> "read", value |-> source, stamp |-> now]
<1>2. frame \in Frames /\ source \in Nat /\ now \in Nat /\ frame.of = Served + 1
  BY <1>1 DEF TypeOK, OneCoro
<1>3. new \in Frames /\ new.at = "read" /\ new.of = frame.of /\ new.value = source
  BY <1>2 DEF Frames
<1>4. coros' = (coros \ {frame}) \cup {new}
  BY <1>1
<1> HIDE DEF new
<1>5. coros' = {new}
  BY <1>4 DEF OneCoro
<1>6. UNCHANGED <<m_Lru, m_Waiters, m_List, waits, get, now, source, puts, throws, returned, slow, raced>>
  BY <1>1 DEF history
<1>7. TypeOK'
  BY <1>3, <1>5, <1>6 DEF TypeOK
<1>8. CacheOK' /\ Listed'
  BY <1>6 DEF CacheOK, Indexed, Listed, Served
<1>9. OneCoro'
  BY <1>1, <1>2, <1>3, <1>5, <1>6 DEF OneCoro, Served
<1>10. Order'
  BY <1>3, <1>5, <1>6, <1>2 DEF Order, Upto, CachedUpto
<1>11. Waiting'
  BY <1>6 DEF Waiting, WaitingOf, Served
<1> QED
  BY <1>7, <1>8, <1>9, <1>10, <1>11

\* The value of the handler goes to the cache and to those who wait for it.
LEMMA HandlerReturnsIInv ==
  ASSUME IInv, HandlerReturns
  PROVE  IInv'
<1> USE DEF IInv
<1>1. PICK frame \in coros :
        LET d == frame.of
            key == waits[d].key
        IN  /\ frame.at = "read"
            /\ waits' = [waits EXCEPT ![d] =
                           [key |-> key, value |-> frame.value, stamp |-> frame.stamp]]
            /\ m_Lru' = L!Put(m_Lru, key, Entry(frame.value, frame.stamp), MaxSize)
            /\ get' = [g \in Gets |-> IF get[g].at = "waiting" /\ get[g].ptr = d
                                        THEN [get[g] EXCEPT !.at = "posted"] ELSE get[g]]
            /\ m_Waiters' = Erased(key)
            /\ m_List' = PopFront(m_List)
            /\ coros' = Around(frame, PopFront(m_List))
            /\ slow' = (slow \/ frame.stamp + Deadline <= now)
            /\ UNCHANGED <<now, source, puts, throws, returned, raced>>
  BY DEF HandlerReturns
<1> DEFINE d == frame.of
           key == waits[d].key
           new == [key |-> key, value |-> frame.value, stamp |-> frame.stamp]
           x == Entry(frame.value, frame.stamp)
<1>2. /\ frame \in Frames /\ d = Served + 1 /\ d \in 1..Len(waits) /\ m_List # <<>>
      /\ frame.value \in Nat /\ frame.stamp \in Nat /\ key \in AllKeys
  BY <1>1, Basics DEF TypeOK, OneCoro, Frames, WaitDatas
<1>3. /\ frame.at = "read" /\ waits' = [waits EXCEPT ![d] = new]
      /\ m_Lru' = L!Put(m_Lru, key, x, MaxSize)
      /\ m_Waiters' = [m_Waiters EXCEPT ![key] = None]
      /\ slow' = (slow \/ frame.stamp + Deadline <= now)
      /\ UNCHANGED <<now, source, puts, throws, returned, raced>>
  BY <1>1 DEF Erased
<1>4. get' = [g \in Gets |-> IF get[g].at = "waiting" /\ get[g].ptr = d
                                THEN [get[g] EXCEPT !.at = "posted"] ELSE get[g]]
  BY <1>1
<1>5. /\ new \in WaitDatas /\ new.key = key /\ new.value = frame.value /\ new.stamp = frame.stamp
      /\ x \in Entries /\ x.value = frame.value
  BY <1>2 DEF WaitDatas, Entries, Entry
<1> HIDE DEF new, x
<1>6. /\ waits' \in Seq(WaitDatas) /\ Len(waits') = Len(waits)
      /\ waits'[d] = new /\ \A e \in 1..Len(waits) : e # d => waits'[e] = waits[e]
  <2> DEFINE t == [waits EXCEPT ![d] = new]
  <2>1. waits \in Seq(WaitDatas) /\ d \in 1..Len(waits) /\ new \in WaitDatas
    BY <1>2, <1>5 DEF TypeOK
  <2> HIDE DEF d
  <2>2. /\ t \in Seq(WaitDatas) /\ Len(t) = Len(waits)
        /\ \A e \in 1..Len(waits) : t[e] = IF e = d THEN new ELSE waits[e]
    BY <2>1, ExceptSeq
  <2>3. waits' = t
    BY <1>3
  <2> HIDE DEF t
  <2> QED
    BY <2>1, <2>2, <2>3
<1>7. /\ m_List' \in Seq(Nat) /\ Len(m_List') = Len(m_List) - 1
      /\ \A i \in 1..(Len(m_List) - 1) : m_List'[i] = m_List[i + 1]
  <2>1. Len(m_List) \in Nat \ {0} /\ \A i \in 2..Len(m_List) : m_List[i] \in Nat
    BY <1>2, EmptySeq, ElementOfSeq DEF TypeOK
  <2>2. /\ m_List' \in Seq(Nat)
        /\ Len(m_List') = (IF 2 <= Len(m_List) THEN Len(m_List) - 2 + 1 ELSE 0)
        /\ \A i \in 1..(Len(m_List) - 2 + 1) : m_List'[i] = m_List[2 + i - 1]
    BY <1>1, <2>1, SubSeqProperties DEF PopFront
  <2>3. Len(m_List') = Len(m_List) - 1
    <3>1. Len(m_List') = IF 2 <= Len(m_List) THEN Len(m_List) - 2 + 1 ELSE 0
      BY <2>2
    <3>2. PICK n \in Int : n = Len(m_List) /\ n >= 1
      BY <2>1
    <3>3. (IF 2 <= n THEN n - 2 + 1 ELSE 0) = n - 1
      BY <3>2
    <3> QED
      BY <3>1, <3>2, <3>3
  <2>4. \A i \in 1..(Len(m_List) - 1) : i \in 1..(Len(m_List) - 2 + 1) /\ 2 + i - 1 = i + 1
    BY <2>1
  <2> QED
    BY <2>2, <2>3, <2>4
<1>8. Served' = d
  BY <1>2, <1>6, <1>7, Basics DEF Served
<1>9. /\ m_Waiters' \in [AllKeys -> Nat] /\ m_Waiters'[key] = None
      /\ \A k \in AllKeys \ {key} : m_Waiters'[k] = m_Waiters[k]
  BY <1>2, <1>3 DEF TypeOK, None
<1>10. m_Waiters[key] = d
  BY <1>2, Basics DEF Listed
<1>11. Listed'
  <2>1. ASSUME NEW i \in 1..Len(m_List') PROVE m_List'[i] = d + i
    <3>1. i + 1 \in 1..Len(m_List) /\ i \in 1..(Len(m_List) - 1)
      BY <1>7, Basics
    <3>2. m_List'[i] = Served + (i + 1)
      BY <1>7, <3>1 DEF Listed
    <3> QED
      BY <1>2, <3>2, Basics
  <2>2. ASSUME NEW e \in 1..Len(waits'), e > d
        PROVE  waits'[e].value = -1 /\ m_Waiters'[waits'[e].key] = e
    <3>1. /\ e \in 1..Len(waits) /\ e # d /\ e > Served
      BY <1>2, <1>6, <2>2, Basics
    <3>2. waits'[e] = waits[e] /\ waits[e].value = -1 /\ m_Waiters[waits[e].key] = e
          /\ waits[e].key \in AllKeys
      BY <1>6, <3>1, Basics DEF Listed, WaitDatas
    <3> QED
      BY <1>9, <1>10, <3>1, <3>2
  <2>3. ASSUME NEW k \in AllKeys, m_Waiters'[k] # None
        PROVE  d < m_Waiters'[k] /\ m_Waiters'[k] <= Len(waits') /\ waits'[m_Waiters'[k]].key = k
    <3>1. k # key /\ m_Waiters'[k] = m_Waiters[k]
      BY <1>9, <2>3
    <3>2. /\ Served < m_Waiters[k] /\ m_Waiters[k] <= Len(waits) /\ m_Waiters[k] \in Nat
          /\ waits[m_Waiters[k]].key = k
      BY <2>3, <3>1 DEF Listed, TypeOK
    <3>3. m_Waiters[k] # d
      BY <3>1, <3>2
    <3>4. m_Waiters[k] \in 1..Len(waits) /\ d < m_Waiters[k]
      BY <1>2, <3>2, <3>3, Basics
    <3> QED
      BY <1>6, <3>1, <3>2, <3>3, <3>4
  <2> QED
    BY <1>2, <1>8, <2>1, <2>2, <2>3, Basics DEF Listed
<1>12. /\ coros' \in SUBSET Frames /\ OneCoro' /\ \A f \in coros' : f.at # "read"
  <2>1. coros \ {frame} = {}
    BY DEF OneCoro
  <2>2. CASE m_List' = <<>>
    BY <1>1, <2>1, <2>2 DEF Around, OneCoro
  <2>3. CASE m_List' # <<>>
    <3>1. Head(m_List') = d + 1 /\ d + 1 \in Nat
      <4>1. Len(m_List') \in Nat \ {0}
        BY <1>7, <2>3, EmptySeq
      <4>2. Head(m_List') = m_List'[1]
        BY <1>7, <2>3
      <4> QED
        BY <1>2, <1>8, <1>11, <4>1, <4>2, Basics DEF Listed
    <3>2. coros' = {Called(d + 1)}
      BY <1>1, <2>1, <2>3, <3>1 DEF Around, Called
    <3> QED
      BY <1>8, <2>3, <3>1, <3>2, FrameFacts DEF OneCoro
  <2> QED
    BY <2>2, <2>3
<1>13. /\ m_Lru' \in Seq(Elements) /\ CacheOK'
       /\ \A i \in 1..Len(m_Lru') :
            \/ m_Lru'[i] = [key |-> key, value |-> x]
            \/ m_Lru'[i].key # key /\ \E j \in 1..Len(m_Lru) : m_Lru'[i] = m_Lru[j]
  <2> DEFINE p == L!Put(m_Lru, key, x, MaxSize)
  <2>1. m_Lru \in Seq(Elements) /\ Indexed(m_Lru) /\ MaxSize \in Nat /\ Len(m_Lru) <= MaxSize
    BY CacheAssumption DEF CacheOK, TypeOK
  <2>2. /\ p \in Seq(Elements) /\ Indexed(p) /\ Len(p) <= MaxSize
        /\ \A i \in 1..Len(p) :
             \/ p[i] = [key |-> key, value |-> x]
             \/ p[i].key # key /\ \E j \in 1..Len(m_Lru) : p[i] = m_Lru[j]
    BY <1>2, <1>5, <2>1, PutFacts
  <2>3. m_Lru' = p
    BY <1>3
  <2> HIDE DEF p
  <2> QED
    BY <2>2, <2>3 DEF CacheOK, Indexed
<1>14. \A g \in Gets :
         \/ /\ get[g].at = "waiting" /\ get[g].ptr = d
            /\ get'[g] = [get[g] EXCEPT !.at = "posted"]
         \/ ~(get[g].at = "waiting" /\ get[g].ptr = d) /\ get'[g] = get[g]
  BY <1>4
<1>15. ASSUME NEW g \in Gets, get[g].at = "waiting", get[g].ptr = d
       PROVE  /\ get'[g] \in Suspended /\ get'[g].at = "posted" /\ get'[g].ptr = d
              /\ get'[g].since = get[g].since /\ get'[g].floor = get[g].floor
              /\ get[g] \in Suspended
  <2>1. get[g] \in Suspended
    BY <1>15, GetStates DEF TypeOK
  <2>2. get'[g] = [get[g] EXCEPT !.at = "posted"]
    BY <1>14, <1>15
  <2> QED
    BY <1>15, <2>1, <2>2 DEF Suspended
<1>16. TypeOK'
  <2>1. get' \in [Gets -> {Idle, Good} \cup Suspended]
    <3>1. \A g \in Gets : get'[g] \in {Idle, Good} \cup Suspended
      BY <1>14, <1>15 DEF TypeOK
    <3>2. get' = [g \in Gets |-> get'[g]]
      BY <1>4
    <3> QED
      BY <3>1, <3>2
  <2>2. slow' \in BOOLEAN
    BY <1>3
  <2>3. UNCHANGED <<now, source, puts, throws, returned, raced>>
    BY <1>3
  <2> QED
    BY <1>6, <1>7, <1>9, <1>12, <1>13, <2>1, <2>2, <2>3 DEF TypeOK
<1>17. Order'
  <2> SUFFICES ASSUME NEW k \in AllKeys \ raced
               PROVE  /\ Upto(k, source)' /\ CachedUpto(k, source)'
                      /\ \A i \in 1..Len(m_Lru') : m_Lru'[i].key = k => Upto(k, m_Lru[i].value.value)'
    BY <1>3, <1>12 DEF Order
  <2>1. /\ Upto(k, source) /\ CachedUpto(k, source)
        /\ \A i \in 1..Len(m_Lru) : m_Lru[i].key = k => Upto(k, m_Lru[i].value.value)
        /\ key = k => Upto(k, frame.value) /\ frame.value <= source
    BY <1>3 DEF Order
  <2>2. ASSUME NEW v \in Nat, Upto(k, v), key = k => frame.value <= v
        PROVE  returned'[k] <= v /\ \A e \in 1..Len(waits') : waits'[e].key = k => waits'[e].value <= v
    <3>1. ASSUME NEW e \in 1..Len(waits'), waits'[e].key = k PROVE waits'[e].value <= v
      <4>1. CASE e = d
        BY <1>5, <1>6, <2>2, <3>1, <4>1
      <4>2. CASE e # d
        BY <1>6, <2>2, <3>1, <4>2 DEF Upto
      <4> QED
        BY <4>1, <4>2
    <3> QED
      BY <1>3, <2>2, <3>1 DEF Upto
  <2>3. source \in Nat /\ source' = source
    BY <1>3 DEF TypeOK
  <2>4. Upto(k, source)'
    <3>1. returned'[k] <= source /\ \A e \in 1..Len(waits') : waits'[e].key = k => waits'[e].value <= source
      BY <2>1, <2>2, <2>3
    <3> QED
      BY <2>3, <3>1 DEF Upto
  <2>5. ASSUME NEW i \in 1..Len(m_Lru'), m_Lru'[i].key = k
        PROVE  Upto(k, m_Lru[i].value.value)' /\ m_Lru'[i].value.value <= source'
    <3>1. CASE m_Lru'[i] = [key |-> key, value |-> x]
      <4>1. key = k /\ m_Lru'[i].value.value = frame.value
        BY <1>5, <2>5, <3>1
      <4>2. frame.value \in Nat /\ frame.value <= frame.value
        BY <1>2
      <4>3. /\ returned'[k] <= frame.value
            /\ \A e \in 1..Len(waits') : waits'[e].key = k => waits'[e].value <= frame.value
        BY <2>1, <2>2, <4>1, <4>2
      <4> QED
        BY <2>1, <2>3, <4>1, <4>3 DEF Upto
    <3>2. CASE m_Lru'[i].key # key /\ \E j \in 1..Len(m_Lru) : m_Lru'[i] = m_Lru[j]
      <4>1. PICK j \in 1..Len(m_Lru) : m_Lru'[i] = m_Lru[j]
        BY <3>2
      <4>2. PICK v \in Nat : v = m_Lru[j].value.value
        BY Basics DEF Elements, Entries
      <4>3. Upto(k, v) /\ key # k /\ v <= source
        BY <2>1, <2>5, <3>2, <4>1, <4>2 DEF CachedUpto
      <4>4. returned'[k] <= v /\ \A e \in 1..Len(waits') : waits'[e].key = k => waits'[e].value <= v
        BY <2>2, <4>3
      <4> QED
        BY <2>3, <4>1, <4>2, <4>3, <4>4 DEF Upto
    <3> QED
      BY <1>13, <3>1, <3>2
  <2> QED
    BY <2>4, <2>5 DEF CachedUpto
<1>18. Waiting'
  <2> SUFFICES ASSUME NEW g \in Gets PROVE WaitingOf(g)'
    BY DEF Waiting
  <2>0. WaitingOf(g) /\ now \in Nat /\ Deadline \in Nat /\ (slow => slow')
    BY <1>3, CacheAssumption DEF Waiting, TypeOK
  <2>1. CASE get[g].at = "waiting" /\ get[g].ptr = d
    <3>1. get[g].since \in Nat /\ get[g].since <= now /\ get[g].floor \in Int
          /\ get[g].floor <= returned[key]
      BY <1>15, <2>0, <2>1 DEF WaitingOf, Suspended
    <3>2. slow' \/ frame.stamp + Deadline > get[g].since
      <4>1. CASE frame.stamp + Deadline <= now
        BY <1>3, <4>1, Zenon
      <4>2. CASE ~(frame.stamp + Deadline <= now)
        BY <1>2, <2>0, <3>1, <4>2
      <4> QED
        BY <4>1, <4>2
    <3>3. key \in raced \/ get[g].floor <= frame.value
      <4>1. returned[key] \in Int
        BY <1>2 DEF TypeOK
      <4>2. key \in raced \/ returned[key] <= frame.value
        BY <1>2, <1>3 DEF Order, Upto
      <4> QED
        BY <1>2, <3>1, <4>1, <4>2
    <3>4. now' = now /\ raced' = raced /\ waits'[d] = new /\ 1 <= d /\ d <= Len(waits') /\ d <= Served'
      BY <1>2, <1>3, <1>6, <1>8, Basics
    <3> QED
      BY <1>5, <1>15, <2>1, <3>1, <3>2, <3>3, <3>4 DEF WaitingOf
  <2>2. CASE ~(get[g].at = "waiting" /\ get[g].ptr = d)
    <3> SUFFICES ASSUME get[g].at \in {"waiting", "posted"} PROVE WaitingOf(g)'
      BY <1>14, <2>2 DEF WaitingOf
    <3>1. get'[g] = get[g] /\ get[g] \in Suspended /\ get[g].ptr \in Nat
      BY <1>14, <2>2, GetStates DEF TypeOK, Suspended
    <3>2. PICK e \in 1..Len(waits) : e = get[g].ptr
      BY <2>0, <3>1, Basics DEF WaitingOf
    <3>3. get[g].at = "waiting" => Served < e /\ e # d
      BY <2>0, <2>2, <3>2 DEF WaitingOf
    <3>4. get[g].at = "posted" => e <= Served
      BY <2>0, <3>2 DEF WaitingOf
    <3>5. e # d /\ (get[g].at = "waiting" => d < e) /\ (get[g].at = "posted" => e <= d)
      BY <1>2, <3>3, <3>4, Basics
    <3>6. waits'[e] = waits[e] /\ Served' = d /\ Len(waits') = Len(waits)
          /\ now' = now /\ raced' = raced /\ returned' = returned
      BY <1>3, <1>6, <1>8, <3>5
    <3> QED
      BY <2>0, <3>1, <3>2, <3>5, <3>6 DEF WaitingOf
  <2> QED
    BY <2>1, <2>2
<1> QED
  BY <1>11, <1>12, <1>13, <1>16, <1>17, <1>18

-----------------------------------------------------------------------------
(* CacheAdapter.                                                           *)

\* A Get that returns a good value: the rest of the state follows from what the
\* step does to the cache and to the updater.
LEMMA ReturnsIInv ==
  ASSUME IInv, NEW g \in Gets, NEW key \in AllKeys, NEW value \in Nat \cup {-1}, NEW stamp \in Nat,
         NEW since \in Nat, NEW floor \in Nat \cup {-1},
         Returns(g, key, value, stamp, since, floor),
         slow \/ stamp + Deadline > since,
         key \in raced \/ (floor <= value /\ Safe(key, value)),
         m_Lru' \in Seq(Elements), CacheOK', CacheKept,
         m_Waiters' \in [AllKeys -> Nat], m_List' \in Seq(Nat), waits' \in Seq(WaitDatas),
         coros' \in SUBSET Frames, Grown, Listed', OneCoro',
         \A f \in coros' : f.at = "read" => f \in coros,
         UNCHANGED <<now, source, puts, throws, slow, raced>>
  PROVE  IInv'
<1> USE DEF IInv
<1> DEFINE x == [at |-> "done", fresh |-> slow \/ stamp + Deadline > since,
                 older |-> value < floor /\ key \notin raced]
<1>1. get' = [get EXCEPT ![g] = x]
  BY DEF Returns
<1>2. x = Good
  <2>1. (slow \/ stamp + Deadline > since) = TRUE
    OBVIOUS
  <2>2. (value < floor /\ key \notin raced) = FALSE
    BY DEF TypeOK
  <2> QED
    BY <2>1, <2>2, Zenon DEF Good
<1> HIDE DEF x
<1>3. /\ get' \in [Gets -> {Idle, Good} \cup Suspended] /\ get'[g] = Good
      /\ \A h \in Gets \ {g} : get'[h] = get[h]
  BY <1>1, <1>2 DEF TypeOK
<1>4. /\ returned' = [returned EXCEPT ![key] = IF value > returned[key] THEN value ELSE returned[key]]
      /\ returned[key] \in Int
  BY DEF Returns, TypeOK
<1>5. /\ returned' \in [AllKeys -> Nat \cup {-1}]
      /\ \A k \in AllKeys \ {key} : returned'[k] = returned[k]
      /\ returned'[key] \in {value, returned[key]} /\ returned'[key] >= returned[key]
  BY <1>4 DEF TypeOK
<1>6. \A k \in AllKeys : returned'[k] >= returned[k] /\ returned'[k] \in Int
  <2> SUFFICES ASSUME NEW k \in AllKeys
               PROVE  returned'[k] >= returned[k] /\ returned'[k] \in Int
    OBVIOUS
  <2>1. returned[k] \in Int /\ returned'[k] \in Int
    <3>1. returned \in [AllKeys -> Nat \cup {-1}]
      BY DEF TypeOK
    <3>2. returned' \in [AllKeys -> Nat \cup {-1}]
      BY <1>5
    <3>3. returned[k] \in Nat \cup {-1} /\ returned'[k] \in Nat \cup {-1}
      BY <3>1, <3>2, Zenon
    <3> QED
      BY <3>3
  <2>2. k = key \/ returned'[k] = returned[k]
    BY <1>5
  <2>3. returned'[key] >= returned[key]
    BY <1>5
  <2> QED
    BY <2>1, <2>2, <2>3
<1>7. TypeOK'
  BY <1>3, <1>5 DEF TypeOK
<1>8. Order'
  <2>1. ASSUME NEW k \in AllKeys \ raced
        PROVE  returned'[k] \in Nat \cup {-1} /\ Safe(k, returned'[k])
    <3>1. CASE k = key
      <4>1. Safe(key, value) /\ Safe(key, returned[key])
        BY <3>1, ReturnedIsSafe
      <4> QED
        BY <1>5, <3>1, <4>1
    <3>2. CASE k # key
      BY <1>5, <3>2, ReturnedIsSafe
    <3> QED
      BY <3>1, <3>2
  <2>2. raced' = raced /\ source' \in Nat /\ source' >= source
    BY DEF TypeOK
  <2> QED
    BY <2>1, <2>2, OrderKept
<1>9. Waiting'
  <2>1. now' \in Nat /\ now' >= now /\ slow' = slow /\ raced \subseteq raced'
    BY DEF TypeOK
  <2>2. \A h \in Gets \ {g} : WaitingOf(h)'
    BY <1>3, <1>6, <2>1, WaitingKept
  <2>3. WaitingOf(g)'
    BY <1>3, GetStates DEF WaitingOf
  <2> QED
    BY <2>2, <2>3 DEF Waiting
<1> QED
  BY <1>7, <1>8, <1>9

\* The element that the index has for a key is the only one, and its value is
\* one that may be returned.
LEMMA HitFacts ==
  ASSUME IInv, NEW key \in AllKeys, key \in L!Keys(m_Lru)
  PROVE  /\ L!ValueOf(m_Lru, key) \in Entries
         /\ key \notin raced => Safe(key, L!ValueOf(m_Lru, key).value)
                                /\ returned[key] <= L!ValueOf(m_Lru, key).value
<1> USE DEF IInv
<1> DEFINE i == L!Find(m_Lru, key)
<1>1. i \in 1..Len(m_Lru) /\ m_Lru[i].key = key
  BY RemoveFacts DEF CacheOK, TypeOK
<1>2. L!ValueOf(m_Lru, key) = m_Lru[i].value
  BY DEF L!ValueOf
<1> HIDE DEF i
<1>3. m_Lru[i].value \in Entries /\ m_Lru[i].value.value \in Nat
  BY <1>1, Basics DEF Elements, Entries
<1>4. ASSUME key \notin raced
      PROVE  Safe(key, m_Lru[i].value.value) /\ returned[key] <= m_Lru[i].value.value
  <2>1. \A j \in 1..Len(m_Lru) : m_Lru[j].key = key => j = i
    BY <1>1 DEF CacheOK, Indexed
  <2>2. /\ m_Lru[i].value.value <= source /\ returned[key] <= m_Lru[i].value.value
        /\ \A f \in coros : f.at = "read" /\ waits[f.of].key = key => m_Lru[i].value.value <= f.value
    BY <1>1, <1>4 DEF Order, Upto, CachedUpto
  <2> QED
    BY <1>3, <2>1, <2>2 DEF Safe
<1> QED
  BY <1>2, <1>3, <1>4

\* What Get does to the list of the cache.
LEMMA CacheSteps ==
  ASSUME IInv, NEW key \in AllKeys, key \in L!Keys(m_Lru),
         \/ m_Lru' = L!Get(m_Lru, key)
         \/ m_Lru' = [L!Get(m_Lru, key) EXCEPT
                        ![1] = [key |-> key, value |-> Early(L!ValueOf(m_Lru, key))]]
  PROVE  m_Lru' \in Seq(Elements) /\ CacheOK' /\ CacheKept
<1> USE DEF IInv
<1> DEFINE r == L!Get(m_Lru, key)
           v == L!ValueOf(m_Lru, key)
           e == [key |-> key, value |-> Early(v)]
<1>1. /\ r \in Seq(Elements) /\ Indexed(r) /\ Len(r) = Len(m_Lru) /\ Len(m_Lru) >= 1
      /\ r[1].key = key /\ r[1].value = v
      /\ \A i \in 1..Len(m_Lru) : \E j \in 1..Len(m_Lru) : r[i] = m_Lru[j]
  BY GetFacts DEF CacheOK, TypeOK
<1>2. Len(m_Lru) <= MaxSize /\ Len(m_Lru) \in Nat
  BY Basics DEF CacheOK
<1>3. v \in Entries
  BY HitFacts
<1>4. m_Lru' = r \/ m_Lru' = [r EXCEPT ![1] = e]
  OBVIOUS
<1> HIDE DEF r, v
<1>5. e \in Elements /\ e.key = key /\ e.value.value = v.value
  BY <1>3 DEF Elements, Entries, Early
<1> HIDE DEF e
<1>6. /\ m_Lru' \in Seq(Elements) /\ Len(m_Lru') = Len(m_Lru)
      /\ \A i \in 1..Len(m_Lru) :
           m_Lru'[i].key = r[i].key /\ m_Lru'[i].value.value = r[i].value.value
  <2>1. CASE m_Lru' = r
    BY <1>1, <2>1
  <2>2. CASE m_Lru' = [r EXCEPT ![1] = e]
    <3>1. 1 \in 1..Len(r)
      BY <1>1, <1>2
    <3>2. /\ m_Lru' \in Seq(Elements) /\ Len(m_Lru') = Len(r)
          /\ \A i \in 1..Len(r) : m_Lru'[i] = IF i = 1 THEN e ELSE r[i]
      <4> DEFINE t == [r EXCEPT ![1] = e]
      <4>1. r \in Seq(Elements) /\ e \in Elements
        BY <1>1, <1>5
      <4>2. /\ t \in Seq(Elements) /\ Len(t) = Len(r)
            /\ \A i \in 1..Len(r) : t[i] = IF i = 1 THEN e ELSE r[i]
        BY <3>1, <4>1, ExceptSeq
      <4>3. m_Lru' = t
        BY <2>2
      <4> HIDE DEF t
      <4> QED
        BY <4>2, <4>3
    <3>3. ASSUME NEW i \in 1..Len(r)
          PROVE  m_Lru'[i].key = r[i].key /\ m_Lru'[i].value.value = r[i].value.value
      <4>1. CASE i = 1
        <5>1. m_Lru'[i] = e
          BY <3>2, <4>1
        <5> QED
          BY <1>1, <1>5, <4>1, <5>1
      <4>2. CASE i # 1
        <5>1. m_Lru'[i] = r[i]
          BY <3>2, <4>2
        <5> QED
          BY <5>1
      <4> QED
        BY <4>1, <4>2
    <3>4. Len(r) = Len(m_Lru)
      BY <1>1
    <3> QED
      BY <3>2, <3>3, <3>4
  <2> QED
    BY <1>4, <2>1, <2>2
<1>7. Indexed(m_Lru)'
  BY <1>1, <1>6 DEF Indexed
<1>8. CacheKept
  <2>1. ASSUME NEW i \in 1..Len(m_Lru)
        PROVE  \E j \in 1..Len(m_Lru) :
                 m_Lru'[i].key = m_Lru[j].key /\ m_Lru'[i].value.value = m_Lru[j].value.value
    <3>1. PICK j \in 1..Len(m_Lru) : r[i] = m_Lru[j]
      BY <1>1
    <3> QED
      BY <1>6, <3>1
  <2> QED
    BY <1>2, <1>6, <2>1 DEF CacheKept
<1> QED
  BY <1>2, <1>6, <1>7, <1>8 DEF CacheOK

\* A Get that finds nothing good in the cache joins the waiters of its key.
LEMMA WaitIInv ==
  ASSUME IInv, NEW g \in Gets, NEW key \in AllKeys, Wait(g, key),
         m_Lru' \in Seq(Elements), CacheOK', CacheKept,
         UNCHANGED <<now, source, puts, throws, slow, raced>>
  PROVE  IInv'
<1> USE DEF IInv
<1> DEFINE d == Scheduled(key)
           x == [at |-> "waiting", ptr |-> d, since |-> now, floor |-> returned[key]]
<1>1. Schedule(key)
  BY DEF Wait
<1>2. /\ m_Waiters' \in [AllKeys -> Nat] /\ m_List' \in Seq(Nat)
      /\ waits' \in Seq(WaitDatas) /\ coros' \in SUBSET Frames
      /\ Grown /\ Listed' /\ OneCoro'
      /\ \A f \in coros' : f.at = "read" => f \in coros
      /\ d \in 1..Len(waits') /\ Served < d /\ waits'[d].key = key /\ waits'[d].value = -1
  BY <1>1, ScheduleFacts
<1>3. get' = [get EXCEPT ![g] = x] /\ returned' = returned
  BY <1>2 DEF Wait
<1>4. /\ x \in Suspended /\ x.at = "waiting" /\ x.ptr = d /\ x.since = now
      /\ x.floor = returned[key]
  <2>1. d \in Nat /\ now \in Nat /\ returned[key] \in Nat \cup {-1}
    BY <1>2 DEF TypeOK, Grown
  <2> HIDE DEF d
  <2> QED
    BY <2>1 DEF Suspended
<1> HIDE DEF d, x
<1>5. /\ get' \in [Gets -> {Idle, Good} \cup Suspended] /\ get'[g] = x
      /\ \A h \in Gets \ {g} : get'[h] = get[h]
  BY <1>3, <1>4 DEF TypeOK
<1>6. TypeOK'
  BY <1>2, <1>3, <1>5 DEF TypeOK
<1>7. Order'
  <2>1. \A k \in AllKeys \ raced : returned'[k] \in Nat \cup {-1} /\ Safe(k, returned'[k])
    BY <1>3, ReturnedIsSafe DEF TypeOK
  <2>2. raced' = raced /\ source' \in Nat /\ source' >= source
    BY DEF TypeOK
  <2> QED
    BY <1>2, <2>1, <2>2, OrderKept
<1>8. Waiting'
  <2>1. now' \in Nat /\ now' >= now /\ slow' = slow /\ raced \subseteq raced'
    BY DEF TypeOK
  <2>2. \A k \in AllKeys : returned'[k] >= returned[k] /\ returned'[k] \in Int
    BY <1>3 DEF TypeOK
  <2>3. \A h \in Gets \ {g} : WaitingOf(h)'
    BY <1>2, <1>5, <2>1, <2>2, WaitingKept
  <2>4. WaitingOf(g)'
    <3>1. /\ 1 <= d /\ d <= Len(waits') /\ now <= now' /\ Served' < d
          /\ returned[key] <= returned'[waits'[d].key]
      BY <1>2, <1>3, <2>1, <2>2 DEF Grown, TypeOK
    <3> QED
      BY <1>4, <1>5, <3>1 DEF WaitingOf
  <2> QED
    BY <2>3, <2>4 DEF Waiting
<1> QED
  BY <1>2, <1>6, <1>7, <1>8

\* A Get returns from the cache, or waits, having scheduled a refresh or not.
LEMMA GetIInv ==
  ASSUME IInv, NEW g \in Gets, NEW key \in AllKeys, Get(g, key)
  PROVE  IInv'
<1> USE DEF IInv
<1> DEFINE entry == L!ValueOf(m_Lru, key)
<1>0. UNCHANGED <<now, source, puts, throws, slow, raced>>
  BY DEF Get
<1>1. \/ Wait(g, key) /\ UNCHANGED m_Lru
      \/ key \in L!Keys(m_Lru) /\ Wait(g, key) /\ m_Lru' = L!Get(m_Lru, key)
      \/ /\ key \in L!Keys(m_Lru) /\ ~Expired(entry)
         /\ \/ /\ Schedule(key)
               /\ m_Lru' = [L!Get(m_Lru, key) EXCEPT ![1] = [key |-> key, value |-> Early(entry)]]
            \/ m_Lru' = L!Get(m_Lru, key) /\ UNCHANGED updater
         /\ Returns(g, key, entry.value, entry.created_at, now, returned[key])
  BY DEF Get
<1>2. CASE Wait(g, key) /\ UNCHANGED m_Lru
  <2>1. m_Lru' \in Seq(Elements) /\ CacheOK' /\ CacheKept
    BY <1>2, Basics DEF TypeOK, CacheOK, Indexed, CacheKept
  <2> QED
    BY <1>0, <1>2, <2>1, WaitIInv
<1>3. CASE key \in L!Keys(m_Lru) /\ Wait(g, key) /\ m_Lru' = L!Get(m_Lru, key)
  <2>1. m_Lru' \in Seq(Elements) /\ CacheOK' /\ CacheKept
    BY <1>3, CacheSteps
  <2> QED
    BY <1>0, <1>3, <2>1, WaitIInv
<1>4. CASE /\ key \in L!Keys(m_Lru) /\ ~Expired(entry)
           /\ \/ /\ Schedule(key)
                 /\ m_Lru' = [L!Get(m_Lru, key) EXCEPT ![1] = [key |-> key, value |-> Early(entry)]]
              \/ m_Lru' = L!Get(m_Lru, key) /\ UNCHANGED updater
           /\ Returns(g, key, entry.value, entry.created_at, now, returned[key])
  <2>1. m_Lru' \in Seq(Elements) /\ CacheOK' /\ CacheKept
    BY <1>4, CacheSteps
  <2>2. /\ m_Waiters' \in [AllKeys -> Nat] /\ m_List' \in Seq(Nat)
        /\ waits' \in Seq(WaitDatas) /\ coros' \in SUBSET Frames
        /\ Grown /\ Listed' /\ OneCoro'
        /\ \A f \in coros' : f.at = "read" => f \in coros
    <3>1. CASE Schedule(key)
      BY <3>1, ScheduleFacts
    <3>2. CASE UNCHANGED updater
      <4>1. UNCHANGED <<m_Waiters, m_List, waits, coros>>
        BY <3>2 DEF updater
      <4>2. Grown
        BY <4>1, Basics DEF Grown, Served
      <4>3. Listed' /\ OneCoro'
        BY <4>1 DEF Listed, OneCoro, Served
      <4> QED
        BY <4>1, <4>2, <4>3 DEF TypeOK
    <3> QED
      BY <1>4, <3>1, <3>2
  <2>3. /\ entry \in Entries
        /\ key \notin raced => Safe(key, entry.value) /\ returned[key] <= entry.value
    BY <1>4, HitFacts
  <2> HIDE DEF entry
  <2>4. PICK value \in Nat, stamp \in Nat : value = entry.value /\ stamp = entry.created_at
    BY <2>3 DEF Entries
  <2>5. PICK since \in Nat, floor \in Nat \cup {-1} : since = now /\ floor = returned[key]
    BY DEF TypeOK
  <2>6. slow \/ stamp + Deadline > since
    BY <1>4, <2>4, <2>5, CacheAssumption DEF Expired
  <2>7. key \in raced \/ (floor <= value /\ Safe(key, value))
    BY <2>3, <2>4, <2>5
  <2>8. Returns(g, key, value, stamp, since, floor)
    BY <1>4, <2>4, <2>5
  <2> QED
    BY <1>0, <2>1, <2>2, <2>6, <2>7, <2>8, ReturnsIInv
<1> QED
  BY <1>1, <1>2, <1>3, <1>4

\* A Get that waited returns.
LEMMA ResumesIInv ==
  ASSUME IInv, NEW g \in Gets, Resumes(g)
  PROVE  IInv'
<1> USE DEF IInv
<1>1. /\ get[g].at = "posted" /\ UNCHANGED <<m_Lru, updater, now, source, puts, throws, slow, raced>>
      /\ Returns(g, waits[get[g].ptr].key, waits[get[g].ptr].value, waits[get[g].ptr].stamp,
                 get[g].since, get[g].floor)
  BY DEF Resumes
<1>2. WaitingOf(g) /\ get[g] \in Suspended
  BY <1>1, GetStates DEF Waiting, TypeOK
<1>3. PICK d \in 1..Len(waits) : d = get[g].ptr
  BY <1>1, <1>2, Basics DEF WaitingOf, Suspended
<1>4. waits[d] \in WaitDatas
  BY Basics
<1>5. PICK key \in AllKeys, value \in Nat \cup {-1}, stamp \in Nat :
        key = waits[d].key /\ value = waits[d].value /\ stamp = waits[d].stamp
  BY <1>4 DEF WaitDatas
<1>6. PICK since \in Nat, floor \in Nat \cup {-1} : since = get[g].since /\ floor = get[g].floor
  BY <1>2 DEF Suspended
<1>7. Returns(g, key, value, stamp, since, floor)
  BY <1>1, <1>3, <1>5, <1>6
<1>8. (slow \/ stamp + Deadline > since) /\ (key \in raced \/ floor <= value)
  BY <1>1, <1>2, <1>3, <1>5, <1>6 DEF WaitingOf
<1>9. key \in raced \/ Safe(key, value)
  BY <1>5 DEF Order, Upto, Safe
<1>10. UNCHANGED <<m_Lru, m_Waiters, m_List, waits, coros>>
  BY <1>1 DEF updater
<1>11. Grown /\ CacheKept
  BY <1>10, Basics DEF Grown, CacheKept, Served
<1>12. Listed' /\ OneCoro' /\ CacheOK'
  BY <1>10 DEF Listed, OneCoro, CacheOK, Indexed, Served
<1>13. /\ m_Lru' \in Seq(Elements) /\ m_Waiters' \in [AllKeys -> Nat] /\ m_List' \in Seq(Nat)
       /\ waits' \in Seq(WaitDatas) /\ coros' \in SUBSET Frames
       /\ \A f \in coros' : f.at = "read" => f \in coros
  BY <1>10 DEF TypeOK
<1>14. UNCHANGED <<now, source, puts, throws, slow, raced>>
  BY <1>1
<1> QED
  BY <1>7, <1>8, <1>9, <1>11, <1>12, <1>13, <1>14, ReturnsIInv

\* The user puts what the source holds.
LEMMA PutIInv ==
  ASSUME IInv, NEW key \in AllKeys, Put(key)
  PROVE  IInv'
<1> USE DEF IInv
<1> DEFINE x == Entry(source, now)
<1>1. /\ m_Lru' = L!Put(m_Lru, key, x, MaxSize) /\ puts' \in Nat
      /\ UNCHANGED <<m_Waiters, m_List, waits, coros, get, now, source, throws, returned, slow>>
  BY DEF Put, updater, TypeOK
<1>2. /\ raced' \in SUBSET AllKeys /\ raced \subseteq raced'
      /\ key \notin raced' => \A f \in coros : f.at = "read" => waits[f.of].key # key
  BY DEF Put, TypeOK
<1>3. x \in Entries /\ x.value = source /\ source \in Nat
  BY DEF Entry, Entries, TypeOK
<1> HIDE DEF x
<1>4. /\ m_Lru' \in Seq(Elements) /\ CacheOK'
      /\ \A i \in 1..Len(m_Lru') :
           \/ m_Lru'[i] = [key |-> key, value |-> x]
           \/ m_Lru'[i].key # key /\ \E j \in 1..Len(m_Lru) : m_Lru'[i] = m_Lru[j]
  <2> DEFINE p == L!Put(m_Lru, key, x, MaxSize)
  <2>1. m_Lru \in Seq(Elements) /\ Indexed(m_Lru) /\ MaxSize \in Nat /\ Len(m_Lru) <= MaxSize
    BY CacheAssumption DEF CacheOK, TypeOK
  <2>2. /\ p \in Seq(Elements) /\ Indexed(p) /\ Len(p) <= MaxSize
        /\ \A i \in 1..Len(p) :
             \/ p[i] = [key |-> key, value |-> x]
             \/ p[i].key # key /\ \E j \in 1..Len(m_Lru) : p[i] = m_Lru[j]
    BY <1>3, <2>1, PutFacts
  <2>3. m_Lru' = p
    BY <1>1
  <2> HIDE DEF p
  <2> QED
    BY <2>2, <2>3 DEF CacheOK, Indexed
<1>5. TypeOK'
  BY <1>1, <1>2, <1>4 DEF TypeOK
<1>6. Listed' /\ OneCoro'
  BY <1>1 DEF Listed, OneCoro, Served
<1>7. Order'
  <2> SUFFICES ASSUME NEW k \in AllKeys \ raced'
               PROVE  /\ Upto(k, source) /\ CachedUpto(k, source)'
                      /\ \A i \in 1..Len(m_Lru') :
                           m_Lru'[i].key = k => Upto(k, m_Lru'[i].value.value)
                      /\ \A f \in coros : f.at = "read" /\ waits[f.of].key = k =>
                           Upto(k, f.value) /\ CachedUpto(k, f.value)' /\ f.value <= source
    BY <1>1 DEF Order, Upto, CachedUpto
  <2>1. /\ Upto(k, source) /\ CachedUpto(k, source)
        /\ \A i \in 1..Len(m_Lru) : m_Lru[i].key = k => Upto(k, m_Lru[i].value.value)
        /\ \A f \in coros : f.at = "read" /\ waits[f.of].key = k =>
             Upto(k, f.value) /\ CachedUpto(k, f.value) /\ f.value <= source
    BY <1>2 DEF Order
  <2>2. ASSUME NEW i \in 1..Len(m_Lru'), m_Lru'[i].key = k
        PROVE  \/ k = key /\ m_Lru'[i].value.value = source
               \/ k # key /\ \E j \in 1..Len(m_Lru) : m_Lru'[i] = m_Lru[j] /\ m_Lru[j].key = k
    <3>1. CASE m_Lru'[i] = [key |-> key, value |-> x]
      BY <1>3, <2>2, <3>1
    <3>2. CASE m_Lru'[i].key # key /\ \E j \in 1..Len(m_Lru) : m_Lru'[i] = m_Lru[j]
      BY <2>2, <3>2
    <3> QED
      BY <1>4, <3>1, <3>2
  <2>3. CachedUpto(k, source)'
    <3>1. source <= source /\ source' = source
      BY <1>1, <1>3
    <3> QED
      BY <2>1, <2>2, <3>1 DEF CachedUpto
  <2>4. \A i \in 1..Len(m_Lru') : m_Lru'[i].key = k => Upto(k, m_Lru'[i].value.value)
    BY <2>1, <2>2
  <2>5. ASSUME NEW f \in coros, f.at = "read", waits[f.of].key = k
        PROVE  Upto(k, f.value) /\ CachedUpto(k, f.value)' /\ f.value <= source
    <3>1. k # key
      BY <1>2, <2>5
    <3>2. CachedUpto(k, f.value)'
      BY <2>1, <2>2, <2>5, <3>1 DEF CachedUpto
    <3> QED
      BY <2>1, <2>5, <3>2
  <2> QED
    BY <2>1, <2>3, <2>4, <2>5
<1>8. Waiting'
  <2>1. Grown
    BY <1>1, Basics DEF Grown, Served
  <2>2. /\ now' \in Nat /\ now' >= now /\ slow' = slow
        /\ \A k \in AllKeys : returned'[k] >= returned[k] /\ returned'[k] \in Int
    BY <1>1 DEF TypeOK
  <2>3. ASSUME NEW g \in Gets PROVE WaitingOf(g)'
    BY <1>1, <1>2, <2>1, <2>2, WaitingKept
  <2> QED
    BY <2>3 DEF Waiting
<1> QED
  BY <1>4, <1>5, <1>6, <1>7, <1>8

\* Every step keeps the invariant.
LEMMA NextIInv == IInv /\ [Next]_vars => IInv'
<1> SUFFICES ASSUME IInv, [Next]_vars PROVE IInv'
  OBVIOUS
<1>1. CASE CoroStarts \/ HandlerThrows
  BY <1>1, CoroIInv
<1>2. CASE HandlerReads
  BY <1>2, HandlerReadsIInv
<1>3. CASE HandlerReturns
  BY <1>3, HandlerReturnsIInv
<1>4. CASE \E g \in Gets : Resumes(g)
  BY <1>4, ResumesIInv
<1>5. CASE \E g \in Gets, key \in AllKeys : Get(g, key)
  BY <1>5, GetIInv
<1>6. CASE \E key \in AllKeys : Put(key)
  BY <1>6, PutIInv
<1>7. CASE Tick \/ Change
  BY <1>7, WorldIInv
<1>8. CASE UNCHANGED vars
  <2>1. UNCHANGED <<m_Lru, m_Waiters, m_List, waits, coros, get, returned, slow, raced,
                    now, source, puts, throws>>
    BY <1>8 DEF vars, updater, history
  <2>2. OneCoro'
    BY <2>1 DEF IInv, OneCoro, Served
  <2>3. now' \in Nat /\ now' >= now /\ source' \in Nat /\ source' >= source
    BY <2>1 DEF IInv, TypeOK
  <2> QED
    BY <2>1, <2>2, <2>3, QuietStep DEF IInv, TypeOK
<1> QED
  BY <1>1, <1>2, <1>3, <1>4, <1>5, <1>6, <1>7, <1>8 DEF Next, Coroutines

\* The invariant that is inductive.
THEOREM Invariant == Spec => []IInv
BY InitIInv, NextIInv, PTL DEF Spec

\* Whatever way a Get takes (a hit of CacheAdapter::Get, a refresh it starts with
\* KeyUpdater::Wait, or one it joins), what it returns was read from the source
\* less than m_Deadline before it was called, unless a handler was slower than
\* the deadline.
THEOREM FreshHolds == Spec => []Fresh
<1>1. IInv => Fresh
  BY GetStates DEF IInv, TypeOK, Fresh
<1> QED
  BY <1>1, Invariant, PTL

\* No Get returns a value older than one returned before the Get was called, for
\* any interleaving of evictions, early refreshes and refreshes that are joined,
\* unless the user put the key while a handler had read it.
THEOREM MonotonicReadsHolds == Spec => []MonotonicReads
<1>1. IInv => MonotonicReads
  BY GetStates DEF IInv, TypeOK, MonotonicReads
<1> QED
  BY <1>1, Invariant, PTL

\* LRU::Put and LRU::Get keep m_Index a function of the list (a key has one
\* element), and Shrink keeps the list within its size.
THEOREM CacheHolds == Spec => []CacheOK
<1>1. IInv => CacheOK
  BY DEF IInv
<1> QED
  BY <1>1, Invariant, PTL

=============================================================================

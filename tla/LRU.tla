---------------------------------- MODULE LRU ----------------------------------
(***************************************************************************)
(* Cache::LRU (cache/LRU.hpp).  m_Lru is a sequence of [key, value] with   *)
(* the last used first; m_Index finds the element of a key, so what it     *)
(* holds is the set of keys of m_Lru.                                      *)
(***************************************************************************)
EXTENDS Integers, Sequences

Keys(lru) == {lru[i].key : i \in DOMAIN lru}
Find(lru, key) == CHOOSE i \in DOMAIN lru : lru[i].key = key
ValueOf(lru, key) == lru[Find(lru, key)].value

\* Remove; the code has no key that is not in the index here.
Remove(lru, key) ==
  LET i == Find(lru, key) IN SubSeq(lru, 1, i - 1) \o SubSeq(lru, i + 1, Len(lru))

\* Update: the element becomes the first.
Touch(lru, key) == <<lru[Find(lru, key)]>> \o Remove(lru, key)

\* Get, as far as it changes the list.
Get(lru, key) == IF key \in Keys(lru) THEN Touch(lru, key) ELSE lru

Insert(lru, key, value) == <<[key |-> key, value |-> value]>> \o lru

\* Shrink: the last used longest ago leaves.
Shrink(lru, size) == IF Len(lru) <= size THEN lru ELSE Remove(lru, lru[Len(lru)].key)

\* Put: an assignment through the index, or a new element.
Put(lru, key, value, size) ==
  IF key \in Keys(lru) THEN Insert(Remove(lru, key), key, value)
                       ELSE Shrink(Insert(lru, key, value), size)
=============================================================================

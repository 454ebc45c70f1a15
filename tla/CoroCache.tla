------------------------------- MODULE CoroCache -------------------------------
(***************************************************************************)
(* The coroutine cache of threads/Coro.hpp: CacheAdapter over Cache::LRU,  *)
(* and KeyUpdater, whose one Coro() refreshes the wanted keys in turn      *)
(* while the callers of Get wait.                                          *)
(*                                                                         *)
(* All coroutines run on one thread: an action is what runs between two    *)
(* suspensions.  The handler of the user always suspends.  It reads the    *)
(* source of the values, which changes as it likes, at one moment and      *)
(* returns what it read with the time of that moment.                      *)
(***************************************************************************)
EXTENDS Integers, Sequences, FiniteSets

CONSTANTS
  MaxGets,      \* bound: calls of CacheAdapter::Get
  AllKeys,      \* the keys
  MaxSize,      \* the size of the LRU
  Deadline,     \* m_Deadline
  Times,        \* the moments the clock shows
  MaxSource,    \* bound: changes of the source
  MaxPuts,      \* bound: calls of Put by the user
  MaxThrows     \* bound: handlers that throw

ASSUME CacheAssumption ==
  /\ {MaxGets, MaxSize, Deadline, MaxSource, MaxPuts, MaxThrows} \subseteq Nat
  /\ Times \subseteq Nat /\ 0 \in Times

VARIABLES
  m_Lru,      \* the cache; its values are Entry records
  m_Waiters,  \* for each key the WaitData that is scheduled, or None
  m_List,     \* the WaitData to refresh, the one under way first
  waits,      \* every WaitData ever made: its key, its value once there is one
  coros,      \* the frames of Coro()
  get,        \* the state of each Get
  now, source,
  puts, throws,
  returned,   \* history: for each key the newest value a Get has returned
  slow,       \* history: a handler returned what was past its deadline
  raced       \* history: the keys put by the user while a handler had read them

updater == <<m_Waiters, m_List, waits, coros>>
history == <<returned, slow, raced>>
vars == <<m_Lru, updater, get, now, source, puts, throws, history>>

L == INSTANCE LRU
Gets == 1 .. MaxGets     \* the calls, numbered as they are made
None == 0
Entry(value, created_at) ==
  [value |-> value, created_at |-> created_at, early_refresh |-> FALSE]
NoFrame == [of |-> None, at |-> "posted", value |-> -1, stamp |-> 0]

Init ==
  /\ m_Lru = <<>>
  /\ m_Waiters = [k \in AllKeys |-> None]
  /\ m_List = <<>> /\ waits = <<>> /\ coros = {}
  /\ get = [g \in Gets |-> [at |-> "idle"]]
  /\ now = 0 /\ source = 0 /\ puts = 0 /\ throws = 0
  /\ returned = [k \in AllKeys |-> -1]
  /\ slow = FALSE /\ raced = {}

(***************************************************************************)
(* The world: time passes, the values change.                              *)
(***************************************************************************)
Tick ==
  /\ \E t \in Times : t > now /\ now' = t
  /\ UNCHANGED <<m_Lru, updater, get, source, puts, throws, history>>

Change ==
  /\ source < MaxSource
  /\ source' = source + 1
  /\ UNCHANGED <<m_Lru, updater, get, now, puts, throws, history>>

(***************************************************************************)
(* KeyUpdater.                                                             *)
(***************************************************************************)
\* Mutants of Spawn: every WaitData gets a Coro(); m_List is tested after the
\* push_back.
SpawnAlways(list, frames) == frames \cup {NoFrame}
SpawnNever(list, frames) == frames

\* Spawn: a Coro() is started by the first in the list.
Spawn(list, frames) == IF list = <<>> THEN frames \cup {NoFrame} ELSE frames

\* Schedule: the WaitData of the key, made if there is none.
Scheduled(key) == IF m_Waiters[key] # None THEN m_Waiters[key] ELSE Len(waits) + 1
Schedule(key) ==
  \/ m_Waiters[key] # None /\ UNCHANGED updater
  \/ /\ m_Waiters[key] = None
     /\ waits' = Append(waits, [key |-> key, value |-> -1, stamp |-> 0])
     /\ m_Waiters' = [m_Waiters EXCEPT ![key] = Len(waits) + 1]
     /\ m_List' = Append(m_List, Len(waits) + 1)
     /\ coros' = Spawn(m_List, coros)

\* Coro() goes round its loop with this list: the handler of the first is called.
Around(frame, list) ==
  IF list = <<>> THEN coros \ {frame}
  ELSE (coros \ {frame}) \cup {[NoFrame EXCEPT !.of = Head(list), !.at = "called"]}

CoroStarts ==
  \E frame \in coros :
    /\ frame.at = "posted"
    /\ coros' = Around(frame, m_List)
    /\ UNCHANGED <<m_Lru, m_Waiters, m_List, waits, get, now, source, puts, throws, history>>

\* The handler reads the source.
HandlerReads ==
  \E frame \in coros :
    /\ frame.at = "called"
    /\ coros' = (coros \ {frame})
                  \cup {[of |-> frame.of, at |-> "read", value |-> source, stamp |-> now]}
    /\ UNCHANGED <<m_Lru, m_Waiters, m_List, waits, get, now, source, puts, throws, history>>

PopFront(list) == SubSeq(list, 2, Len(list))
Erased(key) == [m_Waiters EXCEPT ![key] = None]

\* Refresh and the rest of Coro()'s loop: the value goes to the cache, all who
\* wait for it are posted, the WaitData leaves m_Waiters and m_List.
HandlerReturns ==
  \E frame \in coros :
    LET d == frame.of
        key == waits[d].key
    IN  /\ frame.at = "read"
        /\ waits' = [waits EXCEPT ![d] =
                       [key |-> key, value |-> frame.value, stamp |-> frame.stamp]]
        /\ m_Lru' = L!Put(m_Lru, key, Entry(frame.value, frame.stamp), MaxSize)
        /\ get' = [g \in Gets |-> IF get[g].at = "waiting" /\ get[g].ptr = d
                                    THEN [get[g] EXCEPT !.at = "posted"] ELSE get[g]]
        /\ m_Waiters' = Erased(key)
        /\ m_List' = PopFront(m_List)
        /\ coros' = Around(frame, PopFront(m_List))
        /\ slow' = (slow \/ frame.stamp + Deadline <= now)
        /\ UNCHANGED <<now, source, puts, throws, returned, raced>>

\* The handler throws, nobody catches: Coro() is gone and m_List is as it was.
HandlerThrows ==
  \E frame \in coros :
    /\ frame.at \in {"called", "read"} /\ throws < MaxThrows
    /\ throws' = throws + 1
    /\ coros' = coros \ {frame}
    /\ UNCHANGED <<m_Lru, m_Waiters, m_List, waits, get, now, source, puts, history>>

(***************************************************************************)
(* CacheAdapter.                                                           *)
(***************************************************************************)
\* A Get that was called at a time when floor was the newest value returned for
\* the key returns this value, read at the time stamp.
Returns(g, key, value, stamp, since, floor) ==
  /\ get' = [get EXCEPT ![g] = [at |-> "done",
                                fresh |-> slow \/ stamp + Deadline > since,
                                older |-> value < floor /\ key \notin raced]]
  /\ returned' = [returned EXCEPT ![key] = IF value > @ THEN value ELSE @]

\* KeyUpdater::Wait, up to its first suspension: a value that is there is
\* returned (there is none while handlers suspend), otherwise the Get joins the
\* waiters.
Wait(g, key) ==
  /\ Schedule(key)
  /\ LET d == Scheduled(key) IN
       IF waits'[d].value # -1
       THEN Returns(g, key, waits'[d].value, waits'[d].stamp, now, returned[key])
       ELSE /\ get' = [get EXCEPT ![g] = [at |-> "waiting", ptr |-> d, since |-> now,
                                          floor |-> returned[key]]]
            /\ UNCHANGED returned

\* Mutant: the entry is good at its deadline.
ExpiredLate(entry) == entry.created_at + Deadline < now

Expired(entry) == entry.created_at + Deadline <= now
Early(entry) ==
  [value |-> entry.value, created_at |-> entry.created_at, early_refresh |-> TRUE]
Almost(entry) == 10 * entry.created_at + 9 * Deadline <= 10 * now

Get(g, key) ==
  LET hit == key \in L!Keys(m_Lru)
      entry == L!ValueOf(m_Lru, key)
      early == Almost(entry) /\ ~entry.early_refresh
  IN  /\ get[g].at = "idle" /\ \A h \in 1 .. g - 1 : get[h].at # "idle"
      /\ \/ /\ ~hit
            /\ Wait(g, key)
            /\ UNCHANGED m_Lru
         \/ /\ hit /\ Expired(entry)
            /\ Wait(g, key)
            /\ m_Lru' = L!Get(m_Lru, key)
         \/ /\ hit /\ ~Expired(entry)
            /\ \/ /\ early
                  /\ Schedule(key)
                  /\ m_Lru' = [L!Get(m_Lru, key) EXCEPT ![1] = [key |-> key, value |-> Early(entry)]]
               \/ /\ ~early
                  /\ m_Lru' = L!Get(m_Lru, key)
                  /\ UNCHANGED updater
            /\ Returns(g, key, entry.value, entry.created_at, now, returned[key])
      /\ UNCHANGED <<now, source, puts, throws, slow, raced>>

\* The Get that waited is resumed.
Resumes(g) ==
  /\ get[g].at = "posted"
  /\ LET d == waits[get[g].ptr] IN
       Returns(g, d.key, d.value, d.stamp, get[g].since, get[g].floor)
  /\ UNCHANGED <<m_Lru, updater, now, source, puts, throws, slow, raced>>

\* Put by the user, with what the source holds.
Put(key) ==
  /\ puts < MaxPuts
  /\ puts' = puts + 1
  /\ m_Lru' = L!Put(m_Lru, key, Entry(source, now), MaxSize)
  /\ raced' = IF \E frame \in coros : frame.at = "read" /\ waits[frame.of].key = key
              THEN raced \cup {key} ELSE raced
  /\ UNCHANGED <<updater, get, now, source, throws, returned, slow>>

Coroutines ==
  CoroStarts \/ HandlerReads \/ HandlerReturns \/ \E g \in Gets : Resumes(g)

Next ==
  \/ Coroutines
  \/ HandlerThrows
  \/ \E g \in Gets, key \in AllKeys : Get(g, key)
  \/ \E key \in AllKeys : Put(key)
  \/ Tick \/ Change

Spec == Init /\ [][Next]_vars

\* The executor runs what is ready, and a handler that does not throw returns.
FairSpec == Spec /\ WF_vars(Coroutines)

(***************************************************************************)
(* Properties.                                                             *)
(***************************************************************************)
\* A Get returns a value that was read from the source less than m_Deadline
\* before the Get was called, whether it comes from the cache, from a refresh
\* the Get started, or from one it joined half-way.  Except: a handler took
\* longer than the deadline to return what it had read.
Fresh ==
  \A g \in Gets : get[g].at = "done" => get[g].fresh

\* Reads do not go backwards: a Get returns nothing older than what any Get of
\* the key had returned before it was called, through evictions, early refreshes
\* and joined refreshes.  Except: the user put the key while a handler that had
\* read the source before was still to return.
MonotonicReads ==
  \A g \in Gets : get[g].at = "done" => ~get[g].older

\* Every Get returns.  Except: a handler threw, and the Get has to wait: the
\* WaitData whose handler threw stays the first of m_List, so no Coro() is
\* started again for any key.
GetsReturn ==
  \A g \in Gets :
    (get[g].at # "idle") ~> (get[g].at = "done" \/ (get[g].at = "waiting" /\ throws > 0))
=============================================================================

------------------------------ MODULE Balancer ------------------------------
(***************************************************************************)
(* The balancer of sd/Balancer.hpp: ByWeight picks a peer for each call    *)
(* from the list that Engine::read_i brought, by weight and round robin,   *)
(* or by the sticky ring of hash/Ring.hpp; a PeerInfo per key remembers    *)
(* the peer's budget and its circuit Breaker while the list changes.       *)
(*                                                                         *)
(* random() and update() run under Engine::m_Mutex; add() comes from the   *)
(* threads whose call has ended.  Clock values are kept as "a second has   *)
(* passed since", the smoothed latency and success rate as what they       *)
(* decide: any weight an adjusted entry may have, and whether the success  *)
(* rate is below CLOSE_RATE.                                               *)
(***************************************************************************)
EXTENDS Integers, Sequences, FiniteSets, SequencesExt, FiniteSetsExt

CONSTANTS
  Keys,     \* the keys of peers, in the order of std::sort
  Lists,    \* the lists read from etcd: weights, once adjusted, by key
  Flaky,    \* the peers whose success rate may fall below CLOSE_RATE
  Period    \* Breaker::PERIOD

ASSUME ListsAssumption ==
  /\ Keys \subseteq Nat /\ IsFiniteSet(Keys)
  /\ \A l \in Lists : DOMAIN l \subseteq Keys /\ \A k \in DOMAIN l : l[k] \in Nat
  /\ Flaky \subseteq Keys
  /\ Period \in Nat \ {0}

VARIABLES
  m_Peers,  \* ByWeight::m_Peers, the keys in order
  weight,   \* the weights of m_Peers
  m_Step,   \* ByWeight::m_Step, the weight one call costs
  m_Budget, \* PeerInfo::m_Budget of every key; m_Store forgets no PeerInfo
  info,     \* the Breaker and the clock of every PeerInfo
  called,   \* the peers random() has returned: a call to one of them may end
  m_Pos,    \* ByWeight::m_Pos
  calm,     \* second_chance is set and m_RPS / m_TotalWeight < MAX_UTIL
  call,     \* the last call of random() in this second: "none" (aNow > m_LastTime),
            \* "plain", or by "session"
  last      \* history: the peer random() returned, or Nobody

listVars == <<m_Peers, weight, m_Step, calm>>
vars == <<listVars, m_Budget, info, called, m_Pos, call, last>>

Nobody == -1

\* spent and close are the Breaker's members, behind says aNow > m_CurrentTime,
\* and bad that the success rate is below CLOSE_RATE.
NewPeer == [spent |-> 0, close |-> FALSE, behind |-> TRUE, bad |-> FALSE]

Init ==
  /\ m_Peers = <<>> /\ weight = <<>> /\ m_Step = 0
  /\ m_Budget = [k \in Keys |-> 0]
  /\ info = [k \in Keys |-> NewPeer]
  /\ called = {}
  /\ m_Pos = 0
  /\ calm = FALSE /\ call = "none"
  /\ last = Nobody

-----------------------------------------------------------------------------
(* Breaker and PeerInfo.                                                   *)

\* Breaker::update.  While the breaker is open only "at least PERIOD" matters.
BreakerUpdate(p) ==
  LET spent == p.spent + 1
  IN  CASE p.close /\ spent > Period -> [p EXCEPT !.spent = 0, !.close = FALSE]
        [] ~p.close /\ spent >= Period /\ p.bad -> [p EXCEPT !.spent = 0, !.close = TRUE]
        [] OTHER -> [p EXCEPT !.spent = IF spent > Period THEN Period ELSE spent]

\* PeerInfo::prepare: once a second.
Prepare(p) == IF p.behind THEN [BreakerUpdate(p) EXCEPT !.behind = FALSE] ELSE p

PrepareAll(ps, keys) == [k \in Keys |-> IF k \in keys THEN Prepare(ps[k]) ELSE ps[k]]

\* PeerInfo::add, at the end of a call.  prepare() does nothing if the caller
\* still has the time of its random(); the success rate may pass CLOSE_RATE with
\* any result, since it takes in the second before this one.
Add(k) ==
  /\ k \in called
  /\ \E p \in {info[k], Prepare(info[k])}, bad \in BOOLEAN :
       /\ bad => k \in Flaky
       /\ info' = [info EXCEPT ![k] = [p EXCEPT !.bad = bad]]
  /\ UNCHANGED <<listVars, m_Budget, called, m_Pos, call, last>>

-----------------------------------------------------------------------------
(* ByWeight::update                                                        *)

\* adjust_weight: a closed breaker leaves no weight.
Adjust(l) == [k \in DOMAIN l |-> IF info[k].close THEN 0 ELSE l[k]]

\* The running minimum starts again after every weight of zero, so it ends as
\* the least weight behind the last zero, or as zero if that is the end.
MinWeight(peers, w) ==
  LET n == Len(peers)
      run == {i \in 1 .. n : \A j \in i .. n : w[peers[j]] > 0}
  IN  IF run = {} THEN 0 ELSE Min({w[peers[i]] : i \in run})

\* A new list: PeerInfos are kept by key, budgets cut to the new weights.
Update(l) ==
  /\ m_Peers' = SetToSortSeq(DOMAIN l, <)
  /\ weight' = Adjust(l)
  /\ m_Budget' = [k \in Keys |-> IF k \in DOMAIN l /\ m_Budget[k] > weight'[k]
                                 THEN weight'[k] ELSE m_Budget[k]]
  /\ m_Step' = MinWeight(m_Peers', weight')
  /\ calm' \in BOOLEAN
  /\ UNCHANGED <<info, called, m_Pos, call, last>>

-----------------------------------------------------------------------------
(* ByWeight::random                                                        *)

Positions == DOMAIN m_Peers

\* A choice: so many rewind(), then the peer at a position pays m_Step.
Pay(b, c) ==
  [k \in Keys |-> IF k \notin DOMAIN weight THEN b[k]
                  ELSE b[k] + c.rounds * weight[k] - (IF k = m_Peers[c.at] THEN m_Step ELSE 0)]

\* The positions that can pay after n rewinds.
Able(b, n) == {i \in Positions : b[m_Peers[i]] + n * weight[m_Peers[i]] >= m_Step}

\* Mutant of RandomI: the search starts at the same place again.
RandomIStays(b, pos) ==
  LET rounds == Min({n \in 0 .. m_Step : Able(b, n) # {}})
      n == Len(m_Peers)
      steps == Min({i \in 0 .. n - 1 : ((pos + i) % n) + 1 \in Able(b, rounds)})
  IN  [rounds |-> rounds, at |-> ((pos + steps) % n) + 1, pos |-> (pos + steps) % n]

\* random_i: the next position able to pay from m_Pos on, after as many rewinds
\* as it takes.
RandomI(b, pos) ==
  LET rounds == Min({n \in 0 .. m_Step : Able(b, n) # {}})
      able == Able(b, rounds)
      n == Len(m_Peers)
      steps == Min({i \in 0 .. n - 1 : ((pos + i) % n) + 1 \in able})
  IN  [rounds |-> rounds, at |-> ((pos + steps) % n) + 1, pos |-> ((pos + steps) % n) + 1]

\* try_session: a position of the ring, which may be any, able to pay, after one
\* rewind if nobody is.
TrySession(i) ==
  [rounds |-> IF Able(m_Budget, 0) = {} THEN 1 ELSE 0, at |-> i, pos |-> m_Pos]

\* The first choice, by session if i is a position.  0 stands for a call without
\* a session, for a list without a choice, and for a ring with nobody able to pay.
First(i) == IF i = 0 THEN RandomI(m_Budget, m_Pos) ELSE TrySession(i)
Sticky == {i \in Positions : Len(m_Peers) > 1 /\ i \in Able(m_Budget, TrySession(i).rounds)}

\* Mutant of Alive: only the peer that is chosen is tested.
AliveUntested == info

\* Every second the breakers of the whole list are tested ("allow peer to
\* recover").
Alive == IF call = "none" THEN PrepareAll(info, DOMAIN weight) ELSE info

\* test(aNow) of the peer chosen.
Tested(ps, c) == PrepareAll(ps, {m_Peers[c.at]})
Refused(ps, c) == Prepare(ps[m_Peers[c.at]]).close

\* random() ends with this choice: its peer, or "blocked by circuit breaker".
Ends(ps, b, c) ==
  /\ info' = Tested(ps, c)
  /\ m_Budget' = Pay(b, c)
  /\ m_Pos' = c.pos
  /\ last' = IF Refused(ps, c) THEN Nobody ELSE m_Peers[c.at]
  /\ called' = called \cup ({last'} \ {Nobody})

NoPeers == \A i \in Positions : weight[m_Peers[i]] = 0

\* "no peers available"
RandomFails ==
  /\ NoPeers
  /\ call' = "plain"
  /\ info' = Alive
  /\ last' = Nobody
  /\ UNCHANGED <<listVars, m_Budget, called, m_Pos>>

SecondChance == calm /\ Len(m_Peers) > 1

\* A peer is chosen and tested; if its breaker is closed and the peers are not
\* busy, there is a second chance with the next one.
Random(i) ==
  /\ ~NoPeers
  /\ call' = IF i = 0 THEN "plain" ELSE "session"
  /\ \E one \in {First(i)}, ps \in {Alive} :
       \/ /\ SecondChance /\ Refused(ps, one)
          /\ \E b \in {Pay(m_Budget, one)} :
               \E two \in {RandomI(b, one.pos)} : Ends(Tested(ps, one), b, two)
       \/ ~(SecondChance /\ Refused(ps, one)) /\ Ends(ps, m_Budget, one)
  /\ UNCHANGED listVars

Second ==
  /\ call' = "none"
  /\ info' = [k \in Keys |-> [info[k] EXCEPT !.behind = TRUE]]
  /\ UNCHANGED <<listVars, m_Budget, called, m_Pos, last>>

-----------------------------------------------------------------------------
Next ==
  \/ \E l \in Lists : Update(l)
  \/ RandomFails
  \/ \E i \in {0} \cup Sticky : Random(i)
  \/ \E k \in Keys : Add(k)
  \/ Second

\* Again and again a second begins, and there is a call without a session.
Fairness == []<>(call = "none") /\ []<>(call = "plain")

Spec == Init /\ [][Next]_vars
FairSpec == Spec /\ Fairness

-----------------------------------------------------------------------------
(* Properties.                                                             *)

\* random() starves nobody: a peer that stays in the list with an open breaker
\* and a weight that covers a step is returned again and again, however the list,
\* the weights of the others and the sessions change.
NotStarved ==
  \A k \in Keys :
    <>[](/\ k \in DOMAIN weight /\ weight[k] > 0 /\ weight[k] >= m_Step
         /\ ~info[k].close)
    => []<>(last = k)

\* A closed breaker opens again: the peer has no weight and is never chosen, but
\* random() tests it every second (Balancer.hpp:379), as long as it is listed.
BreakerReopens ==
  \A k \in Keys :
    (info[k].close /\ k \in DOMAIN weight) ~> (~info[k].close \/ k \notin DOMAIN weight)
=============================================================================

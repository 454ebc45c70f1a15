------------------------------ MODULE Discovery ------------------------------
(***************************************************************************)
(* Service discovery through etcd: SD::Notify (sd/Notify.hpp) publishes    *)
(* the value of a service under a lease, SD::Balancer::Engine              *)
(* (sd/Balancer.hpp) polls the published values.  The lease calls are      *)
(* those of Etcd::Client (etcd/Etcd.hpp); etcd itself is external.         *)
(*                                                                         *)
(* A Notify is a coroutine that waits in every etcd call while update()    *)
(* and stop() come from other threads.  An answer may be lost or come too  *)
(* late, and a put given up may reach etcd afterwards.  A service may      *)
(* crash and come back as a new Notify.                                    *)
(***************************************************************************)
EXTENDS Registration

notifyVars == <<pc, rpc, m_Stop, m_Lease, m_Value, m_Refresh, sLease, sValue>>
etcdVars   == <<leases, granted, kv, late>>
engineVars == <<m_Peers, engine>>
vars == <<notifyVars, etcdVars, engineVars, budget, overtaken>>

Init ==
  /\ pc = [n \in Services |-> "wait"]
  /\ rpc = [n \in Services |-> "none"]
  /\ m_Stop = [n \in Services |-> FALSE]
  /\ m_Lease = [n \in Services |-> NoLease]
  /\ m_Value \in [Services -> FirstValues]
  /\ m_Refresh = [n \in Services |-> FALSE]
  /\ sLease = [n \in Services |-> NoLease]
  /\ sValue = [n \in Services |-> None]
  /\ leases = {} /\ granted = 0
  /\ kv = [n \in Services |-> NoKey]
  /\ late = {}
  /\ m_Peers = [n \in Services |-> None] /\ engine = "starting"
  /\ budget = [updates |-> MaxUpdates, faults |-> MaxFailures, late |-> MaxLate]
  /\ overtaken = [n \in Services |-> FALSE]

Spend(what) ==
  /\ budget[what] > 0
  /\ budget' = [budget EXCEPT ![what] = @ - 1]

(***************************************************************************)
(* etcd: what a call does when it arrives.                                 *)
(***************************************************************************)
Put(n, value, lease) ==
  IF lease \in leases THEN [kv EXCEPT ![n] = [value |-> value, lease |-> lease]] ELSE kv
Without(lease) == [n \in Services |-> IF kv[n].lease = lease THEN NoKey ELSE kv[n]]
Answer(n, good) == rpc' = [rpc EXCEPT ![n] = IF good THEN "ok" ELSE "bad"]

\* createLease, put, updateLease or dropLease of the service arrives.  The
\* answer to a keepalive is good whether the lease lives or not: etcd says it
\* in the TTL of the answer, at which updateLease does not look.
EtcdApplies(n) ==
  /\ rpc[n] = "sent"
  /\ \/ /\ pc[n] = "create"
        /\ granted' = granted + 1
        /\ leases' = leases \cup {granted'}
        /\ sLease' = [sLease EXCEPT ![n] = granted']
        /\ Answer(n, TRUE)
        /\ UNCHANGED <<kv, overtaken>>
     \/ /\ pc[n] = "put"
        /\ kv' = Put(n, sValue[n], sLease[n])
        /\ overtaken' = [overtaken EXCEPT ![n] = @ /\ sLease[n] \notin leases]
        /\ Answer(n, sLease[n] \in leases)
        /\ UNCHANGED <<leases, granted, sLease>>
     \/ /\ pc[n] = "keep"
        /\ Answer(n, TRUE)
        /\ UNCHANGED <<leases, granted, kv, sLease, overtaken>>
     \/ /\ pc[n] = "drop"
        /\ kv' = IF m_Lease[n] \in leases THEN Without(m_Lease[n]) ELSE kv
        /\ leases' = leases \ {m_Lease[n]}
        /\ Answer(n, m_Lease[n] \in leases)
        /\ UNCHANGED <<granted, sLease, overtaken>>
  /\ UNCHANGED <<pc, m_Stop, m_Lease, m_Value, m_Refresh, sValue, late, engineVars, budget>>

\* A put given up arrives after all.
LatePut ==
  \E p \in late :
    /\ late' = late \ {p}
    /\ kv' = Put(p.key, p.value, p.lease)
    /\ overtaken' = [overtaken EXCEPT ![p.key] = @ \/ p.lease \in leases]
    /\ UNCHANGED <<notifyVars, leases, granted, engineVars, budget>>

\* The ttl of a lease is over.  One that a running service knows is refreshed
\* in time, except where a keepalive comes too late.
Held(lease) == \E n \in Services : ~Over(n) /\ lease \in {m_Lease[n], sLease[n]}
Expires(lease) ==
  /\ leases' = leases \ {lease}
  /\ kv' = Without(lease)
  /\ UNCHANGED <<notifyVars, granted, late, engineVars, overtaken>>

ExpireOrphan ==
  /\ \E lease \in leases : ~Held(lease) /\ Expires(lease)
  /\ UNCHANGED budget

ExpireHeld ==
  /\ Spend("late")
  /\ \E lease \in leases : Held(lease) /\ Expires(lease)

(***************************************************************************)
(* Notify.                                                                 *)
(***************************************************************************)
Calls(n, what) == pc' = [pc EXCEPT ![n] = what] /\ rpc' = [rpc EXCEPT ![n] = "sent"]
Goes(n, where) == pc' = [pc EXCEPT ![n] = where] /\ rpc' = [rpc EXCEPT ![n] = "none"]

\* init(): getValue() and the call of put.
CallsPut(n, lease) ==
  /\ sLease' = [sLease EXCEPT ![n] = lease]
  /\ sValue' = [sValue EXCEPT ![n] = m_Value[n]]
  /\ Calls(n, "put")

\* The Notify is no more: its last coroutine ended, or its process did.
Ends(n, how) ==
  /\ Goes(n, how)
  /\ m_Stop' = [m_Stop EXCEPT ![n] = FALSE]
  /\ m_Lease' = [m_Lease EXCEPT ![n] = NoLease]
  /\ m_Refresh' = [m_Refresh EXCEPT ![n] = FALSE]
  /\ sLease' = [sLease EXCEPT ![n] = NoLease]
  /\ sValue' = [sValue EXCEPT ![n] = None]

\* The coroutine of start() has been started, or its timer fired or was
\* cancelled: the loop, up to the next etcd call.
Loop(n) ==
  /\ pc[n] = "wait"
  /\ \/ /\ m_Stop[n]             \* with Params::no_clear
        /\ Ends(n, "stopped")
     \/ /\ m_Stop[n]             \* without
        /\ Calls(n, "drop")
        /\ UNCHANGED <<m_Stop, m_Lease, m_Refresh, sLease, sValue>>
     \/ /\ ~m_Stop[n] /\ m_Refresh[n]
        /\ Calls(n, "keep")
        /\ UNCHANGED <<m_Stop, m_Lease, m_Refresh, sLease, sValue>>
     \/ /\ ~m_Stop[n] /\ ~m_Refresh[n] /\ m_Lease[n] = NoLease
        /\ Calls(n, "create")
        /\ UNCHANGED <<m_Stop, m_Lease, m_Refresh, sLease, sValue>>
     \/ /\ ~m_Stop[n] /\ ~m_Refresh[n] /\ m_Lease[n] # NoLease
        /\ CallsPut(n, m_Lease[n])
        /\ UNCHANGED <<m_Stop, m_Lease, m_Refresh>>
  /\ UNCHANGED <<m_Value, etcdVars, engineVars, budget, overtaken>>

\* Mutant: init() does not look whether update() came.
PutAnsweredBlindly(n) ==
  /\ m_Lease' = [m_Lease EXCEPT ![n] = sLease[n]]
  /\ m_Refresh' = [m_Refresh EXCEPT ![n] = TRUE]
  /\ UNCHANGED m_Stop

\* init() and put(), the answer: m_Lease is kept, and the value is known to be
\* published unless update() came meanwhile.  init() sets m_Update, too, which
\* only makes the next wait short.
PutAnswered(n) ==
  /\ m_Lease' = [m_Lease EXCEPT ![n] = sLease[n]]
  /\ m_Refresh' = [m_Refresh EXCEPT ![n] = @ \/ sValue[n] = m_Value[n]]
  /\ UNCHANGED m_Stop

\* init() is over, with or without an exception.
InitOver(n) ==
  /\ Goes(n, "wait")
  /\ sLease' = [sLease EXCEPT ![n] = NoLease]
  /\ sValue' = [sValue EXCEPT ![n] = None]

\* The catch in refresh().
Caught(n) == m_Refresh' = [m_Refresh EXCEPT ![n] = FALSE] /\ UNCHANGED <<m_Stop, m_Lease>>

Returns(n) ==
  /\ rpc[n] \in {"ok", "bad"}
  /\ \/ /\ pc[n] = "create"
        /\ CallsPut(n, sLease[n])
        /\ UNCHANGED <<m_Stop, m_Lease, m_Refresh>>
     \/ /\ pc[n] = "put" /\ rpc[n] = "ok"
        /\ PutAnswered(n)
        /\ InitOver(n)
     \/ /\ pc[n] = "put" /\ rpc[n] = "bad"
        /\ Caught(n)
        /\ InitOver(n)
     \/ /\ pc[n] = "keep"
        /\ Goes(n, "wait")
        /\ UNCHANGED <<m_Stop, m_Lease, m_Refresh, sLease, sValue>>
     \/ /\ pc[n] = "drop"
        /\ Ends(n, "stopped")
  /\ UNCHANGED <<m_Value, etcdVars, engineVars, budget, overtaken>>

\* What becomes of a call whose answer nobody waits for: a put that has not
\* arrived may arrive later.  (A lease granted later is an orphan and a drop
\* that arrives later does what the ttl does.)
Abandons(n) ==
  \/ UNCHANGED late
  \/ /\ pc[n] = "put" /\ rpc[n] = "sent"
     /\ late' = late \cup {[key |-> n, value |-> sValue[n], lease |-> sLease[n]]}

\* request() throws: the call or its answer is lost, or too late.
GivesUp(n) ==
  /\ rpc[n] \in {"sent", "ok"}
  /\ Spend("faults")
  /\ Abandons(n)
  /\ \/ /\ pc[n] \in {"create", "put"}
        /\ Caught(n)
        /\ InitOver(n)
     \/ /\ pc[n] = "keep"
        /\ Caught(n)
        /\ Goes(n, "wait")
        /\ UNCHANGED <<sLease, sValue>>
     \/ /\ pc[n] = "drop"
        /\ Ends(n, "stopped")
  /\ UNCHANGED <<m_Value, leases, granted, kv, engineVars, overtaken>>

\* Mutant: update() leaves m_Refresh alone.
UpdateUnseen(n, value) ==
  /\ ~Over(n) /\ value # m_Value[n]
  /\ Spend("updates")
  /\ m_Value' = [m_Value EXCEPT ![n] = value]
  /\ UNCHANGED <<pc, rpc, m_Stop, m_Lease, m_Refresh, sLease, sValue, etcdVars, engineVars,
                 overtaken>>

\* Notify::update
Update(n, value) ==
  /\ ~Over(n) /\ value # m_Value[n]
  /\ Spend("updates")
  /\ m_Value' = [m_Value EXCEPT ![n] = value]
  /\ m_Refresh' = [m_Refresh EXCEPT ![n] = FALSE]
  /\ UNCHANGED <<pc, rpc, m_Stop, m_Lease, sLease, sValue, etcdVars, engineVars, overtaken>>

\* Notify::stop
Stop(n) ==
  /\ ~Over(n) /\ ~m_Stop[n]
  /\ m_Stop' = [m_Stop EXCEPT ![n] = TRUE]
  /\ UNCHANGED <<pc, rpc, m_Lease, m_Value, m_Refresh, sLease, sValue, etcdVars, engineVars,
                 budget, overtaken>>

Crash(n) ==
  /\ ~Over(n)
  /\ Spend("faults")
  /\ Abandons(n)
  /\ Ends(n, "crashed")
  /\ UNCHANGED <<m_Value, leases, granted, kv, engineVars, overtaken>>

\* The service comes back as a new Notify.
Restart(n) ==
  /\ pc[n] = "crashed"
  /\ Goes(n, "wait")
  /\ UNCHANGED <<m_Stop, m_Lease, m_Value, m_Refresh, sLease, sValue, etcdVars, engineVars,
                 budget, overtaken>>

(***************************************************************************)
(* Balancer::Engine.                                                       *)
(***************************************************************************)
Published == [n \in Services |-> kv[n].value]
Readable == \A n \in Services : kv[n].value \notin BadValues
Nobody == [n \in Services |-> None]

\* Mutant: a key that is gone stays among the peers.
FoundAndKept(published) ==
  [n \in Services |-> IF published[n] = None THEN m_Peers[n] ELSE published[n]]

\* ByWeight::update, as far as the engine is concerned.
Found(published) == published

\* The timer fired: the loop of start() ends, or list() is answered and read_i
\* parses all of it or nothing.  (A poll that fails changes nothing.)  The first
\* peers set the promise.
Active == engine \in {"starting", "running"}
Poll ==
  /\ \/ /\ engine = "stopping"
        /\ engine' = "stopped" /\ m_Peers' = Nobody
     \/ /\ Active
        /\ m_Peers' = IF Readable THEN Found(Published) ELSE m_Peers
        /\ engine' = IF m_Peers' # Nobody THEN "running" ELSE engine
  /\ UNCHANGED <<notifyVars, etcdVars, budget, overtaken>>

\* Engine::stop
StopEngine ==
  /\ Active
  /\ engine' = "stopping"
  /\ UNCHANGED <<notifyVars, etcdVars, m_Peers, budget, overtaken>>

Step(n) == EtcdApplies(n) \/ Loop(n) \/ Returns(n)
Fault(n) == GivesUp(n) \/ Crash(n) \/ Restart(n)

Next ==
  \/ \E n \in Services : \/ Step(n) \/ Fault(n) \/ Stop(n)
                         \/ \E value \in Values : Update(n, value)
  \/ LatePut \/ ExpireOrphan \/ ExpireHeld
  \/ Poll \/ StopEngine

Spec == Init /\ [][Next]_vars

\* Timers fire and calls are answered (but for the faults above), a lease nobody
\* refreshes expires.  Nothing makes a fault, an update or a stop happen.
FairSpec ==
  /\ Spec
  /\ \A n \in Services : WF_vars(Step(n))
  /\ WF_vars(ExpireOrphan) /\ WF_vars(Poll)

(***************************************************************************)
(* Properties.                                                             *)
(***************************************************************************)
\* A value given to Notify reaches the engine's peers, whatever calls failed
\* before: unless it is updated again, the service stops or crashes, its lease
\* expired (init() then puts under the dead lease for ever), a put given up
\* came late, or a value the engine cannot parse is published by anyone.
UpdateArrives ==
  \A n \in Services, value \in Values :
    (m_Value[n] = value) ~>
      \/ m_Peers[n] = value
      \/ m_Value[n] # value \/ m_Stop[n] \/ Over(n)
      \/ LostLease(n) \/ overtaken[n]
      \/ ~Readable \/ ~Active

\* A service that stopped, with or without clearing its lease, or crashed for
\* good is forgotten by the engine: every key it put, also by a call it gave up,
\* is under a lease that nobody refreshes.  Except: another service publishes a
\* value the engine cannot parse, which keeps it from reading anything.
GoneIsForgotten ==
  \A n \in Services :
    <>[](Over(n)) => <>[](m_Peers[n] = None
                            \/ \E k \in Services \ {n} : kv[k].value \in BadValues)
=============================================================================

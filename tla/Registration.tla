---------------------------- MODULE Registration ----------------------------
(***************************************************************************)
(* The registration of services in etcd: what SD::Notify (sd/Notify.hpp)   *)
(* and etcd keep of each service and SD::Balancer::Engine reads, and what  *)
(* Notify promises of it.  Discovery has the steps.                        *)
(***************************************************************************)
EXTENDS Integers, FiniteSets

CONSTANTS
  Services,     \* the services, one key each
  FirstValues,  \* the values a Notify is made with
  Values,       \* the values passed to Notify
  BadValues,    \* the ones Engine::read_i cannot parse
  MaxUpdates,   \* bound: calls of update()
  MaxFailures,  \* bound: calls given up and crashes
  MaxLate       \* bound: leases that expire while their service refreshes them

ASSUME BoundsAssumption ==
  /\ {MaxUpdates, MaxFailures, MaxLate} \subseteq Nat
  /\ BadValues \subseteq Values /\ FirstValues \subseteq Values

VARIABLES
  pc,         \* each Notify: "wait" for the timer, in an etcd call, or over
  rpc,        \* its etcd call: "none", "sent", "ok" or "bad"
  m_Stop, m_Lease, m_Value, m_Refresh,
  sLease,     \* init(): the lease of the put to come or under way
  sValue,     \* init(): its value
  leases,     \* etcd: the leases that live
  granted,    \* etcd: leases granted so far
  kv,         \* etcd: the value and the lease of each key
  late,       \* puts given up that may still reach etcd
  m_Peers,    \* Engine: what its last good read found
  engine,     \* Engine: "starting" until the promise of start() is set, "running",
              \* "stopping", "stopped"
  budget,     \* what is left of the bounds
  overtaken   \* history: a put given up overwrote a later one

NoLease == 0
None == "none"
NoKey == [value |-> None, lease |-> NoLease]
Over(n) == pc[n] \in {"stopped", "crashed"}

-----------------------------------------------------------------------------
\* The service's lease expired in etcd while it refreshed it.
LostLease(n) == m_Lease[n] # NoLease /\ m_Lease[n] \notin leases

\* A Notify that only keeps its lease alive (m_Refresh) has its latest value in
\* etcd, under that lease: no update() that comes while a put is under way is
\* taken for published by the answer to the put before it, and neither a lost
\* answer nor a restart leaves another value there.  Except: its lease expired
\* (updateLease does not notice), or a put it gave up came after a later one.
RefreshedIsPublished ==
  \A n \in Services :
    m_Refresh[n] /\ ~Over(n) /\ pc[n] # "drop" /\ ~LostLease(n) /\ ~overtaken[n]
      => kv[n] = [value |-> m_Value[n], lease |-> m_Lease[n]]
=============================================================================

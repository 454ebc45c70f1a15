--------------------------------- MODULE MQ ---------------------------------
(***************************************************************************)
(* The message queue over http: MQ::Client (mq/Client.hpp), MQ::Server     *)
(* (mq/Server.hpp) and the etcd keys in which the servers remember the     *)
(* hashes they accepted (etcd/Etcd.hpp, etcd/Protocol.hpp).                *)
(*                                                                         *)
(* A client has one worker that sends the head of its queue again and      *)
(* again until it hears 200.  A server runs its requests as coroutines     *)
(* that yield at every etcd call.  What a curl timeout abandons is still   *)
(* on its way, and what an etcd timeout abandons may still be applied.     *)
(***************************************************************************)
EXTENDS Integers, Sequences, FiniteSets, SequencesExt

CONSTANTS
  Clients,      \* the client_id values, one MQ::Client each
  Servers,      \* the MQ::Server processes that share the etcd
  Hashes,       \* the hashes a program passes to MQ::Client::insert
  BadHashes,    \* the ones process() refuses: 400 for an empty hash, 413 for a
                \* target longer than max_size
  QueueLimit,   \* Params::queue_limit
  EtcdLimit,    \* Params::etcd_limit
  Slots,        \* bound: requests under way at once
  Scenarios     \* bounds: the servers that are started, the hashes inserted,
                \* the calls of insert by each client, and the faults (timeouts,
                \* etcd errors and crashes); a behaviour keeps to one of them

ASSUME LimitsAssumption ==
  /\ QueueLimit \in Nat /\ EtcdLimit \in Nat \ {0}
  /\ Scenarios \subseteq [servers : SUBSET Servers, hashes : SUBSET Hashes,
                           inserts : Nat, faults : Nat]
  /\ BadHashes \subseteq Hashes
  /\ Slots \subseteq Nat \ {0} /\ IsFiniteSet(Slots)

VARIABLES
  scenario,   \* the bounds this behaviour keeps to
  todo,       \* MQ::Client::m_Queue: hashes inserted and not yet accepted
  awaits,     \* the slot of the put() each client's worker waits for, or NoSlot
  cup,        \* FALSE once the client's Group stopped it
  inserts,    \* calls of MQ::Client::insert so far
  req,        \* the requests under way
  late,       \* transactions whose coroutine gave up waiting for etcd
  etcd,       \* the hashes stored for each client, oldest first; <<>> is no key
  m_Active,   \* MQ::Server::m_Active
  m_Running,  \* MQ::Server::m_Running
  m_Queue,    \* MQ::Server::m_Queue; the head may be in the worker's hand
  phase,      \* MQ::Server at_stop: "up", "requests", "tasks", "stopped"
  expired,    \* the linger of a stopping server is over
  faults,     \* faults so far
  inserted,   \* history: how often each hash was put in some m_Queue
  acked,      \* history: the hashes a client heard 200 for
  orphaned,   \* history: hashes whose etcd commit lost its coroutine
  evicted     \* history: hashes trimmed from etcd

clientVars == <<todo, awaits, cup, inserts>>
serverVars == <<m_Active, m_Running, m_Queue, phase, expired>>
history    == <<inserted, acked, orphaned, evicted>>
etcdVars   == <<late, etcd>>
vars == <<scenario, clientVars, req, etcdVars, serverVars, faults, history>>

NoSlot == 0
Keys == Clients \X Hashes

\* The stages of a request are "wire": on its way; "size": past m_Active; "get"
\* and "txn": the etcd calls of process_i; "insert": committed; "leave": code
\* chosen; "reply": answered; and "free" for a slot without a request.
Free == [stage |-> "free"]

Init ==
  /\ scenario \in Scenarios
  /\ todo = [c \in Clients |-> <<>>]
  /\ awaits = [c \in Clients |-> NoSlot]
  /\ cup = [c \in Clients |-> TRUE]
  /\ inserts = [c \in Clients |-> 0]
  /\ req = [i \in Slots |-> Free]
  /\ late = {}
  /\ etcd = [c \in Clients |-> <<>>]
  /\ m_Active = [s \in Servers |-> TRUE]
  /\ m_Running = [s \in Servers |-> 0]
  /\ m_Queue = [s \in Servers |-> <<>>]
  /\ phase = [s \in Servers |-> "up"]
  /\ expired = [s \in Servers |-> FALSE]
  /\ faults = 0
  /\ inserted = [k \in Keys |-> 0]
  /\ acked = {} /\ orphaned = {} /\ evicted = {}

Fault == faults < scenario.faults /\ faults' = faults + 1

-----------------------------------------------------------------------------
(* MQ::Client                                                              *)

ClientInsert(c, h) ==
  /\ cup[c] /\ inserts[c] < scenario.inserts
  /\ inserts' = [inserts EXCEPT ![c] = @ + 1]
  /\ todo' = [todo EXCEPT ![c] = Append(@, h)]
  /\ UNCHANGED <<awaits, cup, req, etcdVars, serverVars, faults, history>>

\* put(): the worker takes the head, or tries it again, and blocks in curl.
\* The first free slot stands for all of them.
Put(c, s, i) ==
  /\ cup[c] /\ todo[c] # <<>> /\ awaits[c] = NoSlot
  /\ req[i] = Free /\ \A j \in Slots : j < i => req[j] # Free
  /\ awaits' = [awaits EXCEPT ![c] = i]
  /\ req' = [req EXCEPT ![i] = [stage |-> "wire", client |-> c, hash |-> Head(todo[c]),
                                server |-> s, old |-> <<>>, code |-> 0]]
  /\ UNCHANGED <<todo, cup, inserts, etcdVars, serverVars, faults, history>>

\* curl gives up; the handler throws and SafeQueueThread will retry.
PutTimeout(c) ==
  /\ awaits[c] # NoSlot
  /\ Fault
  /\ awaits' = [awaits EXCEPT ![c] = NoSlot]
  /\ UNCHANGED <<todo, cup, inserts, req, etcdVars, serverVars, history>>

\* Mutant of Answer: a refused put() leaves the worker waiting.
AnswerOnce(i) ==
  /\ req[i].stage = "reply"
  /\ req' = [req EXCEPT ![i] = Free]
  /\ LET c == req[i].client IN
       IF awaits[c] = i /\ req[i].code = 200
       THEN /\ awaits' = [awaits EXCEPT ![c] = NoSlot]
            /\ todo' = [todo EXCEPT ![c] = Tail(@)]
            /\ acked' = acked \cup {<<c, req[i].hash>>}
       ELSE UNCHANGED <<awaits, todo, acked>>
  /\ UNCHANGED <<cup, inserts, etcdVars, serverVars, faults, inserted, orphaned, evicted>>

\* The answer arrives: 200 ends the task, anything else throws.  An answer
\* nobody waits for any more is thrown away by the kernel.
Answer(i) ==
  /\ req[i].stage = "reply"
  /\ req' = [req EXCEPT ![i] = Free]
  /\ LET c == req[i].client IN
       \/ /\ awaits[c] = i
          /\ awaits' = [awaits EXCEPT ![c] = NoSlot]
          /\ IF req[i].code = 200
             THEN /\ todo' = [todo EXCEPT ![c] = Tail(@)]
                  /\ acked' = acked \cup {<<c, req[i].hash>>}
             ELSE UNCHANGED <<todo, acked>>
       \/ awaits[c] # i /\ UNCHANGED <<awaits, todo, acked>>
  /\ UNCHANGED <<cup, inserts, etcdVars, serverVars, faults, inserted, orphaned, evicted>>

\* at_stop: wait until idle or until linger is over, then the queue's own
\* at_stop ends the worker after the put() it is in; the rest is lost.
ClientStop(c) ==
  /\ cup[c]
  /\ cup' = [cup EXCEPT ![c] = FALSE]
  /\ UNCHANGED <<todo, awaits, inserts, req, etcdVars, serverVars, faults, history>>

-----------------------------------------------------------------------------
(* MQ::Server::process, one step between two yields or locks.              *)

At(i, stage) == req[i].stage = stage
Go(i, stage) == req' = [req EXCEPT ![i].stage = stage]
Result(i, code) == req' = [req EXCEPT ![i].stage = "leave", ![i].code = code]
KeyOf(i) == <<req[i].client, req[i].hash>>

\* m_Active and m_Running under m_Mutex.
Admit(i) ==
  /\ At(i, "wire")
  /\ LET s == req[i].server IN
       \/ /\ m_Active[s]
          /\ m_Running' = [m_Running EXCEPT ![s] = @ + 1]
          /\ Go(i, "size")
       \/ /\ ~m_Active[s] /\ phase[s] # "stopped"
          /\ req' = [req EXCEPT ![i].stage = "reply", ![i].code = 503]
          /\ UNCHANGED m_Running
  /\ UNCHANGED <<clientVars, etcdVars, m_Active, m_Queue, phase, expired, faults, history>>

\* 429, then 413 or 400 (here one code, both are final), or on to process_i.
CheckLimit(i) ==
  /\ At(i, "size")
  /\ IF Len(m_Queue[req[i].server]) > QueueLimit THEN Result(i, 429)
     ELSE IF req[i].hash \in BadHashes THEN Result(i, 400)
     ELSE Go(i, "get")
  /\ UNCHANGED <<clientVars, etcdVars, serverVars, faults, history>>

\* sClient.get, and the search for the hash in what it returned.
EtcdGet(i) ==
  /\ At(i, "get")
  /\ IF Contains(etcd[req[i].client], req[i].hash) THEN Result(i, 200)
     ELSE req' = [req EXCEPT ![i].stage = "txn", ![i].old = etcd[req[i].client]]
  /\ UNCHANGED <<clientVars, etcdVars, serverVars, faults, history>>

\* Mutant of EtcdGetFails: the catch block leaves the default status.
EtcdGetFailsOk(i) ==
  /\ At(i, "get")
  /\ Fault
  /\ Result(i, 200)
  /\ UNCHANGED <<clientVars, etcdVars, serverVars, history>>

EtcdGetFails(i) ==
  /\ At(i, "get")
  /\ Fault
  /\ Result(i, 502)
  /\ UNCHANGED <<clientVars, etcdVars, serverVars, history>>

\* The new value: the hash at the end, the oldest ones trimmed.
Remember(old, h) ==
  LET all == Append(old, h)
  IN  IF Len(all) > EtcdLimit THEN SubSeq(all, Len(all) - EtcdLimit + 1, Len(all)) ELSE all

\* Mutant of Compare: a plain put.
CompareNothing(t) == TRUE

\* etcd compares and puts in one step: CREATE = 0 for a new key, VALUE = old
\* otherwise.
Compare(t) == etcd[t.client] = t.old
Commit(t) ==
  LET new == Remember(t.old, t.hash)
  IN  /\ etcd' = [etcd EXCEPT ![t.client] = new]
      /\ evicted' = evicted \cup {<<t.client, h>> : h \in ToSet(etcd[t.client]) \ ToSet(new)}

EtcdTxn(i) ==
  /\ At(i, "txn")
  /\ \/ Compare(req[i]) /\ Commit(req[i]) /\ Go(i, "insert")
     \/ ~Compare(req[i]) /\ Result(i, 502) /\ UNCHANGED <<etcd, evicted>>
  /\ UNCHANGED <<clientVars, late, serverVars, faults, inserted, acked, orphaned>>

\* "etcd timeout": the coroutine leaves with 502, the transaction is on its way.
EtcdTxnTimeout(i) ==
  /\ At(i, "txn")
  /\ Fault
  /\ Result(i, 502)
  /\ late' = late \cup {[client |-> req[i].client, hash |-> req[i].hash, old |-> req[i].old]}
  /\ UNCHANGED <<clientVars, etcd, serverVars, history>>

\* It is applied after all, or found out of date, or lost.
LateTxn(t) ==
  /\ t \in late
  /\ late' = late \ {t}
  /\ \/ Compare(t) /\ Commit(t) /\ orphaned' = orphaned \cup {<<t.client, t.hash>>}
     \/ UNCHANGED <<etcd, evicted, orphaned>>
  /\ UNCHANGED <<clientVars, req, serverVars, faults, inserted, acked>>

\* m_Queue.insert(aBody), then 200.
Enqueue(i) ==
  /\ At(i, "insert")
  /\ m_Queue' = [m_Queue EXCEPT ![req[i].server] = Append(@, KeyOf(i))]
  /\ inserted' = [inserted EXCEPT ![KeyOf(i)] = @ + 1]
  /\ Result(i, 200)
  /\ UNCHANGED <<clientVars, etcdVars, m_Active, m_Running, phase, expired, faults, acked, orphaned, evicted>>

\* ~Raii: m_Running--; the router then sends the response.
Cleanup(i) ==
  /\ At(i, "leave")
  /\ m_Running' = [m_Running EXCEPT ![req[i].server] = @ - 1]
  /\ Go(i, "reply")
  /\ UNCHANGED <<clientVars, etcdVars, m_Active, m_Queue, phase, expired, faults, history>>

Coroutine(i) ==
  \/ Admit(i) \/ CheckLimit(i) \/ EtcdGet(i) \/ EtcdTxn(i)
  \/ Enqueue(i) \/ Cleanup(i) \/ Answer(i)

-----------------------------------------------------------------------------
(* The server's queue, its shutdown and its crashes.                       *)

\* The SafeQueueThread (no retry) is done with the head.
Handle(s) ==
  /\ phase[s] # "stopped" /\ m_Queue[s] # <<>>
  /\ m_Queue' = [m_Queue EXCEPT ![s] = Tail(@)]
  /\ UNCHANGED <<clientVars, req, etcdVars, m_Active, m_Running, phase, expired, faults, history>>

AtStop(s) ==
  /\ phase[s] = "up"
  /\ m_Active' = [m_Active EXCEPT ![s] = FALSE]
  /\ phase' = [phase EXCEPT ![s] = "requests"]
  /\ UNCHANGED <<clientVars, req, etcdVars, m_Running, m_Queue, expired, faults, history>>

\* Mutant of RequestsDone: only the tasks are waited for.
RequestsNotAwaited(s) ==
  /\ phase[s] = "requests"
  /\ phase' = [phase EXCEPT ![s] = "tasks"]
  /\ UNCHANGED <<clientVars, req, etcdVars, m_Active, m_Running, m_Queue, expired, faults, history>>

\* while (isRunning() and not sDeadline.expired())
RequestsDone(s) ==
  /\ phase[s] = "requests"
  /\ m_Running[s] = 0 \/ expired[s]
  /\ phase' = [phase EXCEPT ![s] = "tasks"]
  /\ UNCHANGED <<clientVars, req, etcdVars, m_Active, m_Running, m_Queue, expired, faults, history>>

\* The requests inside process().
Inside(s) == {i \in Slots : req[i] # Free /\ req[i].server = s
                           /\ req[i].stage \notin {"wire", "reply"}}

\* A server process takes its requests with it when it ends.
Vanish(s) ==
  LET gone == Inside(s)
  IN  /\ req' = [i \in Slots |-> IF i \in gone THEN Free ELSE req[i]]
      /\ awaits' = [c \in Clients |-> IF awaits[c] \in gone THEN NoSlot ELSE awaits[c]]
      /\ orphaned' = orphaned \cup {KeyOf(i) : i \in {j \in gone : At(j, "insert")}}

\* while (!m_Queue.idle() and not sDeadline.expired()); the process then ends
\* with whatever it still holds.
TasksDone(s) ==
  /\ phase[s] = "tasks"
  /\ m_Queue[s] = <<>> \/ expired[s]
  /\ phase' = [phase EXCEPT ![s] = "stopped"]
  /\ Vanish(s)
  /\ m_Running' = [m_Running EXCEPT ![s] = 0]
  /\ UNCHANGED <<todo, cup, inserts, etcdVars, m_Active, m_Queue, expired, faults, inserted, acked, evicted>>

Linger(s) ==
  /\ phase[s] \in {"requests", "tasks"} /\ ~expired[s]
  /\ expired' = [expired EXCEPT ![s] = TRUE]
  /\ UNCHANGED <<clientVars, req, etcdVars, m_Active, m_Running, m_Queue, phase, faults, history>>

\* A crash loses the queue and the coroutines; the process is started again.
Crash(s) ==
  /\ phase[s] = "up"
  /\ Fault
  /\ Vanish(s)
  /\ m_Running' = [m_Running EXCEPT ![s] = 0]
  /\ m_Queue' = [m_Queue EXCEPT ![s] = <<>>]
  /\ UNCHANGED <<todo, cup, inserts, etcdVars, m_Active, phase, expired, inserted, acked, evicted>>

\* A request to a server that is gone: connection refused.
Refused(i) ==
  /\ At(i, "wire") /\ phase[req[i].server] = "stopped"
  /\ req' = [req EXCEPT ![i].stage = "reply", ![i].code = 0]
  /\ UNCHANGED <<clientVars, etcdVars, serverVars, faults, history>>

ServerStep(s) == Handle(s) \/ RequestsDone(s) \/ TasksDone(s) \/ Linger(s)

Next ==
  /\ \/ \E c \in Clients :
          \/ \E h \in scenario.hashes : ClientInsert(c, h)
          \/ \E s \in scenario.servers, i \in Slots : Put(c, s, i)
          \/ PutTimeout(c) \/ ClientStop(c)
     \/ \E i \in Slots : Coroutine(i) \/ EtcdGetFails(i) \/ EtcdTxnTimeout(i) \/ Refused(i)
     \/ \E t \in late : LateTxn(t)
     \/ \E s \in scenario.servers : ServerStep(s) \/ AtStop(s) \/ Crash(s)
  /\ UNCHANGED scenario

(* The client's worker retries, coroutines and worker threads run, time    *)
(* passes.  Faults, inserts and shutdowns need not happen.                 *)
Fairness ==
  /\ \A c \in Clients :
       WF_vars(\E s \in scenario.servers, i \in Slots : Put(c, s, i) /\ UNCHANGED scenario)
  /\ \A i \in Slots : WF_vars((Coroutine(i) \/ Refused(i)) /\ UNCHANGED scenario)
  /\ \A s \in Servers :
       /\ WF_vars(Handle(s) /\ UNCHANGED scenario)
       /\ WF_vars((RequestsDone(s) \/ TasksDone(s)) /\ UNCHANGED scenario)
       /\ WF_vars(Linger(s) /\ UNCHANGED scenario)

Spec == Init /\ [][Next]_vars
FairSpec == Spec /\ Fairness

-----------------------------------------------------------------------------
(* Properties.                                                             *)

\* "etcd used to avoid duplicates" (README.md:13): whatever is retried, delayed
\* or sent to two servers at once, a hash reaches a queue at most once for as
\* long as it is among the last etcd_limit hashes of its client.
AtMostOnce == \A k \in Keys : inserted[k] <= 1 \/ k \in evicted

\* A hash a client heard 200 for has been put in a queue, or its coroutine is
\* just about to do it, or the commit in etcd lost the coroutine that made it
\* (the only way an acknowledged message is lost before it is queued).
AckedIsQueued ==
  \A k \in acked :
    \/ inserted[k] >= 1
    \/ k \in orphaned
    \/ \E i \in Slots : req[i] # Free /\ At(i, "insert") /\ KeyOf(i) = k

\* A server that stops within its linger leaves nothing behind: when it ends, no
\* request is inside process() and nothing in m_Queue, although requests that
\* were admitted before m_Active was cleared still insert while the tasks drain
\* (Server.hpp:182-188 waits for the one, then for the other).  And it waits for
\* nothing else: m_Running is zero when no request is inside, whichever way the
\* last one left.
CleanStop ==
  [][\A s \in Servers :
       /\ phase[s] # "stopped" /\ phase'[s] = "stopped" /\ ~expired[s] =>
            Inside(s) = {} /\ m_Queue[s] = <<>>
       /\ Inside(s)' = {} => m_Running'[s] = 0]_vars

\* A client's queue drains: retries and etcd conflicts end, 429 passes, unless
\* somebody is shut down or the head is a request the server refuses for ever.
Delivered ==
  \A c \in Clients :
    (todo[c] # <<>>) ~> \/ todo[c] = <<>> \/ ~cup[c]
                        \/ \E s \in Servers : ~m_Active[s]
                        \/ Head(todo[c]) \in BadHashes

=============================================================================

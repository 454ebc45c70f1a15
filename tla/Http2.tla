-------------------------------- MODULE Http2 --------------------------------
(***************************************************************************)
(* One http/2 connection of asio_http/v2: the client's Manager and Peer    *)
(* (Client.hpp), the server's Session (Server.hpp), and on both ends the   *)
(* frame parser (Parser.hpp) and the Output of Http2Output.                *)
(*                                                                         *)
(* An end runs on one strand, in a read coroutine and a write coroutine    *)
(* that give way to each other only where they wait for the socket or the  *)
(* timer.  The program's threads, the Manager's strand, the request        *)
(* handlers and the network run beside them.                               *)
(***************************************************************************)
EXTENDS Http2Output

CONSTANTS
  Requests,            \* the calls of Manager::async
  ReqBody,             \* the size of each request's body
  RespBodies,          \* the sizes of body a handler may answer with
  Limits,              \* the values of CONCURRENT_STREAMS under study
  MaxFaults            \* bound: failed connects and broken connections

ASSUME RequestsAssumption ==
  /\ IsFiniteSet(Requests)
  /\ ReqBody \in [Requests -> Nat] /\ RespBodies \subseteq Nat
  /\ Limits \subseteq Nat \ {0} /\ MaxFaults \in Nat

VARIABLES
  out,        \* m_Output of each end
  par,        \* m_Parser of each end: stage, m_Info and m_Budget
  wr,         \* where the write coroutine of each end is
  rd,         \* where the read coroutine of each end is
  wire,       \* the frames each end wrote and the other has not read
  conn,       \* the connection: "none", "connecting", "up", "down"
  peer,       \* Peer: m_Streams, m_Pending, m_FailReason is set, CONCURRENT_STREAMS
  opened,     \* the requests in the order they got a stream; gives m_Serial
  posted,     \* the calls of Peer::async that wait for the Peer's strand
  notes,      \* the calls of notify_i that wait for the Manager's strand
  data,       \* Manager::Data: status and requests
  called,     \* the requests Manager::async was called with
  handling,   \* the streams whose handler runs on the server
  answers,    \* what each request's promise was set to, call by call
  seen,       \* history: the size of body a handler got, by stream
  replies,    \* history: the size of body it answered with, by stream
  aborted,    \* an assert of the client failed: nothing runs any more
  faults      \* faults so far

endVars  == <<out, par, wr, rd, wire, conn>>
peerVars == <<peer, opened>>
mgrVars  == <<data, called>>
history  == <<seen, replies>>
vars == <<endVars, peerVars, posted, notes, mgrVars, handling, answers, history,
          aborted, faults>>

Ends == {"client", "server"}
Other(e) == IF e = "client" THEN "server" ELSE "client"
Failed == -1                       \* set_exception, where a size is set_value

StreamOf(k) == 2 * k - 1           \* the k-th stream: odd-numbered identifiers
RequestOf(s) == opened[(s + 1) \div 2]

Init ==
  /\ out = [e \in Ends |-> NewOutput]
  /\ par = [e \in Ends |-> [stage |-> IF e = "client" THEN "CLIENT_WAIT" ELSE "HELLO",
                            info |-> <<>>, budget |-> WindowSize]]
  /\ wr = [e \in Ends |-> [op |-> "none", n |-> 0, sent |-> "no"]]
  /\ rd = [e \in Ends |-> "none"]
  /\ wire = [e \in Ends |-> <<>>]
  /\ conn = "none"
  /\ peer \in [streams : {<<>>}, pending : {<<>>}, failed : {FALSE}, limit : Limits]
  /\ opened = <<>> /\ posted = <<>> /\ notes = <<>>
  /\ data = [status |-> "not connected", requests |-> <<>>]
  /\ called = {} /\ handling = {}
  /\ answers = [r \in Requests |-> <<>>]
  /\ seen = <<>> /\ replies = <<>>
  /\ aborted = FALSE /\ faults = 0

(***************************************************************************)
(* The Manager's strand.                                                   *)
(***************************************************************************)
SetAll(rs, v) == [r \in Requests |-> IF r \in rs THEN Append(answers[r], v) ELSE answers[r]]

\* Mutant: the request goes to the Peer though it is not connected.
CallUngated(r) ==
  /\ r \notin called
  /\ called' = called \cup {r}
  /\ conn' = IF conn = "none" THEN "connecting" ELSE conn
  /\ posted' = Append(posted, r)
  /\ UNCHANGED <<out, par, wr, rd, wire, peerVars, notes, data, handling, answers, history,
                 aborted, faults>>

\* Manager::async and async_i: the first call makes the Peer and starts it.
Call(r) ==
  /\ ~aborted /\ r \notin called
  /\ called' = called \cup {r}
  /\ conn' = IF conn = "none" THEN "connecting" ELSE conn
  /\ \/ /\ data.status = "not connected"
        /\ data' = [data EXCEPT !.requests = Append(@, r)]
        /\ UNCHANGED <<posted, answers>>
     \/ /\ data.status = "connected"
        /\ posted' = Append(posted, r)
        /\ UNCHANGED <<data, answers>>
     \/ /\ data.status = "error"
        /\ answers' = SetAll({r}, Failed)
        /\ UNCHANGED <<data, posted>>
  /\ UNCHANGED <<out, par, wr, rd, wire, peerVars, notes, handling, history, aborted, faults>>

\* notify_i, on_connected and on_error.
Notified ==
  /\ ~aborted /\ notes # <<>>
  /\ notes' = Tail(notes)
  /\ data' = [status |-> Head(notes), requests |-> <<>>]
  /\ IF Head(notes) = "connected"
     THEN posted' = posted \o data.requests /\ UNCHANGED answers
     ELSE answers' = SetAll(ToSet(data.requests), Failed) /\ UNCHANGED posted
  /\ UNCHANGED <<endVars, peerVars, called, handling, history, aborted, faults>>

(***************************************************************************)
(* The Peer.                                                               *)
(***************************************************************************)

\* initiate(): o is the client's Output and ps the Peer before it.
Initiate(o, r) == Enqueue(o, StreamOf(Len(opened) + 1), ReqBody[r])
Started(streams, r) == SetInfo(streams, StreamOf(Len(opened) + 1), r)

\* Peer::async_i.
PeerAsync ==
  /\ ~aborted /\ posted # <<>>
  /\ posted' = Tail(posted)
  /\ LET r == Head(posted)
     IN \/ /\ peer.failed
           /\ answers' = SetAll({r}, Failed)
           /\ UNCHANGED <<out, peerVars>>
        \/ /\ ~peer.failed
           /\ Cardinality(DOMAIN peer.streams) >= peer.limit
           /\ peer' = [peer EXCEPT !.pending = Append(@, r)]
           /\ UNCHANGED <<out, opened, answers>>
        \/ /\ ~peer.failed
           /\ Cardinality(DOMAIN peer.streams) < peer.limit
           /\ out' = [out EXCEPT !["client"] = Initiate(@, r)]
           /\ peer' = [peer EXCEPT !.streams = Started(@, r)]
           /\ opened' = Append(opened, r)
           /\ UNCHANGED answers
  /\ UNCHANGED <<par, wr, rd, wire, conn, notes, mgrVars, handling, history, aborted, faults>>

\* Mutant: the requests in m_Pending are forgotten.
FailActiveOnly ==
  /\ peer' = [peer EXCEPT !.streams = <<>>, !.pending = <<>>, !.failed = TRUE]
  /\ notes' = IF peer.failed THEN notes ELSE Append(notes, "error")
  /\ answers' = SetAll(Range(peer.streams), Failed)

\* fail(): every promise gets the reason, the Manager hears of the first one.
Fail ==
  /\ peer' = [peer EXCEPT !.streams = <<>>, !.pending = <<>>, !.failed = TRUE]
  /\ notes' = IF peer.failed THEN notes ELSE Append(notes, "error")
  /\ answers' = SetAll(Range(peer.streams) \cup ToSet(peer.pending), Failed)

\* m_Stream.cancel() at its end: what waits for the socket ends with an error.
CancelledRead(x) == IF x = "wait" THEN "cancelled" ELSE x
CancelledWrite(w) ==
  IF w.op \in {"pri", "wq"} /\ w.sent = "no" THEN [w EXCEPT !.sent = "cancelled"] ELSE w

\* connect() and what read_coro does before it first waits: the write coroutine
\* runs at once up to its first wait, then client_hello() queues the preface.
\* The server's Session has accepted the socket.
Connect ==
  /\ ~aborted /\ conn = "connecting"
  /\ conn' = "up"
  /\ out' = [out EXCEPT !["client"] =
               Send(Send(@, Frame("PREFACE", Connection, 0, FALSE)),
                    Frame("SETTINGS", Connection, 0, FALSE))]
  /\ wr' = [e \in Ends |-> NextWrite(out[e])]
  /\ rd' = [e \in Ends |-> "wait"]
  /\ UNCHANGED <<par, wire, peerVars, posted, notes, mgrVars, handling, answers, history,
                 aborted, faults>>

\* connect() throws: nobody listens, or 100 ms are over.
ConnectFails ==
  /\ ~aborted /\ conn = "connecting" /\ faults < MaxFaults
  /\ faults' = faults + 1
  /\ conn' = "down"
  /\ rd' = [rd EXCEPT !["client"] = "ended"]
  /\ Fail
  /\ UNCHANGED <<out, par, wr, wire, opened, posted, mgrVars, handling, history, aborted>>

\* The connection breaks, or the client's 30 seconds without input are over.
Break ==
  /\ ~aborted /\ conn = "up" /\ faults < MaxFaults
  /\ faults' = faults + 1
  /\ conn' = "down"
  /\ UNCHANGED <<out, par, wr, rd, wire, peerVars, posted, notes, mgrVars, handling,
                 answers, history, aborted>>

(***************************************************************************)
(* The write coroutine: Output::coro under spawn_write_coro.               *)
(***************************************************************************)

\* A send() or an enqueue() cancelled m_Timer, or its second is over.
WriteWakes(e) ==
  /\ ~aborted /\ wr[e].op = "idle" /\ (out[e].pri # <<>> \/ out[e].wq # <<>>)
  /\ wr' = [wr EXCEPT ![e] = NextWrite(out[e])]
  /\ UNCHANGED <<out, par, rd, wire, conn, peerVars, posted, notes, mgrVars, handling,
                 answers, history, aborted, faults>>

Writing(e) == wr[e].op \in {"pri", "wq"}
Queue(e) == IF wr[e].op = "pri" THEN out[e].pri ELSE out[e].wq

\* The socket takes the frames; the other end may see them before the coroutine
\* goes on.
Transmit(e) ==
  /\ ~aborted /\ Writing(e) /\ wr[e].sent = "no" /\ conn = "up"
  /\ wire' = [wire EXCEPT ![e] = @ \o SubSeq(Queue(e), 1, wr[e].n)]
  /\ wr' = [wr EXCEPT ![e].sent = "yes"]
  /\ UNCHANGED <<out, par, rd, conn, peerVars, posted, notes, mgrVars, handling, answers,
                 history, aborted, faults>>

\* async_write returns: the frames leave the queue and the next write starts.
WriteReturns(e) ==
  /\ ~aborted /\ Writing(e) /\ wr[e].sent = "yes"
  /\ out' = [out EXCEPT ![e] = Written(@, wr[e])]
  /\ wr' = [wr EXCEPT ![e] = NextWrite(out'[e])]
  /\ UNCHANGED <<par, rd, wire, conn, peerVars, posted, notes, mgrVars, handling, answers,
                 history, aborted, faults>>

\* async_write fails after some of the frames: the client fails, the server's
\* coroutine ends and its Session reads on.
WriteFails(e) ==
  /\ ~aborted /\ Writing(e)
  /\ wr[e].sent = "cancelled" \/ (wr[e].sent = "no" /\ conn = "down")
  /\ \E k \in 0 .. wr[e].n - 1 : wire' = [wire EXCEPT ![e] = @ \o SubSeq(Queue(e), 1, k)]
  /\ wr' = [wr EXCEPT ![e] = [op |-> "none", n |-> 0, sent |-> "no"]]
  /\ IF e = "client"
     THEN Fail /\ rd' = [rd EXCEPT ![e] = CancelledRead(@)]
     ELSE UNCHANGED <<peer, notes, answers, rd>>
  /\ UNCHANGED <<out, par, conn, opened, posted, mgrVars, handling, history, aborted, faults>>

(***************************************************************************)
(* The read coroutine and the parser.                                      *)
(***************************************************************************)

\* async_read_some of the client has bytes: from here cancel() is too late.
\* Nothing cancels the server's.
ReadReady ==
  /\ ~aborted /\ rd["client"] = "wait" /\ wire["server"] # <<>>
  /\ rd' = [rd EXCEPT !["client"] = "ready"]
  /\ UNCHANGED <<out, par, wr, wire, conn, peerVars, posted, notes, mgrVars, handling,
                 answers, history, aborted, faults>>

\* async_read_some fails.
ReadFails(e) ==
  /\ ~aborted /\ (rd[e] = "cancelled" \/ (rd[e] = "wait" /\ conn = "down"))
  /\ rd' = [rd EXCEPT ![e] = "ended"]
  /\ IF e = "client"
     THEN Fail /\ wr' = [wr EXCEPT ![e] = CancelledWrite(@)]
     ELSE UNCHANGED <<peer, notes, answers, wr>>
  /\ UNCHANGED <<out, par, wire, conn, opened, posted, mgrVars, handling, history, aborted,
                 faults>>

\* The read loop runs m_Parser.process on the next frame.  The client looks at
\* m_FailReason only after it.
Reads(e, type) ==
  /\ ~aborted /\ rd[e] = (IF e = "client" THEN "ready" ELSE "wait")
  /\ wire[Other(e)] # <<>> /\ Head(wire[Other(e)]).type = type
  /\ wire' = [wire EXCEPT ![Other(e)] = Tail(@)]
  /\ rd' = [rd EXCEPT ![e] = IF e = "client" /\ peer.failed THEN "ended" ELSE "wait"]

NextFrame(e) == Head(wire[Other(e)])

\* What waited for the header of a frame after fail() goes no further.
ReadHeaderOnly ==
  /\ ~aborted /\ rd["client"] = "ready" /\ peer.failed
  /\ rd' = [rd EXCEPT !["client"] = "ended"]
  /\ UNCHANGED <<out, par, wr, wire, conn, peerVars, posted, notes, mgrVars, handling,
                 answers, history, aborted, faults>>

\* recv_hello.  On any other first bytes it throws and the Session reads no more.
RecvHello ==
  /\ Reads("server", "PREFACE") /\ par["server"].stage = "HELLO"
  /\ par' = [par EXCEPT !["server"].stage = "HEADER"]
  /\ out' = [out EXCEPT !["server"] = Send(@, Frame("SETTINGS", Connection, 0, FALSE))]
  /\ UNCHANGED <<wr, conn, peerVars, posted, notes, mgrVars, handling, answers, history,
                 aborted, faults>>

\* client_check for the client's first frame, and process_settings.
RecvSettings(e) ==
  /\ Reads(e, "SETTINGS") /\ par[e].stage # "HELLO"
  /\ par' = [par EXCEPT ![e].stage = "HEADER"]
  /\ notes' = IF par[e].stage = "CLIENT_WAIT" THEN Append(notes, "connected") ELSE notes
  /\ out' = IF NextFrame(e).end THEN out
            ELSE [out EXCEPT ![e] = Send(@, Frame("SETTINGS", Connection, 0, TRUE))]
  /\ UNCHANGED <<wr, conn, peerVars, posted, mgrVars, handling, answers, history, aborted,
                 faults>>

\* process_window_update.
RecvWindowUpdate(e) ==
  /\ Reads(e, "WINDOW_UPDATE") /\ par[e].stage = "HEADER"
  /\ out' = [out EXCEPT ![e] = ProcessWindowUpdate(@, NextFrame(e).stream, NextFrame(e).size)]
  /\ UNCHANGED <<par, wr, conn, peerVars, posted, notes, mgrVars, handling, answers, history,
                 aborted, faults>>

\* push() of a complete message: Session::process_message hands the request to
\* a handler, Peer::process_message sets the promise and starts the first of
\* m_Pending.  o is the Output of the end after what the frame made it send.
Push(e, s, size, o) ==
  \/ /\ e = "server"
     /\ handling' = handling \cup {s}
     /\ seen' = SetInfo(seen, s, size)
     /\ out' = [out EXCEPT ![e] = o]
     /\ UNCHANGED <<peerVars, answers, replies, aborted>>
  \/ /\ e = "client" /\ s \notin DOMAIN peer.streams
     /\ aborted' = TRUE
     /\ UNCHANGED <<out, peerVars, handling, answers, history>>
  \/ /\ e = "client" /\ s \in DOMAIN peer.streams
     /\ answers' = SetAll({peer.streams[s]}, size)
     /\ LET left == Erase(peer.streams, s)
            r == Head(peer.pending)
        IN IF peer.pending = <<>>
           THEN /\ peer' = [peer EXCEPT !.streams = left]
                /\ out' = [out EXCEPT ![e] = o]
                /\ UNCHANGED opened
           ELSE /\ peer' = [peer EXCEPT !.streams = Started(left, r), !.pending = Tail(@)]
                /\ out' = [out EXCEPT ![e] = Initiate(o, r)]
                /\ opened' = Append(opened, r)
     /\ UNCHANGED <<handling, history, aborted>>

\* process_headers.
RecvHeaders(e) ==
  /\ Reads(e, "HEADERS") /\ par[e].stage = "HEADER"
  /\ LET f == NextFrame(e)
     IN IF f.end
        THEN Push(e, f.stream, 0, out[e]) /\ UNCHANGED par
        ELSE /\ par' = [par EXCEPT ![e].info =
                          SetInfo(@, f.stream, [got |-> 0, budget |-> WindowSize])]
             /\ UNCHANGED <<out, peerVars, handling, answers, history, aborted>>
  /\ UNCHANGED <<wr, conn, posted, notes, mgrVars, faults>>

\* Mutant: the receiver's own budget is not raised.
ToppedNever(budget) == budget

\* send_window_update: WindowSize more for whoever fell below it.
Topped(budget) == IF budget < WindowSize THEN budget + WindowSize ELSE budget
TopUp(o, s, budget) ==
  IF budget < WindowSize THEN Send(o, Frame("WINDOW_UPDATE", s, WindowSize, FALSE)) ELSE o

\* process_data.  HEADERS are queued before the DATA of their stream, so the
\* stream is always found.
RecvData(e) ==
  /\ Reads(e, "DATA") /\ par[e].stage = "HEADER"
  /\ LET f == NextFrame(e)
         x == par[e].info[f.stream]
         got == x.got + f.size
         connLeft == par[e].budget - f.size
         left == x.budget - f.size
         o == TopUp(out[e], Connection, connLeft)
     IN IF f.end
        THEN /\ par' = [par EXCEPT ![e].budget = Topped(connLeft),
                                   ![e].info = Erase(@, f.stream)]
             /\ Push(e, f.stream, got, o)
        ELSE /\ par' = [par EXCEPT ![e].budget = Topped(connLeft),
                                   ![e].info = SetInfo(@, f.stream,
                                      [got |-> got, budget |-> Topped(left)])]
             /\ out' = [out EXCEPT ![e] = TopUp(o, f.stream, left)]
             /\ UNCHANGED <<peerVars, handling, answers, history, aborted>>
  /\ UNCHANGED <<wr, conn, posted, notes, mgrVars, faults>>

\* The handler of a request ends; the response is queued on the strand.
HandlerDone(s) ==
  /\ ~aborted /\ s \in handling
  /\ handling' = handling \ {s}
  /\ \E size \in RespBodies :
       /\ out' = [out EXCEPT !["server"] = Enqueue(@, s, size)]
       /\ replies' = SetInfo(replies, s, size)
  /\ UNCHANGED <<par, wr, rd, wire, conn, peerVars, posted, notes, mgrVars, answers, seen,
                 aborted, faults>>

-----------------------------------------------------------------------------

Streams == {StreamOf(k) : k \in 1 .. Cardinality(Requests)}

\* What an end's strand and the network do for it.
EndStep(e) ==
  \/ WriteWakes(e) \/ Transmit(e) \/ WriteReturns(e) \/ WriteFails(e)
  \/ ReadFails(e) \/ RecvSettings(e) \/ RecvWindowUpdate(e) \/ RecvHeaders(e) \/ RecvData(e)

\* What goes on by itself.
System ==
  \/ Notified \/ PeerAsync \/ Connect
  \/ ReadReady \/ ReadHeaderOnly \/ RecvHello
  \/ \E e \in Ends : EndStep(e)
  \/ \E s \in Streams : HandlerDone(s)

Next == System \/ ConnectFails \/ Break \/ \E r \in Requests : Call(r)

Spec == Init /\ [][Next]_vars

\* Strands, handlers and the socket go on while there is anything to do;
\* programs need not call and nothing has to break.
FairSpec == Spec /\ WF_vars(System)

-----------------------------------------------------------------------------

\* What e still has to put on the wire, and all that is on its way to the other
\* end: the frames of a write the socket took are in both.
Unsent(e) ==
  LET drop(op) == IF wr[e].op = op /\ wr[e].sent = "yes" THEN wr[e].n ELSE 0
  IN SubSeq(out[e].pri, drop("pri") + 1, Len(out[e].pri))
       \o SubSeq(out[e].wq, drop("wq") + 1, Len(out[e].wq))
UnderWay(e) == wire[e] \o Unsent(e)

Total(q, type, s) ==
  FoldLeft(LAMBDA n, f : IF f.type = type /\ (type = "DATA" \/ f.stream = s)
                         THEN n + f.size ELSE n, 0, q)

\* While the connection is whole, the sender's budget is the receiver's less
\* what is under way between them, so no DATA frame can overrun the receiver's
\* budgets, which process_data only asserts (Parser.hpp:175-176).
FlowControl ==
  conn = "up" =>
    \A e \in Ends :
      /\ out[e].budget + Total(UnderWay(e), "DATA", Connection)
           + Total(UnderWay(Other(e)), "WINDOW_UPDATE", Connection) = par[Other(e)].budget
      /\ \A i \in DOMAIN UnderWay(e) :
           LET f == UnderWay(e)[i]
           IN f.type = "DATA" /\ f.stream \in DOMAIN par[Other(e)].info =>
                f.size <= par[Other(e)].info[f.stream].budget

\* A promise is set once, by a response, by fail() or by the Manager, however
\* failures of the two coroutines, late responses and calls on their way between
\* the strands interleave: the second set_value would throw (Client.hpp:44-58).
PromiseSetOnce == \A r \in Requests : Len(answers[r]) <= 1

\* A promise is set once, and a response carries the whole body its own handler
\* made of the whole body of this request: nothing is cut, doubled or mixed up
\* between streams (process_message, Client.hpp:136-151).
ResponseMatches ==
  /\ PromiseSetOnce
  /\ \A r \in Requests :
       \A v \in ToSet(answers[r]) \ {Failed} :
         \E s \in DOMAIN replies : RequestOf(s) = r /\ replies[s] = v /\ seen[s] = ReqBody[r]

\* The preface is the first the server reads, though the write coroutine starts
\* before it is queued (read_coro, Client.hpp:213-214).
PrefaceFirst == par["server"].stage = "HELLO" /\ wire["client"] # <<>> =>
                  Head(wire["client"]).type = "PREFACE"

\* Every request is answered, with a response or an error, unless the client
\* aborts: no budget, queue, pending request or lost connection holds it for
\* ever.
Answered == \A r \in Requests : r \in called ~> (answers[r] # <<>> \/ aborted)
=============================================================================

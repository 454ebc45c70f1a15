----------------------------- MODULE Http2Output -----------------------------
(***************************************************************************)
(* The sending half of an http/2 connection, the same for the client and   *)
(* the server: class Output of asio_http/v2/Output.hpp, with the frames of *)
(* asio_http/v2/Types.hpp.                                                 *)
(*                                                                         *)
(* Everything here runs on one strand, so a call is a function from the    *)
(* Output before it to the Output after it.  A frame is its header; the    *)
(* bytes of a body are counted, not kept.                                  *)
(***************************************************************************)
EXTENDS Integers, Sequences, FiniteSets, SequencesExt

CONSTANTS
  WindowSize,     \* DEFAULT_WINDOW_SIZE: the first budget of a connection or stream
  MinFrame,       \* MIN_FRAME_SIZE: no smaller piece of a longer body is sent
  MaxFrame,       \* DEFAULT_MAX_FRAME_SIZE
  MaxExclusive,   \* MAX_STREAM_EXCLUSIVE: at most that much of a stream at once
  MaxMerge        \* MAX_MERGE: frames in one write

ASSUME SizesAssumption ==
  /\ {WindowSize, MinFrame, MaxFrame, MaxExclusive, MaxMerge} \subseteq Nat \ {0}
  /\ MinFrame <= MaxFrame /\ MaxFrame <= WindowSize /\ WindowSize <= MaxExclusive

\* A frame.  end is the flag 0x1: END_STREAM, or ACK_SETTINGS of a SETTINGS.
Frame(type, stream, size, end) ==
  [type |-> type, stream |-> stream, size |-> size, end |-> end]

Connection == 0   \* the stream id of the connection itself

\* m_PriorityQueue, m_WriteQueue, m_Info and m_Budget of a new Output.
NewOutput == [pri |-> <<>>, wq |-> <<>>, info |-> <<>>, budget |-> WindowSize]

\* m_Info[aStreamId]: the entry of the stream, made when there is none.
InfoOf(o, s) ==
  IF s \in DOMAIN o.info THEN o.info[s] ELSE [body |-> 0, budget |-> WindowSize]

SetInfo(info, s, x) == [t \in DOMAIN info \cup {s} |-> IF t = s THEN x ELSE info[t]]
Erase(f, s) == [t \in DOMAIN f \ {s} |-> f[t]]

\* Mutant: aLast is ignored, every piece of a body ends its stream.
DataFramesAlwaysLast(stream, size, last) ==
  LET count == (size + MaxFrame - 1) \div MaxFrame
  IN [i \in 1 .. count |->
        Frame("DATA", stream,
              IF i < count THEN MaxFrame ELSE size - (count - 1) * MaxFrame, i = count)]

\* The private enqueue(): size bytes as DATA frames, END_STREAM on the last one.
DataFrames(stream, size, last) ==
  LET count == (size + MaxFrame - 1) \div MaxFrame
  IN [i \in 1 .. count |->
        Frame("DATA", stream,
              IF i < count THEN MaxFrame ELSE size - (count - 1) * MaxFrame,
              last /\ i = count)]

\* The body of flush()'s loop for one stream; stop is its break.
FlushStream(acc, s) ==
  LET o    == acc.o
      x    == o.info[s]
      len  == Min({o.budget, x.budget, x.body, MaxExclusive})
      last == len = x.body
      sent == [o EXCEPT
                 !.wq = @ \o DataFrames(s, len, last),
                 !.budget = @ - len,
                 !.info = IF last THEN Erase(@, s)
                          ELSE SetInfo(@, s, [body |-> x.body - len,
                                              budget |-> x.budget - len])]
  IN CASE acc.stop -> acc
       [] ~acc.stop /\ x.body = 0 -> [acc EXCEPT !.o.info = Erase(@, s)]
       [] ~acc.stop /\ x.body > len /\ len < MinFrame -> acc
       [] OTHER -> [o |-> sent, stop |-> sent.budget < MinFrame]

\* flush(): the streams in the order of their ids.
Flush(o) ==
  FoldLeft(FlushStream, [o |-> o, stop |-> FALSE], SetToSortSeq(DOMAIN o.info, <)).o

\* process_window_update().
ProcessWindowUpdate(o, s, inc) ==
  IF s = Connection
  THEN Flush([o EXCEPT !.budget = @ + inc])
  ELSE Flush([o EXCEPT !.info = SetInfo(@, s, [InfoOf(o, s) EXCEPT !.budget = @ + inc])])

\* send(): a frame that is not accounted for.
Send(o, f) == [o EXCEPT !.pri = Append(@, f)]

\* enqueue() of a Response or of a ClientRequest with a body of size bytes.
Enqueue(o, s, size) ==
  [o EXCEPT !.wq = Append(@, Frame("HEADERS", s, 0, size = 0)),
            !.info = IF size = 0 THEN @
                     ELSE SetInfo(@, s, [InfoOf(o, s) EXCEPT !.body = size])]

Bytes(q) == FoldLeft(LAMBDA n, f : IF f.type = "DATA" THEN n + f.size ELSE n, 0, q)

\* How many frames of a queue one sWriteOut() takes.
Merge(q) == Max({k \in 1 .. Min({Len(q), MaxMerge}) :
                   Bytes(SubSeq(q, 1, k - 1)) < MaxExclusive})

\* Where coro() stops next: in the write of the first frames of a queue, or in
\* the wait of m_Timer when both are empty.
NextWrite(o) ==
  CASE o.pri # <<>> -> [op |-> "pri", n |-> Merge(o.pri), sent |-> "no"]
    [] o.pri = <<>> /\ o.wq # <<>> -> [op |-> "wq", n |-> Merge(o.wq), sent |-> "no"]
    [] OTHER -> [op |-> "idle", n |-> 0, sent |-> "no"]

\* The end of sWriteOut() and, after the write queue, the flush() that follows.
Written(o, w) ==
  IF w.op = "pri" THEN [o EXCEPT !.pri = SubSeq(@, w.n + 1, Len(@))]
  ELSE LET p == [o EXCEPT !.wq = SubSeq(@, w.n + 1, Len(@))]
       IN IF p.budget > MinFrame THEN Flush(p) ELSE p
=============================================================================

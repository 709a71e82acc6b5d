---------------------------- MODULE StreamProofs ----------------------------
(***************************************************************************)
(* The safety properties of Stream, proved for every window size, buffer   *)
(* size, stream length and number of losses.                               *)
(*                                                                         *)
(* The inductive invariant IInv says that as long as no assertion of the   *)
(* code has failed the state is in Core, and that the properties (Goals)   *)
(* hold even in the state a failed assertion leaves behind.  Core is made  *)
(* of ten parts beside the types:                                          *)
(*   Ids        stream IDs are handed out once, in order;                  *)
(*   Messages   the streams that the messages under way speak about;       *)
(*   Granted    a stream nobody has answered yet has sent nothing;         *)
(*   Frames     the data frames under way follow one another;              *)
(*   SenderInv  the sender's flow, its queue and its user;                 *)
(*   Control    the handlers and flags in each state of the receiver;      *)
(*   Buffer     the buffer being filled, and the one for the window's end; *)
(*   Sink       what has been received is a prefix of one stream;          *)
(*   Flow       the frames under way are the next ones for the receiver;   *)
(*   Window     what the two ends and the messages between them know of    *)
(*              the window adds up.                                        *)
(*                                                                         *)
(* The lemmas are in the order of the operators, the sender's actions, the *)
(* receiver's actions, the properties.                                     *)
(***************************************************************************)
EXTENDS Stream, SequenceTheorems, TLAPS

\* The records of the state and of the messages.
Piece == [lo : Nat, hi : Nat, raw : BOOLEAN]
ToReceiver == [kind : {"INITIATE", "COMPLETE"}, sid : StreamIds, size : Nat]
Reply == [kind : {"REPLY"}, sid : StreamIds, reply : {"accept", "error"}, size : Nat]
Proceed == [kind : {"PROCEED"}, sid : StreamIds]
DataFrame == [s : Nat, lo : Nat, hi : Nat]
Byte == Nat \X Nat

Sender ==
    [pc : {"idle", "send_init_stream", "received_init_stream", "got_frame",
           "stream_proceed_timeout", "send_close_stream"},
     state : {"IDLE", "STARTED", "INITIATING", "RUNNING", "FULL", "CLOSING",
              "STATE_ERROR"},
     queue : Seq(Piece), msg : Piece, sid : StreamIds,
     reply : {"none", "accept", "error"}, winSize : Nat, win : Nat, total : Nat,
     timer : {"idle", "active", "expired", "notified"}, sleeping : BOOLEAN,
     requestClose : BOOLEAN, requestInit : BOOLEAN, replyHandler : BOOLEAN,
     proceedHandlers : 0..1, bad : {"none", "trigger", "start_stream"}]

Receiver ==
    [pc : {"idle", "wakeup", "init_buffer_ready", "have_raw_buffer"},
     queued : BOOLEAN, isWaiting : BOOLEAN, pendingInit : BOOLEAN,
     pendingCancel : BOOLEAN, closed : BOOLEAN, srcId : StreamIds,
     winSize : Nat, win : Nat, total : Nat,
     current : {"none", "middle", "last"}, bytes : Seq(Byte), last : BOOLEAN,
     initHandler : BOOLEAN, completeHandler : BOOLEAN, dataHandler : BOOLEAN,
     sink : Seq(Byte), held : Nat, result : {"none", "ok", "canceled"},
     bad : {"none", "notify", "null"}]

Reading == [state : {"none", "wait_for_started", "try_read", "wait_for_close", "again"},
            ofs : Nat, len : Nat]

\* The type invariant.
Types ==
    /\ snd \in Sender /\ rcv \in Receiver /\ read \in Reading
    /\ toRcv \in Seq(ToReceiver) /\ toSnd \in Seq(Reply \cup Proceed)
    /\ data \in Seq(DataFrame) /\ sizes \in Seq(Nat)
    /\ inUse \subseteq 0..MAX_SEND_STREAM_ID /\ nextId \in Nat

\* The number of streams started so far; the sender is on the last of them.
K == Len(sizes)

\* The stream ID of the n-th stream: IDs are taken one after the other and
\* never given back.
IdOf(n) == IF MAX_SEND_STREAM_ID > 0 /\ n \in 1..MAX_SEND_STREAM_ID + 1 THEN n - 1
           ELSE INVALID_STREAM_ID

\* get_send_stream_id() has given out the first IDs, each of them once.
Ids ==
    /\ snd.sid = IdOf(K)
    /\ MAX_SEND_STREAM_ID > 0 =>
          IF K <= MAX_SEND_STREAM_ID THEN inUse = 0..K - 1 /\ nextId = K
          ELSE inUse = 0..MAX_SEND_STREAM_ID

\* The messages under way, by what they do: open a stream, close it, or give
\* the sender a window.
Inits == {i \in 1..Len(toRcv) : toRcv[i].kind = "INITIATE" /\ toRcv[i].sid # INVALID_STREAM_ID}
Closes == {i \in 1..Len(toRcv) : toRcv[i].kind = "COMPLETE"}
Gives(m) == m.kind = "PROCEED" \/ m.reply = "accept"
Grants == {i \in 1..Len(toSnd) : Gives(toSnd[i])}

\* The receiver is offered the streams in order: a stream that is still to be
\* offered is later than the one it has, and its close has not been sent.
Messages ==
    /\ \A i \in Inits : /\ toRcv[i].sid < K /\ toRcv[i].size > 0
                        /\ rcv.srcId # INVALID_STREAM_ID => rcv.srcId < toRcv[i].sid
                        /\ snd.state = "STARTED" => toRcv[i].sid # snd.sid
    /\ \A i, j \in Inits : i < j => toRcv[i].sid < toRcv[j].sid
    /\ rcv.srcId # INVALID_STREAM_ID =>
          rcv.srcId < K /\ (snd.state = "STARTED" => rcv.srcId # snd.sid)
    /\ \A i \in Closes : /\ toRcv[i].sid # INVALID_STREAM_ID /\ toRcv[i].sid < K
                         /\ toRcv[i].size = sizes[toRcv[i].sid + 1]
                         /\ \A j \in Inits : toRcv[j].sid # toRcv[i].sid
    /\ \A i \in Grants : toSnd[i].sid # INVALID_STREAM_ID /\ toSnd[i].sid < K

\* The receiver has taken the stream and has not answered yet.
Opening == rcv.completeHandler /\ ~rcv.dataHandler

\* The sender has no window, has sent nothing and nothing is on its way to it.
NotGranted ==
    /\ snd.win = 0 /\ snd.total = 0 /\ snd.reply # "accept" /\ snd.proceedHandlers = 0
    /\ \A i \in Grants : toSnd[i].sid # snd.sid
    /\ \A i \in Closes : toRcv[i].sid # snd.sid

\* The present stream cannot have been answered yet, or never will be.
Early ==
    \/ snd.sid = INVALID_STREAM_ID \/ snd.state = "STARTED" \/ Inits # {} \/ Opening
    \/ rcv.srcId \notin {snd.sid, INVALID_STREAM_ID}

Granted == Early => NotGranted

\* The data frames are of one stream and without a gap, and end where the
\* sender is.
Frames ==
    /\ \A i \in 1..Len(data) : data[i].s \in 1..K /\ data[i].hi - data[i].lo <= FrameSize
    /\ \A i, j \in 1..Len(data) : /\ data[i].s = data[j].s
                                  /\ i <= j => data[i].lo < data[j].hi
    /\ \A i \in 1..Len(data) - 1 : data[i + 1].lo = data[i].hi
    /\ data # << >> /\ data[Len(data)].s = K => data[Len(data)].hi = snd.total
    /\ data # << >> /\ ~NotGranted => data[Len(data)].s = K

\* The sender s and its user rd, with n the length of the stream.  Before the
\* first byte: from start_stream() to the state RUNNING or STATE_ERROR.
SenderStart(s, rd, n) ==
    /\ s.total = 0 /\ ~s.requestClose /\ rd.ofs = 0 /\ rd.len = n
    /\ s.msg = EmptyChunk
    /\ s.state = "STARTED" => s.winSize > 0
    /\ \/ /\ s.state = "STARTED" /\ s.requestInit /\ s.pc = "idle"
          /\ s.queue = <<EmptyChunk>> /\ s.proceedHandlers = 0
       \/ /\ s.state = "STARTED" /\ ~s.requestInit /\ s.pc = "send_init_stream"
          /\ s.queue = << >> /\ s.proceedHandlers = 0
       \/ /\ s.state = "INITIATING" /\ ~s.requestInit /\ s.pc = "received_init_stream"
          /\ s.queue = << >> /\ s.proceedHandlers = 0
       \/ /\ s.state = "RUNNING" /\ ~s.requestInit /\ s.pc = "idle"
          /\ s.queue = << >> /\ s.reply = "accept" /\ s.proceedHandlers = 1
       \/ /\ s.state = "STATE_ERROR" /\ ~s.requestInit /\ s.pc = "idle"
          /\ s.queue = << >> /\ s.proceedHandlers = 0

\* Where the next raw buffer in the queue has to start.
From(s) == IF s.msg.raw THEN s.msg.hi ELSE s.total

\* The buffers at the sender follow one another, from what has been sent to
\* what the read flow has read.
Tiles(s, rd, n) ==
    /\ s.msg.raw => s.msg.lo = s.total /\ s.msg.lo <= s.msg.hi
    /\ ~s.msg.raw => s.msg.lo = s.msg.hi
    /\ \A i \in 1..Len(s.queue) :
          /\ s.queue[i].lo <= s.queue[i].hi
          /\ ~s.queue[i].raw => /\ i = Len(s.queue) /\ rd.state = "wait_for_close"
                                /\ s.queue[i] = EmptyChunk
    /\ s.queue # << >> /\ s.queue[1].raw => s.queue[1].lo = From(s)
    /\ \A i \in 1..Len(s.queue) - 1 :
          s.queue[i + 1].raw => s.queue[i + 1].lo = s.queue[i].hi
    /\ rd.state # "again" =>
          /\ s.queue = << >> \/ ~s.queue[1].raw => From(s) = rd.ofs
          /\ \A i \in 1..Len(s.queue) :
                s.queue[i].raw /\ (i = Len(s.queue) \/ ~s.queue[i + 1].raw) =>
                    s.queue[i].hi = rd.ofs
          /\ rd.ofs + rd.len = n

\* While bytes are sent, and after the close.
SenderGoes(s, rd, n) ==
    /\ ~s.requestInit /\ s.reply = "accept"
    /\ s.requestClose => rd.state = "wait_for_close"
    /\ rd.state = "wait_for_close" => rd.len = 0
    /\ s.pc = "idle" => s.msg = EmptyChunk
    /\ \/ /\ s.state = "RUNNING" /\ s.pc \in {"idle", "got_frame"} /\ Tiles(s, rd, n)
          /\ s.proceedHandlers = 1
          /\ rd.state = "wait_for_close" => s.requestClose
          /\ s.pc = "got_frame" => s.msg.lo < s.msg.hi /\ s.win > 0
       \/ /\ s.state = "FULL" /\ s.pc = "stream_proceed_timeout" /\ Tiles(s, rd, n)
          /\ s.proceedHandlers = 1
          /\ rd.state = "wait_for_close" => s.requestClose
       \/ /\ s.state = "RUNNING" /\ s.pc = "send_close_stream"
          /\ s.queue = << >> /\ s.total = n /\ s.win > 0
          /\ ~s.requestClose /\ rd.state = "wait_for_close" /\ s.proceedHandlers = 0
       \/ /\ s.state = "CLOSING" /\ s.pc = "idle" /\ s.queue = << >>
          /\ ~s.requestClose /\ s.proceedHandlers = 0 /\ rd.state = "wait_for_close"
       \/ /\ s.state = "STATE_ERROR" /\ s.pc = "idle"
          /\ rd.state = "wait_for_close" => s.requestClose
          /\ \A i \in 1..Len(s.queue) : s.queue[i].lo <= s.queue[i].hi

\* Between two streams.
SenderRests(s) ==
    /\ s.state = "IDLE" /\ s.pc = "idle" /\ s.queue = << >> /\ ~s.requestInit
    /\ s.msg = EmptyChunk
    /\ s.proceedHandlers = 0 \/ s.requestClose

\* The sender's flow in each state of its user.
SenderInv ==
    /\ read.state = "none" => SenderRests(snd)
    /\ read.state = "wait_for_started" => SenderStart(snd, read, sizes[K]) /\ K > 0
    /\ read.state \in {"try_read", "wait_for_close", "again"} =>
          SenderGoes(snd, read, sizes[K]) /\ K > 0
    /\ snd.replyHandler => snd.state = "INITIATING"

\* What the receiver has got of its stream.
Stored == rcv.sink \o rcv.bytes

\* The handlers, the flags and the states of the receiver's flow.
Control ==
    /\ rcv.pc = "idle" => ~rcv.initHandler /\ ~rcv.completeHandler /\ ~rcv.dataHandler
    /\ rcv.queued => \/ rcv.pendingCancel
                     \/ rcv.pc = "wakeup" /\ rcv.pendingInit
                     \/ rcv.pc = "wakeup" /\ rcv.dataHandler /\ rcv.win = 0
    /\ rcv.queued => rcv.pc = "wakeup"
    /\ rcv.isWaiting => rcv.pc = "wakeup"
    /\ rcv.initHandler => /\ rcv.srcId = INVALID_STREAM_ID /\ ~rcv.completeHandler
                          /\ ~rcv.dataHandler /\ ~rcv.pendingInit /\ rcv.pc = "wakeup" /\ ~rcv.closed
    /\ rcv.pendingInit /\ rcv.pc # "idle" => Opening /\ rcv.pc = "wakeup"
    /\ rcv.pc = "init_buffer_ready" => Opening
    /\ Opening => /\ rcv.srcId # INVALID_STREAM_ID /\ rcv.total = 0 /\ ~rcv.closed
                  /\ rcv.win = rcv.winSize /\ data = << >>
                  /\ \A i \in Closes : toRcv[i].sid # rcv.srcId
                  /\ rcv.pc = "init_buffer_ready" \/ (rcv.pc = "wakeup" /\ rcv.pendingInit)
    /\ rcv.completeHandler => ~rcv.closed
    /\ rcv.dataHandler => /\ rcv.srcId # INVALID_STREAM_ID
                          /\ rcv.pc \in {"wakeup", "have_raw_buffer"}
                          /\ rcv.completeHandler \/ rcv.closed
    /\ rcv.pc = "have_raw_buffer" => rcv.dataHandler /\ rcv.win = 0 /\ ~rcv.closed
    /\ rcv.winSize > 0

\* While the window is open there is room in the buffer being filled or a
\* buffer to take, and the last one is the one from lastBufferPool_.
Buffer ==
    /\ ~rcv.dataHandler => rcv.current = "none"
    /\ rcv.current = "none" => rcv.bytes = << >>
    /\ rcv.dataHandler /\ rcv.win > 0 =>
          /\ rcv.current = "last" => Len(rcv.bytes) + rcv.win <= RawSize
          /\ rcv.current # "last" => rcv.last
          /\ Len(rcv.bytes) < RawSize
    /\ rcv.dataHandler /\ rcv.win = 0 /\ ~rcv.closed => rcv.current = "none"

\* What has been received is the beginning of the stream the receiver is on,
\* the whole of it once the request has returned without an error.
Sink ==
    /\ rcv.srcId # INVALID_STREAM_ID => Stored = Bytes(rcv.srcId + 1, 0, rcv.total)
    /\ rcv.srcId = INVALID_STREAM_ID => Stored = << >>
    /\ rcv.result = "ok" => /\ rcv.srcId # INVALID_STREAM_ID /\ rcv.total = sizes[rcv.srcId + 1]
                            /\ rcv.pc = "idle"

\* The frames under way are the next ones of the receiver's stream and fit
\* into its window; a close message knows how many there are.
Flow ==
    rcv.dataHandler =>
        /\ data # << >> => data[1].s = rcv.srcId + 1 /\ data[1].lo = rcv.total
        /\ InFlight <= rcv.win
        /\ rcv.closed => InFlight = rcv.win /\ rcv.total + rcv.win = sizes[rcv.srcId + 1]
        /\ rcv.completeHandler =>
              \A i \in Closes : toRcv[i].sid = rcv.srcId =>
                  rcv.total + InFlight = toRcv[i].size /\ InFlight < rcv.win

\* Sender and receiver are on the same stream.
Linked == rcv.dataHandler /\ rcv.srcId = snd.sid

\* The window at the two ends and in the message between them; the sender only
\* closes a stream it still has a window for.
Window ==
    /\ rcv.srcId = snd.sid /\ rcv.srcId # INVALID_STREAM_ID /\ rcv.completeHandler /\ snd.proceedHandlers = 1 =>
          snd.winSize = rcv.winSize
    /\ Linked =>
          /\ rcv.total + InFlight = snd.total
          /\ ~rcv.closed => InFlight + snd.win <= rcv.win
          /\ \A i \in Grants : toSnd[i].sid = snd.sid =>
                /\ snd.win = 0 /\ data = << >> /\ rcv.win = rcv.winSize
                /\ toSnd[i].kind = "REPLY" => toSnd[i].size = rcv.winSize /\ snd.proceedHandlers = 0
                /\ \A j \in Grants : toSnd[j].sid = snd.sid => i = j
          /\ snd.pc = "received_init_stream" /\ snd.reply = "accept" =>
                /\ snd.win = 0 /\ data = << >> /\ rcv.win = rcv.winSize /\ snd.winSize = rcv.winSize
                /\ \A i \in Grants : toSnd[i].sid # snd.sid
          /\ rcv.closed => snd.win > 0 /\ snd.pc = "idle" /\ snd.state \in {"CLOSING", "IDLE"}
    /\ \A i \in Closes : toRcv[i].sid = snd.sid =>
          snd.win > 0 /\ snd.pc = "idle" /\ snd.state \in {"CLOSING", "IDLE"}

\* What holds until an assertion fails, and what holds always.
Core == /\ Types /\ Ids /\ Messages /\ Granted /\ Frames /\ SenderInv
        /\ Control /\ Buffer /\ Sink /\ Flow /\ Window

\* The properties of the runs that this module proves.
Goals == SinkInOrder /\ OkMeansWhole /\ WindowsAgree /\ LastBufferThere /\ NotifiedOnce
-----------------------------------------------------------------------------
(* Bytes and buffers. *)

\* The bytes of a part of a stream.
LEMMA BytesAre ==
    ASSUME NEW s \in Nat, NEW lo \in Nat, NEW hi \in Nat, lo <= hi
    PROVE  /\ Bytes(s, lo, hi) \in Seq(Byte) /\ Len(Bytes(s, lo, hi)) = hi - lo
           /\ \A i \in 1..hi - lo : Bytes(s, lo, hi)[i] = <<s, lo + i>>
<1>1. hi - lo \in Nat
  OBVIOUS
<1>2. \A i \in 1..hi - lo : <<s, lo + i>> \in Byte
  BY DEF Byte
<1> QED BY <1>1, <1>2 DEF Bytes

\* The first bytes of a part.
LEMMA BytesFirst ==
    ASSUME NEW s \in Nat, NEW lo \in Nat, NEW hi \in Nat, lo <= hi, NEW n \in 0..hi - lo
    PROVE  /\ SubSeq(Bytes(s, lo, hi), 1, n) = Bytes(s, lo, lo + n)
           /\ SubSeq(Bytes(s, lo, hi), n + 1, hi - lo) = Bytes(s, lo + n, hi)
<1> DEFINE b == Bytes(s, lo, hi)
<1>1. b \in Seq(Byte) /\ Len(b) = hi - lo /\ \A i \in 1..hi - lo : b[i] = <<s, lo + i>>
  BY BytesAre
<1> HIDE DEF b
<1>2. SubSeq(b, 1, n) = Bytes(s, lo, lo + n)
  <2>1. SubSeq(b, 1, n) = [i \in 1..n |-> b[i]]
    BY <1>1
  <2>2. \A i \in 1..n : b[i] = <<s, lo + i>>
    BY <1>1
  <2>3. (lo + n) - lo = n
    OBVIOUS
  <2> QED BY <2>1, <2>2, <2>3 DEF Bytes
<1>3. SubSeq(b, n + 1, hi - lo) = Bytes(s, lo + n, hi)
  <2> DEFINE c == Bytes(s, lo + n, hi)
             p == SubSeq(b, n + 1, hi - lo)
  <2>1. /\ c \in Seq(Byte) /\ Len(c) = hi - (lo + n)
        /\ \A i \in 1..hi - (lo + n) : c[i] = <<s, (lo + n) + i>>
    <3>1. lo + n \in Nat /\ lo + n <= hi
      OBVIOUS
    <3> QED BY <3>1, BytesAre
  <2>2. \A i \in n + 1..hi - lo : b[i] \in Byte
    <3>1. \A i \in 1..Len(b) : b[i] \in Byte
      BY <1>1
    <3> QED BY <1>1, <3>1
  <2>3. /\ p \in Seq(Byte)
        /\ Len(p) = IF n + 1 <= hi - lo THEN (hi - lo) - (n + 1) + 1 ELSE 0
        /\ \A i \in 1..(hi - lo) - (n + 1) + 1 : p[i] = b[(n + 1) + i - 1]
    <3>1. n + 1 \in Int /\ hi - lo \in Int
      OBVIOUS
    <3> HIDE DEF p
    <3> QED BY <2>2, <3>1, SubSeqProperties DEF p
  <2> HIDE DEF c, p
  <2>4. Len(p) = Len(c)
    BY <2>1, <2>3
  <2>5. ASSUME NEW i \in 1..Len(p) PROVE p[i] = c[i]
    <3>1. i \in 1..hi - (lo + n) /\ (n + 1) + i - 1 = n + i /\ n + i \in 1..hi - lo
      BY <2>1, <2>4
    <3>2. p[i] = b[n + i]
      BY <2>3, <3>1
    <3>3. b[n + i] = <<s, lo + (n + i)>> /\ lo + (n + i) = (lo + n) + i
      BY <1>1, <3>1
    <3> QED BY <2>1, <3>1, <3>2, <3>3
  <2>6. p = c
    BY <2>1, <2>3, <2>4, <2>5, SeqEqual
  <2> QED BY <2>6 DEF p, c
<1> QED BY <1>2, <1>3 DEF b

\* A part behind the bytes before it.
LEMMA BytesConcat ==
    ASSUME NEW s \in Nat, NEW lo \in Nat, NEW mid \in Nat, NEW hi \in Nat, lo <= mid, mid <= hi
    PROVE  Bytes(s, lo, mid) \o Bytes(s, mid, hi) = Bytes(s, lo, hi)
<1> DEFINE a == Bytes(s, lo, mid)
           b == Bytes(s, mid, hi)
           c == Bytes(s, lo, hi)
<1>0. lo <= hi
  OBVIOUS
<1>1. /\ a \in Seq(Byte) /\ Len(a) = mid - lo /\ \A i \in 1..mid - lo : a[i] = <<s, lo + i>>
      /\ b \in Seq(Byte) /\ Len(b) = hi - mid /\ \A i \in 1..hi - mid : b[i] = <<s, mid + i>>
      /\ c \in Seq(Byte) /\ Len(c) = hi - lo /\ \A i \in 1..hi - lo : c[i] = <<s, lo + i>>
  <2>1. a \in Seq(Byte) /\ Len(a) = mid - lo /\ \A i \in 1..mid - lo : a[i] = <<s, lo + i>>
    BY BytesAre
  <2>2. b \in Seq(Byte) /\ Len(b) = hi - mid /\ \A i \in 1..hi - mid : b[i] = <<s, mid + i>>
    BY BytesAre
  <2>3. c \in Seq(Byte) /\ Len(c) = hi - lo /\ \A i \in 1..hi - lo : c[i] = <<s, lo + i>>
    BY <1>0, BytesAre
  <2> QED BY <2>1, <2>2, <2>3
<1> HIDE DEF a, b, c
<1>2. /\ a \o b \in Seq(Byte) /\ Len(a \o b) = Len(a) + Len(b)
      /\ \A i \in 1..Len(a) + Len(b) : (a \o b)[i] = IF i <= Len(a) THEN a[i] ELSE b[i - Len(a)]
  BY <1>1, ConcatProperties
<1>3. ASSUME NEW i \in 1..hi - lo PROVE (a \o b)[i] = c[i]
  <2>1. CASE i <= mid - lo
    <3>1. i \in 1..mid - lo /\ i \in 1..Len(a) + Len(b) /\ i <= Len(a)
      BY <1>1, <2>1
    <3>2. (a \o b)[i] = a[i]
      BY <1>2, <3>1
    <3> QED BY <1>1, <3>1, <3>2
  <2>2. CASE i > mid - lo
    <3>1. i - (mid - lo) \in 1..hi - mid /\ mid + (i - (mid - lo)) = lo + i
      BY <2>2
    <3>2. (a \o b)[i] = b[i - (mid - lo)]
      <4>1. i \in 1..Len(a) + Len(b) /\ ~(i <= Len(a)) /\ Len(a) = mid - lo
        BY <1>1, <2>2
      <4> QED BY <1>2, <4>1
    <3>3. b[i - (mid - lo)] = <<s, mid + (i - (mid - lo))>>
      BY <1>1, <3>1
    <3> QED BY <1>1, <3>1, <3>2, <3>3
  <2>3. i <= mid - lo \/ i > mid - lo
    OBVIOUS
  <2> QED BY <2>1, <2>2, <2>3
<1>4. Len(a \o b) = hi - lo
  BY <1>1, <1>2
<1>5. a \o b = c
  BY <1>1, <1>2, <1>3, <1>4, SeqEqual
<1> QED BY <1>5 DEF a, b, c

\* What a buffer that is being filled looks like while its window is open.
Filling(r) ==
    /\ r.current = "none" => r.bytes = << >>
    /\ r.current = "last" => Len(r.bytes) + r.win <= RawSize
    /\ r.current # "last" => r.last
    /\ Len(r.bytes) < RawSize

\* The fields that filling a buffer leaves alone.
SameControl(r, q) ==
    /\ q.pc = r.pc /\ q.queued = r.queued /\ q.isWaiting = r.isWaiting
    /\ q.pendingInit = r.pendingInit /\ q.pendingCancel = r.pendingCancel
    /\ q.closed = r.closed /\ q.srcId = r.srcId /\ q.winSize = r.winSize
    /\ q.initHandler = r.initHandler /\ q.completeHandler = r.completeHandler
    /\ q.dataHandler = r.dataHandler /\ q.result = r.result

\* The buffer goes to the sink with all it has.
LEMMA FlushKeeps ==
    ASSUME NEW r \in Receiver, r.current = "none" => r.bytes = << >>
    PROVE  LET q == Flush(r) IN
           /\ q \in Receiver /\ SameControl(r, q) /\ q.win = r.win /\ q.total = r.total
           /\ q.bad = r.bad /\ q.last = r.last
           /\ q.current = "none" /\ q.bytes = << >> /\ q.sink = r.sink \o r.bytes
<1>1. CASE r.current = "none"
  <2>1. Flush(r) = r /\ r.bytes = << >> /\ r.sink \in Seq(Byte)
    BY <1>1 DEF Flush, Receiver
  <2>2. r.sink \o << >> = r.sink
    BY <2>1, ConcatEmptySeq
  <2> QED BY <1>1, <2>1, <2>2 DEF SameControl
<1>2. CASE r.current # "none"
  <2> DEFINE q == [r EXCEPT !.sink = r.sink \o r.bytes, !.bytes = << >>, !.current = "none",
                            !.held = r.held + (IF r.current = "last" THEN 1 ELSE 0)]
  <2>1. Flush(r) = q
    BY <1>2 DEF Flush
  <2>2. r.sink \in Seq(Byte) /\ r.bytes \in Seq(Byte)
    BY DEF Receiver
  <2>3. r.sink \o r.bytes \in Seq(Byte) /\ << >> \in Seq(Byte)
    BY <2>2, ConcatProperties
  <2>4. r.held + (IF r.current = "last" THEN 1 ELSE 0) \in Nat
    BY DEF Receiver
  <2>5. q \in Receiver
    BY <2>3, <2>4 DEF Receiver
  <2>6. SameControl(r, q)
    BY DEF SameControl, Receiver
  <2>7. /\ q.win = r.win /\ q.total = r.total /\ q.bad = r.bad /\ q.last = r.last
        /\ q.current = "none" /\ q.bytes = << >> /\ q.sink = r.sink \o r.bytes
    BY DEF Receiver
  <2> QED BY <2>1, <2>5, <2>6, <2>7
<1> QED BY <1>1, <1>2


\* What Append does.
LEMMA AppendIs ==
    ASSUME NEW S, NEW s \in Seq(S), NEW x \in S
    PROVE  /\ Append(s, x) \in Seq(S) /\ Len(s) \in Nat /\ Len(Append(s, x)) = Len(s) + 1
           /\ \A i \in 1..Len(s) : Append(s, x)[i] = s[i]
           /\ Append(s, x)[Len(s) + 1] = x
BY AppendProperties

\* What Head and Tail do.
LEMMA TailIs ==
    ASSUME NEW S, NEW s \in Seq(S), s # << >>
    PROVE  /\ Tail(s) \in Seq(S) /\ Len(s) \in Nat /\ Len(s) > 0 /\ Len(Tail(s)) = Len(s) - 1
           /\ Head(s) = s[1] /\ s[1] \in S
           /\ \A i \in 1..Len(s) - 1 : Tail(s)[i] = s[i + 1]
BY HeadTailProperties, EmptySeq

\* The smaller of two numbers.
LEMMA SmallerIs ==
    ASSUME NEW a \in Int, NEW b \in Int
    PROVE  /\ Smaller(a, b) \in Int /\ Smaller(a, b) <= a /\ Smaller(a, b) <= b
           /\ Smaller(a, b) = a \/ Smaller(a, b) = b
BY DEF Smaller

\* Bytes b go into the buffer as far as there is room; a buffer that is full, or
\* the window's last one, goes to the sink.
LEMMA FillKeeps ==
    ASSUME NEW r \in Receiver, NEW b \in Seq(Byte), b # << >>, Len(b) <= r.win,
           r.bad = "none", Filling(r)
    PROVE  LET q == FillBuffer(r, b)
               n == Smaller(Len(b), RawSize - Len(r.bytes)) IN
           /\ n \in 1..Len(b) /\ q \in Receiver /\ SameControl(r, q)
           /\ q.bad = "none" /\ q.total = r.total + n /\ q.win = r.win - n
           /\ q.sink \o q.bytes = (r.sink \o r.bytes) \o SubSeq(b, 1, n)
           /\ q.win > 0 => Filling(q)
           /\ q.win = 0 => q.current = "none"
           /\ q.current = "none" => q.bytes = << >>
           /\ n < Len(b) => q.current = "none"
<1> DEFINE n == Smaller(Len(b), RawSize - Len(r.bytes))
           c == IF r.current = "none" THEN NextBuffer(r) ELSE r
           f == [c EXCEPT !.bytes = c.bytes \o SubSeq(b, 1, n), !.total = c.total + n,
                          !.win = IF n <= c.win THEN c.win - n ELSE 0]
<1>1. RawSize \in Nat /\ Len(b) \in Nat /\ Len(b) > 0 /\ Len(r.bytes) \in Nat
      /\ Len(r.bytes) < RawSize /\ r.bytes \in Seq(Byte) /\ r.sink \in Seq(Byte)
      /\ r.win \in Nat /\ r.total \in Nat
  <2>1. r.bytes \in Seq(Byte) /\ r.sink \in Seq(Byte) /\ r.win \in Nat /\ r.total \in Nat
    BY DEF Receiver
  <2>2. Len(r.bytes) \in Nat /\ Len(b) \in Nat /\ Len(b) > 0
    BY <2>1, LenProperties, EmptySeq
  <2> QED BY <2>1, <2>2, StreamAssumption DEF Filling
<1>2. n \in 1..Len(b) /\ n <= RawSize - Len(r.bytes) /\ n <= r.win
      /\ (n = Len(b) \/ n = RawSize - Len(r.bytes))
  <2>1. RawSize - Len(r.bytes) \in Int /\ RawSize - Len(r.bytes) > 0
    BY <1>1
  <2>2. n = Len(b) \/ n = RawSize - Len(r.bytes)
    BY DEF Smaller
  <2>3. n <= Len(b) /\ n <= RawSize - Len(r.bytes)
    <3>1. Len(b) \in Int
      BY <1>1
    <3> QED BY <2>1, <3>1, SmallerIs
  <2> HIDE DEF n
  <2> QED BY <1>1, <2>1, <2>2, <2>3
<1>3. /\ c \in Receiver /\ SameControl(r, c) /\ c.bad = "none"
      /\ c.win = r.win /\ c.total = r.total /\ c.sink = r.sink /\ c.bytes = r.bytes
      /\ c.current # "none"
      /\ c.current = "last" => Len(r.bytes) + r.win <= RawSize
      /\ c.current # "last" => c.last
  <2>1. CASE r.current # "none"
    <3>1. c = r
      BY <2>1
    <3> HIDE DEF c
    <3> QED BY <2>1, <3>1 DEF SameControl, Filling
  <2>2. CASE r.current = "none" /\ r.win > RawSize
    <3>1. c = [r EXCEPT !.current = "middle"]
      BY <2>2 DEF NextBuffer
    <3>2. r.last /\ r.bytes = << >>
      BY <2>2 DEF Filling
    <3> HIDE DEF c
    <3>3. c \in Receiver
      BY <3>1 DEF Receiver
    <3> QED BY <3>1, <3>2, <3>3 DEF SameControl, Receiver
  <2>3. CASE r.current = "none" /\ ~(r.win > RawSize)
    <3>1. r.last /\ r.bytes = << >>
      BY <2>3 DEF Filling
    <3>2. c = [r EXCEPT !.current = "last", !.last = FALSE]
      BY <2>3, <3>1 DEF NextBuffer
    <3>3. Len(r.bytes) + r.win <= RawSize
      BY <1>1, <2>3, <3>1
    <3> HIDE DEF c
    <3>4. c \in Receiver
      BY <3>2 DEF Receiver
    <3> QED BY <3>1, <3>2, <3>3, <3>4 DEF SameControl, Receiver
  <2> QED BY <2>1, <2>2, <2>3
<1>4. FillBuffer(r, b) = IF Len(f.bytes) = RawSize \/ f.win = 0 THEN Flush(f) ELSE f
  BY <1>3, ZenonT(40) DEF FillBuffer
<1> HIDE DEF c
<1>5. /\ f.bytes = r.bytes \o SubSeq(b, 1, n) /\ f.total = r.total + n /\ f.win = r.win - n
      /\ f.sink = r.sink /\ f.current = c.current /\ f.last = c.last /\ f.bad = "none"
      /\ SameControl(r, f)
  <2> HIDE DEF n
  <2>1. f.bytes = r.bytes \o SubSeq(b, 1, n) /\ f.total = r.total + n /\ f.win = r.win - n
    BY <1>1, <1>2, <1>3 DEF Receiver
  <2>2. f.sink = r.sink /\ f.current = c.current /\ f.last = c.last /\ f.bad = "none"
    BY <1>3 DEF Receiver
  <2>3. SameControl(r, f)
    BY <1>3 DEF SameControl, Receiver
  <2> QED BY <2>1, <2>2, <2>3
<1>6. /\ SubSeq(b, 1, n) \in Seq(Byte) /\ Len(SubSeq(b, 1, n)) = n
      /\ f.bytes \in Seq(Byte) /\ Len(f.bytes) = Len(r.bytes) + n
  <2> DEFINE a == SubSeq(b, 1, n)
  <2>1. a \in Seq(Byte) /\ Len(a) = n
    <3>1. \A i \in 1..n : b[i] \in Byte
      BY <1>1, <1>2, ElementOfSeq
    <3>2. 1 \in Int /\ n \in Int /\ 1 <= n
      BY <1>2
    <3> HIDE DEF n
    <3>3. a \in Seq(Byte) /\ Len(a) = IF 1 <= n THEN n - 1 + 1 ELSE 0
      BY <3>1, <3>2, SubSeqProperties
    <3> QED BY <3>2, <3>3
  <2>2. r.bytes \in Seq(Byte)
    BY <1>1
  <2> HIDE DEF a
  <2>3. r.bytes \o a \in Seq(Byte) /\ Len(r.bytes \o a) = Len(r.bytes) + Len(a)
    BY <2>1, <2>2, ConcatProperties
  <2> QED BY <1>5, <2>1, <2>3 DEF a
<1>7. f \in Receiver
  <2>1. f.total \in Nat /\ f.win \in Nat
    <3>1. n \in Nat /\ r.win - n \in Nat /\ r.total + n \in Nat
      <4> HIDE DEF n
      <4> QED BY <1>1, <1>2
    <3> HIDE DEF n, f
    <3> QED BY <1>5, <3>1
  <2>2. f = [c EXCEPT !.bytes = f.bytes, !.total = f.total, !.win = f.win]
    BY <1>3 DEF Receiver
  <2> HIDE DEF f
  <2> QED BY <1>3, <1>6, <2>1, <2>2, ZenonT(40) DEF Receiver
<1> HIDE DEF n, f
<1>8. (r.sink \o r.bytes) \o SubSeq(b, 1, n) = f.sink \o f.bytes
  <2>1. r.sink \in Seq(Byte) /\ r.bytes \in Seq(Byte) /\ SubSeq(b, 1, n) \in Seq(Byte)
    BY <1>1, <1>6
  <2>2. (r.sink \o r.bytes) \o SubSeq(b, 1, n) = r.sink \o (r.bytes \o SubSeq(b, 1, n))
    <3> DEFINE x == r.sink
               y == r.bytes
               z == SubSeq(b, 1, n)
    <3>1. x \in Seq(Byte) /\ y \in Seq(Byte) /\ z \in Seq(Byte)
      BY <2>1
    <3> HIDE DEF x, y, z
    <3>2. (x \o y) \o z = x \o (y \o z)
      BY <3>1, ConcatAssociative, SMTT(30)
    <3> QED BY <3>2 DEF x, y, z
  <2> QED BY <1>5, <2>2
<1>9. CASE Len(f.bytes) = RawSize \/ f.win = 0
  <2> DEFINE q == Flush(f)
  <2>1. /\ q \in Receiver /\ SameControl(f, q) /\ q.win = f.win /\ q.total = f.total
        /\ q.bad = f.bad /\ q.last = f.last
        /\ q.current = "none" /\ q.bytes = << >> /\ q.sink = f.sink \o f.bytes
    BY <1>3, <1>5, <1>7, FlushKeeps
  <2>2. FillBuffer(r, b) = q
    BY <1>4, <1>9
  <2> HIDE DEF q
  <2>3. q.sink \o q.bytes = f.sink \o f.bytes
    <3>1. q.sink \in Seq(Byte)
      BY <2>1 DEF Receiver
    <3>2. q.sink \o << >> = q.sink
      BY <3>1, ConcatEmptySeq
    <3> QED BY <2>1, <3>2
  <2>4. q.win > 0 => Filling(q)
    <3> SUFFICES ASSUME q.win > 0 PROVE Filling(q)
      OBVIOUS
    <3>1. Len(f.bytes) = RawSize
      BY <1>9, <2>1
    <3>2. c.current # "last"
      BY <1>1, <1>2, <1>3, <1>5, <1>6, <2>1, <3>1
    <3>3. q.last /\ Len(q.bytes) = 0 /\ 0 < RawSize
      BY <1>1, <1>3, <1>5, <2>1, <3>2
    <3> QED BY <2>1, <3>3 DEF Filling
  <2>5. SameControl(r, q)
    BY <1>5, <2>1 DEF SameControl
  <2> QED BY <1>2, <1>5, <1>8, <2>1, <2>2, <2>3, <2>4, <2>5 DEF n
<1>10. CASE ~(Len(f.bytes) = RawSize \/ f.win = 0)
  <2>1. FillBuffer(r, b) = f
    BY <1>4, <1>10
  <2>2. Len(f.bytes) < RawSize /\ ~(n < Len(b))
    BY <1>1, <1>2, <1>6, <1>10
  <2>3. Filling(f)
    BY <1>1, <1>2, <1>3, <1>5, <1>6, <2>2 DEF Filling
  <2> QED BY <1>2, <1>3, <1>5, <1>7, <1>8, <1>10, <2>1, <2>2, <2>3 DEF n
<1> QED BY <1>9, <1>10
-----------------------------------------------------------------------------
(* The sender. *)

\* What a step of the sender's flow leaves alone.
SameSender(s, q) ==
    /\ q.sid = s.sid /\ q.total = s.total /\ q.win = s.win /\ q.winSize = s.winSize
    /\ q.reply = s.reply /\ q.replyHandler = s.replyHandler
    /\ q.state # "STARTED" /\ q.pc # "received_init_stream"
    /\ q.proceedHandlers <= s.proceedHandlers

\* Two senders that differ in their buffers only.
SameBut(s, q) ==
    /\ q.sid = s.sid /\ q.total = s.total /\ q.win = s.win /\ q.winSize = s.winSize
    /\ q.reply = s.reply /\ q.replyHandler = s.replyHandler
    /\ q.proceedHandlers = s.proceedHandlers /\ q.requestInit = s.requestInit
    /\ q.requestClose = s.requestClose

\* Two senders that differ in their timers only.
SameButSleep(s, q) ==
    /\ q.sid = s.sid /\ q.total = s.total /\ q.win = s.win /\ q.winSize = s.winSize
    /\ q.reply = s.reply /\ q.replyHandler = s.replyHandler
    /\ q.proceedHandlers = s.proceedHandlers /\ q.requestInit = s.requestInit
    /\ q.requestClose = s.requestClose /\ q.pc = s.pc /\ q.state = s.state
    /\ q.queue = s.queue /\ q.msg = s.msg

\* EmptyChunk is a piece.
LEMMA EmptyIs ==
    /\ EmptyChunk \in Piece /\ EmptyChunk.lo = 0 /\ EmptyChunk.hi = 0 /\ ~EmptyChunk.raw
BY DEF EmptyChunk, Piece

\* Release() forgets the buffer.
LEMMA ReleaseIs ==
    ASSUME NEW s \in Sender
    PROVE  LET q == Release(s) IN
           /\ q \in Sender /\ q.pc = "idle" /\ q.msg = EmptyChunk /\ q.queue = s.queue
           /\ q.state = s.state /\ q.sid = s.sid /\ q.total = s.total /\ q.win = s.win
           /\ q.winSize = s.winSize /\ q.reply = s.reply /\ q.replyHandler = s.replyHandler
           /\ q.proceedHandlers = s.proceedHandlers /\ q.requestInit = s.requestInit
           /\ q.requestClose = s.requestClose
<1> DEFINE q == Release(s)
<1>1. q = [s EXCEPT !.pc = "idle", !.msg = EmptyChunk]
  BY DEF Release
<1> HIDE DEF q
<1>2. q \in Sender
  BY <1>1, EmptyIs DEF Sender
<1>3. /\ q.pc = "idle" /\ q.msg = EmptyChunk /\ q.queue = s.queue
      /\ q.state = s.state /\ q.sid = s.sid /\ q.total = s.total /\ q.win = s.win
  BY <1>1 DEF Sender
<1>4. /\ q.winSize = s.winSize /\ q.reply = s.reply /\ q.replyHandler = s.replyHandler
      /\ q.proceedHandlers = s.proceedHandlers /\ q.requestInit = s.requestInit
      /\ q.requestClose = s.requestClose
  BY <1>1 DEF Sender
<1> QED BY <1>2, <1>3, <1>4 DEF q

\* The sender is about to close the stream.
LEMMA ClosingIs ==
    ASSUME NEW s \in Sender
    PROVE  [s EXCEPT !.requestClose = FALSE, !.pc = "send_close_stream",
                     !.proceedHandlers = 0] \in Sender
<1> DEFINE x == 0
<1>1. x \in 0..1
  OBVIOUS
<1> HIDE DEF x
<1>2. [s EXCEPT !.requestClose = FALSE, !.pc = "send_close_stream",
                !.proceedHandlers = x] \in Sender
  BY <1>1 DEF Sender
<1> QED BY <1>2 DEF x

\* entry() with a buffer in hand: it is sent, or waits for room, or is released,
\* or the stream is closed, which only happens when all of it has been sent.
LEMMA EntryGoes ==
    ASSUME NEW s \in Sender, NEW rd \in Reading, NEW n \in Nat,
           s.state = "RUNNING", ~s.requestInit, s.reply = "accept", s.proceedHandlers = 1,
           s.requestClose <=> rd.state = "wait_for_close",
           rd.state = "wait_for_close" => rd.len = 0,
           Tiles(s, rd, n)
    PROVE  Entry(s) \in Sender /\ SenderGoes(Entry(s), rd, n) /\ SameSender(s, Entry(s))
<1> DEFINE q == Entry(s)
<1>0. /\ s.win \in Nat /\ s.total \in Nat /\ s.msg.lo \in Nat /\ s.msg.hi \in Nat
      /\ s.msg.raw \in BOOLEAN /\ rd.ofs \in Nat /\ s.requestClose \in BOOLEAN
      /\ s.queue \in Seq(Piece)
  BY DEF Sender, Piece, Reading
<1>1. CASE s.win = 0
  <2>1. q = [s EXCEPT !.pc = "stream_proceed_timeout", !.state = "FULL",
                      !.sleeping = TRUE, !.timer = "active"]
    BY <1>1 DEF Entry, WaitForStreamProceed
  <2> HIDE DEF q
  <2>2. q \in Sender
    BY <2>1 DEF Sender
  <2>3. /\ q.pc = "stream_proceed_timeout" /\ q.state = "FULL" /\ q.queue = s.queue
        /\ q.msg = s.msg /\ q.total = s.total /\ q.proceedHandlers = s.proceedHandlers
        /\ q.requestClose = s.requestClose /\ q.requestInit = s.requestInit
        /\ q.reply = s.reply
    BY <2>1 DEF Sender
  <2>4. SameSender(s, q)
    BY <2>1 DEF SameSender, Sender
  <2>5. Tiles(q, rd, n)
    BY <2>3 DEF Tiles, From
  <2> QED BY <2>2, <2>3, <2>4, <2>5 DEF SenderGoes, q
<1>2. CASE s.win # 0 /\ s.msg.lo < s.msg.hi
  <2>1. q = [s EXCEPT !.pc = "got_frame"]
    BY <1>2 DEF Entry
  <2> HIDE DEF q
  <2>2. q \in Sender
    BY <2>1 DEF Sender
  <2>3. /\ q.pc = "got_frame" /\ q.state = "RUNNING" /\ q.queue = s.queue
        /\ q.msg = s.msg /\ q.total = s.total /\ q.proceedHandlers = s.proceedHandlers
        /\ q.requestClose = s.requestClose /\ q.requestInit = s.requestInit
        /\ q.reply = s.reply /\ q.win = s.win
    BY <2>1 DEF Sender
  <2>4. SameSender(s, q)
    BY <2>1 DEF SameSender, Sender
  <2>5. Tiles(q, rd, n)
    BY <2>3 DEF Tiles, From
  <2>6. q.win > 0
    BY <1>0, <1>2, <2>3
  <2> QED BY <1>2, <2>2, <2>3, <2>4, <2>5, <2>6 DEF SenderGoes, q
<1>3. CASE s.win # 0 /\ ~(s.msg.lo < s.msg.hi) /\ s.requestClose /\ s.queue = << >>
  <2>0. s.proceedHandlers - 1 = 0
    OBVIOUS
  <2>1. q = [s EXCEPT !.requestClose = FALSE, !.pc = "send_close_stream",
                      !.proceedHandlers = 0]
    BY <1>3, <2>0 DEF Entry
  <2> HIDE DEF q
  <2>2. q \in Sender
    BY <2>1, ClosingIs
  <2>3. /\ q.pc = "send_close_stream" /\ q.state = "RUNNING" /\ q.queue = s.queue
        /\ q.total = s.total /\ q.proceedHandlers = 0
        /\ ~q.requestClose /\ q.requestInit = s.requestInit
        /\ q.reply = s.reply /\ q.win = s.win
    BY <2>1 DEF Sender
  <2>4. SameSender(s, q)
    BY <2>1 DEF SameSender, Sender
  <2>5. From(s) = n /\ From(s) = s.total
    <3>1. From(s) = rd.ofs /\ rd.ofs + rd.len = n /\ rd.len = 0
      BY <1>3 DEF Tiles
    <3>2. From(s) = s.total
      BY <1>0, <1>3 DEF Tiles, From
    <3> QED BY <1>0, <3>1, <3>2
  <2>6. q.win > 0
    BY <1>0, <1>3, <2>3
  <2> QED BY <1>3, <2>2, <2>3, <2>4, <2>5, <2>6 DEF SenderGoes, q
<1>4. CASE s.win # 0 /\ ~(s.msg.lo < s.msg.hi) /\ ~(s.requestClose /\ s.queue = << >>)
  <2>1. q = Release(s)
    BY <1>4 DEF Entry
  <2> HIDE DEF q
  <2>2. /\ q \in Sender /\ q.pc = "idle" /\ q.msg = EmptyChunk /\ q.queue = s.queue
        /\ q.state = s.state /\ q.sid = s.sid /\ q.total = s.total /\ q.win = s.win
        /\ q.winSize = s.winSize /\ q.reply = s.reply /\ q.replyHandler = s.replyHandler
        /\ q.proceedHandlers = s.proceedHandlers /\ q.requestInit = s.requestInit
        /\ q.requestClose = s.requestClose
    BY <2>1, ReleaseIs
  <2>3. SameSender(s, q)
    BY <2>2 DEF SameSender
  <2>4. From(q) = From(s)
    BY <1>0, <1>4, <2>2, EmptyIs DEF Tiles, From
  <2>5. Tiles(q, rd, n)
    BY <2>2, <2>4, EmptyIs DEF Tiles
  <2> QED BY <2>2, <2>3, <2>5 DEF SenderGoes, q
<1> QED BY <1>1, <1>2, <1>3, <1>4

\* The flow takes the next buffer, and the pieces still follow one another.
LEMMA TakeTiles ==
    ASSUME NEW s \in Sender, NEW rd \in Reading, NEW n \in Nat,
           Tiles(s, rd, n), s.msg = EmptyChunk, s.queue # << >>
    PROVE  Tiles([s EXCEPT !.msg = Head(s.queue), !.queue = Tail(s.queue)], rd, n)
<1> DEFINE q == [s EXCEPT !.msg = Head(s.queue), !.queue = Tail(s.queue)]
           u == s.queue
           v == Tail(s.queue)
<1>1. u \in Seq(Piece) /\ u # << >>
  BY DEF Sender
<1>2. /\ v \in Seq(Piece) /\ Len(u) \in Nat /\ Len(u) > 0 /\ Len(v) = Len(u) - 1
      /\ Head(u) = u[1] /\ u[1] \in Piece /\ \A i \in 1..Len(u) - 1 : v[i] = u[i + 1]
  <2> HIDE DEF u
  <2> QED BY <1>1, TailIs DEF u
<1>3. q.msg = u[1] /\ q.queue = v /\ q.total = s.total
  BY <1>2 DEF Sender
<1>4. /\ u[1].lo <= u[1].hi
      /\ ~u[1].raw => Len(u) = 1 /\ u[1] = EmptyChunk
      /\ u[1].raw => u[1].lo = s.total
      /\ \A i \in 1..Len(u) : u[i].lo <= u[i].hi
      /\ \A i \in 1..Len(u) : ~u[i].raw => i = Len(u) /\ rd.state = "wait_for_close"
                                           /\ u[i] = EmptyChunk
      /\ \A i \in 1..Len(u) - 1 : u[i + 1].raw => u[i + 1].lo = u[i].hi
  <2>1. \A i \in 1..Len(u) : u[i].lo <= u[i].hi
    BY DEF Tiles
  <2>2. \A i \in 1..Len(u) : ~u[i].raw => i = Len(u) /\ rd.state = "wait_for_close"
                                          /\ u[i] = EmptyChunk
    BY DEF Tiles
  <2>3. \A i \in 1..Len(u) - 1 : u[i + 1].raw => u[i + 1].lo = u[i].hi
    BY DEF Tiles
  <2>4. From(s) = s.total
    BY EmptyIs DEF From
  <2>5. u[1].raw => u[1].lo = s.total
    BY <1>1, <2>4 DEF Tiles
  <2>6. 1 \in 1..Len(u)
    BY <1>2
  <2> HIDE DEF u
  <2> QED BY <2>1, <2>2, <2>3, <2>5, <2>6
<1>5. rd.state # "again" =>
         /\ ~u[1].raw => s.total = rd.ofs
         /\ \A i \in 1..Len(u) : u[i].raw /\ (i = Len(u) \/ ~u[i + 1].raw) => u[i].hi = rd.ofs
         /\ rd.ofs + rd.len = n
  BY <1>1, EmptyIs DEF Tiles, From
<1> HIDE DEF q, u, v
<1>6. u[1].raw \in BOOLEAN
  BY <1>2 DEF Piece
<1>7. v = << >> <=> Len(u) = 1
  BY <1>2, EmptySeq
<1>8. From(q) = IF u[1].raw THEN u[1].hi ELSE s.total
  BY <1>3 DEF From
<1>9. /\ u[1].raw => u[1].lo = q.total /\ u[1].lo <= u[1].hi
      /\ ~u[1].raw => u[1].lo = u[1].hi
  BY <1>3, <1>4, EmptyIs
<1>10. \A i \in 1..Len(v) : /\ v[i].lo <= v[i].hi
                            /\ ~v[i].raw => /\ i = Len(v) /\ rd.state = "wait_for_close"
                                            /\ v[i] = EmptyChunk
  <2> TAKE i \in 1..Len(v)
  <2>1. i + 1 \in 1..Len(u) /\ i \in 1..Len(u) - 1 /\ (i + 1 = Len(u) <=> i = Len(v))
    BY <1>2
  <2>2. v[i] = u[i + 1]
    BY <1>2, <2>1
  <2> QED BY <1>4, <2>1, <2>2
<1>11. v # << >> /\ v[1].raw => v[1].lo = From(q)
  <2> SUFFICES ASSUME v # << >>, v[1].raw PROVE v[1].lo = From(q)
    OBVIOUS
  <2>1. 1 \in 1..Len(u) - 1 /\ u[1].raw /\ v[1] = u[2]
    BY <1>2, <1>4, <1>7
  <2>2. u[1 + 1].raw => u[1 + 1].lo = u[1].hi
    BY <1>4, <2>1
  <2> QED BY <1>8, <2>1, <2>2
<1>12. \A i \in 1..Len(v) - 1 : v[i + 1].raw => v[i + 1].lo = v[i].hi
  <2> TAKE i \in 1..Len(v) - 1
  <2>1. i \in 1..Len(u) - 1 /\ i + 1 \in 1..Len(u) - 1
    BY <1>2
  <2>2. v[i] = u[i + 1] /\ v[i + 1] = u[(i + 1) + 1]
    BY <1>2, <2>1
  <2>3. u[(i + 1) + 1].raw => u[(i + 1) + 1].lo = u[i + 1].hi
    BY <1>4, <2>1
  <2> QED BY <2>2, <2>3
<1>13. ASSUME rd.state # "again"
       PROVE  /\ v = << >> \/ ~v[1].raw => From(q) = rd.ofs
              /\ \A i \in 1..Len(v) : v[i].raw /\ (i = Len(v) \/ ~v[i + 1].raw) => v[i].hi = rd.ofs
              /\ rd.ofs + rd.len = n
  <2>1. ASSUME v = << >> \/ ~v[1].raw PROVE From(q) = rd.ofs
    <3>1. CASE ~u[1].raw
      BY <1>5, <1>8, <1>13, <3>1
    <3>2. CASE u[1].raw
      <4>1. 1 \in 1..Len(u) /\ (1 = Len(u) \/ ~u[1 + 1].raw)
        <5>1. CASE v = << >>
          BY <1>2, <1>7, <5>1
        <5>2. CASE v # << >>
          <6>1. ~v[1].raw /\ 1 \in 1..Len(u) - 1
            BY <1>2, <1>7, <2>1, <5>2
          <6>2. v[1] = u[1 + 1]
            BY <1>2, <6>1
          <6> QED BY <1>2, <6>1, <6>2
        <5> QED BY <5>1, <5>2
      <4>2. u[1].hi = rd.ofs
        BY <1>5, <1>13, <3>2, <4>1
      <4> QED BY <1>8, <3>2, <4>2
    <3> QED BY <3>1, <3>2
  <2>2. ASSUME NEW i \in 1..Len(v), v[i].raw, i = Len(v) \/ ~v[i + 1].raw
        PROVE  v[i].hi = rd.ofs
    <3>1. i \in 1..Len(u) - 1 /\ i + 1 \in 1..Len(u) /\ v[i] = u[i + 1]
      BY <1>2
    <3>2. i + 1 = Len(u) \/ ~u[(i + 1) + 1].raw
      <4>1. CASE i = Len(v)
        BY <1>2, <4>1
      <4>2. CASE i # Len(v)
        <5>1. i + 1 \in 1..Len(u) - 1
          BY <1>2, <4>2
        <5>2. v[i + 1] = u[(i + 1) + 1]
          BY <1>2, <5>1
        <5> QED BY <2>2, <4>2, <5>2
      <4> QED BY <4>1, <4>2
    <3> QED BY <1>5, <1>13, <2>2, <3>1, <3>2
  <2> QED BY <1>5, <1>13, <2>1, <2>2
<1>14. Tiles(q, rd, n)
  <2> DEFINE m == u[1]
  <2>1. q.msg = m /\ q.queue = v
    BY <1>3
  <2> HIDE DEF m
  <2> QED BY <1>9, <1>10, <1>11, <1>12, <1>13, <2>1 DEF Tiles, m
<1> QED BY <1>14 DEF q

\* The read flow adds the piece it has read behind the others.
LEMMA PutTiles ==
    ASSUME NEW s \in Sender, NEW rd \in Reading, NEW n \in Nat, Tiles(s, rd, n),
           rd.state = "try_read", NEW k \in Nat,
           NEW q \in Sender, q.msg = s.msg, q.total = s.total,
           q.queue = Append(s.queue, Chunk(rd.ofs, rd.ofs + k)),
           NEW to \in Reading, to.state # "again", to.ofs = rd.ofs + k, to.ofs + to.len = n
    PROVE  Tiles(q, to, n) /\ \A i \in 1..Len(q.queue) : q.queue[i].raw
<1> DEFINE u == s.queue
           v == q.queue
           c == Chunk(rd.ofs, rd.ofs + k)
<1>1. /\ c \in Piece /\ c.lo = rd.ofs /\ c.hi = rd.ofs + k /\ c.raw /\ c.lo <= c.hi
      /\ u \in Seq(Piece) /\ rd.ofs \in Nat
  BY SMTT(30) DEF Chunk, Piece, Reading, Sender
<1>2. /\ Len(u) \in Nat /\ Len(v) = Len(u) + 1 /\ v[Len(u) + 1] = c
      /\ \A i \in 1..Len(u) : v[i] = u[i]
  <2>1. v = Append(u, c)
    OBVIOUS
  <2> HIDE DEF u, v, c
  <2> QED BY <1>1, <2>1, AppendIs
<1>3. \A i \in 1..Len(u) : u[i].lo <= u[i].hi /\ u[i].raw
  BY DEF Tiles
<1>4. /\ u # << >> => u[1].lo = From(s)
      /\ \A i \in 1..Len(u) - 1 : u[i + 1].lo = u[i].hi
      /\ u = << >> => From(s) = rd.ofs
      /\ u # << >> => u[Len(u)].hi = rd.ofs
  <2>1. u # << >> => Len(u) \in 1..Len(u) /\ 1 \in 1..Len(u)
    BY <1>1, <1>2, EmptySeq
  <2>2. \A i \in 1..Len(u) - 1 : i + 1 \in 1..Len(u)
    BY <1>2
  <2> QED BY <1>3, <2>1, <2>2 DEF Tiles
<1>5. /\ s.msg.raw => s.msg.lo = s.total /\ s.msg.lo <= s.msg.hi
      /\ ~s.msg.raw => s.msg.lo = s.msg.hi
  BY DEF Tiles
<1>6. From(q) = From(s)
  BY DEF From
<1> HIDE DEF u, v, c
<1>7. u = << >> <=> Len(u) = 0
  BY <1>1, EmptySeq
<1>8. v # << >>
  BY <1>2, EmptySeq
<1>9. \A i \in 1..Len(v) : v[i].lo <= v[i].hi /\ v[i].raw
  <2> TAKE i \in 1..Len(v)
  <2>1. i \in 1..Len(u) \/ i = Len(u) + 1
    BY <1>2
  <2> QED BY <1>1, <1>2, <1>3, <2>1
<1>10. v[1].lo = From(q)
  <2>1. CASE u = << >>
    BY <1>1, <1>2, <1>4, <1>6, <1>7, <2>1
  <2>2. CASE u # << >>
    <3>1. 1 \in 1..Len(u)
      BY <1>2, <1>7, <2>2
    <3> QED BY <1>2, <1>4, <1>6, <2>2, <3>1
  <2> QED BY <2>1, <2>2
<1>11. \A i \in 1..Len(v) - 1 : v[i + 1].lo = v[i].hi
  <2> TAKE i \in 1..Len(v) - 1
  <2>1. CASE i = Len(u)
    <3>1. u # << >> /\ i \in 1..Len(u) /\ v[i + 1] = c
      BY <1>2, <1>7, <2>1
    <3> QED BY <1>1, <1>2, <1>4, <2>1, <3>1
  <2>2. CASE i # Len(u)
    <3>1. i \in 1..Len(u) /\ i + 1 \in 1..Len(u) /\ i \in 1..Len(u) - 1
      BY <1>2, <2>2
    <3>2. v[i] = u[i] /\ v[i + 1] = u[i + 1]
      BY <1>2, <3>1
    <3> QED BY <1>4, <3>1, <3>2
  <2> QED BY <2>1, <2>2
<1>12. v[Len(v)].hi = to.ofs
  BY <1>1, <1>2
<1>13. \A i \in 1..Len(v) : i # Len(v) => i + 1 \in 1..Len(v)
  BY <1>2
<1>14. 1 \in 1..Len(v)
  BY <1>2
<1>15. Tiles(q, to, n)
  BY <1>5, <1>8, <1>9, <1>10, <1>11, <1>12, <1>13, <1>14 DEF Tiles, v
<1> QED BY <1>9, <1>15 DEF v

\* close_stream() adds the empty buffer.
LEMMA PutEmptyTiles ==
    ASSUME NEW s \in Sender, NEW rd \in Reading, NEW n \in Nat, Tiles(s, rd, n),
           rd.state = "wait_for_close", \A i \in 1..Len(s.queue) : s.queue[i].raw,
           NEW q \in Sender, q.msg = s.msg, q.total = s.total,
           q.queue = Append(s.queue, EmptyChunk)
    PROVE  Tiles(q, rd, n)
<1> DEFINE u == s.queue
           v == q.queue
<1>1. u \in Seq(Piece)
  BY DEF Sender
<1>2. /\ Len(u) \in Nat /\ Len(v) = Len(u) + 1 /\ v[Len(u) + 1] = EmptyChunk
      /\ \A i \in 1..Len(u) : v[i] = u[i]
  <2>1. v = Append(u, EmptyChunk)
    OBVIOUS
  <2> HIDE DEF u, v
  <2> QED BY <1>1, <2>1, EmptyIs, AppendIs
<1>3. /\ \A i \in 1..Len(u) : u[i].lo <= u[i].hi
      /\ u # << >> => u[1].lo = From(s)
      /\ \A i \in 1..Len(u) - 1 : u[i + 1].lo = u[i].hi
      /\ u = << >> => From(s) = rd.ofs
      /\ u # << >> => u[Len(u)].hi = rd.ofs
      /\ rd.ofs + rd.len = n
  <2>1. u # << >> => Len(u) \in 1..Len(u) /\ 1 \in 1..Len(u)
    BY <1>1, <1>2, EmptySeq
  <2>2. \A i \in 1..Len(u) - 1 : i + 1 \in 1..Len(u)
    BY <1>2
  <2> QED BY <2>1, <2>2 DEF Tiles
<1>4. /\ s.msg.raw => s.msg.lo = s.total /\ s.msg.lo <= s.msg.hi
      /\ ~s.msg.raw => s.msg.lo = s.msg.hi
  BY DEF Tiles
<1>5. From(q) = From(s)
  BY DEF From
<1>6. \A i \in 1..Len(u) : u[i].raw
  OBVIOUS
<1> HIDE DEF u, v
<1>7. u = << >> <=> Len(u) = 0
  BY <1>1, EmptySeq
<1>8. \A i \in 1..Len(v) : /\ v[i].lo <= v[i].hi
                           /\ ~v[i].raw => i = Len(v) /\ v[i] = EmptyChunk
  <2> TAKE i \in 1..Len(v)
  <2>1. i \in 1..Len(u) \/ i = Len(v)
    BY <1>2
  <2> QED BY <1>2, <1>3, <1>6, <2>1, EmptyIs
<1>9. v[1].raw => v[1].lo = From(q)
  <2>1. CASE u = << >>
    BY <1>2, <1>7, <2>1, EmptyIs
  <2>2. CASE u # << >>
    <3>1. 1 \in 1..Len(u)
      BY <1>2, <1>7, <2>2
    <3> QED BY <1>2, <1>3, <1>5, <2>2, <3>1
  <2> QED BY <2>1, <2>2
<1>10. \A i \in 1..Len(v) - 1 : v[i + 1].raw => v[i + 1].lo = v[i].hi
  <2> TAKE i \in 1..Len(v) - 1
  <2>1. CASE i = Len(u)
    BY <1>2, <2>1, EmptyIs
  <2>2. CASE i # Len(u)
    <3>1. i \in 1..Len(u) /\ i + 1 \in 1..Len(u) /\ i \in 1..Len(u) - 1
      BY <1>2, <2>2
    <3>2. v[i] = u[i] /\ v[i + 1] = u[i + 1]
      BY <1>2, <3>1
    <3> QED BY <1>3, <3>1, <3>2
  <2> QED BY <2>1, <2>2
<1>11. v = << >> \/ ~v[1].raw => From(q) = rd.ofs
  <2>1. v # << >>
    BY <1>2, EmptySeq
  <2>2. u # << >> => v[1].raw
    <3>1. u # << >> => 1 \in 1..Len(u)
      BY <1>2, <1>7
    <3> QED BY <1>2, <1>6, <3>1
  <2> QED BY <1>3, <1>5, <2>1, <2>2
<1>12. \A i \in 1..Len(v) : v[i].raw /\ (i = Len(v) \/ ~v[i + 1].raw) => v[i].hi = rd.ofs
  <2> SUFFICES ASSUME NEW i \in 1..Len(v), v[i].raw, i = Len(v) \/ ~v[i + 1].raw
               PROVE  v[i].hi = rd.ofs
    OBVIOUS
  <2>1. i \in 1..Len(u) /\ i # Len(v)
    BY <1>2, EmptyIs
  <2>2. i = Len(u)
    <3> SUFFICES ASSUME i # Len(u) PROVE FALSE
      OBVIOUS
    <3>1. i + 1 \in 1..Len(u)
      BY <1>2, <2>1
    <3> QED BY <1>2, <1>6, <2>1, <3>1
  <2>3. u # << >> /\ v[i] = u[i]
    BY <1>2, <1>7, <2>1
  <2> QED BY <1>3, <2>2, <2>3
<1> QED BY <1>3, <1>4, <1>8, <1>9, <1>10, <1>11, <1>12 DEF Tiles, v
-----------------------------------------------------------------------------
(* Steps of the sender and of its user that send nothing. *)

\* Such a step disturbs nothing but the sender and its user.
LEMMA SenderOnly ==
    ASSUME Core, UNCHANGED <<rcv, toRcv, toSnd, data, sizes, inUse, nextId>>,
           snd' \in Sender, read' \in Reading, SenderInv',
           snd'.sid = snd.sid, snd'.total = snd.total, snd'.win = snd.win,
           snd'.winSize = snd.winSize, snd'.reply = snd.reply,
           snd'.proceedHandlers <= snd.proceedHandlers,
           snd'.state = "STARTED" => snd.state = "STARTED",
           snd'.pc = "received_init_stream" => snd.pc = "received_init_stream",
           snd.pc = "idle" /\ snd.state \in {"CLOSING", "IDLE"} =>
               snd'.pc = "idle" /\ snd'.state \in {"CLOSING", "IDLE"}
    PROVE  Core'
<1> USE DEF Core
<1>1. Inits' = Inits /\ Closes' = Closes /\ Grants' = Grants /\ K' = K /\ InFlight' = InFlight
  BY DEF Inits, Closes, Grants, Gives, K, InFlight
<1>2. snd.proceedHandlers \in 0..1 /\ snd'.proceedHandlers \in 0..1
  BY DEF Types, Sender
<1>3. (NotGranted => NotGranted') /\ (Early' => Early)
  BY <1>1, <1>2 DEF NotGranted, Early, Opening
<1>4. Types'
  BY DEF Types
<1>5. Ids'
  BY <1>1 DEF Ids
<1>6. Messages'
  BY <1>1 DEF Messages
<1>7. Granted'
  BY <1>3 DEF Granted
<1>8. Frames'
  <2>1. Frames /\ data' = data /\ K' = K /\ snd'.total = snd.total /\ (~NotGranted' => ~NotGranted)
    BY <1>1, <1>3
  <2>2. data' # << >> /\ ~NotGranted' => data'[Len(data')].s = K'
    BY <2>1 DEF Frames
  <2> QED BY <2>1, <2>2 DEF Frames
<1>9. Control'
  BY <1>1 DEF Control, Opening
<1>10. Buffer' /\ Sink'
  BY DEF Buffer, Sink, Stored
<1>11. Flow'
  BY <1>1 DEF Flow
<1>12. Window'
  <2>1. snd'.proceedHandlers = 1 => snd.proceedHandlers = 1
    BY <1>2
  <2>2. snd.proceedHandlers = 0 => snd'.proceedHandlers = 0
    BY <1>2
  <2>3. Linked' <=> Linked
    BY DEF Linked
  <2>4. Window
    OBVIOUS
  <2> QED BY <1>1, <2>1, <2>2, <2>3, <2>4 DEF Window
<1> QED BY <1>4, <1>5, <1>6, <1>7, <1>8, <1>9, <1>10, <1>11, <1>12

\* What SenderInv says of the sender that is running a stream.
LEMMA SenderFacts ==
    ASSUME Core
    PROVE  /\ snd \in Sender /\ read \in Reading /\ K \in Nat
           /\ K > 0 => sizes[K] \in Nat
           /\ read.state \in {"none", "wait_for_started", "try_read", "wait_for_close", "again"}
<1>1. snd \in Sender /\ read \in Reading /\ sizes \in Seq(Nat)
  BY DEF Core, Types
<1>2. K \in Nat
  BY <1>1, LenProperties DEF K
<1>3. K > 0 => K \in 1..Len(sizes)
  BY <1>2 DEF K
<1>4. K > 0 => sizes[K] \in Nat
  BY <1>1, <1>3, ElementOfSeq
<1> QED BY <1>1, <1>2, <1>4 DEF Reading

\* SenderEntry keeps the invariant.
LEMMA SenderEntryKeeps ==
    ASSUME Core, SenderEntry
    PROVE  Core'
<1> DEFINE s == [snd EXCEPT !.msg = Head(snd.queue), !.queue = Tail(snd.queue)]
<1>1. /\ snd.pc = "idle" /\ snd.queue # << >> /\ snd' = Entry(s)
      /\ UNCHANGED <<read, rcv, toRcv, toSnd, data, sizes, inUse, nextId>>
  BY DEF SenderEntry, server, wire
<1>2. /\ snd \in Sender /\ read \in Reading /\ K \in Nat /\ (K > 0 => sizes[K] \in Nat)
      /\ read.state \in {"none", "wait_for_started", "try_read", "wait_for_close", "again"}
  BY SenderFacts
<1>3. /\ snd.queue \in Seq(Piece) /\ Len(snd.queue) \in Nat /\ Len(snd.queue) > 0
      /\ Tail(snd.queue) \in Seq(Piece) /\ Head(snd.queue) = snd.queue[1]
      /\ snd.queue[1] \in Piece /\ Len(Tail(snd.queue)) = Len(snd.queue) - 1
      /\ \A i \in 1..Len(snd.queue) - 1 : Tail(snd.queue)[i] = snd.queue[i + 1]
  <2>1. snd.queue \in Seq(Piece)
    BY <1>2 DEF Sender
  <2> QED BY <1>1, <2>1, TailIs
<1>4. /\ s \in Sender /\ s.msg = Head(snd.queue) /\ s.queue = Tail(snd.queue)
      /\ SameBut(snd, s) /\ s.state = snd.state /\ s.pc = snd.pc
  BY <1>2, <1>3 DEF Sender, SameBut
<1>5. read.state # "none"
  BY <1>1 DEF Core, SenderInv, SenderRests
<1> HIDE DEF s
<1>6. CASE read.state = "wait_for_started"
  <2>1. SenderStart(snd, read, sizes[K]) /\ K > 0
    BY <1>6 DEF Core, SenderInv
  <2>2. /\ snd.state = "STARTED" /\ snd.requestInit /\ snd.queue = <<EmptyChunk>>
        /\ snd.proceedHandlers = 0 /\ snd.total = 0 /\ ~snd.requestClose
        /\ read.ofs = 0 /\ read.len = sizes[K] /\ snd.winSize > 0
    BY <1>1, <2>1 DEF SenderStart
  <2>3. s.msg = EmptyChunk /\ s.queue = << >>
    BY <1>3, <1>4, <2>2
  <2>4. snd' = [s EXCEPT !.requestInit = FALSE, !.pc = "send_init_stream"]
    BY <1>1, <1>4, <2>2 DEF Entry, SameBut
  <2>5. /\ snd' \in Sender /\ snd'.pc = "send_init_stream" /\ ~snd'.requestInit
        /\ snd'.msg = s.msg /\ snd'.queue = s.queue /\ snd'.state = s.state
        /\ snd'.sid = s.sid /\ snd'.total = s.total /\ snd'.win = s.win
        /\ snd'.winSize = s.winSize /\ snd'.reply = s.reply
        /\ snd'.replyHandler = s.replyHandler /\ snd'.proceedHandlers = s.proceedHandlers
        /\ snd'.requestClose = s.requestClose
    BY <1>4, <2>4 DEF Sender
  <2>6. SenderStart(snd', read', sizes'[K'])
    BY <1>1, <1>4, <2>2, <2>3, <2>5 DEF SenderStart, SameBut, K
  <2>7. ~snd.replyHandler
    BY <2>2 DEF Core, SenderInv
  <2>8. SenderInv'
    BY <1>1, <1>4, <1>6, <2>1, <2>5, <2>6, <2>7 DEF SenderInv, SameBut, K
  <2>9. snd.proceedHandlers <= snd.proceedHandlers
    BY <1>2 DEF Sender
  <2> QED BY <1>1, <1>2, <1>4, <2>2, <2>5, <2>8, <2>9, SenderOnly DEF SameBut
<1>7. CASE read.state \in {"try_read", "wait_for_close", "again"}
  <2>1. SenderGoes(snd, read, sizes[K]) /\ K > 0
    BY <1>7 DEF Core, SenderInv
  <2>2. ~snd.replyHandler /\ ~snd.requestInit /\ snd.reply = "accept"
        /\ snd.state \in {"RUNNING", "STATE_ERROR"} /\ snd.msg = EmptyChunk
    BY <1>1, <2>1 DEF Core, SenderInv, SenderGoes
  <2>3. CASE snd.state = "RUNNING"
    <3>1. /\ Tiles(snd, read, sizes[K]) /\ snd.proceedHandlers = 1
          /\ snd.requestClose <=> read.state = "wait_for_close"
          /\ read.state = "wait_for_close" => read.len = 0
      BY <1>1, <2>1, <2>3 DEF SenderGoes
    <3>2. Tiles(s, read, sizes[K])
      BY <1>1, <1>2, <2>1, <2>2, <3>1, TakeTiles DEF s
    <3>3. Entry(s) \in Sender /\ SenderGoes(Entry(s), read, sizes[K]) /\ SameSender(s, Entry(s))
      BY <1>2, <1>4, <2>1, <2>2, <2>3, <3>1, <3>2, EntryGoes DEF SameBut
    <3>4. SenderInv'
      BY <1>1, <1>4, <1>7, <2>1, <2>2, <3>3 DEF SenderInv, K, SameBut, SameSender
    <3> QED BY <1>1, <1>2, <1>4, <2>3, <3>3, <3>4, SenderOnly DEF SameBut, SameSender
  <2>4. CASE snd.state = "STATE_ERROR"
    <3>1. snd' = Release(s)
      BY <1>1, <1>4, <2>2, <2>4 DEF Entry, SameBut
    <3>2. /\ snd' \in Sender /\ snd'.pc = "idle" /\ snd'.msg = EmptyChunk
          /\ snd'.queue = s.queue /\ snd'.state = s.state /\ snd'.sid = s.sid
          /\ snd'.total = s.total /\ snd'.win = s.win
          /\ snd'.winSize = s.winSize /\ snd'.reply = s.reply
          /\ snd'.replyHandler = s.replyHandler
          /\ snd'.proceedHandlers = s.proceedHandlers /\ snd'.requestInit = s.requestInit
          /\ snd'.requestClose = s.requestClose
      BY <1>4, <3>1, ReleaseIs
    <3>3. \A i \in 1..Len(snd.queue) : snd.queue[i].lo <= snd.queue[i].hi
      BY <2>1, <2>4 DEF SenderGoes
    <3>4. \A i \in 1..Len(s.queue) : s.queue[i].lo <= s.queue[i].hi
      <4> TAKE i \in 1..Len(s.queue)
      <4>1. i + 1 \in 1..Len(snd.queue) /\ i \in 1..Len(snd.queue) - 1
        BY <1>3, <1>4
      <4> QED BY <1>3, <1>4, <3>3, <4>1
    <3>5. SenderGoes(snd', read, sizes[K])
      BY <1>4, <2>1, <2>4, <3>2, <3>4 DEF SenderGoes, SameBut
    <3>6. SenderInv'
      BY <1>1, <1>4, <1>7, <2>1, <2>2, <3>2, <3>5 DEF SenderInv, K, SameBut
    <3>7. snd.proceedHandlers <= snd.proceedHandlers
      BY <1>2 DEF Sender
    <3> QED BY <1>1, <1>2, <1>4, <2>4, <3>2, <3>6, <3>7, SenderOnly DEF SameBut
  <2> QED BY <2>2, <2>3, <2>4
<1> QED BY <1>2, <1>5, <1>6, <1>7

\* A step that changes only fields the invariant does not speak of.
LEMMA SenderClock ==
    ASSUME Core, UNCHANGED <<read, rcv, toRcv, toSnd, data, sizes, inUse, nextId>>,
           snd' \in Sender, SameBut(snd, snd'), snd'.pc = snd.pc, snd'.state = snd.state,
           snd'.queue = snd.queue, snd'.msg = snd.msg
    PROVE  Core'
<1>1. snd \in Sender /\ read \in Reading
  BY SenderFacts
<1>2. SenderRests(snd) => SenderRests(snd')
  BY DEF SenderRests, SameBut
<1>3. SenderStart(snd, read, sizes[K]) => SenderStart(snd', read, sizes[K])
  BY DEF SenderStart, SameBut
<1>4. Tiles(snd, read, sizes[K]) => Tiles(snd', read, sizes[K])
  BY DEF Tiles, From, SameBut
<1>5. SenderGoes(snd, read, sizes[K]) => SenderGoes(snd', read, sizes[K])
  BY <1>4 DEF SenderGoes, SameBut
<1>6. SenderInv'
  BY <1>2, <1>3, <1>5 DEF Core, SenderInv, K, SameBut
<1>7. snd.proceedHandlers <= snd.proceedHandlers
  BY <1>1 DEF Sender
<1> QED BY <1>1, <1>6, <1>7, SenderOnly DEF SameBut

\* The timer runs.
LEMMA TimerKeeps ==
    ASSUME Core, TimerExpires \/ TimerRun
    PROVE  Core'
<1>1. snd \in Sender
  BY SenderFacts
<1>2. UNCHANGED <<read, rcv, toRcv, toSnd, data, sizes, inUse, nextId>>
  BY DEF TimerExpires, TimerRun, server, wire
<1>3. snd' = [snd EXCEPT !.timer = "expired"] \/ snd' = [snd EXCEPT !.timer = "notified"]
  BY DEF TimerExpires, TimerRun
<1>4. /\ snd' \in Sender /\ SameBut(snd, snd') /\ snd'.pc = snd.pc /\ snd'.state = snd.state
      /\ snd'.queue = snd.queue /\ snd'.msg = snd.msg
  BY <1>1, <1>3 DEF Sender, SameBut
<1> QED BY <1>2, <1>4, SenderClock

\* StreamProceedTimeout keeps the invariant.
LEMMA ProceedTimeoutKeeps ==
    ASSUME Core, StreamProceedTimeout
    PROVE  Core'
<1> DEFINE s == [snd EXCEPT !.timer = "idle"]
           r == [s EXCEPT !.state = "RUNNING"]
           e == [s EXCEPT !.state = "STATE_ERROR"]
<1>1. /\ snd.pc = "stream_proceed_timeout"
      /\ snd' = IF s.win = 0 THEN ReturnError(s) ELSE Entry(r)
      /\ UNCHANGED <<read, rcv, toRcv, toSnd, data, sizes, inUse, nextId>>
  BY DEF StreamProceedTimeout, server, wire
<1>2. /\ snd \in Sender /\ read \in Reading /\ K \in Nat /\ (K > 0 => sizes[K] \in Nat)
      /\ read.state \in {"none", "wait_for_started", "try_read", "wait_for_close", "again"}
  BY SenderFacts
<1>3. /\ s \in Sender /\ SameBut(snd, s) /\ s.state = snd.state /\ s.pc = snd.pc
      /\ s.queue = snd.queue /\ s.msg = snd.msg
  BY <1>2 DEF Sender, SameBut
<1>4. read.state \in {"try_read", "wait_for_close", "again"}
  BY <1>1, <1>2 DEF Core, SenderInv, SenderRests, SenderStart
<1>5. SenderGoes(snd, read, sizes[K]) /\ K > 0
  BY <1>4 DEF Core, SenderInv
<1>6. /\ ~snd.replyHandler /\ ~snd.requestInit /\ snd.reply = "accept" /\ snd.state = "FULL"
      /\ snd.proceedHandlers = 1 /\ Tiles(snd, read, sizes[K])
      /\ snd.requestClose <=> read.state = "wait_for_close"
      /\ read.state = "wait_for_close" => read.len = 0
  BY <1>1, <1>5 DEF Core, SenderInv, SenderGoes
<1> HIDE DEF s
<1>7. CASE s.win = 0
  <2>1. /\ e \in Sender /\ SameBut(s, e) /\ e.state = "STATE_ERROR"
        /\ e.queue = s.queue
    BY <1>3 DEF Sender, SameBut
  <2>2. snd' = Release(e)
    BY <1>1, <1>7 DEF ReturnError
  <2> HIDE DEF e
  <2>3. /\ snd' \in Sender /\ snd'.pc = "idle" /\ snd'.msg = EmptyChunk
        /\ snd'.queue = e.queue /\ snd'.state = e.state /\ SameBut(e, snd')
    BY <2>1, <2>2, ReleaseIs DEF SameBut
  <2>4. SenderGoes(snd', read, sizes[K])
    BY <1>3, <1>5, <1>6, <2>1, <2>3 DEF SenderGoes, SameBut, Tiles
  <2>5. SenderInv'
    BY <1>1, <1>3, <1>4, <1>5, <1>6, <2>1, <2>3, <2>4 DEF SenderInv, K, SameBut
  <2>6. snd.proceedHandlers <= snd.proceedHandlers
    BY <1>6
  <2> QED BY <1>1, <1>2, <1>3, <1>6, <2>1, <2>3, <2>5, <2>6, SenderOnly DEF SameBut
<1>8. CASE s.win # 0
  <2>1. /\ r \in Sender /\ SameBut(s, r) /\ r.state = "RUNNING"
        /\ r.queue = s.queue /\ r.msg = s.msg
    BY <1>3 DEF Sender, SameBut
  <2>2. snd' = Entry(r)
    BY <1>1, <1>8
  <2> HIDE DEF r
  <2>3. Tiles(r, read, sizes[K])
    BY <1>3, <1>6, <2>1 DEF Tiles, From, SameBut
  <2>4. Entry(r) \in Sender /\ SenderGoes(Entry(r), read, sizes[K]) /\ SameSender(r, Entry(r))
    BY <1>2, <1>3, <1>5, <1>6, <2>1, <2>3, EntryGoes DEF SameBut
  <2>5. SenderInv'
    BY <1>1, <1>3, <1>4, <1>5, <1>6, <2>1, <2>2, <2>4 DEF SenderInv, K, SameBut, SameSender
  <2> QED BY <1>1, <1>2, <1>3, <1>6, <2>1, <2>2, <2>4, <2>5, SenderOnly DEF SameBut, SameSender
<1> QED BY <1>7, <1>8

\* DoneStream, whatever ended the stream.
LEMMA DoneKeeps ==
    ASSUME Core, DoneStream, UNCHANGED <<rcv, toRcv, toSnd, data, sizes, inUse, nextId>>,
           snd.pc = "idle", snd.queue = << >>, snd.msg = EmptyChunk, ~snd.requestInit,
           snd.proceedHandlers = 0 \/ snd.requestClose, ~snd.replyHandler
    PROVE  Core'
<1>1. snd \in Sender /\ read \in Reading
  BY SenderFacts
<1>2. /\ snd' \in Sender /\ SameBut(snd, snd') /\ snd'.pc = snd.pc /\ snd'.state = "IDLE"
      /\ snd'.queue = snd.queue /\ snd'.msg = snd.msg
  BY <1>1 DEF DoneStream, Sender, SameBut
<1>3. read' \in Reading /\ read'.state = "none"
  BY <1>1 DEF DoneStream, Reading
<1>4. SenderInv'
  BY <1>2, <1>3 DEF SenderInv, SenderRests, SameBut
<1>5. snd.proceedHandlers <= snd.proceedHandlers
  BY <1>1 DEF Sender
<1> QED BY <1>2, <1>3, <1>4, <1>5, SenderOnly DEF SameBut

\* WaitForStarted keeps the invariant.
LEMMA WaitForStartedKeeps ==
    ASSUME Core, WaitForStarted
    PROVE  Core'
<1>1. /\ read.state = "wait_for_started"
      /\ UNCHANGED <<rcv, toRcv, toSnd, data, sizes, inUse, nextId>>
  BY DEF WaitForStarted, wire
<1>2. snd \in Sender /\ read \in Reading /\ K \in Nat
  BY SenderFacts
<1>3. SenderStart(snd, read, sizes[K]) /\ K > 0 /\ (snd.replyHandler => snd.state = "INITIATING")
  BY <1>1 DEF Core, SenderInv
<1>4. CASE snd.state = "RUNNING" /\ read' = [read EXCEPT !.state = "try_read"] /\ UNCHANGED snd
  <2>1. /\ snd.total = 0 /\ ~snd.requestClose /\ read.ofs = 0 /\ read.len = sizes[K]
        /\ snd.msg = EmptyChunk /\ ~snd.requestInit /\ snd.pc = "idle"
        /\ snd.queue = << >> /\ snd.reply = "accept" /\ snd.proceedHandlers = 1
    BY <1>3, <1>4 DEF SenderStart
  <2>2. /\ read' \in Reading /\ read'.state = "try_read" /\ read'.ofs = 0
        /\ read'.len = sizes[K] /\ sizes[K] \in Nat
    BY <1>2, <1>4, <2>1 DEF Reading
  <2>3. Tiles(snd, read', sizes[K])
    <3>1. Len(snd.queue) = 0 /\ From(snd) = 0
      BY <2>1, EmptyIs, EmptySeq DEF From
    <3>2. 0 + sizes[K] = sizes[K]
      BY <2>2
    <3> QED BY <2>1, <2>2, <3>1, <3>2, EmptyIs DEF Tiles
  <2>4. SenderGoes(snd, read', sizes[K])
    BY <1>4, <2>1, <2>2, <2>3 DEF SenderGoes
  <2>5. SenderInv'
    BY <1>1, <1>3, <1>4, <2>2, <2>4 DEF SenderInv, K
  <2>6. snd.proceedHandlers <= snd.proceedHandlers
    BY <2>1
  <2> QED BY <1>1, <1>2, <1>4, <2>2, <2>5, <2>6, SenderOnly
<1>5. CASE snd.state = "STATE_ERROR" /\ DoneStream
  <2>1. /\ snd.pc = "idle" /\ snd.queue = << >> /\ snd.msg = EmptyChunk /\ ~snd.requestInit
        /\ snd.proceedHandlers = 0 /\ ~snd.replyHandler
    BY <1>3, <1>5 DEF SenderStart
  <2> QED BY <1>1, <1>5, <2>1, DoneKeeps
<1> QED BY <1>4, <1>5 DEF WaitForStarted

\* WaitForClose keeps the invariant.
LEMMA WaitForCloseKeeps ==
    ASSUME Core, WaitForClose
    PROVE  Core'
<1>1. /\ read.state = "wait_for_close" /\ snd.pc = "idle" /\ snd.queue = << >> /\ DoneStream
      /\ snd.state \in {"CLOSING", "STATE_ERROR"}
      /\ UNCHANGED <<rcv, toRcv, toSnd, data, sizes, inUse, nextId>>
  BY DEF WaitForClose, wire
<1>2. SenderGoes(snd, read, sizes[K]) /\ K > 0 /\ ~snd.replyHandler
  BY <1>1 DEF Core, SenderInv
<1>3. /\ snd.msg = EmptyChunk /\ ~snd.requestInit
      /\ snd.proceedHandlers = 0 \/ snd.requestClose
  BY <1>1, <1>2 DEF SenderGoes
<1> QED BY <1>1, <1>2, <1>3, DoneKeeps

\* ErrorLeftOver keeps the invariant.
LEMMA ErrorLeftOverKeeps ==
    ASSUME Core, ErrorLeftOver
    PROVE  Core'
<1>1. /\ read.state = "try_read" /\ read' = [state |-> "again", ofs |-> 0, len |-> 0]
      /\ UNCHANGED <<snd, rcv, toRcv, toSnd, data, sizes, inUse, nextId>>
  BY DEF ErrorLeftOver, wire
<1>2. snd \in Sender
  BY SenderFacts
<1>3. SenderGoes(snd, read, sizes[K]) /\ K > 0 /\ (snd.replyHandler => snd.state = "INITIATING")
  BY <1>1 DEF Core, SenderInv
<1>4. read' \in Reading /\ read'.state = "again"
  BY <1>1 DEF Reading
<1>5. Tiles(snd, read, sizes[K]) => Tiles(snd, read', sizes[K])
  BY <1>1, <1>4 DEF Tiles
<1>6. SenderGoes(snd, read', sizes[K])
  BY <1>1, <1>3, <1>4, <1>5 DEF SenderGoes
<1>7. SenderInv'
  BY <1>1, <1>3, <1>4, <1>6 DEF SenderInv, K
<1>8. snd.proceedHandlers <= snd.proceedHandlers
  BY <1>2 DEF Sender
<1> QED BY <1>1, <1>2, <1>4, <1>7, <1>8, SenderOnly

\* What the read flow leaves alone when it puts buffers into the queue.
SameFlow(s, q) ==
    /\ q.sid = s.sid /\ q.total = s.total /\ q.win = s.win /\ q.winSize = s.winSize
    /\ q.reply = s.reply /\ q.replyHandler = s.replyHandler
    /\ q.proceedHandlers = s.proceedHandlers /\ q.requestInit = s.requestInit
    /\ q.pc = s.pc /\ q.state = s.state /\ q.msg = s.msg

\* A sender that runs, is full or has failed goes on with one more buffer.
LEMMA PutGoes ==
    ASSUME NEW s \in Sender, NEW q \in Sender, SameFlow(s, q), NEW rd, NEW to, NEW n,
           SenderGoes(s, rd, n), rd.state = "try_read",
           Tiles(s, rd, n) => Tiles(q, to, n),
           s.state = "STATE_ERROR" => \A i \in 1..Len(q.queue) : q.queue[i].lo <= q.queue[i].hi,
           q.requestClose <=> to.state = "wait_for_close",
           to.state = "wait_for_close" => to.len = 0
    PROVE  SenderGoes(q, to, n)
<1>1. /\ ~q.requestInit /\ q.reply = "accept" /\ (q.pc = "idle" => q.msg = EmptyChunk)
  BY DEF SenderGoes, SameFlow
<1>2. CASE s.state = "RUNNING" /\ s.pc \in {"idle", "got_frame"}
  <2>1. /\ Tiles(s, rd, n) /\ s.proceedHandlers = 1
        /\ s.pc = "got_frame" => s.msg.lo < s.msg.hi /\ s.win > 0
    BY <1>2 DEF SenderGoes
  <2> QED BY <1>1, <1>2, <2>1 DEF SenderGoes, SameFlow
<1>3. CASE s.state = "FULL"
  <2>1. Tiles(s, rd, n) /\ s.proceedHandlers = 1 /\ s.pc = "stream_proceed_timeout"
    BY <1>3 DEF SenderGoes
  <2> QED BY <1>1, <1>3, <2>1 DEF SenderGoes, SameFlow
<1>4. CASE s.state = "STATE_ERROR"
  <2>1. s.pc = "idle"
    BY <1>4 DEF SenderGoes
  <2> QED BY <1>1, <1>4, <2>1 DEF SenderGoes, SameFlow
<1>5. \/ s.state = "RUNNING" /\ s.pc \in {"idle", "got_frame"}
      \/ s.state = "FULL" \/ s.state = "STATE_ERROR"
  BY DEF SenderGoes
<1> QED BY <1>2, <1>3, <1>4, <1>5

\* Appending keeps pieces that end after they begin.
LEMMA AppendOrdered ==
    ASSUME NEW u \in Seq(Piece), NEW x \in Piece, x.lo <= x.hi,
           \A i \in 1..Len(u) : u[i].lo <= u[i].hi
    PROVE  \A i \in 1..Len(Append(u, x)) : Append(u, x)[i].lo <= Append(u, x)[i].hi
<1> DEFINE v == Append(u, x)
<1>1. /\ Len(u) \in Nat /\ Len(v) = Len(u) + 1 /\ v[Len(u) + 1] = x
      /\ \A i \in 1..Len(u) : v[i] = u[i]
  BY AppendIs
<1> HIDE DEF v
<1>2. ASSUME NEW i \in 1..Len(v) PROVE v[i].lo <= v[i].hi
  <2>1. i \in 1..Len(u) \/ i = Len(u) + 1
    BY <1>1
  <2> QED BY <1>1, <2>1
<1> QED BY <1>2 DEF v

\* TryRead keeps the invariant.
LEMMA TryReadKeeps ==
    ASSUME Core, TryRead
    PROVE  Core'
<1> DEFINE n == Smaller(read.len, RawSize)
           c == Chunk(read.ofs, read.ofs + n)
           s == [snd EXCEPT !.queue = Append(snd.queue, c)]
           q == [s EXCEPT !.requestClose = TRUE, !.queue = Append(s.queue, EmptyChunk)]
<1>1. /\ read.state = "try_read"
      /\ read' = [state |-> IF n = read.len THEN "wait_for_close" ELSE "try_read",
                  ofs |-> read.ofs + n, len |-> read.len - n]
      /\ snd' = IF n = read.len THEN q ELSE s
      /\ UNCHANGED <<rcv, toRcv, toSnd, data, sizes, inUse, nextId>>
  BY DEF TryRead, wire, CloseStream
<1>2. snd \in Sender /\ read \in Reading /\ K \in Nat /\ (K > 0 => sizes[K] \in Nat)
  BY SenderFacts
<1>3. SenderGoes(snd, read, sizes[K]) /\ K > 0 /\ ~snd.replyHandler /\ ~snd.requestClose
  <2>1. SenderGoes(snd, read, sizes[K]) /\ K > 0 /\ (snd.replyHandler => snd.state = "INITIATING")
    BY <1>1 DEF Core, SenderInv
  <2> QED BY <1>1, <2>1 DEF SenderGoes
<1>4. n \in Nat /\ n <= read.len /\ read.len \in Nat /\ read.ofs \in Nat
  <2>1. read.len \in Nat /\ read.ofs \in Nat
    BY <1>2 DEF Reading
  <2>2. read.len \in Int /\ RawSize \in Int /\ RawSize \in Nat
    BY <2>1, StreamAssumption
  <2>3. n <= read.len /\ (n = read.len \/ n = RawSize)
    BY <2>2, SmallerIs
  <2> HIDE DEF n
  <2> QED BY <2>1, <2>2, <2>3
<1> HIDE DEF n
<1>5. c \in Piece /\ c.lo <= c.hi /\ snd.queue \in Seq(Piece)
  BY <1>2, <1>4 DEF Chunk, Piece, Sender
<1>6. Append(snd.queue, c) \in Seq(Piece)
  BY <1>5, AppendIs
<1>7. s \in Sender /\ s.queue = Append(snd.queue, c) /\ SameFlow(snd, s)
      /\ s.requestClose = snd.requestClose
  BY <1>2, <1>6 DEF Sender, SameFlow
<1>8. Append(s.queue, EmptyChunk) \in Seq(Piece)
  BY <1>6, <1>7, EmptyIs, AppendIs
<1> HIDE DEF s
<1>9. q \in Sender /\ q.queue = Append(s.queue, EmptyChunk) /\ SameFlow(s, q) /\ q.requestClose
  BY <1>7, <1>8 DEF Sender, SameFlow
<1> HIDE DEF q
<1>10. /\ read' \in Reading /\ read'.ofs = read.ofs + n /\ read'.len = read.len - n
       /\ read'.state = IF n = read.len THEN "wait_for_close" ELSE "try_read"
  BY <1>1, <1>4 DEF Reading
<1>11. Tiles(snd, read, sizes[K]) =>
           Tiles(s, read', sizes[K]) /\ \A i \in 1..Len(s.queue) : s.queue[i].raw
  <2> SUFFICES ASSUME Tiles(snd, read, sizes[K])
               PROVE  Tiles(s, read', sizes[K]) /\ \A i \in 1..Len(s.queue) : s.queue[i].raw
    OBVIOUS
  <2>1. read'.state # "again"
    BY <1>10
  <2>2. read.ofs + read.len = sizes[K]
    BY <1>1 DEF Tiles
  <2>3. read'.ofs + read'.len = sizes[K]
    BY <1>4, <1>10, <2>2
  <2>4. s.msg = snd.msg /\ s.total = snd.total /\ s.queue = Append(snd.queue, Chunk(read.ofs, read.ofs + n))
    BY <1>7 DEF SameFlow
  <2> HIDE DEF c
  <2>5. /\ snd \in Sender /\ read \in Reading /\ sizes[K] \in Nat /\ n \in Nat
        /\ s \in Sender /\ read' \in Reading /\ read'.ofs = read.ofs + n
    BY <1>2, <1>3, <1>4, <1>7, <1>10
  <2>6. read.state = "try_read" /\ Tiles(snd, read, sizes[K])
    BY <1>1
  <2> QED BY <2>1, <2>3, <2>4, <2>5, <2>6, PutTiles
<1>12. snd.state = "STATE_ERROR" => \A i \in 1..Len(s.queue) : s.queue[i].lo <= s.queue[i].hi
  <2> SUFFICES ASSUME snd.state = "STATE_ERROR"
               PROVE  \A i \in 1..Len(s.queue) : s.queue[i].lo <= s.queue[i].hi
    OBVIOUS
  <2>1. \A i \in 1..Len(snd.queue) : snd.queue[i].lo <= snd.queue[i].hi
    BY <1>3 DEF SenderGoes
  <2> HIDE DEF c
  <2> QED BY <1>5, <1>7, <2>1, AppendOrdered
<1>13. SenderGoes(snd', read', sizes[K]) /\ SameFlow(snd, snd') /\ snd' \in Sender
  <2>1. CASE n = read.len
    <3>1. snd' = q /\ read'.state = "wait_for_close" /\ read'.len = 0
      BY <1>1, <1>4, <1>10, <2>1
    <3>2. Tiles(snd, read, sizes[K]) => Tiles(q, read', sizes[K])
      <4>1. q.msg = s.msg /\ q.total = s.total
        BY <1>9 DEF SameFlow
      <4> QED BY <1>2, <1>3, <1>7, <1>9, <1>10, <1>11, <3>1, <4>1, PutEmptyTiles
    <3>3. snd.state = "STATE_ERROR" => \A i \in 1..Len(q.queue) : q.queue[i].lo <= q.queue[i].hi
      <4>1. EmptyChunk \in Piece /\ EmptyChunk.lo <= EmptyChunk.hi
        BY EmptyIs
      <4>2. s.queue \in Seq(Piece)
        BY <1>7 DEF Sender
      <4> QED BY <1>9, <1>12, <4>1, <4>2, AppendOrdered
    <3>4. SameFlow(snd, q)
      BY <1>7, <1>9 DEF SameFlow
    <3>5. q.requestClose <=> read'.state = "wait_for_close"
      BY <1>9, <3>1
    <3>6. SenderGoes(q, read', sizes[K])
      <4>1. snd \in Sender /\ q \in Sender /\ SenderGoes(snd, read, sizes[K])
        BY <1>2, <1>3, <1>9
      <4>2. read'.state = "wait_for_close" => read'.len = 0
        BY <3>1
      <4> QED BY <1>1, <3>2, <3>3, <3>4, <3>5, <4>1, <4>2, PutGoes
    <3> QED BY <1>9, <3>1, <3>4, <3>6
  <2>2. CASE n # read.len
    <3>1. snd' = s /\ read'.state = "try_read"
      BY <1>1, <1>10, <2>2
    <3>2. s.requestClose <=> read'.state = "wait_for_close"
      BY <1>3, <1>7, <3>1
    <3>3. SenderGoes(s, read', sizes[K])
      BY <1>1, <1>2, <1>3, <1>7, <1>11, <1>12, <3>1, <3>2, PutGoes, SMTT(30)
    <3> QED BY <1>7, <3>1, <3>3
  <2> QED BY <2>1, <2>2
<1>14. SenderInv'
  BY <1>1, <1>3, <1>10, <1>13 DEF SenderInv, K, SameFlow
<1>15. snd.proceedHandlers <= snd.proceedHandlers
  BY <1>2 DEF Sender
<1> QED BY <1>1, <1>10, <1>13, <1>14, <1>15, SenderOnly DEF SameFlow
-----------------------------------------------------------------------------
(* Messages under way. *)

\* The first message to the receiver is taken.
LEMMA RcvTail ==
    ASSUME Types, toRcv # << >>, toRcv' = Tail(toRcv)
    PROVE  /\ toRcv' \in Seq(ToReceiver) /\ toRcv[1] \in ToReceiver /\ Head(toRcv) = toRcv[1]
           /\ 1 \in 1..Len(toRcv)
           /\ \A i \in Inits' : i \in Nat /\ i + 1 \in Inits /\ toRcv'[i] = toRcv[i + 1]
           /\ \A i \in Closes' : i + 1 \in Closes /\ toRcv'[i] = toRcv[i + 1]
<1>1. /\ toRcv' \in Seq(ToReceiver) /\ Len(toRcv) \in Nat /\ Len(toRcv) > 0
      /\ Len(toRcv') = Len(toRcv) - 1 /\ Head(toRcv) = toRcv[1] /\ toRcv[1] \in ToReceiver
      /\ \A i \in 1..Len(toRcv) - 1 : toRcv'[i] = toRcv[i + 1]
  BY TailIs DEF Types
<1>2. \A i \in 1..Len(toRcv') : /\ i \in Nat /\ i + 1 \in 1..Len(toRcv)
                                /\ toRcv'[i] = toRcv[i + 1]
  BY <1>1
<1> QED BY <1>1, <1>2 DEF Inits, Closes

\* The first message to the sender is taken.
LEMMA SndTail ==
    ASSUME Types, toSnd # << >>, toSnd' = Tail(toSnd)
    PROVE  /\ toSnd' \in Seq(Reply \cup Proceed) /\ toSnd[1] \in Reply \cup Proceed
           /\ Head(toSnd) = toSnd[1] /\ 1 \in 1..Len(toSnd)
           /\ \A i \in Grants' : i \in Nat /\ i > 0 /\ i + 1 \in Grants /\ toSnd'[i] = toSnd[i + 1]
<1>1. /\ toSnd' \in Seq(Reply \cup Proceed) /\ Len(toSnd) \in Nat /\ Len(toSnd) > 0
      /\ Len(toSnd') = Len(toSnd) - 1 /\ Head(toSnd) = toSnd[1]
      /\ toSnd[1] \in Reply \cup Proceed
      /\ \A i \in 1..Len(toSnd) - 1 : toSnd'[i] = toSnd[i + 1]
  BY TailIs DEF Types
<1>2. \A i \in 1..Len(toSnd') : /\ i \in Nat /\ i > 0 /\ i + 1 \in 1..Len(toSnd)
                                /\ toSnd'[i] = toSnd[i + 1]
  BY <1>1
<1> QED BY <1>1, <1>2 DEF Grants, Gives

\* A message goes to the receiver.
LEMMA RcvAppend ==
    ASSUME Types, NEW m \in ToReceiver, toRcv' = Append(toRcv, m)
    PROVE  /\ toRcv' \in Seq(ToReceiver) /\ Len(toRcv) \in Nat
           /\ toRcv'[Len(toRcv) + 1] = m
           /\ \A i \in Inits' : \/ i \in Inits /\ toRcv'[i] = toRcv[i] /\ i <= Len(toRcv)
                                \/ /\ i = Len(toRcv) + 1 /\ m.kind = "INITIATE"
                                   /\ m.sid # INVALID_STREAM_ID
           /\ \A i \in Closes' : \/ i \in Closes /\ toRcv'[i] = toRcv[i]
                                 \/ i = Len(toRcv) + 1 /\ m.kind = "COMPLETE"
           /\ \A i \in Inits : i \in Inits' /\ toRcv'[i] = toRcv[i]
<1>1. /\ toRcv' \in Seq(ToReceiver) /\ Len(toRcv) \in Nat /\ Len(toRcv') = Len(toRcv) + 1
      /\ toRcv'[Len(toRcv) + 1] = m /\ \A i \in 1..Len(toRcv) : toRcv'[i] = toRcv[i]
  BY AppendIs DEF Types
<1>2. \A i \in 1..Len(toRcv') : \/ i \in 1..Len(toRcv) /\ toRcv'[i] = toRcv[i] /\ i <= Len(toRcv)
                                \/ i = Len(toRcv) + 1 /\ toRcv'[i] = m
  BY <1>1
<1>3. \A i \in 1..Len(toRcv) : i \in 1..Len(toRcv')
  BY <1>1
<1> QED BY <1>1, <1>2, <1>3 DEF Inits, Closes

\* A message goes to the sender.
LEMMA SndAppend ==
    ASSUME Types, NEW m \in Reply \cup Proceed, toSnd' = Append(toSnd, m)
    PROVE  /\ toSnd' \in Seq(Reply \cup Proceed) /\ Len(toSnd) \in Nat
           /\ toSnd'[Len(toSnd) + 1] = m
           /\ \A i \in Grants' : \/ i \in Grants /\ toSnd'[i] = toSnd[i]
                                 \/ i = Len(toSnd) + 1 /\ Gives(m)
<1>1. /\ toSnd' \in Seq(Reply \cup Proceed) /\ Len(toSnd) \in Nat /\ Len(toSnd') = Len(toSnd) + 1
      /\ toSnd'[Len(toSnd) + 1] = m /\ \A i \in 1..Len(toSnd) : toSnd'[i] = toSnd[i]
  BY AppendIs DEF Types
<1>2. \A i \in 1..Len(toSnd') : \/ i \in 1..Len(toSnd) /\ toSnd'[i] = toSnd[i]
                                \/ i = Len(toSnd) + 1 /\ toSnd'[i] = m
  BY <1>1
<1> QED BY <1>1, <1>2 DEF Grants, Gives

\* The sender does not move.
LEMMA SenderStays ==
    ASSUME Core, UNCHANGED <<snd, read, sizes, inUse, nextId>>
    PROVE  Ids' /\ SenderInv' /\ K' = K
BY DEF Core, Ids, SenderInv, K, IdOf

\* A message to the receiver is lost, or nobody listens to it.
LEMMA LessToRcv ==
    ASSUME Core, toRcv # << >>, toRcv' = Tail(toRcv),
           UNCHANGED <<snd, rcv, read, toSnd, data, sizes, inUse, nextId>>
    PROVE  Core'
<1> USE DEF Core
<1>1. /\ toRcv' \in Seq(ToReceiver)
      /\ \A i \in Inits' : i \in Nat /\ i + 1 \in Inits /\ toRcv'[i] = toRcv[i + 1]
      /\ \A i \in Closes' : i + 1 \in Closes /\ toRcv'[i] = toRcv[i + 1]
  BY RcvTail
<1>2. Grants' = Grants /\ InFlight' = InFlight
  BY DEF Grants, Gives, InFlight
<1>3. Ids' /\ SenderInv' /\ K' = K
  BY SenderStays
<1>4. Types'
  BY <1>1 DEF Types
<1>5. Messages'
  <2>1. Messages
    OBVIOUS
  <2>2. \A i, j \in Inits' : i < j => i + 1 < j + 1
    BY <1>1
  <2>3. \A i, j \in Inits' : i < j => toRcv'[i].sid < toRcv'[j].sid
    BY <1>1, <2>1, <2>2 DEF Messages
  <2>4. \A i \in Inits' : /\ toRcv'[i].sid < K /\ toRcv'[i].size > 0
                          /\ rcv.srcId # INVALID_STREAM_ID => rcv.srcId < toRcv'[i].sid
                          /\ snd.state = "STARTED" => toRcv'[i].sid # snd.sid
    BY <1>1, <2>1, ZenonT(40) DEF Messages
  <2>5. ASSUME NEW i \in Closes'
        PROVE  /\ toRcv'[i].sid # INVALID_STREAM_ID /\ toRcv'[i].sid < K
               /\ toRcv'[i].size = sizes[toRcv'[i].sid + 1]
               /\ \A j \in Inits' : toRcv'[j].sid # toRcv'[i].sid
    <3>1. i + 1 \in Closes /\ toRcv'[i] = toRcv[i + 1]
      BY <1>1
    <3>2. /\ toRcv[i + 1].sid # INVALID_STREAM_ID /\ toRcv[i + 1].sid < K
          /\ toRcv[i + 1].size = sizes[toRcv[i + 1].sid + 1]
          /\ \A j \in Inits : toRcv[j].sid # toRcv[i + 1].sid
      BY <2>1, <3>1 DEF Messages
    <3> QED BY <1>1, <3>1, <3>2
  <2> QED BY <1>2, <1>3, <2>1, <2>3, <2>4, <2>5 DEF Messages
<1>6. (NotGranted => NotGranted') /\ (Early' => Early)
  <2>1. NotGranted => NotGranted'
    BY <1>1, <1>2 DEF NotGranted
  <2>2. Inits' # {} => Inits # {}
    BY <1>1
  <2> QED BY <2>1, <2>2 DEF Early, Opening
<1>7. Granted'
  BY <1>6 DEF Granted
<1>8. Frames'
  <2>1. Frames /\ (~NotGranted' => ~NotGranted)
    BY <1>6
  <2>2. data' # << >> /\ ~NotGranted' => data'[Len(data')].s = K'
    BY <1>3, <2>1 DEF Frames
  <2> QED BY <1>3, <2>1, <2>2 DEF Frames
<1>9. Control'
  BY <1>1 DEF Control, Opening
<1>10. Buffer' /\ Sink'
  BY DEF Buffer, Sink, Stored
<1>11. Flow'
  BY <1>1, <1>2 DEF Flow
<1>12. Window'
  BY <1>1, <1>2 DEF Window, Linked
<1> QED BY <1>3, <1>4, <1>5, <1>7, <1>8, <1>9, <1>10, <1>11, <1>12

\* A message to the sender is lost, or nobody listens to it.
LEMMA LessToSnd ==
    ASSUME Core, toSnd # << >>, toSnd' = Tail(toSnd),
           UNCHANGED <<snd, rcv, read, toRcv, data, sizes, inUse, nextId>>
    PROVE  Core'
<1> USE DEF Core
<1>1. /\ toSnd' \in Seq(Reply \cup Proceed)
      /\ \A i \in Grants' : i \in Nat /\ i + 1 \in Grants /\ toSnd'[i] = toSnd[i + 1]
  BY SndTail
<1>2. Inits' = Inits /\ Closes' = Closes /\ InFlight' = InFlight
  BY DEF Inits, Closes, InFlight
<1>3. Ids' /\ SenderInv' /\ K' = K
  BY SenderStays
<1>4. Types'
  BY <1>1 DEF Types
<1>5. Messages'
  BY <1>1, <1>2, <1>3 DEF Messages
<1>6. (NotGranted => NotGranted') /\ (Early' <=> Early)
  BY <1>1, <1>2 DEF NotGranted, Early, Opening
<1>7. Granted'
  BY <1>6 DEF Granted
<1>8. Frames'
  <2>1. Frames /\ (~NotGranted' => ~NotGranted)
    BY <1>6
  <2>2. data' # << >> /\ ~NotGranted' => data'[Len(data')].s = K'
    BY <1>3, <2>1 DEF Frames
  <2> QED BY <1>3, <2>1, <2>2 DEF Frames
<1>9. Control'
  BY <1>2 DEF Control, Opening
<1>10. Buffer' /\ Sink'
  BY DEF Buffer, Sink, Stored
<1>11. Flow'
  BY <1>2 DEF Flow
<1>12. Window'
  <2>1. Window /\ (Linked' <=> Linked)
    BY DEF Linked
  <2>2. \A i, j \in Grants' : i + 1 = j + 1 => i = j
    BY <1>1
  <2>3. ASSUME Linked, NEW i \in Grants', toSnd'[i].sid = snd.sid
        PROVE  /\ snd.win = 0 /\ data = << >> /\ rcv.win = rcv.winSize
               /\ toSnd'[i].kind = "REPLY" => toSnd'[i].size = rcv.winSize /\ snd.proceedHandlers = 0
               /\ \A j \in Grants' : toSnd'[j].sid = snd.sid => i = j
    <3>1. i + 1 \in Grants /\ toSnd[i + 1].sid = snd.sid /\ toSnd'[i] = toSnd[i + 1]
      BY <1>1, <2>3
    <3>2. /\ snd.win = 0 /\ data = << >> /\ rcv.win = rcv.winSize
          /\ toSnd[i + 1].kind = "REPLY" => toSnd[i + 1].size = rcv.winSize /\ snd.proceedHandlers = 0
          /\ \A j \in Grants : toSnd[j].sid = snd.sid => i + 1 = j
      BY <2>1, <2>3, <3>1 DEF Window
    <3>3. ASSUME NEW j \in Grants', toSnd'[j].sid = snd.sid PROVE i = j
      <4>1. j + 1 \in Grants /\ toSnd[j + 1].sid = snd.sid
        BY <1>1, <3>3
      <4> QED BY <2>2, <3>2, <4>1
    <3> QED BY <3>1, <3>2, <3>3
  <2> QED BY <1>1, <1>2, <2>1, <2>3 DEF Window
<1> QED BY <1>3, <1>4, <1>5, <1>7, <1>8, <1>9, <1>10, <1>11, <1>12
-----------------------------------------------------------------------------
(* Steps of the sender that send or receive. *)

\* The stream ID of the stream in work, if there is one.
LEMMA SidIs ==
    ASSUME Core
    PROVE  /\ snd.sid \in Nat /\ rcv.srcId \in Nat /\ K \in Nat /\ INVALID_STREAM_ID \in Nat
           /\ snd.sid # INVALID_STREAM_ID => K > 0 /\ snd.sid = K - 1 /\ snd.sid < K
           /\ \A i \in Inits : toRcv[i] \in ToReceiver /\ toRcv[i].sid \in Nat
           /\ \A i \in Closes : toRcv[i] \in ToReceiver /\ toRcv[i].sid \in Nat
<1>1. INVALID_STREAM_ID \in Nat /\ StreamIds \subseteq Nat
  BY StreamAssumption DEF INVALID_STREAM_ID, StreamIds
<1>2. snd.sid \in StreamIds /\ rcv.srcId \in StreamIds
  BY DEF Core, Types, Sender, Receiver
<1>3. K \in Nat
  BY SenderFacts
<1>4. snd.sid = IdOf(K)
  BY DEF Core, Ids
<1>5. snd.sid # INVALID_STREAM_ID => K > 0 /\ snd.sid = K - 1 /\ snd.sid < K
  <2>1. CASE MAX_SEND_STREAM_ID > 0 /\ K \in 1..MAX_SEND_STREAM_ID + 1
    <3>1. snd.sid = K - 1
      BY <1>4, <2>1 DEF IdOf
    <3>2. K > 0 /\ K - 1 < K
      BY <1>3, <2>1, StreamAssumption
    <3> QED BY <3>1, <3>2
  <2>2. CASE ~(MAX_SEND_STREAM_ID > 0 /\ K \in 1..MAX_SEND_STREAM_ID + 1)
    BY <1>4, <2>2 DEF IdOf
  <2> QED BY <2>1, <2>2
<1>6. toRcv \in Seq(ToReceiver)
  BY DEF Core, Types
<1>7. \A i \in 1..Len(toRcv) : toRcv[i] \in ToReceiver
  BY <1>6, ElementOfSeq
<1>8. \A m \in ToReceiver : m.sid \in Nat
  BY <1>1 DEF ToReceiver
<1> QED BY <1>1, <1>2, <1>3, <1>5, <1>7, <1>8 DEF Inits, Closes

\* Once the receiver has granted a window, the opening of the stream is over.
LEMMA AfterGrant ==
    ASSUME Core, ~NotGranted
    PROVE  /\ snd.sid # INVALID_STREAM_ID /\ snd.state # "STARTED" /\ Inits = {} /\ ~Opening
           /\ rcv.srcId \in {snd.sid, INVALID_STREAM_ID}
           /\ rcv.completeHandler => Linked
           /\ rcv.dataHandler => Linked
           /\ ~Early
<1>1. ~Early
  BY DEF Core, Granted
<1>2. rcv.dataHandler => rcv.srcId # INVALID_STREAM_ID
  BY DEF Core, Control
<1> QED BY <1>1, <1>2 DEF Early, Opening, Linked

\* The parts of the invariant that a step which leaves the receiver alone keeps.
LEMMA ReceiverStays ==
    ASSUME Core, UNCHANGED rcv, UNCHANGED sizes
    PROVE  Buffer' /\ Sink'
BY DEF Core, Buffer, Sink, Stored

\* All that matters to the sequence of messages is unchanged.
LEMMA MessagesKeep ==
    ASSUME Core, UNCHANGED <<toRcv, sizes>>, rcv'.srcId = rcv.srcId, snd'.sid = snd.sid,
           snd'.state = "STARTED" => snd.state = "STARTED",
           \A i \in Grants' : toSnd'[i].sid # INVALID_STREAM_ID /\ toSnd'[i].sid < K
    PROVE  Messages'
<1>1. Inits' = Inits /\ Closes' = Closes /\ K' = K
  BY DEF Inits, Closes, K
<1>2. Messages
  BY DEF Core
<1>3. \A i \in Inits' : /\ toRcv'[i].sid < K' /\ toRcv'[i].size > 0
                        /\ rcv'.srcId # INVALID_STREAM_ID => rcv'.srcId < toRcv'[i].sid
                        /\ snd'.state = "STARTED" => toRcv'[i].sid # snd'.sid
  BY <1>1, <1>2 DEF Messages
<1>4. \A i, j \in Inits' : i < j => toRcv'[i].sid < toRcv'[j].sid
  BY <1>1, <1>2 DEF Messages
<1>5. rcv'.srcId # INVALID_STREAM_ID =>
          rcv'.srcId < K' /\ (snd'.state = "STARTED" => rcv'.srcId # snd'.sid)
  BY <1>1, <1>2 DEF Messages
<1>6. \A i \in Closes' : /\ toRcv'[i].sid # INVALID_STREAM_ID /\ toRcv'[i].sid < K'
                         /\ toRcv'[i].size = sizes'[toRcv'[i].sid + 1]
                         /\ \A j \in Inits' : toRcv'[j].sid # toRcv'[i].sid
  BY <1>1, <1>2 DEF Messages
<1> QED BY <1>1, <1>3, <1>4, <1>5, <1>6 DEF Messages

\* SendInitStream keeps the invariant.
LEMMA SendInitKeeps ==
    ASSUME Core, SendInitStream
    PROVE  Core'
<1> DEFINE m == [kind |-> "INITIATE", sid |-> snd.sid, size |-> snd.winSize]
<1> USE DEF Core
<1>1. /\ snd.pc = "send_init_stream" /\ toRcv' = Append(toRcv, m)
      /\ snd' = [snd EXCEPT !.pc = "received_init_stream", !.state = "INITIATING",
                            !.replyHandler = TRUE, !.sleeping = TRUE, !.timer = "active"]
      /\ UNCHANGED <<read, inUse, nextId, sizes, rcv, toSnd, data>>
  BY DEF SendInitStream, server
<1>2. /\ snd \in Sender /\ read \in Reading /\ K \in Nat
      /\ read.state \in {"none", "wait_for_started", "try_read", "wait_for_close", "again"}
  BY SenderFacts
<1>3. read.state = "wait_for_started" /\ SenderStart(snd, read, sizes[K]) /\ K > 0
  BY <1>1, <1>2 DEF SenderInv, SenderRests, SenderGoes
<1>4. snd.state = "STARTED" /\ snd.winSize > 0 /\ snd.proceedHandlers = 0 /\ snd.queue = << >>
      /\ ~snd.requestInit
  BY <1>1, <1>3 DEF SenderStart
<1>5. NotGranted
  BY <1>4 DEF Granted, Early
<1>6. /\ snd' \in Sender /\ snd'.pc = "received_init_stream" /\ snd'.state = "INITIATING"
      /\ snd'.sid = snd.sid /\ snd'.total = snd.total /\ snd'.win = snd.win
      /\ snd'.winSize = snd.winSize /\ snd'.reply = snd.reply
      /\ snd'.proceedHandlers = snd.proceedHandlers /\ snd'.requestInit = snd.requestInit
      /\ snd'.requestClose = snd.requestClose /\ snd'.queue = snd.queue /\ snd'.msg = snd.msg
  BY <1>1, <1>2 DEF Sender
<1>7. m \in ToReceiver /\ m.kind = "INITIATE" /\ m.sid = snd.sid /\ m.size = snd.winSize
  BY <1>2 DEF Sender, ToReceiver
<1> HIDE DEF m
<1>8. /\ toRcv' \in Seq(ToReceiver) /\ Len(toRcv) \in Nat /\ toRcv'[Len(toRcv) + 1] = m
      /\ \A i \in Inits' : \/ i \in Inits /\ toRcv'[i] = toRcv[i] /\ i <= Len(toRcv)
                           \/ i = Len(toRcv) + 1 /\ m.sid # INVALID_STREAM_ID
      /\ \A i \in Closes' : i \in Closes /\ toRcv'[i] = toRcv[i]
  BY <1>1, <1>7, RcvAppend
<1>9. /\ snd.sid \in Nat /\ rcv.srcId \in Nat
      /\ snd.sid # INVALID_STREAM_ID => snd.sid = K - 1 /\ snd.sid < K
      /\ \A i \in Inits : toRcv[i].sid \in Nat
      /\ \A i \in Inits : i \in Nat
  BY SidIs DEF Inits
<1>10. Grants' = Grants /\ InFlight' = InFlight /\ K' = K
  BY <1>1 DEF Grants, Gives, InFlight, K
<1>11. Types'
  BY <1>1, <1>6, <1>8 DEF Types
<1>12. Ids'
  BY <1>1, <1>6, <1>10 DEF Ids
<1>13. Messages'
  <2>1. Messages
    OBVIOUS
  <2>2. ASSUME NEW i \in Inits'
        PROVE  /\ toRcv'[i].sid < K /\ toRcv'[i].size > 0
               /\ rcv.srcId # INVALID_STREAM_ID => rcv.srcId < toRcv'[i].sid
               /\ \A j \in Closes : toRcv'[i].sid # toRcv[j].sid
    <3>1. CASE i \in Inits /\ toRcv'[i] = toRcv[i]
      BY <2>1, <3>1 DEF Messages
    <3>2. CASE i = Len(toRcv) + 1 /\ m.sid # INVALID_STREAM_ID
      <4>1. toRcv'[i] = m
        BY <1>8, <3>2
      <4>2. m.sid = K - 1 /\ m.sid < K /\ m.size > 0
        BY <1>4, <1>7, <1>9, <3>2
      <4>3. rcv.srcId # INVALID_STREAM_ID => rcv.srcId < K /\ rcv.srcId # snd.sid
        BY <1>4, <2>1 DEF Messages
      <4>4. \A j \in Closes : toRcv[j].sid # snd.sid
        BY <1>5 DEF NotGranted
      <4> QED BY <1>2, <1>7, <1>9, <4>1, <4>2, <4>3, <4>4
    <3> QED BY <1>8, <3>1, <3>2
  <2>3. ASSUME NEW i \in Inits', NEW j \in Inits', i < j
        PROVE  toRcv'[i].sid < toRcv'[j].sid
    <3>1. CASE j \in Inits /\ toRcv'[j] = toRcv[j] /\ j <= Len(toRcv)
      <4>1. i \in Inits /\ toRcv'[i] = toRcv[i]
        BY <1>8, <1>9, <2>3, <3>1
      <4> QED BY <2>1, <2>3, <3>1, <4>1 DEF Messages
    <3>2. CASE j = Len(toRcv) + 1 /\ m.sid # INVALID_STREAM_ID
      <4>1. i \in Inits /\ toRcv'[i] = toRcv[i]
        BY <1>8, <2>3, <3>2
      <4>2. toRcv[i].sid < K /\ toRcv[i].sid # snd.sid
        BY <1>4, <2>1, <4>1 DEF Messages
      <4>3. toRcv'[j].sid = K - 1 /\ snd.sid = K - 1
        BY <1>7, <1>8, <1>9, <3>2
      <4> QED BY <1>2, <1>9, <4>1, <4>2, <4>3
    <3> QED BY <1>8, <3>1, <3>2
  <2>4. snd'.state # "STARTED"
    BY <1>6
  <2>5. ASSUME NEW i \in Closes'
        PROVE  /\ toRcv'[i].sid # INVALID_STREAM_ID /\ toRcv'[i].sid < K
               /\ toRcv'[i].size = sizes[toRcv'[i].sid + 1]
               /\ \A j \in Inits' : toRcv'[j].sid # toRcv'[i].sid
    <3>1. i \in Closes /\ toRcv'[i] = toRcv[i]
      BY <1>8
    <3> QED BY <2>1, <2>2, <3>1 DEF Messages
  <2>6. rcv'.srcId # INVALID_STREAM_ID => rcv'.srcId < K'
    BY <1>1, <1>10, <2>1 DEF Messages
  <2>7. \A i \in Grants' : toSnd'[i].sid # INVALID_STREAM_ID /\ toSnd'[i].sid < K'
    BY <1>1, <1>10, <2>1 DEF Messages
  <2> QED BY <1>1, <1>10, <2>2, <2>3, <2>4, <2>5, <2>6, <2>7 DEF Messages
<1>14. NotGranted'
  BY <1>1, <1>5, <1>6, <1>8, <1>10 DEF NotGranted
<1>15. Granted'
  BY <1>14 DEF Granted
<1>16. Frames'
  <2>1. Frames
    OBVIOUS
  <2> QED BY <1>1, <1>6, <1>10, <1>14, <2>1 DEF Frames
<1>17. SenderInv'
  <2>1. SenderStart(snd', read, sizes[K])
    BY <1>3, <1>4, <1>6 DEF SenderStart
  <2> QED BY <1>1, <1>3, <1>6, <1>10, <2>1 DEF SenderInv
<1>18. Control'
  BY <1>1, <1>8 DEF Control, Opening
<1>19. Buffer' /\ Sink'
  BY <1>1, ReceiverStays
<1>20. Flow'
  BY <1>1, <1>8, <1>10 DEF Flow
<1>21. Window'
  <2>1. ~(rcv.srcId = snd.sid /\ rcv.srcId # INVALID_STREAM_ID)
    BY <1>4 DEF Messages
  <2>2. rcv.dataHandler => rcv.srcId # INVALID_STREAM_ID
    BY DEF Control
  <2>3. ~Linked'
    BY <1>1, <1>6, <2>1, <2>2 DEF Linked
  <2>4. \A i \in Closes' : toRcv'[i].sid # snd'.sid
    BY <1>14 DEF NotGranted
  <2> QED BY <1>1, <1>6, <2>1, <2>3, <2>4 DEF Window
<1> QED BY <1>11, <1>12, <1>13, <1>15, <1>16, <1>17, <1>18, <1>19, <1>20, <1>21

\* A reply may have set only what the reply handler sets.
LEMMA RepliedKeeps ==
    ASSUME Core, StreamInitiateReplied
    PROVE  Core'
<1> DEFINE m == Head(toSnd)
           r == [snd EXCEPT !.reply = m.reply, !.winSize = m.size, !.sleeping = FALSE]
<1> USE DEF Core
<1>1. /\ toSnd # << >> /\ m.kind = "REPLY" /\ toSnd' = Tail(toSnd)
      /\ snd' = IF snd.replyHandler /\ m.sid = snd.sid THEN Trigger(r) ELSE snd
      /\ UNCHANGED <<read, inUse, nextId, sizes, rcv, toRcv, data>>
  BY DEF StreamInitiateReplied, server
<1>2. /\ toSnd' \in Seq(Reply \cup Proceed) /\ m \in Reply \cup Proceed
      /\ m = toSnd[1] /\ 1 \in 1..Len(toSnd)
      /\ \A i \in Grants' : i \in Nat /\ i > 0 /\ i + 1 \in Grants /\ toSnd'[i] = toSnd[i + 1]
  BY <1>1, SndTail
<1>3. m \in Reply
  BY <1>1, <1>2 DEF Proceed
<1>4. CASE ~(snd.replyHandler /\ m.sid = snd.sid)
  <2>1. snd' = snd
    BY <1>1, <1>4
  <2> QED BY <1>1, <2>1, LessToSnd
<1>5. CASE snd.replyHandler /\ m.sid = snd.sid
  <2>1. /\ snd \in Sender /\ read \in Reading /\ K \in Nat
        /\ read.state \in {"none", "wait_for_started", "try_read", "wait_for_close", "again"}
    BY SenderFacts
  <2>2. snd.state = "INITIATING"
    BY <1>5 DEF SenderInv
  <2>3. read.state = "wait_for_started" /\ SenderStart(snd, read, sizes[K]) /\ K > 0
    BY <2>1, <2>2 DEF SenderInv, SenderRests, SenderGoes
  <2>4. /\ snd.pc = "received_init_stream" /\ snd.proceedHandlers = 0 /\ snd.queue = << >>
        /\ ~snd.requestInit
    BY <2>2, <2>3 DEF SenderStart
  <2>5. /\ r \in Sender /\ r.reply = m.reply /\ r.winSize = m.size /\ r.sid = snd.sid
        /\ r.total = snd.total /\ r.win = snd.win /\ r.pc = snd.pc /\ r.state = snd.state
        /\ r.queue = snd.queue /\ r.msg = snd.msg /\ r.replyHandler = snd.replyHandler
        /\ r.proceedHandlers = snd.proceedHandlers /\ r.requestInit = snd.requestInit
        /\ r.requestClose = snd.requestClose
    BY <1>3, <2>1 DEF Sender, Reply
  <2> HIDE DEF r
  <2>6. /\ snd' \in Sender /\ snd'.reply = r.reply /\ snd'.winSize = r.winSize
        /\ snd'.sid = r.sid /\ snd'.total = r.total /\ snd'.win = r.win /\ snd'.pc = r.pc
        /\ snd'.state = r.state /\ snd'.queue = r.queue /\ snd'.msg = r.msg
        /\ snd'.replyHandler = r.replyHandler /\ snd'.proceedHandlers = r.proceedHandlers
        /\ snd'.requestInit = r.requestInit /\ snd'.requestClose = r.requestClose
    <3>1. snd' = r \/ snd' = [r EXCEPT !.timer = "expired"] \/ snd' = [r EXCEPT !.bad = "trigger"]
      BY <1>1, <1>5 DEF Trigger
    <3> QED BY <2>5, <3>1 DEF Sender
  <2>7. Inits' = Inits /\ Closes' = Closes /\ InFlight' = InFlight /\ K' = K
    BY <1>1 DEF Inits, Closes, InFlight, K
  <2>8. m.reply = "accept" => 1 \in Grants /\ toSnd[1].sid = snd.sid
    BY <1>2, <1>5 DEF Grants, Gives
  <2>9. m.reply = "accept" => ~NotGranted
    BY <2>8 DEF NotGranted
  <2>10. (NotGranted => NotGranted') /\ (Early' <=> Early)
    <3>1. NotGranted /\ m.reply # "accept" => NotGranted'
      BY <1>1, <1>2, <2>5, <2>6, <2>7, ZenonT(40) DEF NotGranted
    <3>2. Early' <=> Early
      BY <1>1, <2>5, <2>6, <2>7 DEF Early, Opening
    <3> QED BY <2>9, <3>1, <3>2
  <2>11. Types'
    BY <1>1, <1>2, <2>6 DEF Types
  <2>12. Ids'
    BY <1>1, <2>5, <2>6, <2>7 DEF Ids
  <2>13. Messages'
    <3>1. Messages
      OBVIOUS
    <3>2. \A i \in Grants' : toSnd'[i].sid # INVALID_STREAM_ID /\ toSnd'[i].sid < K
      BY <1>2, <3>1 DEF Messages
    <3>3. snd'.state # "STARTED" /\ snd'.sid = snd.sid
      BY <2>2, <2>5, <2>6
    <3> QED BY <1>1, <2>7, <3>1, <3>2, <3>3 DEF Messages
  <2>14. Granted'
    BY <2>10 DEF Granted
  <2>15. Frames'
    <3>1. Frames /\ (~NotGranted' => ~NotGranted) /\ snd'.total = snd.total
      BY <2>5, <2>6, <2>10
    <3>2. data' # << >> /\ ~NotGranted' => data'[Len(data')].s = K'
      BY <1>1, <2>7, <3>1 DEF Frames
    <3> QED BY <1>1, <2>7, <3>1, <3>2 DEF Frames
  <2>16. SenderInv'
    <3>1. SenderStart(snd', read, sizes[K])
      BY <2>2, <2>3, <2>4, <2>5, <2>6 DEF SenderStart
    <3> QED BY <1>1, <2>2, <2>3, <2>5, <2>6, <2>7, <3>1 DEF SenderInv
  <2>17. Control' /\ Flow'
    BY <1>1, <2>7 DEF Control, Opening, Flow
  <2>18. Buffer' /\ Sink'
    BY <1>1, ReceiverStays
  <2>19. Window'
    <3>1. Window /\ (Linked' <=> Linked)
      BY <1>1, <2>5, <2>6 DEF Linked
    <3>2. Linked /\ m.reply = "accept" =>
              /\ snd.win = 0 /\ data = << >> /\ rcv.win = rcv.winSize /\ m.size = rcv.winSize
              /\ \A j \in Grants : toSnd[j].sid = snd.sid => 1 = j
      BY <1>1, <1>2, <2>8, <3>1 DEF Window
    <3>3. ASSUME Linked, NEW i \in Grants', toSnd'[i].sid = snd.sid
          PROVE  /\ m.reply # "accept" /\ snd.win = 0 /\ data = << >> /\ rcv.win = rcv.winSize
                 /\ toSnd'[i].kind = "REPLY" => toSnd'[i].size = rcv.winSize
                 /\ \A j \in Grants' : toSnd'[j].sid = snd.sid => i = j
      <4>1. i + 1 \in Grants /\ toSnd'[i] = toSnd[i + 1] /\ i + 1 # 1
        BY <1>2, <3>3
      <4>2. m.reply # "accept"
        BY <3>2, <3>3, <4>1
      <4>3. /\ snd.win = 0 /\ data = << >> /\ rcv.win = rcv.winSize
            /\ toSnd[i + 1].kind = "REPLY" => toSnd[i + 1].size = rcv.winSize
            /\ \A j \in Grants : toSnd[j].sid = snd.sid => i + 1 = j
        BY <3>1, <3>3, <4>1 DEF Window
      <4>4. \A j \in Grants' : toSnd'[j].sid = snd.sid => i = j
        BY <1>2, <3>3, <4>3
      <4> QED BY <4>1, <4>2, <4>3, <4>4
    <3>4. snd'.proceedHandlers = 0 /\ snd'.pc = "received_init_stream"
          /\ snd'.reply = m.reply /\ snd'.winSize = m.size /\ snd'.win = snd.win
          /\ snd'.total = snd.total /\ snd'.sid = snd.sid /\ snd'.state = snd.state
      BY <2>4, <2>5, <2>6
    <3>5. rcv.closed => ~Linked
      BY <2>4, <3>1 DEF Window
    <3>6. \A i \in Closes : toRcv[i].sid # snd.sid
      BY <2>4, <3>1 DEF Window
    <3>7. Linked => rcv.total + InFlight = snd.total /\ (~rcv.closed => InFlight + snd.win <= rcv.win)
      BY <3>1 DEF Window
    <3>8. UNCHANGED <<rcv, data, toRcv>> /\ snd'.proceedHandlers # 1
      BY <1>1, <3>4
    <3> HIDE DEF m
    <3>9. \A i \in Closes' : toRcv'[i].sid # snd'.sid
      BY <2>7, <3>4, <3>6, <3>8
    <3>10. ASSUME Linked'
           PROVE  /\ rcv'.total + InFlight' = snd'.total
                  /\ ~rcv'.closed => InFlight' + snd'.win <= rcv'.win
                  /\ ~rcv'.closed
                  /\ snd'.pc = "received_init_stream" /\ snd'.reply = "accept" =>
                        /\ snd'.win = 0 /\ data' = << >> /\ rcv'.win = rcv'.winSize
                        /\ snd'.winSize = rcv'.winSize
                        /\ \A i \in Grants' : toSnd'[i].sid # snd'.sid
      <4>1. Linked
        BY <3>1, <3>10
      <4>2. m.reply = "accept" => \A i \in Grants' : toSnd'[i].sid # snd.sid
        BY <3>3, <4>1
      <4> QED BY <2>7, <3>2, <3>4, <3>5, <3>7, <3>8, <4>1, <4>2
    <3>11. ASSUME Linked', NEW i \in Grants', toSnd'[i].sid = snd'.sid
           PROVE  /\ snd'.win = 0 /\ data' = << >> /\ rcv'.win = rcv'.winSize
                  /\ toSnd'[i].kind = "REPLY" =>
                        toSnd'[i].size = rcv'.winSize /\ snd'.proceedHandlers = 0
                  /\ \A j \in Grants' : toSnd'[j].sid = snd'.sid => i = j
      <4>1. Linked /\ toSnd'[i].sid = snd.sid
        BY <3>1, <3>4, <3>11
      <4> QED BY <3>3, <3>4, <3>8, <4>1
    <3> QED BY <3>8, <3>9, <3>10, <3>11 DEF Window
  <2> QED BY <2>11, <2>12, <2>13, <2>14, <2>15, <2>16, <2>17, <2>18, <2>19
<1> QED BY <1>4, <1>5

\* The sender's flow has its answer, or none: it opens the window it was given.
LEMMA ReceivedInitKeeps ==
    ASSUME Core, ReceivedInitStream
    PROVE  Core'
<1> DEFINE s == [snd EXCEPT !.timer = "idle", !.replyHandler = FALSE]
           e == [s EXCEPT !.state = "STATE_ERROR"]
           r == [s EXCEPT !.win = s.winSize, !.state = "RUNNING",
                          !.proceedHandlers = s.proceedHandlers + 1]
<1> USE DEF Core
<1>1. /\ snd.pc = "received_init_stream"
      /\ snd' = IF s.reply # "accept" \/ s.winSize = 0 THEN ReturnError(s) ELSE Entry(r)
      /\ UNCHANGED <<read, inUse, nextId, sizes, rcv, toRcv, toSnd, data>>
  BY DEF ReceivedInitStream, server, wire
<1>2. /\ snd \in Sender /\ read \in Reading /\ K \in Nat
      /\ read.state \in {"none", "wait_for_started", "try_read", "wait_for_close", "again"}
  BY SenderFacts
<1>3. read.state = "wait_for_started" /\ SenderStart(snd, read, sizes[K]) /\ K > 0
  BY <1>1, <1>2 DEF SenderInv, SenderRests, SenderGoes
<1>4. /\ snd.state = "INITIATING" /\ snd.proceedHandlers = 0 /\ snd.queue = << >>
      /\ ~snd.requestInit /\ ~snd.requestClose /\ snd.msg = EmptyChunk /\ snd.total = 0
      /\ read.ofs = 0 /\ read.len = sizes[K]
  BY <1>1, <1>3 DEF SenderStart
<1>5. /\ s \in Sender /\ s.reply = snd.reply /\ s.winSize = snd.winSize /\ s.sid = snd.sid
      /\ s.total = snd.total /\ s.win = snd.win /\ s.pc = snd.pc /\ s.state = snd.state
      /\ s.queue = snd.queue /\ s.msg = snd.msg /\ ~s.replyHandler
      /\ s.proceedHandlers = snd.proceedHandlers /\ s.requestInit = snd.requestInit
      /\ s.requestClose = snd.requestClose
  BY <1>2 DEF Sender
<1> HIDE DEF s
<1>6. CASE s.reply # "accept" \/ s.winSize = 0
  <2>1. /\ e \in Sender /\ SameBut(s, e) /\ e.state = "STATE_ERROR" /\ e.queue = s.queue
    BY <1>5 DEF Sender, SameBut
  <2>2. snd' = Release(e)
    BY <1>1, <1>6 DEF ReturnError
  <2> HIDE DEF e
  <2>3. /\ snd' \in Sender /\ snd'.pc = "idle" /\ snd'.msg = EmptyChunk
        /\ snd'.queue = e.queue /\ snd'.state = e.state /\ SameBut(e, snd')
    BY <2>1, <2>2, ReleaseIs DEF SameBut
  <2>4. SenderStart(snd', read, sizes[K])
    BY <1>4, <1>5, <2>1, <2>3 DEF SenderStart, SameBut
  <2>5. SenderInv'
    BY <1>1, <1>3, <1>5, <2>1, <2>3, <2>4 DEF SenderInv, K, SameBut
  <2>6. snd.proceedHandlers <= snd.proceedHandlers
    BY <1>4
  <2> QED BY <1>1, <1>2, <1>4, <1>5, <2>1, <2>3, <2>5, <2>6, SenderOnly DEF SameBut
<1>7. CASE ~(s.reply # "accept" \/ s.winSize = 0)
  <2>1. /\ r \in Sender /\ r.win = snd.winSize /\ r.state = "RUNNING" /\ r.proceedHandlers = 1
        /\ r.reply = "accept" /\ r.winSize = snd.winSize /\ r.sid = snd.sid
        /\ r.total = 0 /\ r.queue = << >> /\ r.msg = EmptyChunk /\ ~r.replyHandler
        /\ ~r.requestInit /\ ~r.requestClose
    <3>1. s.proceedHandlers + 1 = 1
      BY <1>4, <1>5
    <3>2. r = [s EXCEPT !.win = s.winSize, !.state = "RUNNING", !.proceedHandlers = 1]
      BY <3>1
    <3>3. 1 \in 0..1 /\ s.winSize \in Nat
      BY <1>5 DEF Sender
    <3> HIDE DEF r
    <3>4. r \in Sender
      BY <1>5, <3>2, <3>3 DEF Sender
    <3> QED BY <1>4, <1>5, <1>7, <3>2, <3>4 DEF Sender
  <2> HIDE DEF r
  <2>2. r.win > 0 /\ snd.winSize \in Nat
    BY <1>2, <1>5, <1>7, <2>1 DEF Sender
  <2>3. snd' = Release(r)
    BY <1>1, <1>7, <2>1, <2>2, EmptyIs DEF Entry
  <2>4. /\ snd' \in Sender /\ snd'.pc = "idle" /\ snd'.msg = EmptyChunk
        /\ snd'.queue = r.queue /\ snd'.state = r.state /\ SameBut(r, snd')
    BY <2>1, <2>3, ReleaseIs DEF SameBut
  <2>5. /\ snd'.win = snd.winSize /\ snd'.winSize = snd.winSize /\ snd'.win > 0
        /\ snd'.sid = snd.sid /\ snd'.total = snd.total /\ snd'.reply = "accept"
        /\ snd'.state = "RUNNING" /\ snd'.proceedHandlers = 1
    BY <1>4, <2>1, <2>2, <2>4 DEF SameBut
  <2>6. ~NotGranted
    BY <1>5, <1>7 DEF NotGranted
  <2>7. /\ snd.sid # INVALID_STREAM_ID /\ Inits = {} /\ ~Opening
        /\ rcv.srcId \in {snd.sid, INVALID_STREAM_ID}
        /\ rcv.completeHandler => Linked
    BY <2>6, AfterGrant
  <2>8. /\ Inits' = Inits /\ Closes' = Closes /\ Grants' = Grants /\ K' = K
        /\ InFlight' = InFlight
    BY <1>1 DEF Inits, Closes, Grants, Gives, K, InFlight
  <2>9. Types'
    BY <1>1, <2>4 DEF Types
  <2>10. Ids'
    BY <1>1, <2>5, <2>8 DEF Ids
  <2>11. Messages'
    BY <1>1, <2>5, <2>8 DEF Messages
  <2>12. Granted'
    BY <1>1, <2>5, <2>7, <2>8 DEF Granted, Early, Opening
  <2>13. Frames'
    <3>1. Frames /\ data' = data /\ K' = K /\ snd'.total = snd.total
      BY <1>1, <2>5, <2>8
    <3>2. data' # << >> /\ ~NotGranted' => data'[Len(data')].s = K'
      BY <2>6, <3>1 DEF Frames
    <3> QED BY <3>1, <3>2 DEF Frames
  <2>14. SenderInv'
    <3>1. SenderStart(snd', read, sizes[K])
      BY <1>4, <2>1, <2>4 DEF SenderStart, SameBut
    <3> QED BY <1>1, <1>3, <2>1, <2>4, <2>8, <3>1 DEF SenderInv, SameBut
  <2>15. Control' /\ Flow'
    BY <1>1, <2>8 DEF Control, Opening, Flow
  <2>16. Buffer' /\ Sink'
    BY <1>1, ReceiverStays
  <2>17. Window'
    <3>1. Window /\ (Linked' <=> Linked) /\ UNCHANGED <<rcv, data, toRcv, toSnd>>
      BY <1>1, <2>5 DEF Linked
    <3>2. Linked =>
            /\ snd.win = 0 /\ data = << >> /\ rcv.win = rcv.winSize /\ snd.winSize = rcv.winSize
            /\ \A i \in Grants : toSnd[i].sid # snd.sid
      BY <1>1, <1>5, <1>7, <3>1 DEF Window
    <3>3. Linked => ~rcv.closed /\ rcv.total + InFlight = snd.total
      BY <1>1, <3>1 DEF Window
    <3>4. \A i \in Closes : toRcv[i].sid # snd.sid
      BY <1>1, <3>1 DEF Window
    <3>5. rcv'.completeHandler => snd'.winSize = rcv'.winSize
      BY <2>5, <2>7, <3>1, <3>2
    <3>6. \A i \in Closes' : toRcv'[i].sid # snd'.sid
      BY <2>5, <2>8, <3>1, <3>4
    <3>7. ASSUME Linked'
          PROVE  /\ rcv'.total + InFlight' = snd'.total
                 /\ InFlight' + snd'.win <= rcv'.win /\ ~rcv'.closed
                 /\ \A i \in Grants' : toSnd'[i].sid # snd'.sid
      <4>1. Linked
        BY <3>1, <3>7
      <4>2. InFlight = 0
        BY <3>2, <4>1 DEF InFlight
      <4>3. 0 + snd.winSize <= snd.winSize
        BY <2>2
      <4> QED BY <2>5, <2>8, <3>1, <3>2, <3>3, <4>1, <4>2, <4>3
    <3>8. snd'.pc # "received_init_stream"
      BY <2>4
    <3> QED BY <3>5, <3>6, <3>7, <3>8 DEF Window
  <2> QED BY <2>9, <2>10, <2>11, <2>12, <2>13, <2>14, <2>15, <2>16, <2>17
<1> QED BY <1>6, <1>7

\* A proceed message opens the window again.
LEMMA ProceedKeeps ==
    ASSUME Core, StreamProceedReceived
    PROVE  Core'
<1> DEFINE m == Head(toSnd)
           s == [snd EXCEPT !.win = snd.win + snd.proceedHandlers * snd.winSize]
           r == [s EXCEPT !.sleeping = FALSE]
<1> USE DEF Core
<1>1. /\ toSnd # << >> /\ m.kind = "PROCEED" /\ toSnd' = Tail(toSnd)
      /\ snd' = IF snd.proceedHandlers = 0 \/ m.sid # snd.sid THEN snd
                ELSE IF snd.sleeping THEN Trigger(r) ELSE s
      /\ UNCHANGED <<read, inUse, nextId, sizes, rcv, toRcv, data>>
  BY DEF StreamProceedReceived, server
<1>2. /\ toSnd' \in Seq(Reply \cup Proceed)
      /\ m = toSnd[1] /\ 1 \in 1..Len(toSnd)
      /\ \A i \in Grants' : i \in Nat /\ i > 0 /\ i + 1 \in Grants /\ toSnd'[i] = toSnd[i + 1]
  BY <1>1, SndTail
<1>3. CASE snd.proceedHandlers = 0 \/ m.sid # snd.sid
  <2>1. snd' = snd
    BY <1>1, <1>3
  <2> QED BY <1>1, <2>1, LessToSnd
<1>4. CASE ~(snd.proceedHandlers = 0 \/ m.sid # snd.sid)
  <2>1. /\ snd \in Sender /\ read \in Reading /\ K \in Nat
        /\ read.state \in {"none", "wait_for_started", "try_read", "wait_for_close", "again"}
    BY SenderFacts
  <2>2. 1 \in Grants /\ toSnd[1].sid = snd.sid
    BY <1>1, <1>2, <1>4 DEF Grants, Gives
  <2>3. ~NotGranted
    BY <2>2 DEF NotGranted
  <2>4. /\ snd.sid # INVALID_STREAM_ID /\ Inits = {} /\ ~Opening
        /\ rcv.srcId \in {snd.sid, INVALID_STREAM_ID} /\ ~Early
        /\ rcv.completeHandler => Linked
    BY <2>3, AfterGrant
  <2>5. snd.proceedHandlers = 1 /\ snd.win \in Nat /\ snd.winSize \in Nat
    BY <1>4, <2>1 DEF Sender
  <2>6. snd.win + snd.proceedHandlers * snd.winSize = snd.win + snd.winSize
    BY <2>5
  <2>7. /\ s \in Sender /\ s.win = snd.win + snd.winSize /\ s.winSize = snd.winSize
        /\ s.sid = snd.sid /\ s.reply = snd.reply
        /\ s.total = snd.total /\ s.pc = snd.pc /\ s.state = snd.state
        /\ s.queue = snd.queue /\ s.msg = snd.msg /\ s.replyHandler = snd.replyHandler
        /\ s.proceedHandlers = snd.proceedHandlers /\ s.requestInit = snd.requestInit
        /\ s.requestClose = snd.requestClose
    <3> DEFINE w == snd.win + snd.winSize
    <3>1. w \in Nat /\ s = [snd EXCEPT !.win = w]
      BY <2>5, <2>6
    <3> HIDE DEF s, w
    <3>2. /\ s \in Sender /\ s.win = w /\ s.winSize = snd.winSize
          /\ s.sid = snd.sid /\ s.reply = snd.reply
          /\ s.total = snd.total /\ s.pc = snd.pc /\ s.state = snd.state
          /\ s.queue = snd.queue /\ s.msg = snd.msg /\ s.replyHandler = snd.replyHandler
          /\ s.proceedHandlers = snd.proceedHandlers /\ s.requestInit = snd.requestInit
          /\ s.requestClose = snd.requestClose
      BY <2>1, <3>1 DEF Sender
    <3> QED BY <3>2 DEF w
  <2> HIDE DEF s
  <2>8. /\ snd' \in Sender /\ snd'.win = snd.win + snd.winSize /\ snd'.winSize = snd.winSize
        /\ snd'.sid = snd.sid /\ snd'.reply = snd.reply
        /\ snd'.total = snd.total /\ snd'.pc = snd.pc /\ snd'.state = snd.state
        /\ snd'.queue = snd.queue /\ snd'.msg = snd.msg /\ snd'.replyHandler = snd.replyHandler
        /\ snd'.proceedHandlers = snd.proceedHandlers /\ snd'.requestInit = snd.requestInit
        /\ snd'.requestClose = snd.requestClose
    <3>1. \/ snd' = s \/ snd' = r \/ snd' = [r EXCEPT !.timer = "expired"]
          \/ snd' = [r EXCEPT !.bad = "trigger"]
      BY <1>1, <1>4 DEF Trigger
    <3>2. r \in Sender /\ SameButSleep(s, r)
      BY <2>7 DEF Sender, SameButSleep
    <3>3. \A x \in Sender : /\ [x EXCEPT !.timer = "expired"] \in Sender
                            /\ SameButSleep(x, [x EXCEPT !.timer = "expired"])
                            /\ [x EXCEPT !.bad = "trigger"] \in Sender
                            /\ SameButSleep(x, [x EXCEPT !.bad = "trigger"])
      BY DEF Sender, SameButSleep
    <3>4. /\ snd' \in Sender /\ snd'.win = s.win /\ snd'.winSize = s.winSize
          /\ snd'.sid = s.sid /\ snd'.reply = s.reply
          /\ snd'.total = s.total /\ snd'.pc = s.pc /\ snd'.state = s.state
          /\ snd'.queue = s.queue /\ snd'.msg = s.msg /\ snd'.replyHandler = s.replyHandler
          /\ snd'.proceedHandlers = s.proceedHandlers /\ snd'.requestInit = s.requestInit
          /\ snd'.requestClose = s.requestClose
      <4> HIDE DEF r
      <4>1. CASE snd' = s
        BY <2>7, <4>1
      <4>2. CASE snd' = r
        BY <3>2, <4>2 DEF SameButSleep
      <4>3. CASE snd' = [r EXCEPT !.timer = "expired"]
        BY <3>2, <3>3, <4>3 DEF SameButSleep
      <4>4. CASE snd' = [r EXCEPT !.bad = "trigger"]
        BY <3>2, <3>3, <4>4 DEF SameButSleep
      <4> QED BY <3>1, <4>1, <4>2, <4>3, <4>4
    <3> QED BY <2>7, <3>4
  <2>9. Inits' = Inits /\ Closes' = Closes /\ InFlight' = InFlight /\ K' = K
    BY <1>1 DEF Inits, Closes, InFlight, K
  <2>10. Types'
    BY <1>1, <1>2, <2>8 DEF Types
  <2>11. Ids'
    BY <1>1, <2>8, <2>9 DEF Ids
  <2>12. Messages'
    <3>1. Messages
      OBVIOUS
    <3>2. \A i \in Grants' : toSnd'[i].sid # INVALID_STREAM_ID /\ toSnd'[i].sid < K
      BY <1>2, <3>1 DEF Messages
    <3>3. UNCHANGED <<toRcv, sizes, rcv>>
      BY <1>1
    <3> QED BY <2>8, <2>9, <3>1, <3>2, <3>3, MessagesKeep
  <2>13. Granted'
    BY <1>1, <2>4, <2>8, <2>9 DEF Granted, Early, Opening
  <2>14. Frames'
    <3>1. Frames /\ data' = data /\ K' = K /\ snd'.total = snd.total
      BY <1>1, <2>8, <2>9
    <3>2. data' # << >> /\ ~NotGranted' => data'[Len(data')].s = K'
      BY <2>3, <3>1 DEF Frames
    <3> QED BY <3>1, <3>2 DEF Frames
  <2>15. SenderInv'
    <3>1. snd.win > 0 => snd'.win > 0
      BY <2>5, <2>8
    <3>2. SenderRests(snd) => SenderRests(snd')
      BY <2>8 DEF SenderRests
    <3>3. SenderStart(snd, read, sizes[K]) => SenderStart(snd', read, sizes[K])
      BY <2>8 DEF SenderStart
    <3>4. Tiles(snd, read, sizes[K]) => Tiles(snd', read, sizes[K])
      BY <2>8 DEF Tiles, From
    <3>5. SenderGoes(snd, read, sizes[K]) => SenderGoes(snd', read, sizes[K])
      BY <2>8, <3>1, <3>4 DEF SenderGoes
    <3> QED BY <1>1, <2>8, <2>9, <3>2, <3>3, <3>5 DEF SenderInv
  <2>16. Control' /\ Flow'
    BY <1>1, <2>9 DEF Control, Opening, Flow
  <2>17. Buffer' /\ Sink'
    BY <1>1, ReceiverStays
  <2>18. Window'
    <3>1. Window /\ (Linked' <=> Linked) /\ UNCHANGED <<rcv, data, toRcv>>
      BY <1>1, <2>8 DEF Linked
    <3>2. snd.pc # "received_init_stream"
      BY <2>1, <2>5 DEF SenderInv, SenderRests, SenderStart, SenderGoes
    <3>3. Linked =>
            /\ snd.win = 0 /\ data = << >> /\ rcv.win = rcv.winSize
            /\ \A j \in Grants : toSnd[j].sid = snd.sid => 1 = j
      BY <2>2, <3>1 DEF Window
    <3>4. Linked => \A i \in Grants' : toSnd'[i].sid # snd.sid
      <4> SUFFICES ASSUME Linked, NEW i \in Grants', toSnd'[i].sid = snd.sid PROVE FALSE
        OBVIOUS
      <4>1. i + 1 \in Grants /\ toSnd[i + 1].sid = snd.sid /\ i + 1 # 1
        BY <1>2
      <4> QED BY <3>3, <4>1
    <3>5. Linked => ~rcv.closed /\ rcv.total + InFlight = snd.total
      <4>1. Linked /\ rcv.closed => snd.win > 0
        BY <3>1 DEF Window
      <4> QED BY <2>5, <3>1, <3>3, <4>1 DEF Window
    <3>6. Linked => snd.winSize = rcv.winSize
      <4> SUFFICES ASSUME Linked PROVE snd.winSize = rcv.winSize
        OBVIOUS
      <4>1. rcv.completeHandler
        BY <3>5 DEF Linked, Control
      <4> QED BY <2>4, <2>5, <3>1, <4>1 DEF Window, Linked
    <3>7. ASSUME Linked'
          PROVE  /\ rcv'.total + InFlight' = snd'.total
                 /\ InFlight' + snd'.win <= rcv'.win /\ ~rcv'.closed
                 /\ \A i \in Grants' : toSnd'[i].sid # snd'.sid
      <4>1. Linked
        BY <3>1, <3>7
      <4>2. InFlight = 0 /\ snd.win = 0
        BY <3>3, <4>1 DEF InFlight
      <4>3. 0 + (0 + snd.winSize) <= snd.winSize
        BY <2>5
      <4> QED BY <2>8, <2>9, <3>1, <3>3, <3>4, <3>5, <3>6, <4>1, <4>2, <4>3
    <3>8. snd'.win > 0 \/ snd.win = 0
      BY <2>5, <2>8
    <3>9. \A i \in Closes' : toRcv'[i].sid = snd'.sid =>
             snd'.win > 0 /\ snd'.pc = "idle" /\ snd'.state \in {"CLOSING", "IDLE"}
      <4>1. \A i \in Closes : toRcv[i].sid = snd.sid =>
               snd.win > 0 /\ snd.pc = "idle" /\ snd.state \in {"CLOSING", "IDLE"}
        BY <3>1 DEF Window
      <4>2. snd.win > 0 => snd'.win > 0
        BY <2>5, <2>8
      <4> QED BY <2>8, <2>9, <3>1, <4>1, <4>2
    <3>10. rcv'.srcId = snd'.sid /\ rcv'.srcId # INVALID_STREAM_ID /\ rcv'.completeHandler
              /\ snd'.proceedHandlers = 1 => snd'.winSize = rcv'.winSize
      BY <2>8, <3>1 DEF Window
    <3> QED BY <2>8, <3>2, <3>7, <3>9, <3>10 DEF Window
  <2> QED BY <2>10, <2>11, <2>12, <2>13, <2>14, <2>15, <2>16, <2>17, <2>18
<1> QED BY <1>3, <1>4

\* The bytes under way.
LEMMA FlightIs ==
    ASSUME Core
    PROVE  /\ Len(data) \in Nat /\ (data # << >> <=> Len(data) > 0)
           /\ \A i \in 1..Len(data) : data[i] \in DataFrame /\ data[i].s \in Nat
                                      /\ data[i].lo \in Nat /\ data[i].hi \in Nat
           /\ data = << >> => InFlight = 0
           /\ data # << >> => InFlight = data[Len(data)].hi - data[1].lo /\ InFlight > 0
           /\ InFlight \in Nat
<1>1. data \in Seq(DataFrame) /\ Frames
  BY DEF Core, Types
<1>2. Len(data) \in Nat /\ (data # << >> <=> Len(data) > 0)
  BY <1>1, LenProperties, EmptySeq
<1>3. \A i \in 1..Len(data) : data[i] \in DataFrame
  BY <1>1, ElementOfSeq
<1>4. \A i \in 1..Len(data) : data[i].s \in Nat /\ data[i].lo \in Nat /\ data[i].hi \in Nat
  BY <1>3 DEF DataFrame
<1>5. data = << >> => InFlight = 0
  BY DEF InFlight
<1>6. ASSUME data # << >>
      PROVE  InFlight = data[Len(data)].hi - data[1].lo /\ InFlight > 0 /\ InFlight \in Nat
  <2>1. 1 \in 1..Len(data) /\ Len(data) \in 1..Len(data) /\ 1 <= Len(data)
    BY <1>2, <1>6
  <2>2. data[1].lo < data[Len(data)].hi
    BY <1>1, <2>1 DEF Frames
  <2>3. InFlight = data[Len(data)].hi - data[1].lo
    BY <1>6 DEF InFlight
  <2> QED BY <1>4, <2>1, <2>2, <2>3
<1> QED BY <1>2, <1>3, <1>4, <1>5, <1>6

\* GotFrame keeps the invariant: the frame continues what is under way and fits
\* into the window.
LEMMA GotFrameKeeps ==
    ASSUME Core, GotFrame
    PROVE  Core'
<1> DEFINE n == NextCanLength(snd)
           f == [s |-> Len(sizes), lo |-> snd.msg.lo, hi |-> snd.msg.lo + n]
           c == [snd.msg EXCEPT !.lo = snd.msg.lo + n]
           s == [snd EXCEPT !.msg = c, !.total = snd.total + n,
                            !.win = IF snd.win < n THEN 0 ELSE snd.win - n]
<1> USE DEF Core
<1>1. /\ snd.pc = "got_frame" /\ data' = Append(data, f)
      /\ snd' = Entry([snd EXCEPT !.msg.lo = @ + n, !.total = @ + n,
                                  !.win = IF @ < n THEN 0 ELSE @ - n])
      /\ UNCHANGED <<read, inUse, nextId, sizes, rcv, toRcv, toSnd>>
  BY DEF GotFrame, server
<1>2. /\ snd \in Sender /\ read \in Reading /\ K \in Nat /\ (K > 0 => sizes[K] \in Nat)
      /\ read.state \in {"none", "wait_for_started", "try_read", "wait_for_close", "again"}
  BY SenderFacts
<1>3. /\ read.state \in {"try_read", "wait_for_close", "again"}
      /\ SenderGoes(snd, read, sizes[K]) /\ K > 0
  <2>1. read.state \in {"try_read", "wait_for_close", "again"}
    BY <1>1, <1>2 DEF SenderInv, SenderRests, SenderStart
  <2> QED BY <2>1 DEF SenderInv
<1>4. /\ snd.state = "RUNNING" /\ Tiles(snd, read, sizes[K]) /\ snd.proceedHandlers = 1
      /\ snd.requestClose <=> read.state = "wait_for_close"
      /\ read.state = "wait_for_close" => read.len = 0
      /\ snd.msg.lo < snd.msg.hi /\ snd.win > 0 /\ ~snd.requestInit /\ snd.reply = "accept"
      /\ ~snd.replyHandler
  BY <1>1, <1>3 DEF SenderGoes, SenderInv
<1>5. /\ snd.msg \in Piece /\ snd.msg.lo \in Nat /\ snd.msg.hi \in Nat /\ snd.win \in Nat
      /\ snd.total \in Nat
  BY <1>2 DEF Sender, Piece
<1>6. snd.msg.raw /\ snd.msg.lo = snd.total
  BY <1>4, <1>5 DEF Tiles
<1>7. /\ n \in Nat /\ n > 0 /\ n <= snd.msg.hi - snd.msg.lo /\ n <= FrameSize /\ n <= snd.win
  <2> DEFINE x == snd.msg.hi - snd.msg.lo
             y == Smaller(x, FrameSize)
  <2>1. x \in Int /\ x > 0 /\ FrameSize \in Int /\ FrameSize > 0 /\ snd.win \in Int
    BY <1>4, <1>5, StreamAssumption
  <2>2. n = Smaller(y, snd.win)
    BY DEF NextCanLength
  <2> HIDE DEF x
  <2>3. y \in Int /\ y <= x /\ y <= FrameSize /\ (y = x \/ y = FrameSize)
    BY <2>1, SmallerIs
  <2> HIDE DEF y, n
  <2>4. n \in Int /\ n <= y /\ n <= snd.win /\ (n = y \/ n = snd.win)
    BY <2>1, <2>2, <2>3, SmallerIs
  <2>5. n \in Nat /\ n > 0 /\ n <= x /\ n <= FrameSize /\ n <= snd.win
    BY <1>4, <2>1, <2>3, <2>4
  <2> QED BY <2>5 DEF x
<1> HIDE DEF n
<1>8. /\ c \in Piece /\ c.lo = snd.msg.lo + n /\ c.hi = snd.msg.hi /\ c.raw
      /\ c.lo <= c.hi /\ snd.total + n \in Nat
      /\ (IF snd.win < n THEN 0 ELSE snd.win - n) = snd.win - n /\ snd.win - n \in Nat
  BY <1>5, <1>6, <1>7 DEF Piece
<1>9. snd' = Entry(s)
  BY <1>1, <1>2 DEF Sender
<1>10. /\ s \in Sender /\ s.msg = c /\ s.total = snd.total + n /\ s.win = snd.win - n
       /\ s.sid = snd.sid /\ s.winSize = snd.winSize /\ s.reply = snd.reply
       /\ s.queue = snd.queue /\ s.state = snd.state /\ s.requestInit = snd.requestInit
       /\ s.requestClose = snd.requestClose /\ s.replyHandler = snd.replyHandler
       /\ s.proceedHandlers = snd.proceedHandlers
  <2> DEFINE w == snd.win - n
  <2>1. s = [snd EXCEPT !.msg = c, !.total = snd.total + n, !.win = w]
    BY <1>8
  <2>2. w \in Nat
    BY <1>8
  <2> HIDE DEF s, c, w
  <2>3. s \in Sender
    BY <1>2, <1>8, <2>1, <2>2 DEF Sender
  <2>4. s.win = w
    BY <1>2, <2>1 DEF Sender
  <2> QED BY <1>2, <2>1, <2>3, <2>4 DEF Sender, w
<1> HIDE DEF s, c
<1>11. Tiles(s, read, sizes[K])
  <2>1. From(s) = From(snd)
    BY <1>6, <1>8, <1>10 DEF From
  <2>2. /\ s.msg.raw => s.msg.lo = s.total /\ s.msg.lo <= s.msg.hi
        /\ ~s.msg.raw => s.msg.lo = s.msg.hi
    BY <1>6, <1>8, <1>10
  <2> QED BY <1>4, <1>10, <2>1, <2>2 DEF Tiles
<1>12. snd' \in Sender /\ SenderGoes(snd', read, sizes[K]) /\ SameSender(s, snd')
  BY <1>2, <1>3, <1>4, <1>9, <1>10, <1>11, EntryGoes
<1>13. /\ snd'.sid = snd.sid /\ snd'.total = snd.total + n /\ snd'.win = snd.win - n
       /\ snd'.winSize = snd.winSize /\ snd'.reply = "accept" /\ ~snd'.replyHandler
       /\ snd'.state # "STARTED" /\ snd'.pc # "received_init_stream"
  BY <1>4, <1>10, <1>12 DEF SameSender
<1>14. /\ ~NotGranted /\ ~NotGranted'
  BY <1>4, <1>5, <1>7, <1>13 DEF NotGranted
<1>15. /\ snd.sid # INVALID_STREAM_ID /\ Inits = {} /\ ~Opening
       /\ rcv.srcId \in {snd.sid, INVALID_STREAM_ID} /\ ~Early
       /\ rcv.dataHandler => Linked
  BY <1>14, AfterGrant
<1>16. /\ Inits' = Inits /\ Closes' = Closes /\ Grants' = Grants /\ K' = K
  BY <1>1 DEF Inits, Closes, Grants, Gives, K
<1>17. /\ f \in DataFrame /\ f.s = K /\ f.lo = snd.total /\ f.hi = snd.total + n
  BY <1>2, <1>5, <1>6, <1>7 DEF DataFrame, K
<1> HIDE DEF f
<1>18. /\ Len(data) \in Nat /\ (data # << >> <=> Len(data) > 0)
       /\ \A i \in 1..Len(data) : data[i] \in DataFrame /\ data[i].s \in Nat
                                  /\ data[i].lo \in Nat /\ data[i].hi \in Nat
       /\ data = << >> => InFlight = 0
       /\ data # << >> => InFlight = data[Len(data)].hi - data[1].lo
       /\ InFlight \in Nat
  BY FlightIs
<1>19. /\ data' \in Seq(DataFrame) /\ Len(data') = Len(data) + 1
       /\ data'[Len(data) + 1] = f /\ \A i \in 1..Len(data) : data'[i] = data[i]
  BY <1>1, <1>17, AppendIs DEF Types
<1>20. data # << >> => data[Len(data)].s = K /\ data[Len(data)].hi = snd.total
  BY <1>14 DEF Frames
<1>21. \A i \in 1..Len(data') : i \in 1..Len(data) \/ i = Len(data) + 1
  BY <1>18, <1>19
<1>22. data' # << >>
  BY <1>18, <1>19, EmptySeq
<1>23. InFlight' = InFlight + n
  <2>1. InFlight' = data'[Len(data')].hi - data'[1].lo
    BY <1>22 DEF InFlight
  <2>2. CASE data = << >>
    <3>1. Len(data) + 1 = 1
      BY <1>18, <2>2
    <3> QED BY <1>5, <1>7, <1>17, <1>18, <1>19, <2>1, <2>2, <3>1
  <2>3. CASE data # << >>
    <3>1. 1 \in 1..Len(data) /\ Len(data) \in 1..Len(data)
      BY <1>18, <2>3
    <3>2. data'[1] = data[1] /\ data[1].lo \in Nat
      BY <1>18, <1>19, <3>1
    <3> QED BY <1>5, <1>7, <1>17, <1>18, <1>19, <1>20, <2>1, <2>3, <3>2, SMTT(30)
  <2> QED BY <2>2, <2>3
<1>24. Types'
  BY <1>1, <1>12, <1>19 DEF Types
<1>25. Ids'
  BY <1>1, <1>13, <1>16 DEF Ids
<1>26. Messages'
  <2>1. \A i \in Grants' : toSnd'[i].sid # INVALID_STREAM_ID /\ toSnd'[i].sid < K
    BY <1>1, <1>16 DEF Messages
  <2>2. UNCHANGED <<toRcv, sizes>> /\ rcv'.srcId = rcv.srcId
    BY <1>1
  <2> QED BY <1>13, <2>1, <2>2, MessagesKeep
<1>27. Granted'
  BY <1>1, <1>13, <1>15, <1>16 DEF Granted, Early, Opening
<1>28. Frames'
  <2>1. Frames
    OBVIOUS
  <2>2. ASSUME NEW i \in 1..Len(data')
        PROVE  data'[i].s \in 1..K' /\ data'[i].hi - data'[i].lo <= FrameSize
    <3>1. CASE i \in 1..Len(data)
      BY <1>16, <1>19, <2>1, <3>1 DEF Frames
    <3>2. CASE i = Len(data) + 1
      <4>1. K \in 1..K /\ (snd.total + n) - snd.total <= FrameSize
        BY <1>2, <1>3, <1>5, <1>7, StreamAssumption
      <4> QED BY <1>16, <1>17, <1>19, <3>2, <4>1
    <3> QED BY <1>21, <3>1, <3>2
  <2>3. ASSUME NEW i \in 1..Len(data'), NEW j \in 1..Len(data')
        PROVE  data'[i].s = data'[j].s
    <3>1. \A k \in 1..Len(data) : data[k].s = K
      <4>1. \A k \in 1..Len(data) : Len(data) \in 1..Len(data) /\ data # << >>
        BY <1>18
      <4> QED BY <1>20, <2>1, <4>1 DEF Frames
    <3> QED BY <1>17, <1>19, <1>21, <3>1
  <2>4. ASSUME NEW i \in 1..Len(data'), NEW j \in 1..Len(data'), i <= j
        PROVE  data'[i].lo < data'[j].hi
    <3>1. CASE j \in 1..Len(data)
      <4>1. i \in 1..Len(data)
        BY <1>18, <1>19, <2>4, <3>1
      <4> QED BY <1>19, <2>1, <2>4, <3>1, <4>1 DEF Frames
    <3>2. CASE j = Len(data) + 1 /\ i \in 1..Len(data)
      <4>1. Len(data) \in 1..Len(data) /\ data # << >> /\ i <= Len(data)
        BY <1>18, <3>2
      <4>2. data[i].lo < data[Len(data)].hi
        BY <2>1, <3>2, <4>1 DEF Frames
      <4>3. data[i].lo < snd.total /\ data[i].lo \in Nat
        BY <1>18, <1>20, <3>2, <4>1, <4>2
      <4>4. data'[j] = f /\ data'[i] = data[i]
        BY <1>19, <3>2
      <4> QED BY <1>5, <1>7, <1>17, <4>3, <4>4
    <3>3. CASE j = Len(data) + 1 /\ i = Len(data) + 1
      BY <1>5, <1>7, <1>17, <1>19, <3>3
    <3> QED BY <1>21, <3>1, <3>2, <3>3
  <2>5. ASSUME NEW i \in 1..Len(data') - 1
        PROVE  data'[i + 1].lo = data'[i].hi
    <3>1. CASE i = Len(data)
      <4>1. i \in 1..Len(data) /\ data # << >>
        BY <1>18, <1>19, <3>1
      <4>2. data'[i + 1] = f /\ data'[i] = data[i] /\ data[i].hi = snd.total
        BY <1>19, <1>20, <3>1, <4>1
      <4> QED BY <1>17, <4>2
    <3>2. CASE i # Len(data)
      <4>1. i \in 1..Len(data) /\ i + 1 \in 1..Len(data) /\ i \in 1..Len(data) - 1
        BY <1>18, <1>19, <3>2
      <4> QED BY <1>19, <2>1, <4>1 DEF Frames
    <3> QED BY <3>1, <3>2
  <2>6. data'[Len(data')].hi = snd'.total /\ data'[Len(data')].s = K'
    BY <1>13, <1>16, <1>17, <1>19
  <2> QED BY <2>2, <2>3, <2>4, <2>5, <2>6 DEF Frames
<1>29. SenderInv'
  BY <1>1, <1>3, <1>12, <1>13, <1>16 DEF SenderInv
<1>30. Control'
  BY <1>1, <1>15, <1>16 DEF Control, Opening
<1>31. Buffer' /\ Sink'
  BY <1>1, ReceiverStays
<1>32. Window /\ (Linked' <=> Linked)
  BY <1>1, <1>13 DEF Linked
<1>33. ASSUME Linked
       PROVE  /\ ~rcv.closed /\ rcv.total + InFlight = snd.total
              /\ InFlight + snd.win <= rcv.win
              /\ rcv.srcId + 1 = K
              /\ \A i \in Grants : toSnd[i].sid # snd.sid
  <2>1. ~rcv.closed
    BY <1>1, <1>32, <1>33 DEF Window
  <2>2. snd.win # 0
    BY <1>4, <1>5
  <2>3. rcv.srcId = snd.sid /\ snd.sid = K - 1
    BY <1>15, <1>33, SidIs DEF Linked
  <2> QED BY <1>2, <1>32, <1>33, <2>1, <2>2, <2>3 DEF Window
<1>34. \A i \in Closes : toRcv[i].sid # snd.sid
  BY <1>1, <1>32 DEF Window
<1>35. rcv.win \in Nat /\ rcv.total \in Nat
  BY DEF Types, Receiver
<1>36. Flow'
  <2> SUFFICES ASSUME rcv.dataHandler
               PROVE  /\ data' # << >> => data'[1].s = rcv.srcId + 1 /\ data'[1].lo = rcv.total
                      /\ InFlight' <= rcv.win
                      /\ ~rcv.closed
                      /\ \A i \in Closes' : toRcv'[i].sid # rcv.srcId
    BY <1>1 DEF Flow
  <2>1. Linked /\ rcv.srcId = snd.sid
    BY <1>15 DEF Linked
  <2>2. data'[1].s = rcv.srcId + 1 /\ data'[1].lo = rcv.total
    <3>1. CASE data = << >>
      <4>1. Len(data) + 1 = 1 /\ InFlight = 0
        BY <1>18, <3>1
      <4>2. data'[1] = f
        BY <1>19, <4>1
      <4>3. rcv.total = snd.total
        BY <1>5, <1>33, <1>35, <2>1, <4>1
      <4> QED BY <1>17, <1>33, <2>1, <4>2, <4>3
    <3>2. CASE data # << >>
      <4>1. 1 \in 1..Len(data)
        BY <1>18, <3>2
      <4> QED BY <1>19, <3>2, <4>1 DEF Flow
    <3> QED BY <3>1, <3>2
  <2>3. InFlight' <= rcv.win
    BY <1>5, <1>7, <1>18, <1>23, <1>33, <1>35, <2>1
  <2>4. \A i \in Closes' : toRcv'[i].sid # rcv.srcId
    BY <1>1, <1>16, <1>34, <2>1
  <2> QED BY <1>33, <2>1, <2>2, <2>3, <2>4
<1>37. Window'
  <2>1. rcv'.srcId = snd'.sid /\ rcv'.srcId # INVALID_STREAM_ID /\ rcv'.completeHandler
           /\ snd'.proceedHandlers = 1 => snd'.winSize = rcv'.winSize
    BY <1>1, <1>4, <1>13, <1>32 DEF Window
  <2>2. \A i \in Closes' : toRcv'[i].sid # snd'.sid
    BY <1>1, <1>13, <1>16, <1>34
  <2>3. ASSUME Linked'
        PROVE  /\ rcv'.total + InFlight' = snd'.total
               /\ InFlight' + snd'.win <= rcv'.win /\ ~rcv'.closed
               /\ \A i \in Grants' : toSnd'[i].sid # snd'.sid
    <3>1. Linked
      BY <1>32, <2>3
    <3>2. rcv.total + (InFlight + n) = snd.total + n
      BY <1>5, <1>7, <1>18, <1>33, <1>35, <3>1
    <3>3. (InFlight + n) + (snd.win - n) <= rcv.win
      BY <1>5, <1>7, <1>18, <1>33, <1>35, <3>1
    <3> QED BY <1>1, <1>13, <1>16, <1>23, <1>33, <3>1, <3>2, <3>3
  <2> QED BY <1>13, <2>1, <2>2, <2>3 DEF Window
<1> QED BY <1>24, <1>25, <1>26, <1>27, <1>28, <1>29, <1>30, <1>31, <1>36, <1>37

\* SendCloseStream keeps the invariant: all bytes were put under way before, and
\* the receiver still has room for more than them.
LEMMA SendCloseKeeps ==
    ASSUME Core, SendCloseStream
    PROVE  Core'
<1> DEFINE m == [kind |-> "COMPLETE", sid |-> snd.sid, size |-> snd.total]
           s == [snd EXCEPT !.state = "CLOSING"]
<1> USE DEF Core
<1>1. /\ snd.pc = "send_close_stream" /\ toRcv' = Append(toRcv, m) /\ snd' = Entry(s)
      /\ UNCHANGED <<read, inUse, nextId, sizes, rcv, toSnd, data>>
  BY DEF SendCloseStream, server
<1>2. /\ snd \in Sender /\ read \in Reading /\ K \in Nat /\ (K > 0 => sizes[K] \in Nat)
      /\ read.state \in {"none", "wait_for_started", "try_read", "wait_for_close", "again"}
  BY SenderFacts
<1>3. /\ read.state \in {"try_read", "wait_for_close", "again"}
      /\ SenderGoes(snd, read, sizes[K]) /\ K > 0
  <2>1. read.state \in {"try_read", "wait_for_close", "again"}
    BY <1>1, <1>2 DEF SenderInv, SenderRests, SenderStart
  <2> QED BY <2>1 DEF SenderInv
<1>4. /\ snd.state = "RUNNING" /\ snd.queue = << >> /\ snd.total = sizes[K] /\ snd.win > 0
      /\ ~snd.requestClose /\ read.state = "wait_for_close" /\ snd.proceedHandlers = 0
      /\ read.len = 0 /\ ~snd.requestInit /\ snd.reply = "accept" /\ ~snd.replyHandler
  BY <1>1, <1>3 DEF SenderGoes, SenderInv
<1>5. /\ s \in Sender /\ s.state = "CLOSING" /\ s.queue = snd.queue /\ s.sid = snd.sid
      /\ s.total = snd.total /\ s.win = snd.win /\ s.winSize = snd.winSize
      /\ s.reply = snd.reply /\ s.replyHandler = snd.replyHandler
      /\ s.proceedHandlers = snd.proceedHandlers /\ s.requestInit = snd.requestInit
      /\ s.requestClose = snd.requestClose
  BY <1>2 DEF Sender
<1> HIDE DEF s
<1>6. snd' = Release(s)
  BY <1>1, <1>4, <1>5 DEF Entry
<1>7. /\ snd' \in Sender /\ snd'.pc = "idle" /\ snd'.msg = EmptyChunk /\ snd'.queue = << >>
      /\ snd'.state = "CLOSING" /\ snd'.sid = snd.sid /\ snd'.total = snd.total
      /\ snd'.win = snd.win /\ snd'.winSize = snd.winSize /\ snd'.reply = "accept"
      /\ ~snd'.replyHandler /\ snd'.proceedHandlers = 0 /\ ~snd'.requestInit
      /\ ~snd'.requestClose
  BY <1>4, <1>5, <1>6, ReleaseIs
<1>8. snd.win \in Nat /\ snd.total \in Nat /\ snd.sid \in StreamIds
  BY <1>2 DEF Sender
<1>9. ~NotGranted /\ snd'.win > 0
  BY <1>4, <1>7, <1>8 DEF NotGranted
<1>10. /\ snd.sid # INVALID_STREAM_ID /\ Inits = {} /\ ~Opening
       /\ rcv.srcId \in {snd.sid, INVALID_STREAM_ID} /\ ~Early
       /\ rcv.dataHandler => Linked
  BY <1>9, AfterGrant
<1>11. snd.sid = K - 1 /\ snd.sid < K /\ snd.sid + 1 = K
  BY <1>2, <1>10, SidIs
<1>12. m \in ToReceiver /\ m.kind = "COMPLETE" /\ m.sid = snd.sid /\ m.size = snd.total
  BY <1>8 DEF ToReceiver
<1> HIDE DEF m
<1>13. /\ toRcv' \in Seq(ToReceiver) /\ toRcv'[Len(toRcv) + 1] = m
       /\ \A i \in Inits' : i \in Inits
       /\ \A i \in Closes' : \/ i \in Closes /\ toRcv'[i] = toRcv[i]
                             \/ i = Len(toRcv) + 1
  <2>1. Types
    OBVIOUS
  <2>2. /\ toRcv' \in Seq(ToReceiver) /\ toRcv'[Len(toRcv) + 1] = m
        /\ \A i \in Inits' : \/ i \in Inits
                             \/ i = Len(toRcv) + 1 /\ m.kind = "INITIATE"
        /\ \A i \in Closes' : \/ i \in Closes /\ toRcv'[i] = toRcv[i]
                              \/ i = Len(toRcv) + 1 /\ m.kind = "COMPLETE"
    BY <1>1, <1>12, <2>1, RcvAppend
  <2>3. m.kind # "INITIATE"
    BY <1>12
  <2> QED BY <2>2, <2>3
<1>14. Inits' = {}
  BY <1>10, <1>13
<1>15. Grants' = Grants /\ K' = K /\ InFlight' = InFlight
  BY <1>1 DEF Grants, Gives, K, InFlight
<1>16. Window /\ (Linked' <=> Linked)
  BY <1>1, <1>7 DEF Linked
<1>17. \A i \in Closes : toRcv[i].sid # snd.sid
  BY <1>1, <1>16 DEF Window
<1>18. ASSUME Linked
       PROVE  /\ ~rcv.closed /\ rcv.total + InFlight = snd.total
              /\ InFlight + snd.win <= rcv.win
              /\ \A i \in Grants : toSnd[i].sid # snd.sid
  <2>1. ~rcv.closed
    BY <1>1, <1>16, <1>18 DEF Window
  <2>2. snd.win # 0
    BY <1>4, <1>8
  <2> QED BY <1>16, <1>18, <2>1, <2>2 DEF Window
<1>19. Types'
  BY <1>1, <1>7, <1>13 DEF Types
<1>20. Ids'
  BY <1>1, <1>7, <1>15 DEF Ids
<1>21. Messages'
  <2>1. Messages
    OBVIOUS
  <2>2. ASSUME NEW i \in Closes'
        PROVE  /\ toRcv'[i].sid # INVALID_STREAM_ID /\ toRcv'[i].sid < K
               /\ toRcv'[i].size = sizes[toRcv'[i].sid + 1]
    <3>1. CASE i \in Closes /\ toRcv'[i] = toRcv[i]
      BY <2>1, <3>1 DEF Messages
    <3>2. CASE i = Len(toRcv) + 1
      <4>1. toRcv'[i] = m
        BY <1>13, <3>2
      <4> QED BY <1>4, <1>10, <1>11, <1>12, <4>1
    <3> QED BY <1>13, <3>1, <3>2
  <2>3. rcv'.srcId # INVALID_STREAM_ID =>
           rcv'.srcId < K' /\ (snd'.state = "STARTED" => rcv'.srcId # snd'.sid)
    BY <1>1, <1>7, <1>15, <2>1 DEF Messages
  <2>4. \A i \in Grants' : toSnd'[i].sid # INVALID_STREAM_ID /\ toSnd'[i].sid < K'
    BY <1>1, <1>15, <2>1 DEF Messages
  <2>5. \A i \in Closes' : /\ toRcv'[i].sid # INVALID_STREAM_ID /\ toRcv'[i].sid < K'
                           /\ toRcv'[i].size = sizes'[toRcv'[i].sid + 1]
    BY <1>1, <1>15, <2>2
  <2> QED BY <1>14, <2>3, <2>4, <2>5 DEF Messages
<1>22. Granted'
  BY <1>1, <1>7, <1>10, <1>14 DEF Granted, Early, Opening
<1>23. Frames'
  <2>1. Frames /\ data' = data /\ K' = K /\ snd'.total = snd.total
    BY <1>1, <1>7, <1>15
  <2>2. data' # << >> /\ ~NotGranted' => data'[Len(data')].s = K'
    BY <1>9, <2>1 DEF Frames
  <2> QED BY <2>1, <2>2 DEF Frames
<1>24. SenderInv'
  <2>1. SenderGoes(snd', read, sizes[K])
    BY <1>4, <1>7 DEF SenderGoes
  <2> QED BY <1>1, <1>3, <1>4, <1>7, <1>15, <2>1 DEF SenderInv
<1>25. Control'
  BY <1>1, <1>10 DEF Control, Opening
<1>26. Buffer' /\ Sink'
  BY <1>1, ReceiverStays
<1>27. Flow'
  <2> SUFFICES ASSUME rcv.dataHandler, NEW i \in Closes', rcv.completeHandler,
                      toRcv'[i].sid = rcv.srcId
               PROVE  rcv.total + InFlight = toRcv'[i].size /\ InFlight < rcv.win
    BY <1>1, <1>15 DEF Flow
  <2>1. Linked /\ rcv.srcId = snd.sid
    BY <1>10 DEF Linked
  <2>2. i = Len(toRcv) + 1
    BY <1>13, <1>17, <2>1
  <2>3. toRcv'[i].size = snd.total
    BY <1>12, <1>13, <2>2
  <2>4. InFlight \in Nat /\ rcv.win \in Nat
    BY FlightIs DEF Types, Receiver
  <2>5. InFlight < rcv.win
    BY <1>4, <1>8, <1>18, <2>1, <2>4
  <2> QED BY <1>18, <2>1, <2>3, <2>5
<1>28. Window'
  <2>1. ~(rcv'.srcId = snd'.sid /\ snd'.proceedHandlers = 1)
    BY <1>7
  <2>2. \A i \in Closes' : toRcv'[i].sid = snd'.sid =>
             snd'.win > 0 /\ snd'.pc = "idle" /\ snd'.state \in {"CLOSING", "IDLE"}
    BY <1>7, <1>9
  <2>3. ASSUME Linked'
        PROVE  /\ rcv'.total + InFlight' = snd'.total
               /\ InFlight' + snd'.win <= rcv'.win /\ ~rcv'.closed
               /\ \A i \in Grants' : toSnd'[i].sid # snd'.sid
    <3>1. Linked
      BY <1>16, <2>3
    <3> QED BY <1>1, <1>7, <1>15, <1>18, <3>1
  <2>4. snd'.pc # "received_init_stream"
    BY <1>7
  <2> QED BY <2>1, <2>2, <2>3, <2>4 DEF Window
<1> QED BY <1>19, <1>20, <1>21, <1>22, <1>23, <1>24, <1>25, <1>26, <1>27, <1>28

\* Counting up to a limit.
LEMMA ModIs ==
    ASSUME NEW a \in Nat, NEW b \in Nat, b > 0
    PROVE  /\ a % b \in Nat /\ a % b < b
           /\ a < b => a % b = a
BY SMTT(30)

\* What get_send_stream_id() leaves in the set of the IDs in use, and as the ID
\* to start from.
UsedIds == inUse \cup ({SendStreamId} \ {INVALID_STREAM_ID})
NextAttempt ==
    IF Attempts = {} THEN Attempt(MAX_SEND_STREAM_ID) ELSE Attempt(FirstAttempt + 1)

\* get_send_stream_id() gives the IDs out one after the other, and then none.
LEMMA FreshId ==
    ASSUME Core
    PROVE  /\ SendStreamId = IdOf(K + 1)
           /\ UsedIds \subseteq 0..MAX_SEND_STREAM_ID /\ NextAttempt \in Nat
           /\ MAX_SEND_STREAM_ID > 0 =>
                 IF K + 1 <= MAX_SEND_STREAM_ID THEN UsedIds = 0..K /\ NextAttempt = K + 1
                 ELSE UsedIds = 0..MAX_SEND_STREAM_ID
<1> DEFINE M == MAX_SEND_STREAM_ID
           used == UsedIds
           next == NextAttempt
<1>0. /\ used = inUse \cup ({SendStreamId} \ {INVALID_STREAM_ID})
      /\ next = IF Attempts = {} THEN Attempt(M) ELSE Attempt(FirstAttempt + 1)
  BY DEF UsedIds, NextAttempt
<1> HIDE DEF used, next
<1>1. M \in Nat /\ K \in Nat /\ nextId \in Nat /\ inUse \subseteq 0..M
  BY SenderFacts, StreamAssumption DEF Core, Types
<1>2. INVALID_STREAM_ID = M + 1
  BY DEF INVALID_STREAM_ID
<1>3. M > 0 => IF K <= M THEN inUse = 0..K - 1 /\ nextId = K ELSE inUse = 0..M
  BY DEF Core, Ids
<1>4. IdOf(K + 1) = IF M > 0 /\ K + 1 \in 1..M + 1 THEN K ELSE INVALID_STREAM_ID
  <2>1. (K + 1) - 1 = K
    BY <1>1
  <2> QED BY <2>1 DEF IdOf
<1>5. /\ Attempts = {i \in 0..M - 1 : Attempt(i) \notin inUse}
      /\ SendStreamId = IF Attempts = {} THEN INVALID_STREAM_ID ELSE Attempt(FirstAttempt)
      /\ FirstAttempt = CHOOSE i \in Attempts : \A j \in Attempts : i <= j
  BY DEF Attempts, SendStreamId, FirstAttempt
<1>6. ASSUME NEW i \in Nat
      PROVE  /\ Attempt(i) = (nextId + i) % (M + 1) /\ Attempt(i) \in 0..M
             /\ nextId + i <= M => Attempt(i) = nextId + i
  <2>1. nextId + i \in Nat /\ M + 1 \in Nat /\ M + 1 > 0
    BY <1>1
  <2>2. Attempt(i) = (nextId + i) % (M + 1)
    BY DEF Attempt
  <2> DEFINE a == nextId + i
             b == M + 1
  <2> HIDE DEF a, b
  <2>3. a % b \in Nat /\ a % b < b /\ (a < b => a % b = a)
    BY <2>1, ModIs DEF a, b
  <2>4. a < b <=> a <= M
    BY <1>1, <2>1 DEF a, b
  <2>5. Attempt(i) = a % b
    BY <2>2 DEF a, b
  <2>6. Attempt(i) \in Nat /\ Attempt(i) < b /\ (a <= M => Attempt(i) = a)
    BY <2>3, <2>4, <2>5
  <2> QED BY <1>1, <2>2, <2>6 DEF a, b
<1>7. CASE Attempts = {}
  <2>1. SendStreamId = INVALID_STREAM_ID /\ used = inUse /\ next = Attempt(M)
    BY <1>0, <1>5, <1>7
  <2>2. next \in Nat
    BY <1>1, <1>6, <2>1
  <2>3. M > 0 => K > M
    <3> SUFFICES ASSUME M > 0, K <= M PROVE FALSE
      BY <1>1
    <3>1. inUse = 0..K - 1 /\ nextId = K
      BY <1>3
    <3>2. nextId + 0 <= M /\ nextId + 0 = K /\ 0 \in Nat /\ K \notin 0..K - 1
      BY <1>1, <3>1
    <3>3. Attempt(0) = nextId + 0
      BY <1>6, <3>2
    <3>4. Attempt(0) \notin inUse /\ 0 \in 0..M - 1
      BY <1>1, <3>1, <3>2, <3>3
    <3> QED BY <1>5, <1>7, <3>4
  <2>4. M > 0 => used = 0..M /\ ~(K + 1 <= M)
    BY <1>1, <1>3, <2>1, <2>3
  <2>5. ~(M > 0 /\ K + 1 \in 1..M + 1)
    BY <1>1, <2>3
  <2> QED BY <1>1, <1>4, <2>1, <2>2, <2>4, <2>5 DEF used, next
<1>8. CASE Attempts # {}
  <2>1. PICK i \in Attempts : TRUE
    BY <1>8
  <2>2. i \in 0..M - 1 /\ i \in Nat /\ Attempt(i) \notin inUse
    BY <1>1, <1>5, <2>1
  <2>3. M > 0
    BY <1>1, <2>2
  <2>4. K <= M
    <3>1. inUse # 0..M
      BY <1>6, <2>2
    <3> QED BY <1>3, <2>3, <3>1
  <2>5. inUse = 0..K - 1 /\ nextId = K
    BY <1>3, <2>3, <2>4
  <2>6. nextId + 0 <= M /\ nextId + 0 = K /\ 0 \in Nat /\ K \notin 0..K - 1
    BY <1>1, <2>4, <2>5
  <2>7. Attempt(0) = K
    BY <1>6, <2>6
  <2>8. 0 \in Attempts
    BY <1>1, <1>5, <2>3, <2>5, <2>6, <2>7
  <2>9. FirstAttempt = 0
    <3>1. Attempts \subseteq Nat
      BY <1>1, <1>5
    <3>2. \A j \in Attempts : 0 <= j
      BY <3>1
    <3>3. FirstAttempt \in Attempts /\ \A j \in Attempts : FirstAttempt <= j
      BY <1>5, <2>8, <3>2
    <3> QED BY <2>8, <3>1, <3>3
  <2>10. SendStreamId = K /\ next = Attempt(1)
    <3>1. FirstAttempt + 1 = 1
      BY <2>9
    <3>2. next = Attempt(FirstAttempt + 1) /\ SendStreamId = Attempt(FirstAttempt)
      BY <1>0, <1>5, <1>8
    <3>3. next = Attempt(1)
      BY <3>1, <3>2
    <3>4. SendStreamId = Attempt(0)
      BY <2>9, <3>2
    <3> QED BY <2>7, <3>3, <3>4
  <2>11. K # INVALID_STREAM_ID
    BY <1>1, <1>2, <2>4
  <2>12. used = 0..K
    <3>1. used = (0..K - 1) \cup {K}
      BY <1>0, <2>5, <2>10, <2>11
    <3> QED BY <1>1, <3>1
  <2>13. next \in Nat /\ (K + 1 <= M => next = K + 1)
    <3>1. 1 \in Nat /\ (K + 1 <= M => nextId + 1 <= M) /\ nextId + 1 = K + 1
      BY <1>1, <2>5
    <3>2. Attempt(1) \in 0..M /\ (nextId + 1 <= M => Attempt(1) = nextId + 1)
      BY <1>6, <3>1
    <3>3. Attempt(1) \in Nat
      BY <1>1, <3>2
    <3> QED BY <2>10, <3>1, <3>2, <3>3
  <2>14. ~(K + 1 <= M) => K = M
    BY <1>1, <2>4
  <2>15. K + 1 \in 1..M + 1
    BY <1>1, <2>4
  <2>16. 0..K \subseteq 0..M
    BY <1>1, <2>4
  <2> QED BY <1>4, <2>3, <2>10, <2>12, <2>13, <2>14, <2>15, <2>16 DEF used, next
<1> QED BY <1>7, <1>8 DEF used, next

\* A new stream is started: what is under way belongs to earlier ones.
LEMMA StartReadKeeps ==
    ASSUME Core, StartRead, ~snd.sleeping, ~snd.requestClose
    PROVE  Core'
<1> DEFINE id == SendStreamId
<1> USE DEF Core
<1>1. PICK n \in Lengths : /\ read' = [state |-> "wait_for_started", ofs |-> 0, len |-> n]
                           /\ sizes' = Append(sizes, n)
  BY DEF StartRead
<1>2. /\ read.state = "none" /\ UNCHANGED <<rcv, toRcv, toSnd, data>>
      /\ inUse' = inUse \cup ({SendStreamId} \ {INVALID_STREAM_ID})
      /\ nextId' = IF Attempts = {} THEN Attempt(MAX_SEND_STREAM_ID)
                   ELSE Attempt(FirstAttempt + 1)
      /\ snd' = [snd EXCEPT !.state = "STARTED", !.sid = id, !.total = 0,
                   !.requestInit = TRUE, !.queue = Append(snd.queue, EmptyChunk),
                   !.reply = "none", !.winSize = Proposed, !.win = 0]
  BY DEF StartRead, StartStream, wire
<1>3. /\ snd \in Sender /\ read \in Reading /\ K \in Nat /\ (K > 0 => sizes[K] \in Nat)
  BY SenderFacts
<1>4. n \in Nat /\ Proposed \in Nat /\ Proposed > 0
  BY StreamAssumption
<1>5. /\ snd.state = "IDLE" /\ snd.pc = "idle" /\ snd.queue = << >> /\ ~snd.requestInit
      /\ snd.msg = EmptyChunk /\ snd.proceedHandlers = 0 /\ ~snd.replyHandler
  BY <1>2 DEF SenderInv, SenderRests
<1>6. /\ id = IdOf(K + 1) /\ inUse' \subseteq 0..MAX_SEND_STREAM_ID /\ nextId' \in Nat
      /\ MAX_SEND_STREAM_ID > 0 =>
            IF K + 1 <= MAX_SEND_STREAM_ID THEN inUse' = 0..K /\ nextId' = K + 1
            ELSE inUse' = 0..MAX_SEND_STREAM_ID
  <2>1. inUse' = UsedIds /\ nextId' = NextAttempt
    BY <1>2 DEF UsedIds, NextAttempt
  <2> QED BY <2>1, FreshId
<1> HIDE DEF id
<1>7. /\ sizes' \in Seq(Nat) /\ K' = K + 1 /\ sizes'[K + 1] = n
      /\ \A i \in 1..K : sizes'[i] = sizes[i]
  BY <1>1, <1>4, AppendIs DEF Types, K
<1>8. id \in StreamIds /\ (id # INVALID_STREAM_ID => id = K)
  <2>1. CASE MAX_SEND_STREAM_ID > 0 /\ K + 1 \in 1..MAX_SEND_STREAM_ID + 1
    <3>1. id = (K + 1) - 1
      BY <1>6, <2>1 DEF IdOf
    <3>2. id = K /\ K \in 0..MAX_SEND_STREAM_ID + 1
      BY <1>3, <2>1, <3>1, StreamAssumption
    <3> QED BY <3>2 DEF StreamIds, INVALID_STREAM_ID
  <2>2. CASE ~(MAX_SEND_STREAM_ID > 0 /\ K + 1 \in 1..MAX_SEND_STREAM_ID + 1)
    <3>1. id = INVALID_STREAM_ID
      BY <1>6, <2>2 DEF IdOf
    <3>2. INVALID_STREAM_ID \in StreamIds
      BY StreamAssumption DEF StreamIds, INVALID_STREAM_ID
    <3> QED BY <3>1, <3>2
  <2> QED BY <2>1, <2>2
<1>9. Append(snd.queue, EmptyChunk) = <<EmptyChunk>> /\ <<EmptyChunk>> \in Seq(Piece)
  BY <1>5, EmptyIs
<1>10. /\ snd' \in Sender /\ snd'.state = "STARTED" /\ snd'.sid = id /\ snd'.total = 0
       /\ snd'.requestInit /\ snd'.queue = <<EmptyChunk>> /\ snd'.reply = "none"
       /\ snd'.winSize = Proposed /\ snd'.win = 0 /\ snd'.pc = "idle"
       /\ snd'.msg = EmptyChunk /\ snd'.proceedHandlers = 0 /\ ~snd'.replyHandler
       /\ ~snd'.requestClose
  <2> DEFINE q == <<EmptyChunk>>
             z == 0
  <2>1. q \in Seq(Piece) /\ z \in Nat
    BY <1>9
  <2>2. snd' = [snd EXCEPT !.state = "STARTED", !.sid = id, !.total = z,
                   !.requestInit = TRUE, !.queue = q,
                   !.reply = "none", !.winSize = Proposed, !.win = z]
    BY <1>2, <1>9
  <2> HIDE DEF q, z
  <2>3. snd' \in Sender
    BY <1>3, <1>4, <1>8, <2>1, <2>2 DEF Sender
  <2>4. /\ snd'.state = "STARTED" /\ snd'.sid = id /\ snd'.total = z
        /\ snd'.requestInit /\ snd'.queue = q /\ snd'.reply = "none"
        /\ snd'.winSize = Proposed /\ snd'.win = z /\ snd'.pc = snd.pc
        /\ snd'.msg = snd.msg /\ snd'.proceedHandlers = snd.proceedHandlers
        /\ snd'.replyHandler = snd.replyHandler /\ snd'.requestClose = snd.requestClose
    BY <1>3, <2>2 DEF Sender
  <2> QED BY <1>5, <2>3, <2>4 DEF q, z
<1>11. /\ Inits' = Inits /\ Closes' = Closes /\ Grants' = Grants /\ InFlight' = InFlight
  BY <1>2 DEF Inits, Closes, Grants, Gives, InFlight
<1>12. /\ rcv.srcId \in Nat
       /\ \A i \in Inits : toRcv[i].sid \in Nat
       /\ \A i \in Closes : toRcv[i].sid \in Nat
  BY SidIs
<1>13. Messages
  OBVIOUS
<1>14. /\ \A i \in Inits : toRcv[i].sid < K + 1 /\ toRcv[i].sid # id
       /\ \A i \in Closes : toRcv[i].sid < K + 1 /\ toRcv[i].sid # id
       /\ rcv.srcId # INVALID_STREAM_ID => rcv.srcId < K + 1 /\ rcv.srcId # id
  <2>1. \A x \in Nat : x < K /\ x # INVALID_STREAM_ID => x < K + 1 /\ x # id
    BY <1>3, <1>8
  <2>2. \A i \in Inits : toRcv[i].sid < K /\ toRcv[i].sid # INVALID_STREAM_ID
    BY <1>13 DEF Messages, Inits
  <2>3. \A i \in Closes : toRcv[i].sid < K /\ toRcv[i].sid # INVALID_STREAM_ID
    BY <1>13 DEF Messages
  <2>4. rcv.srcId # INVALID_STREAM_ID => rcv.srcId < K
    BY <1>13 DEF Messages
  <2> QED BY <1>12, <2>1, <2>2, <2>3, <2>4
<1>15. \A i \in Grants : toSnd[i].sid # INVALID_STREAM_ID /\ toSnd[i].sid < K + 1 /\ toSnd[i].sid # id
  <2>1. ASSUME NEW i \in Grants
        PROVE  toSnd[i].sid \in Nat
    <3>1. toSnd[i] \in Reply \cup Proceed
      BY ElementOfSeq DEF Grants, Types
    <3>2. toSnd[i].sid \in StreamIds
      BY <3>1 DEF Reply, Proceed
    <3> QED BY <3>2, StreamAssumption DEF StreamIds, INVALID_STREAM_ID
  <2>2. \A i \in Grants : toSnd[i].sid < K /\ toSnd[i].sid # INVALID_STREAM_ID
    BY <1>13 DEF Messages
  <2> QED BY <1>3, <1>8, <2>1, <2>2
<1>16. Types'
  <2>1. read' \in Reading
    BY <1>1, <1>4 DEF Reading
  <2> QED BY <1>2, <1>6, <1>7, <1>10, <2>1 DEF Types
<1>17. Ids'
  <2>1. (K + 1) - 1 = K
    BY <1>3
  <2> QED BY <1>6, <1>7, <1>10, <2>1 DEF Ids
<1>18. \A x \in Nat : x < K => sizes'[x + 1] = sizes[x + 1]
  <2>1. \A x \in Nat : x < K => x + 1 \in 1..K
    BY <1>3
  <2> QED BY <1>7, <2>1
<1>19. Messages'
  <2>1. \A i \in Inits' : /\ toRcv'[i].sid < K' /\ toRcv'[i].size > 0
                          /\ rcv'.srcId # INVALID_STREAM_ID => rcv'.srcId < toRcv'[i].sid
                          /\ toRcv'[i].sid # snd'.sid
    BY <1>2, <1>7, <1>10, <1>11, <1>13, <1>14 DEF Messages
  <2>2. \A i, j \in Inits' : i < j => toRcv'[i].sid < toRcv'[j].sid
    BY <1>2, <1>11, <1>13 DEF Messages
  <2>3. rcv'.srcId # INVALID_STREAM_ID => rcv'.srcId < K' /\ rcv'.srcId # snd'.sid
    BY <1>2, <1>7, <1>10, <1>14
  <2>4. ASSUME NEW i \in Closes'
        PROVE  /\ toRcv'[i].sid # INVALID_STREAM_ID /\ toRcv'[i].sid < K'
               /\ toRcv'[i].size = sizes'[toRcv'[i].sid + 1]
               /\ \A j \in Inits' : toRcv'[j].sid # toRcv'[i].sid
    <3>1. i \in Closes /\ toRcv' = toRcv
      BY <1>2, <1>11
    <3>2. /\ toRcv[i].sid # INVALID_STREAM_ID /\ toRcv[i].sid < K /\ toRcv[i].sid \in Nat
          /\ toRcv[i].size = sizes[toRcv[i].sid + 1]
          /\ \A j \in Inits : toRcv[j].sid # toRcv[i].sid
      BY <1>12, <1>13, <3>1 DEF Messages
    <3>3. sizes'[toRcv[i].sid + 1] = sizes[toRcv[i].sid + 1]
      BY <1>18, <3>2
    <3>4. toRcv[i].sid < K + 1
      BY <1>14, <3>1
    <3> QED BY <1>7, <1>11, <3>1, <3>2, <3>3, <3>4
  <2>5. \A i \in Grants' : toSnd'[i].sid # INVALID_STREAM_ID /\ toSnd'[i].sid < K'
    BY <1>2, <1>7, <1>11, <1>15
  <2> QED BY <2>1, <2>2, <2>3, <2>4, <2>5 DEF Messages
<1>20. NotGranted'
  BY <1>2, <1>10, <1>11, <1>14, <1>15 DEF NotGranted
<1>21. Granted'
  BY <1>20 DEF Granted
<1>22. Frames'
  <2>1. Frames /\ data' = data /\ K' = K + 1
    BY <1>2, <1>7
  <2>2. \A i \in 1..Len(data) : data[i].s \in 1..K + 1 /\ data[i].s # K + 1
    <3>1. \A x \in 1..K : x \in 1..K + 1 /\ x # K + 1
      BY <1>3
    <3>2. \A i \in 1..Len(data) : data[i].s \in 1..K
      BY <2>1 DEF Frames
    <3> QED BY <3>1, <3>2
  <2>3. data # << >> => data[Len(data)].s # K + 1
    <3>1. data # << >> => Len(data) \in 1..Len(data)
      BY FlightIs
    <3> QED BY <2>2, <3>1
  <2> QED BY <1>20, <2>1, <2>2, <2>3 DEF Frames
<1>23. SenderInv'
  <2>1. read'.state = "wait_for_started" /\ read'.ofs = 0 /\ read'.len = n
    BY <1>1
  <2>2. SenderStart(snd', read', n)
    BY <1>4, <1>10, <2>1 DEF SenderStart
  <2>3. K' > 0 /\ sizes'[K'] = n
    BY <1>3, <1>7
  <2> QED BY <1>10, <2>1, <2>2, <2>3 DEF SenderInv
<1>24. Control'
  BY <1>2, <1>11 DEF Control, Opening
<1>25. Buffer' /\ Sink'
  <2>1. Sink /\ Buffer /\ rcv' = rcv
    BY <1>2
  <2>2. rcv.srcId # INVALID_STREAM_ID => sizes'[rcv.srcId + 1] = sizes[rcv.srcId + 1]
    BY <1>12, <1>13, <1>18 DEF Messages
  <2> QED BY <2>1, <2>2 DEF Buffer, Sink, Stored
<1>26. Flow'
  <2>1. Flow /\ rcv' = rcv /\ data' = data /\ toRcv' = toRcv
    BY <1>2
  <2>2. rcv.dataHandler => sizes'[rcv.srcId + 1] = sizes[rcv.srcId + 1]
    BY <1>12, <1>13, <1>18 DEF Messages, Control
  <2> QED BY <1>11, <2>1, <2>2 DEF Flow
<1>27. Window'
  <2>1. ~Linked'
    <3>1. rcv.dataHandler => rcv.srcId # INVALID_STREAM_ID
      BY DEF Control
    <3> QED BY <1>2, <1>10, <1>14, <3>1 DEF Linked
  <2>2. \A i \in Closes' : toRcv'[i].sid # snd'.sid
    BY <1>2, <1>10, <1>11, <1>14
  <2> QED BY <1>10, <2>1, <2>2 DEF Window
<1> QED BY <1>16, <1>17, <1>19, <1>21, <1>22, <1>23, <1>24, <1>25, <1>26, <1>27

\* A step of the receiver alone that opens nothing.
LEMMA ReceiverOnly ==
    ASSUME Core, UNCHANGED <<snd, read, sizes, inUse, nextId, toRcv, toSnd, data>>,
           rcv' \in Receiver, Control', Buffer', Sink',
           rcv'.srcId = rcv.srcId, rcv'.winSize = rcv.winSize, rcv'.win = rcv.win,
           rcv'.total = rcv.total,
           rcv'.completeHandler => rcv.completeHandler,
           rcv'.dataHandler => rcv.dataHandler /\ rcv'.closed = rcv.closed,
           Opening' => Opening
    PROVE  Core'
<1> USE DEF Core
<1>1. /\ Inits' = Inits /\ Closes' = Closes /\ Grants' = Grants /\ InFlight' = InFlight
  BY DEF Inits, Closes, Grants, Gives, InFlight
<1>2. Ids' /\ SenderInv' /\ K' = K
  BY SenderStays
<1>3. Types'
  BY DEF Types
<1>4. Messages'
  <2>1. \A i \in Grants' : toSnd'[i].sid # INVALID_STREAM_ID /\ toSnd'[i].sid < K
    BY <1>1 DEF Messages
  <2>2. UNCHANGED <<toRcv, sizes>> /\ snd'.sid = snd.sid
         /\ (snd'.state = "STARTED" => snd.state = "STARTED")
    OBVIOUS
  <2> QED BY <2>1, <2>2, MessagesKeep
<1>5. (NotGranted' <=> NotGranted) /\ (Early' => Early)
  BY <1>1 DEF NotGranted, Early
<1>6. Granted'
  BY <1>5 DEF Granted
<1>7. Frames'
  <2>1. Frames /\ data' = data /\ K' = K /\ snd' = snd
    BY <1>2
  <2> QED BY <1>5, <2>1 DEF Frames
<1>8. Flow'
  BY <1>1 DEF Flow
<1>9. Window'
  BY <1>1 DEF Window, Linked
<1> QED BY <1>2, <1>3, <1>4, <1>6, <1>7, <1>8, <1>9

\* The receiver's assertions.
Unharmed == LastBufferThere /\ NotifiedOnce

\* The sink is done with a buffer.
LEMMA SinkReleasesKeeps ==
    ASSUME Core, rcv.bad = "none", SinkReleases
    PROVE  Core' /\ Unharmed'
<1> USE DEF Core
<1>1. /\ rcv.held > 0 /\ rcv' = [rcv EXCEPT !.held = @ - 1]
      /\ UNCHANGED <<snd, read, sizes, inUse, nextId, toRcv, toSnd, data>>
  BY DEF SinkReleases, server, wire
<1>2. rcv \in Receiver
  BY DEF Types
<1>3. rcv.held - 1 \in Nat
  BY <1>1, <1>2 DEF Receiver
<1>4. rcv' \in Receiver
  BY <1>1, <1>2, <1>3 DEF Receiver
<1>5. /\ SameControl(rcv, rcv') /\ rcv'.win = rcv.win /\ rcv'.total = rcv.total
      /\ rcv'.current = rcv.current /\ rcv'.bytes = rcv.bytes /\ rcv'.last = rcv.last
      /\ rcv'.sink = rcv.sink /\ rcv'.bad = "none"
  BY <1>1, <1>2 DEF Receiver, SameControl
<1>6. Opening' <=> Opening
  BY <1>5 DEF Opening, SameControl
<1>7. Control'
  <2>1. Closes' = Closes
    BY <1>1 DEF Closes
  <2>2. Control
    OBVIOUS
  <2> QED BY <1>1, <1>5, <1>6, <2>1, <2>2 DEF Control, SameControl
<1>8. Buffer' /\ Sink'
  BY <1>1, <1>5 DEF Buffer, Sink, Stored, SameControl
<1>9. Core'
  BY <1>1, <1>4, <1>5, <1>6, <1>7, <1>8, ReceiverOnly DEF SameControl
<1> QED BY <1>5, <1>9 DEF Unharmed, LastBufferThere, NotifiedOnce

\* A request is cancelled.
LEMMA CancelKeeps ==
    ASSUME Core, rcv.bad = "none", CancelRequest
    PROVE  Core' /\ Unharmed'
<1> DEFINE r == [rcv EXCEPT !.pendingCancel = TRUE, !.isWaiting = FALSE]
<1> USE DEF Core
<1>1. /\ rcv' = IF rcv.isWaiting THEN Notify(r) ELSE r
      /\ UNCHANGED <<snd, read, sizes, inUse, nextId, toRcv, toSnd, data>>
  BY DEF CancelRequest, server, wire
<1>2. rcv \in Receiver
  BY DEF Types
<1>3. \/ rcv' = r
      \/ rcv' = [r EXCEPT !.queued = TRUE] /\ rcv.isWaiting
      \/ rcv' = [r EXCEPT !.bad = "notify"]
  BY <1>1 DEF Notify
<1>4. r \in Receiver /\ r.bad = rcv.bad
  BY <1>2 DEF Receiver
<1>5. /\ rcv' \in Receiver /\ rcv'.pendingCancel /\ ~rcv'.isWaiting
      /\ rcv'.queued => rcv.queued \/ rcv.isWaiting
      /\ rcv'.pc = rcv.pc /\ rcv'.pendingInit = rcv.pendingInit /\ rcv'.closed = rcv.closed
      /\ rcv'.srcId = rcv.srcId /\ rcv'.winSize = rcv.winSize /\ rcv'.win = rcv.win
      /\ rcv'.total = rcv.total /\ rcv'.current = rcv.current /\ rcv'.bytes = rcv.bytes
      /\ rcv'.last = rcv.last /\ rcv'.initHandler = rcv.initHandler
      /\ rcv'.completeHandler = rcv.completeHandler /\ rcv'.dataHandler = rcv.dataHandler
      /\ rcv'.sink = rcv.sink /\ rcv'.result = rcv.result /\ rcv'.bad \in {"none", "notify"}
  <2>1. CASE rcv' = r
    BY <1>2, <2>1 DEF Receiver
  <2>2. CASE rcv' = [r EXCEPT !.queued = TRUE] /\ rcv.isWaiting
    BY <1>2, <2>2 DEF Receiver
  <2>3. CASE rcv' = [r EXCEPT !.bad = "notify"]
    BY <1>2, <2>3 DEF Receiver
  <2> QED BY <1>3, <2>1, <2>2, <2>3
<1>6. Opening' <=> Opening
  BY <1>5 DEF Opening
<1>7. Control'
  <2>1. Closes' = Closes
    BY <1>1 DEF Closes
  <2>2. Control
    OBVIOUS
  <2> QED BY <1>1, <1>5, <1>6, <2>1, <2>2 DEF Control
<1>8. Buffer' /\ Sink'
  BY <1>1, <1>5 DEF Buffer, Sink, Stored
<1>9. Core'
  BY <1>1, <1>5, <1>6, <1>7, <1>8, ReceiverOnly
<1> QED BY <1>5, <1>9 DEF Unharmed, LastBufferThere, NotifiedOnce

\* The end of a request.
LEMMA ReturnIs ==
    ASSUME NEW r \in Receiver, r.current = "none" => r.bytes = << >>,
           NEW res \in {"none", "ok", "canceled"}
    PROVE  LET q == Return(r, res) IN
           /\ q \in Receiver /\ q.pc = "idle" /\ ~q.dataHandler /\ q.result = res
           /\ q.queued = r.queued /\ q.isWaiting = r.isWaiting /\ q.pendingInit = r.pendingInit
           /\ q.pendingCancel = r.pendingCancel /\ q.closed = r.closed /\ q.srcId = r.srcId
           /\ q.winSize = r.winSize /\ q.initHandler = r.initHandler
           /\ q.completeHandler = r.completeHandler /\ q.win = r.win /\ q.total = r.total
           /\ q.bad = r.bad /\ q.current = "none" /\ q.bytes = << >>
           /\ q.sink \o q.bytes = r.sink \o r.bytes
<1> DEFINE f == Flush(r)
           q == Return(r, res)
<1>1. /\ f \in Receiver /\ SameControl(r, f) /\ f.win = r.win /\ f.total = r.total
      /\ f.bad = r.bad /\ f.current = "none" /\ f.bytes = << >> /\ f.sink = r.sink \o r.bytes
  BY FlushKeeps
<1>2. q = [f EXCEPT !.pc = "idle", !.dataHandler = FALSE, !.result = res]
  BY DEF Return
<1> HIDE DEF f, q
<1>3. /\ q \in Receiver /\ q.pc = "idle" /\ ~q.dataHandler /\ q.result = res
      /\ q.queued = f.queued /\ q.isWaiting = f.isWaiting /\ q.pendingInit = f.pendingInit
      /\ q.pendingCancel = f.pendingCancel /\ q.closed = f.closed /\ q.srcId = f.srcId
      /\ q.winSize = f.winSize /\ q.initHandler = f.initHandler
      /\ q.completeHandler = f.completeHandler /\ q.win = f.win /\ q.total = f.total
      /\ q.bad = f.bad /\ q.current = f.current /\ q.bytes = f.bytes /\ q.sink = f.sink
  <2>1. f \in Receiver
    BY <1>1
  <2>2. q \in Receiver
    BY <1>2, <2>1, ZenonT(40) DEF Receiver
  <2>3. q.pc = "idle" /\ ~q.dataHandler /\ q.result = res
    BY <1>2, <2>1 DEF Receiver
  <2>4. /\ q.queued = f.queued /\ q.isWaiting = f.isWaiting /\ q.pendingInit = f.pendingInit
        /\ q.pendingCancel = f.pendingCancel /\ q.closed = f.closed /\ q.srcId = f.srcId
        /\ q.winSize = f.winSize /\ q.initHandler = f.initHandler
        /\ q.completeHandler = f.completeHandler /\ q.win = f.win /\ q.total = f.total
        /\ q.bad = f.bad /\ q.current = f.current /\ q.bytes = f.bytes /\ q.sink = f.sink
    BY <1>2, <2>1 DEF Receiver
  <2> QED BY <2>2, <2>3, <2>4
<1>4. q.sink \o q.bytes = q.sink
  <2>1. q.sink \in Seq(Byte) /\ q.bytes = << >>
    BY <1>1, <1>3 DEF Receiver
  <2> QED BY <2>1, ConcatEmptySeq
<1>5. q.sink \o q.bytes = r.sink \o r.bytes
  BY <1>1, <1>3, <1>4
<1> QED BY <1>1, <1>3, <1>5 DEF SameControl, q

\* The flow runs after it was notified: it is cancelled, or the stream begins,
\* or the window is used up.
LEMMA WakeupKeeps ==
    ASSUME Core, rcv.bad = "none", ReceiverWakeup
    PROVE  Core' /\ Unharmed'
<1> DEFINE q == [rcv EXCEPT !.queued = FALSE, !.isWaiting = FALSE]
           u == UnregisterHandlers(q)
           c == [q EXCEPT !.closed = FALSE]
<1> USE DEF Core
<1>1. /\ rcv.pc = "wakeup" /\ rcv.queued /\ rcv' = Wakeup(rcv)
      /\ UNCHANGED <<snd, read, sizes, inUse, nextId, toRcv, toSnd, data>>
  BY DEF ReceiverWakeup, server, wire
<1>2. /\ rcv \in Receiver /\ Control /\ Buffer /\ Sink
  BY DEF Types
<1>3. /\ q \in Receiver /\ q.pc = "wakeup" /\ ~q.queued /\ ~q.isWaiting
      /\ q.pendingInit = rcv.pendingInit /\ q.pendingCancel = rcv.pendingCancel
      /\ q.closed = rcv.closed /\ q.srcId = rcv.srcId /\ q.winSize = rcv.winSize
      /\ q.win = rcv.win /\ q.total = rcv.total /\ q.current = rcv.current
      /\ q.bytes = rcv.bytes /\ q.last = rcv.last /\ q.initHandler = rcv.initHandler
      /\ q.completeHandler = rcv.completeHandler /\ q.dataHandler = rcv.dataHandler
      /\ q.sink = rcv.sink /\ q.result = rcv.result /\ q.bad = "none"
  BY <1>1, <1>2, ZenonT(40) DEF Receiver
<1>4. rcv' = IF q.pendingCancel THEN Return(u, "canceled")
             ELSE IF q.pendingInit
             THEN [q EXCEPT !.pendingInit = FALSE, !.pc = "init_buffer_ready"]
             ELSE IF q.win > 0 THEN [q EXCEPT !.pc = "wakeup"]
             ELSE IF q.closed THEN Return(c, "ok")
             ELSE [q EXCEPT !.pc = "have_raw_buffer"]
  BY <1>1 DEF Wakeup
<1> HIDE DEF q
<1>5. rcv.current = "none" => rcv.bytes = << >>
  BY <1>2 DEF Buffer
<1>6. Closes' = Closes
  BY <1>1 DEF Closes
<1>7. CASE rcv.pendingCancel
  <2>1. u = [q EXCEPT !.initHandler = FALSE, !.completeHandler = FALSE]
    BY DEF UnregisterHandlers
  <2> HIDE DEF u
  <2>2. /\ u \in Receiver /\ u.queued = q.queued /\ u.isWaiting = q.isWaiting
        /\ u.closed = q.closed /\ u.srcId = q.srcId /\ u.winSize = q.winSize
        /\ u.win = q.win /\ u.total = q.total /\ u.current = q.current
        /\ u.bytes = q.bytes /\ ~u.initHandler /\ ~u.completeHandler
        /\ u.sink = q.sink /\ u.bad = q.bad
    BY <1>3, <2>1 DEF Receiver
  <2>3. rcv' = Return(u, "canceled") /\ (u.current = "none" => u.bytes = << >>)
    BY <1>3, <1>4, <1>5, <1>7, <2>2
  <2>4. /\ rcv' \in Receiver /\ rcv'.pc = "idle" /\ ~rcv'.dataHandler
        /\ rcv'.result = "canceled" /\ ~rcv'.queued /\ ~rcv'.isWaiting
        /\ rcv'.srcId = rcv.srcId /\ rcv'.winSize = rcv.winSize /\ ~rcv'.initHandler
        /\ ~rcv'.completeHandler /\ rcv'.win = rcv.win /\ rcv'.total = rcv.total
        /\ rcv'.bad = "none" /\ rcv'.current = "none" /\ rcv'.bytes = << >>
        /\ rcv'.sink \o rcv'.bytes = rcv.sink \o rcv.bytes
    <3> DEFINE v == Return(u, "canceled")
    <3>1. /\ v \in Receiver /\ v.pc = "idle" /\ ~v.dataHandler /\ v.result = "canceled"
          /\ v.queued = u.queued /\ v.isWaiting = u.isWaiting /\ v.srcId = u.srcId
          /\ v.winSize = u.winSize /\ v.initHandler = u.initHandler
          /\ v.completeHandler = u.completeHandler /\ v.win = u.win /\ v.total = u.total
          /\ v.bad = u.bad /\ v.current = "none" /\ v.bytes = << >>
          /\ v.sink \o v.bytes = u.sink \o u.bytes
      <4>1. u \in Receiver /\ (u.current = "none" => u.bytes = << >>)
        BY <2>2, <2>3
      <4> QED BY <4>1, ReturnIs
    <3> HIDE DEF v
    <3> QED BY <1>3, <2>2, <2>3, <3>1 DEF v
  <2>5. Control' /\ ~Opening'
    BY <1>2, <2>4 DEF Control, Opening
  <2>6. Buffer'
    BY <2>4 DEF Buffer
  <2>7. Sink'
    BY <1>2, <2>4 DEF Sink, Stored
  <2>8. Core'
    BY <1>1, <2>4, <2>5, <2>6, <2>7, ReceiverOnly
  <2> QED BY <2>4, <2>8 DEF Unharmed, LastBufferThere, NotifiedOnce
<1>8. CASE ~rcv.pendingCancel /\ rcv.pendingInit
  <2>1. rcv' = [q EXCEPT !.pendingInit = FALSE, !.pc = "init_buffer_ready"]
    BY <1>3, <1>4, <1>8
  <2>2. Opening
    BY <1>1, <1>2, <1>8 DEF Control
  <2>3. /\ rcv' \in Receiver /\ rcv'.pc = "init_buffer_ready" /\ ~rcv'.queued
        /\ ~rcv'.isWaiting /\ ~rcv'.pendingInit /\ rcv'.closed = rcv.closed
        /\ rcv'.srcId = rcv.srcId /\ rcv'.winSize = rcv.winSize /\ rcv'.win = rcv.win
        /\ rcv'.total = rcv.total /\ rcv'.current = rcv.current /\ rcv'.bytes = rcv.bytes
        /\ rcv'.last = rcv.last /\ rcv'.initHandler = rcv.initHandler
        /\ rcv'.completeHandler = rcv.completeHandler
        /\ rcv'.dataHandler = rcv.dataHandler /\ rcv'.sink = rcv.sink
        /\ rcv'.result = rcv.result /\ rcv'.bad = "none"
    BY <1>3, <2>1 DEF Receiver
  <2>4. Opening'
    BY <2>2, <2>3 DEF Opening
  <2>5. ~rcv.initHandler /\ ~rcv.dataHandler
    BY <1>2, <2>2 DEF Control, Opening
  <2>6. Control'
    <3>1. /\ rcv.srcId # INVALID_STREAM_ID /\ rcv.total = 0 /\ ~rcv.closed
          /\ rcv.win = rcv.winSize /\ data = << >>
          /\ \A i \in Closes : toRcv[i].sid # rcv.srcId
          /\ rcv.winSize > 0
      BY <1>2, <2>2 DEF Control
    <3> QED BY <1>1, <1>6, <2>3, <2>4, <2>5, <3>1 DEF Control
  <2>7. Buffer'
    BY <1>2, <2>3 DEF Buffer
  <2>8. Sink'
    <3>1. rcv.result # "ok"
      BY <1>1, <1>2 DEF Sink
    <3> QED BY <1>2, <2>3, <3>1 DEF Sink, Stored
  <2>9. Core'
    BY <1>1, <2>2, <2>3, <2>5, <2>6, <2>7, <2>8, ReceiverOnly
  <2> QED BY <2>3, <2>9 DEF Unharmed, LastBufferThere, NotifiedOnce
<1>9. CASE ~rcv.pendingCancel /\ ~rcv.pendingInit
  <2>1. rcv.dataHandler /\ rcv.win = 0
    BY <1>1, <1>2, <1>9 DEF Control
  <2>2. ~(q.win > 0) /\ ~rcv.initHandler /\ rcv.srcId # INVALID_STREAM_ID
    BY <1>2, <1>3, <2>1 DEF Control
  <2>3. CASE rcv.closed
    <3>1. c = [q EXCEPT !.closed = FALSE]
      OBVIOUS
    <3> HIDE DEF c
    <3>2. /\ c \in Receiver /\ c.queued = q.queued /\ c.isWaiting = q.isWaiting
          /\ c.srcId = q.srcId /\ c.winSize = q.winSize
          /\ c.win = q.win /\ c.total = q.total /\ c.current = q.current
          /\ c.bytes = q.bytes /\ c.initHandler = q.initHandler
          /\ c.completeHandler = q.completeHandler
          /\ c.sink = q.sink /\ c.bad = q.bad
      BY <1>3, <3>1 DEF Receiver
    <3>3. rcv' = Return(c, "ok") /\ (c.current = "none" => c.bytes = << >>)
      BY <1>3, <1>4, <1>5, <1>9, <2>2, <2>3, <3>2
    <3>4. ~rcv.completeHandler
      BY <1>2, <2>3 DEF Control
    <3>5. /\ rcv' \in Receiver /\ rcv'.pc = "idle" /\ ~rcv'.dataHandler
          /\ rcv'.result = "ok" /\ ~rcv'.queued /\ ~rcv'.isWaiting
          /\ rcv'.srcId = rcv.srcId /\ rcv'.winSize = rcv.winSize /\ ~rcv'.initHandler
          /\ ~rcv'.completeHandler /\ rcv'.win = rcv.win /\ rcv'.total = rcv.total
          /\ rcv'.bad = "none" /\ rcv'.current = "none" /\ rcv'.bytes = << >>
          /\ rcv'.sink \o rcv'.bytes = rcv.sink \o rcv.bytes
      <4> DEFINE v == Return(c, "ok")
      <4>1. /\ v \in Receiver /\ v.pc = "idle" /\ ~v.dataHandler /\ v.result = "ok"
            /\ v.queued = c.queued /\ v.isWaiting = c.isWaiting /\ v.srcId = c.srcId
            /\ v.winSize = c.winSize /\ v.initHandler = c.initHandler
            /\ v.completeHandler = c.completeHandler /\ v.win = c.win /\ v.total = c.total
            /\ v.bad = c.bad /\ v.current = "none" /\ v.bytes = << >>
            /\ v.sink \o v.bytes = c.sink \o c.bytes
        <5>1. c \in Receiver /\ (c.current = "none" => c.bytes = << >>)
          BY <3>2, <3>3
        <5> QED BY <5>1, ReturnIs
      <4> HIDE DEF v
      <4> QED BY <1>3, <2>2, <3>2, <3>3, <3>4, <4>1, ZenonT(40) DEF v
    <3>6. Control' /\ ~Opening'
      BY <1>2, <3>5 DEF Control, Opening
    <3>7. Buffer'
      BY <3>5 DEF Buffer
    <3>8. rcv.total = sizes[rcv.srcId + 1]
      <4>1. rcv.total + rcv.win = sizes[rcv.srcId + 1] /\ rcv.total \in Nat
        BY <1>2, <2>1, <2>3 DEF Flow, Receiver
      <4>2. rcv.total + 0 = rcv.total
        BY <4>1
      <4> QED BY <2>1, <4>1, <4>2
    <3>9. Sink'
      BY <1>1, <1>2, <2>2, <3>5, <3>8 DEF Sink, Stored
    <3>10. Core'
      BY <1>1, <3>5, <3>6, <3>7, <3>9, ReceiverOnly
    <3> QED BY <3>5, <3>10 DEF Unharmed, LastBufferThere, NotifiedOnce
  <2>4. CASE ~rcv.closed
    <3>1. rcv' = [q EXCEPT !.pc = "have_raw_buffer"]
      BY <1>3, <1>4, <1>9, <2>2, <2>4
    <3>2. /\ rcv' \in Receiver /\ rcv'.pc = "have_raw_buffer" /\ ~rcv'.queued
          /\ ~rcv'.isWaiting /\ ~rcv'.pendingInit /\ rcv'.closed = rcv.closed
          /\ rcv'.srcId = rcv.srcId /\ rcv'.winSize = rcv.winSize /\ rcv'.win = rcv.win
          /\ rcv'.total = rcv.total /\ rcv'.current = rcv.current /\ rcv'.bytes = rcv.bytes
          /\ rcv'.last = rcv.last /\ rcv'.initHandler = rcv.initHandler
          /\ rcv'.completeHandler = rcv.completeHandler
          /\ rcv'.dataHandler = rcv.dataHandler /\ rcv'.sink = rcv.sink
          /\ rcv'.result = rcv.result /\ rcv'.bad = "none"
      BY <1>3, <1>9, <3>1 DEF Receiver
    <3>3. ~Opening'
      BY <2>1, <3>2 DEF Opening
    <3>4. Control'
      BY <1>2, <2>1, <2>2, <2>4, <3>2, <3>3 DEF Control
    <3>5. Buffer'
      BY <1>2, <3>2 DEF Buffer
    <3>6. Sink'
      <4>1. rcv.result # "ok"
        BY <1>1, <1>2 DEF Sink
      <4> QED BY <1>2, <3>2, <4>1 DEF Sink, Stored
    <3>7. Core'
      BY <1>1, <2>1, <3>2, <3>3, <3>4, <3>5, <3>6, ReceiverOnly
    <3> QED BY <3>2, <3>7 DEF Unharmed, LastBufferThere, NotifiedOnce
  <2> QED BY <2>3, <2>4
<1> QED BY <1>7, <1>8, <1>9

\* A new request opens the receiver.
LEMMA ReadRequestKeeps ==
    ASSUME Core, rcv.bad = "none", ReadRequest
    PROVE  Core' /\ Unharmed'
<1> DEFINE r == [rcv EXCEPT !.closed = FALSE, !.pendingInit = FALSE,
                            !.pendingCancel = FALSE, !.isWaiting = FALSE,
                            !.winSize = MaxWindow, !.win = 0,
                            !.srcId = INVALID_STREAM_ID, !.sink = << >>,
                            !.initHandler = TRUE, !.result = "none"]
<1> USE DEF Core
<1>1. /\ rcv.pc = "idle" /\ rcv' = WaitForWakeup(r)
      /\ UNCHANGED <<snd, read, sizes, inUse, nextId, toRcv, toSnd, data>>
  BY DEF ReadRequest, wire
<1>2. rcv \in Receiver /\ Control /\ Buffer
  BY DEF Types
<1>3. /\ MaxWindow \in Nat /\ MaxWindow > 0 /\ INVALID_STREAM_ID \in StreamIds
  BY StreamAssumption DEF StreamIds, INVALID_STREAM_ID
<1>4. /\ r \in Receiver /\ ~r.pendingCancel
  <2> DEFINE z == 0
             e == << >>
  <2>1. z \in Nat /\ e \in Seq(Byte)
    OBVIOUS
  <2> HIDE DEF z, e
  <2>2. [rcv EXCEPT !.closed = FALSE, !.pendingInit = FALSE,
                    !.pendingCancel = FALSE, !.isWaiting = FALSE,
                    !.winSize = MaxWindow, !.win = z,
                    !.srcId = INVALID_STREAM_ID, !.sink = e,
                    !.initHandler = TRUE, !.result = "none"] \in Receiver
    BY <1>2, <1>3, <2>1 DEF Receiver
  <2>3. ~r.pendingCancel
    BY <1>2 DEF Receiver
  <2> QED BY <2>2, <2>3 DEF z, e
<1>5. /\ r.queued = rcv.queued /\ ~r.closed /\ ~r.pendingInit /\ r.winSize = MaxWindow
      /\ r.win = 0 /\ r.srcId = INVALID_STREAM_ID /\ r.sink = << >> /\ r.initHandler
      /\ r.result = "none" /\ r.completeHandler = rcv.completeHandler
      /\ r.dataHandler = rcv.dataHandler /\ r.current = rcv.current /\ r.bytes = rcv.bytes
      /\ r.bad = "none"
  BY <1>2 DEF Receiver
<1> HIDE DEF r
<1>6. rcv' = [r EXCEPT !.isWaiting = TRUE, !.pc = "wakeup"]
  BY <1>1, <1>4 DEF WaitForWakeup
<1>7. /\ rcv' \in Receiver /\ rcv'.pc = "wakeup" /\ rcv'.queued = r.queued
      /\ rcv'.closed = r.closed /\ rcv'.pendingInit = r.pendingInit
      /\ rcv'.winSize = r.winSize
      /\ rcv'.win = r.win /\ rcv'.srcId = r.srcId /\ rcv'.sink = r.sink
      /\ rcv'.initHandler = r.initHandler
      /\ rcv'.result = r.result /\ rcv'.completeHandler = r.completeHandler
      /\ rcv'.dataHandler = r.dataHandler /\ rcv'.current = r.current /\ rcv'.bytes = r.bytes
      /\ rcv'.bad = r.bad
  BY <1>4, <1>6 DEF Receiver
<1>8. /\ ~rcv.completeHandler /\ ~rcv.dataHandler /\ ~rcv.queued
      /\ rcv.current = "none" /\ rcv.bytes = << >>
  BY <1>1, <1>2 DEF Control, Buffer
<1>9. /\ Inits' = Inits /\ Closes' = Closes /\ Grants' = Grants /\ InFlight' = InFlight
  BY <1>1 DEF Inits, Closes, Grants, Gives, InFlight
<1>10. Ids' /\ SenderInv' /\ K' = K
  BY <1>1, SenderStays
<1>11. Types'
  BY <1>1, <1>7 DEF Types
<1>12. Messages'
  <2>1. Messages /\ rcv'.srcId = INVALID_STREAM_ID
    BY <1>5, <1>7
  <2> QED BY <1>1, <1>9, <1>10, <2>1 DEF Messages
<1>13. ~Opening' /\ ~Linked'
  BY <1>5, <1>7, <1>8 DEF Opening, Linked
<1>14. (NotGranted' <=> NotGranted) /\ (Early' => Early)
  BY <1>1, <1>5, <1>7, <1>9, <1>13 DEF NotGranted, Early
<1>15. Granted'
  BY <1>14 DEF Granted
<1>16. Frames'
  <2>1. Frames /\ data' = data /\ K' = K /\ snd' = snd
    BY <1>1, <1>10
  <2> QED BY <1>14, <2>1 DEF Frames
<1>17. Control'
  BY <1>3, <1>5, <1>7, <1>8, <1>13 DEF Control
<1>18. Buffer'
  BY <1>5, <1>7, <1>8 DEF Buffer
<1>19. Sink'
  <2>1. Stored' = << >> \o << >>
    BY <1>5, <1>7, <1>8 DEF Stored
  <2>2. << >> \o << >> = << >>
    BY ConcatEmptySeq
  <2> QED BY <1>5, <1>7, <2>1, <2>2 DEF Sink
<1>20. Flow'
  BY <1>5, <1>7, <1>8 DEF Flow
<1>21. Window'
  BY <1>1, <1>5, <1>7, <1>9, <1>13 DEF Window
<1>22. Unharmed'
  BY <1>5, <1>7 DEF Unharmed, LastBufferThere, NotifiedOnce
<1> QED BY <1>10, <1>11, <1>12, <1>15, <1>16, <1>17, <1>18, <1>19, <1>20, <1>21, <1>22

\* The parts of the invariant about messages, the sender and the data, when the
\* receiver has taken a message and kept its stream.
LEMMA TakenKeeps ==
    ASSUME Core, toRcv # << >>, toRcv' = Tail(toRcv), rcv'.srcId = rcv.srcId,
           UNCHANGED <<snd, read, data, sizes, inUse, nextId>>, Grants' = Grants,
           \A i \in Grants : toSnd'[i] = toSnd[i], Opening' => Opening
    PROVE  /\ Ids' /\ SenderInv' /\ Messages' /\ Granted' /\ Frames' /\ K' = K
           /\ (NotGranted => NotGranted')
<1> USE DEF Core
<1>1. /\ toRcv' \in Seq(ToReceiver)
      /\ \A i \in Inits' : i \in Nat /\ i + 1 \in Inits /\ toRcv'[i] = toRcv[i + 1]
      /\ \A i \in Closes' : i + 1 \in Closes /\ toRcv'[i] = toRcv[i + 1]
  BY RcvTail
<1>2. Ids' /\ SenderInv' /\ K' = K
  BY SenderStays
<1>3. Messages'
  <2>1. Messages
    OBVIOUS
  <2>2. \A i, j \in Inits' : i < j => i + 1 < j + 1
    BY <1>1
  <2>3. \A i, j \in Inits' : i < j => toRcv'[i].sid < toRcv'[j].sid
    BY <1>1, <2>1, <2>2 DEF Messages
  <2>4. \A i \in Inits' : /\ toRcv'[i].sid < K /\ toRcv'[i].size > 0
                          /\ rcv.srcId # INVALID_STREAM_ID => rcv.srcId < toRcv'[i].sid
                          /\ snd.state = "STARTED" => toRcv'[i].sid # snd.sid
    <3> SUFFICES ASSUME NEW i \in Inits'
                 PROVE  /\ toRcv'[i].sid < K /\ toRcv'[i].size > 0
                        /\ rcv.srcId # INVALID_STREAM_ID => rcv.srcId < toRcv'[i].sid
                        /\ snd.state = "STARTED" => toRcv'[i].sid # snd.sid
      OBVIOUS
    <3>1. i + 1 \in Inits /\ toRcv'[i] = toRcv[i + 1]
      BY <1>1
    <3> QED BY <2>1, <3>1 DEF Messages
  <2>5. ASSUME NEW i \in Closes'
        PROVE  /\ toRcv'[i].sid # INVALID_STREAM_ID /\ toRcv'[i].sid < K
               /\ toRcv'[i].size = sizes[toRcv'[i].sid + 1]
               /\ \A j \in Inits' : toRcv'[j].sid # toRcv'[i].sid
    <3>1. i + 1 \in Closes /\ toRcv'[i] = toRcv[i + 1]
      BY <1>1
    <3>2. /\ toRcv[i + 1].sid # INVALID_STREAM_ID /\ toRcv[i + 1].sid < K
          /\ toRcv[i + 1].size = sizes[toRcv[i + 1].sid + 1]
          /\ \A j \in Inits : toRcv[j].sid # toRcv[i + 1].sid
      BY <2>1, <3>1 DEF Messages
    <3> QED BY <1>1, <3>1, <3>2
  <2>6. \A i \in Grants' : toSnd'[i].sid # INVALID_STREAM_ID /\ toSnd'[i].sid < K
    BY <2>1 DEF Messages
  <2>7. rcv'.srcId # INVALID_STREAM_ID =>
           rcv'.srcId < K /\ (snd.state = "STARTED" => rcv'.srcId # snd.sid)
    BY <2>1 DEF Messages
  <2> QED BY <1>2, <2>3, <2>4, <2>5, <2>6, <2>7 DEF Messages
<1>4. (NotGranted => NotGranted') /\ (Early' => Early)
  <2>1. NotGranted => NotGranted'
    BY <1>1 DEF NotGranted
  <2>2. Inits' # {} => Inits # {}
    BY <1>1
  <2> QED BY <2>1, <2>2 DEF Early
<1>5. Granted'
  BY <1>4 DEF Granted
<1>6. Frames'
  <2>1. Frames /\ (~NotGranted' => ~NotGranted)
    BY <1>4
  <2>2. data' # << >> /\ ~NotGranted' => data'[Len(data')].s = K'
    BY <1>2, <2>1 DEF Frames
  <2> QED BY <1>2, <2>1, <2>2 DEF Frames
<1> QED BY <1>2, <1>3, <1>4, <1>5, <1>6

\* The buffer being filled is the same.
SameBuffer(r, q) ==
    /\ q.current = r.current /\ q.bytes = r.bytes /\ q.last = r.last /\ q.sink = r.sink

\* The first message of a stream without an ID is refused.
LEMMA InitiateRefused ==
    ASSUME Core, rcv.bad = "none", toRcv # << >>, toRcv' = Tail(toRcv),
           toSnd' = Append(toSnd, [kind |-> "REPLY", sid |-> INVALID_STREAM_ID,
                                   reply |-> "error", size |-> 0]),
           rcv' = [rcv EXCEPT !.initHandler = FALSE],
           UNCHANGED <<snd, read, data, sizes, inUse, nextId>>
    PROVE  Core' /\ Unharmed'
<1> DEFINE m == [kind |-> "REPLY", sid |-> INVALID_STREAM_ID, reply |-> "error", size |-> 0]
<1> USE DEF Core
<1>1. m \in Reply \cup Proceed /\ ~Gives(m)
  <2>1. INVALID_STREAM_ID \in StreamIds
    BY StreamAssumption DEF StreamIds, INVALID_STREAM_ID
  <2> QED BY <2>1 DEF Reply, Gives
<1>2. toSnd' = Append(toSnd, m) /\ Types
  OBVIOUS
<1> HIDE DEF m
<1>3. /\ toSnd' \in Seq(Reply \cup Proceed)
      /\ \A i \in Grants' : i \in Grants /\ toSnd'[i] = toSnd[i]
  BY <1>1, <1>2, SndAppend
<1>4. \A i \in Grants : i \in Grants' /\ toSnd'[i] = toSnd[i]
  <2>1. /\ Len(toSnd) \in Nat /\ Len(toSnd') = Len(toSnd) + 1
        /\ \A i \in 1..Len(toSnd) : toSnd'[i] = toSnd[i]
    BY <1>1, <1>2, AppendIs DEF Types
  <2> QED BY <2>1 DEF Grants
<1>5. Grants' = Grants
  BY <1>3, <1>4
<1>6. /\ rcv \in Receiver /\ Control /\ Buffer /\ Sink
  BY DEF Types
<1>7. /\ rcv' \in Receiver /\ SameBuffer(rcv, rcv') /\ rcv'.pc = rcv.pc
      /\ rcv'.queued = rcv.queued /\ rcv'.isWaiting = rcv.isWaiting
      /\ rcv'.pendingInit = rcv.pendingInit /\ rcv'.pendingCancel = rcv.pendingCancel
      /\ rcv'.closed = rcv.closed /\ rcv'.srcId = rcv.srcId /\ rcv'.winSize = rcv.winSize
      /\ ~rcv'.initHandler /\ rcv'.completeHandler = rcv.completeHandler
      /\ rcv'.dataHandler = rcv.dataHandler /\ rcv'.result = rcv.result
      /\ rcv'.win = rcv.win /\ rcv'.total = rcv.total /\ rcv'.bad = "none"
  BY <1>6 DEF Receiver, SameBuffer
<1>8. Opening' <=> Opening
  BY <1>7 DEF Opening
<1>9. /\ Ids' /\ SenderInv' /\ Messages' /\ Granted' /\ Frames' /\ K' = K
  BY <1>4, <1>5, <1>7, <1>8, TakenKeeps
<1>10. /\ toRcv' \in Seq(ToReceiver)
       /\ \A i \in Closes' : i + 1 \in Closes /\ toRcv'[i] = toRcv[i + 1]
  BY <1>2, RcvTail
<1>11. Types'
  BY <1>3, <1>7, <1>10 DEF Types
<1>12. Control'
  BY <1>6, <1>7, <1>8, <1>10, ZenonT(40) DEF Control
<1>13. Buffer' /\ Sink'
  BY <1>6, <1>7 DEF Buffer, Sink, Stored, SameBuffer
<1>14. Flow'
  <2>1. InFlight' = InFlight /\ Flow /\ data' = data /\ sizes' = sizes
    BY DEF InFlight
  <2>2. rcv.dataHandler /\ rcv.completeHandler =>
           \A i \in Closes' : toRcv'[i].sid = rcv.srcId =>
               rcv.total + InFlight = toRcv'[i].size /\ InFlight < rcv.win
    BY <1>10, <2>1 DEF Flow
  <2> QED BY <1>7, <2>1, <2>2 DEF Flow
<1>15. Window'
  <2>1. /\ InFlight' = InFlight /\ Window /\ (Linked' <=> Linked)
        /\ snd' = snd /\ data' = data
    BY <1>7 DEF InFlight, Linked
  <2>2. \A i \in Closes' : toRcv'[i].sid = snd.sid =>
             snd.win > 0 /\ snd.pc = "idle" /\ snd.state \in {"CLOSING", "IDLE"}
    BY <1>10, <2>1 DEF Window
  <2>3. ASSUME Linked, NEW i \in Grants', toSnd'[i].sid = snd.sid
        PROVE  /\ snd.win = 0 /\ data = << >> /\ rcv.win = rcv.winSize
               /\ toSnd'[i].kind = "REPLY" =>
                     toSnd'[i].size = rcv.winSize /\ snd.proceedHandlers = 0
               /\ \A j \in Grants' : toSnd'[j].sid = snd.sid => i = j
    <3>1. i \in Grants /\ toSnd'[i] = toSnd[i] /\ Grants' = Grants
      BY <1>4, <1>5
    <3>2. \A j \in Grants : toSnd'[j].sid = snd.sid => toSnd[j].sid = snd.sid
      BY <1>4
    <3> QED BY <2>1, <2>3, <3>1, <3>2 DEF Window
  <2>4. Linked /\ (\A i \in Grants : toSnd[i].sid # snd.sid) =>
           \A i \in Grants' : toSnd'[i].sid # snd.sid
    BY <1>4, <1>5
  <2>5. /\ rcv.srcId = snd.sid /\ rcv.srcId # INVALID_STREAM_ID /\ rcv.completeHandler
              /\ snd.proceedHandlers = 1 => snd.winSize = rcv.winSize
        /\ Linked =>
             /\ rcv.total + InFlight = snd.total
             /\ ~rcv.closed => InFlight + snd.win <= rcv.win
             /\ snd.pc = "received_init_stream" /\ snd.reply = "accept" =>
                   /\ snd.win = 0 /\ data = << >> /\ rcv.win = rcv.winSize
                   /\ snd.winSize = rcv.winSize
                   /\ \A i \in Grants' : toSnd'[i].sid # snd.sid
             /\ rcv.closed => snd.win > 0 /\ snd.pc = "idle" /\ snd.state \in {"CLOSING", "IDLE"}
    BY <2>1, <2>4 DEF Window
  <2> QED BY <1>7, <2>1, <2>2, <2>3, <2>5, ZenonT(40) DEF Window
<1> QED BY <1>7, <1>9, <1>11, <1>12, <1>13, <1>14, <1>15 DEF Unharmed, LastBufferThere, NotifiedOnce

\* The first message of a stream: its ID is the receiver's from now on.
LEMMA InitiateTaken ==
    ASSUME Core, rcv.bad = "none", toRcv # << >>, toRcv' = Tail(toRcv),
           NEW m, m = Head(toRcv), m.kind = "INITIATE", m.sid # INVALID_STREAM_ID,
           data = << >>, rcv.initHandler,
           NEW size, size = Smaller(m.size, rcv.winSize),
           rcv' = Notify([rcv EXCEPT !.srcId = m.sid, !.winSize = size,
                                     !.win = size, !.total = 0,
                                     !.completeHandler = TRUE,
                                     !.initHandler = FALSE,
                                     !.pendingInit = TRUE]),
           UNCHANGED <<snd, read, toSnd, data, sizes, inUse, nextId>>
    PROVE  Core' /\ Unharmed'
<1> DEFINE r == [rcv EXCEPT !.srcId = m.sid, !.winSize = size,
                            !.win = size, !.total = 0, !.completeHandler = TRUE,
                            !.initHandler = FALSE, !.pendingInit = TRUE]
<1> USE DEF Core
<1>1. /\ toRcv' \in Seq(ToReceiver) /\ m = toRcv[1] /\ m \in ToReceiver /\ 1 \in Inits
      /\ \A i \in Inits' : i \in Nat /\ i + 1 \in Inits /\ toRcv'[i] = toRcv[i + 1]
      /\ \A i \in Closes' : i + 1 \in Closes /\ toRcv'[i] = toRcv[i + 1]
  <2>1. /\ toRcv' \in Seq(ToReceiver) /\ m = toRcv[1] /\ m \in ToReceiver /\ 1 \in 1..Len(toRcv)
        /\ \A i \in Inits' : i \in Nat /\ i + 1 \in Inits /\ toRcv'[i] = toRcv[i + 1]
        /\ \A i \in Closes' : i + 1 \in Closes /\ toRcv'[i] = toRcv[i + 1]
    BY RcvTail
  <2>2. 1 \in Inits
    BY <2>1 DEF Inits
  <2> QED BY <2>1, <2>2
<1>2. /\ rcv \in Receiver /\ Control /\ Buffer /\ Sink /\ Messages /\ Window
  BY DEF Types
<1>3. /\ m.sid < K /\ m.size > 0 /\ (snd.state = "STARTED" => m.sid # snd.sid)
      /\ m.sid \in StreamIds /\ m.size \in Nat
  BY <1>1, <1>2 DEF Messages, ToReceiver
<1>4. size \in Nat /\ size > 0
  <2>1. rcv.winSize \in Nat /\ rcv.winSize > 0
    BY <1>2 DEF Receiver, Control
  <2>2. size = m.size \/ size = rcv.winSize
    BY DEF Smaller
  <2> QED BY <1>3, <2>1, <2>2
<1>5. /\ rcv.srcId = INVALID_STREAM_ID /\ ~rcv.completeHandler /\ ~rcv.dataHandler
      /\ ~rcv.pendingInit /\ rcv.pc = "wakeup" /\ ~rcv.closed
      /\ rcv.queued => rcv.pendingCancel
  BY <1>2 DEF Control
<1>6. NotGranted
  BY <1>1 DEF Granted, Early
<1>7. /\ r \in Receiver /\ r.srcId = m.sid /\ r.winSize = size /\ r.win = size
      /\ r.total = 0 /\ r.completeHandler /\ ~r.initHandler /\ r.pendingInit
      /\ r.pc = "wakeup" /\ r.pendingCancel = rcv.pendingCancel /\ r.queued = rcv.queued
      /\ ~r.closed /\ ~r.dataHandler /\ SameBuffer(rcv, r) /\ r.result = rcv.result
      /\ r.bad = "none"
  <2> DEFINE z == 0
  <2>1. z \in Nat
    OBVIOUS
  <2>2. r = [rcv EXCEPT !.srcId = m.sid, !.winSize = size, !.win = size, !.total = z,
                        !.completeHandler = TRUE, !.initHandler = FALSE,
                        !.pendingInit = TRUE]
    OBVIOUS
  <2> HIDE DEF r, z
  <2>3. r \in Receiver
    BY <1>2, <1>3, <1>4, <2>1, <2>2, ZenonT(40) DEF Receiver
  <2>4. /\ r.srcId = m.sid /\ r.winSize = size /\ r.win = size /\ r.total = z
        /\ r.completeHandler /\ ~r.initHandler /\ r.pendingInit
        /\ r.pc = rcv.pc /\ r.pendingCancel = rcv.pendingCancel /\ r.queued = rcv.queued
        /\ r.closed = rcv.closed /\ r.dataHandler = rcv.dataHandler
        /\ r.result = rcv.result /\ r.bad = rcv.bad
    BY <1>2, <2>2 DEF Receiver
  <2>5. SameBuffer(rcv, r)
    BY <1>2, <2>2 DEF Receiver, SameBuffer
  <2> QED BY <1>5, <2>3, <2>4, <2>5 DEF z
<1>8. rcv' = Notify(r)
  OBVIOUS
<1> HIDE DEF r
<1>9. \/ rcv' = [r EXCEPT !.bad = "notify"] /\ rcv.queued
      \/ rcv' = [r EXCEPT !.queued = TRUE]
  BY <1>7, <1>8 DEF Notify
<1>10. /\ rcv' \in Receiver /\ rcv'.srcId = r.srcId /\ rcv'.winSize = r.winSize
       /\ rcv'.win = r.win /\ rcv'.total = r.total
       /\ rcv'.completeHandler = r.completeHandler /\ rcv'.initHandler = r.initHandler
       /\ rcv'.pendingInit = r.pendingInit /\ rcv'.pc = r.pc
       /\ rcv'.pendingCancel = r.pendingCancel /\ rcv'.closed = r.closed
       /\ rcv'.dataHandler = r.dataHandler /\ rcv'.result = r.result
       /\ SameBuffer(r, rcv')
       /\ rcv'.bad \in {"none", "notify"} /\ (rcv'.bad = "notify" => rcv.queued)
  <2>1. CASE rcv' = [r EXCEPT !.bad = "notify"] /\ rcv.queued
    BY <1>7, <2>1, ZenonT(40) DEF Receiver, SameBuffer
  <2>2. CASE rcv' = [r EXCEPT !.queued = TRUE]
    <3>1. rcv' \in Receiver
      BY <1>7, <2>2 DEF Receiver
    <3>2. SameBuffer(r, rcv')
      BY <1>7, <2>2 DEF Receiver, SameBuffer
    <3>3. /\ rcv'.srcId = r.srcId /\ rcv'.winSize = r.winSize
          /\ rcv'.win = r.win /\ rcv'.total = r.total
          /\ rcv'.completeHandler = r.completeHandler /\ rcv'.initHandler = r.initHandler
          /\ rcv'.pendingInit = r.pendingInit /\ rcv'.pc = r.pc
          /\ rcv'.pendingCancel = r.pendingCancel /\ rcv'.closed = r.closed
          /\ rcv'.dataHandler = r.dataHandler /\ rcv'.result = r.result
          /\ rcv'.bad = "none"
      BY <1>7, <2>2, ZenonT(40) DEF Receiver
    <3> QED BY <3>1, <3>2, <3>3
  <2> QED BY <1>9, <2>1, <2>2
<1>11. /\ rcv' \in Receiver /\ rcv'.srcId = m.sid /\ rcv'.winSize = size /\ rcv'.win = size
       /\ rcv'.total = 0 /\ rcv'.completeHandler /\ ~rcv'.initHandler /\ rcv'.pendingInit
       /\ rcv'.pc = "wakeup" /\ rcv'.pendingCancel = rcv.pendingCancel
       /\ ~rcv'.closed /\ ~rcv'.dataHandler /\ SameBuffer(rcv, rcv')
       /\ rcv'.result = rcv.result
       /\ rcv'.bad \in {"none", "notify"} /\ (rcv'.bad = "notify" => rcv.queued)
  <2>1. SameBuffer(rcv, rcv')
    BY <1>7, <1>10 DEF SameBuffer
  <2>2. /\ rcv' \in Receiver /\ rcv'.srcId = m.sid /\ rcv'.winSize = size /\ rcv'.win = size
        /\ rcv'.total = 0 /\ rcv'.pc = "wakeup" /\ rcv'.pendingCancel = rcv.pendingCancel
        /\ rcv'.result = rcv.result
    BY <1>7, <1>10
  <2>3. /\ rcv'.completeHandler /\ ~rcv'.initHandler /\ rcv'.pendingInit
        /\ ~rcv'.closed /\ ~rcv'.dataHandler
    BY <1>7, <1>10
  <2> QED BY <1>10, <2>1, <2>2, <2>3
<1>12. Unharmed'
  BY <1>5, <1>11 DEF Unharmed, LastBufferThere, NotifiedOnce
<1>13. Grants' = Grants /\ InFlight' = InFlight /\ Ids' /\ SenderInv' /\ K' = K
  BY SenderStays DEF Grants, Gives, InFlight
<1>14. Types'
  BY <1>1, <1>11 DEF Types
<1>15. \A i \in Closes' : toRcv'[i].sid # m.sid
  <2> SUFFICES ASSUME NEW i \in Closes' PROVE toRcv'[i].sid # m.sid
    OBVIOUS
  <2>1. i + 1 \in Closes /\ toRcv'[i] = toRcv[i + 1] /\ 1 \in Inits /\ m = toRcv[1]
    BY <1>1
  <2>2. toRcv[1].sid # toRcv[i + 1].sid
    BY <1>2, <2>1 DEF Messages
  <2> QED BY <2>1, <2>2
<1>16. Messages'
  <2>1. ASSUME NEW i \in Inits'
        PROVE  /\ toRcv'[i].sid < K /\ toRcv'[i].size > 0 /\ m.sid < toRcv'[i].sid
               /\ snd.state = "STARTED" => toRcv'[i].sid # snd.sid
    <3>1. i \in Nat /\ i + 1 \in Inits /\ toRcv'[i] = toRcv[i + 1]
      BY <1>1
    <3>2. 1 < i + 1
      <4>1. i # 0
        BY <2>1 DEF Inits
      <4> QED BY <3>1, <4>1
    <3>3. m.sid < toRcv[i + 1].sid
      BY <1>1, <1>2, <3>1, <3>2 DEF Messages
    <3> QED BY <1>2, <3>1, <3>3 DEF Messages
  <2>2. ASSUME NEW i \in Inits', NEW j \in Inits', i < j
        PROVE  toRcv'[i].sid < toRcv'[j].sid
    <3>1. /\ i \in Nat /\ i + 1 \in Inits /\ toRcv'[i] = toRcv[i + 1]
          /\ j \in Nat /\ j + 1 \in Inits /\ toRcv'[j] = toRcv[j + 1]
      BY <1>1
    <3>2. i + 1 < j + 1
      BY <2>2, <3>1
    <3> QED BY <1>2, <3>1, <3>2 DEF Messages
  <2>3. ASSUME NEW i \in Closes'
        PROVE  /\ toRcv'[i].sid # INVALID_STREAM_ID /\ toRcv'[i].sid < K
               /\ toRcv'[i].size = sizes[toRcv'[i].sid + 1]
               /\ \A j \in Inits' : toRcv'[j].sid # toRcv'[i].sid
    <3>1. i + 1 \in Closes /\ toRcv'[i] = toRcv[i + 1]
      BY <1>1
    <3>2. /\ toRcv[i + 1].sid # INVALID_STREAM_ID /\ toRcv[i + 1].sid < K
          /\ toRcv[i + 1].size = sizes[toRcv[i + 1].sid + 1]
          /\ \A j \in Inits : toRcv[j].sid # toRcv[i + 1].sid
      BY <1>2, <3>1 DEF Messages
    <3>3. \A j \in Inits' : j + 1 \in Inits /\ toRcv'[j] = toRcv[j + 1]
      BY <1>1
    <3> QED BY <3>1, <3>2, <3>3
  <2>4. \A i \in Grants' : toSnd'[i].sid # INVALID_STREAM_ID /\ toSnd'[i].sid < K
    BY <1>2, <1>13 DEF Messages
  <2>5. sizes' = sizes /\ snd' = snd /\ K' = K
    BY <1>13
  <2>6. rcv'.srcId < K' /\ (snd'.state = "STARTED" => rcv'.srcId # snd'.sid)
    BY <1>3, <1>11, <2>5
  <2>7. \A i \in Inits' : /\ toRcv'[i].sid < K' /\ toRcv'[i].size > 0
                          /\ rcv'.srcId < toRcv'[i].sid
                          /\ snd'.state = "STARTED" => toRcv'[i].sid # snd'.sid
    <3>1. rcv'.srcId = m.sid
      BY <1>11
    <3> QED BY <2>1, <2>5, <3>1
  <2> QED BY <2>2, <2>3, <2>4, <2>5, <2>6, <2>7 DEF Messages
<1>17. NotGranted'
  BY <1>1, <1>6, <1>13 DEF NotGranted
<1>18. Granted'
  BY <1>17 DEF Granted
<1>19. Frames'
  <2>1. Frames /\ data' = data /\ K' = K /\ snd' = snd
    BY <1>13
  <2> QED BY <1>17, <2>1 DEF Frames
<1>20. Control'
  <2>1. Opening' /\ rcv'.srcId # INVALID_STREAM_ID /\ rcv'.total = 0 /\ ~rcv'.closed
    BY <1>11 DEF Opening
  <2>2. rcv'.win = rcv'.winSize /\ rcv'.winSize > 0 /\ data' = << >>
    BY <1>4, <1>11
  <2>3. \A i \in Closes' : toRcv'[i].sid # rcv'.srcId
    <3>1. rcv'.srcId = m.sid
      BY <1>11
    <3> QED BY <1>15, <3>1
  <2> QED BY <1>11, <2>1, <2>2, <2>3 DEF Control
<1>21. Buffer'
  BY <1>2, <1>5, <1>11 DEF Buffer, SameBuffer
<1>22. Sink'
  <2>1. Stored' = << >>
    BY <1>2, <1>5, <1>11 DEF Sink, Stored, SameBuffer
  <2>2. Bytes(m.sid + 1, 0, 0) = << >>
    <3>1. m.sid + 1 \in Nat /\ 0 \in Nat /\ 0 <= 0 /\ 0 - 0 = 0
      BY <1>3, StreamAssumption DEF StreamIds, INVALID_STREAM_ID
    <3>2. Bytes(m.sid + 1, 0, 0) \in Seq(Byte) /\ Len(Bytes(m.sid + 1, 0, 0)) = 0
      BY <3>1, BytesAre
    <3> QED BY <3>2, EmptySeq
  <2>3. rcv'.result # "ok"
    BY <1>2, <1>5, <1>11 DEF Sink
  <2> QED BY <1>11, <2>1, <2>2, <2>3 DEF Sink
<1>23. Flow'
  BY <1>11 DEF Flow
<1>24. Window'
  <2>1. ~Linked' /\ snd'.proceedHandlers # 1
    BY <1>6, <1>11 DEF Linked, NotGranted
  <2>2. \A i \in Closes' : toRcv'[i].sid # snd'.sid
    BY <1>17 DEF NotGranted
  <2> QED BY <2>1, <2>2 DEF Window
<1> QED BY <1>12, <1>13, <1>14, <1>16, <1>18, <1>19, <1>20, <1>21, <1>22, <1>23, <1>24

\* A message of the protocol that opens a stream.
LEMMA InitiateKeeps ==
    ASSUME Core, rcv.bad = "none", HandleStreamInitiate
    PROVE  Core' /\ Unharmed'
<1> DEFINE m == Head(toRcv)
           size == Smaller(m.size, rcv.winSize)
<1>1. /\ toRcv # << >> /\ m.kind = "INITIATE" /\ data = << >> /\ toRcv' = Tail(toRcv)
      /\ UNCHANGED <<snd, read, data, sizes, inUse, nextId>>
  BY DEF HandleStreamInitiate, server
<1>2. \/ ~rcv.initHandler /\ UNCHANGED <<rcv, toSnd>>
      \/ /\ rcv.initHandler
         /\ toSnd' = Append(toSnd, [kind |-> "REPLY", sid |-> INVALID_STREAM_ID,
                                    reply |-> "error", size |-> 0])
         /\ rcv' = [rcv EXCEPT !.initHandler = FALSE]
      \/ /\ rcv.initHandler /\ m.sid # INVALID_STREAM_ID
         /\ rcv' = Notify([rcv EXCEPT !.srcId = m.sid, !.winSize = size,
                                      !.win = size, !.total = 0,
                                      !.completeHandler = TRUE,
                                      !.initHandler = FALSE,
                                      !.pendingInit = TRUE])
         /\ UNCHANGED toSnd
  BY DEF HandleStreamInitiate
<1> HIDE DEF m, size
<1>3. CASE ~rcv.initHandler /\ UNCHANGED <<rcv, toSnd>>
  <2>1. Core'
    BY <1>1, <1>3, LessToRcv
  <2> QED BY <1>3, <2>1 DEF Unharmed, LastBufferThere, NotifiedOnce
<1>4. CASE /\ rcv.initHandler
           /\ toSnd' = Append(toSnd, [kind |-> "REPLY", sid |-> INVALID_STREAM_ID,
                                      reply |-> "error", size |-> 0])
           /\ rcv' = [rcv EXCEPT !.initHandler = FALSE]
  BY <1>1, <1>4, InitiateRefused
<1>5. CASE /\ rcv.initHandler /\ m.sid # INVALID_STREAM_ID
           /\ rcv' = Notify([rcv EXCEPT !.srcId = m.sid, !.winSize = size,
                                        !.win = size, !.total = 0,
                                        !.completeHandler = TRUE,
                                        !.initHandler = FALSE,
                                        !.pendingInit = TRUE])
           /\ UNCHANGED toSnd
  <2>1. m = Head(toRcv) /\ size = Smaller(m.size, rcv.winSize)
    BY DEF m, size
  <2> QED BY <1>1, <1>5, <2>1, InitiateTaken
<1> QED BY <1>2, <1>3, <1>4, <1>5

\* The close message: from now on the receiver waits for what is under way.
LEMMA CompleteKeeps ==
    ASSUME Core, rcv.bad = "none", HandleStreamComplete
    PROVE  Core' /\ Unharmed'
<1> DEFINE m == Head(toRcv)
           w == m.size - rcv.total
           r == [rcv EXCEPT !.closed = TRUE, !.completeHandler = FALSE, !.win = w]
<1> USE DEF Core
<1>1. /\ toRcv # << >> /\ m.kind = "COMPLETE" /\ toRcv' = Tail(toRcv)
      /\ UNCHANGED <<snd, read, toSnd, data, sizes, inUse, nextId>>
      /\ rcv' = IF ~rcv.completeHandler \/ m.sid # rcv.srcId THEN rcv
                ELSE IF r.win = 0 THEN Notify(r) ELSE r
  BY DEF HandleStreamComplete, server
<1>2. CASE ~rcv.completeHandler \/ m.sid # rcv.srcId
  <2>1. rcv' = rcv
    BY <1>1, <1>2
  <2>2. Core'
    BY <1>1, <2>1, LessToRcv
  <2> QED BY <2>1, <2>2 DEF Unharmed, LastBufferThere, NotifiedOnce
<1>3. CASE rcv.completeHandler /\ m.sid = rcv.srcId
  <2>1. /\ toRcv' \in Seq(ToReceiver) /\ m = toRcv[1] /\ 1 \in 1..Len(toRcv)
        /\ \A i \in Closes' : i + 1 \in Closes /\ toRcv'[i] = toRcv[i + 1]
    BY <1>1, RcvTail
  <2>2. 1 \in Closes
    BY <1>1, <2>1 DEF Closes
  <2> HIDE DEF m
  <2>3. /\ rcv \in Receiver /\ Control /\ Buffer /\ Sink /\ Messages /\ Window /\ Flow
    BY DEF Types
  <2>4. ~Opening
    BY <1>3, <2>1, <2>2, <2>3 DEF Control
  <2>5. rcv.dataHandler
    BY <1>3, <2>4 DEF Opening
  <2>6. rcv.total + InFlight = m.size /\ InFlight < rcv.win
    BY <1>3, <2>1, <2>2, <2>3, <2>5 DEF Flow
  <2>7. InFlight \in Nat /\ rcv.total \in Nat /\ rcv.win \in Nat
    BY <2>3, FlightIs DEF Receiver
  <2>8. w = InFlight
    BY <2>6, <2>7
  <2> HIDE DEF w
  <2>9. /\ rcv.pc = "wakeup" /\ ~rcv.initHandler /\ ~rcv.pendingInit
        /\ rcv.queued => rcv.pendingCancel
    <3>1. rcv.win # 0
      BY <2>6, <2>7
    <3> QED BY <2>3, <2>4, <2>5, <3>1 DEF Control
  <2>10. /\ r \in Receiver /\ r.win = w /\ r.closed /\ ~r.completeHandler
         /\ r.pc = rcv.pc /\ r.queued = rcv.queued /\ r.isWaiting = rcv.isWaiting
         /\ r.pendingInit = rcv.pendingInit /\ r.pendingCancel = rcv.pendingCancel
         /\ r.srcId = rcv.srcId /\ r.winSize = rcv.winSize /\ r.total = rcv.total
         /\ r.initHandler = rcv.initHandler /\ r.dataHandler = rcv.dataHandler
         /\ r.result = rcv.result /\ r.bad = "none"
    BY <2>3, <2>7, <2>8 DEF Receiver
  <2>11. SameBuffer(rcv, r)
    BY <2>3 DEF Receiver, SameBuffer
  <2> HIDE DEF r
  <2>12. \/ rcv' = r /\ w # 0
         \/ rcv' = [r EXCEPT !.bad = "notify"] /\ rcv.queued
         \/ rcv' = [r EXCEPT !.queued = TRUE] /\ w = 0
    BY <1>1, <1>3, <2>9, <2>10 DEF Notify
  <2>13. /\ rcv' \in Receiver /\ rcv'.win = r.win /\ rcv'.closed = r.closed
         /\ rcv'.completeHandler = r.completeHandler
         /\ rcv'.pc = r.pc /\ rcv'.isWaiting = r.isWaiting
         /\ rcv'.pendingInit = r.pendingInit /\ rcv'.pendingCancel = r.pendingCancel
         /\ rcv'.srcId = r.srcId /\ rcv'.winSize = r.winSize /\ rcv'.total = r.total
         /\ rcv'.initHandler = r.initHandler /\ rcv'.dataHandler = r.dataHandler
         /\ rcv'.result = r.result /\ SameBuffer(r, rcv')
         /\ rcv'.bad \in {"none", "notify"} /\ (rcv'.bad = "notify" => rcv.queued)
         /\ rcv'.queued => rcv.queued \/ w = 0
    <3>1. CASE rcv' = r /\ w # 0
      BY <2>10, <3>1 DEF SameBuffer
    <3>2. CASE rcv' = [r EXCEPT !.bad = "notify"] /\ rcv.queued
      <4>1. rcv' \in Receiver
        BY <2>10, <3>2 DEF Receiver
      <4>2. SameBuffer(r, rcv')
        BY <2>10, <3>2 DEF Receiver, SameBuffer
      <4> QED BY <2>10, <3>2, <4>1, <4>2 DEF Receiver
    <3>3. CASE rcv' = [r EXCEPT !.queued = TRUE] /\ w = 0
      <4>1. rcv' \in Receiver
        BY <2>10, <3>3 DEF Receiver
      <4>2. SameBuffer(r, rcv')
        BY <2>10, <3>3 DEF Receiver, SameBuffer
      <4> QED BY <2>10, <3>3, <4>1, <4>2, ZenonT(40) DEF Receiver
    <3> QED BY <2>12, <3>1, <3>2, <3>3
  <2>14. /\ rcv'.win = InFlight /\ rcv'.closed /\ ~rcv'.completeHandler
         /\ rcv'.pc = "wakeup" /\ ~rcv'.pendingInit /\ rcv'.pendingCancel = rcv.pendingCancel
         /\ rcv'.srcId = rcv.srcId /\ rcv'.winSize = rcv.winSize /\ rcv'.total = rcv.total
         /\ ~rcv'.initHandler /\ rcv'.dataHandler /\ rcv'.result = rcv.result
    BY <2>5, <2>8, <2>9, <2>10, <2>13
  <2>15. SameBuffer(rcv, rcv')
    BY <2>11, <2>13 DEF SameBuffer
  <2>16. rcv'.queued => rcv.pendingCancel \/ InFlight = 0
    BY <2>8, <2>9, <2>13
  <2>17. Unharmed'
    BY <2>9, <2>13, <2>14 DEF Unharmed, LastBufferThere, NotifiedOnce
  <2>18. Grants' = Grants /\ InFlight' = InFlight
    BY <1>1 DEF Grants, Gives, InFlight
  <2>19. ~Opening'
    BY <2>14 DEF Opening
  <2>20. Ids' /\ SenderInv' /\ Messages' /\ Granted' /\ Frames' /\ K' = K
    <3>1. \A i \in Grants : toSnd'[i] = toSnd[i]
      BY <1>1
    <3>2. rcv'.srcId = rcv.srcId
      BY <2>14
    <3> QED BY <1>1, <2>18, <2>19, <3>1, <3>2, TakenKeeps
  <2>21. Types'
    BY <1>1, <2>1, <2>13 DEF Types
  <2>22. Control'
    <3>1. rcv.srcId # INVALID_STREAM_ID /\ rcv.winSize > 0
      BY <2>3, <2>5 DEF Control
    <3> QED BY <2>14, <2>16, <2>19, <3>1 DEF Control
  <2>23. Buffer'
    <3>1. rcv.win > 0
      BY <2>6, <2>7
    <3>2. /\ rcv.current = "last" => Len(rcv.bytes) + rcv.win <= RawSize
          /\ rcv.current # "last" => rcv.last
          /\ Len(rcv.bytes) < RawSize
          /\ rcv.current = "none" => rcv.bytes = << >>
      BY <2>3, <2>5, <3>1 DEF Buffer
    <3>3. Len(rcv.bytes) \in Nat
      BY <2>3, LenProperties DEF Receiver
    <3>4. rcv.current = "last" => Len(rcv.bytes) + InFlight <= RawSize
      BY <2>6, <2>7, <3>2, <3>3, StreamAssumption
    <3> QED BY <2>14, <2>15, <3>2, <3>4 DEF Buffer, SameBuffer
  <2>24. Sink'
    <3>1. rcv.result # "ok"
      BY <2>3, <2>9 DEF Sink
    <3> QED BY <1>1, <2>3, <2>14, <2>15, <3>1 DEF Sink, Stored, SameBuffer
  <2>25. Flow'
    <3>1. /\ data # << >> => data[1].s = rcv.srcId + 1 /\ data[1].lo = rcv.total
      BY <2>3, <2>5 DEF Flow
    <3>2. m.size = sizes[rcv.srcId + 1]
      BY <1>3, <2>1, <2>2, <2>3 DEF Messages
    <3>3. InFlight <= InFlight
      BY <2>7
    <3> QED BY <1>1, <2>6, <2>14, <2>18, <3>1, <3>2, <3>3 DEF Flow
  <2>26. Window'
    <3>1. \A i \in Closes' : toRcv'[i].sid = snd'.sid =>
               snd'.win > 0 /\ snd'.pc = "idle" /\ snd'.state \in {"CLOSING", "IDLE"}
      BY <1>1, <2>1, <2>3 DEF Window
    <3>2. ASSUME Linked'
          PROVE  /\ snd.win > 0 /\ snd.pc = "idle" /\ snd.state \in {"CLOSING", "IDLE"}
                 /\ rcv.total + InFlight = snd.total
                 /\ \A i \in Grants : toSnd[i].sid # snd.sid
      <4>1. Linked
        BY <1>1, <2>5, <2>14, <3>2 DEF Linked
      <4>2. snd.win > 0 /\ snd.pc = "idle" /\ snd.state \in {"CLOSING", "IDLE"}
        BY <1>3, <2>1, <2>2, <2>3, <4>1 DEF Window, Linked
      <4>3. snd.win # 0
        BY <4>2 DEF Types, Sender
      <4> QED BY <2>3, <4>1, <4>2, <4>3 DEF Window
    <3> QED BY <1>1, <2>14, <2>18, <3>1, <3>2 DEF Window
  <2> QED BY <2>17, <2>20, <2>21, <2>22, <2>23, <2>24, <2>25, <2>26
<1> QED BY <1>2, <1>3

\* The receiver grants a window: the opening of its stream, if it is the newest
\* one, is over.
LEMMA GrantKeeps ==
    ASSUME Core, NEW m \in Reply \cup Proceed, Gives(m), m.sid = rcv.srcId,
           rcv.srcId # INVALID_STREAM_ID, toSnd' = Append(toSnd, m), data = << >>,
           UNCHANGED <<snd, read, toRcv, data, sizes, inUse, nextId>>,
           rcv' \in Receiver, rcv'.srcId = rcv.srcId, ~Opening'
    PROVE  /\ Types' /\ Ids' /\ SenderInv' /\ Messages' /\ Granted' /\ Frames'
           /\ K' = K /\ Inits' = Inits /\ Closes' = Closes /\ InFlight' = InFlight
           /\ toSnd'[Len(toSnd) + 1] = m
           /\ \A i \in Grants' : \/ i \in Grants /\ toSnd'[i] = toSnd[i]
                                 \/ i = Len(toSnd) + 1
<1> USE DEF Core
<1>1. /\ toSnd' \in Seq(Reply \cup Proceed) /\ toSnd'[Len(toSnd) + 1] = m
      /\ \A i \in Grants' : \/ i \in Grants /\ toSnd'[i] = toSnd[i]
                            \/ i = Len(toSnd) + 1
  <2>1. Types
    OBVIOUS
  <2> QED BY <2>1, SndAppend
<1>2. Inits' = Inits /\ Closes' = Closes /\ InFlight' = InFlight
  BY DEF Inits, Closes, InFlight
<1>3. Ids' /\ SenderInv' /\ K' = K
  BY SenderStays
<1>4. Types'
  BY <1>1 DEF Types
<1>5. Messages
  OBVIOUS
<1>6. rcv.srcId < K /\ (snd.state = "STARTED" => rcv.srcId # snd.sid)
  BY <1>5 DEF Messages
<1>7. Messages'
  <2>1. \A i \in Grants' : toSnd'[i].sid # INVALID_STREAM_ID /\ toSnd'[i].sid < K
    BY <1>1, <1>5, <1>6 DEF Messages
  <2>2. /\ UNCHANGED <<toRcv, sizes>> /\ rcv'.srcId = rcv.srcId /\ snd'.sid = snd.sid
        /\ snd'.state = "STARTED" => snd.state = "STARTED"
    OBVIOUS
  <2> QED BY <2>1, <2>2, MessagesKeep
<1>8. rcv.srcId = snd.sid => Inits = {}
  <2> SUFFICES ASSUME rcv.srcId = snd.sid, NEW i \in Inits PROVE FALSE
    OBVIOUS
  <2>1. snd.sid = K - 1 /\ K \in Nat /\ toRcv[i].sid \in Nat
    BY SidIs
  <2>2. rcv.srcId < toRcv[i].sid /\ toRcv[i].sid < K
    BY <1>5 DEF Messages
  <2> QED BY <2>1, <2>2
<1>9. Granted'
  <2> SUFFICES ASSUME Early' PROVE NotGranted'
    BY DEF Granted
  <2>1. Early
    BY <1>2 DEF Early
  <2>2. NotGranted
    BY <2>1 DEF Granted
  <2>3. rcv.srcId # snd.sid
    BY <1>2, <1>6, <1>8 DEF Early
  <2>4. \A i \in Grants' : toSnd'[i].sid # snd'.sid
    BY <1>1, <2>2, <2>3 DEF NotGranted
  <2> QED BY <1>2, <2>2, <2>4 DEF NotGranted
<1>10. Frames'
  <2>1. Frames /\ data' = data /\ K' = K /\ snd' = snd
    BY <1>3
  <2> QED BY <2>1 DEF Frames
<1> QED BY <1>1, <1>2, <1>3, <1>4, <1>7, <1>9, <1>10

\* A cancelled request returns instead of waiting.
LEMMA WaitCancelled ==
    ASSUME NEW r \in Receiver, r.current = "none" => r.bytes = << >>, r.pendingCancel
    PROVE  LET q == WaitForWakeup(r) IN
           /\ q \in Receiver /\ q.pc = "idle" /\ ~q.dataHandler /\ q.result = "canceled"
           /\ ~q.queued /\ ~q.isWaiting /\ q.srcId = r.srcId /\ q.winSize = r.winSize
           /\ ~q.initHandler /\ ~q.completeHandler /\ q.win = r.win /\ q.total = r.total
           /\ q.bad = r.bad /\ q.current = "none" /\ q.bytes = << >>
           /\ q.sink \o q.bytes = r.sink \o r.bytes
<1> DEFINE s == [r EXCEPT !.queued = FALSE, !.isWaiting = FALSE]
           u == [s EXCEPT !.initHandler = FALSE, !.completeHandler = FALSE]
           v == Return(u, "canceled")
<1>1. /\ s \in Receiver /\ ~s.queued /\ ~s.isWaiting /\ s.pendingCancel
      /\ s.srcId = r.srcId /\ s.winSize = r.winSize /\ s.win = r.win /\ s.total = r.total
      /\ s.bad = r.bad /\ s.current = r.current /\ s.bytes = r.bytes /\ s.sink = r.sink
  BY DEF Receiver
<1>2. WaitForWakeup(r) = v
  BY <1>1 DEF WaitForWakeup, Wakeup, UnregisterHandlers
<1> HIDE DEF s
<1>3. /\ u \in Receiver /\ ~u.queued /\ ~u.isWaiting /\ ~u.initHandler /\ ~u.completeHandler
      /\ u.srcId = s.srcId /\ u.winSize = s.winSize /\ u.win = s.win /\ u.total = s.total
      /\ u.bad = s.bad /\ u.current = s.current /\ u.bytes = s.bytes /\ u.sink = s.sink
  BY <1>1 DEF Receiver
<1> HIDE DEF u
<1>4. /\ v \in Receiver /\ v.pc = "idle" /\ ~v.dataHandler /\ v.result = "canceled"
      /\ v.queued = u.queued /\ v.isWaiting = u.isWaiting /\ v.srcId = u.srcId
      /\ v.winSize = u.winSize /\ v.initHandler = u.initHandler
      /\ v.completeHandler = u.completeHandler /\ v.win = u.win /\ v.total = u.total
      /\ v.bad = u.bad /\ v.current = "none" /\ v.bytes = << >>
      /\ v.sink \o v.bytes = u.sink \o u.bytes
  <2>1. u \in Receiver /\ (u.current = "none" => u.bytes = << >>)
    BY <1>1, <1>3
  <2> QED BY <2>1, ReturnIs, ZenonT(40)
<1> HIDE DEF v
<1>5. /\ v \in Receiver /\ v.pc = "idle" /\ ~v.dataHandler /\ v.result = "canceled"
      /\ ~v.queued /\ ~v.isWaiting /\ v.srcId = r.srcId /\ v.winSize = r.winSize
      /\ ~v.initHandler /\ ~v.completeHandler /\ v.win = r.win /\ v.total = r.total
      /\ v.bad = r.bad /\ v.current = "none" /\ v.bytes = << >>
      /\ v.sink \o v.bytes = r.sink \o r.bytes
  BY <1>1, <1>3, <1>4, ZenonT(40)
<1> DEFINE w == WaitForWakeup(r)
<1>6. w = v
  BY <1>2
<1> HIDE DEF w
<1>7. /\ w \in Receiver /\ w.pc = "idle" /\ ~w.dataHandler /\ w.result = "canceled"
      /\ ~w.queued /\ ~w.isWaiting /\ w.srcId = r.srcId /\ w.winSize = r.winSize
      /\ ~w.initHandler /\ ~w.completeHandler /\ w.win = r.win /\ w.total = r.total
      /\ w.bad = r.bad /\ w.current = "none" /\ w.bytes = << >>
      /\ w.sink \o w.bytes = r.sink \o r.bytes
  BY <1>5, <1>6
<1> QED BY <1>7 DEF w

\* The parts of the invariant about the receiver, when its request is over.
LEMMA OverKeeps ==
    ASSUME Core, rcv'.pc = "idle", ~rcv'.dataHandler, ~rcv'.initHandler,
           ~rcv'.completeHandler, ~rcv'.queued, ~rcv'.isWaiting, rcv'.result = "canceled",
           rcv'.srcId = rcv.srcId, rcv'.winSize = rcv.winSize, rcv'.total = rcv.total,
           rcv'.current = "none", rcv'.bytes = << >>, Stored' = Stored,
           UNCHANGED <<snd, toRcv, data, sizes>>
    PROVE  Control' /\ Buffer' /\ Sink' /\ Flow' /\ Window' /\ ~Opening'
<1> USE DEF Core
<1>1. ~Opening' /\ ~Linked' /\ Closes' = Closes
  BY DEF Opening, Linked, Closes
<1>2. Control'
  <2>1. rcv.winSize > 0
    BY DEF Control
  <2> QED BY <1>1, <2>1 DEF Control
<1>3. Buffer'
  BY DEF Buffer
<1>4. Sink'
  BY DEF Sink
<1>5. Flow'
  BY DEF Flow
<1>6. Window'
  <2>1. Window
    OBVIOUS
  <2> QED BY <1>1, <2>1 DEF Window
<1> QED BY <1>1, <1>2, <1>3, <1>4, <1>5, <1>6

\* The first window is opened.
LEMMA InitReadyKeeps ==
    ASSUME Core, rcv.bad = "none", InitBufferReady
    PROVE  Core' /\ Unharmed'
<1> DEFINE m == [kind |-> "REPLY", sid |-> rcv.srcId, reply |-> "accept", size |-> rcv.winSize]
           r == [rcv EXCEPT !.last = TRUE, !.dataHandler = TRUE]
<1> USE DEF Core
<1>1. /\ rcv.pc = "init_buffer_ready" /\ rcv' = WaitForWakeup(r)
      /\ toSnd' = Append(toSnd, m)
      /\ UNCHANGED <<snd, read, toRcv, data, sizes, inUse, nextId>>
  BY DEF InitBufferReady, server
<1>2. /\ rcv \in Receiver /\ Control /\ Buffer /\ Sink /\ Messages /\ Window
  BY DEF Types
<1>3. /\ Opening /\ rcv.srcId # INVALID_STREAM_ID /\ rcv.total = 0 /\ ~rcv.closed
      /\ rcv.win = rcv.winSize /\ data = << >> /\ rcv.completeHandler /\ ~rcv.dataHandler
      /\ \A i \in Closes : toRcv[i].sid # rcv.srcId
      /\ ~rcv.queued /\ ~rcv.pendingInit /\ ~rcv.initHandler /\ rcv.winSize > 0
  <2>1. Opening
    BY <1>1, <1>2 DEF Control
  <2> QED BY <1>1, <1>2, <2>1 DEF Control, Opening
<1>4. rcv.current = "none" /\ rcv.bytes = << >> /\ rcv.result # "ok"
  BY <1>1, <1>2, <1>3 DEF Buffer, Sink
<1>5. NotGranted
  BY <1>3 DEF Granted, Early
<1>6. /\ m \in Reply \cup Proceed /\ Gives(m) /\ m.sid = rcv.srcId /\ m.kind = "REPLY"
      /\ m.size = rcv.winSize
  BY <1>2 DEF Reply, Gives, Receiver
<1> HIDE DEF m
<1>7. /\ r \in Receiver /\ r.last /\ r.dataHandler /\ r.pc = rcv.pc /\ r.queued = rcv.queued
      /\ r.pendingInit = rcv.pendingInit /\ r.pendingCancel = rcv.pendingCancel
      /\ r.closed = rcv.closed /\ r.srcId = rcv.srcId /\ r.winSize = rcv.winSize
      /\ r.win = rcv.win /\ r.total = rcv.total /\ r.current = rcv.current
      /\ r.bytes = rcv.bytes /\ r.initHandler = rcv.initHandler
      /\ r.completeHandler = rcv.completeHandler /\ r.sink = rcv.sink
      /\ r.result = rcv.result /\ r.bad = "none"
  BY <1>2 DEF Receiver
<1> HIDE DEF r
<1>8. CASE rcv.pendingCancel
  <2>1. /\ rcv' \in Receiver /\ rcv'.pc = "idle" /\ ~rcv'.dataHandler
        /\ rcv'.result = "canceled" /\ ~rcv'.queued /\ ~rcv'.isWaiting
        /\ rcv'.srcId = r.srcId /\ rcv'.winSize = r.winSize /\ ~rcv'.initHandler
        /\ ~rcv'.completeHandler /\ rcv'.total = r.total
        /\ rcv'.bad = r.bad /\ rcv'.current = "none" /\ rcv'.bytes = << >>
        /\ rcv'.sink \o rcv'.bytes = r.sink \o r.bytes
    <3>1. r.pendingCancel /\ (r.current = "none" => r.bytes = << >>)
      BY <1>4, <1>7, <1>8
    <3> QED BY <1>1, <1>7, <3>1, WaitCancelled
  <2>2. Stored' = Stored
    BY <1>7, <2>1 DEF Stored
  <2>3. /\ rcv'.srcId = rcv.srcId /\ rcv'.winSize = rcv.winSize /\ rcv'.total = rcv.total
        /\ rcv'.bad = "none"
    BY <1>7, <2>1
  <2>4. Control' /\ Buffer' /\ Sink' /\ Flow' /\ Window' /\ ~Opening'
    BY <1>1, <2>1, <2>2, <2>3, OverKeeps
  <2>5. Types' /\ Ids' /\ SenderInv' /\ Messages' /\ Granted' /\ Frames'
    BY <1>1, <1>3, <1>6, <2>1, <2>3, <2>4, GrantKeeps
  <2>6. Unharmed'
    BY <2>3 DEF Unharmed, LastBufferThere, NotifiedOnce
  <2> QED BY <2>4, <2>5, <2>6
<1>9. CASE ~rcv.pendingCancel
  <2>1. rcv' = [r EXCEPT !.isWaiting = TRUE, !.pc = "wakeup"]
    BY <1>1, <1>7, <1>9 DEF WaitForWakeup
  <2>2. /\ rcv' \in Receiver /\ rcv'.pc = "wakeup" /\ rcv'.last = r.last
        /\ rcv'.dataHandler = r.dataHandler /\ rcv'.queued = r.queued
        /\ rcv'.pendingInit = r.pendingInit
        /\ rcv'.closed = r.closed /\ rcv'.srcId = r.srcId /\ rcv'.winSize = r.winSize
        /\ rcv'.win = r.win /\ rcv'.total = r.total /\ rcv'.current = r.current
        /\ rcv'.bytes = r.bytes /\ rcv'.initHandler = r.initHandler
        /\ rcv'.completeHandler = r.completeHandler /\ rcv'.sink = r.sink
        /\ rcv'.result = r.result /\ rcv'.bad = r.bad
    BY <1>7, <2>1 DEF Receiver
  <2>3. /\ rcv'.srcId = rcv.srcId /\ rcv'.winSize = rcv.winSize /\ rcv'.win = rcv.winSize
        /\ rcv'.total = 0 /\ rcv'.bad = "none" /\ rcv'.sink = rcv.sink /\ rcv'.bytes = << >>
        /\ rcv'.current = "none" /\ rcv'.result # "ok"
    BY <1>3, <1>4, <1>7, <2>2
  <2>4. /\ rcv'.last /\ rcv'.dataHandler /\ ~rcv'.queued /\ ~rcv'.pendingInit /\ ~rcv'.closed
        /\ ~rcv'.initHandler /\ rcv'.completeHandler
    BY <1>3, <1>7, <2>2
  <2>5. ~Opening'
    BY <2>4 DEF Opening
  <2>6. /\ Types' /\ Ids' /\ SenderInv' /\ Messages' /\ Granted' /\ Frames'
        /\ Closes' = Closes /\ InFlight' = InFlight
        /\ toSnd'[Len(toSnd) + 1] = m
        /\ \A i \in Grants' : \/ i \in Grants /\ toSnd'[i] = toSnd[i]
                              \/ i = Len(toSnd) + 1
    BY <1>1, <1>3, <1>6, <2>2, <2>3, <2>5, GrantKeeps
  <2>7. InFlight = 0 /\ 0 <= rcv.winSize /\ rcv.winSize \in Nat
    BY <1>2, <1>3 DEF InFlight, Receiver
  <2>8. Control'
    BY <1>3, <2>2, <2>3, <2>4, <2>5 DEF Control
  <2>9. Buffer'
    <3>1. Len(<< >>) = 0 /\ 0 < RawSize
      BY StreamAssumption
    <3> QED BY <2>3, <2>4, <3>1 DEF Buffer
  <2>10. Sink'
    BY <1>1, <1>2, <1>3, <1>4, <2>3 DEF Sink, Stored
  <2>11. Flow'
    BY <1>1, <1>3, <2>3, <2>4, <2>6, <2>7 DEF Flow
  <2>12. Window'
    <3>1. snd'.proceedHandlers # 1 /\ snd'.win = 0 /\ snd'.total = 0 /\ snd'.reply # "accept"
      BY <1>1, <1>5 DEF NotGranted
    <3>2. \A i \in Closes' : toRcv'[i].sid # snd'.sid
      BY <1>1, <1>5, <2>6 DEF NotGranted
    <3>3. ASSUME NEW i \in Grants', toSnd'[i].sid = snd'.sid
          PROVE  i = Len(toSnd) + 1 /\ toSnd'[i] = m
      BY <1>1, <1>5, <2>6, <3>3 DEF NotGranted
    <3>4. \A i \in Grants' : toSnd'[i].sid = snd'.sid =>
             /\ toSnd'[i].size = rcv'.winSize
             /\ \A j \in Grants' : toSnd'[j].sid = snd'.sid => i = j
      BY <1>6, <2>3, <3>3
    <3>5. snd'.proceedHandlers = 0
      BY <1>1, <1>5 DEF NotGranted
    <3>6. /\ InFlight' = 0 /\ data' = << >> /\ rcv'.win = rcv'.winSize /\ ~rcv'.closed
          /\ rcv'.total = 0 /\ rcv'.total + InFlight' = snd'.total
      BY <1>1, <1>3, <2>3, <2>4, <2>6, <2>7, <3>1
    <3>7. InFlight' + snd'.win <= rcv'.win
      BY <2>3, <2>7, <3>1, <3>6
    <3> QED BY <3>1, <3>2, <3>4, <3>5, <3>6, <3>7 DEF Window
  <2>13. Unharmed'
    BY <2>3 DEF Unharmed, LastBufferThere, NotifiedOnce
  <2> QED BY <2>6, <2>8, <2>9, <2>10, <2>11, <2>12, <2>13
<1> QED BY <1>8, <1>9

\* The next window is opened: the one before was used up.
LEMMA HaveRawKeeps ==
    ASSUME Core, rcv.bad = "none", HaveRawBuffer
    PROVE  Core' /\ Unharmed'
<1> DEFINE m == [kind |-> "PROCEED", sid |-> rcv.srcId]
           w == rcv.winSize
           r == [rcv EXCEPT !.last = TRUE, !.win = w]
<1> USE DEF Core
<1>1. /\ rcv.pc = "have_raw_buffer" /\ rcv' = WaitForWakeup(r)
      /\ toSnd' = Append(toSnd, m)
      /\ UNCHANGED <<snd, read, toRcv, data, sizes, inUse, nextId>>
  BY DEF HaveRawBuffer, server
<1>2. /\ rcv \in Receiver /\ Control /\ Buffer /\ Sink /\ Messages /\ Window /\ Flow
      /\ snd \in Sender
  BY DEF Types
<1>3. /\ rcv.dataHandler /\ rcv.srcId # INVALID_STREAM_ID /\ ~rcv.closed /\ rcv.win = 0
      /\ rcv.completeHandler /\ ~rcv.queued /\ ~rcv.pendingInit /\ ~rcv.initHandler
      /\ rcv.winSize > 0 /\ ~Opening
  BY <1>1, <1>2 DEF Control, Opening
<1>4. rcv.current = "none" /\ rcv.bytes = << >> /\ rcv.result # "ok"
  BY <1>1, <1>2, <1>3 DEF Buffer, Sink
<1>5. /\ InFlight \in Nat /\ (data # << >> => InFlight > 0)
  BY FlightIs
<1>6. InFlight = 0 /\ data = << >>
  <2>1. InFlight <= 0
    BY <1>2, <1>3 DEF Flow
  <2> QED BY <1>5, <2>1
<1>7. \A i \in Closes : toRcv[i].sid # rcv.srcId
  <2>1. ~(InFlight < 0)
    BY <1>5
  <2> QED BY <1>2, <1>3, <2>1 DEF Flow
<1>8. /\ rcv.winSize \in Nat /\ rcv.total \in Nat /\ snd.win \in Nat /\ snd.total \in Nat
      /\ rcv.win # rcv.winSize
  BY <1>2, <1>3 DEF Receiver, Sender
<1>9. ASSUME Linked
      PROVE  /\ snd.win = 0 /\ rcv.total + InFlight = snd.total
             /\ \A i \in Grants : toSnd[i].sid # snd.sid
             /\ ~(snd.pc = "received_init_stream" /\ snd.reply = "accept")
  <2>1. InFlight + snd.win <= rcv.win
    BY <1>2, <1>3, <1>9 DEF Window
  <2>2. snd.win = 0
    BY <1>3, <1>6, <1>8, <2>1
  <2> QED BY <1>2, <1>8, <1>9, <2>2 DEF Window
<1>10. /\ m \in Reply \cup Proceed /\ Gives(m) /\ m.sid = rcv.srcId /\ m.kind = "PROCEED"
  BY <1>2 DEF Proceed, Gives, Receiver
<1> HIDE DEF m
<1>11. /\ r \in Receiver /\ r.last /\ r.win = w /\ r.pc = rcv.pc /\ r.queued = rcv.queued
       /\ r.pendingInit = rcv.pendingInit /\ r.pendingCancel = rcv.pendingCancel
       /\ r.closed = rcv.closed /\ r.srcId = rcv.srcId /\ r.winSize = rcv.winSize
       /\ r.total = rcv.total /\ r.current = rcv.current /\ r.bytes = rcv.bytes
       /\ r.initHandler = rcv.initHandler /\ r.dataHandler = rcv.dataHandler
       /\ r.completeHandler = rcv.completeHandler /\ r.sink = rcv.sink
       /\ r.result = rcv.result /\ r.bad = "none"
  <2>1. w \in Nat
    BY <1>8
  <2> HIDE DEF w
  <2> QED BY <1>2, <2>1 DEF Receiver
<1> HIDE DEF r
<1>12. CASE rcv.pendingCancel
  <2>1. /\ rcv' \in Receiver /\ rcv'.pc = "idle" /\ ~rcv'.dataHandler
        /\ rcv'.result = "canceled" /\ ~rcv'.queued /\ ~rcv'.isWaiting
        /\ rcv'.srcId = r.srcId /\ rcv'.winSize = r.winSize /\ ~rcv'.initHandler
        /\ ~rcv'.completeHandler /\ rcv'.total = r.total
        /\ rcv'.bad = r.bad /\ rcv'.current = "none" /\ rcv'.bytes = << >>
        /\ rcv'.sink \o rcv'.bytes = r.sink \o r.bytes
    <3>1. r.pendingCancel /\ (r.current = "none" => r.bytes = << >>)
      BY <1>4, <1>11, <1>12
    <3> QED BY <1>1, <1>11, <3>1, WaitCancelled
  <2>2. Stored' = Stored
    BY <1>11, <2>1 DEF Stored
  <2>3. /\ rcv'.srcId = rcv.srcId /\ rcv'.winSize = rcv.winSize /\ rcv'.total = rcv.total
        /\ rcv'.bad = "none"
    BY <1>11, <2>1
  <2>4. Control' /\ Buffer' /\ Sink' /\ Flow' /\ Window' /\ ~Opening'
    BY <1>1, <2>1, <2>2, <2>3, OverKeeps
  <2>5. Types' /\ Ids' /\ SenderInv' /\ Messages' /\ Granted' /\ Frames'
    BY <1>1, <1>3, <1>6, <1>10, <2>1, <2>3, <2>4, GrantKeeps
  <2>6. Unharmed'
    BY <2>3 DEF Unharmed, LastBufferThere, NotifiedOnce
  <2> QED BY <2>4, <2>5, <2>6
<1>13. CASE ~rcv.pendingCancel
  <2>1. rcv' = [r EXCEPT !.isWaiting = TRUE, !.pc = "wakeup"]
    BY <1>1, <1>11, <1>13 DEF WaitForWakeup
  <2>2. /\ rcv' \in Receiver /\ rcv'.pc = "wakeup" /\ rcv'.last = r.last
        /\ rcv'.dataHandler = r.dataHandler /\ rcv'.queued = r.queued
        /\ rcv'.pendingInit = r.pendingInit
        /\ rcv'.closed = r.closed /\ rcv'.srcId = r.srcId /\ rcv'.winSize = r.winSize
        /\ rcv'.win = r.win /\ rcv'.total = r.total /\ rcv'.current = r.current
        /\ rcv'.bytes = r.bytes /\ rcv'.initHandler = r.initHandler
        /\ rcv'.completeHandler = r.completeHandler /\ rcv'.sink = r.sink
        /\ rcv'.result = r.result /\ rcv'.bad = r.bad
    BY <1>11, <2>1 DEF Receiver
  <2>3. /\ rcv'.srcId = rcv.srcId /\ rcv'.winSize = rcv.winSize /\ rcv'.win = rcv.winSize
        /\ rcv'.total = rcv.total /\ rcv'.bad = "none" /\ rcv'.sink = rcv.sink
        /\ rcv'.bytes = << >> /\ rcv'.current = "none" /\ rcv'.result # "ok"
    BY <1>4, <1>11, <2>2
  <2>4. /\ rcv'.last /\ rcv'.dataHandler /\ ~rcv'.queued /\ ~rcv'.pendingInit /\ ~rcv'.closed
        /\ ~rcv'.initHandler /\ rcv'.completeHandler
    BY <1>3, <1>11, <2>2
  <2>5. ~Opening'
    BY <2>4 DEF Opening
  <2>6. /\ Types' /\ Ids' /\ SenderInv' /\ Messages' /\ Granted' /\ Frames'
        /\ Closes' = Closes /\ InFlight' = InFlight
        /\ toSnd'[Len(toSnd) + 1] = m
        /\ \A i \in Grants' : \/ i \in Grants /\ toSnd'[i] = toSnd[i]
                              \/ i = Len(toSnd) + 1
    BY <1>1, <1>3, <1>6, <1>10, <2>2, <2>3, <2>5, GrantKeeps
  <2>7. 0 <= rcv.winSize
    BY <1>8
  <2>8. Control'
    BY <1>3, <2>2, <2>3, <2>4, <2>5 DEF Control
  <2>9. Buffer'
    <3>1. Len(<< >>) = 0 /\ 0 < RawSize
      BY StreamAssumption
    <3> QED BY <2>3, <2>4, <3>1 DEF Buffer
  <2>10. Sink'
    BY <1>1, <1>2, <1>4, <2>3 DEF Sink, Stored
  <2>11. Flow'
    BY <1>1, <1>3, <1>6, <1>7, <2>3, <2>4, <2>6, <2>7 DEF Flow
  <2>12. Window'
    <3>1. \A i \in Closes' : toRcv'[i].sid = snd'.sid =>
             snd'.win > 0 /\ snd'.pc = "idle" /\ snd'.state \in {"CLOSING", "IDLE"}
      BY <1>1, <1>2, <2>6 DEF Window
    <3>2. rcv'.srcId = snd'.sid /\ rcv'.srcId # INVALID_STREAM_ID /\ rcv'.completeHandler
             /\ snd'.proceedHandlers = 1 => snd'.winSize = rcv'.winSize
      BY <1>1, <1>2, <1>3, <2>3 DEF Window
    <3>3. ASSUME Linked'
          PROVE  /\ rcv'.total + InFlight' = snd'.total
                 /\ InFlight' + snd'.win <= rcv'.win /\ ~rcv'.closed
                 /\ ~(snd'.pc = "received_init_stream" /\ snd'.reply = "accept")
                 /\ \A i \in Grants' : toSnd'[i].sid = snd'.sid =>
                       /\ snd'.win = 0 /\ data' = << >> /\ rcv'.win = rcv'.winSize
                       /\ toSnd'[i].kind # "REPLY"
                       /\ \A j \in Grants' : toSnd'[j].sid = snd'.sid => i = j
      <4>1. Linked
        BY <1>1, <1>3, <2>3, <3>3 DEF Linked
      <4>2. /\ snd.win = 0 /\ rcv.total + InFlight = snd.total
            /\ \A i \in Grants : toSnd[i].sid # snd.sid
            /\ ~(snd.pc = "received_init_stream" /\ snd.reply = "accept")
        BY <1>9, <4>1
      <4>3. ASSUME NEW i \in Grants', toSnd'[i].sid = snd'.sid
            PROVE  i = Len(toSnd) + 1 /\ toSnd'[i] = m
        BY <1>1, <2>6, <4>2, <4>3
      <4>4. \A i \in Grants' : toSnd'[i].sid = snd'.sid =>
               /\ toSnd'[i].kind # "REPLY"
               /\ \A j \in Grants' : toSnd'[j].sid = snd'.sid => i = j
        BY <1>10, <4>3
      <4>5. InFlight' + snd'.win <= rcv'.win
        BY <1>1, <1>6, <1>8, <2>3, <2>6, <2>7, <4>2
      <4> QED BY <1>1, <1>6, <2>3, <2>4, <2>6, <4>2, <4>4, <4>5
    <3> QED BY <2>4, <3>1, <3>2, <3>3 DEF Window
  <2>13. Unharmed'
    BY <2>3 DEF Unharmed, LastBufferThere, NotifiedOnce
  <2> QED BY <2>6, <2>8, <2>9, <2>10, <2>11, <2>12, <2>13
<1> QED BY <1>12, <1>13

\* A frame has arrived: what is left under way goes on where it ends.
LEMMA DataTail ==
    ASSUME Core, data # << >>, data' = Tail(data), UNCHANGED <<snd, sizes>>,
           NotGranted <=> NotGranted'
    PROVE  LET d == data[1] IN
           /\ Head(data) = d /\ d \in DataFrame /\ data' \in Seq(DataFrame)
           /\ d.s \in Nat /\ d.lo \in Nat /\ d.hi \in Nat /\ d.lo < d.hi
           /\ d.hi - d.lo <= FrameSize
           /\ InFlight' \in Nat /\ InFlight = InFlight' + (d.hi - d.lo)
           /\ data' # << >> => data'[1].s = d.s /\ data'[1].lo = d.hi
           /\ Frames'
<1> USE DEF Core
<1>1. /\ Len(data) \in Nat /\ Len(data) > 0
      /\ \A i \in 1..Len(data) : data[i] \in DataFrame /\ data[i].s \in Nat
                                 /\ data[i].lo \in Nat /\ data[i].hi \in Nat
      /\ InFlight = data[Len(data)].hi - data[1].lo
  BY FlightIs
<1>2. /\ data' \in Seq(DataFrame) /\ Len(data') = Len(data) - 1 /\ Head(data) = data[1]
      /\ \A i \in 1..Len(data) - 1 : data'[i] = data[i + 1]
  BY TailIs DEF Types
<1>3. Frames /\ K' = K
  BY DEF K
<1>4. 1 \in 1..Len(data) /\ Len(data) \in 1..Len(data) /\ 1 <= 1
  BY <1>1
<1>5. data[1].lo < data[1].hi /\ data[1].hi - data[1].lo <= FrameSize
  BY <1>3, <1>4 DEF Frames
<1>6. data' # << >> <=> Len(data) > 1
  <2>1. data' # << >> <=> Len(data') # 0
    BY <1>2, EmptySeq
  <2> QED BY <1>1, <1>2, <2>1
<1>7. ASSUME data' # << >>
      PROVE  /\ data'[1] = data[2] /\ data[2].s = data[1].s /\ data[2].lo = data[1].hi
             /\ data'[Len(data')] = data[Len(data)] /\ data[1].hi < data[Len(data)].hi
             /\ 2 \in 1..Len(data)
  <2>1. Len(data) > 1
    BY <1>6, <1>7
  <2>2. /\ 1 \in 1..Len(data) - 1 /\ 2 \in 1..Len(data) /\ 2 <= Len(data) /\ 1 + 1 = 2
        /\ Len(data) - 1 \in 1..Len(data) - 1 /\ (Len(data) - 1) + 1 = Len(data)
    BY <1>1, <2>1
  <2>3. data'[1] = data[2] /\ data'[Len(data')] = data[Len(data)]
    BY <1>2, <2>2
  <2>4. data[2].s = data[1].s
    BY <1>3, <1>4, <2>2 DEF Frames
  <2>5. data[1 + 1].lo = data[1].hi
    BY <1>3, <2>2 DEF Frames
  <2>6. data[2].lo < data[Len(data)].hi
    BY <1>3, <1>4, <2>2 DEF Frames
  <2> QED BY <2>2, <2>3, <2>4, <2>5, <2>6
<1>8. InFlight' \in Nat /\ InFlight = InFlight' + (data[1].hi - data[1].lo)
  <2>1. CASE data' = << >>
    <3>1. Len(data) = 1
      <4>1. Len(data) \in Nat /\ Len(data) > 0
        BY <1>1
      <4>2. ~(Len(data) > 1)
        BY <1>6, <2>1, Zenon
      <4>3. \A n \in Nat : n > 0 /\ ~(n > 1) => n = 1
        OBVIOUS
      <4> QED BY <4>1, <4>2, <4>3, Zenon
    <3>2. InFlight' = 0 /\ InFlight = data[1].hi - data[1].lo
      BY <1>1, <2>1, <3>1 DEF InFlight
    <3> QED BY <1>1, <1>4, <1>5, <3>2
  <2>2. CASE data' # << >>
    <3>1. InFlight' = data'[Len(data')].hi - data'[1].lo
      BY <2>2 DEF InFlight
    <3>2. InFlight' = data[Len(data)].hi - data[1].hi /\ data[1].hi < data[Len(data)].hi
      BY <1>7, <2>2, <3>1
    <3>3. /\ data[1].lo \in Nat /\ data[1].hi \in Nat /\ data[Len(data)].hi \in Nat
          /\ InFlight = data[Len(data)].hi - data[1].lo
      BY <1>1, <1>4
    <3> QED BY <3>2, <3>3, SMTT(30)
  <2> QED BY <2>1, <2>2
<1>9. Frames'
  <2>1. \A i \in 1..Len(data') : i + 1 \in 1..Len(data) /\ data'[i] = data[i + 1]
    BY <1>1, <1>2
  <2>2. ASSUME NEW i \in 1..Len(data')
        PROVE  data'[i].s \in 1..K' /\ data'[i].hi - data'[i].lo <= FrameSize
    BY <1>3, <2>1 DEF Frames
  <2>3. ASSUME NEW i \in 1..Len(data'), NEW j \in 1..Len(data')
        PROVE  data'[i].s = data'[j].s /\ (i <= j => data'[i].lo < data'[j].hi)
    <3>1. /\ i + 1 \in 1..Len(data) /\ data'[i] = data[i + 1]
          /\ j + 1 \in 1..Len(data) /\ data'[j] = data[j + 1]
      BY <2>1
    <3>2. i <= j => i + 1 <= j + 1
      BY <1>1, <1>2
    <3> QED BY <1>3, <3>1, <3>2 DEF Frames
  <2>4. ASSUME NEW i \in 1..Len(data') - 1
        PROVE  data'[i + 1].lo = data'[i].hi
    <3>1. /\ i \in 1..Len(data') /\ i + 1 \in 1..Len(data') /\ i + 1 \in 1..Len(data) - 1
      BY <1>1, <1>2
    <3>2. data'[i] = data[i + 1] /\ data'[i + 1] = data[(i + 1) + 1]
      BY <2>1, <3>1
    <3>3. data[(i + 1) + 1].lo = data[i + 1].hi
      BY <1>3, <3>1 DEF Frames
    <3> QED BY <3>2, <3>3
  <2>5. data' # << >> /\ data'[Len(data')].s = K' => data'[Len(data')].hi = snd'.total
    BY <1>3, <1>7 DEF Frames
  <2>6. data' # << >> /\ ~NotGranted' => data'[Len(data')].s = K'
    BY <1>3, <1>7 DEF Frames
  <2> QED BY <2>2, <2>3, <2>4, <2>5, <2>6 DEF Frames
<1> QED BY <1>1, <1>2, <1>4, <1>5, <1>7, <1>8, <1>9

\* The bytes the sink has and will get.
Taken(r) == r.sink \o r.bytes

\* The bytes a receiver has are the first ones of a stream.
HoldsUpTo(r, s, lo) == r.total = lo /\ Taken(r) = Bytes(s, 0, lo)

\* The loop of handle_bytes_received() over a frame.
Store(r, b) ==
    LET one == FillBuffer(r, b)
        rest == SubSeq(b, one.total - r.total + 1, Len(b))
    IN IF rest = << >> \/ one.bad # "none" THEN one ELSE FillBuffer(one, rest)

\* handle_bytes_received() stores a whole frame, in one buffer or in two.
LEMMA FrameStored ==
    ASSUME NEW r \in Receiver, NEW s \in Nat, NEW lo \in Nat, NEW hi \in Nat, lo < hi,
           hi - lo <= FrameSize, hi - lo <= r.win, r.bad = "none", Filling(r),
           HoldsUpTo(r, s, lo)
    PROVE  LET b == Bytes(s, lo, hi)
               all == Store(r, b)
           IN
           /\ b # << >> /\ all \in Receiver /\ SameControl(r, all) /\ all.bad = "none"
           /\ all.total = hi /\ all.win = r.win - (hi - lo)
           /\ Taken(all) = Bytes(s, 0, hi)
           /\ all.win > 0 => Filling(all)
           /\ all.win = 0 => all.current = "none"
           /\ all.current = "none" => all.bytes = << >>
<1> DEFINE b == Bytes(s, lo, hi)
           one == FillBuffer(r, b)
           rest == SubSeq(b, one.total - r.total + 1, Len(b))
           all == IF rest = << >> \/ one.bad # "none" THEN one ELSE FillBuffer(one, rest)
           n == Smaller(Len(b), RawSize - Len(r.bytes))
<1>1. /\ b \in Seq(Byte) /\ Len(b) = hi - lo /\ b # << >>
  <2>1. b \in Seq(Byte) /\ Len(b) = hi - lo
    <3>1. lo <= hi
      OBVIOUS
    <3> QED BY <3>1, BytesAre
  <2>2. hi - lo # 0
    OBVIOUS
  <2> HIDE DEF b
  <2>3. b # << >>
    BY <2>1, <2>2, EmptySeq
  <2> QED BY <2>1, <2>3
<1>2. /\ n \in 1..Len(b) /\ one \in Receiver /\ SameControl(r, one)
      /\ one.bad = "none" /\ one.total = r.total + n /\ one.win = r.win - n
      /\ one.sink \o one.bytes = (r.sink \o r.bytes) \o SubSeq(b, 1, n)
      /\ one.win > 0 => Filling(one)
      /\ one.win = 0 => one.current = "none"
      /\ one.current = "none" => one.bytes = << >>
      /\ n < Len(b) => one.current = "none"
  <2>1. Len(b) <= r.win
    BY <1>1
  <2> HIDE DEF b
  <2> QED BY <1>1, <2>1, FillKeeps
<1>3. n \in 0..hi - lo /\ n \in Nat /\ n > 0 /\ n <= hi - lo
  BY <1>1, <1>2
<1>4. /\ SubSeq(b, 1, n) = Bytes(s, lo, lo + n)
      /\ SubSeq(b, n + 1, hi - lo) = Bytes(s, lo + n, hi)
  <2>1. lo <= hi
    OBVIOUS
  <2>2. n \in 0..hi - lo
    BY <1>3
  <2> HIDE DEF n
  <2> QED BY <2>1, <2>2, BytesFirst
<1> HIDE DEF b, one, n
<1>5. /\ lo + n \in Nat /\ lo <= lo + n /\ lo + n <= hi /\ 0 <= lo /\ 0 \in Nat
      /\ one.total - r.total + 1 = n + 1 /\ one.total = lo + n
  BY <1>2, <1>3 DEF HoldsUpTo
<1>6. one.sink \o one.bytes = Bytes(s, 0, lo + n)
  <2>1. one.sink \o one.bytes = Bytes(s, 0, lo) \o Bytes(s, lo, lo + n)
    BY <1>2, <1>4 DEF HoldsUpTo, Taken
  <2>2. lo + n \in Nat /\ lo <= lo + n /\ 0 <= lo /\ 0 \in Nat
    BY <1>5
  <2>3. Bytes(s, 0, lo) \o Bytes(s, lo, lo + n) = Bytes(s, 0, lo + n)
    BY <2>2, BytesConcat, ZenonT(40)
  <2> QED BY <2>1, <2>3
<1>7. rest = Bytes(s, lo + n, hi)
  BY <1>1, <1>4, <1>5
<1>8. rest \in Seq(Byte) /\ Len(rest) = hi - (lo + n)
  <2>1. lo + n \in Nat /\ lo + n <= hi
    BY <1>5
  <2>2. Bytes(s, lo + n, hi) \in Seq(Byte) /\ Len(Bytes(s, lo + n, hi)) = hi - (lo + n)
    BY <2>1, BytesAre
  <2> QED BY <1>7, <2>2
<1>9. rest = << >> <=> n = hi - lo
  <2>1. rest = << >> <=> Len(rest) = 0
    BY <1>8, EmptySeq
  <2>2. hi - (lo + n) = 0 <=> n = hi - lo
    BY <1>3
  <2> QED BY <1>8, <2>1, <2>2
<1> HIDE DEF rest
<1>10. r.win \in Nat
  BY DEF Receiver
<1>11. CASE n = hi - lo
  <2>1. all = one
    BY <1>9, <1>11
  <2>2. lo + n = hi
    BY <1>11
  <2>3. one.total = hi /\ one.win = r.win - (hi - lo)
    BY <1>2, <1>5, <1>11, <2>2
  <2>4. Taken(one) = Bytes(s, 0, hi)
    BY <1>6, <2>2 DEF Taken
  <2>5. /\ all \in Receiver /\ SameControl(r, all) /\ all.bad = "none"
        /\ all.total = hi /\ all.win = r.win - (hi - lo) /\ Taken(all) = Bytes(s, 0, hi)
        /\ all.win > 0 => Filling(all)
        /\ all.win = 0 => all.current = "none"
        /\ all.current = "none" => all.bytes = << >>
    BY <1>2, <2>1, <2>3, <2>4, Zenon
  <2> QED BY <1>1, <2>5, Zenon DEF b, one, rest, Store
<1>12. CASE n # hi - lo
  <2>1. all = FillBuffer(one, rest)
    BY <1>2, <1>9, <1>12
  <2>2. n < Len(b)
    BY <1>1, <1>3, <1>12
  <2>3. one.current = "none" /\ one.bytes = << >>
    BY <1>2, <2>2
  <2>4. Len(rest) <= one.win /\ one.win > 0
    BY <1>2, <1>3, <1>8, <1>10, <1>12
  <2>5. Filling(one) /\ rest # << >>
    BY <1>2, <1>9, <1>12, <2>4
  <2> DEFINE k == Smaller(Len(rest), RawSize - Len(one.bytes))
             q == FillBuffer(one, rest)
  <2>6. /\ k \in 1..Len(rest) /\ q \in Receiver /\ SameControl(one, q)
        /\ q.bad = "none" /\ q.total = one.total + k /\ q.win = one.win - k
        /\ q.sink \o q.bytes = (one.sink \o one.bytes) \o SubSeq(rest, 1, k)
        /\ q.win > 0 => Filling(q)
        /\ q.win = 0 => q.current = "none"
        /\ q.current = "none" => q.bytes = << >>
    BY <1>2, <1>8, <2>4, <2>5, FillKeeps
  <2>7. k = Len(rest)
    <3>1. Len(one.bytes) = 0
      BY <2>3
    <3>2. Len(rest) <= RawSize - 0
      BY <1>3, <1>8, StreamAssumption
    <3>3. Len(rest) \in Nat /\ RawSize \in Nat
      BY <1>8, StreamAssumption
    <3> QED BY <3>1, <3>2, <3>3 DEF Smaller
  <2> HIDE DEF k, q
  <2>8. SubSeq(rest, 1, k) = rest
    <3>1. k \in Nat /\ rest \in Seq(Byte)
      BY <1>8, <2>7, LenProperties
    <3>2. SubSeq(rest, 1, k) = [i \in 1..k |-> rest[i]]
      BY <3>1
    <3>3. rest = [i \in 1..Len(rest) |-> rest[i]]
      BY <3>1
    <3> QED BY <2>7, <3>2, <3>3
  <2>9. q.sink \o q.bytes = Bytes(s, 0, hi)
    <3>1. q.sink \o q.bytes = Bytes(s, 0, lo + n) \o Bytes(s, lo + n, hi)
      BY <1>6, <1>7, <2>6, <2>8
    <3>2. Bytes(s, 0, lo + n) \o Bytes(s, lo + n, hi) = Bytes(s, 0, hi)
      <4>1. lo + n \in Nat /\ 0 <= lo + n /\ lo + n <= hi /\ 0 \in Nat
        BY <1>5
      <4> QED BY <4>1, BytesConcat, ZenonT(40)
    <3> QED BY <3>1, <3>2
  <2>10. q.total = hi /\ q.win = r.win - (hi - lo)
    BY <1>2, <1>3, <1>5, <1>8, <1>10, <2>6, <2>7, SMTT(30)
  <2>11. SameControl(r, q)
    BY <1>2, <2>6 DEF SameControl
  <2>12. all = q
    BY <2>1 DEF q
  <2>13. Taken(q) = Bytes(s, 0, hi)
    BY <2>9 DEF Taken
  <2>14. /\ all \in Receiver /\ SameControl(r, all) /\ all.bad = "none"
         /\ all.total = hi /\ all.win = r.win - (hi - lo) /\ Taken(all) = Bytes(s, 0, hi)
         /\ all.win > 0 => Filling(all)
         /\ all.win = 0 => all.current = "none"
         /\ all.current = "none" => all.bytes = << >>
    BY <2>6, <2>10, <2>11, <2>12, <2>13, Zenon
  <2> QED BY <1>1, <2>14, Zenon DEF b, one, rest, Store
<1> QED BY <1>11, <1>12

\* A frame that nobody listens to.
LEMMA BytesIgnored ==
    ASSUME Core, data # << >>, data' = Tail(data), ~rcv.dataHandler,
           UNCHANGED <<snd, rcv, read, toRcv, toSnd, sizes, inUse, nextId>>
    PROVE  Core'
<1> USE DEF Core
<1>1. Inits' = Inits /\ Closes' = Closes /\ Grants' = Grants
  BY DEF Inits, Closes, Grants, Gives
<1>2. NotGranted' <=> NotGranted
  BY <1>1 DEF NotGranted
<1>3. data' \in Seq(DataFrame) /\ Frames'
  BY <1>2, DataTail
<1>4. Ids' /\ SenderInv' /\ K' = K
  BY SenderStays
<1>5. Types'
  BY <1>3 DEF Types
<1>6. Messages'
  <2>1. \A i \in Grants' : toSnd'[i].sid # INVALID_STREAM_ID /\ toSnd'[i].sid < K
    BY <1>1 DEF Messages
  <2>2. /\ UNCHANGED <<toRcv, sizes>> /\ rcv'.srcId = rcv.srcId /\ snd'.sid = snd.sid
        /\ snd'.state = "STARTED" => snd.state = "STARTED"
    OBVIOUS
  <2> QED BY <2>1, <2>2, MessagesKeep
<1>7. Granted'
  BY <1>1, <1>2 DEF Granted, Early, Opening
<1>8. Control'
  <2>1. ~Opening
    BY DEF Control
  <2> QED BY <1>1, <2>1 DEF Control, Opening
<1>9. Buffer' /\ Sink'
  BY ReceiverStays
<1>10. Flow' /\ ~Linked'
  BY DEF Flow, Linked
<1>11. Window'
  <2>1. Window /\ snd' = snd /\ rcv' = rcv /\ toRcv' = toRcv
    OBVIOUS
  <2> QED BY <1>1, <1>10, <2>1 DEF Window
<1> QED BY <1>3, <1>4, <1>5, <1>6, <1>7, <1>8, <1>9, <1>10, <1>11

\* handle_bytes_received() keeps the invariant: the frame that arrives is the
\* next one of the stream and fits into the window.
LEMMA BytesKeeps ==
    ASSUME Core, rcv.bad = "none", HandleBytesReceived
    PROVE  Core' /\ Unharmed'
<1> USE DEF Core
<1>1. /\ data # << >> /\ data' = Tail(data)
      /\ UNCHANGED <<snd, read, toRcv, toSnd, sizes, inUse, nextId>>
  BY DEF HandleBytesReceived, server
<1>2. /\ rcv \in Receiver /\ Control /\ Buffer /\ Sink /\ Window /\ Flow /\ snd \in Sender
  BY DEF Types
<1>3. CASE ~rcv.dataHandler
  <2>1. rcv' = rcv
    BY <1>3 DEF HandleBytesReceived
  <2>2. Core'
    BY <1>1, <1>3, <2>1, BytesIgnored
  <2>3. Unharmed'
    BY <2>1 DEF Unharmed, LastBufferThere, NotifiedOnce
  <2> QED BY <2>2, <2>3
<1>4. CASE rcv.dataHandler
  <2> DEFINE d == data[1]
             b == Bytes(d.s, d.lo, d.hi)
             all == Store(rcv, b)
             n == d.hi - d.lo
  <2>1. Inits' = Inits /\ Closes' = Closes /\ Grants' = Grants
    BY <1>1 DEF Inits, Closes, Grants, Gives
  <2>2. NotGranted' <=> NotGranted
    BY <1>1, <2>1 DEF NotGranted
  <2>3. /\ Head(data) = d /\ d \in DataFrame /\ data' \in Seq(DataFrame)
        /\ d.s \in Nat /\ d.lo \in Nat /\ d.hi \in Nat /\ d.lo < d.hi
        /\ d.hi - d.lo <= FrameSize
        /\ InFlight' \in Nat /\ InFlight = InFlight' + (d.hi - d.lo)
        /\ data' # << >> => data'[1].s = d.s /\ data'[1].lo = d.hi
        /\ Frames'
    BY <1>1, <2>2, DataTail
  <2>4. d.s = rcv.srcId + 1 /\ d.lo = rcv.total /\ InFlight <= rcv.win
    BY <1>1, <1>2, <1>4 DEF Flow
  <2>5. /\ rcv.win \in Nat /\ rcv.total \in Nat /\ snd.win \in Nat /\ snd.total \in Nat
        /\ rcv.winSize \in Nat
    BY <1>2 DEF Receiver, Sender
  <2>6. n \in Nat /\ n > 0 /\ n <= rcv.win /\ rcv.win > 0
    <3>1. /\ d.lo \in Nat /\ d.hi \in Nat /\ d.lo < d.hi /\ InFlight' \in Nat
          /\ InFlight = InFlight' + (d.hi - d.lo) /\ InFlight <= rcv.win /\ rcv.win \in Nat
      BY <2>3, <2>4, <2>5
    <3> HIDE DEF d, b, all
    <3> QED BY <3>1
  <2>7. /\ rcv.srcId # INVALID_STREAM_ID /\ rcv.pc = "wakeup" /\ ~Opening
        /\ ~rcv.pendingInit /\ ~rcv.initHandler /\ rcv.winSize > 0 /\ ~(rcv.win = 0)
        /\ rcv.completeHandler => ~rcv.closed
        /\ rcv.completeHandler \/ rcv.closed
        /\ rcv.queued => rcv.pendingCancel
    BY <1>2, <1>4, <2>6 DEF Control, Opening
  <2>8. Filling(rcv) /\ rcv.result # "ok"
    BY <1>2, <1>4, <2>6, <2>7 DEF Buffer, Filling, Sink
  <2>9. HoldsUpTo(rcv, d.s, d.lo)
    BY <1>2, <2>4, <2>7 DEF HoldsUpTo, Taken, Sink, Stored
  <2>10. /\ b # << >> /\ all \in Receiver /\ SameControl(rcv, all) /\ all.bad = "none"
         /\ all.total = d.hi /\ all.win = rcv.win - n
         /\ Taken(all) = Bytes(d.s, 0, d.hi)
         /\ all.win > 0 => Filling(all)
         /\ all.win = 0 => all.current = "none"
         /\ all.current = "none" => all.bytes = << >>
    <3>1. /\ rcv \in Receiver /\ d.s \in Nat /\ d.lo \in Nat /\ d.hi \in Nat /\ d.lo < d.hi
          /\ d.hi - d.lo <= FrameSize /\ d.hi - d.lo <= rcv.win /\ rcv.bad = "none"
          /\ Filling(rcv) /\ HoldsUpTo(rcv, d.s, d.lo)
      BY <1>2, <2>3, <2>6, <2>8, <2>9
    <3> HIDE DEF d
    <3> QED BY <3>1, FrameStored, ZenonT(30)
  <2>11. rcv' = IF all.win = 0 /\ all.bad = "none" THEN Notify(all) ELSE all
    BY <1>4, <2>3, <2>10 DEF HandleBytesReceived, Store
  <2> HIDE DEF all, b
  <2>12. /\ all.pc = "wakeup" /\ all.queued = rcv.queued /\ all.isWaiting = rcv.isWaiting
         /\ all.pendingInit = rcv.pendingInit /\ all.pendingCancel = rcv.pendingCancel
         /\ all.closed = rcv.closed /\ all.srcId = rcv.srcId /\ all.winSize = rcv.winSize
         /\ all.initHandler = rcv.initHandler /\ all.completeHandler = rcv.completeHandler
         /\ all.dataHandler = rcv.dataHandler /\ all.result = rcv.result
    BY <2>7, <2>10 DEF SameControl
  <2>13. /\ rcv' \in Receiver /\ SameControl([all EXCEPT !.queued = rcv'.queued], rcv')
         /\ rcv'.total = all.total /\ rcv'.win = all.win /\ rcv'.current = all.current
         /\ rcv'.bytes = all.bytes /\ rcv'.sink = all.sink /\ rcv'.last = all.last
         /\ rcv'.queued = (IF all.win = 0 THEN TRUE ELSE all.queued)
         /\ rcv'.bad \in {"none", "notify"}
         /\ rcv'.bad = "notify" => all.queued
    <3>1. CASE all.win = 0 /\ all.queued
      <4>1. rcv' = [all EXCEPT !.bad = "notify"]
        BY <2>10, <2>11, <3>1 DEF Notify
      <4> QED BY <2>10, <3>1, <4>1, ZenonT(40) DEF Receiver, SameControl
    <3>2. CASE all.win = 0 /\ ~all.queued
      <4>1. rcv' = [all EXCEPT !.queued = TRUE]
        BY <2>10, <2>11, <2>12, <3>2 DEF Notify
      <4> QED BY <2>10, <3>2, <4>1 DEF Receiver, SameControl
    <3>3. CASE all.win # 0
      <4>1. rcv' = all
        BY <2>11, <3>3
      <4> QED BY <2>10, <3>3, <4>1 DEF Receiver, SameControl
    <3> QED BY <3>1, <3>2, <3>3
  <2>14. /\ rcv'.pc = "wakeup" /\ rcv'.isWaiting = rcv.isWaiting
         /\ rcv'.pendingInit = rcv.pendingInit /\ rcv'.pendingCancel = rcv.pendingCancel
         /\ rcv'.closed = rcv.closed /\ rcv'.srcId = rcv.srcId /\ rcv'.winSize = rcv.winSize
         /\ rcv'.initHandler = rcv.initHandler /\ rcv'.completeHandler = rcv.completeHandler
         /\ rcv'.dataHandler = rcv.dataHandler /\ rcv'.result = rcv.result
    <3>1. [all EXCEPT !.queued = rcv'.queued].pc = all.pc
      BY <2>10 DEF Receiver
    <3> QED BY <2>10, <2>12, <2>13 DEF SameControl, Receiver
  <2>15. rcv'.total = d.hi /\ rcv'.total = rcv.total + n /\ rcv'.win = rcv.win - n
    BY <2>3, <2>4, <2>10, <2>13
  <2>16. Taken(rcv') = Bytes(d.s, 0, d.hi)
    BY <2>10, <2>13 DEF Taken
  <2>17. InFlight' \in Nat /\ InFlight = InFlight' + n
    BY <2>3
  <2>18. /\ (rcv'.win = 0) => rcv'.current = "none"
         /\ rcv'.current = "none" => rcv'.bytes = << >>
         /\ rcv'.win > 0 => Filling(rcv')
    BY <2>10, <2>13 DEF Filling
  <2>19. rcv'.queued => rcv'.pendingCancel \/ rcv'.win = 0
    BY <2>7, <2>12, <2>13, <2>14
  <2>20. rcv'.bad # "null" /\ (rcv'.bad = "notify" => rcv'.pendingCancel)
    BY <2>7, <2>12, <2>13, <2>14
  <2> HIDE DEF n, d
  <2>21. Ids' /\ SenderInv' /\ K' = K
    BY <1>1, SenderStays
  <2>22. Types'
    BY <1>1, <2>3, <2>13 DEF Types
  <2>23. ~Opening'
    BY <1>4, <2>14 DEF Opening
  <2>24. Messages'
    <3>1. \A i \in Grants' : toSnd'[i].sid # INVALID_STREAM_ID /\ toSnd'[i].sid < K
      BY <1>1, <2>1 DEF Messages
    <3>2. /\ UNCHANGED <<toRcv, sizes>> /\ rcv'.srcId = rcv.srcId /\ snd'.sid = snd.sid
          /\ snd'.state = "STARTED" => snd.state = "STARTED"
      BY <1>1, <2>14
    <3> QED BY <3>1, <3>2, MessagesKeep
  <2>25. Granted'
    <3>1. Early' => Early
      BY <1>1, <2>1, <2>14, <2>23 DEF Early
    <3> QED BY <2>2, <3>1 DEF Granted
  <2>26. Control'
    <3>1. rcv'.queued => \/ rcv'.pendingCancel
                         \/ rcv'.pc = "wakeup" /\ rcv'.dataHandler /\ rcv'.win = 0
      BY <1>4, <2>14, <2>19
    <3> QED BY <1>4, <2>7, <2>14, <2>23, <3>1 DEF Control
  <2>27. Buffer'
    BY <1>4, <2>14, <2>18 DEF Buffer, Filling
  <2>28. Sink'
    BY <2>4, <2>7, <2>8, <2>14, <2>15, <2>16 DEF Sink, Stored, Taken
  <2>29. Flow'
    <3>1. data' # << >> => data'[1].s = rcv'.srcId + 1 /\ data'[1].lo = rcv'.total
      BY <2>3, <2>4, <2>14, <2>15
    <3>2. InFlight' <= rcv'.win
      BY <2>4, <2>5, <2>6, <2>15, <2>17
    <3>3. rcv'.closed => InFlight' = rcv'.win
                         /\ rcv'.total + rcv'.win = sizes'[rcv'.srcId + 1]
      <4>1. ASSUME rcv.closed
            PROVE  InFlight = rcv.win /\ rcv.total + rcv.win = sizes[rcv.srcId + 1]
        BY <1>2, <1>4, <4>1 DEF Flow
      <4>2. rcv'.total + rcv'.win = rcv.total + rcv.win
        BY <2>5, <2>6, <2>15
      <4>3. InFlight = rcv.win => InFlight' = rcv'.win
        BY <2>5, <2>6, <2>15, <2>17
      <4> QED BY <1>1, <2>14, <4>1, <4>2, <4>3
    <3>4. rcv'.completeHandler =>
             \A i \in Closes' : toRcv'[i].sid = rcv'.srcId =>
                 rcv'.total + InFlight' = toRcv'[i].size /\ InFlight' < rcv'.win
      <4>1. ASSUME rcv.completeHandler, NEW i \in Closes, toRcv[i].sid = rcv.srcId
            PROVE  rcv.total + InFlight = toRcv[i].size /\ InFlight < rcv.win
        BY <1>2, <1>4, <4>1 DEF Flow
      <4>2. rcv'.total + InFlight' = rcv.total + InFlight
        BY <2>5, <2>6, <2>15, <2>17
      <4>3. InFlight < rcv.win => InFlight' < rcv'.win
        BY <2>5, <2>6, <2>15, <2>17
      <4> QED BY <1>1, <2>1, <2>14, <4>1, <4>2, <4>3
    <3> QED BY <3>1, <3>2, <3>3, <3>4 DEF Flow
  <2>30. Window'
    <3>1. \A i \in Closes' : toRcv'[i].sid = snd'.sid =>
             snd'.win > 0 /\ snd'.pc = "idle" /\ snd'.state \in {"CLOSING", "IDLE"}
      BY <1>1, <1>2, <2>1 DEF Window
    <3>2. rcv'.srcId = snd'.sid /\ rcv'.srcId # INVALID_STREAM_ID /\ rcv'.completeHandler
             /\ snd'.proceedHandlers = 1 => snd'.winSize = rcv'.winSize
      BY <1>1, <1>2, <2>14 DEF Window
    <3>3. ASSUME Linked'
          PROVE  /\ rcv'.total + InFlight' = snd'.total
                 /\ ~rcv'.closed => InFlight' + snd'.win <= rcv'.win
                 /\ ~(snd'.pc = "received_init_stream" /\ snd'.reply = "accept")
                 /\ \A i \in Grants' : toSnd'[i].sid # snd'.sid
                 /\ rcv'.closed => snd'.win > 0 /\ snd'.pc = "idle"
                                   /\ snd'.state \in {"CLOSING", "IDLE"}
      <4>1. Linked
        BY <1>1, <2>14, <3>3 DEF Linked
      <4>2. /\ rcv.total + InFlight = snd.total
            /\ ~rcv.closed => InFlight + snd.win <= rcv.win
            /\ ~(snd.pc = "received_init_stream" /\ snd.reply = "accept")
            /\ \A i \in Grants : toSnd[i].sid # snd.sid
            /\ rcv.closed => snd.win > 0 /\ snd.pc = "idle" /\ snd.state \in {"CLOSING", "IDLE"}
        BY <1>1, <1>2, <4>1 DEF Window
      <4>3. rcv'.total + InFlight' = rcv.total + InFlight
        BY <2>5, <2>6, <2>15, <2>17
      <4>4. InFlight + snd.win <= rcv.win => InFlight' + snd.win <= rcv'.win
        BY <2>5, <2>6, <2>15, <2>17
      <4> QED BY <1>1, <2>1, <2>14, <4>2, <4>3, <4>4
    <3> QED BY <3>1, <3>2, <3>3 DEF Window
  <2>31. Unharmed'
    BY <2>20 DEF Unharmed, LastBufferThere, NotifiedOnce
  <2> QED BY <2>3, <2>21, <2>22, <2>24, <2>25, <2>26, <2>27, <2>28, <2>29, <2>30, <2>31
<1> QED BY <1>3, <1>4
-----------------------------------------------------------------------------
(* The properties.                                                         *)

\* What has reached the sink, what the end of a request means and how the two
\* ends count the window all follow from the invariant.
LEMMA CoreGivesGoals ==
    ASSUME Core
    PROVE  SinkInOrder /\ OkMeansWhole /\ WindowsAgree
<1> USE DEF Core
<1>1. /\ rcv \in Receiver /\ K \in Nat /\ K = Len(sizes) /\ Messages /\ Control /\ Buffer
      /\ Sink /\ Flow /\ Window
  BY LenProperties DEF Types, K
<1>2. rcv.sink \in Seq(Byte) /\ rcv.bytes \in Seq(Byte) /\ rcv.total \in Nat /\ rcv.srcId \in Nat
  BY <1>1 DEF Receiver, StreamIds
<1>3. ASSUME rcv.srcId # INVALID_STREAM_ID
      PROVE  /\ rcv.srcId + 1 \in 1..Len(sizes)
             /\ Stored = Bytes(rcv.srcId + 1, 0, rcv.total) /\ Len(Stored) = rcv.total
  <2>1. rcv.srcId < K
    BY <1>1, <1>3 DEF Messages
  <2>2. rcv.srcId + 1 \in 1..Len(sizes)
    BY <1>1, <1>2, <2>1
  <2>3. Stored = Bytes(rcv.srcId + 1, 0, rcv.total)
    BY <1>1, <1>3 DEF Sink
  <2>4. rcv.srcId + 1 \in Nat /\ 0 \in Nat /\ 0 <= rcv.total
    BY <1>2
  <2>5. Len(Bytes(rcv.srcId + 1, 0, rcv.total)) = rcv.total
    <3>1. ASSUME NEW t \in Nat, NEW n \in Nat PROVE Len(Bytes(t, 0, n)) = n
      <4>1. 0 \in Nat /\ 0 <= n /\ n - 0 = n
        OBVIOUS
      <4>2. Len(Bytes(t, 0, n)) = n - 0
        BY <4>1, BytesAre
      <4> QED BY <4>1, <4>2
    <3> QED BY <1>2, <2>4, <3>1, Zenon
  <2> QED BY <2>2, <2>3, <2>5
<1>4. SinkInOrder
  <2>1. rcv.srcId = INVALID_STREAM_ID => Stored = << >>
    BY <1>1 DEF Sink
  <2> QED BY <1>3, <2>1, Zenon DEF SinkInOrder, Stored
<1>5. OkMeansWhole
  <2>1. ASSUME rcv.result = "ok"
        PROVE  rcv.sink = Bytes(rcv.srcId + 1, 0, sizes[rcv.srcId + 1])
               /\ rcv.srcId # INVALID_STREAM_ID
    <3>1. /\ rcv.srcId # INVALID_STREAM_ID /\ rcv.total = sizes[rcv.srcId + 1]
          /\ rcv.pc = "idle"
      BY <1>1, <2>1 DEF Sink
    <3>2. rcv.bytes = << >>
      BY <1>1, <3>1 DEF Control, Buffer
    <3>3. Stored = rcv.sink
      BY <1>2, <3>2, ConcatEmptySeq DEF Stored
    <3> QED BY <1>3, <3>1, <3>3
  <2> QED BY <1>3, <2>1, Zenon DEF OkMeansWhole
<1>6. WindowsAgree
  BY <1>1 DEF WindowsAgree, Flow, Window, Linked
<1> QED BY <1>4, <1>5, <1>6

\* A message is lost.
LEMMA LoseKeeps ==
    ASSUME Core, LoseMessage
    PROVE  Core'
<1>1. CASE toRcv # << >> /\ toRcv' = Tail(toRcv) /\ UNCHANGED toSnd
  BY <1>1, LessToRcv DEF LoseMessage, server
<1>2. CASE toSnd # << >> /\ toSnd' = Tail(toSnd) /\ UNCHANGED toRcv
  BY <1>2, LessToSnd DEF LoseMessage, server
<1> QED BY <1>1, <1>2 DEF LoseMessage

\* start_stream() on a sender that is not done with the stream before stops on
\* its assertion; what the receiver has got is no worse for it.
LEMMA StartOnBusySender ==
    ASSUME Core, Goals, StartRead, snd.sleeping \/ snd.requestClose
    PROVE  Goals' /\ ~Running'
<1> USE DEF Core
<1>1. /\ rcv' = rcv /\ data' = data /\ snd' = [snd EXCEPT !.bad = "start_stream"]
      /\ \E n \in Lengths : sizes' = Append(sizes, n)
  BY DEF StartRead, StartStream, wire
<1>2. snd'.sid = snd.sid /\ snd'.win = snd.win /\ snd'.bad = "start_stream"
  BY <1>1 DEF Types, Sender
<1>3. /\ Len(sizes) \in Nat /\ Len(sizes') = Len(sizes) + 1
      /\ \A s \in 1..Len(sizes) : sizes'[s] = sizes[s]
  <2>1. PICK n \in Lengths : sizes' = Append(sizes, n)
    BY <1>1
  <2>2. n \in Nat /\ sizes \in Seq(Nat)
    BY <2>1, StreamAssumption DEF Types
  <2> QED BY <2>1, <2>2, AppendIs
<1>4. \A s \in 1..Len(sizes) : s \in 1..Len(sizes') /\ sizes'[s] = sizes[s]
  BY <1>3
<1>5. SinkInOrder'
  BY <1>1, <1>4 DEF Goals, SinkInOrder
<1>6. OkMeansWhole'
  BY <1>1, <1>4 DEF Goals, OkMeansWhole
<1>7. WindowsAgree'
  BY <1>1, <1>2 DEF Goals, WindowsAgree, InFlight
<1>8. LastBufferThere' /\ NotifiedOnce'
  BY <1>1 DEF Goals, LastBufferThere, NotifiedOnce
<1> QED BY <1>2, <1>5, <1>6, <1>7, <1>8 DEF Goals, Running

\* The inductive invariant: as long as no assertion has failed the core holds,
\* and the properties hold also of the state an assertion leaves behind.
IInv == Goals /\ (Running => Core)

\* The initial states satisfy it.
LEMMA InitIInv == Init => IInv
<1> SUFFICES ASSUME Init PROVE IInv
  OBVIOUS
<1> USE DEF Init
<1>1. Len(<< >>) = 0 /\ K = 0
  BY DEF K
<1>2. /\ INVALID_STREAM_ID \in StreamIds /\ Proposed \in Nat /\ MaxWindow \in Nat
      /\ MaxWindow > 0
  BY StreamAssumption DEF INVALID_STREAM_ID, StreamIds
<1>3. snd \in Sender
  BY <1>2 DEF Sender, EmptyChunk, Piece
<1>4. rcv \in Receiver
  BY <1>2 DEF Receiver
<1>5. Types
  BY <1>3, <1>4 DEF Types, Reading
<1>6. Inits = {} /\ Closes = {} /\ Grants = {}
  BY <1>1 DEF Inits, Closes, Grants
<1>7. Ids
  <2>1. IdOf(0) = INVALID_STREAM_ID
    <3>1. 0 \notin 1..MAX_SEND_STREAM_ID + 1
      OBVIOUS
    <3> QED BY <3>1 DEF IdOf
  <2>2. 0..0 - 1 = {}
    OBVIOUS
  <2>3. inUse = {} /\ nextId = 0 /\ snd.sid = INVALID_STREAM_ID
    OBVIOUS
  <2>4. 0 <= MAX_SEND_STREAM_ID
    BY StreamAssumption
  <2>5. K = 0
    BY <1>1
  <2> HIDE DEF Init
  <2> QED BY <2>1, <2>2, <2>3, <2>4, <2>5 DEF Ids
<1>8. Messages
  BY <1>6 DEF Messages
<1>9. Granted
  BY <1>6 DEF Granted, NotGranted
<1>10. Frames
  BY <1>1 DEF Frames
<1>11. SenderInv
  BY DEF SenderInv, SenderRests
<1>12. Control /\ Buffer /\ Flow
  BY <1>2 DEF Control, Buffer, Flow, Opening
<1>13. Sink
  <2>1. Stored = << >>
    BY ConcatEmptySeq DEF Stored
  <2> QED BY <2>1 DEF Sink
<1>14. Window
  BY <1>6 DEF Window, Linked
<1>15. Core
  BY <1>5, <1>7, <1>8, <1>9, <1>10, <1>11, <1>12, <1>13, <1>14 DEF Core
<1>16. LastBufferThere /\ NotifiedOnce
  BY DEF LastBufferThere, NotifiedOnce
<1> QED BY <1>15, <1>16, CoreGivesGoals DEF IInv, Goals

\* Every step keeps it.
LEMMA StepIInv == IInv /\ [Next]_vars => IInv'
<1> SUFFICES ASSUME IInv, [Next]_vars PROVE IInv'
  OBVIOUS
<1>1. CASE UNCHANGED vars
  <2>1. UNCHANGED <<read, snd, inUse, nextId, rcv, toRcv, toSnd, data, sizes>>
    BY <1>1 DEF vars, wire
  <2>2. Goals' <=> Goals
    BY <2>1 DEF Goals, SinkInOrder, OkMeansWhole, WindowsAgree, LastBufferThere, NotifiedOnce,
                InFlight
  <2>3. Running' <=> Running
    BY <2>1 DEF Running
  <2>4. Core => Core'
    <3> SUFFICES ASSUME Core PROVE Core'
      OBVIOUS
    <3>1. rcv' \in Receiver /\ Control' /\ Buffer' /\ Sink'
      BY <2>1 DEF Core, Types, Control, Opening, Closes, Buffer, Sink, Stored
    <3>2. Opening' => Opening
      BY <2>1 DEF Opening
    <3> QED BY <2>1, <3>1, <3>2, ReceiverOnly
  <2> QED BY <2>2, <2>3, <2>4 DEF IInv
<1>2. CASE Next
  <2>1. Running
    BY <1>2 DEF Next, Progress, SenderFlow, ReadFlow, ReceiverFlow, Delivery, SenderEntry,
                SendInitStream, ReceivedInitStream, GotFrame, StreamProceedTimeout,
                SendCloseStream, StartRead, WaitForStarted, TryRead, WaitForClose,
                ReceiverWakeup, InitBufferReady, HaveRawBuffer, StreamInitiateReplied,
                StreamProceedReceived, HandleStreamInitiate, HandleBytesReceived,
                HandleStreamComplete, TimerExpires, TimerRun, SinkReleases, ErrorLeftOver,
                ReadRequest, CancelRequest, LoseMessage
  <2>2. Core /\ Goals /\ rcv.bad = "none"
    BY <2>1 DEF IInv, Running
  <2>3. ASSUME Core', Unharmed' PROVE IInv'
    <3>1. (SinkInOrder /\ OkMeansWhole /\ WindowsAgree)'
      BY <2>3, CoreGivesGoals, PTL
    <3> QED BY <2>3, <3>1 DEF IInv, Goals, Unharmed
  <2>4. ASSUME rcv' = rcv PROVE Unharmed'
    BY <2>2, <2>4 DEF Unharmed, LastBufferThere, NotifiedOnce
  <2>5. CASE SenderFlow
    <3>1. rcv' = rcv
      BY <2>5 DEF SenderFlow, SenderEntry, SendInitStream, ReceivedInitStream, GotFrame,
                  StreamProceedTimeout, SendCloseStream
    <3>2. Core'
      BY <2>2, <2>5, SenderEntryKeeps, SendInitKeeps, ReceivedInitKeeps, GotFrameKeeps,
         ProceedTimeoutKeeps, SendCloseKeeps DEF SenderFlow
    <3> QED BY <2>3, <2>4, <3>1, <3>2
  <2>6. CASE StartRead
    <3>1. CASE snd.sleeping \/ snd.requestClose
      BY <2>2, <2>6, <3>1, StartOnBusySender DEF IInv
    <3>2. CASE ~snd.sleeping /\ ~snd.requestClose
      <4>1. Core'
        BY <2>2, <2>6, <3>2, StartReadKeeps
      <4>2. rcv' = rcv
        BY <2>6 DEF StartRead
      <4> QED BY <2>3, <2>4, <4>1, <4>2
    <3> QED BY <3>1, <3>2
  <2>7. CASE WaitForStarted \/ TryRead \/ WaitForClose \/ ErrorLeftOver
    <3>1. rcv' = rcv
      BY <2>7 DEF WaitForStarted, TryRead, WaitForClose, ErrorLeftOver
    <3>2. Core'
      BY <2>2, <2>7, WaitForStartedKeeps, TryReadKeeps, WaitForCloseKeeps, ErrorLeftOverKeeps
    <3> QED BY <2>3, <2>4, <3>1, <3>2
  <2>8. CASE TimerExpires \/ TimerRun
    <3>1. rcv' = rcv
      BY <2>8 DEF TimerExpires, TimerRun
    <3>2. Core'
      BY <2>2, <2>8, TimerKeeps
    <3> QED BY <2>3, <2>4, <3>1, <3>2
  <2>9. CASE StreamInitiateReplied \/ StreamProceedReceived \/ LoseMessage
    <3>1. rcv' = rcv
      BY <2>9 DEF StreamInitiateReplied, StreamProceedReceived, LoseMessage
    <3>2. Core'
      BY <2>2, <2>9, RepliedKeeps, ProceedKeeps, LoseKeeps
    <3> QED BY <2>3, <2>4, <3>1, <3>2
  <2>10. CASE HandleStreamInitiate
    BY <2>2, <2>3, <2>10, InitiateKeeps
  <2>11. CASE HandleBytesReceived
    BY <2>2, <2>3, <2>11, BytesKeeps
  <2>12. CASE HandleStreamComplete
    BY <2>2, <2>3, <2>12, CompleteKeeps
  <2>13. CASE ReceiverWakeup
    BY <2>2, <2>3, <2>13, WakeupKeeps
  <2>14. CASE InitBufferReady
    BY <2>2, <2>3, <2>14, InitReadyKeeps
  <2>15. CASE HaveRawBuffer
    BY <2>2, <2>3, <2>15, HaveRawKeeps
  <2>16. CASE SinkReleases
    BY <2>2, <2>3, <2>16, SinkReleasesKeeps
  <2>17. CASE ReadRequest
    BY <2>2, <2>3, <2>17, ReadRequestKeeps
  <2>18. CASE CancelRequest
    BY <2>2, <2>3, <2>18, CancelKeeps
  <2> QED BY <1>2, <2>5, <2>6, <2>7, <2>8, <2>9, <2>10, <2>11, <2>12, <2>13, <2>14, <2>15,
             <2>16, <2>17, <2>18 DEF Next, Progress, ReadFlow, ReceiverFlow, Delivery
<1> QED BY <1>1, <1>2

\* The inductive invariant holds in every reachable state.
THEOREM StreamInvariant == Spec => []IInv
BY InitIInv, StepIInv, PTL DEF Spec

\* What the sink has got is, in order and without a gap, the beginning of what
\* one read flow has read, whatever was lost, cancelled or overtaken.
THEOREM SinkGetsOneStream == Spec => []SinkInOrder
<1>1. IInv => SinkInOrder
  BY DEF IInv, Goals
<1> QED BY <1>1, StreamInvariant, PTL

\* A request that returns without an error has given the sink the whole stream.
THEOREM OkIsTheWholeStream == Spec => []OkMeansWhole
<1>1. IInv => OkMeansWhole
  BY DEF IInv, Goals
<1> QED BY <1>1, StreamInvariant, PTL

\* What is under way and what the sender may still send fits into the
\* receiver's window; after the close it waits for exactly what is under way.
THEOREM WindowIsNeverOverrun == Spec => []WindowsAgree
<1>1. IInv => WindowsAgree
  BY DEF IInv, Goals
<1> QED BY <1>1, StreamInvariant, PTL

\* set_from() never takes the last buffer where there is none.
THEOREM LastBufferIsThere == Spec => []LastBufferThere
<1>1. IInv => LastBufferThere
  BY DEF IInv, Goals
<1> QED BY <1>1, StreamInvariant, PTL

\* Without a cancel_request() the receiver's flow is never notified twice.
THEOREM OnlyCancelNotifiesTwice == Spec => []NotifiedOnce
<1>1. IInv => NotifiedOnce
  BY DEF IInv, Goals
<1> QED BY <1>1, StreamInvariant, PTL
=============================================================================

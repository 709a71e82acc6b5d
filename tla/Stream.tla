------------------------------- MODULE Stream -------------------------------
(***************************************************************************)
(* Streams over CAN: MemorySpaceStreamReadFlow (MemoryConfigStream.hxx)    *)
(* reads a memory space into StreamSenderCan (StreamSender.hxx), whose     *)
(* frames StreamReceiverCan (StreamReceiver.cpp) puts together for a sink. *)
(*                                                                         *)
(* Both ends are records, snd and rcv; the operators on them are the       *)
(* functions of the classes.  Addressed messages and data frames travel on *)
(* separate paths: a close message may overtake the data, a new stream's   *)
(* first message may not overtake the data of the one before.  Messages    *)
(* may be lost, any timer may expire before the answer comes, the receiver *)
(* may be cancelled.  A failed assertion stops the model and stays in      *)
(* "bad".                                                                  *)
(***************************************************************************)
EXTENDS Naturals, Sequences, FiniteSets

CONSTANTS
    Lengths,        \* bytes a memory space yields until its end or an error
    FrameSize,      \* MAX_BYTES_PAYLOAD_PER_CAN_FRAME
    RawSize,        \* RawData::MAX_SIZE
    Proposed,       \* window size the sender proposes
    MaxWindow,      \* window size of the receive request
    MAX_SEND_STREAM_ID,
    MAX_FRAMES_IN_FLIGHT,
    PoolSize,       \* entries of lastBufferPool_ and of sendBufferPool_
    MaxReads,       \* bound: streams asked for
    MaxLost         \* bound: messages lost

ASSUME StreamAssumption ==
    /\ Lengths \subseteq Nat
    /\ FrameSize \in Nat \ {0} /\ RawSize \in Nat /\ FrameSize <= RawSize
    /\ Proposed \in Nat \ {0} /\ MaxWindow \in Nat \ {0}
    /\ MAX_SEND_STREAM_ID \in Nat
    /\ MAX_FRAMES_IN_FLIGHT \in Nat \ {0} /\ PoolSize \in Nat \ {0}
    /\ MaxReads \in Nat /\ MaxLost \in Nat

VARIABLES
    read,    \* MemorySpaceStreamReadFlow: state, ofs_, len_
    snd,     \* StreamSenderCan
    inUse,   \* inUseSendStreamIds_
    nextId,  \* nextSendStreamId_
    rcv,     \* StreamReceiverCan and its sink
    toRcv, toSnd,  \* addressed messages under way
    data,    \* data frames under way
    asks,    \* read commands at the server that have no sender yet
    sizes,   \* length of each stream that was started (observation)
    reads, lost

wire == <<toRcv, toSnd, data>>
server == <<read, inUse, nextId, asks, sizes>>
vars == <<read, snd, inUse, nextId, rcv, wire, asks, sizes, reads, lost>>

INVALID_STREAM_ID == MAX_SEND_STREAM_ID + 1
StreamIds == 0..INVALID_STREAM_ID
Smaller(a, b) == IF a < b THEN a ELSE b
Running == snd.bad = "none" /\ rcv.bad = "none"

\* Bytes lo+1..hi of a stream; the empty buffer of trigger() has no raw data.
Chunk(lo, hi) == [lo |-> lo, hi |-> hi, raw |-> TRUE]
EmptyChunk == [lo |-> 0, hi |-> 0, raw |-> FALSE]
Bytes(s, lo, hi) == [i \in 1..hi - lo |-> <<s, lo + i>>]

Init ==
    /\ read = [state |-> "none", ofs |-> 0, len |-> 0]
    /\ snd = [pc |-> "idle", state |-> "IDLE", queue |-> << >>,
              msg |-> EmptyChunk, sid |-> INVALID_STREAM_ID, reply |-> "none",
              winSize |-> Proposed, win |-> 0, total |-> 0, timer |-> "idle",
              sleeping |-> FALSE, requestClose |-> FALSE,
              requestInit |-> FALSE, replyHandler |-> FALSE,
              proceedHandlers |-> 0, bad |-> "none"]
    /\ inUse = {} /\ nextId = 0
    /\ rcv = [pc |-> "idle", queued |-> FALSE, isWaiting |-> FALSE,
              pendingInit |-> FALSE, pendingCancel |-> FALSE,
              closed |-> FALSE, srcId |-> INVALID_STREAM_ID,
              winSize |-> MaxWindow, win |-> 0, total |-> 0,
              current |-> "none", bytes |-> << >>, last |-> FALSE,
              initHandler |-> FALSE, completeHandler |-> FALSE,
              dataHandler |-> FALSE, sink |-> << >>, held |-> 0,
              result |-> "none", bad |-> "none"]
    /\ toRcv = << >> /\ toSnd = << >> /\ data = << >>
    /\ asks = 0 /\ sizes = << >> /\ reads = 0 /\ lost = 0
-----------------------------------------------------------------------------
(* The sender.                                                             *)

\* Timer::trigger().
Trigger(s) ==
    CASE s.timer = "expired" -> s
      [] s.timer = "active" -> [s EXCEPT !.timer = "expired"]
      [] OTHER -> [s EXCEPT !.bad = "trigger"]

\* release_and_exit().
Release(s) == [s EXCEPT !.pc = "idle", !.msg = EmptyChunk]

\* return_error().
ReturnError(s) == Release([s EXCEPT !.state = "STATE_ERROR"])

\* wait_for_stream_proceed().  Its test for an early proceed is left out: the
\* window was found empty in the same run of the flow.
WaitForStreamProceed(s) ==
    [s EXCEPT !.pc = "stream_proceed_timeout", !.state = "FULL",
              !.sleeping = TRUE, !.timer = "active"]

\* entry(): also run at the end of the other states.
Entry(s) ==
    IF s.requestInit
    THEN [s EXCEPT !.requestInit = FALSE, !.pc = "send_init_stream"]
    ELSE IF s.state \in {"STATE_ERROR", "CLOSING"} THEN Release(s)
    ELSE IF s.win = 0 THEN WaitForStreamProceed(s)
    ELSE IF s.msg.lo < s.msg.hi THEN [s EXCEPT !.pc = "got_frame"]
    ELSE IF s.requestClose /\ s.queue = << >>
    THEN [s EXCEPT !.requestClose = FALSE, !.pc = "send_close_stream",
                   !.proceedHandlers = @ - 1]
    ELSE Release(s)

\* The flow takes the next buffer from its queue.
SenderEntry ==
    /\ Running /\ snd.pc = "idle" /\ snd.queue # << >>
    /\ snd' = Entry([snd EXCEPT !.msg = Head(snd.queue),
                                !.queue = Tail(snd.queue)])
    /\ UNCHANGED <<server, rcv, wire, reads, lost>>

\* send_init_stream(): the message buffer is there.
SendInitStream ==
    /\ Running /\ snd.pc = "send_init_stream"
    /\ toRcv' = Append(toRcv, [kind |-> "INITIATE", sid |-> snd.sid,
                               size |-> snd.winSize])
    /\ snd' = [snd EXCEPT !.pc = "received_init_stream",
                          !.state = "INITIATING", !.replyHandler = TRUE,
                          !.sleeping = TRUE, !.timer = "active"]
    /\ UNCHANGED <<server, rcv, toSnd, data, reads, lost>>

\* stream_initiate_replied(); nobody listens once received_init_stream() ran.
StreamInitiateReplied ==
    /\ Running /\ toSnd # << >> /\ Head(toSnd).kind = "REPLY"
    /\ toSnd' = Tail(toSnd)
    /\ snd' = IF snd.replyHandler /\ Head(toSnd).sid = snd.sid
              THEN Trigger([snd EXCEPT !.reply = Head(toSnd).reply,
                                       !.winSize = Head(toSnd).size,
                                       !.sleeping = FALSE])
              ELSE snd
    /\ UNCHANGED <<server, rcv, toRcv, data, reads, lost>>

\* received_init_stream(), after the answer or after 20 s.
ReceivedInitStream ==
    /\ Running /\ snd.pc = "received_init_stream" /\ snd.timer = "notified"
    /\ LET s == [snd EXCEPT !.timer = "idle", !.replyHandler = FALSE]
       IN snd' = IF s.reply # "accept" \/ s.winSize = 0 THEN ReturnError(s)
                 ELSE Entry([s EXCEPT !.win = s.winSize, !.state = "RUNNING",
                                      !.proceedHandlers = @ + 1])
    /\ UNCHANGED <<server, rcv, wire, reads, lost>>

\* Mutant: the frame is cut to the size of a frame, not to the window.
NextCanLength_NoWindow(s) == Smaller(s.msg.hi - s.msg.lo, FrameSize)

\* compute_next_can_length().
NextCanLength(s) ==
    Smaller(Smaller(s.msg.hi - s.msg.lo, FrameSize), s.win)

\* got_frame(): a buffer of canFramePool_ is there.
GotFrame ==
    /\ Running /\ snd.pc = "got_frame" /\ Len(data) < MAX_FRAMES_IN_FLIGHT
    /\ LET n == NextCanLength(snd)
       IN /\ data' = Append(data, [s |-> Len(sizes), lo |-> snd.msg.lo,
                                   hi |-> snd.msg.lo + n])
          /\ snd' = Entry([snd EXCEPT !.msg.lo = @ + n, !.total = @ + n,
                                      !.win = IF @ < n THEN 0 ELSE @ - n])
    /\ UNCHANGED <<server, rcv, toRcv, toSnd, reads, lost>>

\* stream_proceed_received(), once for each registration of the handler.
StreamProceedReceived ==
    /\ Running /\ toSnd # << >> /\ Head(toSnd).kind = "PROCEED"
    /\ toSnd' = Tail(toSnd)
    /\ LET s == [snd EXCEPT !.win = @ + snd.proceedHandlers * snd.winSize]
       IN snd' = IF snd.proceedHandlers = 0 \/ Head(toSnd).sid # snd.sid
                 THEN snd
                 ELSE IF snd.sleeping
                 THEN Trigger([s EXCEPT !.sleeping = FALSE])
                 ELSE s
    /\ UNCHANGED <<server, rcv, toRcv, data, reads, lost>>

\* Mutant: the flow sleeps again and again when no proceed message comes.
StreamProceedTimeout_Again ==
    /\ Running /\ snd.pc = "stream_proceed_timeout" /\ snd.timer = "notified"
    /\ LET s == [snd EXCEPT !.timer = "idle"]
       IN snd' = IF s.win = 0 THEN WaitForStreamProceed(s)
                 ELSE Entry([s EXCEPT !.state = "RUNNING"])
    /\ UNCHANGED <<server, rcv, wire, reads, lost>>

\* stream_proceed_timeout(), after the message or after 20 s.
StreamProceedTimeout ==
    /\ Running /\ snd.pc = "stream_proceed_timeout" /\ snd.timer = "notified"
    /\ LET s == [snd EXCEPT !.timer = "idle"]
       IN snd' = IF s.win = 0 THEN ReturnError(s)
                 ELSE Entry([s EXCEPT !.state = "RUNNING"])
    /\ UNCHANGED <<server, rcv, wire, reads, lost>>

\* send_close_stream(): the message buffer is there.
SendCloseStream ==
    /\ Running /\ snd.pc = "send_close_stream"
    /\ toRcv' = Append(toRcv, [kind |-> "COMPLETE", sid |-> snd.sid,
                               size |-> snd.total])
    /\ snd' = Entry([snd EXCEPT !.state = "CLOSING"])
    /\ UNCHANGED <<server, rcv, toSnd, data, reads, lost>>

\* The executor finds the timer expired, and runs it.
TimerExpires ==
    /\ Running /\ snd.timer = "active"
    /\ snd' = [snd EXCEPT !.timer = "expired"]
    /\ UNCHANGED <<server, rcv, wire, reads, lost>>

TimerRun ==
    /\ Running /\ snd.timer = "expired"
    /\ snd' = [snd EXCEPT !.timer = "notified"]
    /\ UNCHANGED <<server, rcv, wire, reads, lost>>
-----------------------------------------------------------------------------
(* MemorySpaceStreamReadFlow, the sender's user, and the stream IDs.       *)

\* get_send_stream_id(): the loop makes MAX_SEND_STREAM_ID attempts.  Nobody
\* calls release_send_stream_id().
Attempt(i) == (nextId + i) % (MAX_SEND_STREAM_ID + 1)
Attempts == {i \in 0..MAX_SEND_STREAM_ID - 1 : Attempt(i) \notin inUse}
FirstAttempt == CHOOSE i \in Attempts : \A j \in Attempts : i <= j
SendStreamId ==
    IF Attempts = {} THEN INVALID_STREAM_ID ELSE Attempt(FirstAttempt)

\* start_stream(): its assertions are about what the last stream left behind.
StartStream(s, id) ==
    IF s.sleeping \/ s.requestClose THEN [s EXCEPT !.bad = "start_stream"]
    ELSE [s EXCEPT !.state = "STARTED", !.sid = id, !.total = 0,
                   !.requestInit = TRUE, !.queue = Append(@, EmptyChunk),
                   !.reply = "none", !.winSize = Proposed, !.win = 0]

\* close_stream().
CloseStream(s) ==
    [s EXCEPT !.requestClose = TRUE, !.queue = Append(@, EmptyChunk)]

\* got_sender() and initiate_stream().
StartRead ==
    /\ Running /\ asks > 0 /\ read.state = "none"
    /\ asks' = asks - 1
    /\ inUse' = inUse \cup ({SendStreamId} \ {INVALID_STREAM_ID})
    /\ nextId' = IF Attempts = {} THEN Attempt(MAX_SEND_STREAM_ID)
                 ELSE Attempt(FirstAttempt + 1)
    /\ \E n \in Lengths :
          /\ read' = [state |-> "wait_for_started", ofs |-> 0, len |-> n]
          /\ sizes' = Append(sizes, n)
    /\ snd' = StartStream(snd, SendStreamId)
    /\ UNCHANGED <<rcv, wire, reads, lost>>

\* done_stream() with clear().
DoneStream ==
    /\ read' = [read EXCEPT !.state = "none"]
    /\ snd' = [snd EXCEPT !.state = "IDLE"]

\* wait_for_started() polls the sender's state.
WaitForStarted ==
    /\ Running /\ read.state = "wait_for_started"
    /\ \/ snd.state = "RUNNING" /\ read' = [read EXCEPT !.state = "try_read"]
          /\ UNCHANGED snd
       \/ snd.state = "STATE_ERROR" /\ DoneStream
    /\ UNCHANGED <<inUse, nextId, asks, sizes, rcv, wire, reads, lost>>

\* Raw buffers of sendBufferPool_ that the sender has not released.
Unsent == {i \in 1..Len(snd.queue) : snd.queue[i].raw}
SendBufferFree == Cardinality(Unsent) + (IF snd.msg.raw THEN 1 ELSE 0) < PoolSize

\* have_raw_buffer() and try_read() until the buffer is full or the space has
\* no more to give; then close_stream().
TryRead ==
    /\ Running /\ read.state = "try_read" /\ SendBufferFree
    /\ LET n == Smaller(read.len, RawSize)
           end == n = read.len
           s == [snd EXCEPT !.queue =
                    Append(@, Chunk(read.ofs, read.ofs + n))]
       IN /\ read' = [state |-> IF end THEN "wait_for_close" ELSE "try_read",
                      ofs |-> read.ofs + n, len |-> read.len - n]
          /\ snd' = IF end THEN CloseStream(s) ELSE s
    /\ UNCHANGED <<inUse, nextId, asks, sizes, rcv, wire, reads, lost>>

\* try_read() hands the space an uninitialised error code, which a space need
\* not set on success: left over as ERROR_AGAIN it makes the flow wait for a
\* call nobody makes.  (Any other value ends the stream early: a length of its
\* own.)
ErrorLeftOver ==
    /\ Running /\ read.state = "try_read" /\ SendBufferFree /\ read.len > 0
    /\ read' = [state |-> "again", ofs |-> 0, len |-> 0]
    /\ UNCHANGED <<inUse, nextId, asks, sizes, snd, rcv, wire, reads, lost>>

\* wait_for_close() polls until the sender is done and has no work left.
WaitForClose ==
    /\ Running /\ read.state = "wait_for_close"
    /\ snd.state \in {"CLOSING", "STATE_ERROR"}
    /\ snd.pc = "idle" /\ snd.queue = << >>
    /\ DoneStream
    /\ UNCHANGED <<inUse, nextId, asks, sizes, rcv, wire, reads, lost>>
-----------------------------------------------------------------------------
(* The receiver.                                                           *)

\* StateFlowWithQueue::notify(): the flow must be in its wait, and not be in
\* the executor's queue already (HASSERT of Q::insert()).
Notify(r) ==
    IF r.pc # "wakeup" \/ r.queued THEN [r EXCEPT !.bad = "notify"]
    ELSE [r EXCEPT !.queued = TRUE]

\* The buffer being filled goes to the sink, which holds it for a while.
Flush(r) ==
    IF r.current = "none" THEN r
    ELSE [r EXCEPT !.sink = @ \o r.bytes, !.bytes = << >>, !.current = "none",
                   !.held = @ + (IF r.current = "last" THEN 1 ELSE 0)]

\* Mutant: the bytes of a partly filled buffer stay in it.
Return_NoFlush(r, result) ==
    [r EXCEPT !.pc = "idle", !.dataHandler = FALSE, !.result = result]

\* The end of a request: data are no longer received, the sink gets the rest.
Return(r, result) ==
    [Flush(r) EXCEPT !.pc = "idle", !.dataHandler = FALSE, !.result = result]

\* unregister_handlers(); Return() takes the data handler away.
UnregisterHandlers(r) ==
    [r EXCEPT !.initHandler = FALSE, !.completeHandler = FALSE]

\* Mutant: a close does not hand the partly filled buffer to the sink.
Wakeup_DropsRest(r) ==
    LET q == [r EXCEPT !.queued = FALSE, !.isWaiting = FALSE]
    IN IF q.pendingCancel
       THEN Return(UnregisterHandlers(q), "canceled")
       ELSE IF q.pendingInit
       THEN [q EXCEPT !.pendingInit = FALSE, !.pc = "init_buffer_ready"]
       ELSE IF q.win > 0 THEN [q EXCEPT !.pc = "wakeup"]
       ELSE IF q.closed
       THEN Return([q EXCEPT !.closed = FALSE, !.bytes = << >>], "ok")
       ELSE [q EXCEPT !.pc = "have_raw_buffer"]

\* wakeup().  The last wait() does not set isWaiting_.
Wakeup(r) ==
    LET q == [r EXCEPT !.queued = FALSE, !.isWaiting = FALSE]
    IN IF q.pendingCancel
       THEN Return(UnregisterHandlers(q), "canceled")
       ELSE IF q.pendingInit
       THEN [q EXCEPT !.pendingInit = FALSE, !.pc = "init_buffer_ready"]
       ELSE IF q.win > 0 THEN [q EXCEPT !.pc = "wakeup"]
       ELSE IF q.closed THEN Return([q EXCEPT !.closed = FALSE], "ok")
       ELSE [q EXCEPT !.pc = "have_raw_buffer"]

\* wait_for_wakeup().
WaitForWakeup(r) ==
    IF r.pendingCancel THEN Wakeup(r)
    ELSE [r EXCEPT !.isWaiting = TRUE, !.pc = "wakeup"]

\* A client asks the server for a stream and opens the receiver: send() with
\* announced_stream().
ReadRequest ==
    /\ Running /\ rcv.pc = "idle" /\ reads < MaxReads
    /\ reads' = reads + 1 /\ asks' = asks + 1
    /\ rcv' = WaitForWakeup(
                [rcv EXCEPT !.closed = FALSE, !.pendingInit = FALSE,
                            !.pendingCancel = FALSE, !.isWaiting = FALSE,
                            !.winSize = MaxWindow, !.win = 0,
                            !.srcId = INVALID_STREAM_ID, !.sink = << >>,
                            !.initHandler = TRUE, !.result = "none"])
    /\ UNCHANGED <<read, snd, inUse, nextId, sizes, wire, lost>>

\* handle_stream_initiate().
HandleStreamInitiate ==
    /\ Running /\ toRcv # << >> /\ Head(toRcv).kind = "INITIATE"
    /\ data = << >>
    /\ toRcv' = Tail(toRcv)
    /\ LET m == Head(toRcv)
           size == Smaller(m.size, rcv.winSize)
       IN \/ ~rcv.initHandler /\ UNCHANGED <<rcv, toSnd>>
          \/ /\ rcv.initHandler /\ m.sid = INVALID_STREAM_ID
             /\ toSnd' = Append(toSnd, [kind |-> "REPLY", sid |-> m.sid,
                                        reply |-> "error", size |-> 0])
             /\ rcv' = [rcv EXCEPT !.initHandler = FALSE]
          \/ /\ rcv.initHandler /\ m.sid # INVALID_STREAM_ID
             /\ rcv' = Notify([rcv EXCEPT !.srcId = m.sid, !.winSize = size,
                                          !.win = size, !.total = 0,
                                          !.completeHandler = TRUE,
                                          !.initHandler = FALSE,
                                          !.pendingInit = TRUE])
             /\ UNCHANGED toSnd
    /\ UNCHANGED <<server, snd, data, reads, lost>>

\* Mutant: every buffer of the window is taken to be the last one.
NextBuffer_AlwaysLast(r) ==
    IF r.last THEN [r EXCEPT !.current = "last", !.last = FALSE]
    ELSE [r EXCEPT !.bad = "null"]

\* The raw buffer for the next bytes: one of lastBufferPool_ if it is the last
\* of the window.
NextBuffer(r) ==
    IF r.win > RawSize THEN [r EXCEPT !.current = "middle"]
    ELSE IF r.last THEN [r EXCEPT !.current = "last", !.last = FALSE]
    ELSE [r EXCEPT !.bad = "null"]

\* One turn of the loop of handle_bytes_received(): as many bytes as the
\* buffer takes.
FillBuffer(r, b) ==
    LET c == IF r.current = "none" THEN NextBuffer(r) ELSE r
        n == Smaller(Len(b), RawSize - Len(c.bytes))
        f == [c EXCEPT !.bytes = @ \o SubSeq(b, 1, n), !.total = @ + n,
                       !.win = IF n <= @ THEN @ - n ELSE 0]
    IN IF c.bad # "none" THEN c
       ELSE IF Len(f.bytes) = RawSize \/ f.win = 0 THEN Flush(f) ELSE f

\* handle_bytes_received(): a frame touches at most two buffers.
HandleBytesReceived ==
    /\ Running /\ data # << >>
    /\ data' = Tail(data)
    /\ LET b == Bytes(Head(data).s, Head(data).lo, Head(data).hi)
           one == FillBuffer(rcv, b)
           rest == SubSeq(b, one.total - rcv.total + 1, Len(b))
           all == IF rest = << >> \/ one.bad # "none" THEN one
                  ELSE FillBuffer(one, rest)
       IN rcv' = IF ~rcv.dataHandler \/ b = << >> THEN rcv
                 ELSE IF all.win = 0 /\ all.bad = "none" THEN Notify(all)
                 ELSE all
    /\ UNCHANGED <<server, snd, toRcv, toSnd, reads, lost>>

\* Mutant: the flow is woken up although bytes are still to come.
HandleStreamComplete_Notifies ==
    /\ Running /\ toRcv # << >> /\ Head(toRcv).kind = "COMPLETE"
    /\ toRcv' = Tail(toRcv)
    /\ LET r == [rcv EXCEPT !.closed = TRUE, !.completeHandler = FALSE,
                            !.win = Head(toRcv).size - rcv.total]
       IN rcv' = IF ~rcv.completeHandler \/ Head(toRcv).sid # rcv.srcId
                 THEN rcv ELSE Notify(r)
    /\ UNCHANGED <<server, snd, toSnd, data, reads, lost>>

\* handle_stream_complete().
HandleStreamComplete ==
    /\ Running /\ toRcv # << >> /\ Head(toRcv).kind = "COMPLETE"
    /\ toRcv' = Tail(toRcv)
    /\ LET r == [rcv EXCEPT !.closed = TRUE, !.completeHandler = FALSE,
                            !.win = Head(toRcv).size - rcv.total]
       IN rcv' = IF ~rcv.completeHandler \/ Head(toRcv).sid # rcv.srcId
                 THEN rcv
                 ELSE IF r.win = 0 THEN Notify(r) ELSE r
    /\ UNCHANGED <<server, snd, toSnd, data, reads, lost>>

ReceiverWakeup ==
    /\ Running /\ rcv.pc = "wakeup" /\ rcv.queued
    /\ rcv' = Wakeup(rcv)
    /\ UNCHANGED <<server, snd, wire, reads, lost>>

\* lastBufferPool_ has a buffer for init_reply() or window_reached().
LastBufferFree ==
    rcv.held + (IF rcv.last THEN 1 ELSE 0)
             + (IF rcv.current = "last" THEN 1 ELSE 0) < PoolSize

\* init_buffer_ready(): the first window is opened.
InitBufferReady ==
    /\ Running /\ rcv.pc = "init_buffer_ready" /\ LastBufferFree
    /\ rcv' = WaitForWakeup([rcv EXCEPT !.last = TRUE, !.dataHandler = TRUE])
    /\ toSnd' = Append(toSnd, [kind |-> "REPLY", sid |-> rcv.srcId,
                               reply |-> "accept", size |-> rcv.winSize])
    /\ UNCHANGED <<server, snd, toRcv, data, reads, lost>>

\* have_raw_buffer(): the next window is opened.
HaveRawBuffer ==
    /\ Running /\ rcv.pc = "have_raw_buffer" /\ LastBufferFree
    /\ rcv' = WaitForWakeup([rcv EXCEPT !.last = TRUE, !.win = rcv.winSize])
    /\ toSnd' = Append(toSnd, [kind |-> "PROCEED", sid |-> rcv.srcId])
    /\ UNCHANGED <<server, snd, toRcv, data, reads, lost>>

\* Mutant: the waiting flow is not notified.
CancelRequest_NoNotify ==
    /\ Running /\ rcv.pc # "idle" /\ ~rcv.pendingCancel
    /\ rcv' = [rcv EXCEPT !.pendingCancel = TRUE, !.isWaiting = FALSE]
    /\ UNCHANGED <<server, snd, wire, reads, lost>>

\* cancel_request() at any time while a request is open.
CancelRequest ==
    /\ Running /\ rcv.pc # "idle" /\ ~rcv.pendingCancel
    /\ LET r == [rcv EXCEPT !.pendingCancel = TRUE, !.isWaiting = FALSE]
       IN rcv' = IF rcv.isWaiting THEN Notify(r) ELSE r
    /\ UNCHANGED <<server, snd, wire, reads, lost>>

\* The sink is done with a buffer.
SinkReleases ==
    /\ Running /\ rcv.held > 0
    /\ rcv' = [rcv EXCEPT !.held = @ - 1]
    /\ UNCHANGED <<server, snd, wire, reads, lost>>

\* The addressed write flow drops a message it finds no alias for.
LoseMessage ==
    /\ Running /\ lost < MaxLost
    /\ lost' = lost + 1
    /\ \/ toRcv # << >> /\ toRcv' = Tail(toRcv) /\ UNCHANGED toSnd
       \/ toSnd # << >> /\ toSnd' = Tail(toSnd) /\ UNCHANGED toRcv
    /\ UNCHANGED <<server, snd, rcv, data, reads>>
-----------------------------------------------------------------------------
SenderFlow == SenderEntry \/ SendInitStream \/ ReceivedInitStream \/ GotFrame
                \/ StreamProceedTimeout \/ SendCloseStream
ReadFlow == StartRead \/ WaitForStarted \/ TryRead \/ WaitForClose
ReceiverFlow == ReceiverWakeup \/ InitBufferReady \/ HaveRawBuffer
Delivery == StreamInitiateReplied \/ StreamProceedReceived
              \/ HandleStreamInitiate \/ HandleBytesReceived
              \/ HandleStreamComplete
Progress == SenderFlow \/ ReadFlow \/ ReceiverFlow \/ Delivery
              \/ TimerExpires \/ TimerRun \/ SinkReleases

Next == Progress \/ ErrorLeftOver \/ ReadRequest \/ CancelRequest
          \/ LoseMessage

Spec == Init /\ [][Next]_vars

\* As long as an executor has something queued, a timer is running, a frame is
\* under way or the sink holds a buffer, something happens: nothing is assumed
\* of the order, and nobody has to ask or to cancel.
FairSpec == Spec /\ WF_vars(Progress)
-----------------------------------------------------------------------------
(* Properties.                                                             *)

InFlight == IF data = << >> THEN 0 ELSE data[Len(data)].hi - data[1].lo

\* What the sink has got is, from the first byte on and without a gap, what
\* one read flow has read: nothing of an earlier stream, of a cancelled one
\* or of another window comes in between.
SinkInOrder ==
    rcv.sink \o rcv.bytes # << >> =>
        \E s \in 1..Len(sizes) :
            rcv.sink \o rcv.bytes = Bytes(s, 0, Len(rcv.sink \o rcv.bytes))

\* A request that returns without an error has given the sink the whole
\* stream, also when the close message overtook the data.
OkMeansWhole ==
    rcv.result = "ok" =>
        \E s \in 1..Len(sizes) : rcv.sink = Bytes(s, 0, sizes[s])

\* The two ends agree about the window: what is under way and what the sender
\* may still send fits into what the receiver has room for; after the close
\* the receiver waits for exactly what is under way.
WindowsAgree ==
    rcv.dataHandler /\ rcv.srcId = snd.sid =>
        IF rcv.closed THEN InFlight = rcv.win
        ELSE InFlight + snd.win <= rcv.win

\* The window always has its last buffer when the bytes for it arrive
\* (set_from() uses the pointer unchecked).
LastBufferThere == rcv.bad # "null"

\* The messages of the protocol never notify the receiver's flow while it is
\* queued or waits for a buffer: that takes a cancel_request().
NotifiedOnce == rcv.bad = "notify" => rcv.pendingCancel

\* Every read flow ends: with a close or, when the receiver is gone or
\* answers are lost or late, with an error; unless its error code was left
\* over from before.
EveryReadEnds ==
    (read.state # "none") ~> (read.state \in {"none", "again"} \/ ~Running)

\* A receive request whose close message came in returns, and so does a
\* cancelled one.
EveryCloseReturns ==
    (rcv.closed \/ rcv.pendingCancel) ~> (rcv.pc = "idle" \/ ~Running)

\* "Sets the stream sender to be available for reuse after a stream has been
\* closed or reached error." (StreamSender.hxx, clear()): start_stream() finds
\* nothing left of the stream before.
AvailableForReuse == snd.bad # "start_stream"

\* "The timer must be active or expired at the time of call." (Timer.hxx,
\* trigger()).
TriggerAssert == snd.bad # "trigger"
=============================================================================

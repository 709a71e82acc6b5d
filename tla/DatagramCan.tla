----------------------------- MODULE DatagramCan -----------------------------
(***************************************************************************)
(* Datagrams on CAN (openlcb/DatagramCan.cpp): CanDatagramWriteFlow cuts a *)
(* datagram into frames, CanDatagramParser puts the frames of all senders  *)
(* together again.  Frames carry no number: first, middle and final frames *)
(* must do.  Several interfaces send to one local node; frames of one      *)
(* sender stay in order, frames of different senders mix freely.           *)
(*                                                                         *)
(* A byte is <<d, i>>, the i-th byte of datagram d, so that a payload      *)
(* shows where its bytes come from.                                        *)
(***************************************************************************)
EXTENDS Naturals, Sequences

CONSTANTS
    Senders,        \* source aliases
    Sizes,          \* payload sizes the applications use
    FrameLen,       \* data bytes of a frame, 8 on CAN
    MAX_SIZE,       \* DatagramDefs::MAX_SIZE, 72
    MaxDatagrams    \* bound: number of datagrams sent

ASSUME FrameAssumption ==
    /\ Sizes \subseteq Nat /\ FrameLen \in Nat \ {0}
    /\ MAX_SIZE \in Nat /\ FrameLen <= MAX_SIZE
    /\ MaxDatagrams \in Nat

VARIABLES
    sent,           \* the datagrams so far, [src, size]; d is an index of it
    sending,        \* the datagram each write flow works on, 0 if none
    dataOffset,     \* dataOffset_ of each write flow
    queue,          \* frames of each sender on their way to the parser
    aborted,        \* datagrams whose sender restarted in the middle
    pendingBuffers, \* pendingBuffers_: the sender's buffer, as a set of at most one
    localBuffer,    \* localBuffer_
    parser,         \* the state of the parser flow
    frame,          \* the frame it works on
    delivered,      \* what went to the dispatcher: [d, payload]
    rejected        \* datagrams with a rejection, and the codes

vars == <<sent, sending, dataOffset, queue, aborted, pendingBuffers,
          localBuffer, parser, frame, delivered, rejected>>

Bytes(d, size) == [i \in 1..size |-> <<d, i>>]
Types == {"ONE", "FIRST", "MIDDLE", "FINAL"}
NoFrame == [src |-> "none", type |-> "none", d |-> 0, data |-> << >>]

Init ==
    /\ sent = << >>
    /\ sending = [s \in Senders |-> 0]
    /\ dataOffset = [s \in Senders |-> 0]
    /\ queue = [s \in Senders |-> << >>]
    /\ aborted = {}
    /\ pendingBuffers = [s \in Senders |-> {}]
    /\ localBuffer = << >>
    /\ parser = "entry"
    /\ frame = NoFrame
    /\ delivered = {}
    /\ rejected = {}
-----------------------------------------------------------------------------
\* A datagram reaches the write flow, its destination is resolved.
SendToHardware(s, size) ==
    /\ sending[s] = 0 /\ Len(sent) < MaxDatagrams
    /\ sent' = Append(sent, [src |-> s, size |-> size])
    /\ sending' = [sending EXCEPT ![s] = Len(sent) + 1]
    /\ dataOffset' = [dataOffset EXCEPT ![s] = 0]
    /\ UNCHANGED <<queue, aborted, pendingBuffers, localBuffer, parser, frame,
                   delivered, rejected>>

\* fill_can_frame_buffer(): whether another frame follows.
NeedMore(rest) == rest > FrameLen

\* The frame type, from the offset and whether more frames follow.
TypeOf(off, more) ==
    CASE more /\ off > 0 -> "MIDDLE"
      [] more /\ off = 0 -> "FIRST"
      [] ~more /\ off > 0 -> "FINAL"
      [] OTHER -> "ONE"

\* fill_can_frame_buffer()
FillFrame(s) ==
    /\ sending[s] # 0
    /\ LET d == sending[s]
           off == dataOffset[s]
           rest == sent[d].size - off
           more == NeedMore(rest)
           len == IF more THEN FrameLen ELSE rest
       IN  /\ queue' = [queue EXCEPT ![s] =
                  Append(@, [src |-> s, type |-> TypeOf(off, more), d |-> d,
                             data |-> SubSeq(Bytes(d, sent[d].size), off + 1, off + len)])]
           /\ dataOffset' = [dataOffset EXCEPT ![s] = @ + len]
           /\ sending' = IF more THEN sending ELSE [sending EXCEPT ![s] = 0]
    /\ UNCHANGED <<sent, aborted, pendingBuffers, localBuffer, parser, frame,
                   delivered, rejected>>

\* The sending node restarts and comes back with the same alias: what it has
\* not put on the bus is gone.
Restart(s) ==
    /\ sending[s] # 0
    /\ sending' = [sending EXCEPT ![s] = 0]
    /\ aborted' = aborted \cup {sending[s]}
    /\ UNCHANGED <<sent, dataOffset, queue, pendingBuffers, localBuffer, parser,
                   frame, delivered, rejected>>
-----------------------------------------------------------------------------
\* Mutant: a first frame continues a buffer that is there.
BufferFor_KeepOld(f) ==
    CASE f.type = "ONE" -> {<< >>}
      [] f.type = "FIRST" -> IF pendingBuffers[f.src] = {} THEN {<< >>}
                             ELSE pendingBuffers[f.src]
      [] OTHER -> pendingBuffers[f.src]

\* entry(): the buffer the frame's data goes to, if the frame fits what came
\* before.
BufferFor(f) ==
    CASE f.type = "ONE" -> {<< >>}
      [] f.type = "FIRST" -> IF pendingBuffers[f.src] = {} THEN {<< >>} ELSE {}
      [] OTHER -> pendingBuffers[f.src]

\* entry(): more data than a datagram may have.
TooLong(buf, f) == Len(buf) + Len(f.data) > MAX_SIZE

\* Mutant: the buffer stays in the map after the final frame.
Leftover_FinalStays(f, buf, bad) ==
    IF f.type = "ONE" THEN pendingBuffers[f.src]
    ELSE IF bad THEN {} ELSE {buf \o f.data}

\* entry(): what pendingBuffers_ has for the sender afterwards.
Leftover(f, buf, bad) ==
    IF f.type = "ONE" THEN pendingBuffers[f.src]
    ELSE IF bad \/ f.type = "FINAL" THEN {} ELSE {buf \o f.data}

\* entry() of the parser, for the next frame of sender s.
ParserEntry(s) ==
    /\ parser = "entry" /\ queue[s] # << >>
    /\ queue' = [queue EXCEPT ![s] = Tail(@)]
    /\ LET f == Head(queue[s])
           noBuf == BufferFor(f) = {}
           buf == IF noBuf THEN << >> ELSE CHOOSE b \in BufferFor(f) : TRUE
           bad == noBuf \/ TooLong(buf, f)
           last == f.type \in {"ONE", "FINAL"}
       IN  /\ pendingBuffers' = [pendingBuffers EXCEPT ![s] = Leftover(f, buf, bad)]
           /\ localBuffer' = IF ~last \/ noBuf THEN localBuffer
                             ELSE IF bad THEN buf ELSE buf \o f.data
           /\ parser' = IF noBuf THEN "send_rejection_out_of_order"
                        ELSE IF bad THEN "send_rejection_permanent"
                        ELSE IF last THEN "datagram_complete"
                        ELSE "entry"
           /\ frame' = IF ~bad /\ ~last THEN NoFrame ELSE f
    /\ UNCHANGED <<sent, sending, dataOffset, aborted, delivered, rejected>>

\* Mutant: a datagram that is too long is dropped without a word.
SendRejection_Silent ==
    /\ parser \in {"send_rejection_out_of_order", "send_rejection_permanent"}
    /\ rejected' = IF parser = "send_rejection_permanent" THEN rejected
                   ELSE rejected \cup {<<frame.d, "RESEND_OK">>}
    /\ parser' = "entry" /\ frame' = NoFrame
    /\ UNCHANGED <<sent, sending, dataOffset, queue, aborted, pendingBuffers,
                   localBuffer, delivered>>

\* send_rejection(), once the addressed write flow has a buffer.
SendRejection ==
    /\ parser \in {"send_rejection_out_of_order", "send_rejection_permanent"}
    /\ rejected' = rejected \cup {<<frame.d, IF parser = "send_rejection_permanent"
                                             THEN "PERMANENT_ERROR" ELSE "RESEND_OK">>}
    /\ parser' = "entry" /\ frame' = NoFrame
    /\ UNCHANGED <<sent, sending, dataOffset, queue, aborted, pendingBuffers,
                   localBuffer, delivered>>

\* datagram_complete(), once the dispatcher has a buffer.
DatagramComplete ==
    /\ parser = "datagram_complete"
    /\ delivered' = delivered \cup {[d |-> frame.d, payload |-> localBuffer]}
    /\ localBuffer' = << >>
    /\ parser' = "entry" /\ frame' = NoFrame
    /\ UNCHANGED <<sent, sending, dataOffset, queue, aborted, pendingBuffers,
                   rejected>>
-----------------------------------------------------------------------------
Next ==
    \/ \E s \in Senders, size \in Sizes : SendToHardware(s, size)
    \/ \E s \in Senders : FillFrame(s) \/ Restart(s) \/ ParserEntry(s)
    \/ SendRejection
    \/ DatagramComplete

Spec == Init /\ [][Next]_vars
-----------------------------------------------------------------------------
Elems(q) == {q[i] : i \in 1..Len(q)}

\* All frames of datagram d have been sent and handled.
Handled(d) ==
    /\ d \notin aborted
    /\ \A s \in Senders : sending[s] # d /\ \A f \in Elems(queue[s]) : f.d # d
    /\ frame.d # d

Codes(d) == {r[2] : r \in {x \in rejected : x[1] = d}}
WasDelivered(d) == \E x \in delivered : x.d = d

\* Type correctness; a buffer never holds more than a datagram may.
TypeOK ==
    /\ sent \in Seq([src : Senders, size : Sizes])
    /\ sending \in [Senders -> 0..Len(sent)]
    /\ dataOffset \in [Senders -> Nat]
    /\ \A s \in Senders : \A f \in Elems(queue[s]) :
          f.src = s /\ f.type \in Types /\ f.d \in 1..Len(sent) /\ Len(f.data) <= FrameLen
    /\ \A s \in Senders : \A b \in pendingBuffers[s] : Len(b) <= MAX_SIZE
    /\ Len(localBuffer) <= MAX_SIZE

\* What reaches the node is a whole datagram of one sender, byte for byte,
\* whatever other senders, restarts and rejected datagrams came in between.
DeliveredIntact ==
    \A x \in delivered : x.payload = Bytes(x.d, sent[x.d].size)

\* A datagram all of whose frames arrived is either delivered or rejected,
\* never both and never neither: the sender is not left waiting.
DeliveredOrRejected ==
    \A d \in 1..Len(sent) : Handled(d) => (WasDelivered(d) <=> Codes(d) = {})

\* A datagram of legal size is only asked to be sent again after a restart of
\* its sender: buffers of earlier datagrams never get in the way.
ResendOnlyAfterRestart ==
    \A d \in 1..Len(sent) : "RESEND_OK" \in Codes(d) =>
        \/ sent[d].size > MAX_SIZE
        \/ \E e \in aborted : e < d /\ sent[e].src = sent[d].src

=============================================================================

-------------------------- MODULE DatagramCanProofs --------------------------
(***************************************************************************)
(* For any senders, datagram sizes, frame length and number of datagrams:  *)
(* what the parser delivers is the datagram one sender has sent, each one  *)
(* has one outcome, and a resend is asked for only when there is a reason. *)
(*                                                                         *)
(* Frames carry no number, so the argument is about what may follow what.  *)
(* A middle or final frame of a sender always comes right behind the frame *)
(* before it (Chained), so it meets a buffer with exactly the bytes before *)
(* its own, or none (Meets).  After a restart a sender begins with a first *)
(* frame, which never continues a buffer.                                  *)
(***************************************************************************)
EXTENDS DatagramCan, SequenceTheorems, TLAPS

Byte == Nat \X Nat
Frame == [src : Senders, type : Types, d : Nat, data : Seq(Byte)]
Sent == [src : Senders, size : Sizes]

\* p is a part of datagram d, from the byte after off on.
Part(p, d, off) == p \in Seq(Byte) /\ \A i \in 1..Len(p) : p[i] = <<d, off + i>>

\* How many bytes of its datagram come before a frame, and up to its end.
Start(f) == IF f.type \in {"ONE", "FIRST"} THEN 0 ELSE f.data[1][2] - 1
End(f) == Start(f) + Len(f.data)

\* A frame as CanDatagramWriteFlow makes it.
Made(f) ==
    /\ f \in Frame /\ f.d \in 1..Len(sent)
    /\ Len(f.data) <= FrameLen
    /\ f.type \in {"MIDDLE", "FINAL"} => f.data # << >>
    /\ Part(f.data, f.d, Start(f)) /\ Start(f) \in Nat
    /\ f.type \in {"ONE", "FINAL"} => End(f) = sent[f.d].size

\* Frame g follows frame f of the same sender.
Follows(f, g) ==
    g.type \in {"MIDDLE", "FINAL"} =>
        f.type \in {"FIRST", "MIDDLE"} /\ g.d = f.d /\ Start(g) = End(f)

\* A buffer of sender s holds the first n bytes of datagram d, if it is there.
Holds(s, d, n) == \A b \in pendingBuffers[s] : Part(b, d, 0) /\ Len(b) = n

DataTypes ==
    /\ sent \in Seq(Sent)
    /\ sending \in [Senders -> Nat]
    /\ \A s \in Senders : sending[s] \in 0..Len(sent)
    /\ dataOffset \in [Senders -> Nat]
    /\ queue \in [Senders -> Seq(Frame)]
    /\ pendingBuffers \in [Senders -> SUBSET Seq(Byte)]
    /\ \A s \in Senders : \A b \in pendingBuffers[s] : Len(b) <= MAX_SIZE
    /\ localBuffer \in Seq(Byte) /\ Len(localBuffer) <= MAX_SIZE

\* The write flow is at the start of its datagram or inside it.
InsideAt(s) == sending[s] # 0 /\ dataOffset[s] > 0 => dataOffset[s] < sent[sending[s]].size

QueuedAt(s) == \A i \in 1..Len(queue[s]) : Made(queue[s][i]) /\ queue[s][i].src = s

ChainedAt(s) == \A i \in 1..Len(queue[s]) - 1 : Follows(queue[s][i], queue[s][i + 1])

\* The next frame of the sender, and what it has still to send, continue what
\* is there.
MeetsAt(s) ==
    /\ queue[s] # << >> /\ Head(queue[s]).type \in {"MIDDLE", "FINAL"} =>
          Holds(s, Head(queue[s]).d, Start(Head(queue[s])))
    /\ sending[s] # 0 /\ dataOffset[s] > 0 =>
          IF queue[s] = << >> THEN Holds(s, sending[s], dataOffset[s])
          ELSE LET f == queue[s][Len(queue[s])]
               IN f.type \in {"FIRST", "MIDDLE"} /\ f.d = sending[s]
                    /\ End(f) = dataOffset[s]

SenderInv(s) == InsideAt(s) /\ QueuedAt(s) /\ ChainedAt(s) /\ MeetsAt(s)

Whole(p, d) == d \in 1..Len(sent) /\ Part(p, d, 0) /\ Len(p) = sent[d].size

Finished ==
    /\ parser = "datagram_complete" => Whole(localBuffer, frame.d)
    /\ \A x \in delivered : Whole(x.payload, x.d)

FramesInv == DataTypes /\ Finished /\ \A s \in Senders : SenderInv(s)
-----------------------------------------------------------------------------
\* A part behind a part that ends where it begins.
LEMMA PartConcat ==
    ASSUME NEW p, NEW q, NEW d, NEW off \in Nat, Part(p, d, 0), Len(p) = off, Part(q, d, off)
    PROVE  Part(p \o q, d, 0) /\ Len(p \o q) = off + Len(q)
<1>1. p \in Seq(Byte) /\ q \in Seq(Byte)
  BY DEF Part
<1>2. /\ p \o q \in Seq(Byte) /\ Len(p \o q) = Len(p) + Len(q)
      /\ \A i \in 1..Len(p) + Len(q) :
            (p \o q)[i] = IF i <= Len(p) THEN p[i] ELSE q[i - Len(p)]
  BY <1>1, ConcatProperties
<1>3. Len(p) \in Nat /\ Len(q) \in Nat
  BY <1>1
<1>4. ASSUME NEW i \in 1..Len(p \o q) PROVE (p \o q)[i] = <<d, 0 + i>>
  <2>1. CASE i <= Len(p)
    BY <1>2, <1>3, <2>1 DEF Part
  <2>2. CASE i > Len(p)
    <3>1. i - Len(p) \in 1..Len(q)
      BY <1>2, <1>3, <2>2
    <3>2. q[i - Len(p)] = <<d, off + (i - Len(p))>>
      BY <3>1 DEF Part
    <3>3. off + (i - Len(p)) = 0 + i
      BY <1>3
    <3> QED BY <1>2, <2>2, <3>2, <3>3
  <2> QED BY <1>3, <2>1, <2>2
<1> QED BY <1>2, <1>4 DEF Part

\* A whole part is the datagram.
LEMMA WholeIsAll ==
    ASSUME NEW p, NEW d, NEW n \in Nat, Part(p, d, 0), Len(p) = n
    PROVE  p = Bytes(d, n)
<1>1. DOMAIN p = 1..n /\ p = [i \in 1..n |-> p[i]]
  BY LenProperties DEF Part
<1>2. \A i \in 1..n : p[i] = <<d, i>>
  BY DEF Part
<1> QED BY <1>1, <1>2 DEF Bytes

\* No bytes at all are the beginning of every datagram.
LEMMA NothingIsPart == \A d : Part(<< >>, d, 0) /\ Len(<< >>) = 0
BY DEF Part

\* What fill_can_frame_buffer() copies.
Cut(d, size, off, len) == SubSeq(Bytes(d, size), off + 1, off + len)

\* It is a part.
LEMMA CutIsPart ==
    ASSUME NEW d \in Nat, NEW size \in Nat, NEW off \in Nat, NEW len \in Nat, off + len <= size
    PROVE  Part(Cut(d, size, off, len), d, off) /\ Len(Cut(d, size, off, len)) = len
<1> DEFINE s == Bytes(d, size)
           p == Cut(d, size, off, len)
<1>0. p = SubSeq(s, off + 1, off + len)
  BY DEF Cut
<1>1. \A i \in off + 1..off + len : s[i] \in Byte /\ s[i] = <<d, i>>
  BY DEF Bytes, Byte
<1> HIDE DEF s
<1>2. /\ p \in Seq(Byte)
      /\ Len(p) = IF off + 1 <= off + len THEN (off + len) - (off + 1) + 1 ELSE 0
      /\ \A i \in 1..(off + len) - (off + 1) + 1 : p[i] = s[off + 1 + i - 1]
  <2>1. off + 1 \in Int /\ off + len \in Int
    OBVIOUS
  <2> HIDE DEF p
  <2> QED BY <1>0, <1>1, <2>1, SubSeqProperties
<1> HIDE DEF p
<1>3. Len(p) = len
  BY <1>2
<1>4. ASSUME NEW i \in 1..Len(p) PROVE p[i] = <<d, off + i>>
  <2>1. p[i] = s[off + 1 + i - 1]
    BY <1>2, <1>3
  <2>2. off + 1 + i - 1 = off + i /\ off + i \in off + 1..off + len
    BY <1>3
  <2> QED BY <1>1, <2>1, <2>2
<1> QED BY <1>2, <1>3, <1>4 DEF Part, p
-----------------------------------------------------------------------------
(* The write flow. *)

\* One datagram more changes nothing about those there are.
LEMMA SentGrows ==
    ASSUME DataTypes, NEW x \in Sent, sent' = Append(sent, x)
    PROVE  /\ sent' \in Seq(Sent) /\ Len(sent') = Len(sent) + 1
           /\ \A d \in 1..Len(sent) : sent'[d] = sent[d]
           /\ \A f : Made(f) => Made(f)'
           /\ \A q, d : Whole(q, d) => Whole(q, d)'
<1>1. sent \in Seq(Sent) /\ Len(sent) \in Nat
  BY DEF DataTypes
<1>2. /\ sent' \in Seq(Sent) /\ Len(sent') = Len(sent) + 1
      /\ \A d \in 1..Len(sent) : sent'[d] = sent[d]
  BY <1>1, AppendProperties
<1>3. \A d \in 1..Len(sent) : d \in 1..Len(sent')
  BY <1>1, <1>2
<1> QED BY <1>2, <1>3 DEF Made, Whole

\* A datagram handed to the flow (send_to_hardware) disturbs no frame in a queue.
LEMMA SendStep ==
    ASSUME FramesInv, NEW s \in Senders, NEW size \in Sizes, SendToHardware(s, size)
    PROVE  FramesInv'
<1>1. DataTypes /\ Finished /\ \A t \in Senders : SenderInv(t)
  BY DEF FramesInv
<1>2. /\ sent' = Append(sent, [src |-> s, size |-> size])
      /\ sending' = [sending EXCEPT ![s] = Len(sent) + 1]
      /\ dataOffset' = [dataOffset EXCEPT ![s] = 0]
      /\ UNCHANGED <<queue, pendingBuffers, localBuffer, parser, frame, delivered>>
  BY DEF SendToHardware
<1>3. [src |-> s, size |-> size] \in Sent
  BY DEF Sent
<1>4. /\ sent' \in Seq(Sent) /\ Len(sent') = Len(sent) + 1 /\ Len(sent) \in Nat
      /\ \A d \in 1..Len(sent) : sent'[d] = sent[d]
      /\ \A f : Made(f) => Made(f)'
      /\ \A q, d : Whole(q, d) => Whole(q, d)'
  <2> DEFINE x == [src |-> s, size |-> size]
  <2>1. x \in Sent /\ sent' = Append(sent, x)
    BY <1>2, <1>3
  <2>2. Len(sent) \in Nat
    BY <1>1 DEF DataTypes
  <2> HIDE DEF x
  <2> QED BY <1>1, <2>1, <2>2, SentGrows
<1>5. /\ sending \in [Senders -> Nat] /\ dataOffset \in [Senders -> Nat]
      /\ \A t \in Senders : sending[t] \in 0..Len(sent)
  BY <1>1 DEF DataTypes
<1>6. DataTypes'
  <2>1. /\ sending' \in [Senders -> Nat] /\ dataOffset' \in [Senders -> Nat]
        /\ \A t \in Senders : sending'[t] \in 0..Len(sent')
    BY <1>2, <1>4, <1>5
  <2> QED BY <1>1, <1>2, <1>4, <2>1 DEF DataTypes
<1>7. Finished'
  BY <1>1, <1>2, <1>4 DEF Finished
<1>8. ASSUME NEW t \in Senders PROVE SenderInv(t)'
  <2>1. SenderInv(t)
    BY <1>1
  <2>2. QueuedAt(t)' /\ ChainedAt(t)'
    BY <1>2, <1>4, <2>1 DEF SenderInv, QueuedAt, ChainedAt, Follows
  <2>3. CASE t = s
    <3>1. dataOffset'[t] = 0
      BY <1>2, <1>5, <2>3
    <3> QED BY <1>2, <2>1, <2>2, <3>1 DEF SenderInv, InsideAt, MeetsAt, Holds
  <2>4. CASE t # s
    <3>1. sending'[t] = sending[t] /\ dataOffset'[t] = dataOffset[t]
      BY <1>2, <1>5, <2>4
    <3>2. InsideAt(t)'
      BY <1>4, <1>5, <2>1, <3>1 DEF SenderInv, InsideAt
    <3>3. MeetsAt(t)'
      BY <1>2, <2>1, <3>1 DEF SenderInv, MeetsAt, Holds
    <3> QED BY <2>2, <3>2, <3>3 DEF SenderInv
  <2> QED BY <2>3, <2>4
<1> QED BY <1>6, <1>7, <1>8 DEF FramesInv

\* The frame that follows the ones the write flow has made of its datagram.
LEMMA FrameMade ==
    ASSUME DataTypes, NEW s \in Senders, SenderInv(s), sending[s] # 0
    PROVE  LET d == sending[s]
               off == dataOffset[s]
               rest == sent[d].size - off
               more == NeedMore(rest)
               len == IF more THEN FrameLen ELSE rest
               f == [src |-> s, type |-> TypeOf(off, more), d |-> d,
                     data |-> SubSeq(Bytes(d, sent[d].size), off + 1, off + len)]
           IN /\ Made(f) /\ len \in Nat /\ Start(f) = off /\ End(f) = off + len
              /\ more => f.type \in {"FIRST", "MIDDLE"} /\ off + len < sent[d].size
              /\ f.type \in {"MIDDLE", "FINAL"} => off > 0
<1> DEFINE d == sending[s]
           off == dataOffset[s]
           size == sent[d].size
           rest == size - off
           more == NeedMore(rest)
           len == IF more THEN FrameLen ELSE rest
           data == SubSeq(Bytes(d, size), off + 1, off + len)
           f == [src |-> s, type |-> TypeOf(off, more), d |-> d, data |-> data]
<1>1. d \in 1..Len(sent) /\ d \in Nat /\ off \in Nat /\ size \in Nat
  <2>1. sent \in Seq(Sent) /\ sending[s] \in 0..Len(sent) /\ dataOffset[s] \in Nat
    BY DEF DataTypes
  <2>2. d \in 1..Len(sent) /\ d \in Nat
    BY <2>1
  <2>3. sent[d] \in Sent
    BY <2>1, <2>2, ElementOfSeq
  <2> QED BY <2>1, <2>2, <2>3, FrameAssumption DEF Sent, FrameAssumption
<1>2. off > 0 => off < size
  BY DEF SenderInv, InsideAt
<1>3. FrameLen \in Nat \ {0}
  BY FrameAssumption DEF FrameAssumption
<1> HIDE DEF d, off, size
<1>4. /\ len \in Nat /\ off + len <= size /\ len <= FrameLen
      /\ more => off + len < size
      /\ ~more => off + len = size
      /\ off > 0 => len > 0
  BY <1>1, <1>2, <1>3 DEF NeedMore
<1> HIDE DEF len
<1>5. Part(data, d, off) /\ Len(data) = len
  <2>1. d \in Nat /\ size \in Nat /\ off \in Nat /\ len \in Nat /\ off + len <= size
    BY <1>1, <1>4
  <2>2. data = Cut(d, size, off, len)
    BY DEF Cut
  <2> HIDE DEF data
  <2> QED BY <2>1, <2>2, CutIsPart
<1>6. /\ f.type \in Types /\ (f.type \in {"MIDDLE", "FINAL"} <=> off > 0)
      /\ (f.type \in {"FIRST", "MIDDLE"} <=> more)
      /\ f.type \in {"ONE", "FIRST"} => off = 0
      /\ f.d = d /\ f.src = s /\ f.data = data
  <2> HIDE DEF more, data
  <2>1. more \in BOOLEAN
    BY DEF more, NeedMore
  <2> QED BY <1>1, <2>1 DEF TypeOf, Types
<1>7. Start(f) = off
  <2>1. CASE f.type \in {"ONE", "FIRST"}
    BY <1>6, <2>1 DEF Start
  <2>2. CASE f.type \notin {"ONE", "FIRST"}
    <3>1. f.data[1] = <<d, off + 1>>
      BY <1>4, <1>5, <1>6, <2>2 DEF Part, Types
    <3> HIDE DEF f
    <3> QED BY <1>1, <2>2, <3>1 DEF Start
  <2> QED BY <2>1, <2>2
<1>8. data \in Seq(Byte)
  BY <1>5 DEF Part
<1>9. f \in Frame
  <2> HIDE DEF data, more
  <2> QED BY <1>1, <1>6, <1>8 DEF Frame
<1> HIDE DEF f, more, data
<1>10. End(f) = off + len
  BY <1>5, <1>6, <1>7 DEF End
<1>11. f.data # << >> \/ len = 0
  BY <1>5, <1>6
<1>12. Made(f)
  BY <1>1, <1>4, <1>5, <1>6, <1>7, <1>9, <1>10, <1>11 DEF Made, Types, size
<1> QED BY <1>4, <1>6, <1>7, <1>10, <1>12 DEF f, more, data, len, d, off, size

\* A sender about which a step says nothing is as it was.
LEMMA OtherSender ==
    ASSUME NEW t \in Senders, SenderInv(t), UNCHANGED sent,
           sending'[t] = sending[t], dataOffset'[t] = dataOffset[t],
           queue'[t] = queue[t], pendingBuffers'[t] = pendingBuffers[t]
    PROVE  SenderInv(t)'
<1>1. InsideAt(t)' /\ MeetsAt(t)'
  BY DEF SenderInv, InsideAt, MeetsAt, Holds
<1>2. QueuedAt(t)' /\ ChainedAt(t)'
  BY DEF SenderInv, QueuedAt, ChainedAt, Made
<1> QED BY <1>1, <1>2 DEF SenderInv

\* The frame the flow cuts continues the last one in the queue (fill_can_frame_buffer).
LEMMA FillStep ==
    ASSUME FramesInv, NEW s \in Senders, FillFrame(s)
    PROVE  FramesInv'
<1> DEFINE d == sending[s]
           off == dataOffset[s]
           rest == sent[d].size - off
           more == NeedMore(rest)
           len == IF more THEN FrameLen ELSE rest
           f == [src |-> s, type |-> TypeOf(off, more), d |-> d,
                 data |-> SubSeq(Bytes(d, sent[d].size), off + 1, off + len)]
           q == queue[s]
<1>1. DataTypes /\ Finished /\ SenderInv(s) /\ \A t \in Senders : SenderInv(t)
  BY DEF FramesInv
<1>2. /\ d # 0 /\ queue' = [queue EXCEPT ![s] = Append(q, f)]
      /\ dataOffset' = [dataOffset EXCEPT ![s] = off + len]
      /\ more => sending' = sending
      /\ ~more => sending' = [sending EXCEPT ![s] = 0]
      /\ UNCHANGED <<sent, pendingBuffers, localBuffer, parser, frame, delivered>>
  BY DEF FillFrame
<1>3. /\ Made(f) /\ len \in Nat /\ Start(f) = off /\ End(f) = off + len
      /\ more => f.type \in {"FIRST", "MIDDLE"} /\ off + len < sent[d].size
      /\ f.type \in {"MIDDLE", "FINAL"} => off > 0
  BY <1>1, <1>2, FrameMade
<1>4. f.src = s /\ f.d = d
  OBVIOUS
<1> HIDE DEF f, len, more
<1>5. f \in Frame /\ q \in Seq(Frame) /\ off \in Nat
  BY <1>1, <1>3 DEF Made, DataTypes
<1>6. /\ queue' \in [Senders -> Seq(Frame)] /\ queue'[s] = Append(q, f)
      /\ dataOffset' \in [Senders -> Nat] /\ dataOffset'[s] = off + len
      /\ sending' \in [Senders -> Nat] /\ (more => sending'[s] = d)
      /\ (~more => sending'[s] = 0)
      /\ \A t \in Senders : sending'[t] \in 0..Len(sent)
  <2>1. /\ queue \in [Senders -> Seq(Frame)] /\ dataOffset \in [Senders -> Nat]
        /\ sending \in [Senders -> Nat] /\ \A t \in Senders : sending[t] \in 0..Len(sent)
        /\ Len(sent) \in Nat
    BY <1>1 DEF DataTypes
  <2>2. Append(q, f) \in Seq(Frame)
    BY <1>5, AppendProperties
  <2> HIDE DEF q
  <2>3. /\ sending' \in [Senders -> Nat] /\ (more => sending'[s] = d)
        /\ (~more => sending'[s] = 0)
        /\ \A t \in Senders : sending'[t] \in 0..Len(sent)
    BY <1>2, <2>1
  <2> QED BY <1>2, <1>3, <1>5, <2>1, <2>2, <2>3
<1>7. DataTypes' /\ Finished'
  BY <1>1, <1>2, <1>6 DEF DataTypes, Finished, Whole
<1>8. \A t \in Senders \ {s} : SenderInv(t)'
  <2> TAKE t \in Senders \ {s}
  <2>1. /\ sending'[t] = sending[t] /\ dataOffset'[t] = dataOffset[t] /\ queue'[t] = queue[t]
        /\ pendingBuffers'[t] = pendingBuffers[t] /\ UNCHANGED sent
    BY <1>1, <1>2 DEF DataTypes
  <2> QED BY <1>1, <2>1, OtherSender
<1>9. SenderInv(s)'
  <2>1. /\ Len(queue'[s]) = Len(q) + 1 /\ queue'[s][Len(q) + 1] = f
        /\ \A i \in 1..Len(q) : queue'[s][i] = q[i]
        /\ Len(q) \in Nat /\ queue'[s] # << >>
    BY <1>5, <1>6, AppendProperties
  <2> HIDE DEF q
  <2>2. InsideAt(s)'
    BY <1>2, <1>3, <1>6 DEF InsideAt
  <2>3. \A g : Made(g) => Made(g)'
    BY <1>2 DEF Made
  <2>4. QueuedAt(s)'
    BY <1>1, <1>3, <1>4, <2>1, <2>3 DEF SenderInv, QueuedAt, q
  <2>5. q # << >> => Follows(q[Len(q)], f)
    BY <1>1, <1>2, <1>3, <1>4, <1>5 DEF SenderInv, MeetsAt, Follows, q
  <2>6. ChainedAt(s)'
    <3>1. ASSUME NEW i \in 1..Len(queue'[s]) - 1 PROVE Follows(queue'[s][i], queue'[s][i + 1])
      <4>1. i \in 1..Len(q)
        BY <2>1
      <4>2. CASE i = Len(q)
        BY <1>5, <2>1, <2>5, <4>1, <4>2 DEF q
      <4>3. CASE i # Len(q)
        <5>1. i \in 1..Len(q) - 1 /\ i + 1 \in 1..Len(q)
          BY <2>1, <4>1, <4>3
        <5>2. Follows(q[i], q[i + 1])
          BY <1>1, <5>1 DEF SenderInv, ChainedAt, q
        <5> QED BY <2>1, <4>1, <5>1, <5>2
      <4> QED BY <4>2, <4>3
    <3> QED BY <3>1 DEF ChainedAt
  <2>7. MeetsAt(s)'
    <3>1. \A e, n : Holds(s, e, n) => Holds(s, e, n)'
      BY <1>2 DEF Holds
    <3>2. Head(queue'[s]) = IF q = << >> THEN f ELSE Head(q)
      BY <1>5, <1>6, <2>1 DEF q
    <3>3. Head(queue'[s]).type \in {"MIDDLE", "FINAL"} =>
             Holds(s, Head(queue'[s]).d, Start(Head(queue'[s])))
      <4>1. CASE q = << >>
        BY <1>1, <1>2, <1>3, <1>4, <1>5, <3>2, <4>1 DEF SenderInv, MeetsAt, q
      <4>2. CASE q # << >>
        BY <1>1, <3>2, <4>2 DEF SenderInv, MeetsAt, q
      <4> QED BY <4>1, <4>2
    <3>4. sending'[s] # 0 =>
             /\ f.type \in {"FIRST", "MIDDLE"} /\ f.d = sending'[s]
             /\ End(f) = dataOffset'[s] /\ queue'[s][Len(queue'[s])] = f
      BY <1>3, <1>4, <1>6, <2>1
    <3> QED BY <2>1, <3>1, <3>3, <3>4 DEF MeetsAt
  <2> QED BY <2>2, <2>4, <2>6, <2>7 DEF SenderInv
<1> QED BY <1>7, <1>8, <1>9 DEF FramesInv

\* A node that restarts leaves whole frames in its queue and cuts no more.
LEMMA RestartStep ==
    ASSUME FramesInv, NEW s \in Senders, Restart(s)
    PROVE  FramesInv'
<1>1. DataTypes /\ Finished /\ \A t \in Senders : SenderInv(t)
  BY DEF FramesInv
<1>2. /\ sending' = [sending EXCEPT ![s] = 0]
      /\ UNCHANGED <<sent, dataOffset, queue, pendingBuffers, localBuffer, parser,
                     frame, delivered>>
  BY DEF Restart
<1>3. DataTypes' /\ Finished'
  <2>1. sending' \in [Senders -> Nat] /\ \A t \in Senders : sending'[t] \in 0..Len(sent)
    BY <1>1, <1>2 DEF DataTypes
  <2> QED BY <1>1, <1>2, <2>1 DEF DataTypes, Finished, Whole
<1>4. ASSUME NEW t \in Senders PROVE SenderInv(t)'
  <2>1. CASE t # s
    <3>1. sending'[t] = sending[t]
      BY <1>1, <1>2, <2>1 DEF DataTypes
    <3> QED BY <1>1, <1>2, <3>1, OtherSender
  <2>2. CASE t = s
    <3>1. sending'[t] = 0
      BY <1>1, <1>2, <2>2 DEF DataTypes
    <3>2. QueuedAt(t)' /\ ChainedAt(t)'
      BY <1>1, <1>2 DEF SenderInv, QueuedAt, ChainedAt, Made
    <3>3. InsideAt(t)' /\ MeetsAt(t)'
      BY <1>1, <1>2, <3>1 DEF SenderInv, InsideAt, MeetsAt, Holds
    <3> QED BY <3>2, <3>3 DEF SenderInv
  <2> QED BY <2>1, <2>2
<1> QED BY <1>3, <1>4 DEF FramesInv
-----------------------------------------------------------------------------
(* The parser. *)

\* The buffer a frame meets ends where the frame begins.
LEMMA BufferMet ==
    ASSUME DataTypes, NEW s \in Senders, SenderInv(s), queue[s] # << >>,
           NEW b \in BufferFor(Head(queue[s]))
    PROVE  LET f == Head(queue[s])
           IN /\ Made(f) /\ f.src = s
              /\ b \in Seq(Byte) /\ Len(b) <= MAX_SIZE
              /\ Part(b \o f.data, f.d, 0) /\ Len(b \o f.data) = End(f)
              /\ Len(b) + Len(f.data) = End(f)
<1> DEFINE f == Head(queue[s])
<1>1. queue[s] \in Seq(Frame)
  BY DEF DataTypes
<1>2. f = queue[s][1] /\ 1 \in 1..Len(queue[s])
  BY <1>1
<1>3. Made(f) /\ f.src = s
  BY <1>2 DEF SenderInv, QueuedAt
<1>4. f.type \in {"MIDDLE", "FINAL"} => Holds(s, f.d, Start(f))
  BY DEF SenderInv, MeetsAt
<1> HIDE DEF f
<1>5. f.type \in Types /\ Start(f) \in Nat /\ Part(f.data, f.d, Start(f))
  BY <1>3 DEF Made, Frame
<1>6. /\ b \in Seq(Byte) /\ Len(b) <= MAX_SIZE /\ Part(b, f.d, 0) /\ Len(b) = Start(f)
  <2>1. CASE f.type \in {"ONE", "FIRST"}
    <3>1. b = << >>
      BY <2>1 DEF BufferFor, f
    <3>2. Start(f) = 0
      BY <2>1 DEF Start
    <3> QED BY <3>1, <3>2, NothingIsPart, FrameAssumption DEF FrameAssumption, Part
  <2>2. CASE f.type \in {"MIDDLE", "FINAL"}
    <3>1. b \in pendingBuffers[s]
      BY <1>3, <2>2 DEF BufferFor, f
    <3> QED BY <1>4, <2>2, <3>1 DEF Holds, DataTypes
  <2> QED BY <1>5, <2>1, <2>2 DEF Types
<1>7. Part(b \o f.data, f.d, 0) /\ Len(b \o f.data) = Start(f) + Len(f.data)
  BY <1>5, <1>6, PartConcat
<1> QED BY <1>3, <1>6, <1>7 DEF End, f

\* The parser takes the head of a queue: its buffer then holds what came before
\* the next frame of that sender (DatagramParser::entry).
LEMMA ParserStep ==
    ASSUME FramesInv, NEW s \in Senders, ParserEntry(s)
    PROVE  FramesInv'
<1> DEFINE q == queue[s]
           f == Head(q)
           noBuf == BufferFor(f) = {}
           buf == IF noBuf THEN << >> ELSE CHOOSE b \in BufferFor(f) : TRUE
           bad == noBuf \/ TooLong(buf, f)
           last == f.type \in {"ONE", "FINAL"}
           new == buf \o f.data
<1>1. DataTypes /\ Finished /\ SenderInv(s) /\ \A t \in Senders : SenderInv(t)
  BY DEF FramesInv
<1>2. /\ q # << >> /\ queue' = [queue EXCEPT ![s] = Tail(q)]
      /\ pendingBuffers' = [pendingBuffers EXCEPT ![s] = Leftover(f, buf, bad)]
      /\ localBuffer' = IF ~last \/ noBuf THEN localBuffer
                        ELSE IF bad THEN buf ELSE new
      /\ parser' = "datagram_complete" => ~bad /\ last
      /\ ~bad /\ last => frame' = f
      /\ UNCHANGED <<sent, sending, dataOffset, delivered>>
  BY DEF ParserEntry
<1>3. ~noBuf => buf \in BufferFor(f)
  OBVIOUS
<1>4. /\ Made(f) /\ f.src = s
      /\ ~noBuf => /\ buf \in Seq(Byte) /\ Len(buf) <= MAX_SIZE
                   /\ Part(new, f.d, 0) /\ Len(new) = End(f)
                   /\ (~bad => Len(new) <= MAX_SIZE)
  <2>1. q \in Seq(Frame)
    BY <1>1 DEF DataTypes
  <2>2. f = q[1] /\ 1 \in 1..Len(q)
    BY <1>2, <2>1
  <2>3. Made(f) /\ f.src = s
    BY <1>1, <2>2 DEF SenderInv, QueuedAt
  <2>4. ASSUME ~noBuf
        PROVE  /\ buf \in Seq(Byte) /\ Len(buf) <= MAX_SIZE
               /\ Part(new, f.d, 0) /\ Len(new) = End(f) /\ Len(buf) + Len(f.data) = End(f)
    <3>1. buf \in BufferFor(Head(queue[s])) /\ queue[s] # << >>
      BY <1>2, <1>3, <2>4
    <3> HIDE DEF buf
    <3> QED BY <1>1, <3>1, BufferMet
  <2>5. ~bad => Len(buf) + Len(f.data) <= MAX_SIZE
    <3>1. ~bad => ~(Len(buf) + Len(f.data) > MAX_SIZE)
      BY DEF TooLong
    <3>2. ~bad => ~noBuf
      OBVIOUS
    <3>3. MAX_SIZE \in Nat /\ f.data \in Seq(Byte)
      BY <2>3, FrameAssumption DEF FrameAssumption, Made, Frame
    <3> HIDE DEF bad, noBuf, buf, f
    <3> QED BY <2>4, <3>1, <3>2, <3>3
  <2> HIDE DEF buf, bad, noBuf, f, new
  <2>6. ~bad => ~noBuf
    BY DEF bad
  <2> QED BY <2>3, <2>4, <2>5, <2>6
<1>5. ~bad => ~noBuf
  OBVIOUS
<1>6. /\ pendingBuffers' \in [Senders -> SUBSET Seq(Byte)]
      /\ f.type # "ONE" => \A b \in pendingBuffers'[s] : b = new /\ ~bad /\ f.type # "FINAL"
      /\ f.type = "ONE" => pendingBuffers' = pendingBuffers
      /\ \A t \in Senders \ {s} : pendingBuffers'[t] = pendingBuffers[t]
      /\ \A t \in Senders : \A b \in pendingBuffers'[t] : Len(b) <= MAX_SIZE
  <2>1. Leftover(f, buf, bad) = IF f.type = "ONE" THEN pendingBuffers[s]
                                ELSE IF bad \/ f.type = "FINAL" THEN {} ELSE {new}
    BY <1>4 DEF Leftover
  <2>2. ~bad => new \in Seq(Byte) /\ Len(new) <= MAX_SIZE
    BY <1>4, <1>5 DEF Part
  <2> HIDE DEF bad, buf, f, noBuf, new
  <2>3. /\ pendingBuffers \in [Senders -> SUBSET Seq(Byte)]
        /\ \A t \in Senders : \A b \in pendingBuffers[t] : Len(b) <= MAX_SIZE
    BY <1>1 DEF DataTypes
  <2>4. Leftover(f, buf, bad) \in SUBSET Seq(Byte)
    BY <2>1, <2>2, <2>3
  <2>5. \A t \in Senders : pendingBuffers'[t] =
           IF t = s THEN Leftover(f, buf, bad) ELSE pendingBuffers[t]
    BY <1>2, <2>3
  <2> QED BY <1>2, <2>1, <2>2, <2>3, <2>4, <2>5
<1>7. localBuffer' \in Seq(Byte) /\ Len(localBuffer') <= MAX_SIZE
  <2>1. ~bad => new \in Seq(Byte) /\ Len(new) <= MAX_SIZE
    BY <1>4, <1>5 DEF Part
  <2> HIDE DEF bad, buf, f, noBuf, new, last
  <2> QED BY <1>1, <1>2, <1>4, <2>1 DEF DataTypes
<1>8. /\ queue' \in [Senders -> Seq(Frame)] /\ queue'[s] = Tail(q)
      /\ Len(Tail(q)) = Len(q) - 1 /\ Len(q) \in Nat \ {0} /\ q[1] = f
      /\ \A i \in 1..Len(q) - 1 : Tail(q)[i] = q[i + 1]
      /\ \A t \in Senders \ {s} : queue'[t] = queue[t]
      /\ Tail(q) # << >> => Len(q) > 1 /\ Head(Tail(q)) = q[2]
  <2>1. queue \in [Senders -> Seq(Frame)] /\ q \in Seq(Frame)
    BY <1>1 DEF DataTypes
  <2>2. /\ Tail(q) \in Seq(Frame) /\ Len(Tail(q)) = Len(q) - 1
        /\ \A i \in 1..Len(Tail(q)) : Tail(q)[i] = q[i + 1]
    BY <1>2, <2>1, HeadTailProperties
  <2>3. Len(q) \in Nat \ {0} /\ q[1] = f
    BY <1>2, <2>1
  <2>4. Tail(q) # << >> => Len(q) > 1 /\ Head(Tail(q)) = q[2]
    <3> HIDE DEF q
    <3> QED BY <2>2, <2>3
  <2>5. queue' \in [Senders -> Seq(Frame)] /\ queue'[s] = Tail(q)
        /\ \A t \in Senders \ {s} : queue'[t] = queue[t]
    <3> HIDE DEF q
    <3> QED BY <1>2, <2>1, <2>2
  <2> QED BY <2>2, <2>3, <2>4, <2>5
<1> HIDE DEF bad, buf, f, noBuf, new
<1>9. DataTypes'
  BY <1>1, <1>2, <1>6, <1>7, <1>8 DEF DataTypes
<1>10. Finished'
  <2>1. parser' = "datagram_complete" => Whole(localBuffer', frame'.d)
    BY <1>2, <1>4, <1>5 DEF Whole, Made
  <2> QED BY <1>1, <1>2, <2>1 DEF Finished, Whole
<1>11. \A t \in Senders \ {s} : SenderInv(t)'
  BY <1>1, <1>2, <1>6, <1>8, OtherSender
<1>12. SenderInv(s)'
  <2>1. InsideAt(s)'
    BY <1>1, <1>2 DEF SenderInv, InsideAt
  <2>2. \A g : Made(g) => Made(g)'
    BY <1>2 DEF Made
  <2>3. QueuedAt(s)'
    BY <1>1, <1>8, <2>2 DEF SenderInv, QueuedAt
  <2>4. ChainedAt(s)'
    <3>1. ASSUME NEW i \in 1..Len(Tail(q)) - 1
          PROVE  Follows(Tail(q)[i], Tail(q)[i + 1])
      <4>1. i + 1 \in 1..Len(q) - 1 /\ i \in 1..Len(q) - 1
        BY <1>8
      <4>2. Tail(q)[i] = q[i + 1] /\ Tail(q)[i + 1] = q[(i + 1) + 1]
        BY <1>8, <4>1
      <4>3. Follows(q[i + 1], q[(i + 1) + 1])
        BY <1>1, <4>1 DEF SenderInv, ChainedAt
      <4> QED BY <4>2, <4>3
    <3> HIDE DEF q
    <3> QED BY <1>8, <3>1 DEF ChainedAt
  <2> DEFINE HoldsNow(d, n) == \A b \in pendingBuffers'[s] : Part(b, d, 0) /\ Len(b) = n
  <2>5. f.type \in {"FIRST", "MIDDLE"} => HoldsNow(f.d, End(f))
    BY <1>4, <1>5, <1>6
  <2>6. Tail(q) # << >> => Follows(f, Head(Tail(q)))
    <3>1. Tail(q) # << >> => 1 \in 1..Len(q) - 1 /\ Head(Tail(q)) = q[1 + 1]
      BY <1>8
    <3> QED BY <1>1, <1>8, <3>1 DEF SenderInv, ChainedAt
  <2>7. Tail(q) # << >> /\ Head(Tail(q)).type \in {"MIDDLE", "FINAL"} =>
           HoldsNow(Head(Tail(q)).d, Start(Head(Tail(q))))
    <3> HIDE DEF HoldsNow, q
    <3> QED BY <2>5, <2>6 DEF Follows
  <2>8. ASSUME sending[s] # 0, dataOffset[s] > 0
        PROVE  IF Tail(q) = << >> THEN HoldsNow(sending[s], dataOffset[s])
               ELSE LET g == Tail(q)[Len(Tail(q))]
                    IN g.type \in {"FIRST", "MIDDLE"} /\ g.d = sending[s]
                         /\ End(g) = dataOffset[s]
    <3>1. LET g == q[Len(q)]
          IN g.type \in {"FIRST", "MIDDLE"} /\ g.d = sending[s] /\ End(g) = dataOffset[s]
      BY <1>1, <1>2, <2>8 DEF SenderInv, MeetsAt
    <3> HIDE DEF q, HoldsNow
    <3>2. CASE Tail(q) = << >>
      <4>1. Len(q) = 1
        BY <1>8, <3>2
      <4> QED BY <1>2, <1>8, <2>5, <3>1, <3>2, <4>1
    <3>3. CASE Tail(q) # << >>
      <4>1. Len(q) - 1 \in 1..Len(q) - 1 /\ (Len(q) - 1) + 1 = Len(q)
        BY <1>8, <3>3
      <4>2. Tail(q)[Len(Tail(q))] = q[Len(q)]
        BY <1>8, <4>1
      <4> QED BY <3>1, <3>3, <4>2
    <3> QED BY <3>2, <3>3
  <2>9. MeetsAt(s)'
    <3> HIDE DEF q
    <3>1. queue'[s] = Tail(q) /\ sending'[s] = sending[s] /\ dataOffset'[s] = dataOffset[s]
      BY <1>2, <1>8
    <3> QED BY <2>7, <2>8, <3>1 DEF MeetsAt, Holds
  <2> QED BY <2>1, <2>3, <2>4, <2>9 DEF SenderInv
<1> QED BY <1>9, <1>10, <1>11, <1>12 DEF FramesInv

\* A rejection or a delivery leaves the frames alone.
LEMMA FinishStep ==
    ASSUME FramesInv, SendRejection \/ DatagramComplete
    PROVE  FramesInv'
<1>1. DataTypes /\ Finished /\ \A t \in Senders : SenderInv(t)
  BY DEF FramesInv
<1>2. /\ UNCHANGED <<sent, sending, dataOffset, queue, pendingBuffers>>
      /\ parser' = "entry" /\ localBuffer' \in {localBuffer, << >>}
  BY DEF SendRejection, DatagramComplete
<1>3. DataTypes'
  <2>1. << >> \in Seq(Byte) /\ Len(<< >>) <= MAX_SIZE
    BY FrameAssumption DEF FrameAssumption
  <2> QED BY <1>1, <1>2, <2>1 DEF DataTypes
<1>4. Finished'
  <2>1. CASE SendRejection
    BY <1>1, <1>2, <2>1 DEF Finished, SendRejection, Whole
  <2>2. CASE DatagramComplete
    <3>1. Whole(localBuffer, frame.d)
      BY <1>1, <2>2 DEF DatagramComplete, Finished
    <3>2. delivered' = delivered \cup {[d |-> frame.d, payload |-> localBuffer]}
      BY <2>2 DEF DatagramComplete
    <3>3. \A p, d : Whole(p, d) => Whole(p, d)'
      BY <1>2 DEF Whole
    <3>4. \A x \in delivered' : Whole(x.payload, x.d)
      BY <1>1, <3>1, <3>2 DEF Finished
    <3> QED BY <1>2, <3>3, <3>4 DEF Finished, Whole
  <2> QED BY <2>1, <2>2
<1>5. \A t \in Senders : SenderInv(t)'
  BY <1>1, <1>2, OtherSender
<1> QED BY <1>3, <1>4, <1>5 DEF FramesInv
-----------------------------------------------------------------------------
\* The invariant is inductive.
LEMMA FramesStep == FramesInv /\ [Next]_vars => FramesInv'
<1> SUFFICES ASSUME FramesInv, [Next]_vars PROVE FramesInv'
  OBVIOUS
<1>1. CASE UNCHANGED vars
  <2>1. UNCHANGED <<sent, sending, dataOffset, queue, pendingBuffers, localBuffer, parser,
                    frame, delivered>>
    BY <1>1 DEF vars
  <2>2. DataTypes' /\ Finished'
    BY <2>1 DEF FramesInv, DataTypes, Finished, Whole
  <2>3. \A t \in Senders : SenderInv(t)'
    BY <2>1, OtherSender DEF FramesInv
  <2> QED BY <2>2, <2>3 DEF FramesInv
<1>2. CASE \E s \in Senders, size \in Sizes : SendToHardware(s, size)
  BY <1>2, SendStep
<1>3. CASE \E s \in Senders : FillFrame(s) \/ Restart(s) \/ ParserEntry(s)
  BY <1>3, FillStep, RestartStep, ParserStep
<1>4. CASE SendRejection \/ DatagramComplete
  BY <1>4, FinishStep
<1> QED BY <1>1, <1>2, <1>3, <1>4 DEF Next

\* The invariant holds at the start.
LEMMA FramesInit == Init => FramesInv
<1> SUFFICES ASSUME Init PROVE FramesInv
  OBVIOUS
<1>1. DataTypes
  <2>1. << >> \in Seq(Byte) /\ Len(<< >>) = 0 /\ MAX_SIZE \in Nat
    BY FrameAssumption DEF FrameAssumption
  <2> QED BY <2>1 DEF Init, DataTypes
<1>2. Finished
  BY DEF Init, Finished
<1>3. ASSUME NEW s \in Senders PROVE SenderInv(s)
  <2>1. queue[s] = << >> /\ sending[s] = 0 /\ dataOffset[s] = 0
    BY DEF Init
  <2>2. Len(queue[s]) = 0
    BY <2>1
  <2>3. 1..Len(queue[s]) = {} /\ 1..Len(queue[s]) - 1 = {}
    BY <2>2
  <2>4. InsideAt(s)
    BY <2>1 DEF InsideAt
  <2>5. QueuedAt(s)
    BY <2>3, Zenon DEF QueuedAt
  <2>6. ChainedAt(s)
    BY <2>3, Zenon DEF ChainedAt
  <2>7. MeetsAt(s)
    BY <2>1, Zenon DEF MeetsAt
  <2> QED BY <2>4, <2>5, <2>6, <2>7 DEF SenderInv
<1> QED BY <1>1, <1>2, <1>3 DEF FramesInv

\* It implies the type invariant, with the bound on the buffers.
LEMMA FramesTypes == FramesInv => TypeOK
<1> SUFFICES ASSUME FramesInv PROVE TypeOK
  OBVIOUS
<1>1. /\ sent \in Seq(Sent) /\ sending \in [Senders -> 0..Len(sent)]
      /\ dataOffset \in [Senders -> Nat]
      /\ \A s \in Senders : \A b \in pendingBuffers[s] : Len(b) <= MAX_SIZE
      /\ Len(localBuffer) <= MAX_SIZE
  BY DEF FramesInv, DataTypes
<1>2. \A s \in Senders : \A f \in Elems(queue[s]) : Made(f) /\ f.src = s
  BY DEF FramesInv, SenderInv, QueuedAt, Elems
<1>3. \A f : Made(f) => f.type \in Types /\ f.d \in 1..Len(sent) /\ Len(f.data) <= FrameLen
  BY DEF Made, Frame
<1> QED BY <1>1, <1>2, <1>3 DEF TypeOK, Sent

\* And that what was delivered is what was sent.
LEMMA FramesGoal == FramesInv => DeliveredIntact
<1> SUFFICES ASSUME FramesInv, NEW x \in delivered
             PROVE  x.payload = Bytes(x.d, sent[x.d].size)
  BY DEF DeliveredIntact
<1>1. Whole(x.payload, x.d)
  BY DEF FramesInv, Finished
<1>2. sent[x.d].size \in Nat
  <2>1. sent[x.d] \in Sent
    BY <1>1, ElementOfSeq DEF Whole, FramesInv, DataTypes
  <2> QED BY <2>1, FrameAssumption DEF Sent, FrameAssumption
<1> QED BY <1>1, <1>2, WholeIsAll DEF Whole

\* Types, and no buffer of the parser ever holds more than a datagram may
\* (the length check of CanDatagramParser::entry()).
THEOREM TypeCorrect == Spec => []TypeOK
BY FramesInit, FramesStep, FramesTypes, PTL DEF Spec

\* What the parser hands to the dispatcher is a datagram as one sender has sent
\* it, byte for byte, although frames carry no number, frames of other senders
\* come in between and senders restart in the middle (CanDatagramParser).
THEOREM ReassemblyIsExact == Spec => []DeliveredIntact
BY FramesInit, FramesStep, FramesGoal, PTL DEF Spec
-----------------------------------------------------------------------------
(***************************************************************************)
(* One outcome.  The frames of a sender come datagram by datagram          *)
(* (Ordered) and a datagram that is not aborted goes on to its last frame  *)
(* (Continued).  So a datagram is Coming until its last frame is taken,    *)
(* that frame settles it, and once a frame was refused the buffer is gone  *)
(* and every later frame is refused too.                                   *)
(***************************************************************************)
Goes == {"MIDDLE", "FINAL"}
Lasts == {"ONE", "FINAL"}
Refusals == {"send_rejection_out_of_order", "send_rejection_permanent"}

\* The frames in the queue and the datagram in work are the sender's own.
MineAt(s) ==
    /\ \A i \in 1..Len(queue[s]) :
          /\ sent[queue[s][i].d].src = s
          /\ End(queue[s][i]) <= sent[queue[s][i].d].size
    /\ sending[s] # 0 => sent[sending[s]].src = s

OrderedAt(s) ==
    /\ \A i, j \in 1..Len(queue[s]) : i < j =>
          /\ queue[s][i].d <= queue[s][j].d
          /\ queue[s][i].d = queue[s][j].d =>
                queue[s][i].type \notin Lasts /\ queue[s][j].type \in Goes
    /\ sending[s] # 0 => \A i \in 1..Len(queue[s]) :
          /\ queue[s][i].d <= sending[s]
          /\ queue[s][i].d = sending[s] =>
                queue[s][i].type \notin Lasts /\ dataOffset[s] > 0

ContinuedAt(s) ==
    \A i \in 1..Len(queue[s]) :
        queue[s][i].type \notin Lasts /\ queue[s][i].d \notin aborted =>
            \/ sending[s] = queue[s][i].d
            \/ \E j \in 1..Len(queue[s]) : i < j /\ queue[s][j].d = queue[s][i].d

FlowInv(s) == MineAt(s) /\ OrderedAt(s) /\ ContinuedAt(s)

\* Frames of datagram d of sender s are still to be taken by the parser.
Coming(s, d) ==
    \/ sending[s] = d
    \/ \E i \in 1..Len(queue[s]) : queue[s][i].d = d

\* The first frame of datagram d, and all before it, have been taken.
Behind(s, d) ==
    /\ \A i \in 1..Len(queue[s]) :
          queue[s][i].d >= d /\ (queue[s][i].d = d => queue[s][i].type \in Goes)
    /\ sending[s] # 0 => sending[s] >= d /\ (sending[s] = d => dataOffset[s] > 0)

Refused(d) ==
    \/ \E r \in rejected : r[1] = d
    \/ parser \in Refusals /\ frame.d = d

Passed(d) ==
    \/ WasDelivered(d)
    \/ parser = "datagram_complete" /\ frame.d = d

OutcomeAt(d) ==
    LET s == sent[d].src IN
    /\ ~(Refused(d) /\ Passed(d))
    /\ Passed(d) => ~Coming(s, d)
    /\ d \notin aborted => Coming(s, d) \/ Refused(d) \/ Passed(d)
    /\ Refused(d) /\ Coming(s, d) => Behind(s, d) /\ pendingBuffers[s] = {}

\* Whatever has an outcome has been sent.
Known ==
    /\ \A r \in rejected : r[1] \in 1..Len(sent)
    /\ \A x \in delivered : x.d \in 1..Len(sent)
    /\ parser # "entry" => frame.d \in 1..Len(sent)

OutcomeInv ==
    /\ Known
    /\ \A s \in Senders : FlowInv(s)
    /\ \A d \in 1..Len(sent) : OutcomeAt(d)

(***************************************************************************)
(* A reason to send again.  A buffer that a first frame finds is the one   *)
(* of an earlier datagram whose sender restarted; a middle or final frame  *)
(* without a buffer comes after a refused one.                             *)
(***************************************************************************)
Excused(d) ==
    \/ sent[d].size > MAX_SIZE
    \/ \E e \in aborted : e < d /\ sent[e].src = sent[d].src

OwnedAt(s) ==
    pendingBuffers[s] # {} =>
        \E e \in 1..Len(sent) : /\ sent[e].src = s /\ Behind(s, e)
                                /\ e \in aborted \/ Coming(s, e)

ExcusedAt(s) ==
    pendingBuffers[s] = {} =>
        /\ queue[s] # << >> /\ queue[s][1].type \in Goes => Excused(queue[s][1].d)
        /\ queue[s] = << >> /\ sending[s] # 0 /\ dataOffset[s] > 0 => Excused(sending[s])

Reasons ==
    /\ parser = "send_rejection_out_of_order" => Excused(frame.d)
    /\ \A r \in rejected : r[2] = "RESEND_OK" => Excused(r[1])

ResendInv ==
    /\ \A s \in Senders : OwnedAt(s) /\ ExcusedAt(s)
    /\ Reasons
    /\ \A e \in aborted : e \in 1..Len(sent)
-----------------------------------------------------------------------------
\* The frames, offsets and datagrams of a sender are what they seem.
LEMMA Elements ==
    ASSUME FramesInv, NEW s \in Senders
    PROVE  /\ Len(sent) \in Nat /\ Len(queue[s]) \in Nat
           /\ sending[s] \in 0..Len(sent) /\ dataOffset[s] \in Nat
           /\ \A i \in 1..Len(queue[s]) :
                 Made(queue[s][i]) /\ queue[s][i].d \in 1..Len(sent) /\ queue[s][i].type \in Types
           /\ \A d \in 1..Len(sent) : sent[d].src \in Senders /\ sent[d].size \in Nat
<1>1. DataTypes /\ SenderInv(s)
  BY DEF FramesInv
<1>2. Len(sent) \in Nat /\ Len(queue[s]) \in Nat /\ sending[s] \in 0..Len(sent) /\ dataOffset[s] \in Nat
  BY <1>1 DEF DataTypes
<1>3. \A i \in 1..Len(queue[s]) :
          Made(queue[s][i]) /\ queue[s][i].d \in 1..Len(sent) /\ queue[s][i].type \in Types
  BY <1>1 DEF SenderInv, QueuedAt, Made, Frame
<1>4. \A d \in 1..Len(sent) : sent[d].src \in Senders /\ sent[d].size \in Nat
  <2> TAKE d \in 1..Len(sent)
  <2>1. sent[d] \in Sent
    BY <1>1, ElementOfSeq DEF DataTypes
  <2> QED BY <2>1, FrameAssumption DEF Sent, FrameAssumption
<1> QED BY <1>2, <1>3, <1>4

\* A step that leaves a sender's flow and queue alone.
LEMMA OtherFlow ==
    ASSUME FramesInv, NEW t \in Senders, FlowInv(t), aborted \subseteq aborted',
           \A d \in 1..Len(sent) : sent'[d] = sent[d],
           sending'[t] = sending[t], dataOffset'[t] = dataOffset[t], queue'[t] = queue[t]
    PROVE  /\ FlowInv(t)'
           /\ \A d : (Coming(t, d)' <=> Coming(t, d)) /\ (Behind(t, d)' <=> Behind(t, d))
<1>1. /\ sending[t] \in 0..Len(sent) /\ Len(sent) \in Nat
      /\ \A i \in 1..Len(queue[t]) : queue[t][i].d \in 1..Len(sent)
  BY Elements
<1>2. MineAt(t)'
  <2>1. \A i \in 1..Len(queue[t]) : sent'[queue[t][i].d] = sent[queue[t][i].d]
    BY <1>1
  <2>2. sending[t] # 0 => sent'[sending[t]] = sent[sending[t]]
    BY <1>1
  <2> QED BY <2>1, <2>2 DEF FlowInv, MineAt
<1>3. OrderedAt(t)' /\ ContinuedAt(t)'
  BY DEF FlowInv, OrderedAt, ContinuedAt
<1>4. \A d : (Coming(t, d)' <=> Coming(t, d)) /\ (Behind(t, d)' <=> Behind(t, d))
  BY DEF Coming, Behind
<1> QED BY <1>2, <1>3, <1>4 DEF FlowInv

\* The write flows decide nothing about outcomes.
LEMMA SameOutcome ==
    ASSUME UNCHANGED <<rejected, delivered, parser, frame>>
    PROVE  \A d : (Refused(d)' <=> Refused(d)) /\ (Passed(d)' <=> Passed(d))
BY DEF Refused, Passed, WasDelivered

\* A new datagram is behind all others of its sender, and has no outcome.
LEMMA SendFlow ==
    ASSUME FramesInv, NEW s \in Senders, FlowInv(s), NEW size \in Sizes,
           SendToHardware(s, size), NEW n \in Nat, n = Len(sent) + 1
    PROVE  /\ FlowInv(s)' /\ Coming(s, n)'
           /\ \A d \in 1..Len(sent) :
                 (Coming(s, d)' <=> Coming(s, d)) /\ (Behind(s, d) => Behind(s, d)')
<1> DEFINE q == queue[s]
<1>1. /\ sending[s] = 0 /\ sending'[s] = n /\ queue'[s] = q /\ aborted' = aborted
      /\ dataOffset'[s] = 0
      /\ \A d \in 1..Len(sent) : sent'[d] = sent[d]
      /\ sent'[n].src = s
  <2>1. sent \in Seq(Sent) /\ [src |-> s, size |-> size] \in Sent
    BY DEF FramesInv, DataTypes, Sent
  <2>2. sending \in [Senders -> Nat] /\ dataOffset \in [Senders -> Nat]
    BY DEF FramesInv, DataTypes
  <2>3. sent' = Append(sent, [src |-> s, size |-> size])
    BY DEF SendToHardware
  <2>4. sent'[n] = [src |-> s, size |-> size] /\ \A d \in 1..Len(sent) : sent'[d] = sent[d]
    BY <2>1, <2>3, AppendProperties
  <2>5. /\ sending[s] = 0 /\ sending'[s] = n /\ queue'[s] = q /\ aborted' = aborted
        /\ dataOffset'[s] = 0
    BY <2>2 DEF SendToHardware
  <2> QED BY <2>4, <2>5
<1>2. /\ Len(sent) \in Nat /\ \A i \in 1..Len(q) : q[i].d \in 1..Len(sent)
  BY Elements
<1> HIDE DEF q
<1>3. \A i \in 1..Len(q) : q[i].d < n /\ sent'[q[i].d] = sent[q[i].d]
  BY <1>1, <1>2
<1>4. MineAt(s)'
  BY <1>1, <1>3 DEF FlowInv, MineAt, q
<1>5. OrderedAt(s)'
  <2>1. \A i \in 1..Len(q) : q[i].d <= n /\ q[i].d # n
    BY <1>2
  <2> QED BY <1>1, <2>1 DEF FlowInv, OrderedAt, q
<1>6. ContinuedAt(s)'
  <2>1. \A i \in 1..Len(q) : q[i].d # 0
    BY <1>2
  <2> QED BY <1>1, <2>1 DEF FlowInv, ContinuedAt, q
<1>7. ASSUME NEW d \in 1..Len(sent)
      PROVE  (Coming(s, d)' <=> Coming(s, d)) /\ (Behind(s, d) => Behind(s, d)')
  <2>1. d # 0 /\ d # n /\ n >= d
    BY <1>2
  <2>2. Coming(s, d)' <=> Coming(s, d)
    <3>1. sending'[s] # d /\ sending[s] # d /\ queue'[s] = queue[s]
      BY <1>1, <2>1 DEF q
    <3> QED BY <3>1 DEF Coming
  <2>3. Behind(s, d) => Behind(s, d)'
    <3>1. sending'[s] >= d /\ sending'[s] # d /\ queue'[s] = queue[s]
      BY <1>1, <2>1 DEF q
    <3> QED BY <3>1 DEF Behind
  <2> QED BY <2>2, <2>3
<1>8. Coming(s, n)'
  BY <1>1 DEF Coming
<1> QED BY <1>4, <1>5, <1>6, <1>7, <1>8 DEF FlowInv

\* Cutting a frame moves a part of the datagram from the flow to the queue.
LEMMA FillFlow ==
    ASSUME FramesInv, NEW s \in Senders, FlowInv(s), FillFrame(s)
    PROVE  /\ FlowInv(s)'
           /\ \A d \in 1..Len(sent) :
                 (Coming(s, d)' <=> Coming(s, d)) /\ (Behind(s, d) => Behind(s, d)')
<1> DEFINE c == sending[s]
           off == dataOffset[s]
           rest == sent[c].size - off
           more == NeedMore(rest)
           len == IF more THEN FrameLen ELSE rest
           f == [src |-> s, type |-> TypeOf(off, more), d |-> c,
                 data |-> SubSeq(Bytes(c, sent[c].size), off + 1, off + len)]
           q == queue[s]
           r == queue'[s]
<1>1. DataTypes /\ SenderInv(s)
  BY DEF FramesInv
<1>2. /\ c # 0 /\ queue' = [queue EXCEPT ![s] = Append(q, f)]
      /\ dataOffset' = [dataOffset EXCEPT ![s] = off + len]
      /\ more => sending' = sending
      /\ ~more => sending' = [sending EXCEPT ![s] = 0]
      /\ UNCHANGED <<sent, aborted>>
  BY DEF FillFrame
<1>3. /\ Made(f) /\ len \in Nat /\ Start(f) = off /\ End(f) = off + len
      /\ more => f.type \in {"FIRST", "MIDDLE"} /\ off + len < sent[c].size
      /\ f.type \in {"MIDDLE", "FINAL"} => off > 0
  BY <1>1, <1>2, FrameMade
<1>4. f.d = c /\ f.type \in Types /\ (f.type \in Goes <=> off > 0)
      /\ (~more => f.type \in Lasts) /\ (more => f.type \notin Lasts)
  <2>1. more \in BOOLEAN /\ off \in Nat
    BY <1>1 DEF NeedMore, DataTypes
  <2> HIDE DEF more, off
  <2> QED BY <2>1 DEF TypeOf, Types, Goes, Lasts
<1> HIDE DEF f, len, more, off
<1>5. /\ Len(r) = Len(q) + 1 /\ r[Len(q) + 1] = f /\ Len(q) \in Nat
      /\ \A i \in 1..Len(q) : r[i] = q[i]
  <2>1. queue \in [Senders -> Seq(Frame)] /\ f \in Frame
    BY <1>1, <1>3 DEF DataTypes, Made
  <2>2. q \in Seq(Frame)
    BY <2>1
  <2>3. r = Append(q, f)
    BY <1>2, <2>1
  <2> HIDE DEF q, r
  <2> QED BY <2>1, <2>2, <2>3, AppendProperties
<1>6. /\ (more => sending'[s] = c) /\ (~more => sending'[s] = 0)
      /\ dataOffset'[s] = off + len /\ off \in Nat
  BY <1>1, <1>2 DEF DataTypes, off
<1>7. /\ Len(sent) \in Nat /\ c \in 1..Len(sent) /\ sent[c].size \in Nat
      /\ \A i \in 1..Len(q) : q[i].d \in 1..Len(sent) /\ q[i].type \in Types
  BY <1>2, Elements
<1>8. /\ sent[c].src = s
      /\ \A i \in 1..Len(q) : q[i].d <= c /\ (q[i].d = c => q[i].type \notin Lasts /\ off > 0)
  <2>1. sent[c].src = s
    BY <1>2 DEF FlowInv, MineAt
  <2>2. \A i \in 1..Len(q) : q[i].d <= c /\ (q[i].d = c => q[i].type \notin Lasts /\ off > 0)
    <3>1. OrderedAt(s) /\ sending[s] # 0
      BY <1>2 DEF FlowInv
    <3> QED BY <3>1 DEF OrderedAt, off
  <2> QED BY <2>1, <2>2
<1>9. \A i \in 1..Len(r) : \/ i \in 1..Len(q) /\ r[i] = q[i]
                           \/ i = Len(q) + 1 /\ r[i] = f
  BY <1>5
<1>10. more => off + len > 0
  <2>1. more => FrameLen = len
    BY DEF len
  <2> QED BY <1>3, <1>6, <2>1, FrameAssumption DEF FrameAssumption
<1>11. MineAt(s)'
  <2>1. End(f) <= sent[c].size
    BY <1>3, <1>4, <1>6, <1>7 DEF Made, Lasts
  <2>2. \A i \in 1..Len(r) : sent[r[i].d].src = s /\ End(r[i]) <= sent[r[i].d].size
    BY <1>4, <1>8, <1>9, <2>1 DEF FlowInv, MineAt
  <2>3. sending'[s] # 0 => sent[sending'[s]].src = s
    BY <1>6, <1>8
  <2> QED BY <1>2, <2>2, <2>3 DEF MineAt
<1>12. OrderedAt(s)'
  <2>1. ASSUME NEW i \in 1..Len(r), NEW j \in 1..Len(r), i < j
        PROVE  /\ r[i].d <= r[j].d
               /\ r[i].d = r[j].d => r[i].type \notin Lasts /\ r[j].type \in Goes
    <3>1. i \in 1..Len(q) /\ r[i] = q[i]
      BY <1>5, <2>1
    <3>2. CASE j \in 1..Len(q)
      BY <1>5, <2>1, <3>1, <3>2 DEF FlowInv, OrderedAt
    <3>3. CASE j = Len(q) + 1
      BY <1>4, <1>5, <1>8, <3>1, <3>3
    <3> QED BY <1>9, <3>2, <3>3
  <2>2. ASSUME sending'[s] # 0, NEW i \in 1..Len(r)
        PROVE  /\ r[i].d <= sending'[s]
               /\ r[i].d = sending'[s] => r[i].type \notin Lasts /\ dataOffset'[s] > 0
    <3>1. more /\ sending'[s] = c /\ dataOffset'[s] > 0
      BY <1>6, <1>10, <2>2
    <3>2. f.d <= c /\ f.type \notin Lasts
      BY <1>4, <1>7, <3>1
    <3>3. CASE i \in 1..Len(q) /\ r[i] = q[i]
      BY <1>8, <3>1, <3>3
    <3>4. CASE r[i] = f
      BY <3>1, <3>2, <3>4
    <3> QED BY <1>9, <3>3, <3>4
  <2> QED BY <2>1, <2>2 DEF OrderedAt
<1>13. ContinuedAt(s)'
  <2> SUFFICES ASSUME NEW i \in 1..Len(r), r[i].type \notin Lasts, r[i].d \notin aborted
               PROVE  \/ sending'[s] = r[i].d
                      \/ \E j \in 1..Len(r) : i < j /\ r[j].d = r[i].d
    BY <1>2 DEF ContinuedAt
  <2>1. CASE i = Len(q) + 1
    BY <1>4, <1>5, <1>6, <2>1
  <2>2. CASE i \in 1..Len(q) /\ r[i] = q[i]
    <3>1. CASE c = q[i].d
      <4>1. Len(q) + 1 \in 1..Len(r) /\ i < Len(q) + 1
        BY <1>5, <2>2
      <4> QED BY <1>4, <1>5, <2>2, <3>1, <4>1
    <3>2. CASE c # q[i].d
      <4>1. PICK j \in 1..Len(q) : i < j /\ q[j].d = q[i].d
        BY <2>2, <3>2 DEF FlowInv, ContinuedAt
      <4>2. j \in 1..Len(r) /\ r[j] = q[j]
        BY <1>5
      <4> QED BY <2>2, <4>1, <4>2
    <3> QED BY <3>1, <3>2
  <2> QED BY <1>9, <2>1, <2>2
<1>14. ASSUME NEW d \in 1..Len(sent)
       PROVE  (Coming(s, d)' <=> Coming(s, d)) /\ (Behind(s, d) => Behind(s, d)')
  <2>0. d # 0
    OBVIOUS
  <2>1. Coming(s, d)' => Coming(s, d)
    <3>1. sending'[s] = d => c = d
      BY <1>6, <2>0
    <3>2. ASSUME NEW i \in 1..Len(r), r[i].d = d PROVE c = d \/ \E k \in 1..Len(q) : q[k].d = d
      BY <1>4, <1>9, <3>2
    <3> QED BY <3>1, <3>2 DEF Coming
  <2>2. Coming(s, d) => Coming(s, d)'
    <3>1. c = d => r[Len(q) + 1].d = d /\ Len(q) + 1 \in 1..Len(r)
      BY <1>4, <1>5
    <3>2. \A k \in 1..Len(q) : k \in 1..Len(r) /\ r[k].d = q[k].d
      BY <1>5
    <3> QED BY <3>1, <3>2 DEF Coming
  <2>3. ASSUME Behind(s, d) PROVE Behind(s, d)'
    <3>1. /\ c >= d /\ (c = d => off > 0)
          /\ \A i \in 1..Len(q) : q[i].d >= d /\ (q[i].d = d => q[i].type \in Goes)
      BY <1>2, <2>3 DEF Behind, off
    <3>2. \A i \in 1..Len(r) : r[i].d >= d /\ (r[i].d = d => r[i].type \in Goes)
      BY <1>4, <1>9, <3>1
    <3>3. sending'[s] # 0 => sending'[s] >= d /\ (sending'[s] = d => dataOffset'[s] > 0)
      BY <1>6, <1>10, <3>1
    <3> QED BY <3>2, <3>3 DEF Behind
  <2> QED BY <2>1, <2>2, <2>3
<1> QED BY <1>11, <1>12, <1>13, <1>14 DEF FlowInv

\* A restart ends only the datagram in work.
LEMMA RestartFlow ==
    ASSUME FramesInv, NEW s \in Senders, FlowInv(s), Restart(s)
    PROVE  /\ FlowInv(s)'
           /\ \A d \in 1..Len(sent) : /\ Coming(s, d)' => Coming(s, d)
                                      /\ Coming(s, d) => Coming(s, d)' \/ d \in aborted'
                                      /\ Behind(s, d) => Behind(s, d)'
<1>1. /\ sending'[s] = 0 /\ aborted' = aborted \cup {sending[s]}
      /\ UNCHANGED <<sent, queue, dataOffset>>
  BY DEF Restart, FramesInv, DataTypes
<1>2. MineAt(s)' /\ OrderedAt(s)'
  BY <1>1 DEF FlowInv, MineAt, OrderedAt
<1>3. ContinuedAt(s)'
  BY <1>1 DEF FlowInv, ContinuedAt
<1>4. ASSUME NEW d \in 1..Len(sent)
      PROVE  /\ Coming(s, d)' => Coming(s, d)
             /\ Coming(s, d) => Coming(s, d)' \/ d \in aborted'
             /\ Behind(s, d) => Behind(s, d)'
  <2>1. d # 0
    OBVIOUS
  <2> QED BY <1>1, <2>1 DEF Coming, Behind
<1> QED BY <1>2, <1>3, <1>4 DEF FlowInv

\* The parser takes the first frame of a queue: it belongs to a datagram that
\* is coming, and is behind it.
LEMMA ParserFlow ==
    ASSUME FramesInv, NEW s \in Senders, FlowInv(s), ParserEntry(s), NEW f, f = queue[s][1]
    PROVE  /\ Made(f) /\ f.d \in 1..Len(sent) /\ f.type \in Types
           /\ sent[f.d].src = s /\ End(f) <= sent[f.d].size
           /\ f = Head(queue[s]) /\ Coming(s, f.d)
           /\ FlowInv(s)' /\ Behind(s, f.d)'
           /\ f.type \in Lasts => ~Coming(s, f.d)'
           /\ f.type \notin Lasts /\ f.d \notin aborted => Coming(s, f.d)'
           /\ \A d \in 1..Len(sent) :
                 /\ Coming(s, d)' => Coming(s, d)
                 /\ Coming(s, d) /\ d # f.d => Coming(s, d)'
                 /\ Behind(s, d) => Behind(s, d)' /\ d <= f.d /\ (d = f.d => f.type \in Goes)
                 /\ Behind(s, d) /\ Coming(s, d) => d = f.d
           /\ queue'[s] # << >> /\ queue'[s][1].type \in Goes =>
                 f.type \notin Lasts /\ queue'[s][1].d = f.d
           /\ queue'[s] = << >> /\ sending'[s] # 0 /\ dataOffset'[s] > 0 =>
                 f.type \notin Lasts /\ sending'[s] = f.d
<1> DEFINE q == queue[s]
           r == queue'[s]
<1>1. DataTypes /\ SenderInv(s) /\ MineAt(s) /\ OrderedAt(s) /\ ContinuedAt(s)
  BY DEF FramesInv, FlowInv
<1>2. /\ UNCHANGED <<sent, sending, dataOffset, aborted>>
      /\ q # << >> /\ queue' = [queue EXCEPT ![s] = Tail(q)]
  BY DEF ParserEntry
<1>3. /\ Len(q) \in Nat \ {0} /\ Len(r) = Len(q) - 1 /\ f = Head(q)
      /\ \A i \in 1..Len(q) - 1 : r[i] = q[i + 1]
      /\ r = << >> <=> Len(q) = 1
  <2>1. queue \in [Senders -> Seq(Frame)] /\ q \in Seq(Frame)
    BY <1>1 DEF DataTypes
  <2>2. r = Tail(q)
    BY <1>2, <2>1
  <2> HIDE DEF q, r
  <2>3. /\ Tail(q) \in Seq(Frame) /\ Len(Tail(q)) = Len(q) - 1
        /\ \A i \in 1..Len(Tail(q)) : Tail(q)[i] = q[i + 1]
    BY <1>2, <2>1, HeadTailProperties
  <2>4. Len(q) \in Nat \ {0} /\ f = Head(q)
    BY <1>2, <2>1 DEF q
  <2>5. r = << >> <=> Len(r) = 0
    <3>1. Tail(q) \in Seq(Frame)
      BY <2>3
    <3>2. Tail(q) = << >> <=> Len(Tail(q)) = 0
      BY <3>1, EmptySeq
    <3> QED BY <2>2, <3>2
  <2> QED BY <2>2, <2>3, <2>4, <2>5
<1>4. /\ 1 \in 1..Len(q) /\ f = q[1]
      /\ \A i \in 1..Len(r) : i + 1 \in 1..Len(q) /\ 1 < i + 1 /\ r[i] = q[i + 1]
      /\ \A k \in 1..Len(q) : k # 1 => k - 1 \in 1..Len(r) /\ r[k - 1] = q[k]
  <2>1. 1 \in 1..Len(q) /\ f = q[1]
    BY <1>3
  <2> HIDE DEF q, r
  <2>2. \A i \in 1..Len(r) : i + 1 \in 1..Len(q) /\ 1 < i + 1 /\ r[i] = q[i + 1]
    BY <1>3
  <2>3. ASSUME NEW k \in 1..Len(q), k # 1 PROVE k - 1 \in 1..Len(r) /\ r[k - 1] = q[k]
    <3>1. k - 1 \in 1..Len(q) - 1 /\ (k - 1) + 1 = k
      BY <1>3, <2>3
    <3> QED BY <1>3, <3>1
  <2> QED BY <2>1, <2>2, <2>3
<1>5. /\ Len(sent) \in Nat /\ sending[s] \in 0..Len(sent)
      /\ \A i \in 1..Len(q) : Made(q[i]) /\ q[i].d \in 1..Len(sent) /\ q[i].type \in Types
  BY Elements
<1>6. /\ \A i \in 1..Len(q) : sent[q[i].d].src = s /\ End(q[i]) <= sent[q[i].d].size
      /\ sending[s] # 0 => sent[sending[s]].src = s
  BY <1>1 DEF MineAt
<1>7. /\ Made(f) /\ f.d \in 1..Len(sent) /\ f.type \in Types
      /\ sent[f.d].src = s /\ End(f) <= sent[f.d].size
  BY <1>4, <1>5, <1>6
<1>8. Coming(s, f.d)
  BY <1>4 DEF Coming
<1>9. \A i, j \in 1..Len(q) : i < j =>
         /\ q[i].d <= q[j].d
         /\ q[i].d = q[j].d => q[i].type \notin Lasts /\ q[j].type \in Goes
  BY <1>1 DEF OrderedAt
<1>10. sending[s] # 0 => \A i \in 1..Len(q) :
          /\ q[i].d <= sending[s]
          /\ q[i].d = sending[s] => q[i].type \notin Lasts /\ dataOffset[s] > 0
  BY <1>1 DEF OrderedAt
<1>11. \A i \in 1..Len(q) : q[i].type \notin Lasts /\ q[i].d \notin aborted =>
           \/ sending[s] = q[i].d
           \/ \E j \in 1..Len(q) : i < j /\ q[j].d = q[i].d
  BY <1>1 DEF ContinuedAt
<1>12. r # << >> /\ r[1].type \in Goes => f.type \notin Lasts /\ r[1].d = f.d
  <2> SUFFICES ASSUME r # << >>, r[1].type \in Goes PROVE f.type \notin Lasts /\ r[1].d = f.d
    OBVIOUS
  <2>1. 1 \in 1..Len(q) - 1 /\ r[1] = q[1 + 1]
    BY <1>3
  <2>2. Follows(q[1], q[1 + 1])
    BY <1>1, <2>1 DEF SenderInv, ChainedAt
  <2> QED BY <1>4, <2>1, <2>2 DEF Follows, Goes, Lasts
<1>13. r = << >> /\ sending[s] # 0 /\ dataOffset[s] > 0 =>
          f.type \notin Lasts /\ sending[s] = f.d
  <2> SUFFICES ASSUME r = << >>, sending[s] # 0, dataOffset[s] > 0
               PROVE  f.type \notin Lasts /\ sending[s] = f.d
    OBVIOUS
  <2>1. Len(q) = 1
    BY <1>3
  <2> QED BY <1>1, <1>2, <1>4, <2>1 DEF SenderInv, MeetsAt, Lasts
<1> HIDE DEF q, r
<1>14. MineAt(s)'
  BY <1>2, <1>4, <1>6 DEF MineAt, r
<1>15. OrderedAt(s)'
  <2>1. ASSUME NEW i \in 1..Len(r), NEW j \in 1..Len(r), i < j
        PROVE  /\ r[i].d <= r[j].d
               /\ r[i].d = r[j].d => r[i].type \notin Lasts /\ r[j].type \in Goes
    <3>1. /\ i + 1 \in 1..Len(q) /\ j + 1 \in 1..Len(q) /\ i + 1 < j + 1
          /\ r[i] = q[i + 1] /\ r[j] = q[j + 1]
      BY <1>4, <2>1
    <3> QED BY <1>9, <3>1
  <2>2. sending[s] # 0 => \A i \in 1..Len(r) :
          /\ r[i].d <= sending[s]
          /\ r[i].d = sending[s] => r[i].type \notin Lasts /\ dataOffset[s] > 0
    BY <1>4, <1>10
  <2> QED BY <1>2, <2>1, <2>2 DEF OrderedAt, r
<1>16. ContinuedAt(s)'
  <2> SUFFICES ASSUME NEW i \in 1..Len(r), r[i].type \notin Lasts, r[i].d \notin aborted,
                      sending[s] # r[i].d
               PROVE  \E j \in 1..Len(r) : i < j /\ r[j].d = r[i].d
    BY <1>2 DEF ContinuedAt, r
  <2>1. i + 1 \in 1..Len(q) /\ r[i] = q[i + 1]
    BY <1>4
  <2>2. PICK k \in 1..Len(q) : i + 1 < k /\ q[k].d = r[i].d
    BY <1>11, <2>1
  <2>3. k - 1 \in 1..Len(r) /\ r[k - 1] = q[k] /\ i < k - 1
    BY <1>4, <2>2
  <2> QED BY <2>2, <2>3
<1>17. ASSUME NEW i \in 1..Len(r)
       PROVE  f.d <= r[i].d /\ (f.d = r[i].d => f.type \notin Lasts /\ r[i].type \in Goes)
  <2>1. i + 1 \in 1..Len(q) /\ 1 < i + 1 /\ r[i] = q[i + 1]
    BY <1>4
  <2> QED BY <1>4, <1>9, <2>1
<1>18. sending[s] # 0 =>
          f.d <= sending[s] /\ (f.d = sending[s] => f.type \notin Lasts /\ dataOffset[s] > 0)
  BY <1>4, <1>10
<1>19. f.d \in Nat \ {0} /\ sending[s] \in Nat /\ \A i \in 1..Len(r) : r[i].d \in Nat
  <2>1. f.d \in Nat \ {0} /\ sending[s] \in Nat
    BY <1>5, <1>7
  <2>2. ASSUME NEW i \in 1..Len(r) PROVE r[i].d \in Nat
    <3>1. i + 1 \in 1..Len(q) /\ r[i] = q[i + 1]
      BY <1>4
    <3>2. q[i + 1].d \in 1..Len(sent)
      BY <1>5, <3>1
    <3> QED BY <1>5, <3>1, <3>2
  <2> QED BY <2>1, <2>2
<1>20. Behind(s, f.d)'
  <2>1. \A d : d = f.d =>
            /\ \A i \in 1..Len(r) : r[i].d >= d /\ (r[i].d = d => r[i].type \in Goes)
            /\ sending[s] # 0 => sending[s] >= d /\ (sending[s] = d => dataOffset[s] > 0)
    BY <1>17, <1>18, <1>19
  <2> QED BY <1>2, <2>1 DEF Behind, r
<1>21. f.type \in Lasts => ~Coming(s, f.d)'
  BY <1>2, <1>17, <1>18, <1>19 DEF Coming, r
<1>22. f.type \notin Lasts /\ f.d \notin aborted => Coming(s, f.d)'
  <2> SUFFICES ASSUME f.type \notin Lasts, f.d \notin aborted, sending[s] # f.d
               PROVE  \E i \in 1..Len(r) : r[i].d = f.d
    BY <1>2 DEF Coming, r
  <2>1. PICK k \in 1..Len(q) : 1 < k /\ q[k].d = f.d
    BY <1>4, <1>11
  <2>2. k - 1 \in 1..Len(r) /\ r[k - 1] = q[k]
    BY <1>4, <2>1
  <2> QED BY <2>1, <2>2
<1>23. ASSUME NEW d \in 1..Len(sent)
       PROVE  /\ Coming(s, d)' => Coming(s, d)
              /\ Coming(s, d) /\ d # f.d => Coming(s, d)'
              /\ Behind(s, d) => Behind(s, d)' /\ d <= f.d /\ (d = f.d => f.type \in Goes)
              /\ Behind(s, d) /\ Coming(s, d) => d = f.d
  <2>1. Coming(s, d)' => Coming(s, d)
    BY <1>2, <1>4 DEF Coming, q, r
  <2>2. Coming(s, d) /\ d # f.d => Coming(s, d)'
    <3>1. ASSUME NEW k \in 1..Len(q), q[k].d = d, d # f.d PROVE \E i \in 1..Len(r) : r[i].d = d
      <4>1. k - 1 \in 1..Len(r) /\ r[k - 1] = q[k]
        BY <1>4, <3>1
      <4> QED BY <3>1, <4>1
    <3> QED BY <1>2, <3>1 DEF Coming, q, r
  <2>3. Behind(s, d) => Behind(s, d)'
    BY <1>2, <1>4 DEF Behind, q, r
  <2>4. Behind(s, d) => f.d >= d /\ (f.d = d => f.type \in Goes)
    BY <1>4 DEF Behind, q
  <2>5. Coming(s, d) => f.d <= d
    <3>1. \A k \in 1..Len(q) : f.d <= q[k].d
      <4> TAKE k \in 1..Len(q)
      <4>1. CASE k = 1
        BY <1>4, <1>19, <4>1
      <4>2. CASE k # 1
        <5>1. 1 < k
          BY <4>2
        <5> QED BY <1>4, <1>9, <5>1
      <4> QED BY <4>1, <4>2
    <3> QED BY <1>18, <3>1 DEF Coming, q
  <2> QED BY <1>19, <2>1, <2>2, <2>3, <2>4, <2>5
<1> QED BY <1>2, <1>3, <1>7, <1>8, <1>12, <1>13, <1>14, <1>15, <1>16, <1>20, <1>21, <1>22, <1>23
        DEF FlowInv, q, r

\* What entry() decides about that frame, and what it leaves in pendingBuffers_.
LEMMA ParserEffect ==
    ASSUME FramesInv, NEW s \in Senders, ParserEntry(s), NEW f, f = Head(queue[s]),
           Made(f), f.src = s, f.type \in Types, End(f) <= sent[f.d].size, sent[f.d].size \in Nat
    PROVE  /\ parser = "entry"
           /\ UNCHANGED <<sent, sending, dataOffset, aborted, delivered, rejected>>
           /\ \A t \in Senders : t # s =>
                 queue'[t] = queue[t] /\ pendingBuffers'[t] = pendingBuffers[t]
           /\ parser' \in Refusals \cup {"entry", "datagram_complete"}
           /\ parser' # "entry" => frame' = f
           /\ parser' = "entry" => f.type \notin Lasts /\ pendingBuffers'[s] # {}
           /\ parser' = "datagram_complete" => f.type \in Lasts
           /\ parser' = "send_rejection_permanent" => sent[f.d].size > MAX_SIZE
           /\ parser' = "send_rejection_out_of_order" =>
                 \/ f.type = "FIRST" /\ pendingBuffers[s] # {}
                 \/ f.type \in Goes /\ pendingBuffers[s] = {}
           /\ f.type \in Goes /\ pendingBuffers[s] = {} =>
                 parser' = "send_rejection_out_of_order"
           /\ f.type = "ONE" => pendingBuffers'[s] = pendingBuffers[s]
           /\ f.type # "ONE" /\ parser' # "entry" => pendingBuffers'[s] = {}
<1> DEFINE noBuf == BufferFor(f) = {}
           buf == IF noBuf THEN << >> ELSE CHOOSE b \in BufferFor(f) : TRUE
           bad == noBuf \/ TooLong(buf, f)
           last == f.type \in {"ONE", "FINAL"}
<1>1. DataTypes /\ SenderInv(s)
  BY DEF FramesInv
<1>2. /\ parser = "entry" /\ queue[s] # << >>
      /\ queue' = [queue EXCEPT ![s] = Tail(queue[s])]
      /\ pendingBuffers' = [pendingBuffers EXCEPT ![s] = Leftover(f, buf, bad)]
      /\ parser' = IF noBuf THEN "send_rejection_out_of_order"
                   ELSE IF bad THEN "send_rejection_permanent"
                   ELSE IF last THEN "datagram_complete"
                   ELSE "entry"
      /\ frame' = IF ~bad /\ ~last THEN NoFrame ELSE f
      /\ UNCHANGED <<sent, sending, dataOffset, aborted, delivered, rejected>>
  BY DEF ParserEntry
<1>3. noBuf <=> \/ f.type = "FIRST" /\ pendingBuffers[s] # {}
                \/ f.type \in Goes /\ pendingBuffers[s] = {}
  BY DEF BufferFor, Goes, Types
<1>4. Leftover(f, buf, bad) = IF f.type = "ONE" THEN pendingBuffers[s]
                              ELSE IF bad \/ f.type = "FINAL" THEN {} ELSE {buf \o f.data}
  BY DEF Leftover
<1>5. ~noBuf /\ bad => sent[f.d].size > MAX_SIZE
  <2> SUFFICES ASSUME ~noBuf, bad PROVE sent[f.d].size > MAX_SIZE
    OBVIOUS
  <2>1. buf \in BufferFor(Head(queue[s])) /\ queue[s] # << >>
    BY <1>2
  <2>2. Len(buf) + Len(f.data) > MAX_SIZE
    BY DEF TooLong
  <2> HIDE DEF buf
  <2>3. Len(buf) + Len(f.data) = End(f)
    BY <1>1, <2>1, BufferMet
  <2>4. End(f) \in Nat /\ MAX_SIZE \in Nat
    <3>1. Start(f) \in Nat /\ f.data \in Seq(Byte)
      BY DEF Made, Frame
    <3> QED BY <3>1, FrameAssumption DEF End, FrameAssumption
  <2> QED BY <2>2, <2>3, <2>4
<1>6. pendingBuffers \in [Senders -> SUBSET Seq(Byte)] /\ queue \in [Senders -> Seq(Frame)]
  BY <1>1 DEF DataTypes
<1> HIDE DEF noBuf, buf, bad
<1>7. pendingBuffers'[s] = Leftover(f, buf, bad)
  BY <1>2, <1>6
<1>8. \A t \in Senders : t # s =>
          queue'[t] = queue[t] /\ pendingBuffers'[t] = pendingBuffers[t]
  BY <1>2, <1>6
<1>9. noBuf => bad
  BY DEF bad
<1>10. CASE noBuf
  BY <1>2, <1>3, <1>4, <1>7, <1>8, <1>9, <1>10 DEF Lasts, Goes, Refusals
<1>11. CASE ~noBuf /\ bad
  BY <1>2, <1>3, <1>4, <1>5, <1>7, <1>8, <1>11 DEF Lasts, Goes, Refusals
<1>12. CASE ~noBuf /\ ~bad
  <2>1. /\ parser' = IF last THEN "datagram_complete" ELSE "entry"
        /\ frame' = IF last THEN f ELSE NoFrame
    BY <1>2, <1>12
  <2>2. ~last => pendingBuffers'[s] # {}
    BY <1>4, <1>7, <1>12
  <2>3. f.type = "ONE" => pendingBuffers'[s] = pendingBuffers[s]
    BY <1>4, <1>7
  <2>4. f.type # "ONE" /\ last => pendingBuffers'[s] = {}
    BY <1>4, <1>7
  <2> QED BY <1>2, <1>3, <1>8, <1>12, <2>1, <2>2, <2>3, <2>4 DEF Lasts, Goes, Refusals
<1> QED BY <1>10, <1>11, <1>12
-----------------------------------------------------------------------------
\* A step of the write flow changes no outcome, and takes no datagram away
\* from the parser unless it aborts it.
LEMMA FlowKeeps ==
    ASSUME FramesInv, OutcomeInv, ResendInv, Len(sent') \in Nat, Len(sent) <= Len(sent'),
           UNCHANGED <<rejected, delivered, parser, frame, pendingBuffers>>,
           aborted \subseteq aborted', \A d \in 1..Len(sent) : sent'[d] = sent[d],
           \A t \in Senders : \A d \in 1..Len(sent) :
               /\ Coming(t, d)' => Coming(t, d)
               /\ Coming(t, d) => Coming(t, d)' \/ d \in aborted'
               /\ Behind(t, d) => Behind(t, d)'
    PROVE  /\ \A d \in 1..Len(sent) : OutcomeAt(d)' /\ (Excused(d) => Excused(d)')
           /\ Known' /\ Reasons' /\ \A t \in Senders : OwnedAt(t)'
<1>1. Known /\ \A d \in 1..Len(sent) : OutcomeAt(d)
  BY DEF OutcomeInv
<1>2. \A d : (Refused(d)' <=> Refused(d)) /\ (Passed(d)' <=> Passed(d))
  BY SameOutcome
<1>3. \A d \in 1..Len(sent) : sent[d].src \in Senders /\ sent'[d] = sent[d]
  <2>1. CASE Senders = {}
    BY <2>1, ElementOfSeq DEF FramesInv, DataTypes, Sent
  <2>2. CASE Senders # {}
    BY <2>2, Elements
  <2> QED BY <2>1, <2>2
<1>4. ASSUME NEW d \in 1..Len(sent) PROVE OutcomeAt(d)'
  BY <1>1, <1>2, <1>3 DEF OutcomeAt
<1>5. ASSUME NEW d \in 1..Len(sent), Excused(d) PROVE Excused(d)'
  <2>1. CASE sent[d].size > MAX_SIZE
    BY <1>3, <2>1 DEF Excused
  <2>2. ASSUME NEW e \in aborted, e < d, sent[e].src = sent[d].src
        PROVE  Excused(d)'
    <3>1. e \in aborted' /\ e \in 1..Len(sent)
      BY DEF ResendInv
    <3> QED BY <1>3, <2>2, <3>1 DEF Excused
  <2> QED BY <1>5, <2>1, <2>2 DEF Excused
<1>6. Known'
  <2>1. \A d \in 1..Len(sent) : d \in 1..Len(sent')
    <3>1. Len(sent) \in Nat
      BY DEF FramesInv, DataTypes
    <3> QED BY <3>1
  <2> QED BY <1>1, <2>1 DEF Known
<1>7. ASSUME NEW t \in Senders PROVE OwnedAt(t)'
  <2> SUFFICES ASSUME pendingBuffers[t] # {} PROVE OwnedAt(t)'
    BY DEF OwnedAt
  <2>1. PICK e \in 1..Len(sent) : sent[e].src = t /\ Behind(t, e) /\ (e \in aborted \/ Coming(t, e))
    BY DEF ResendInv, OwnedAt
  <2>2. /\ e \in 1..Len(sent') /\ sent'[e].src = t /\ Behind(t, e)'
        /\ e \in aborted' \/ Coming(t, e)'
    <3>1. Len(sent) \in Nat
      BY DEF FramesInv, DataTypes
    <3> QED BY <1>3, <2>1, <3>1
  <2> QED BY <2>2 DEF OwnedAt
<1>8. Reasons'
  BY <1>1, <1>5 DEF ResendInv, Reasons, Known
<1> QED BY <1>4, <1>5, <1>6, <1>7, <1>8

\* A new datagram has no outcome yet.
LEMMA SendOutcome ==
    ASSUME FramesInv, OutcomeInv, ResendInv, NEW s \in Senders, NEW size \in Sizes,
           SendToHardware(s, size)
    PROVE  OutcomeInv' /\ ResendInv'
<1> DEFINE n == Len(sent) + 1
<1>1. /\ UNCHANGED <<queue, aborted, pendingBuffers, parser, frame, delivered, rejected>>
      /\ sent' = Append(sent, [src |-> s, size |-> size])
      /\ sending' = [sending EXCEPT ![s] = n] /\ dataOffset' = [dataOffset EXCEPT ![s] = 0]
  BY DEF SendToHardware
<1>2. /\ Len(sent) \in Nat /\ Len(sent') = n /\ sent'[n] = [src |-> s, size |-> size]
      /\ \A d \in 1..Len(sent) : sent'[d] = sent[d]
  <2>1. sent \in Seq(Sent) /\ [src |-> s, size |-> size] \in Sent
    BY DEF FramesInv, DataTypes, Sent
  <2> QED BY <1>1, <2>1, AppendProperties
<1>3. /\ sending \in [Senders -> Nat] /\ dataOffset \in [Senders -> Nat]
      /\ \A t \in Senders : t # s =>
            sending'[t] = sending[t] /\ dataOffset'[t] = dataOffset[t]
  BY <1>1 DEF FramesInv, DataTypes
<1>4. \A t \in Senders : FlowInv(t)
  BY DEF OutcomeInv
<1>5. ASSUME NEW k, k = n
      PROVE  /\ FlowInv(s)' /\ Coming(s, k)'
             /\ \A d \in 1..Len(sent) :
                   (Coming(s, d)' <=> Coming(s, d)) /\ (Behind(s, d) => Behind(s, d)')
  <2>1. k \in Nat /\ k = Len(sent) + 1
    BY <1>2, <1>5
  <2> QED BY <1>4, <2>1, SendFlow
<1>6. \A t \in Senders : /\ FlowInv(t)'
                         /\ \A d \in 1..Len(sent) :
                               (Coming(t, d)' <=> Coming(t, d)) /\ (Behind(t, d) => Behind(t, d)')
  <2> TAKE t \in Senders
  <2>1. CASE t = s
    <3>1. \E k : k = n
      OBVIOUS
    <3> QED BY <1>5, <2>1, <3>1
  <2>2. CASE t # s
    BY <1>1, <1>2, <1>3, <1>4, <2>2, OtherFlow
  <2> QED BY <2>1, <2>2
<1>7. /\ \A d \in 1..Len(sent) : OutcomeAt(d)' /\ (Excused(d) => Excused(d)')
      /\ Known' /\ Reasons' /\ \A t \in Senders : OwnedAt(t)'
  <2>1. Len(sent') \in Nat /\ Len(sent) <= Len(sent')
    BY <1>2
  <2> QED BY <1>1, <1>2, <1>6, <2>1, FlowKeeps
<1>8. ASSUME NEW k, k = n PROVE OutcomeAt(k)'
  <2>1. sent'[k].src = s /\ Coming(s, k)'
    BY <1>2, <1>5, <1>8
  <2>2. ~Refused(k) /\ ~Passed(k)
    <3>1. k \notin 1..Len(sent)
      BY <1>2, <1>8
    <3> QED BY <3>1 DEF OutcomeInv, Known, Refused, Passed, WasDelivered, Refusals
  <2>3. ~Refused(k)' /\ ~Passed(k)'
    BY <1>1, <2>2, SameOutcome
  <2> QED BY <2>1, <2>3 DEF OutcomeAt
<1>9. \A d \in 1..Len(sent') : OutcomeAt(d)'
  <2> TAKE d \in 1..Len(sent')
  <2>1. d \in 1..Len(sent) \/ d = n
    BY <1>2
  <2> QED BY <1>7, <1>8, <2>1
<1>10. ASSUME NEW t \in Senders PROVE ExcusedAt(t)'
  <2>1. ExcusedAt(t)
    BY DEF ResendInv
  <2>2. /\ Len(queue[t]) \in Nat /\ sending[t] \in 0..Len(sent)
        /\ \A i \in 1..Len(queue[t]) : queue[t][i].d \in 1..Len(sent)
    BY Elements
  <2>3. queue[t] # << >> => 1 \in 1..Len(queue[t])
    BY DEF FramesInv, DataTypes
  <2>4. dataOffset'[t] > 0 => t # s
    BY <1>1, <1>3
  <2>5. pendingBuffers[t] = {} /\ queue[t] # << >> /\ queue[t][1].type \in Goes =>
           \A d : d = queue[t][1].d => Excused(d)'
    BY <1>7, <2>1, <2>2, <2>3 DEF ExcusedAt
  <2>6. pendingBuffers[t] = {} /\ queue[t] = << >> /\ sending'[t] # 0 /\ dataOffset'[t] > 0 =>
           \A d : d = sending'[t] => Excused(d)'
    BY <1>3, <1>7, <2>1, <2>2, <2>4 DEF ExcusedAt
  <2> QED BY <1>1, <2>5, <2>6 DEF ExcusedAt
<1>11. ResendInv'
  <2>1. \A e \in aborted' : e \in 1..Len(sent')
    BY <1>1, <1>2 DEF ResendInv
  <2> QED BY <1>7, <1>10, <2>1 DEF ResendInv
<1> QED BY <1>6, <1>7, <1>9, <1>11 DEF OutcomeInv

\* Cutting a frame settles nothing either.
LEMMA FillOutcome ==
    ASSUME FramesInv, OutcomeInv, ResendInv, NEW s \in Senders, FillFrame(s)
    PROVE  OutcomeInv' /\ ResendInv'
<1> DEFINE c == sending[s]
           off == dataOffset[s]
<1>1. /\ UNCHANGED <<sent, aborted, pendingBuffers, parser, frame, delivered, rejected>>
      /\ c # 0
      /\ \A t \in Senders : t # s =>
            /\ sending'[t] = sending[t] /\ dataOffset'[t] = dataOffset[t]
            /\ queue'[t] = queue[t]
  <2>1. /\ sending \in [Senders -> Nat] /\ dataOffset \in [Senders -> Nat]
        /\ queue \in [Senders -> Seq(Frame)]
    BY DEF FramesInv, DataTypes
  <2>2. /\ UNCHANGED <<sent, aborted, pendingBuffers, parser, frame, delivered, rejected>>
        /\ c # 0
    BY DEF FillFrame
  <2>3. \A t \in Senders : t # s =>
            sending'[t] = sending[t] /\ dataOffset'[t] = dataOffset[t]
    BY <2>1 DEF FillFrame
  <2>4. \A t \in Senders : t # s => queue'[t] = queue[t]
    BY <2>1 DEF FillFrame
  <2> QED BY <2>2, <2>3, <2>4
<1>2. \A t \in Senders : FlowInv(t)
  BY DEF OutcomeInv
<1>3. \A t \in Senders : /\ FlowInv(t)'
                         /\ \A d \in 1..Len(sent) :
                               (Coming(t, d)' <=> Coming(t, d)) /\ (Behind(t, d) => Behind(t, d)')
  <2> TAKE t \in Senders
  <2>1. CASE t = s
    BY <1>2, <2>1, FillFlow
  <2>2. CASE t # s
    BY <1>1, <1>2, <2>2, OtherFlow
  <2> QED BY <2>1, <2>2
<1>4. /\ \A d \in 1..Len(sent) : OutcomeAt(d)' /\ (Excused(d) => Excused(d)')
      /\ Known' /\ Reasons' /\ \A t \in Senders : OwnedAt(t)'
  <2>1. Len(sent') \in Nat /\ Len(sent) <= Len(sent')
    BY <1>1 DEF FramesInv, DataTypes
  <2> QED BY <1>1, <1>3, <2>1, FlowKeeps
<1>5. \A t \in Senders :
          /\ Len(queue[t]) \in Nat /\ sending[t] \in 0..Len(sent)
          /\ \A i \in 1..Len(queue[t]) : queue[t][i].d \in 1..Len(sent)
          /\ queue[t] # << >> => 1 \in 1..Len(queue[t])
          /\ ExcusedAt(t)
  <2> TAKE t \in Senders
  <2>1. queue[t] # << >> => 1 \in 1..Len(queue[t])
    BY DEF FramesInv, DataTypes
  <2> QED BY <2>1, Elements DEF ResendInv
<1>6. ASSUME NEW t \in Senders, t # s PROVE ExcusedAt(t)'
  BY <1>1, <1>4, <1>5, <1>6 DEF ExcusedAt
<1>7. ExcusedAt(s)'
  <2> DEFINE rest == sent[c].size - off
             more == NeedMore(rest)
             len == IF more THEN FrameLen ELSE rest
             f == [src |-> s, type |-> TypeOf(off, more), d |-> c,
                   data |-> SubSeq(Bytes(c, sent[c].size), off + 1, off + len)]
             q == queue[s]
             r == queue'[s]
  <2>1. r = Append(q, f) /\ q \in Seq(Frame)
    BY DEF FillFrame, FramesInv, DataTypes
  <2>2. f.d = c /\ (f.type \in Goes => off > 0)
    <3>1. more \in BOOLEAN /\ off \in Nat
      BY DEF NeedMore, FramesInv, DataTypes
    <3> HIDE DEF more, off
    <3> QED BY <3>1 DEF TypeOf, Goes
  <2>3. f \in Frame
    <3>1. DataTypes /\ SenderInv(s)
      BY DEF FramesInv
    <3> QED BY <1>1, <3>1, FrameMade DEF Made
  <2> HIDE DEF f, q, r
  <2>4. r # << >> /\ r[1] = IF q = << >> THEN f ELSE q[1]
    BY <2>1, <2>3, AppendProperties
  <2>5. CASE q = << >>
    <3>1. pendingBuffers[s] = {} /\ r[1].type \in Goes => Excused(c)
      BY <1>1, <1>5, <2>2, <2>4, <2>5 DEF ExcusedAt, q
    <3>2. c \in 1..Len(sent) /\ r[1].d = c
      BY <1>1, <1>5, <2>2, <2>4, <2>5
    <3>3. \A d : pendingBuffers[s] = {} /\ r[1].type \in Goes /\ d = r[1].d => Excused(d)'
      BY <1>4, <3>1, <3>2
    <3> QED BY <1>1, <2>4, <3>3 DEF ExcusedAt, r
  <2>6. CASE q # << >>
    <3>1. r[1] = q[1] /\ q[1].d \in 1..Len(sent)
      BY <1>5, <2>4, <2>6 DEF q
    <3>2. \A d : pendingBuffers[s] = {} /\ r[1].type \in Goes /\ d = r[1].d => Excused(d)'
      BY <1>4, <1>5, <2>6, <3>1 DEF ExcusedAt, q
    <3> QED BY <1>1, <2>4, <3>2 DEF ExcusedAt, r
  <2> QED BY <2>5, <2>6
<1>8. \A e \in aborted' : e \in 1..Len(sent')
  BY <1>1 DEF ResendInv
<1>9. ResendInv'
  BY <1>4, <1>6, <1>7, <1>8 DEF ResendInv
<1>10. \A d \in 1..Len(sent') : OutcomeAt(d)'
  BY <1>1, <1>4
<1> QED BY <1>3, <1>4, <1>9, <1>10 DEF OutcomeInv

\* A restart aborts a datagram; what it had sent is settled as before.
LEMMA RestartOutcome ==
    ASSUME FramesInv, OutcomeInv, ResendInv, NEW s \in Senders, Restart(s)
    PROVE  OutcomeInv' /\ ResendInv'
<1>1. /\ UNCHANGED <<sent, queue, dataOffset, pendingBuffers, parser, frame, delivered, rejected>>
      /\ sending[s] # 0 /\ aborted' = aborted \cup {sending[s]} /\ sending'[s] = 0
      /\ \A t \in Senders : t # s => sending'[t] = sending[t]
  BY DEF Restart, FramesInv, DataTypes
<1>2. \A t \in Senders : FlowInv(t)
  BY DEF OutcomeInv
<1>3. \A t \in Senders : /\ FlowInv(t)'
                         /\ \A d \in 1..Len(sent) :
                               /\ Coming(t, d)' => Coming(t, d)
                               /\ Coming(t, d) => Coming(t, d)' \/ d \in aborted'
                               /\ Behind(t, d) => Behind(t, d)'
  <2> TAKE t \in Senders
  <2>1. CASE t = s
    BY <1>2, <2>1, RestartFlow
  <2>2. CASE t # s
    BY <1>1, <1>2, <2>2, OtherFlow
  <2> QED BY <2>1, <2>2
<1>4. /\ \A d \in 1..Len(sent) : OutcomeAt(d)' /\ (Excused(d) => Excused(d)')
      /\ Known' /\ Reasons' /\ \A t \in Senders : OwnedAt(t)'
  <2>1. Len(sent') \in Nat /\ Len(sent) <= Len(sent') /\ aborted \subseteq aborted'
    BY <1>1 DEF FramesInv, DataTypes
  <2> QED BY <1>1, <1>3, <2>1, FlowKeeps
<1>5. ASSUME NEW t \in Senders PROVE ExcusedAt(t)'
  <2>1. ExcusedAt(t)
    BY DEF ResendInv
  <2>2. /\ sending[t] \in 0..Len(sent)
        /\ \A i \in 1..Len(queue[t]) : queue[t][i].d \in 1..Len(sent)
    BY Elements
  <2>3. queue[t] # << >> => 1 \in 1..Len(queue[t])
    BY DEF FramesInv, DataTypes
  <2>4. pendingBuffers[t] = {} /\ queue[t] # << >> /\ queue[t][1].type \in Goes =>
           \A d : d = queue[t][1].d => Excused(d)'
    BY <1>4, <2>1, <2>2, <2>3 DEF ExcusedAt
  <2>5. pendingBuffers[t] = {} /\ queue[t] = << >> /\ sending'[t] # 0 /\ dataOffset[t] > 0 =>
           \A d : d = sending'[t] => Excused(d)'
    BY <1>1, <1>4, <2>1, <2>2 DEF ExcusedAt
  <2> QED BY <1>1, <2>4, <2>5 DEF ExcusedAt
<1>6. \A e \in aborted' : e \in 1..Len(sent')
  <2>1. sending[s] \in 0..Len(sent) /\ Len(sent) \in Nat
    BY Elements
  <2> QED BY <1>1, <2>1 DEF ResendInv
<1>7. ResendInv'
  BY <1>4, <1>5, <1>6 DEF ResendInv
<1>8. \A d \in 1..Len(sent') : OutcomeAt(d)'
  BY <1>1, <1>4
<1> QED BY <1>3, <1>4, <1>7, <1>8 DEF OutcomeInv

\* The frame the parser takes settles its datagram when it is the last one, and
\* ends it when it does not fit what came before (entry).
LEMMA ParserOutcome ==
    ASSUME FramesInv, OutcomeInv, ResendInv, NEW s \in Senders, ParserEntry(s)
    PROVE  OutcomeInv' /\ ResendInv'
<1> SUFFICES ASSUME NEW f, f = queue[s][1] PROVE OutcomeInv' /\ ResendInv'
  OBVIOUS
<1>1. FlowInv(s) /\ OwnedAt(s) /\ ExcusedAt(s) /\ \A t \in Senders : FlowInv(t)
  BY DEF OutcomeInv, ResendInv
<1>2. /\ Made(f) /\ f.d \in 1..Len(sent) /\ f.type \in Types
      /\ sent[f.d].src = s /\ End(f) <= sent[f.d].size
      /\ f = Head(queue[s]) /\ Coming(s, f.d)
      /\ FlowInv(s)' /\ Behind(s, f.d)'
      /\ f.type \in Lasts => ~Coming(s, f.d)'
      /\ f.type \notin Lasts /\ f.d \notin aborted => Coming(s, f.d)'
  BY <1>1, ParserFlow
<1>3. \A d \in 1..Len(sent) :
          /\ Coming(s, d)' => Coming(s, d)
          /\ Coming(s, d) /\ d # f.d => Coming(s, d)'
          /\ Behind(s, d) => Behind(s, d)' /\ d <= f.d /\ (d = f.d => f.type \in Goes)
          /\ Behind(s, d) /\ Coming(s, d) => d = f.d
  BY <1>1, ParserFlow
<1>4. /\ queue'[s] # << >> /\ queue'[s][1].type \in Goes =>
            f.type \notin Lasts /\ queue'[s][1].d = f.d
      /\ queue'[s] = << >> /\ sending'[s] # 0 /\ dataOffset'[s] > 0 =>
            f.type \notin Lasts /\ sending'[s] = f.d
  BY <1>1, ParserFlow
<1>5. /\ Len(sent) \in Nat
      /\ \A d \in 1..Len(sent) : sent[d].src \in Senders /\ sent[d].size \in Nat
  BY Elements
<1>6. f.src = s /\ queue[s] # << >>
  <2>1. queue[s] # << >> /\ QueuedAt(s) /\ queue[s] \in Seq(Frame)
    BY DEF ParserEntry, FramesInv, SenderInv, DataTypes
  <2>2. 1 \in 1..Len(queue[s])
    BY <2>1
  <2> QED BY <2>1, <2>2 DEF QueuedAt
<1>7. /\ parser = "entry"
      /\ UNCHANGED <<sent, sending, dataOffset, aborted, delivered, rejected>>
      /\ \A t \in Senders : t # s =>
            queue'[t] = queue[t] /\ pendingBuffers'[t] = pendingBuffers[t]
      /\ parser' \in Refusals \cup {"entry", "datagram_complete"}
      /\ parser' # "entry" => frame' = f
      /\ parser' = "entry" => f.type \notin Lasts /\ pendingBuffers'[s] # {}
      /\ parser' = "datagram_complete" => f.type \in Lasts
      /\ parser' = "send_rejection_permanent" => sent[f.d].size > MAX_SIZE
      /\ parser' = "send_rejection_out_of_order" =>
            \/ f.type = "FIRST" /\ pendingBuffers[s] # {}
            \/ f.type \in Goes /\ pendingBuffers[s] = {}
      /\ f.type \in Goes /\ pendingBuffers[s] = {} =>
            parser' = "send_rejection_out_of_order"
      /\ f.type = "ONE" => pendingBuffers'[s] = pendingBuffers[s]
      /\ f.type # "ONE" /\ parser' # "entry" => pendingBuffers'[s] = {}
  BY <1>2, <1>5, <1>6, ParserEffect
<1>8. \A d : /\ Refused(d)' <=> Refused(d) \/ (d = f.d /\ parser' \in Refusals)
             /\ Passed(d)' <=> Passed(d) \/ (d = f.d /\ parser' = "datagram_complete")
  BY <1>7 DEF Refused, Passed, WasDelivered, Refusals
<1>9. \A t \in Senders : t # s =>
          /\ FlowInv(t)'
          /\ \A d : (Coming(t, d)' <=> Coming(t, d)) /\ (Behind(t, d)' <=> Behind(t, d))
  BY <1>1, <1>7, OtherFlow
<1>10. Known'
  <2>1. /\ \A r \in rejected' : r[1] \in 1..Len(sent')
        /\ \A x \in delivered' : x.d \in 1..Len(sent')
    BY <1>7 DEF OutcomeInv, Known
  <2>2. parser' # "entry" => frame'.d \in 1..Len(sent')
    BY <1>2, <1>7
  <2> QED BY <2>1, <2>2 DEF Known
<1>11. ASSUME NEW d \in 1..Len(sent), d # f.d PROVE OutcomeAt(d)'
  <2>1. OutcomeAt(d) /\ (Refused(d)' <=> Refused(d)) /\ (Passed(d)' <=> Passed(d))
    BY <1>8, <1>11 DEF OutcomeInv
  <2>2. CASE sent[d].src = s
    BY <1>3, <1>7, <1>11, <2>1, <2>2 DEF OutcomeAt
  <2>3. CASE sent[d].src # s
    BY <1>5, <1>7, <1>9, <2>1, <2>3 DEF OutcomeAt
  <2> QED BY <2>2, <2>3
<1>12. ASSUME NEW d, d = f.d PROVE OutcomeAt(d)'
  <2>1. /\ d \in 1..Len(sent) /\ sent[d].src = s /\ Coming(s, d) /\ OutcomeAt(d)
        /\ sent'[d].src = s
    BY <1>2, <1>7, <1>12 DEF OutcomeInv
  <2>2. ~Passed(d) /\ (Refused(d) => Behind(s, d) /\ pendingBuffers[s] = {})
    BY <2>1 DEF OutcomeAt
  <2>3. /\ Refused(d)' <=> Refused(d) \/ parser' \in Refusals
        /\ Passed(d)' <=> parser' = "datagram_complete"
    BY <1>8, <1>12, <2>2
  <2>4. Behind(s, d)' /\ (f.type \in Lasts => ~Coming(s, d)')
        /\ (f.type \notin Lasts /\ d \notin aborted => Coming(s, d)')
    BY <1>2, <1>12
  <2>5. CASE Refused(d)
    <3>1. f.type \in Goes /\ pendingBuffers[s] = {}
      BY <1>3, <1>12, <2>1, <2>2, <2>5
    <3>2. parser' = "send_rejection_out_of_order" /\ pendingBuffers'[s] = {}
      BY <1>7, <3>1 DEF Goes
    <3> QED BY <2>1, <2>3, <2>4, <2>5, <3>2 DEF OutcomeAt
  <2>6. CASE ~Refused(d)
    <3>1. ~(Refused(d)' /\ Passed(d)')
      BY <2>3, <2>6 DEF Refusals
    <3>2. Passed(d)' => ~Coming(s, d)'
      BY <1>7, <2>3, <2>4
    <3>3. d \notin aborted' => Coming(s, d)' \/ Refused(d)' \/ Passed(d)'
      BY <1>7, <2>3, <2>4
    <3>4. Refused(d)' /\ Coming(s, d)' => pendingBuffers'[s] = {}
      BY <1>7, <2>3, <2>4, <2>6 DEF Lasts, Refusals
    <3> QED BY <2>1, <2>4, <3>1, <3>2, <3>3, <3>4 DEF OutcomeAt
  <2> QED BY <2>5, <2>6
<1>13. \A d \in 1..Len(sent') : OutcomeAt(d)'
  BY <1>7, <1>11, <1>12
<1>14. OutcomeInv'
  BY <1>2, <1>9, <1>10, <1>13 DEF OutcomeInv
<1>15. \A d \in 1..Len(sent) : Excused(d)' <=> Excused(d)
  BY <1>7 DEF Excused
<1>16. parser' \in Refusals => Excused(f.d)
  <2>1. CASE parser' = "send_rejection_permanent"
    BY <1>7, <2>1 DEF Excused
  <2>2. CASE parser' = "send_rejection_out_of_order" /\ f.type \in Goes /\ pendingBuffers[s] = {}
    <3>1. f.d = queue[s][1].d /\ queue[s][1].type \in Goes
      BY <2>2
    <3> QED BY <1>1, <1>6, <2>2, <3>1 DEF ExcusedAt
  <2>3. CASE f.type = "FIRST" /\ pendingBuffers[s] # {}
    <3>1. PICK e \in 1..Len(sent) : /\ sent[e].src = s /\ Behind(s, e)
                                    /\ e \in aborted \/ Coming(s, e)
      BY <1>1, <2>3 DEF OwnedAt
    <3>2. e <= f.d /\ e # f.d
      BY <1>3, <2>3, <3>1 DEF Goes
    <3>3. e \in aborted /\ e < f.d
      BY <1>2, <1>3, <1>5, <3>1, <3>2
    <3> QED BY <1>2, <3>1, <3>3 DEF Excused
  <2> QED BY <1>7, <2>1, <2>2, <2>3 DEF Refusals
<1>17. Reasons'
  <2>1. parser' = "send_rejection_out_of_order" => \A d : d = frame'.d => Excused(d)'
    BY <1>2, <1>7, <1>15, <1>16 DEF Refusals
  <2>2. \A r \in rejected' : r[2] = "RESEND_OK" => \A d : d = r[1] => Excused(d)'
    BY <1>7, <1>15 DEF ResendInv, Reasons, OutcomeInv, Known
  <2> QED BY <2>1, <2>2 DEF Reasons
<1>18. ASSUME NEW t \in Senders, t # s PROVE OwnedAt(t)' /\ ExcusedAt(t)'
  <2>1. OwnedAt(t) /\ ExcusedAt(t)
    BY DEF ResendInv
  <2>2. OwnedAt(t)'
    BY <1>7, <1>9, <1>18, <2>1 DEF OwnedAt
  <2>3. /\ sending[t] \in 0..Len(sent)
        /\ \A i \in 1..Len(queue[t]) : queue[t][i].d \in 1..Len(sent)
    BY Elements
  <2>4. queue[t] # << >> => 1 \in 1..Len(queue[t])
    BY DEF FramesInv, DataTypes
  <2>5. pendingBuffers[t] = {} /\ queue[t] # << >> /\ queue[t][1].type \in Goes =>
           \A d : d = queue[t][1].d => Excused(d)'
    BY <1>15, <2>1, <2>3, <2>4 DEF ExcusedAt
  <2>6. pendingBuffers[t] = {} /\ queue[t] = << >> /\ sending[t] # 0 /\ dataOffset[t] > 0 =>
           \A d : d = sending[t] => Excused(d)'
    BY <1>15, <2>1, <2>3 DEF ExcusedAt
  <2> QED BY <1>7, <1>18, <2>2, <2>5, <2>6 DEF ExcusedAt
<1>19. OwnedAt(s)'
  <2> SUFFICES ASSUME pendingBuffers'[s] # {}
               PROVE  \E e \in 1..Len(sent') : /\ sent'[e].src = s /\ Behind(s, e)'
                                               /\ e \in aborted' \/ Coming(s, e)'
    BY DEF OwnedAt
  <2>1. CASE f.type = "ONE"
    <3>1. PICK e \in 1..Len(sent) : /\ sent[e].src = s /\ Behind(s, e)
                                    /\ e \in aborted \/ Coming(s, e)
      BY <1>1, <1>7, <2>1 DEF OwnedAt
    <3>2. Behind(s, e)' /\ e # f.d
      BY <1>3, <2>1, <3>1 DEF Goes
    <3>3. e \in aborted
      BY <1>3, <3>1, <3>2
    <3> QED BY <1>7, <3>1, <3>2, <3>3
  <2>2. CASE f.type # "ONE"
    <3>1. f.type \notin Lasts
      BY <1>7, <2>2
    <3>2. \E e : e = f.d
      OBVIOUS
    <3>3. PICK e : e = f.d
      BY <3>2
    <3>4. e \in 1..Len(sent') /\ sent'[e].src = s /\ Behind(s, e)'
      BY <1>2, <1>7, <3>3
    <3>5. e \in aborted' \/ Coming(s, e)'
      BY <1>2, <1>7, <3>1, <3>3
    <3> QED BY <3>4, <3>5
  <2> QED BY <2>1, <2>2
<1>20. ExcusedAt(s)'
  <2>1. pendingBuffers'[s] = {} /\ f.type \notin Lasts => parser' \in Refusals
    BY <1>7
  <2>2. pendingBuffers'[s] = {} /\ queue'[s] # << >> /\ queue'[s][1].type \in Goes =>
           \A d : d = queue'[s][1].d => Excused(d)'
    BY <1>2, <1>4, <1>15, <1>16, <2>1
  <2>3. pendingBuffers'[s] = {} /\ queue'[s] = << >> /\ sending'[s] # 0 /\ dataOffset'[s] > 0 =>
           \A d : d = sending'[s] => Excused(d)'
    BY <1>2, <1>4, <1>15, <1>16, <2>1
  <2> QED BY <2>2, <2>3 DEF ExcusedAt
<1>21. ResendInv'
  <2>1. \A e \in aborted' : e \in 1..Len(sent')
    BY <1>7 DEF ResendInv
  <2> QED BY <1>17, <1>18, <1>19, <1>20, <2>1 DEF ResendInv
<1> QED BY <1>14, <1>21

\* The rejection or the delivery becomes known (send_rejection, datagram_complete).
LEMMA FinishOutcome ==
    ASSUME FramesInv, OutcomeInv, ResendInv, SendRejection \/ DatagramComplete
    PROVE  OutcomeInv' /\ ResendInv'
<1>1. /\ UNCHANGED <<sent, sending, dataOffset, queue, aborted, pendingBuffers>>
      /\ parser' = "entry"
  BY DEF SendRejection, DatagramComplete
<1>2. Known /\ Reasons /\ frame.d \in 1..Len(sent)
  BY DEF OutcomeInv, ResendInv, Known, SendRejection, DatagramComplete
<1>3. /\ \A d : (Refused(d)' <=> Refused(d)) /\ (Passed(d)' <=> Passed(d))
      /\ \A r \in rejected' : \/ r \in rejected
                              \/ r[1] = frame.d
                                 /\ (r[2] = "RESEND_OK" => parser = "send_rejection_out_of_order")
      /\ \A x \in delivered' : x \in delivered \/ x.d = frame.d
  <2>1. CASE SendRejection
    <3> DEFINE code == IF parser = "send_rejection_permanent"
                       THEN "PERMANENT_ERROR" ELSE "RESEND_OK"
    <3>1. /\ parser \in Refusals /\ delivered' = delivered
          /\ rejected' = rejected \cup {<<frame.d, code>>}
      BY <2>1 DEF SendRejection, Refusals
    <3>2. code = "RESEND_OK" => parser = "send_rejection_out_of_order"
      BY <3>1 DEF Refusals
    <3> HIDE DEF code
    <3>3. ASSUME NEW d PROVE Refused(d)' <=> Refused(d)
      <4> DEFINE x == <<frame.d, code>>
      <4>1. x[1] = frame.d /\ rejected' = rejected \cup {x}
        BY <3>1
      <4> HIDE DEF x
      <4>2. (\E r \in rejected' : r[1] = d) <=> (\E r \in rejected : r[1] = d) \/ frame.d = d
        BY <4>1
      <4> QED BY <1>1, <3>1, <4>2 DEF Refused, Refusals
    <3>4. \A d : Passed(d)' <=> Passed(d)
      BY <1>1, <3>1 DEF Passed, WasDelivered, Refusals
    <3> QED BY <3>1, <3>2, <3>3, <3>4
  <2>2. CASE DatagramComplete
    <3>1. /\ parser = "datagram_complete" /\ rejected' = rejected
          /\ delivered' = delivered \cup {[d |-> frame.d, payload |-> localBuffer]}
      BY <2>2 DEF DatagramComplete
    <3>2. \A d : Refused(d)' <=> Refused(d)
      BY <1>1, <3>1 DEF Refused, Refusals
    <3>3. ASSUME NEW d PROVE Passed(d)' <=> Passed(d)
      <4> DEFINE x == [d |-> frame.d, payload |-> localBuffer]
      <4>1. x.d = frame.d /\ delivered' = delivered \cup {x}
        BY <3>1
      <4> HIDE DEF x
      <4>2. WasDelivered(d)' <=> WasDelivered(d) \/ frame.d = d
        BY <4>1 DEF WasDelivered
      <4> QED BY <1>1, <3>1, <4>2 DEF Passed
    <3> QED BY <3>1, <3>2, <3>3
  <2> QED BY <2>1, <2>2
<1>4. Known'
  BY <1>1, <1>2, <1>3 DEF Known
<1>5. \A t \in Senders : FlowInv(t)' /\ OwnedAt(t)' /\ ExcusedAt(t)'
  <2> TAKE t \in Senders
  <2>1. FlowInv(t) /\ OwnedAt(t) /\ ExcusedAt(t)
    BY DEF OutcomeInv, ResendInv
  <2>2. FlowInv(t)'
    BY <1>1, <2>1 DEF FlowInv, MineAt, OrderedAt, ContinuedAt
  <2>3. OwnedAt(t)' /\ ExcusedAt(t)'
    BY <1>1, <2>1 DEF OwnedAt, ExcusedAt, Excused, Coming, Behind
  <2> QED BY <2>2, <2>3
<1>6. \A d \in 1..Len(sent) : OutcomeAt(d)'
  <2> TAKE d \in 1..Len(sent)
  <2>1. OutcomeAt(d) /\ (Refused(d)' <=> Refused(d)) /\ (Passed(d)' <=> Passed(d))
    BY <1>3 DEF OutcomeInv
  <2>2. \A t : (Coming(t, d)' <=> Coming(t, d)) /\ (Behind(t, d)' <=> Behind(t, d))
    BY <1>1 DEF Coming, Behind
  <2> QED BY <1>1, <2>1, <2>2 DEF OutcomeAt
<1>7. Reasons'
  <2>1. \A r \in rejected' : r[2] = "RESEND_OK" => Excused(r[1])
    BY <1>2, <1>3 DEF Reasons
  <2>2. \A d : Excused(d) => Excused(d)'
    BY <1>1 DEF Excused
  <2> QED BY <1>1, <2>1, <2>2 DEF Reasons
<1> QED BY <1>1, <1>4, <1>5, <1>6, <1>7 DEF OutcomeInv, ResendInv

OutcomesInv == FramesInv /\ OutcomeInv /\ ResendInv

\* Every step keeps the three of them.
LEMMA OutcomesStep == OutcomesInv /\ [Next]_vars => OutcomesInv'
<1> SUFFICES ASSUME OutcomesInv, [Next]_vars PROVE OutcomesInv'
  OBVIOUS
<1>1. FramesInv /\ OutcomeInv /\ ResendInv /\ FramesInv'
  BY FramesStep DEF OutcomesInv
<1> SUFFICES OutcomeInv' /\ ResendInv'
  BY <1>1 DEF OutcomesInv
<1>2. CASE UNCHANGED vars
  <2>1. UNCHANGED <<sent, sending, dataOffset, queue, aborted, pendingBuffers, parser, frame,
                    delivered, rejected>>
    BY <1>2 DEF vars
  <2>2. Known' /\ \A s \in Senders : FlowInv(s)'
    <3>1. Known'
      BY <1>1, <2>1 DEF OutcomeInv, Known
    <3>2. ASSUME NEW s \in Senders PROVE FlowInv(s)'
      <4>1. MineAt(s) /\ OrderedAt(s) /\ ContinuedAt(s)
        BY <1>1 DEF OutcomeInv, FlowInv
      <4>2. MineAt(s)'
        BY <2>1, <4>1 DEF MineAt
      <4>3. OrderedAt(s)'
        BY <2>1, <4>1 DEF OrderedAt
      <4>4. ContinuedAt(s)'
        BY <2>1, <4>1 DEF ContinuedAt
      <4> QED BY <4>2, <4>3, <4>4 DEF FlowInv
    <3> QED BY <3>1, <3>2
  <2>3. \A d : /\ (Refused(d)' <=> Refused(d)) /\ (Passed(d)' <=> Passed(d))
               /\ \A s : (Coming(s, d)' <=> Coming(s, d)) /\ (Behind(s, d)' <=> Behind(s, d))
    BY <2>1 DEF Refused, Passed, WasDelivered, Coming, Behind
  <2>4. ASSUME NEW d \in 1..Len(sent') PROVE OutcomeAt(d)'
    <3>1. OutcomeAt(d)
      BY <1>1, <2>1, <2>4 DEF OutcomeInv
    <3>2. sent'[d] = sent[d] /\ aborted' = aborted /\ pendingBuffers' = pendingBuffers
      BY <2>1
    <3> QED BY <2>3, <3>1, <3>2 DEF OutcomeAt
  <2>5. OutcomeInv'
    BY <2>2, <2>4 DEF OutcomeInv
  <2>6. ResendInv'
    <3>1. \A s \in Senders : OwnedAt(s)'
      BY <1>1, <2>1, <2>3 DEF ResendInv, OwnedAt
    <3>2. \A s \in Senders : ExcusedAt(s)'
      BY <1>1, <2>1 DEF ResendInv, ExcusedAt, Excused
    <3>3. Reasons' /\ \A e \in aborted' : e \in 1..Len(sent')
      BY <1>1, <2>1 DEF ResendInv, Reasons, Excused
    <3> QED BY <3>1, <3>2, <3>3 DEF ResendInv
  <2> QED BY <2>5, <2>6
<1>3. ASSUME NEW s \in Senders, NEW size \in Sizes, SendToHardware(s, size)
      PROVE  OutcomeInv' /\ ResendInv'
  BY <1>1, <1>3, SendOutcome
<1>4. ASSUME NEW s \in Senders, FillFrame(s) \/ Restart(s) \/ ParserEntry(s)
      PROVE  OutcomeInv' /\ ResendInv'
  BY <1>1, <1>4, FillOutcome, RestartOutcome, ParserOutcome
<1>5. CASE SendRejection \/ DatagramComplete
  BY <1>1, <1>5, FinishOutcome
<1> QED BY <1>2, <1>3, <1>4, <1>5 DEF Next

\* Nothing has been sent, nothing is coming.
LEMMA OutcomesInit == Init => OutcomesInv
<1> SUFFICES ASSUME Init PROVE OutcomeInv /\ ResendInv
  BY FramesInit DEF OutcomesInv
<1>1. /\ sent = << >> /\ Len(sent) = 0 /\ aborted = {} /\ rejected = {} /\ delivered = {}
      /\ parser = "entry" /\ 1..Len(sent) = {}
  BY DEF Init
<1>2. ASSUME NEW s \in Senders PROVE FlowInv(s) /\ OwnedAt(s) /\ ExcusedAt(s)
  <2>1. /\ queue[s] = << >> /\ sending[s] = 0 /\ dataOffset[s] = 0 /\ pendingBuffers[s] = {}
        /\ 1..Len(queue[s]) = {}
    BY DEF Init
  <2>2. OwnedAt(s) /\ ExcusedAt(s)
    BY <2>1 DEF OwnedAt, ExcusedAt
  <2>3. MineAt(s) /\ OrderedAt(s) /\ ContinuedAt(s)
    BY <2>1, Zenon DEF MineAt, OrderedAt, ContinuedAt
  <2> QED BY <2>2, <2>3 DEF FlowInv
<1>3. Known /\ Reasons
  BY <1>1 DEF Known, Reasons
<1> QED BY <1>1, <1>2, <1>3 DEF OutcomeInv, ResendInv

\* A datagram of which nothing is on its way any more is settled, one way.
LEMMA OutcomesGoal == OutcomesInv => DeliveredOrRejected
<1> SUFFICES ASSUME OutcomesInv, NEW d \in 1..Len(sent), Handled(d)
             PROVE  WasDelivered(d) <=> Codes(d) = {}
  BY DEF DeliveredOrRejected
<1>1. OutcomeAt(d) /\ d \notin aborted /\ frame.d # d
  BY DEF OutcomesInv, OutcomeInv, Handled
<1>2. sent[d].src \in Senders
  <2>1. sent[d] \in Sent
    BY ElementOfSeq DEF OutcomesInv, FramesInv, DataTypes
  <2> QED BY <2>1 DEF Sent
<1>3. ~Coming(sent[d].src, d)
  BY <1>2 DEF Handled, Coming, Elems
<1>4. Codes(d) = {} <=> ~\E r \in rejected : r[1] = d
  BY DEF Codes
<1>5. /\ Refused(d) <=> \E r \in rejected : r[1] = d
      /\ Passed(d) <=> WasDelivered(d)
  BY <1>1 DEF Refused, Passed
<1> QED BY <1>1, <1>3, <1>4, <1>5 DEF OutcomeAt

\* Only what has a reason is asked to be sent again.
LEMMA ReasonsGoal == OutcomesInv => ResendOnlyAfterRestart
BY DEF OutcomesInv, ResendInv, Reasons, Excused, ResendOnlyAfterRestart, Codes

\* A datagram all of whose frames the parser has handled was either handed to the
\* dispatcher or rejected, and never both, whatever the other senders do
\* (CanDatagramParser::entry, send_rejection, datagram_complete).
THEOREM EveryDatagramIsSettled == Spec => []DeliveredOrRejected
BY OutcomesInit, OutcomesStep, OutcomesGoal, PTL DEF Spec

\* The parser asks to send again only after the sender has restarted inside an
\* earlier datagram: a buffer that is left behind is never of a datagram that was
\* sent to its end (CanDatagramParser::entry).
THEOREM ResendHasReason == Spec => []ResendOnlyAfterRestart
BY OutcomesInit, OutcomesStep, ReasonsGoal, PTL DEF Spec
=============================================================================

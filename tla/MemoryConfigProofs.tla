------------------------- MODULE MemoryConfigProofs -------------------------
(***************************************************************************)
(* For any number of nodes, requests, datagram clients and faults, and for *)
(* memory spaces and datagrams of any size: the bytes a client has         *)
(* collected are those of the addresses it asked for, in order.            *)
(*                                                                         *)
(* The client takes a late reply of an earlier request for the reply to    *)
(* the current one.  It is right all the same because every reply carries  *)
(* its bytes in order from its own address on (Reply), the client takes    *)
(* only a reply of the address it has come to, and that address is as far  *)
(* from the first one as it has bytes (ClientInv).                         *)
(*                                                                         *)
(* For two nodes, with any requests and faults: a read that returns        *)
(* without an error has read all there is, and a write has written all of  *)
(* its bytes, unless something of an earlier exchange is still under way.  *)
(***************************************************************************)
EXTENDS MemoryConfig, SequenceTheorems, TLAPS

Spaces == {"rw", "ro", "unknown"}
Byte == (0..SpaceSize - 1) \X Nat

InOrder(bytes, addr) == \A i \in 1..Len(bytes) : bytes[i][1] = addr + i - 1

Errors == {"none", "failed", "ERROR_OUT_OF_BOUNDS"}
Outcomes == {"ok", "ok_reply_pending", "rejected"}
Ack == [src : Nodes, outcome : Outcomes]
Command == [kind : {"READ", "WRITE", "META"}, src : Nodes, space : Spaces,
            addr : Nat, len : Nat, id : Nat]
Reply == {m \in [kind : {"READ_REPLY", "READ_FAILED", "WRITE_REPLY", "WRITE_FAILED"},
                 src : Nodes, space : Spaces, addr : Nat, error : Errors,
                 bytes : Seq(Byte)] : InOrder(m.bytes, m.addr)}

ClientPcs == {"idle", "alloc", "send", "write_datagram", "wait_dg", "complete", "sleep"}
Reqs == Requests \cup {[cmd |-> "none"]}
Outs == Command \cup {NoReply}
Dgs == Outcomes \cup {"none", "timeout", "DST_REBOOT"}
Codes == {"pending", "none"}
Resps == Reply \cup {NoReply}
Timers == {"idle", "active", "expired", "notified"}
Results == Dgs \cup Errors \cup {"pending", "out_of_order"}
Bads == {"none", "trigger"}

ClientState ==
    [pc : ClientPcs, req : Reqs, id : Nat, left : Nat, offset : Nat,
     payloadOffset : Nat, writeLength : Nat, payload : Seq(Byte), out : Outs,
     dg : Dgs, code : Codes, resp : Resps, isWaitingForTimer : BOOLEAN,
     timer : Timers, triggered : BOOLEAN, result : Results, clean : BOOLEAN,
     bad : Bads]

\* The client has come as far from the first address as it has bytes.
ClientInv(c) ==
    /\ c.pc # "idle" => c.req \in Requests
    /\ c.pc = "write_datagram" => c.out \in Command
    /\ c.pc = "alloc" => c.payload = << >>
    /\ c.pc = "idle" => c.resp = NoReply
    /\ c.pc = "sleep" => c.req.cmd # "META"
    /\ c.pc \in {"write_datagram", "wait_dg", "complete", "sleep"} /\ c.code # "pending" =>
          c.resp \in Reply
    /\ c.pc \notin {"idle", "alloc"} =>
          /\ c.req.cmd = "READ" => c.offset = c.req.addr + Len(c.payload)
          /\ c.req.cmd = "WRITE" =>
                /\ c.payloadOffset <= c.req.size
                /\ c.pc # "send" => c.payloadOffset + c.writeLength <= c.req.size
    /\ c.resp.kind \in {"READ_REPLY", "READ_FAILED"} => c.req.cmd = "READ"
    /\ c.resp.kind \in {"WRITE_REPLY", "WRITE_FAILED"} => c.req.cmd = "WRITE"
    /\ InOrder(c.payload, c.req.addr)

ClientOK(c) == c \in ClientState /\ ClientInv(c)

HandlerPcs == {"idle", "try", "alloc", "send", "wait_dg"}

HandlerState ==
    [pc : HandlerPcs, msg : Outs, currentOffset : Nat, bytes : Seq(Byte),
     response : Resps, client : BOOLEAN]

\* The handler has read as many bytes as its offset says, in order.
HandlerInv(h) ==
    /\ h.pc # "idle" => h.msg \in Command
    /\ h.pc = "idle" => h.bytes = << >>
    /\ h.pc = "try" /\ h.msg.kind = "READ" =>
          Len(h.bytes) = h.currentOffset /\ InOrder(h.bytes, h.msg.addr)
    /\ h.pc \in {"alloc", "send"} => h.response \in Reply

HandlerOK(h) == h \in HandlerState /\ HandlerInv(h)

Clients == cli \in [Nodes -> ClientState] /\ \A n \in Nodes : ClientInv(cli[n])
Handlers == hnd \in [Nodes -> HandlerState] /\ \A n \in Nodes : HandlerInv(hnd[n])
Queues == /\ hq \in [Nodes -> Seq(Command \cup Reply)]
          /\ rq \in [Nodes -> Seq(Reply)] /\ dgs \in [Nodes -> Seq(Reply)]
          /\ acks \in [Nodes -> Seq(Ack)]
Memory == mem \in [Nodes -> [0..SpaceSize - 1 -> Nat]]
Counters == asked \in Nat

BytesInv == Clients /\ Handlers /\ Queues /\ Memory /\ Counters
-----------------------------------------------------------------------------
\* Bytes appended from where the first ones end are in order with them.
LEMMA InOrderConcat ==
    ASSUME NEW s \in Seq(Byte), NEW t \in Seq(Byte), NEW a \in Nat,
           InOrder(s, a), InOrder(t, a + Len(s))
    PROVE  s \o t \in Seq(Byte) /\ InOrder(s \o t, a)
<1>1. /\ s \o t \in Seq(Byte) /\ Len(s \o t) = Len(s) + Len(t)
      /\ \A i \in 1..Len(s) + Len(t) :
            (s \o t)[i] = IF i <= Len(s) THEN s[i] ELSE t[i - Len(s)]
  BY ConcatProperties
<1>2. Len(s) \in Nat /\ Len(t) \in Nat
  OBVIOUS
<1>3. ASSUME NEW i \in 1..Len(s \o t) PROVE (s \o t)[i][1] = a + i - 1
  <2>1. CASE i <= Len(s)
    BY <1>1, <1>2, <2>1 DEF InOrder
  <2>2. CASE i > Len(s)
    <3>1. i - Len(s) \in 1..Len(t)
      BY <1>1, <1>2, <2>2
    <3>2. t[i - Len(s)][1] = (a + Len(s)) + (i - Len(s)) - 1
      BY <3>1 DEF InOrder
    <3> QED BY <1>1, <1>2, <2>2, <3>2
  <2> QED BY <1>2, <2>1, <2>2
<1> QED BY <1>1, <1>3 DEF InOrder

\* An empty string of bytes is in order from any address.
LEMMA NothingInOrder == \A a : InOrder(<< >>, a) /\ << >> \in Seq(Byte)
BY DEF InOrder

\* A request has the fields of one.
LEMMA RequestType ==
    ASSUME NEW r \in Requests
    PROVE  /\ r.src \in Nodes /\ r.dst \in Nodes /\ r.addr \in Nat /\ r.size \in Nat
           /\ r.cmd \in {"READ", "WRITE", "META"} /\ r.space \in Spaces
<1>1. Whole \in Nat
  BY MemoryConfigAssumption DEF MemoryConfigAssumption, Whole
<1> QED BY <1>1, MemoryConfigAssumption DEF MemoryConfigAssumption, Spaces

\* A queue that gets one more or loses its first keeps its type.
LEMMA QueueUpdate ==
    ASSUME NEW S, NEW T, NEW q \in [S -> Seq(T)], NEW n \in S
    PROVE  /\ q[n] # << >> => Head(q[n]) \in T /\ [q EXCEPT ![n] = Tail(@)] \in [S -> Seq(T)]
           /\ \A m \in T : [q EXCEPT ![n] = Append(@, m)] \in [S -> Seq(T)]
           /\ [q EXCEPT ![n] = << >>] \in [S -> Seq(T)]
<1>1. q[n] \in Seq(T)
  OBVIOUS
<1>2. q[n] # << >> => Head(q[n]) \in T /\ Tail(q[n]) \in Seq(T)
  BY <1>1, HeadTailProperties
<1>3. \A m \in T : Append(q[n], m) \in Seq(T)
  BY <1>1, AppendProperties
<1>4. << >> \in Seq(T)
  OBVIOUS
<1> QED BY <1>2, <1>3, <1>4

\* A client that changes while the others do not.
LEMMA ClientUpdate ==
    ASSUME Clients, NEW n \in Nodes, NEW c, ClientOK(c), cli' = [cli EXCEPT ![n] = c]
    PROVE  Clients'
BY DEF Clients, ClientOK

\* A handler that changes while the others do not.
LEMMA HandlerUpdate ==
    ASSUME Handlers, NEW n \in Nodes, NEW h, HandlerOK(h), hnd' = [hnd EXCEPT ![n] = h]
    PROVE  Handlers'
BY DEF Handlers, HandlerOK

\* The values the steps assign are of the types of their fields.
LEMMA Values ==
    /\ "idle" \in ClientPcs /\ "alloc" \in ClientPcs /\ "send" \in ClientPcs
    /\ "write_datagram" \in ClientPcs /\ "wait_dg" \in ClientPcs
    /\ "complete" \in ClientPcs /\ "sleep" \in ClientPcs
    /\ "idle" \in Timers /\ "active" \in Timers /\ "expired" \in Timers
    /\ "notified" \in Timers
    /\ "pending" \in Codes /\ "none" \in Codes
    /\ "none" \in Bads /\ "trigger" \in Bads
    /\ "none" \in Dgs /\ "timeout" \in Dgs /\ "DST_REBOOT" \in Dgs /\ "ok" \in Dgs
    /\ "none" \in Results /\ "timeout" \in Results /\ "ok" \in Results
    /\ "out_of_order" \in Results /\ "pending" \in Results
    /\ \A d \in Dgs : d \in Results
    /\ \A e \in Errors : e \in Results
    /\ NoReply \in Resps /\ NoReply \in Outs
    /\ \A m \in Reply : m \in Resps
    /\ \A m \in Command : m \in Outs
    /\ \A r \in Requests : r \in Reqs
BY DEF ClientPcs, Timers, Codes, Bads, Dgs, Results, Outcomes, Errors, Resps, Outs, Reqs

\* The state before the first request, and after a reboot.
LEMMA IdleOK == ClientOK(IdleClient) /\ HandlerOK(IdleHandler)
<1>1. [cmd |-> "none"] \in Reqs /\ "idle" \in HandlerPcs
  BY DEF Reqs, HandlerPcs
<1>2. IdleClient \in ClientState
  BY <1>1, Values, NothingInOrder DEF ClientState, IdleClient
<1>3. IdleHandler \in HandlerState
  BY <1>1, Values, NothingInOrder DEF HandlerState, IdleHandler
<1>4. ClientInv(IdleClient) /\ HandlerInv(IdleHandler)
  BY NothingInOrder DEF ClientInv, HandlerInv, IdleClient, IdleHandler, NoReply
<1> QED BY <1>2, <1>3, <1>4 DEF ClientOK, HandlerOK
-----------------------------------------------------------------------------
(* The client. *)

\* The flow returns: the bytes stay, everything else is cleared.
LEMMA ReturnOK ==
    ASSUME NEW c \in ClientState, NEW r \in Results, InOrder(c.payload, c.req.addr)
    PROVE  ClientOK(Return(c, r))
<1> DEFINE c1 == [c EXCEPT !.pc = "idle", !.result = r, !.resp = NoReply, !.dg = "none"]
           c2 == [c1 EXCEPT !.offset = 0, !.payloadOffset = 0, !.writeLength = 0]
           c3 == [c2 EXCEPT !.left = 0, !.code = "none", !.triggered = FALSE]
<1>1. /\ c1 \in ClientState
      /\ c1.pc = "idle" /\ c1.payload = c.payload /\ c1.req = c.req /\ c1.resp = NoReply
  BY Values DEF ClientState
<1>2. /\ c2 \in ClientState
      /\ c2.pc = "idle" /\ c2.payload = c.payload /\ c2.req = c.req /\ c2.resp = NoReply
  <2> HIDE DEF c1
  <2> QED BY <1>1 DEF ClientState
<1>3. /\ c3 \in ClientState
      /\ c3.pc = "idle" /\ c3.payload = c.payload /\ c3.req = c.req /\ c3.resp = NoReply
  <2> HIDE DEF c2
  <2> QED BY <1>2, Values DEF ClientState
<1>4. Return(c, r) = c3
  BY DEF Return
<1> HIDE DEF c3
<1> QED BY <1>3, <1>4 DEF ClientOK, ClientInv, NoReply

\* A client that goes on changes its pc and nothing else.
LEMMA GoOn ==
    ASSUME NEW c \in ClientState, NEW p \in ClientPcs
    PROVE  LET d == [c EXCEPT !.pc = p]
           IN /\ d \in ClientState /\ d.pc = p
              /\ d.payload = c.payload /\ d.req = c.req /\ d.resp = c.resp
              /\ d.offset = c.offset /\ d.payloadOffset = c.payloadOffset
              /\ d.writeLength = c.writeLength /\ d.out = c.out
BY DEF ClientState

\* It returns with an error, or takes the end of the space for success.
LEMMA HandleErrorOK ==
    ASSUME NEW c \in ClientState, InOrder(c.payload, c.req.addr), NEW e \in Results
    PROVE  ClientOK(HandleError(c, e))
<1>1. (IF e = "ERROR_OUT_OF_BOUNDS" THEN "ok" ELSE e) \in Results
  BY Values
<1> QED BY <1>1, ReturnOK DEF HandleError

\* The reply to a datagram, or the end of the wait for it.
LEMMA ResponseOK ==
    ASSUME NEW c, ClientOK(c), c.pc \in {"complete", "sleep"},
           c.req.cmd # "META"
    PROVE  ClientOK(Response(c))
<1> DEFINE done == [c EXCEPT !.timer = "idle"]
           read == [done EXCEPT !.payload = @ \o c.resp.bytes,
                                !.offset = @ + Len(c.resp.bytes)]
           written == [done EXCEPT !.offset = @ + c.writeLength,
                                   !.payloadOffset = @ + c.writeLength]
<1>1. /\ c \in ClientState /\ ClientInv(c) /\ c.req \in Requests
      /\ c.code # "pending" => c.resp \in Reply
  BY DEF ClientOK, ClientInv
<1>0. /\ done \in ClientState /\ done.payload = c.payload /\ done.req = c.req
      /\ done.resp = c.resp /\ done.offset = c.offset
      /\ done.payloadOffset = c.payloadOffset /\ done.writeLength = c.writeLength
  BY <1>1, Values DEF ClientState
<1>2. done \in ClientState /\ InOrder(done.payload, done.req.addr)
  <2>1. done.payload = c.payload /\ done.req = c.req
    BY <1>1 DEF ClientState
  <2> QED BY <1>0, <1>1, <2>1 DEF ClientInv
<1>3. /\ [done EXCEPT !.clean = FALSE] \in ClientState
      /\ InOrder([done EXCEPT !.clean = FALSE].payload, [done EXCEPT !.clean = FALSE].req.addr)
  <2> HIDE DEF done
  <2>1. LET d == [done EXCEPT !.clean = FALSE]
        IN d \in ClientState /\ d.payload = done.payload /\ d.req = done.req
    BY <1>2 DEF ClientState
  <2> QED BY <1>2, <2>1
<1>4. CASE c.code = "pending" \/ (c.isWaitingForTimer /\ ~c.triggered)
  <2>1. Response(c) = HandleError([done EXCEPT !.clean = FALSE], "timeout")
    BY <1>4 DEF Response
  <2> HIDE DEF done
  <2> QED BY <1>3, <2>1, HandleErrorOK, Values
<1>5. CASE ~(c.code = "pending" \/ (c.isWaitingForTimer /\ ~c.triggered))
  <2>0. c.resp \in Reply
    BY <1>1, <1>5
  <2>1. CASE ~IsReplyTo(c, c.resp)
    <3>1. Response(c) = HandleError(done, "out_of_order")
      BY <1>5, <2>1 DEF Response
    <3> HIDE DEF done
    <3> QED BY <1>2, <3>1, HandleErrorOK, Values
  <2>2. CASE IsReplyTo(c, c.resp) /\ c.resp.kind \in {"READ_FAILED", "WRITE_FAILED"}
    <3>1. Response(c) = HandleError(done, c.resp.error)
      BY <1>5, <2>2 DEF Response
    <3>2. c.resp.error \in Errors
      BY <2>0 DEF Reply
    <3> HIDE DEF done
    <3> QED BY <1>2, <3>1, <3>2, HandleErrorOK, Values
  <2>3. CASE IsReplyTo(c, c.resp) /\ c.resp.kind = "READ_REPLY"
    <3>1. /\ c.req.cmd = "READ" /\ c.offset = c.req.addr + Len(c.payload)
          /\ c.resp.addr = c.offset
      BY <1>1, <2>3 DEF ClientInv, IsReplyTo
    <3>2. /\ c.resp.bytes \in Seq(Byte) /\ InOrder(c.resp.bytes, c.resp.addr)
          /\ c.payload \in Seq(Byte) /\ InOrder(c.payload, c.req.addr)
          /\ c.req.addr \in Nat
      BY <1>1, <2>0, RequestType DEF Reply, ClientState, ClientInv
    <3>3. /\ c.payload \o c.resp.bytes \in Seq(Byte)
          /\ InOrder(c.payload \o c.resp.bytes, c.req.addr)
      BY <3>1, <3>2, InOrderConcat
    <3>4. Len(c.payload \o c.resp.bytes) = Len(c.payload) + Len(c.resp.bytes)
      BY <3>2
    <3>5. Len(c.payload) \in Nat /\ Len(c.resp.bytes) \in Nat
      BY <3>2
    <3>6. /\ read \in ClientState
          /\ read.payload = c.payload \o c.resp.bytes
          /\ read.offset = c.offset + Len(c.resp.bytes) /\ read.req = c.req
          /\ read.resp = c.resp
      <4>1. done.offset \in Nat
        BY <1>1 DEF ClientState
      <4> HIDE DEF done
      <4>2. done.offset + Len(c.resp.bytes) \in Nat
        BY <3>5, <4>1
      <4>3. done.payload \o c.resp.bytes \in Seq(Byte)
        BY <1>0, <3>3
      <4>4. /\ read \in ClientState
            /\ read.payload = done.payload \o c.resp.bytes
            /\ read.offset = done.offset + Len(c.resp.bytes) /\ read.req = done.req
            /\ read.resp = done.resp
        <5> DEFINE p == done.payload \o c.resp.bytes
                   o == done.offset + Len(c.resp.bytes)
        <5>1. read = [done EXCEPT !.payload = p, !.offset = o]
          OBVIOUS
        <5>2. p \in Seq(Byte) /\ o \in Nat
          BY <4>2, <4>3
        <5>3. p = done.payload \o c.resp.bytes /\ o = done.offset + Len(c.resp.bytes)
          OBVIOUS
        <5> HIDE DEF p, o
        <5> DEFINE d == [done EXCEPT !.payload = p, !.offset = o]
        <5>4. d \in ClientState /\ d.payload = p /\ d.offset = o /\ d.req = done.req
              /\ d.resp = done.resp
          BY <1>0, <5>2 DEF ClientState
        <5>5. read = d
          BY <5>1
        <5> HIDE DEF read, d
        <5> QED BY <5>3, <5>4, <5>5
      <4> HIDE DEF read
      <4> QED BY <1>0, <4>4
    <3>7. ClientOK(Return(read, "ok"))
      <4> HIDE DEF read
      <4> QED BY <3>3, <3>6, ReturnOK, Values
    <3>8. ClientOK([read EXCEPT !.pc = "send"])
      <4>1. read.offset = read.req.addr + Len(read.payload)
        <5> HIDE DEF read
        <5>1. \A x, y, z \in Nat : (x + y) + z = x + (y + z)
          OBVIOUS
        <5>2. read.offset = (c.req.addr + Len(c.payload)) + Len(c.resp.bytes)
          BY <3>1, <3>6
        <5>3. read.req.addr + Len(read.payload)
                = c.req.addr + (Len(c.payload) + Len(c.resp.bytes))
          BY <3>4, <3>6
        <5>4. c.req.addr \in Nat
          BY <3>2
        <5> QED BY <3>5, <5>1, <5>2, <5>3, <5>4
      <4>2. read.req.cmd = "READ" /\ read.req \in Requests
        BY <1>1, <3>1, <3>6
      <4>3. InOrder(read.payload, read.req.addr)
        BY <3>3, <3>6
      <4>4. read.resp.kind = "READ_REPLY"
        BY <2>3, <3>6
      <4> HIDE DEF read
      <4> DEFINE d == [read EXCEPT !.pc = "send"]
      <4>5. /\ d \in ClientState /\ d.pc = "send" /\ d.payload = read.payload
            /\ d.req = read.req /\ d.resp = read.resp /\ d.offset = read.offset
        BY <3>6, GoOn, Values
      <4> HIDE DEF read, d
      <4>6. ClientOK(d)
        BY <4>1, <4>2, <4>3, <4>4, <4>5 DEF ClientOK, ClientInv
      <4> QED BY <4>6 DEF d
    <3>9. Response(c) \in {Return(read, "ok"), [read EXCEPT !.pc = "send"]}
      BY <1>5, <2>3 DEF Response
    <3> QED BY <3>7, <3>8, <3>9
  <2>4. CASE IsReplyTo(c, c.resp) /\ c.resp.kind = "WRITE_REPLY"
    <3>1. /\ written \in ClientState /\ written.payload = c.payload
          /\ written.req = c.req /\ written.resp = c.resp
          /\ written.payloadOffset = c.payloadOffset + c.writeLength
      <4>1. c.offset + c.writeLength \in Nat /\ c.payloadOffset + c.writeLength \in Nat
        BY <1>1 DEF ClientState
      <4> HIDE DEF done
      <4>2. done.offset + c.writeLength \in Nat /\ done.payloadOffset + c.writeLength \in Nat
        BY <1>0, <4>1
      <4>3. /\ written \in ClientState /\ written.payload = done.payload
            /\ written.req = done.req /\ written.resp = done.resp
            /\ written.payloadOffset = done.payloadOffset + c.writeLength
        <5>1. written = [done EXCEPT !.offset = done.offset + c.writeLength,
                                     !.payloadOffset = done.payloadOffset + c.writeLength]
          OBVIOUS
        <5> DEFINE o == done.offset + c.writeLength
                   q == done.payloadOffset + c.writeLength
        <5>2. o \in Nat /\ q \in Nat
          BY <4>2
        <5> HIDE DEF o, q, written
        <5>0. done \in ClientState
          BY <1>2
        <5>3. written = [done EXCEPT !.offset = o, !.payloadOffset = q]
          BY <5>1 DEF o, q
        <5>4. /\ written \in ClientState /\ written.payload = done.payload
              /\ written.payloadOffset = q /\ written.req = done.req
              /\ written.resp = done.resp
          BY <5>0, <5>2, <5>3 DEF ClientState
        <5> QED BY <5>4 DEF q
      <4> HIDE DEF written
      <4> QED BY <1>0, <4>3
    <3>2. c.req.cmd = "WRITE"
      BY <1>1, <2>4 DEF ClientInv
    <3>3. CASE c.req.cmd = "WRITE"
      <4>1. ClientOK(Return(written, "ok"))
        <5>1. InOrder(written.payload, written.req.addr)
          BY <1>1, <3>1 DEF ClientInv
        <5> HIDE DEF written
        <5> QED BY <3>1, <5>1, ReturnOK, Values
      <4>2. ClientOK([written EXCEPT !.pc = "send"])
        <5>1. written.payloadOffset <= written.req.size
          BY <1>1, <3>1, <3>3 DEF ClientInv
        <5>2. InOrder(written.payload, written.req.addr)
          BY <1>1, <3>1 DEF ClientInv
        <5>3. written.req.cmd = "WRITE" /\ written.req \in Requests
              /\ written.resp.kind = "WRITE_REPLY"
          BY <1>1, <2>4, <3>1, <3>3
        <5> HIDE DEF written
        <5> QED BY <3>1, <5>1, <5>2, <5>3, GoOn, Values DEF ClientOK, ClientInv
      <4>3. Response(c) \in {Return(written, "ok"), [written EXCEPT !.pc = "send"]}
        BY <1>5, <2>4 DEF Response
      <4> QED BY <4>1, <4>2, <4>3
    <3> QED BY <3>2, <3>3
  <2> QED BY <2>0, <2>1, <2>2, <2>3, <2>4 DEF Reply
<1> QED BY <1>4, <1>5

\* A request's first state, from an idle client.
LEMMA StartOK ==
    ASSUME NEW c, ClientOK(c), c.pc = "idle", NEW r \in Requests, NEW id \in Nat
    PROVE  ClientOK(Start(c, r, id))
<1> DEFINE c1 == [c EXCEPT !.pc = "alloc", !.req = r, !.left = r.size]
           c2 == [c1 EXCEPT !.payload = << >>, !.id = id]
           b == c.clean \/ Quiet
           c3 == [c2 EXCEPT !.result = "pending", !.clean = b]
<1>0. b \in BOOLEAN
  OBVIOUS
<1> HIDE DEF b
<1>1. c \in ClientState /\ c.resp = NoReply
  BY DEF ClientOK, ClientInv
<1>2. r.size \in Nat /\ r \in Reqs
  BY RequestType, Values
<1>3. c1 \in ClientState /\ c1.pc = "alloc" /\ c1.req = r /\ c1.resp = NoReply
  BY <1>1, <1>2, Values DEF ClientState
<1>4. /\ c2 \in ClientState /\ c2.pc = "alloc" /\ c2.req = r /\ c2.resp = NoReply
      /\ c2.payload = << >>
  <2> HIDE DEF c1
  <2> QED BY <1>3, NothingInOrder DEF ClientState
<1>5. /\ c3 \in ClientState /\ c3.pc = "alloc" /\ c3.req = r /\ c3.resp = NoReply
      /\ c3.payload = << >>
  <2> HIDE DEF c2
  <2> QED BY <1>0, <1>4, Values DEF ClientState
<1>6. ClientOK(c3)
  <2> HIDE DEF c3
  <2> QED BY <1>5, NothingInOrder DEF ClientOK, ClientInv, NoReply
<1>7. Start(c, r, id) = c3
  BY DEF Start, b
<1> QED BY <1>6, <1>7

\* A datagram client is there: the first datagram starts at the address.
LEMMA DoRequestOK ==
    ASSUME NEW c, ClientOK(c), c.pc = "alloc"
    PROVE  ClientOK([c EXCEPT !.pc = "send", !.payloadOffset = 0, !.offset = c.req.addr])
<1> DEFINE d == [c EXCEPT !.pc = "send", !.payloadOffset = 0, !.offset = c.req.addr]
<1>1. c \in ClientState /\ ClientInv(c) /\ c.req \in Requests /\ c.payload = << >>
  BY DEF ClientOK, ClientInv
<1>2. c.req.addr \in Nat /\ c.req.size \in Nat
  BY <1>1, RequestType
<1>3. /\ d \in ClientState /\ d.pc = "send" /\ d.payload = << >> /\ d.req = c.req
      /\ d.resp = c.resp /\ d.offset = c.req.addr /\ d.payloadOffset = 0
  BY <1>1, <1>2, Values DEF ClientState
<1>4. ClientOK(d)
  <2> HIDE DEF d
  <2> QED BY <1>1, <1>2, <1>3, NothingInOrder DEF ClientOK, ClientInv
<1> QED BY <1>4

\* A length is a number, and a write never runs past its payload.
LEMMA NextLengthOK ==
    ASSUME NEW c, ClientOK(c), c.pc = "send"
    PROVE  /\ NextLength(c) \in Nat
           /\ c.req.cmd = "WRITE" => c.payloadOffset + NextLength(c) <= c.req.size
           /\ c.req.cmd = "READ" => Left(c) \in Nat
<1>1. /\ c.left \in Nat /\ c.payloadOffset \in Nat /\ c.req \in Requests
      /\ c.req.cmd = "WRITE" => c.payloadOffset <= c.req.size
  BY DEF ClientOK, ClientInv, ClientState
<1>2. c.req.size \in Nat
  BY <1>1, RequestType
<1>3. Chunk \in Nat /\ Whole \in Nat
  BY MemoryConfigAssumption DEF MemoryConfigAssumption, Whole
<1>4. \A k, l \in Nat : Smaller(k, l) \in Nat /\ Smaller(k, l) <= k
  BY DEF Smaller
<1>5. CASE c.req.cmd = "WRITE"
  <2>1. c.req.size - c.payloadOffset \in Nat
    BY <1>1, <1>2, <1>5
  <2>2. NextLength(c) = Smaller(c.req.size - c.payloadOffset, Chunk)
    BY <1>5 DEF NextLength
  <2>3. /\ Smaller(c.req.size - c.payloadOffset, Chunk) \in Nat
        /\ Smaller(c.req.size - c.payloadOffset, Chunk) <= c.req.size - c.payloadOffset
    BY <1>3, <1>4, <2>1
  <2> QED BY <1>1, <1>2, <1>5, <2>2, <2>3
<1>6. CASE c.req.cmd # "WRITE"
  <2>1. NextLength(c) = Smaller(c.left, Chunk)
    BY <1>6 DEF NextLength
  <2>2. Smaller(c.left, Chunk) \in Nat /\ Smaller(c.left, Chunk) <= c.left
    BY <1>1, <1>3, <1>4
  <2>3. Left(c) \in Nat
    BY <1>1, <1>3, <2>1, <2>2 DEF Left
  <2> QED BY <1>6, <2>1, <2>2, <2>3
<1> QED BY <1>5, <1>6

\* The next datagram, with the length it asks for or carries.
LEMMA SendDatagramOK ==
    ASSUME NEW n \in Nodes, NEW c, ClientOK(c), c.pc = "send"
    PROVE  LET d == [kind |-> c.req.cmd, src |-> n, space |-> c.req.space,
                     addr |-> c.offset, len |-> NextLength(c), id |-> c.id]
           IN ClientOK([c EXCEPT !.pc = "write_datagram", !.out = d,
                                 !.left = IF c.req.cmd = "READ" THEN Left(c) ELSE @,
                                 !.writeLength = NextLength(c),
                                 !.isWaitingForTimer = FALSE, !.code = "pending"])
<1> DEFINE d == [kind |-> c.req.cmd, src |-> n, space |-> c.req.space,
                 addr |-> c.offset, len |-> NextLength(c), id |-> c.id]
           left == IF c.req.cmd = "READ" THEN Left(c) ELSE c.left
           c1 == [c EXCEPT !.pc = "write_datagram", !.out = d, !.left = left]
           c2 == [c1 EXCEPT !.writeLength = NextLength(c),
                            !.isWaitingForTimer = FALSE, !.code = "pending"]
<1>1. c \in ClientState /\ ClientInv(c) /\ c.req \in Requests
  BY DEF ClientOK, ClientInv
<1>2. /\ NextLength(c) \in Nat
      /\ c.req.cmd = "WRITE" => c.payloadOffset + NextLength(c) <= c.req.size
  BY NextLengthOK
<1>3. left \in Nat
  BY <1>1, NextLengthOK DEF ClientState
<1>4. d \in Command
  <2>1. c.offset \in Nat /\ c.id \in Nat
    BY <1>1 DEF ClientState
  <2> QED BY <1>1, <1>2, <2>1, RequestType DEF Command
<1> HIDE DEF d, left
<1>5. /\ c1 \in ClientState /\ c1.pc = "write_datagram" /\ c1.out = d
      /\ c1.req = c.req /\ c1.payload = c.payload /\ c1.resp = c.resp
      /\ c1.offset = c.offset /\ c1.payloadOffset = c.payloadOffset
  BY <1>1, <1>3, <1>4, Values DEF ClientState
<1>6. /\ c2 \in ClientState /\ c2.pc = "write_datagram" /\ c2.out = d
      /\ c2.req = c.req /\ c2.payload = c.payload /\ c2.resp = c.resp
      /\ c2.offset = c.offset /\ c2.payloadOffset = c.payloadOffset
      /\ c2.writeLength = NextLength(c) /\ c2.code = "pending"
  <2> HIDE DEF c1
  <2> QED BY <1>2, <1>5, Values DEF ClientState
<1>7. ClientOK(c2)
  <2> HIDE DEF c2
  <2> QED BY <1>1, <1>2, <1>4, <1>6 DEF ClientOK, ClientInv
<1> QED BY <1>7 DEF d, left

\* The datagram is under way.
LEMMA WriteDatagramOK ==
    ASSUME NEW c, ClientOK(c), c.pc = "write_datagram"
    PROVE  ClientOK([c EXCEPT !.pc = "wait_dg", !.out = NoReply]) /\ c.out \in Command
<1> DEFINE d == [c EXCEPT !.pc = "wait_dg", !.out = NoReply]
<1>1. c \in ClientState /\ ClientInv(c)
  BY DEF ClientOK
<1>2. /\ d \in ClientState /\ d.pc = "wait_dg" /\ d.req = c.req /\ d.payload = c.payload
      /\ d.resp = c.resp /\ d.offset = c.offset /\ d.payloadOffset = c.payloadOffset
      /\ d.writeLength = c.writeLength /\ d.code = c.code
  BY <1>1, Values DEF ClientState
<1>3. ClientOK(d)
  <2> HIDE DEF d
  <2> QED BY <1>1, <1>2 DEF ClientOK, ClientInv
<1> QED BY <1>1, <1>3 DEF ClientInv

\* The datagram has an outcome.
LEMMA OutcomeOK ==
    ASSUME NEW c, ClientOK(c), c.pc = "wait_dg", NEW o \in Dgs, NEW b \in BOOLEAN
    PROVE  /\ ClientOK([c EXCEPT !.pc = "complete", !.dg = o])
           /\ ClientOK([c EXCEPT !.pc = "complete", !.dg = o, !.clean = b])
<1> DEFINE d == [c EXCEPT !.pc = "complete", !.dg = o]
           e == [d EXCEPT !.clean = b]
<1>1. c \in ClientState /\ ClientInv(c)
  BY DEF ClientOK
<1>2. /\ d \in ClientState /\ d.pc = "complete" /\ d.req = c.req /\ d.payload = c.payload
      /\ d.resp = c.resp /\ d.offset = c.offset /\ d.payloadOffset = c.payloadOffset
      /\ d.writeLength = c.writeLength /\ d.code = c.code
  BY <1>1, Values DEF ClientState
<1>3. /\ e \in ClientState /\ e.pc = "complete" /\ e.req = c.req /\ e.payload = c.payload
      /\ e.resp = c.resp /\ e.offset = c.offset /\ e.payloadOffset = c.payloadOffset
      /\ e.writeLength = c.writeLength /\ e.code = c.code
  <2> HIDE DEF d
  <2> QED BY <1>2 DEF ClientState
<1>4. ClientOK(d)
  <2> HIDE DEF d
  <2> QED BY <1>1, <1>2 DEF ClientOK, ClientInv
<1>5. ClientOK(e)
  <2> HIDE DEF e
  <2> QED BY <1>1, <1>3 DEF ClientOK, ClientInv
<1> QED BY <1>4, <1>5

\* Flags and timers say nothing about the bytes.
LEMMA FlagsOK ==
    ASSUME NEW c, ClientOK(c), NEW t \in Timers, NEW b \in BOOLEAN, NEW x \in Bads
    PROVE  /\ ClientOK([c EXCEPT !.timer = t]) /\ ClientOK([c EXCEPT !.clean = b])
           /\ ClientOK([c EXCEPT !.timer = t, !.triggered = b])
           /\ ClientOK([c EXCEPT !.bad = x])
<1> DEFINE d1 == [c EXCEPT !.timer = t]
           d2 == [c EXCEPT !.clean = b]
           d3 == [d1 EXCEPT !.triggered = b]
           d4 == [c EXCEPT !.bad = x]
           Same(d) == /\ d \in ClientState /\ d.pc = c.pc /\ d.req = c.req
                      /\ d.payload = c.payload /\ d.resp = c.resp /\ d.out = c.out
                      /\ d.offset = c.offset /\ d.payloadOffset = c.payloadOffset
                      /\ d.writeLength = c.writeLength /\ d.code = c.code
<1>1. c \in ClientState /\ ClientInv(c)
  BY DEF ClientOK
<1>2. ASSUME NEW d, Same(d) PROVE ClientOK(d)
  BY <1>1, <1>2 DEF ClientOK, ClientInv
<1>3. Same(d1) /\ Same(d2) /\ Same(d4)
  <2>1. Same(d1)
    BY <1>1 DEF ClientState
  <2>2. Same(d2)
    BY <1>1 DEF ClientState
  <2>3. Same(d4)
    BY <1>1 DEF ClientState
  <2> QED BY <2>1, <2>2, <2>3
<1>4. Same(d3)
  <2> HIDE DEF d1
  <2> QED BY <1>3 DEF ClientState
<1> HIDE DEF Same
<1> QED BY <1>2, <1>3, <1>4

\* What follows the outcome of a datagram.
LEMMA CompletedOK ==
    ASSUME NEW c, ClientOK(c), c.pc = "complete"
    PROVE  ClientOK(Completed(c))
<1>1. /\ c \in ClientState /\ c.req \in Requests /\ InOrder(c.payload, c.req.addr)
      /\ ClientInv(c) /\ c.dg \in Dgs /\ c.dg \in Results
  BY Values DEF ClientOK, ClientInv, ClientState
<1>2. ClientOK(Return(c, "ok")) /\ ClientOK(Return(c, c.dg)) /\ ClientOK(HandleError(c, c.dg))
  BY <1>1, ReturnOK, HandleErrorOK, Values
<1>3. c.req.cmd # "META" => ClientOK(Response(c))
  BY ResponseOK
<1>4. ASSUME c.req.cmd # "META"
      PROVE  ClientOK([c EXCEPT !.pc = "sleep", !.isWaitingForTimer = TRUE,
                                !.timer = "active", !.triggered = FALSE])
  <2> DEFINE d1 == [c EXCEPT !.pc = "sleep", !.isWaitingForTimer = TRUE]
             d2 == [d1 EXCEPT !.timer = "active", !.triggered = FALSE]
  <2>1. /\ d1 \in ClientState /\ d1.pc = "sleep" /\ d1.req = c.req
        /\ d1.payload = c.payload /\ d1.resp = c.resp /\ d1.offset = c.offset
        /\ d1.payloadOffset = c.payloadOffset /\ d1.writeLength = c.writeLength
        /\ d1.code = c.code
    BY <1>1, Values DEF ClientState
  <2>2. ClientOK(d1)
    <3> HIDE DEF d1
    <3> QED BY <1>1, <1>4, <2>1 DEF ClientOK, ClientInv
  <2>3. ClientOK(d2)
    <3> HIDE DEF d1
    <3> QED BY <2>2, FlagsOK, Values
  <2> QED BY <2>3
<1>5. CASE c.req.cmd = "META"
  BY <1>2, <1>5 DEF Completed
<1>6. CASE c.req.cmd # "META" /\ c.dg \notin {"ok", "ok_reply_pending"}
  BY <1>2, <1>6 DEF Completed
<1>7. CASE c.req.cmd # "META" /\ c.dg \in {"ok", "ok_reply_pending"}
  <2>1. CASE c.req.cmd = "WRITE" /\ c.dg = "ok"
    BY <1>2, <1>7, <2>1 DEF Completed
  <2>2. CASE ~(c.req.cmd = "WRITE" /\ c.dg = "ok") /\ c.code = "pending"
    BY <1>4, <1>7, <2>2 DEF Completed
  <2>3. CASE ~(c.req.cmd = "WRITE" /\ c.dg = "ok") /\ c.code # "pending"
    BY <1>3, <1>7, <2>3 DEF Completed
  <2> QED BY <2>1, <2>2, <2>3
<1> QED BY <1>5, <1>6, <1>7

\* A reply that fits the request is kept, and wakes the client up.
LEMMA ResponseEntryOK ==
    ASSUME NEW c, ClientOK(c), NEW m \in Reply, Expected(c, m)
    PROVE  LET d == [c EXCEPT !.code = "none", !.resp = m]
           IN ClientOK(d) /\ ClientOK(Trigger(d))
<1> DEFINE d == [c EXCEPT !.code = "none", !.resp = m]
<1>1. c \in ClientState /\ ClientInv(c)
  BY DEF ClientOK
<1>2. /\ d \in ClientState /\ d.pc = c.pc /\ d.req = c.req /\ d.payload = c.payload
      /\ d.resp = m /\ d.offset = c.offset /\ d.payloadOffset = c.payloadOffset
      /\ d.writeLength = c.writeLength /\ d.out = c.out
  BY <1>1, Values DEF ClientState
<1>3. ClientOK(d)
  <2> HIDE DEF d
  <2> QED BY <1>1, <1>2 DEF ClientOK, ClientInv, Expected
<1> HIDE DEF d
<1>4. Trigger(d) \in {d, [d EXCEPT !.timer = "expired", !.triggered = TRUE],
                         [d EXCEPT !.bad = "trigger"]}
  BY DEF Trigger
<1>5. ClientOK([d EXCEPT !.timer = "expired", !.triggered = TRUE])
      /\ ClientOK([d EXCEPT !.bad = "trigger"])
  BY <1>3, FlagsOK, Values
<1> QED BY <1>3, <1>4, <1>5 DEF d
-----------------------------------------------------------------------------
(* The handler. *)

\* The values of the pc of a handler.
LEMMA HandlerValues ==
    /\ "idle" \in HandlerPcs /\ "try" \in HandlerPcs /\ "alloc" \in HandlerPcs
    /\ "send" \in HandlerPcs /\ "wait_dg" \in HandlerPcs
BY DEF HandlerPcs

\* The registration of a client, also across the end of a response.
LEMMA HandlerClientOK ==
    ASSUME NEW h, HandlerOK(h), NEW b \in BOOLEAN
    PROVE  /\ HandlerOK([h EXCEPT !.client = b])
           /\ HandlerOK([IdleHandler EXCEPT !.client = h.client])
<1> DEFINE d == [h EXCEPT !.client = b]
           e == [IdleHandler EXCEPT !.client = h.client]
<1>1. h \in HandlerState /\ HandlerInv(h) /\ h.client \in BOOLEAN
  BY DEF HandlerOK, HandlerState
<1>2. /\ d \in HandlerState /\ d.pc = h.pc /\ d.msg = h.msg /\ d.bytes = h.bytes
      /\ d.currentOffset = h.currentOffset /\ d.response = h.response
  BY <1>1 DEF HandlerState
<1>3. e \in HandlerState /\ e.pc = "idle" /\ e.bytes = << >>
  <2>1. IdleHandler \in HandlerState
    BY IdleOK DEF HandlerOK
  <2>2. IdleHandler.pc = "idle" /\ IdleHandler.bytes = << >>
    BY DEF IdleHandler
  <2> QED BY <1>1, <2>1, <2>2 DEF HandlerState
<1>4. HandlerOK(d)
  <2> HIDE DEF d
  <2> QED BY <1>1, <1>2 DEF HandlerOK, HandlerInv
<1>5. HandlerOK(e)
  <2> HIDE DEF e
  <2> QED BY <1>3 DEF HandlerOK, HandlerInv
<1> QED BY <1>4, <1>5

\* A command is accepted: nothing is read yet.
LEMMA AcceptOK ==
    ASSUME NEW h, HandlerOK(h), h.pc = "idle", NEW m \in Command
    PROVE  HandlerOK([h EXCEPT !.pc = "try", !.msg = m, !.currentOffset = 0])
<1> DEFINE d == [h EXCEPT !.pc = "try", !.msg = m, !.currentOffset = 0]
<1>1. h \in HandlerState /\ h.bytes = << >>
  BY DEF HandlerOK, HandlerInv
<1>2. /\ d \in HandlerState /\ d.pc = "try" /\ d.msg = m /\ d.bytes = << >>
      /\ d.currentOffset = 0
  BY <1>1, HandlerValues, Values DEF HandlerState
<1>3. HandlerOK(d)
  <2> HIDE DEF d
  <2> QED BY <1>2, NothingInOrder DEF HandlerOK, HandlerInv
<1> QED BY <1>3

\* A response carries what was read, in order from the address asked for.
LEMMA RespondOK ==
    ASSUME NEW n \in Nodes, NEW h \in HandlerState, h.msg \in Command,
           NEW k \in {"READ_REPLY", "READ_FAILED", "WRITE_REPLY", "WRITE_FAILED"},
           NEW e \in Errors, k = "READ_REPLY" => InOrder(h.bytes, h.msg.addr)
    PROVE  HandlerOK(Respond(n, h, k, e))
<1> DEFINE b == IF k = "READ_REPLY" THEN h.bytes ELSE << >>
           r == [kind |-> k, src |-> n, space |-> h.msg.space,
                 addr |-> h.msg.addr, error |-> e, bytes |-> b]
           d == [h EXCEPT !.pc = "alloc", !.bytes = << >>, !.currentOffset = 0,
                          !.response = r]
<1>1. b \in Seq(Byte) /\ InOrder(b, h.msg.addr)
  BY NothingInOrder DEF HandlerState
<1>2. r \in Reply
  <2> HIDE DEF b
  <2>1. h.msg.space \in Spaces /\ h.msg.addr \in Nat
    BY DEF Command
  <2>2. /\ r.bytes = b /\ r.addr = h.msg.addr
        /\ r \in [kind : {"READ_REPLY", "READ_FAILED", "WRITE_REPLY", "WRITE_FAILED"},
                  src : Nodes, space : Spaces, addr : Nat, error : Errors,
                  bytes : Seq(Byte)]
    BY <1>1, <2>1
  <2> HIDE DEF r
  <2> QED BY <1>1, <2>2 DEF Reply
<1>3. d \in HandlerState /\ d.pc = "alloc" /\ d.msg = h.msg /\ d.response = r
  <2> HIDE DEF r
  <2> QED BY <1>2, HandlerValues, Values, NothingInOrder DEF HandlerState
<1>4. HandlerOK(d)
  <2> HIDE DEF d, r
  <2> QED BY <1>2, <1>3 DEF HandlerOK, HandlerInv
<1> QED BY <1>4 DEF Respond

\* The space gives k bytes more.
LEMMA ReadMoreOK ==
    ASSUME NEW h, HandlerOK(h), h.pc = "try", h.msg.kind = "READ",
           NEW s \in [0..SpaceSize - 1 -> Nat], NEW k \in Possible(h)
    PROVE  LET at == h.msg.addr + h.currentOffset
               d == [h EXCEPT !.currentOffset = @ + k, !.bytes = @ \o
                        [i \in 1..k |-> <<at + i - 1, s[at + i - 1]>>]]
           IN HandlerOK(d) /\ d.msg = h.msg /\ InOrder(d.bytes, h.msg.addr)
<1> DEFINE at == h.msg.addr + h.currentOffset
           new == [i \in 1..k |-> <<at + i - 1, s[at + i - 1]>>]
           d1 == [h EXCEPT !.currentOffset = @ + k]
           d == [d1 EXCEPT !.bytes = @ \o new]
<1>1. /\ h \in HandlerState /\ h.msg \in Command /\ Len(h.bytes) = h.currentOffset
      /\ InOrder(h.bytes, h.msg.addr)
  BY DEF HandlerOK, HandlerInv
<1>2. h.msg.addr \in Nat /\ h.currentOffset \in Nat /\ h.bytes \in Seq(Byte) /\ h.msg.len \in Nat
  BY <1>1 DEF HandlerState, Command
<1>3. k \in Nat /\ at \in Nat /\ at + k <= SpaceSize /\ SpaceSize \in Nat
  BY <1>2, MemoryConfigAssumption DEF MemoryConfigAssumption, Possible
<1>4. ASSUME NEW i \in 1..k PROVE new[i] \in Byte /\ new[i][1] = at + i - 1
  <2> HIDE DEF at
  <2>1. at + i - 1 \in 0..SpaceSize - 1
    BY <1>3
  <2>2. s[at + i - 1] \in Nat
    BY <2>1
  <2> QED BY <2>1, <2>2 DEF Byte
<1>5. new \in Seq(Byte) /\ Len(new) = k
  <2>1. new \in [1..k -> Byte]
    BY <1>4
  <2> HIDE DEF new
  <2> QED BY <1>3, <2>1, LenProperties, SeqDef
<1>6. InOrder(new, at)
  <2> HIDE DEF at, new
  <2> QED BY <1>4, <1>5 DEF InOrder
<1>7. h.bytes \o new \in Seq(Byte) /\ InOrder(h.bytes \o new, h.msg.addr)
  <2> HIDE DEF new
  <2>1. InOrder(new, h.msg.addr + Len(h.bytes))
    BY <1>1, <1>6
  <2> QED BY <1>1, <1>2, <1>5, <2>1, InOrderConcat
<1>8. Len(h.bytes \o new) = h.currentOffset + k
  <2> HIDE DEF new
  <2>1. Len(h.bytes \o new) = Len(h.bytes) + Len(new)
    BY <1>2, <1>5
  <2> QED BY <1>1, <1>5, <2>1
<1>9. /\ d \in HandlerState /\ d.pc = "try" /\ d.msg = h.msg
      /\ d.bytes = h.bytes \o new /\ d.currentOffset = h.currentOffset + k
  <2> HIDE DEF new, at
  <2>1. /\ d1 \in HandlerState /\ d1.pc = "try" /\ d1.msg = h.msg
        /\ d1.bytes = h.bytes /\ d1.currentOffset = h.currentOffset + k
    <3>1. h.currentOffset + k \in Nat
      BY <1>2, <1>3
    <3> QED BY <1>1, <3>1 DEF HandlerState
  <2> HIDE DEF d1
  <2> QED BY <1>7, <2>1 DEF HandlerState
<1>10. HandlerOK(d)
  <2> HIDE DEF d, new
  <2> QED BY <1>1, <1>7, <1>8, <1>9 DEF HandlerOK, HandlerInv
<1> QED BY <1>7, <1>9, <1>10

\* The space takes k bytes more.
LEMMA WriteMoreOK ==
    ASSUME NEW h, HandlerOK(h), h.pc = "try", h.msg.kind = "WRITE", NEW k \in Nat
    PROVE  LET d == [h EXCEPT !.currentOffset = @ + k]
           IN HandlerOK(d) /\ d.msg = h.msg
<1> DEFINE d == [h EXCEPT !.currentOffset = @ + k]
<1>1. h \in HandlerState /\ HandlerInv(h)
  BY DEF HandlerOK
<1>2. h.currentOffset + k \in Nat
  BY <1>1 DEF HandlerState
<1>3. d \in HandlerState /\ d.pc = "try" /\ d.msg = h.msg
  BY <1>1, <1>2 DEF HandlerState
<1>4. HandlerOK(d)
  <2> HIDE DEF d
  <2> QED BY <1>1, <1>3 DEF HandlerOK, HandlerInv
<1> QED BY <1>3, <1>4

\* The response waits for its turn, and is sent.
LEMMA SendResponseOK ==
    ASSUME NEW h, HandlerOK(h)
    PROVE  /\ h.pc = "alloc" => HandlerOK([h EXCEPT !.pc = "send"])
           /\ h.pc = "send" => /\ h.response \in Reply
                               /\ HandlerOK([h EXCEPT !.pc = "wait_dg", !.response = NoReply])
<1> DEFINE d == [h EXCEPT !.pc = "send"]
           e == [h EXCEPT !.pc = "wait_dg", !.response = NoReply]
<1>1. h \in HandlerState /\ HandlerInv(h)
  BY DEF HandlerOK
<1>2. d \in HandlerState /\ d.pc = "send" /\ d.msg = h.msg /\ d.response = h.response
  BY <1>1, HandlerValues DEF HandlerState
<1>3. e \in HandlerState /\ e.pc = "wait_dg" /\ e.msg = h.msg
  BY <1>1, HandlerValues, Values DEF HandlerState
<1>4. h.pc = "alloc" => HandlerOK(d)
  <2> HIDE DEF d
  <2> QED BY <1>1, <1>2 DEF HandlerOK, HandlerInv
<1>5. h.pc = "send" => HandlerOK(e)
  <2> HIDE DEF e
  <2> QED BY <1>1, <1>3 DEF HandlerOK, HandlerInv
<1> QED BY <1>1, <1>4, <1>5 DEF HandlerInv
-----------------------------------------------------------------------------
(* The steps. *)

\* What a step leaves alone stays as it is.
LEMMA Unchanged ==
    /\ Clients /\ UNCHANGED cli => Clients'
    /\ Handlers /\ UNCHANGED hnd => Handlers'
    /\ Memory /\ UNCHANGED mem => Memory'
    /\ Counters /\ UNCHANGED asked => Counters'
    /\ Queues /\ UNCHANGED <<queues, wire>> => Queues'
BY DEF Clients, Handlers, Memory, Counters, Queues, queues, wire

\* A queue of the state with one message more or without its first one.
LEMMA QueuesUpdate ==
    ASSUME Queues, NEW n \in Nodes
    PROVE  /\ hq[n] # << >> => Head(hq[n]) \in Command \cup Reply
           /\ rq[n] # << >> => Head(rq[n]) \in Reply
           /\ dgs[n] # << >> => Head(dgs[n]) \in Reply
           /\ acks[n] # << >> => Head(acks[n]) \in Ack
           /\ hq[n] # << >> => [hq EXCEPT ![n] = Tail(@)] \in [Nodes -> Seq(Command \cup Reply)]
           /\ rq[n] # << >> => [rq EXCEPT ![n] = Tail(@)] \in [Nodes -> Seq(Reply)]
           /\ dgs[n] # << >> => [dgs EXCEPT ![n] = Tail(@)] \in [Nodes -> Seq(Reply)]
           /\ acks[n] # << >> => [acks EXCEPT ![n] = Tail(@)] \in [Nodes -> Seq(Ack)]
           /\ \A m \in Command \cup Reply :
                 [hq EXCEPT ![n] = Append(@, m)] \in [Nodes -> Seq(Command \cup Reply)]
           /\ \A m \in Reply : [rq EXCEPT ![n] = Append(@, m)] \in [Nodes -> Seq(Reply)]
           /\ \A m \in Reply : [dgs EXCEPT ![n] = Append(@, m)] \in [Nodes -> Seq(Reply)]
           /\ \A a \in Ack : [acks EXCEPT ![n] = Append(@, a)] \in [Nodes -> Seq(Ack)]
           /\ [hq EXCEPT ![n] = << >>] \in [Nodes -> Seq(Command \cup Reply)]
           /\ [rq EXCEPT ![n] = << >>] \in [Nodes -> Seq(Reply)]
<1>1. /\ hq \in [Nodes -> Seq(Command \cup Reply)] /\ rq \in [Nodes -> Seq(Reply)]
      /\ dgs \in [Nodes -> Seq(Reply)] /\ acks \in [Nodes -> Seq(Ack)]
  BY DEF Queues
<1>2. /\ hq[n] # << >> => /\ Head(hq[n]) \in Command \cup Reply
                          /\ [hq EXCEPT ![n] = Tail(@)] \in [Nodes -> Seq(Command \cup Reply)]
      /\ \A m \in Command \cup Reply :
            [hq EXCEPT ![n] = Append(@, m)] \in [Nodes -> Seq(Command \cup Reply)]
      /\ [hq EXCEPT ![n] = << >>] \in [Nodes -> Seq(Command \cup Reply)]
  BY <1>1, QueueUpdate
<1>3. /\ rq[n] # << >> => /\ Head(rq[n]) \in Reply
                          /\ [rq EXCEPT ![n] = Tail(@)] \in [Nodes -> Seq(Reply)]
      /\ \A m \in Reply : [rq EXCEPT ![n] = Append(@, m)] \in [Nodes -> Seq(Reply)]
      /\ [rq EXCEPT ![n] = << >>] \in [Nodes -> Seq(Reply)]
  BY <1>1, QueueUpdate
<1>4. /\ dgs[n] # << >> => /\ Head(dgs[n]) \in Reply
                           /\ [dgs EXCEPT ![n] = Tail(@)] \in [Nodes -> Seq(Reply)]
      /\ \A m \in Reply : [dgs EXCEPT ![n] = Append(@, m)] \in [Nodes -> Seq(Reply)]
  BY <1>1, QueueUpdate
<1>5. /\ acks[n] # << >> => /\ Head(acks[n]) \in Ack
                            /\ [acks EXCEPT ![n] = Tail(@)] \in [Nodes -> Seq(Ack)]
      /\ \A a \in Ack : [acks EXCEPT ![n] = Append(@, a)] \in [Nodes -> Seq(Ack)]
  BY <1>1, QueueUpdate
<1> QED BY <1>2, <1>3, <1>4, <1>5

\* An answer goes to the node that sent the message.
LEMMA AnswerOK ==
    ASSUME Queues, NEW n \in Nodes, NEW m \in Command \cup Reply, NEW o \in Outcomes,
           Answer(n, m, o)
    PROVE  acks' \in [Nodes -> Seq(Ack)]
<1>1. m.src \in Nodes
  BY DEF Command, Reply
<1>2. [src |-> n, outcome |-> o] \in Ack
  BY DEF Ack
<1> QED BY <1>1, <1>2, QueuesUpdate DEF Answer

\* A step of the flow that may return, with its clean-up.
LEMMA CleanupOK ==
    ASSUME Clients, Handlers, NEW n \in Nodes, NEW c, ClientOK(c), Cleanup(n, c)
    PROVE  Clients' /\ Handlers'
<1>1. Clients'
  BY ClientUpdate DEF Cleanup
<1>2. CASE c.pc = "idle"
  <2>1. HandlerOK(hnd[n]) /\ hnd[n] \in HandlerState
    BY DEF Handlers, HandlerOK
  <2>2. hnd' = [hnd EXCEPT ![n] = [hnd[n] EXCEPT !.client = FALSE]]
    BY <1>2 DEF Cleanup
  <2>3. HandlerOK([hnd[n] EXCEPT !.client = FALSE])
    BY <2>1, HandlerClientOK
  <2> QED BY <1>1, <2>2, <2>3, HandlerUpdate
<1>3. CASE c.pc # "idle"
  BY <1>1, <1>3, Unchanged DEF Cleanup
<1> QED BY <1>2, <1>3

\* The handler is done with a response.
LEMMA ResponseFlowCompleteOK ==
    ASSUME Handlers, NEW n \in Nodes, ResponseFlowComplete(n)
    PROVE  Handlers'
<1>1. HandlerOK(hnd[n])
  BY DEF Handlers, HandlerOK
<1>2. HandlerOK([IdleHandler EXCEPT !.client = hnd[n].client])
  BY <1>1, HandlerClientOK
<1> QED BY <1>2, HandlerUpdate DEF ResponseFlowComplete

\* Every step of a client keeps the invariant.
LEMMA ClientSteps ==
    ASSUME BytesInv, NEW n \in Nodes, Entry(n) \/ ClientStep(n)
    PROVE  BytesInv'
<1> DEFINE c == cli[n]
<1>0. /\ Clients /\ Handlers /\ Queues /\ Memory /\ Counters /\ ClientOK(c)
      /\ HandlerOK(hnd[n]) /\ hnd[n] \in HandlerState
  BY DEF BytesInv, Clients, Handlers, ClientOK, HandlerOK
<1> HIDE DEF c
<1>1. CASE Entry(n)
  <2>1. PICK r \in Requests : cli' = [cli EXCEPT ![n] = Start(c, r, asked + 1)]
    BY <1>1 DEF Entry, c
  <2> DEFINE d == Start(c, r, asked + 1)
  <2>2. cli' = [cli EXCEPT ![n] = d]
    BY <2>1
  <2>3. c.pc = "idle" /\ asked' = asked + 1 /\ asked + 1 \in Nat
    BY <1>0, <1>1 DEF Counters, Entry, c
  <2>4. ClientOK(d)
    BY <1>0, <2>3, StartOK
  <2> HIDE DEF d
  <2>5. Clients'
    BY <1>0, <2>2, <2>4, ClientUpdate
  <2> QED BY <1>0, <1>1, <2>3, <2>5, Unchanged DEF BytesInv, Entry, Counters
<1>2. CASE DoRequest(n)
  <2> DEFINE d == [c EXCEPT !.pc = "send", !.payloadOffset = 0, !.offset = c.req.addr]
             h == [hnd[n] EXCEPT !.client = c.req.cmd # "META"]
  <2>1. cli' = [cli EXCEPT ![n] = d] /\ hnd' = [hnd EXCEPT ![n] = h]
    BY <1>2 DEF DoRequest, c
  <2>2. ClientOK(d)
    BY <1>0, <1>2, DoRequestOK DEF DoRequest, c
  <2>3. HandlerOK(h)
    BY <1>0, HandlerClientOK
  <2> HIDE DEF d, h
  <2>4. Clients' /\ Handlers'
    BY <1>0, <2>1, <2>2, <2>3, ClientUpdate, HandlerUpdate
  <2> QED BY <1>0, <1>2, <2>4, Unchanged DEF BytesInv, DoRequest, bounds
<1>3. CASE SendDatagram(n)
  <2> DEFINE d == [kind |-> c.req.cmd, src |-> n, space |-> c.req.space,
                   addr |-> c.offset, len |-> NextLength(c), id |-> c.id]
             e == [c EXCEPT !.pc = "write_datagram", !.out = d,
                            !.left = IF c.req.cmd = "READ" THEN Left(c) ELSE @,
                            !.writeLength = NextLength(c),
                            !.isWaitingForTimer = FALSE, !.code = "pending"]
  <2>1. cli' = [cli EXCEPT ![n] = e]
    BY <1>3 DEF SendDatagram, c
  <2>2. ClientOK(e)
    BY <1>0, <1>3, SendDatagramOK DEF SendDatagram, c
  <2> HIDE DEF e
  <2>3. Clients'
    BY <1>0, <2>1, <2>2, ClientUpdate
  <2> QED BY <1>0, <1>3, <2>3, Unchanged DEF BytesInv, SendDatagram, bounds
<1>4. CASE WriteDatagram(n)
  <2> DEFINE d == [c EXCEPT !.pc = "wait_dg", !.out = NoReply]
  <2>1. cli' = [cli EXCEPT ![n] = d] /\ c.pc = "write_datagram" /\ Running
        /\ hq' = [hq EXCEPT ![c.req.dst] = Append(@, c.out)]
    BY <1>4 DEF WriteDatagram, c
  <2>2. ClientOK(d) /\ c.out \in Command
    BY <1>0, <2>1, WriteDatagramOK
  <2> HIDE DEF d
  <2>3. Clients'
    BY <1>0, <2>1, <2>2, ClientUpdate
  <2>4. c.req.dst \in Nodes
    BY <1>0, <2>1, RequestType DEF ClientOK, ClientInv
  <2>5. Queues'
    <3>1. hq' \in [Nodes -> Seq(Command \cup Reply)]
      BY <1>0, <2>1, <2>2, <2>4, QueuesUpdate
    <3> QED BY <1>0, <1>4, <3>1 DEF Queues, WriteDatagram, wire
  <2> QED BY <1>0, <1>4, <2>3, <2>5, Unchanged DEF BytesInv, WriteDatagram, bounds
<1>5. CASE DatagramComplete(n)
  <2>1. ClientOK(Completed(c)) /\ Cleanup(n, Completed(c))
    BY <1>0, <1>5, CompletedOK DEF DatagramComplete, c
  <2>2. Clients' /\ Handlers'
    BY <1>0, <2>1, CleanupOK
  <2> QED BY <1>0, <1>5, <2>2, Unchanged DEF BytesInv, DatagramComplete, bounds
<1>6. CASE ResponseTimeout(n)
  <2>1. c.pc = "sleep" /\ c.req.cmd # "META" /\ Cleanup(n, Response(c))
    BY <1>0, <1>6 DEF ResponseTimeout, ClientOK, ClientInv, c
  <2>2. Clients' /\ Handlers'
    BY <1>0, <2>1, ResponseOK, CleanupOK
  <2> QED BY <1>0, <1>6, <2>2, Unchanged DEF BytesInv, ResponseTimeout, bounds
<1>7. CASE TimerExpires(n)
  <2>1. cli' = [cli EXCEPT ![n] = [c EXCEPT !.timer = "expired"]]
    BY <1>7 DEF TimerExpires, c
  <2>2. Clients'
    BY <1>0, <2>1, FlagsOK, Values, ClientUpdate
  <2> QED BY <1>0, <1>7, <2>2, Unchanged DEF BytesInv, TimerExpires
<1>8. CASE TimerRun(n)
  <2>1. cli' = [cli EXCEPT ![n] = [c EXCEPT !.timer = "notified"]]
    BY <1>8 DEF TimerRun, c
  <2>2. Clients'
    BY <1>0, <2>1, FlagsOK, Values, ClientUpdate
  <2> QED BY <1>0, <1>8, <2>2, Unchanged DEF BytesInv, TimerRun, bounds
<1>9. CASE ResponseEntry(n)
  <2> DEFINE m == Head(rq[n])
             d == [c EXCEPT !.code = "none", !.resp = m]
             e == IF d.isWaitingForTimer THEN Trigger(d) ELSE d
  <2>1. m \in Reply /\ rq' \in [Nodes -> Seq(Reply)]
    BY <1>0, <1>9, QueuesUpdate DEF ResponseEntry
  <2>2. \/ Expected(c, m) /\ cli' = [cli EXCEPT ![n] = e] /\ Answer(n, m, "ok")
        \/ Answer(n, m, "rejected") /\ UNCHANGED cli
    BY <1>9 DEF ResponseEntry, c
  <2>3. Expected(c, m) => ClientOK(e)
    <3> HIDE DEF m
    <3> QED BY <1>0, <2>1, ResponseEntryOK
  <2> HIDE DEF e, m
  <2>4. Clients'
    BY <1>0, <2>2, <2>3, ClientUpdate, Unchanged
  <2>5. acks' \in [Nodes -> Seq(Ack)]
    BY <1>0, <2>1, <2>2, AnswerOK DEF Outcomes
  <2>6. Queues'
    BY <1>0, <1>9, <2>1, <2>5 DEF Queues, ResponseEntry
  <2> QED BY <1>0, <1>9, <2>4, <2>6, Unchanged DEF BytesInv, ResponseEntry, bounds
<1> QED BY <1>1, <1>2, <1>3, <1>4, <1>5, <1>6, <1>7, <1>8, <1>9 DEF ClientStep

\* Every step of a handler keeps the invariant.
LEMMA HandlerSteps ==
    ASSUME BytesInv, NEW n \in Nodes, HandlerStep(n)
    PROVE  BytesInv'
<1> DEFINE h == hnd[n]
<1>0. /\ Clients /\ Handlers /\ Queues /\ Memory /\ Counters /\ HandlerOK(h)
      /\ h \in HandlerState /\ HandlerInv(h)
  BY DEF BytesInv, Handlers, HandlerOK
<1> HIDE DEF h
<1>1. CASE HandlerSend(n)
  <2>1. /\ Head(dgs[n]) \in Reply /\ dgs' \in [Nodes -> Seq(Reply)]
        /\ hq' \in [Nodes -> Seq(Command \cup Reply)] /\ rq' \in [Nodes -> Seq(Reply)]
    <3>1. dgs[n] # << >> /\ dgs' = [dgs EXCEPT ![n] = Tail(@)]
      BY <1>1 DEF HandlerSend
    <3>2. Head(dgs[n]) \in Reply /\ dgs' \in [Nodes -> Seq(Reply)]
      BY <1>0, <3>1, QueuesUpdate
    <3>3. \/ rq' = [rq EXCEPT ![n] = Append(@, Head(dgs[n]))] /\ hq' = hq
          \/ hq' = [hq EXCEPT ![n] = Append(@, Head(dgs[n]))] /\ rq' = rq
      BY <1>1 DEF HandlerSend
    <3>4. /\ hq \in [Nodes -> Seq(Command \cup Reply)] /\ rq \in [Nodes -> Seq(Reply)]
      BY <1>0 DEF Queues
    <3> DEFINE m == Head(dgs[n])
    <3> HIDE DEF m
    <3>5. m \in Reply
      BY <3>2 DEF m
    <3>6. [rq EXCEPT ![n] = Append(@, m)] \in [Nodes -> Seq(Reply)]
      BY <1>0, <3>5, QueuesUpdate
    <3>7. [hq EXCEPT ![n] = Append(@, m)] \in [Nodes -> Seq(Command \cup Reply)]
      BY <1>0, <3>5, QueuesUpdate
    <3>8. \/ rq' = [rq EXCEPT ![n] = Append(@, m)] /\ hq' = hq
          \/ hq' = [hq EXCEPT ![n] = Append(@, m)] /\ rq' = rq
      BY <3>3 DEF m
    <3> QED BY <3>2, <3>4, <3>6, <3>7, <3>8
  <2>2. Queues'
    BY <1>0, <1>1, <2>1 DEF Queues, HandlerSend
  <2> QED BY <1>0, <1>1, <2>2, Unchanged DEF BytesInv, HandlerSend, bounds
<1>2. CASE HandlerEntry(n)
  <2> DEFINE m == Head(hq[n])
             d == [h EXCEPT !.pc = "try", !.msg = m, !.currentOffset = 0]
  <2>1. m \in Command \cup Reply /\ hq' \in [Nodes -> Seq(Command \cup Reply)] /\ h.pc = "idle"
    BY <1>0, <1>2, QueuesUpdate DEF HandlerEntry, h
  <2>2. \/ /\ IsReply(m) /\ rq' = [rq EXCEPT ![n] = Append(@, m)]
           /\ UNCHANGED <<hnd, acks>>
        \/ \E o \in {"ok", "rejected"} : Answer(n, m, o) /\ UNCHANGED <<hnd, rq>>
        \/ /\ m.kind \in {"READ", "WRITE"} /\ Answer(n, m, "ok_reply_pending")
           /\ hnd' = [hnd EXCEPT ![n] = d] /\ UNCHANGED rq
    BY <1>2 DEF HandlerEntry, h
  <2> HIDE DEF m
  <2>3. /\ IsReply(m) => m \in Reply
        /\ m.kind \in {"READ", "WRITE"} => m \in Command
    BY <2>1 DEF IsReply, Command, Reply
  <2>4. m \in Command => HandlerOK(d)
    BY <1>0, <2>1, AcceptOK
  <2> HIDE DEF d
  <2>5. Handlers'
    BY <1>0, <2>2, <2>3, <2>4, HandlerUpdate, Unchanged
  <2>6. rq \in [Nodes -> Seq(Reply)] /\ acks \in [Nodes -> Seq(Ack)]
    BY <1>0 DEF Queues
  <2>7. rq' \in [Nodes -> Seq(Reply)] /\ acks' \in [Nodes -> Seq(Ack)]
    <3>1. CASE IsReply(m) /\ rq' = [rq EXCEPT ![n] = Append(@, m)] /\ UNCHANGED <<hnd, acks>>
      BY <1>0, <2>3, <2>6, <3>1, QueuesUpdate
    <3>2. CASE \E o \in {"ok", "rejected"} : Answer(n, m, o) /\ UNCHANGED <<hnd, rq>>
      BY <1>0, <2>1, <2>6, <3>2, AnswerOK DEF Outcomes
    <3>3. CASE Answer(n, m, "ok_reply_pending") /\ UNCHANGED rq
      BY <1>0, <2>1, <2>6, <3>3, AnswerOK DEF Outcomes
    <3> QED BY <2>2, <3>1, <3>2, <3>3
  <2>8. Queues'
    BY <1>0, <1>2, <2>1, <2>7 DEF Queues, HandlerEntry
  <2> QED BY <1>0, <1>2, <2>5, <2>8, Unchanged DEF BytesInv, HandlerEntry, bounds
<1>3. CASE TryRead(n)
  <2> DEFINE at == h.msg.addr + h.currentOffset
             more(k) == [h EXCEPT !.currentOffset = @ + k, !.bytes = @ \o
                            [i \in 1..k |-> <<at + i - 1, mem[n][at + i - 1]>>]]
  <2>1. h.pc = "try" /\ h.msg.kind = "READ" /\ h.msg \in Command
    BY <1>0, <1>3 DEF TryRead, HandlerInv, h
  <2>2. InOrder(h.bytes, h.msg.addr) /\ mem[n] \in [0..SpaceSize - 1 -> Nat]
    BY <1>0, <2>1 DEF HandlerInv, Memory
  <2>3. \/ \E k \in Possible(h) : hnd' = [hnd EXCEPT ![n] = more(k)]
        \/ \E k \in Possible(h) :
              hnd' = [hnd EXCEPT ![n] = Respond(n, more(k), "READ_REPLY", "none")]
        \/ hnd' = [hnd EXCEPT ![n] = Respond(n, h, "READ_REPLY", "none")]
        \/ \E e \in {"ERROR_OUT_OF_BOUNDS", "failed"} :
              hnd' = [hnd EXCEPT ![n] = Respond(n, h, "READ_FAILED", e)]
    BY <1>3 DEF TryRead, h
  <2>4. ASSUME NEW k \in Possible(h)
        PROVE  HandlerOK(more(k)) /\ HandlerOK(Respond(n, more(k), "READ_REPLY", "none"))
    <3>1. HandlerOK(more(k)) /\ more(k).msg = h.msg /\ InOrder(more(k).bytes, h.msg.addr)
      BY <1>0, <2>1, <2>2, ReadMoreOK
    <3> HIDE DEF more
    <3> QED BY <2>1, <3>1, RespondOK DEF HandlerOK, Errors
  <2>5. /\ HandlerOK(Respond(n, h, "READ_REPLY", "none"))
        /\ \A e \in {"ERROR_OUT_OF_BOUNDS", "failed"} :
              HandlerOK(Respond(n, h, "READ_FAILED", e))
    BY <1>0, <2>1, <2>2, RespondOK DEF Errors
  <2> HIDE DEF more
  <2>6. Handlers'
    BY <1>0, <2>3, <2>4, <2>5, HandlerUpdate
  <2> QED BY <1>0, <1>3, <2>6, Unchanged DEF BytesInv, TryRead, bounds
<1>4. CASE TryWrite(n)
  <2> DEFINE w(k) == [h EXCEPT !.currentOffset = @ + k]
             at == h.msg.addr + h.currentOffset
             new(k) == [a \in DOMAIN mem[n] |-> IF a \in at..at + k - 1
                                                THEN h.msg.id ELSE mem[n][a]]
  <2>1. h.pc = "try" /\ h.msg.kind = "WRITE" /\ h.msg \in Command
    BY <1>0, <1>4 DEF TryWrite, HandlerInv, h
  <2>2. \/ /\ \E k \in Possible(h) :
                 /\ mem' = [mem EXCEPT ![n] = new(k)]
                 /\ \/ hnd' = [hnd EXCEPT ![n] = w(k)]
                    \/ hnd' = [hnd EXCEPT ![n] = Respond(n, w(k), "WRITE_REPLY", "none")]
        \/ /\ UNCHANGED mem
           /\ \E e \in {"ERROR_OUT_OF_BOUNDS", "failed"} :
                 hnd' = [hnd EXCEPT ![n] = Respond(n, h, "WRITE_FAILED", e)]
    BY <1>4 DEF TryWrite, h
  <2>3. ASSUME NEW k \in Possible(h)
        PROVE  HandlerOK(w(k)) /\ HandlerOK(Respond(n, w(k), "WRITE_REPLY", "none"))
    <3>1. k \in Nat
      BY <1>0, <2>1 DEF Possible, HandlerState, Command
    <3>2. HandlerOK(w(k)) /\ w(k).msg = h.msg
      BY <1>0, <2>1, <3>1, WriteMoreOK
    <3> HIDE DEF w
    <3> QED BY <2>1, <3>2, RespondOK DEF HandlerOK, Errors
  <2>4. \A e \in {"ERROR_OUT_OF_BOUNDS", "failed"} : HandlerOK(Respond(n, h, "WRITE_FAILED", e))
    BY <1>0, <2>1, RespondOK DEF Errors
  <2>5. \A k : new(k) \in [0..SpaceSize - 1 -> Nat]
    BY <1>0, <2>1 DEF Memory, Command
  <2> HIDE DEF w, new
  <2>6. Handlers'
    BY <1>0, <2>2, <2>3, <2>4, HandlerUpdate
  <2>7. Memory'
    BY <1>0, <2>2, <2>5 DEF Memory
  <2> QED BY <1>0, <1>4, <2>6, <2>7, Unchanged DEF BytesInv, TryWrite, bounds
<1>5. CASE ClientAllocated(n)
  <2>1. hnd' = [hnd EXCEPT ![n] = [h EXCEPT !.pc = "send"]] /\ h.pc = "alloc"
    BY <1>5 DEF ClientAllocated, h
  <2>2. Handlers'
    BY <1>0, <2>1, SendResponseOK, HandlerUpdate
  <2> QED BY <1>0, <1>5, <2>2, Unchanged DEF BytesInv, ClientAllocated, bounds
<1>6. CASE SendResponse(n)
  <2>1. /\ hnd' = [hnd EXCEPT ![n] = [h EXCEPT !.pc = "wait_dg", !.response = NoReply]]
        /\ h.pc = "send"
        /\ dgs' = [dgs EXCEPT ![h.msg.src] = Append(@, h.response)]
    BY <1>6 DEF SendResponse, h
  <2>2. Handlers' /\ h.response \in Reply
    BY <1>0, <2>1, SendResponseOK, HandlerUpdate
  <2>3. h.msg.src \in Nodes
    BY <1>0, <2>1 DEF HandlerInv, Command
  <2>4. dgs' \in [Nodes -> Seq(Reply)]
    BY <1>0, <2>1, <2>2, <2>3, QueuesUpdate
  <2>5. Queues'
    BY <1>0, <1>6, <2>4 DEF Queues, SendResponse, queues
  <2> QED BY <1>0, <1>6, <2>2, <2>5, Unchanged DEF BytesInv, SendResponse, bounds
<1> QED BY <1>1, <1>2, <1>3, <1>4, <1>5, <1>6 DEF HandlerStep

\* Answers, timeouts, lost messages and reboots keep the invariant.
LEMMA NetworkSteps ==
    ASSUME BytesInv, NEW n \in Nodes,
           TakeAnswer(n) \/ AnswerTimeout(n) \/ LoseMessage \/ Reboot(n)
    PROVE  BytesInv'
<1>0. /\ Clients /\ Handlers /\ Queues /\ Memory /\ Counters
      /\ \A m \in Nodes : /\ ClientOK(cli[m]) /\ HandlerOK(hnd[m])
                          /\ cli[m] \in ClientState /\ hnd[m] \in HandlerState
  BY DEF BytesInv, Clients, Handlers, ClientOK, HandlerOK
<1>1. CASE TakeAnswer(n)
  <2> DEFINE a == Head(acks[n])
             d == [cli[n] EXCEPT !.pc = "complete", !.dg = a.outcome]
  <2>1. a \in Ack /\ acks' \in [Nodes -> Seq(Ack)]
    BY <1>0, <1>1, QueuesUpdate DEF TakeAnswer
  <2>2. a.outcome \in Dgs
    BY <2>1 DEF Ack, Dgs
  <2>3. \/ cli[n].pc = "wait_dg" /\ cli' = [cli EXCEPT ![n] = d]
        \/ UNCHANGED cli
    BY <1>1 DEF TakeAnswer
  <2>4. cli[n].pc = "wait_dg" => ClientOK(d)
    <3> HIDE DEF a
    <3> QED BY <1>0, <2>2, OutcomeOK
  <2> HIDE DEF d
  <2>5. Clients'
    BY <1>0, <2>3, <2>4, ClientUpdate, Unchanged
  <2>6. ResponseFlowComplete(n) \/ UNCHANGED hnd
    BY <1>1 DEF TakeAnswer
  <2>7. Handlers'
    BY <1>0, <2>6, ResponseFlowCompleteOK, Unchanged
  <2>8. Queues'
    BY <1>0, <1>1, <2>1 DEF Queues, TakeAnswer, queues
  <2> QED BY <1>0, <1>1, <2>5, <2>7, <2>8, Unchanged DEF BytesInv, TakeAnswer, bounds
<1>2. CASE AnswerTimeout(n)
  <2> DEFINE d == [cli[n] EXCEPT !.pc = "complete", !.dg = "timeout", !.clean = FALSE]
             e == [cli[n] EXCEPT !.clean = FALSE]
  <2>1. \/ cli[n].pc = "wait_dg" /\ cli' = [cli EXCEPT ![n] = d] /\ UNCHANGED hnd
        \/ cli' = [cli EXCEPT ![n] = e] /\ ResponseFlowComplete(n)
    BY <1>2 DEF AnswerTimeout
  <2>2. (cli[n].pc = "wait_dg" => ClientOK(d)) /\ ClientOK(e)
    BY <1>0, OutcomeOK, FlagsOK, Values
  <2> HIDE DEF d, e
  <2>3. Clients' /\ Handlers'
    BY <1>0, <2>1, <2>2, ClientUpdate, ResponseFlowCompleteOK, Unchanged
  <2> QED BY <1>0, <1>2, <2>3, Unchanged DEF BytesInv, AnswerTimeout
<1>3. CASE LoseMessage
  <2>1. PICK m \in Nodes :
           \/ dgs[m] # << >> /\ dgs' = [dgs EXCEPT ![m] = Tail(@)] /\ UNCHANGED <<acks, hq>>
           \/ hq[m] # << >> /\ hq' = [hq EXCEPT ![m] = Tail(@)] /\ UNCHANGED <<dgs, acks>>
           \/ acks[m] # << >> /\ acks' = [acks EXCEPT ![m] = Tail(@)] /\ UNCHANGED <<dgs, hq>>
    BY <1>3 DEF LoseMessage, wire
  <2>2. UNCHANGED rq
    BY <1>3 DEF LoseMessage
  <2>3. Queues'
    <3>1. CASE dgs[m] # << >> /\ dgs' = [dgs EXCEPT ![m] = Tail(@)] /\ UNCHANGED <<acks, hq>>
      BY <1>0, <2>2, <3>1, QueuesUpdate DEF Queues
    <3>2. CASE hq[m] # << >> /\ hq' = [hq EXCEPT ![m] = Tail(@)] /\ UNCHANGED <<dgs, acks>>
      BY <1>0, <2>2, <3>2, QueuesUpdate DEF Queues
    <3>3. CASE acks[m] # << >> /\ acks' = [acks EXCEPT ![m] = Tail(@)] /\ UNCHANGED <<dgs, hq>>
      BY <1>0, <2>2, <3>3, QueuesUpdate DEF Queues
    <3> QED BY <2>1, <3>1, <3>2, <3>3
  <2> QED BY <1>0, <1>3, <2>3, Unchanged DEF BytesInv, LoseMessage
<1>4. CASE Reboot(n)
  <2> DEFINE c(m) == IF m = n THEN [IdleClient EXCEPT !.clean = FALSE]
                     ELSE IF cli[m].pc = "wait_dg" /\ cli[m].req.dst = n
                     THEN [cli[m] EXCEPT !.pc = "complete", !.dg = "DST_REBOOT",
                                         !.clean = FALSE]
                     ELSE IF hnd[m].pc = "wait_dg" /\ hnd[m].msg.src = n
                     THEN [cli[m] EXCEPT !.clean = FALSE]
                     ELSE cli[m]
             h(m) == IF m = n THEN IdleHandler
                     ELSE IF hnd[m].pc = "wait_dg" /\ hnd[m].msg.src = n
                     THEN [IdleHandler EXCEPT !.client = hnd[m].client]
                     ELSE hnd[m]
  <2>1. cli' = [m \in Nodes |-> c(m)] /\ hnd' = [m \in Nodes |-> h(m)]
    BY <1>4 DEF Reboot
  <2>2. ASSUME NEW m \in Nodes PROVE ClientOK(c(m))
    <3>1. ClientOK([IdleClient EXCEPT !.clean = FALSE]) /\ ClientOK([cli[m] EXCEPT !.clean = FALSE])
      BY <1>0, IdleOK, FlagsOK, Values
    <3>2. cli[m].pc = "wait_dg" =>
             ClientOK([cli[m] EXCEPT !.pc = "complete", !.dg = "DST_REBOOT", !.clean = FALSE])
      BY <1>0, OutcomeOK, Values
    <3> QED BY <1>0, <3>1, <3>2, Zenon
  <2>3. ASSUME NEW m \in Nodes PROVE HandlerOK(h(m))
    BY <1>0, IdleOK, HandlerClientOK
  <2> HIDE DEF c, h
  <2>4. Clients' /\ Handlers'
    BY <2>1, <2>2, <2>3 DEF Clients, Handlers, ClientOK, HandlerOK
  <2>5. Queues'
    BY <1>0, <1>4, QueuesUpdate DEF Queues, Reboot, wire
  <2> QED BY <1>0, <1>4, <2>4, <2>5, Unchanged DEF BytesInv, Reboot
<1> QED BY <1>1, <1>2, <1>3, <1>4

\* The invariant is inductive.
LEMMA BytesStep == BytesInv /\ [Next]_vars => BytesInv'
<1> SUFFICES ASSUME BytesInv, [Next]_vars PROVE BytesInv'
  OBVIOUS
<1>1. CASE UNCHANGED vars
  BY <1>1, Unchanged DEF BytesInv, vars, bounds
<1>2. CASE LoseMessage
  <2>1. PICK n \in Nodes : TRUE
    BY <1>2 DEF LoseMessage
  <2> QED BY <1>2, <2>1, NetworkSteps
<1>3. CASE \E n \in Nodes : \/ ClientStep(n) \/ HandlerStep(n) \/ TakeAnswer(n)
                            \/ AnswerTimeout(n) \/ Entry(n) \/ Reboot(n)
  BY <1>3, ClientSteps, HandlerSteps, NetworkSteps
<1> QED BY <1>1, <1>2, <1>3 DEF Next, Progress

\* The invariant holds at the start.
LEMMA BytesInit == Init => BytesInv
<1> SUFFICES ASSUME Init PROVE BytesInv
  OBVIOUS
<1>1. Clients /\ Handlers
  BY IdleOK DEF Init, Clients, Handlers, ClientOK, HandlerOK
<1>2. Queues /\ Memory /\ Counters
  BY DEF Init, Queues, Memory, Counters
<1> QED BY <1>1, <1>2 DEF BytesInv

\* The invariant says that the bytes collected are in order.
LEMMA BytesGoal == BytesInv => BytesFromAddress
BY SMTT(20) DEF BytesInv, Clients, ClientInv, ClientState, InOrder, BytesFromAddress

\* A read never collects a byte of another address than the one it asked for,
\* whatever replies come late, after a timeout or from before a reboot
\* (read_response_timeout() of MemoryConfigClient.hxx).
THEOREM BytesAreInOrder == Spec => []BytesFromAddress
BY BytesInit, BytesStep, BytesGoal, PTL DEF Spec
-----------------------------------------------------------------------------
(***************************************************************************)
(* Two nodes that ask each other.  What a client returns is then whole and *)
(* true as long as nothing of an earlier exchange is under way, which is   *)
(* what "clean" records.  For a node n that is clean and the other one, d, *)
(* the invariant says:                                                     *)
(*                                                                         *)
(*   Open       of what n has sent at most one datagram has no outcome     *)
(*              yet, and n waits for that one;                             *)
(*   Stage      its request, or the reply to it, is in one place at most,  *)
(*              and only while n expects a reply;                          *)
(*   Serves,    the handler of d, and every reply under way to n, tell     *)
(*   Arrived    the truth about the memory of d and the last request of n; *)
(*   Collected  so does what n has read or written so far;                 *)
(*   Returns    and what it has returned.                                  *)
(*                                                                         *)
(* A third node may write the same bytes before the answer arrives, so     *)
(* what a client returns is not true of the memory then.                   *)
(***************************************************************************)
TwoNodes == \A a, b, e \in Nodes : a = b \/ b = e \/ a = e

Asking == {"wait_dg", "complete", "sleep"}
Serving == {"try", "alloc", "send"}
Stages == {"none", "asked", "serving", "sent", "taken", "kept"}

\* The datagram the client's last request is sent with.
Current(c) == [kind |-> c.req.cmd, src |-> c.req.src, space |-> c.req.space,
               addr |-> c.offset, len |-> c.writeLength, id |-> c.id]

\* Nobody sends to itself, a node's datagrams wait for each other, and a node
\* sends what its client or handler has made for the other one.
Senders(n) ==
    /\ \A i \in 1..Len(hq[n]) : hq[n][i].src # n
    /\ \A i \in 1..Len(rq[n]) : rq[n][i].src # n
    /\ \A i \in 1..Len(dgs[n]) : dgs[n][i].src # n
    /\ \A i \in 1..Len(acks[n]) : acks[n][i].src # n
    /\ hnd[n].pc # "idle" => hnd[n].msg.src # n
    /\ hnd[n].pc \in {"alloc", "send"} => hnd[n].response.src = n
    /\ cli[n].req.cmd # "none" => cli[n].req \in Requests /\ cli[n].req.src = n
    /\ cli[n].pc = "write_datagram" => cli[n].out = Current(cli[n])
    /\ ~(cli[n].pc = "wait_dg" /\ hnd[n].pc = "wait_dg")

SenderInv == \A n \in Nodes : Senders(n)

\* n's client c and handler h; replies sq and tq, and messages kq, that n has
\* sent; answers aq to them.
Open(c, h, sq, tq, kq, aq) ==
    /\ Len(sq) + Len(tq) + Len(kq) + Len(aq) <=
          IF c.pc = "wait_dg" \/ h.pc = "wait_dg" THEN 1 ELSE 0
    /\ c.pc # "wait_dg" => \A i \in 1..Len(kq) : IsReply(kq[i])
    /\ c.pc = "wait_dg" =>
          /\ sq = << >> /\ tq = << >>
          /\ \A i \in 1..Len(kq) : kq[i] = Current(c)
          /\ \A i \in 1..Len(aq) : aq[i].outcome = "ok" => c.req.cmd = "META"
    /\ c.pc = "complete" /\ c.dg = "ok" => c.req.cmd = "META"

\* n's client c, the handler h of the other node; replies sq and tq, and
\* messages kq, on their way to n; messages kd and answers aq to it.
Stage(c, h, sq, tq, kq, kd, aq, s) ==
    /\ (\E i \in 1..Len(kd) : ~IsReply(kd[i])) <=> s = "asked"
    /\ h.pc \in Serving <=> s = "serving"
    /\ Len(sq) = (IF s = "sent" THEN 1 ELSE 0)
    /\ Len(tq) = (IF s = "taken" THEN 1 ELSE 0)
    /\ \A i, j \in 1..Len(kq) : IsReply(kq[i]) /\ IsReply(kq[j]) => i = j
    /\ (\E i \in 1..Len(kq) : IsReply(kq[i])) => s = "kept"
    /\ s # "none" => c.pc \in Asking /\ c.code = "pending"
    /\ c.pc = "write_datagram" => c.code = "pending"
    /\ s \notin {"none", "asked"} => c.req.cmd # "META"
    /\ s # "none" /\ c.pc = "wait_dg" =>
          \A i \in 1..Len(aq) : aq[i].outcome = "ok_reply_pending"
    /\ s # "none" /\ c.pc = "complete" => c.dg = "ok_reply_pending"

\* The bytes are those of the memory from an address on; k bytes from an
\* address on were written by a request.
Holds(m, bytes, addr) ==
    \A i \in 1..Len(bytes) : bytes[i] = <<addr + i - 1, m[addr + i - 1]>>
Written(m, addr, k, id) ==
    \A a \in addr..addr + k - 1 : a \in 0..SpaceSize - 1 /\ m[a] = id

\* A reply is true of the memory m, and of the datagram c has sent last.
Fits(c, m, r) ==
    /\ r.kind = "READ_REPLY" =>
          /\ Holds(m, r.bytes, r.addr) /\ Len(r.bytes) <= c.writeLength
          /\ Len(r.bytes) < c.writeLength => r.addr + Len(r.bytes) >= SpaceSize
    /\ r.kind = "READ_FAILED" /\ r.error = "ERROR_OUT_OF_BOUNDS" => r.addr >= SpaceSize
    /\ r.kind = "WRITE_REPLY" => Written(m, r.addr, c.writeLength, c.id)
    /\ r.kind = "WRITE_FAILED" /\ r.error = "ERROR_OUT_OF_BOUNDS" =>
          r.addr + c.writeLength > SpaceSize

Serves(c, m, h) ==
    /\ h.pc \in Serving => h.msg = Current(c)
    /\ h.pc = "try" /\ h.msg.kind = "READ" =>
          h.currentOffset <= h.msg.len /\ Holds(m, h.bytes, h.msg.addr)
    /\ h.pc = "try" /\ h.msg.kind = "WRITE" =>
          /\ h.currentOffset < h.msg.len
          /\ Written(m, h.msg.addr, h.currentOffset, h.msg.id)
    /\ h.pc \in {"alloc", "send"} => Fits(c, m, h.response)

Arrived(c, m, sq, tq, kq) ==
    /\ \A i \in 1..Len(sq) : Fits(c, m, sq[i])
    /\ \A i \in 1..Len(tq) : Fits(c, m, tq[i])
    /\ \A i \in 1..Len(kq) : IsReply(kq[i]) => Fits(c, m, kq[i])
    /\ c.pc \in Asking /\ c.code # "pending" => Fits(c, m, c.resp)

Collected(c, m) ==
    /\ c.pc # "idle" /\ c.req.cmd = "READ" =>
          /\ Holds(m, c.payload, c.req.addr)
          /\ c.req.size = Whole => c.left = Whole
          /\ c.req.size # Whole /\ c.pc \in {"alloc", "send"} =>
                c.left + Len(c.payload) = c.req.size
          /\ c.req.size # Whole /\ c.pc \notin {"alloc", "send"} =>
                c.left + c.writeLength + Len(c.payload) = c.req.size
          /\ c.pc \notin {"alloc", "send"} =>
                c.writeLength <= Chunk /\ (c.left # 0 => c.writeLength = Chunk)
    /\ c.pc \notin {"idle", "alloc"} /\ c.req.cmd = "WRITE" =>
          /\ c.offset = c.req.addr + c.payloadOffset
          /\ Written(m, c.req.addr, c.payloadOffset, c.id)

Returns(c, m) ==
    LET r == c.req
        end == Smaller(r.addr + r.size, SpaceSize)
    IN c.pc = "idle" /\ c.result = "ok" =>
          /\ r.cmd = "READ" =>
                c.payload = [i \in 1..end - r.addr |-> <<r.addr + i - 1, m[r.addr + i - 1]>>]
          /\ r.cmd = "WRITE" /\ r.addr + r.size <= SpaceSize =>
                Written(m, r.addr, r.size, c.id)

\* Of n: client c, handler g, queues sq, tq and kq, answers aq; of d: handler h,
\* memory m, queues sd, td and kd.
PairOf(c, g, h, m, sq, tq, kq, sd, td, kd, aq) ==
    /\ Open(c, g, sd, td, kd, aq)
    /\ \E s \in Stages : Stage(c, h, sq, tq, kq, kd, aq, s)
    /\ Serves(c, m, h)
    /\ Arrived(c, m, sq, tq, kq)
    /\ Collected(c, m)
    /\ Returns(c, m)

Pair(n, d) == PairOf(cli[n], hnd[n], hnd[d], mem[d], dgs[n], rq[n], hq[n],
                     dgs[d], rq[d], hq[d], acks[n])

PairInv == \A n, d \in Nodes : n # d /\ cli[n].clean => Pair(n, d)

\* One message more in a queue.
LEMMA AppendShape ==
    ASSUME NEW T, NEW q \in Seq(T), NEW m \in T
    PROVE  LET r == Append(q, m)
           IN /\ Len(r) = Len(q) + 1 /\ r[Len(q) + 1] = m
              /\ \A i \in 1..Len(q) : r[i] = q[i]
              /\ r # << >> /\ Len(q) \in Nat
OBVIOUS

\* A queue without its first message.
LEMMA TailShape ==
    ASSUME NEW T, NEW q \in Seq(T), q # << >>
    PROVE  LET r == Tail(q)
           IN /\ Len(r) = Len(q) - 1 /\ Len(q) \in Nat \ {0}
              /\ Head(q) = q[1] /\ Head(q) \in T
              /\ \A i \in 1..Len(r) : r[i] = q[i + 1]
OBVIOUS

\* The parts of the state the invariant of a pair is about are of their types.
LEMMA PairTypes ==
    ASSUME BytesInv, NEW n \in Nodes
    PROVE  /\ cli[n] \in ClientState /\ ClientInv(cli[n])
           /\ hnd[n] \in HandlerState /\ HandlerInv(hnd[n])
           /\ hq[n] \in Seq(Command \cup Reply) /\ rq[n] \in Seq(Reply)
           /\ dgs[n] \in Seq(Reply) /\ acks[n] \in Seq(Ack)
           /\ mem[n] \in [0..SpaceSize - 1 -> Nat]
           /\ DOMAIN cli = Nodes /\ DOMAIN hnd = Nodes /\ DOMAIN hq = Nodes
           /\ DOMAIN rq = Nodes /\ DOMAIN dgs = Nodes /\ DOMAIN acks = Nodes
           /\ DOMAIN mem = Nodes
BY DEF BytesInv, Clients, Handlers, Queues, Memory

\* Commands and replies are told apart by their kind.
LEMMA KindOfMessage ==
    ASSUME NEW m \in Command \cup Reply
    PROVE  (IsReply(m) <=> m \in Reply) /\ (~IsReply(m) <=> m \in Command)
BY DEF IsReply, Command, Reply

\* What the invariant says of a client depends on these fields only.
SameClient(c, e) ==
    /\ e.pc = c.pc /\ e.req = c.req /\ e.id = c.id /\ e.left = c.left
    /\ e.offset = c.offset /\ e.payloadOffset = c.payloadOffset
    /\ e.writeLength = c.writeLength /\ e.payload = c.payload /\ e.dg = c.dg
    /\ e.code = c.code /\ e.resp = c.resp /\ e.result = c.result

\* And of a handler, only while it serves a request.
SameHandler(h, g) ==
    /\ g.pc \in Serving <=> h.pc \in Serving
    /\ g.pc = "try" <=> h.pc = "try"
    /\ g.pc \in Serving => g.msg = h.msg
    /\ g.pc = "try" => g.currentOffset = h.currentOffset /\ g.bytes = h.bytes
    /\ g.pc \in {"alloc", "send"} => g.response = h.response

\* With the same fields the parts of the invariant are the same.
LEMMA ServesSame ==
    ASSUME NEW c, NEW e, NEW m, NEW h, NEW k, SameClient(c, e), SameHandler(h, k), Serves(c, m, h)
    PROVE  Serves(e, m, k)
BY DEF SameClient, SameHandler, Serves, Current, Fits, Serving

LEMMA ArrivedSame ==
    ASSUME NEW c, NEW e, NEW m, NEW sq, NEW tq, NEW kq, SameClient(c, e), Arrived(c, m, sq, tq, kq)
    PROVE  Arrived(e, m, sq, tq, kq)
BY DEF SameClient, Arrived, Fits

LEMMA CollectedSame ==
    ASSUME NEW c, NEW e, NEW m, SameClient(c, e), Collected(c, m), Returns(c, m)
    PROVE  Collected(e, m) /\ Returns(e, m)
BY DEF SameClient, Collected, Returns

\* A step that changes no message and no memory.
LEMMA PairSame ==
    ASSUME NEW c, NEW e, NEW g, NEW f, NEW h, NEW k, NEW m, NEW sq, NEW tq, NEW kq,
           NEW sd, NEW td, NEW kd, NEW aq,
           PairOf(c, g, h, m, sq, tq, kq, sd, td, kd, aq),
           SameClient(c, e), SameHandler(h, k), f.pc = "wait_dg" <=> g.pc = "wait_dg"
    PROVE  PairOf(e, f, k, m, sq, tq, kq, sd, td, kd, aq)
<1>1. Open(e, f, sd, td, kd, aq)
  BY DEF PairOf, Open, Current, SameClient
<1>2. PICK s \in Stages : Stage(c, h, sq, tq, kq, kd, aq, s)
  BY DEF PairOf
<1>3. Stage(e, k, sq, tq, kq, kd, aq, s)
  BY <1>2 DEF Stage, SameClient, SameHandler
<1> QED BY <1>1, <1>3, ServesSame, ArrivedSame, CollectedSame DEF PairOf
-----------------------------------------------------------------------------
(* What the steps of a client do to the fields the invariant is about. *)

LEMMA ReturnFields ==
    ASSUME NEW c \in ClientState, NEW r
    PROVE  LET e == Return(c, r)
           IN /\ e.pc = "idle" /\ e.result = r /\ e.payload = c.payload
              /\ e.req = c.req /\ e.id = c.id /\ e.clean = c.clean
BY DEF ClientState, Return

LEMMA TimerFields ==
    ASSUME NEW c \in ClientState, NEW v
    PROVE  LET e == [c EXCEPT !.timer = v]
           IN SameClient(c, e) /\ e.clean = c.clean /\ e.out = c.out
BY DEF ClientState, SameClient

LEMMA TriggerFields ==
    ASSUME NEW c \in ClientState
    PROVE  LET e == Trigger(c)
           IN SameClient(c, e) /\ e.clean = c.clean /\ e.out = c.out
<1>1. \A v, w : LET e == [c EXCEPT !.timer = v, !.triggered = w]
                IN SameClient(c, e) /\ e.clean = c.clean /\ e.out = c.out
  BY DEF ClientState, SameClient
<1>2. \A v : LET e == [c EXCEPT !.bad = v]
             IN SameClient(c, e) /\ e.clean = c.clean /\ e.out = c.out
  BY DEF ClientState, SameClient
<1>3. SameClient(c, c)
  BY DEF SameClient
<1> QED BY <1>1, <1>2, <1>3, Zenon DEF Trigger

\* The reply is taken: only the code and the response change, and the timer.
Replied(c, r) ==
    LET e == [c EXCEPT !.code = "none", !.resp = r]
    IN IF e.isWaitingForTimer THEN Trigger(e) ELSE e

LEMMA ReplyFields ==
    ASSUME NEW c \in ClientState, NEW r \in Resps
    PROVE  LET g == Replied(c, r)
           IN /\ g.pc = c.pc /\ g.req = c.req /\ g.id = c.id /\ g.left = c.left
              /\ g.offset = c.offset /\ g.payloadOffset = c.payloadOffset
              /\ g.writeLength = c.writeLength /\ g.payload = c.payload
              /\ g.dg = c.dg /\ g.result = c.result
              /\ g.code = "none" /\ g.resp = r /\ g.clean = c.clean /\ g.out = c.out
<1> DEFINE e == [c EXCEPT !.code = "none", !.resp = r]
<1>1. /\ e \in ClientState
      /\ e.pc = c.pc /\ e.req = c.req /\ e.id = c.id /\ e.left = c.left
      /\ e.offset = c.offset /\ e.payloadOffset = c.payloadOffset
      /\ e.writeLength = c.writeLength /\ e.payload = c.payload
      /\ e.dg = c.dg /\ e.result = c.result
      /\ e.code = "none" /\ e.resp = r /\ e.clean = c.clean /\ e.out = c.out
  BY Values DEF ClientState
<1> HIDE DEF e
<1>2. LET g == Trigger(e) IN SameClient(e, g) /\ g.clean = e.clean /\ g.out = e.out
  BY <1>1, TriggerFields
<1>3. LET g == Trigger(e)
      IN /\ g.pc = c.pc /\ g.req = c.req /\ g.id = c.id /\ g.left = c.left
         /\ g.offset = c.offset /\ g.payloadOffset = c.payloadOffset
         /\ g.writeLength = c.writeLength /\ g.payload = c.payload
         /\ g.dg = c.dg /\ g.result = c.result
         /\ g.code = "none" /\ g.resp = r /\ g.clean = c.clean /\ g.out = c.out
  BY <1>1, <1>2 DEF SameClient
<1> QED BY <1>1, <1>3, Zenon DEF e, Replied

LEMMA StartFields ==
    ASSUME NEW c \in ClientState, NEW r, NEW i
    PROVE  LET e == Start(c, r, i)
           IN /\ e.pc = "alloc" /\ e.req = r /\ e.left = r.size /\ e.payload = << >>
              /\ e.id = i /\ (e.clean <=> (c.clean \/ Quiet)) /\ e.result = "pending"
BY DEF ClientState, Start

LEMMA DoRequestFields ==
    ASSUME NEW c \in ClientState, NEW a
    PROVE  LET e == [c EXCEPT !.pc = "send", !.payloadOffset = 0, !.offset = a]
           IN /\ e.pc = "send" /\ e.payloadOffset = 0 /\ e.offset = a /\ e.req = c.req
              /\ e.left = c.left /\ e.payload = c.payload /\ e.id = c.id
              /\ e.clean = c.clean
BY DEF ClientState

LEMMA SendFields ==
    ASSUME NEW c \in ClientState, NEW o, NEW l, NEW k
    PROVE  LET e == [c EXCEPT !.pc = "write_datagram", !.out = o, !.left = l,
                              !.writeLength = k, !.isWaitingForTimer = FALSE,
                              !.code = "pending"]
           IN /\ e.pc = "write_datagram" /\ e.out = o /\ e.left = l /\ e.writeLength = k
              /\ e.code = "pending" /\ e.req = c.req /\ e.offset = c.offset
              /\ e.payloadOffset = c.payloadOffset /\ e.payload = c.payload
              /\ e.id = c.id /\ e.clean = c.clean
BY DEF ClientState

LEMMA WriteFields ==
    ASSUME NEW c \in ClientState, NEW p, NEW o
    PROVE  LET e == [c EXCEPT !.pc = p, !.out = o]
           IN /\ e.pc = p /\ e.left = c.left /\ e.writeLength = c.writeLength
              /\ e.code = c.code /\ e.req = c.req /\ e.offset = c.offset
              /\ e.payloadOffset = c.payloadOffset /\ e.payload = c.payload
              /\ e.id = c.id /\ e.clean = c.clean /\ e.resp = c.resp
              /\ e.result = c.result
BY DEF ClientState

LEMMA OutcomeFields ==
    ASSUME NEW c \in ClientState, NEW p, NEW o
    PROVE  LET e == [c EXCEPT !.pc = p, !.dg = o]
           IN /\ e.pc = p /\ e.left = c.left /\ e.writeLength = c.writeLength
              /\ e.code = c.code /\ e.req = c.req /\ e.offset = c.offset
              /\ e.payloadOffset = c.payloadOffset /\ e.payload = c.payload
              /\ e.id = c.id /\ e.clean = c.clean /\ e.resp = c.resp
              /\ e.result = c.result /\ e.dg = o
BY DEF ClientState

LEMMA SleepFields ==
    ASSUME NEW c \in ClientState
    PROVE  LET e == [c EXCEPT !.pc = "sleep", !.isWaitingForTimer = TRUE,
                              !.timer = "active", !.triggered = FALSE]
           IN /\ e.pc = "sleep" /\ e.left = c.left /\ e.writeLength = c.writeLength
              /\ e.code = c.code /\ e.req = c.req /\ e.offset = c.offset
              /\ e.payloadOffset = c.payloadOffset /\ e.payload = c.payload
              /\ e.id = c.id /\ e.clean = c.clean /\ e.resp = c.resp
              /\ e.result = c.result /\ e.dg = c.dg
BY DEF ClientState

\* The step of a client that has a reply, or none: it returns or goes on to
\* the next datagram.  A return without an error, and going on, need a reply to
\* the last datagram that says so.
Answered(c, e) ==
    LET r == c.resp
    IN /\ c.code # "pending" /\ r.addr = c.offset
       /\ \/ /\ r.kind \in {"READ_FAILED", "WRITE_FAILED"}
             /\ e.pc = "idle" /\ e.payload = c.payload
             /\ r.error = "ERROR_OUT_OF_BOUNDS"
          \/ /\ r.kind = "READ_REPLY"
             /\ e.payload = c.payload \o r.bytes
             /\ e.pc = "idle" => Len(r.bytes) < Chunk \/ c.left = 0
             /\ e.pc = "send" =>
                   /\ ~(Len(r.bytes) < Chunk \/ c.left = 0)
                   /\ e.left = c.left /\ e.offset = c.offset + Len(r.bytes)
          \/ /\ r.kind \notin {"READ_FAILED", "WRITE_FAILED", "READ_REPLY"}
             /\ e.payload = c.payload
             /\ e.pc = "idle" => c.payloadOffset + c.writeLength >= c.req.size
             /\ e.pc = "send" => /\ e.payloadOffset = c.payloadOffset + c.writeLength
                                 /\ e.offset = c.offset + c.writeLength

LEMMA ResponseFields ==
    ASSUME NEW c \in ClientState, c.code # "pending" => c.resp \in Reply
    PROVE  LET e == Response(c)
           IN /\ e.req = c.req /\ e.id = c.id /\ e.pc \in {"idle", "send"}
              /\ e.clean => c.clean /\ c.code # "pending"
              /\ e.pc = "send" \/ e.result = "ok" => Answered(c, e)
<1> DEFINE done == [c EXCEPT !.timer = "idle"]
           late == [done EXCEPT !.clean = FALSE]
           read == [done EXCEPT !.payload = @ \o c.resp.bytes,
                                !.offset = @ + Len(c.resp.bytes)]
           written == [done EXCEPT !.offset = @ + c.writeLength,
                                   !.payloadOffset = @ + c.writeLength]
           e == Response(c)
<1>1. /\ done \in ClientState /\ done.payload = c.payload /\ done.req = c.req
      /\ done.offset = c.offset /\ done.payloadOffset = c.payloadOffset
      /\ done.left = c.left /\ done.id = c.id /\ done.clean = c.clean
  BY Values DEF ClientState
<1>2. CASE c.code = "pending" \/ (c.isWaitingForTimer /\ ~c.triggered)
  <2>1. e = HandleError(late, "timeout")
    BY <1>2 DEF Response
  <2>2. e = Return(late, "timeout")
    BY <2>1 DEF HandleError
  <2> HIDE DEF done, e
  <2>3. /\ late \in ClientState /\ late.req = c.req /\ late.id = c.id
        /\ late.clean = FALSE
    BY <1>1 DEF ClientState
  <2> HIDE DEF late
  <2>4. e.req = c.req /\ e.id = c.id /\ e.pc = "idle" /\ e.result = "timeout" /\ e.clean = FALSE
    BY <2>2, <2>3, ReturnFields
  <2> QED BY <2>4 DEF e
<1>3. CASE /\ ~(c.code = "pending" \/ (c.isWaitingForTimer /\ ~c.triggered))
           /\ ~IsReplyTo(c, c.resp)
  <2>1. e = Return(done, "out_of_order")
    BY <1>3 DEF Response, HandleError
  <2> HIDE DEF done, e
  <2>2. /\ e.req = c.req /\ e.id = c.id /\ e.pc = "idle" /\ e.result = "out_of_order"
        /\ e.clean = c.clean
    BY <1>1, <2>1, ReturnFields
  <2> QED BY <1>3, <2>2 DEF e
<1>4. CASE /\ ~(c.code = "pending" \/ (c.isWaitingForTimer /\ ~c.triggered))
           /\ IsReplyTo(c, c.resp)
           /\ c.resp.kind \in {"READ_FAILED", "WRITE_FAILED"}
  <2>1. e = Return(done, IF c.resp.error = "ERROR_OUT_OF_BOUNDS" THEN "ok" ELSE c.resp.error)
    BY <1>4 DEF Response, HandleError
  <2> HIDE DEF done, e
  <2>2. /\ e.req = c.req /\ e.id = c.id /\ e.pc = "idle" /\ e.payload = c.payload
        /\ e.clean = c.clean
        /\ e.result = IF c.resp.error = "ERROR_OUT_OF_BOUNDS" THEN "ok" ELSE c.resp.error
    BY <1>1, <2>1, ReturnFields
  <2>3. c.resp.addr = c.offset /\ c.resp.error \in Errors
    BY <1>4 DEF IsReplyTo, Reply
  <2> QED BY <1>4, <2>2, <2>3 DEF e, Answered, Errors
<1>5. CASE /\ ~(c.code = "pending" \/ (c.isWaitingForTimer /\ ~c.triggered))
           /\ IsReplyTo(c, c.resp)
           /\ c.resp.kind \notin {"READ_FAILED", "WRITE_FAILED"}
           /\ c.resp.kind = "READ_REPLY"
  <2> DEFINE last == Len(c.resp.bytes) < Chunk \/ c.left = 0
  <2>1. e = IF last THEN Return(read, "ok") ELSE [read EXCEPT !.pc = "send"]
    BY <1>5 DEF Response
  <2> HIDE DEF done, e
  <2>0. c.resp \in Reply /\ c.resp.addr = c.offset
    BY <1>5 DEF IsReplyTo
  <2>2. /\ read \in ClientState /\ read.req = c.req /\ read.id = c.id
        /\ read.clean = c.clean /\ read.payload = c.payload \o c.resp.bytes
        /\ read.offset = c.offset + Len(c.resp.bytes) /\ read.left = c.left
    <3>1. c.payload \in Seq(Byte) /\ c.resp.bytes \in Seq(Byte) /\ c.offset \in Nat
      BY <2>0 DEF ClientState, Reply
    <3>2. c.payload \o c.resp.bytes \in Seq(Byte) /\ c.offset + Len(c.resp.bytes) \in Nat
      BY <3>1
    <3> QED BY <1>1, <3>2 DEF ClientState
  <2> HIDE DEF read
  <2>3. CASE last
    <3>1. /\ e.req = c.req /\ e.id = c.id /\ e.pc = "idle" /\ e.result = "ok"
          /\ e.clean = c.clean /\ e.payload = c.payload \o c.resp.bytes
      BY <2>1, <2>2, <2>3, ReturnFields
    <3> QED BY <1>5, <2>0, <2>3, <3>1 DEF e, Answered
  <2>4. CASE ~last
    <3>1. /\ e.req = c.req /\ e.id = c.id /\ e.pc = "send" /\ e.clean = c.clean
          /\ e.payload = c.payload \o c.resp.bytes /\ e.left = c.left
          /\ e.offset = c.offset + Len(c.resp.bytes)
      BY <2>1, <2>2, <2>4 DEF ClientState
    <3> QED BY <1>5, <2>0, <2>4, <3>1 DEF e, Answered
  <2> QED BY <2>3, <2>4
<1>6. CASE /\ ~(c.code = "pending" \/ (c.isWaitingForTimer /\ ~c.triggered))
           /\ IsReplyTo(c, c.resp)
           /\ c.resp.kind \notin {"READ_FAILED", "WRITE_FAILED"}
           /\ c.resp.kind # "READ_REPLY"
  <2> DEFINE last == c.payloadOffset + c.writeLength >= c.req.size
  <2>0. c.resp \in Reply /\ c.resp.addr = c.offset
    BY <1>6 DEF IsReplyTo
  <2>2. /\ written \in ClientState /\ written.req = c.req /\ written.id = c.id
        /\ written.clean = c.clean /\ written.payload = c.payload
        /\ written.offset = c.offset + c.writeLength
        /\ written.payloadOffset = c.payloadOffset + c.writeLength
    <3>1. c.offset + c.writeLength \in Nat /\ c.payloadOffset + c.writeLength \in Nat
      BY DEF ClientState
    <3> HIDE DEF done
    <3> QED BY <1>1, <3>1 DEF ClientState
  <2>1. e = IF written.payloadOffset >= c.req.size
            THEN Return(written, "ok") ELSE [written EXCEPT !.pc = "send"]
    BY <1>6 DEF Response
  <2> HIDE DEF done, written, e
  <2>3. CASE last
    <3>1. /\ e.req = c.req /\ e.id = c.id /\ e.pc = "idle" /\ e.result = "ok"
          /\ e.clean = c.clean /\ e.payload = c.payload
      BY <2>1, <2>2, <2>3, ReturnFields
    <3> QED BY <1>6, <2>0, <2>3, <3>1 DEF e, Answered
  <2>4. CASE ~last
    <3>1. /\ e.req = c.req /\ e.id = c.id /\ e.pc = "send" /\ e.clean = c.clean
          /\ e.payload = c.payload
          /\ e.offset = c.offset + c.writeLength
          /\ e.payloadOffset = c.payloadOffset + c.writeLength
      BY <2>1, <2>2, <2>4 DEF ClientState
    <3> QED BY <1>6, <2>0, <2>4, <3>1 DEF e, Answered
  <2> QED BY <2>3, <2>4
<1> QED BY <1>2, <1>3, <1>4, <1>5, <1>6, Zenon

\* The end of the wait for the outcome of a datagram: as above, or the client
\* goes to sleep, or it returns.  A write returns without an error only when
\* the outcome says that it is done.
LEMMA CompletedFields ==
    ASSUME NEW c \in ClientState, c.code # "pending" => c.resp \in Reply
    PROVE  LET e == Completed(c)
           IN /\ e.req = c.req /\ e.id = c.id /\ e.pc \in {"idle", "send", "sleep"}
              /\ e.clean => c.clean
              /\ e.clean /\ c.code = "pending" /\ c.req.cmd # "META" =>
                    c.dg # "ok_reply_pending" \/ e.pc = "sleep"
              /\ e.pc = "send" => Answered(c, e) /\ c.req.cmd # "META"
              /\ e.pc = "sleep" =>
                    /\ c.code = "pending" /\ e.left = c.left
                    /\ e.writeLength = c.writeLength /\ e.code = c.code
                    /\ e.offset = c.offset /\ e.payloadOffset = c.payloadOffset
                    /\ e.payload = c.payload /\ e.resp = c.resp /\ e.dg = c.dg
              /\ e.pc = "idle" /\ e.result = "ok" /\ c.req.cmd # "META" =>
                    Answered(c, e) \/ (c.dg = "ok" /\ c.req.cmd = "WRITE")
<1> DEFINE e == Completed(c)
<1>1. CASE c.req.cmd = "META"
  <2>1. \E r : e = Return(c, r)
    BY <1>1 DEF Completed
  <2> HIDE DEF e
  <2> QED BY <1>1, <2>1, ReturnFields DEF e
<1>2. CASE c.req.cmd # "META" /\ c.dg \notin {"ok", "ok_reply_pending"}
  <2>1. e = Return(c, c.dg)
    <3>1. c.dg # "ERROR_OUT_OF_BOUNDS"
      BY DEF ClientState, Dgs, Outcomes
    <3> QED BY <1>2, <3>1 DEF Completed, HandleError
  <2> HIDE DEF e
  <2>2. e.pc = "idle" /\ e.result = c.dg /\ e.req = c.req /\ e.id = c.id /\ e.clean = c.clean
    BY <2>1, ReturnFields
  <2> QED BY <1>2, <2>2 DEF e
<1>3. CASE c.req.cmd = "WRITE" /\ c.dg = "ok"
  <2>1. e = Return(c, "ok")
    BY <1>3 DEF Completed
  <2> HIDE DEF e
  <2>2. e.pc = "idle" /\ e.req = c.req /\ e.id = c.id /\ e.clean = c.clean
    BY <2>1, ReturnFields
  <2> QED BY <1>3, <2>2 DEF e
<1>4. CASE /\ c.req.cmd # "META" /\ c.dg \in {"ok", "ok_reply_pending"}
           /\ ~(c.req.cmd = "WRITE" /\ c.dg = "ok") /\ c.code = "pending"
  <2>1. e = [c EXCEPT !.pc = "sleep", !.isWaitingForTimer = TRUE,
                      !.timer = "active", !.triggered = FALSE]
    BY <1>4 DEF Completed
  <2> HIDE DEF e
  <2> QED BY <1>4, <2>1, SleepFields DEF e
<1>5. CASE /\ c.req.cmd # "META" /\ c.dg \in {"ok", "ok_reply_pending"}
           /\ ~(c.req.cmd = "WRITE" /\ c.dg = "ok") /\ c.code # "pending"
  <2>1. e = Response(c)
    BY <1>5 DEF Completed
  <2> HIDE DEF e
  <2> QED BY <1>5, <2>1, ResponseFields DEF e
<1> QED BY <1>1, <1>2, <1>3, <1>4, <1>5, Zenon
-----------------------------------------------------------------------------
(* Who sends what to whom. *)

\* A queue that gets one more or loses some holds messages of others still.
LEMMA OthersAppend ==
    ASSUME NEW T, NEW q \in [Nodes -> Seq(T)], NEW z \in Nodes, NEW r \in T, r.src # z,
           NEW n \in Nodes, \A i \in 1..Len(q[n]) : q[n][i].src # n
    PROVE  LET p == [q EXCEPT ![z] = Append(@, r)] IN \A i \in 1..Len(p[n]) : p[n][i].src # n
<1> DEFINE p == [q EXCEPT ![z] = Append(@, r)]
<1>1. CASE n = z
  <2>1. p[n] = Append(q[n], r)
    BY <1>1
  <2> HIDE DEF p
  <2>2. q[n] \in Seq(T)
    OBVIOUS
  <2>3. /\ Len(p[n]) = Len(q[n]) + 1 /\ p[n][Len(q[n]) + 1] = r
        /\ \A i \in 1..Len(q[n]) : p[n][i] = q[n][i]
    BY <2>1, <2>2, AppendShape
  <2>4. \A i \in 1..Len(p[n]) : i \in 1..Len(q[n]) \/ i = Len(q[n]) + 1
    BY <2>2, <2>3
  <2>5. \A i \in 1..Len(p[n]) : p[n][i].src # n
    BY <1>1, <2>3, <2>4
  <2> QED BY <2>5 DEF p
<1>2. CASE n # z
  <2>1. p[n] = q[n]
    BY <1>2
  <2> HIDE DEF p
  <2> QED BY <2>1 DEF p
<1> QED BY <1>1, <1>2

LEMMA OthersTail ==
    ASSUME NEW T, NEW q \in [Nodes -> Seq(T)], NEW z \in Nodes, q[z] # << >>,
           NEW n \in Nodes, \A i \in 1..Len(q[n]) : q[n][i].src # n
    PROVE  LET p == [q EXCEPT ![z] = Tail(@)] IN \A i \in 1..Len(p[n]) : p[n][i].src # n
<1> DEFINE p == [q EXCEPT ![z] = Tail(@)]
<1>1. CASE n = z
  <2>1. p[n] = Tail(q[n])
    BY <1>1
  <2> HIDE DEF p
  <2>2. q[n] \in Seq(T) /\ q[n] # << >>
    BY <1>1
  <2>3. /\ Len(p[n]) = Len(q[n]) - 1 /\ Len(q[n]) \in Nat
        /\ \A i \in 1..Len(p[n]) : p[n][i] = q[n][i + 1]
    BY <2>1, <2>2, TailShape
  <2>4. \A i \in 1..Len(p[n]) : i + 1 \in 1..Len(q[n])
    BY <2>3
  <2>5. \A i \in 1..Len(p[n]) : p[n][i].src # n
    BY <2>3, <2>4
  <2> QED BY <2>5 DEF p
<1>2. CASE n # z
  <2>1. p[n] = q[n]
    BY <1>2
  <2> HIDE DEF p
  <2> QED BY <2>1 DEF p
<1> QED BY <1>1, <1>2

\* The queues of Senders.
Others(n) ==
    /\ \A i \in 1..Len(hq[n]) : hq[n][i].src # n
    /\ \A i \in 1..Len(rq[n]) : rq[n][i].src # n
    /\ \A i \in 1..Len(dgs[n]) : dgs[n][i].src # n
    /\ \A i \in 1..Len(acks[n]) : acks[n][i].src # n

\* The client's and the handler's part.
ClientSends(n, c) ==
    /\ c.req.cmd # "none" => c.req \in Requests /\ c.req.src = n
    /\ c.pc = "write_datagram" => c.out = Current(c)
HandlerSends(n, h) ==
    /\ h.pc # "idle" => h.msg.src # n
    /\ h.pc \in {"alloc", "send"} => h.response.src = n

LEMMA SendersParts ==
    ASSUME NEW n
    PROVE  Senders(n) <=> /\ Others(n) /\ ClientSends(n, cli[n])
                          /\ HandlerSends(n, hnd[n])
                          /\ ~(cli[n].pc = "wait_dg" /\ hnd[n].pc = "wait_dg")
BY Zenon DEF Senders, Others, ClientSends, HandlerSends

\* An answer goes to another node than the one that gives it.
LEMMA OthersAnswer ==
    ASSUME Queues, NEW z \in Nodes, NEW r \in Command \cup Reply, NEW o \in Outcomes,
           Answer(z, r, o), r.src # z, NEW n \in Nodes, Others(n)
    PROVE  \A i \in 1..Len(acks'[n]) : acks'[n][i].src # n
<1> DEFINE a == [src |-> z, outcome |-> o]
<1>1. r.src \in Nodes
  BY DEF Command, Reply
<1>2. a \in Ack /\ a.src = z
  BY DEF Ack
<1>3. acks' = [acks EXCEPT ![r.src] = Append(@, a)] /\ acks \in [Nodes -> Seq(Ack)]
  BY DEF Answer, Queues
<1> HIDE DEF a
<1> QED BY <1>1, <1>2, <1>3, OthersAppend DEF Others

\* Nothing is sent: who does not change keeps its part.
LEMMA OthersSame ==
    ASSUME NEW n, Others(n), UNCHANGED <<queues, wire>>
    PROVE  Others(n)'
BY DEF Others, queues, wire

\* A step of one client, with the handler's state and the queues as they were.
LEMMA SendersClient ==
    ASSUME SenderInv, NEW z \in Nodes, NEW c, cli' = [cli EXCEPT ![z] = c],
           DOMAIN cli = Nodes, DOMAIN hnd = Nodes,
           ClientSends(z, c), c.pc # "wait_dg" \/ hnd'[z].pc # "wait_dg",
           \A n \in Nodes : HandlerSends(n, hnd'[n]) /\ hnd'[n].pc = hnd[n].pc,
           \A n \in Nodes : Others(n)'
    PROVE  SenderInv'
<1> SUFFICES ASSUME NEW n \in Nodes PROVE Senders(n)'
  BY DEF SenderInv
<1>1. Senders(n) /\ cli'[n] = IF n = z THEN c ELSE cli[n]
  BY DEF SenderInv
<1>2. ClientSends(n, cli'[n]) /\ ~(cli'[n].pc = "wait_dg" /\ hnd'[n].pc = "wait_dg")
  <2>1. CASE n = z
    BY <1>1, <2>1, Zenon
  <2>2. CASE n # z
    BY <1>1, <2>2, SendersParts, Zenon
  <2> QED BY <2>1, <2>2
<1> QED BY <1>2 DEF Senders, Others, ClientSends, HandlerSends

\* A step of one handler that does not make it wait.
LEMMA SendersHandler ==
    ASSUME SenderInv, NEW z \in Nodes, NEW h, hnd' = [hnd EXCEPT ![z] = h], cli' = cli,
           DOMAIN hnd = Nodes, HandlerSends(z, h),
           h.pc # "wait_dg" \/ cli[z].pc # "wait_dg",
           \A n \in Nodes : Others(n)'
    PROVE  SenderInv'
<1> SUFFICES ASSUME NEW n \in Nodes PROVE Senders(n)'
  BY DEF SenderInv
<1>1. Senders(n) /\ hnd'[n] = IF n = z THEN h ELSE hnd[n]
  BY DEF SenderInv
<1>2. HandlerSends(n, hnd'[n]) /\ ~(cli'[n].pc = "wait_dg" /\ hnd'[n].pc = "wait_dg")
  <2>1. CASE n = z
    BY <1>1, <2>1, Zenon
  <2>2. CASE n # z
    BY <1>1, <2>2, SendersParts, Zenon
  <2> QED BY <2>1, <2>2
<1>3. ClientSends(n, cli'[n])
  BY <1>1, SendersParts, Zenon
<1> QED BY <1>2, <1>3 DEF Senders, Others, ClientSends, HandlerSends
\* The client of a node has asked the other one.
LEMMA AskedOther ==
    ASSUME BytesInv, NEW n \in Nodes, Senders(n), cli[n].pc # "idle"
    PROVE  /\ cli[n].req \in Requests /\ cli[n].req.src = n
           /\ cli[n].req.dst \in Nodes /\ cli[n].req.dst # n
           /\ cli[n].req.cmd \in {"READ", "WRITE", "META"}
<1>1. cli[n].req \in Requests
  BY DEF BytesInv, Clients, ClientInv
<1>2. cli[n].req.cmd \in {"READ", "WRITE", "META"}
  BY <1>1, RequestType
<1> QED BY <1>1, <1>2, MemoryConfigAssumption DEF MemoryConfigAssumption, Senders

\* The flag that the handler has a client says nothing of the handler.
LEMMA FlagFields ==
    ASSUME Handlers, NEW z \in Nodes, NEW b,
           hnd' = [hnd EXCEPT ![z].client = b] \/ hnd' = hnd,
           NEW n \in Nodes
    PROVE  /\ hnd'[n].pc = hnd[n].pc /\ hnd'[n].msg = hnd[n].msg
           /\ hnd'[n].response = hnd[n].response
           /\ SameHandler(hnd[n], hnd'[n])
<1>1. hnd[z] \in HandlerState
  BY DEF Handlers
<1>2. LET h == [hnd[z] EXCEPT !.client = b]
      IN /\ h.pc = hnd[z].pc /\ h.msg = hnd[z].msg /\ h.response = hnd[z].response
         /\ h.currentOffset = hnd[z].currentOffset /\ h.bytes = hnd[z].bytes
  BY <1>1 DEF HandlerState
<1>3. hnd'[n] = hnd[n] \/ (n = z /\ hnd'[n] = [hnd[z] EXCEPT !.client = b])
  BY DEF Handlers
<1> QED BY <1>2, <1>3 DEF SameHandler

\* The end of a response.
LEMMA FlowFields ==
    ASSUME Handlers, NEW z \in Nodes, ResponseFlowComplete(z)
    PROVE  /\ hnd' = [hnd EXCEPT ![z] = [IdleHandler EXCEPT !.client = hnd[z].client]]
           /\ [IdleHandler EXCEPT !.client = hnd[z].client].pc = "idle"
BY DEF ResponseFlowComplete, IdleHandler

\* Whatever a step of a client does, it sends what its client made for another.
LEMMA SenderClientSteps ==
    ASSUME BytesInv, SenderInv, TwoNodes, NEW z \in Nodes, Entry(z) \/ ClientStep(z)
    PROVE  SenderInv'
<1> DEFINE c == cli[z]
<1>0. /\ Clients /\ Handlers /\ Queues /\ c \in ClientState /\ ClientInv(c)
      /\ DOMAIN cli = Nodes /\ DOMAIN hnd = Nodes /\ Senders(z)
      /\ \A n \in Nodes : Others(n) /\ HandlerSends(n, hnd[n])
      /\ ClientSends(z, c)
  BY SendersParts DEF BytesInv, Clients, Handlers, SenderInv
<1> HIDE DEF c
<1>01. UNCHANGED <<queues, wire>> => \A n \in Nodes : Others(n)'
  BY <1>0, OthersSame
<1>02. ASSUME NEW b, hnd' = [hnd EXCEPT ![z].client = b] \/ hnd' = hnd
       PROVE  \A n \in Nodes : HandlerSends(n, hnd'[n]) /\ hnd'[n].pc = hnd[n].pc
  <2>1. \A n \in Nodes : /\ hnd'[n].pc = hnd[n].pc /\ hnd'[n].msg = hnd[n].msg
                         /\ hnd'[n].response = hnd[n].response
    BY <1>0, <1>02, FlagFields
  <2> QED BY <1>0, <2>1 DEF HandlerSends
<1>03. hnd' = hnd => \A n \in Nodes : HandlerSends(n, hnd'[n]) /\ hnd'[n].pc = hnd[n].pc
  BY <1>0
<1>04. ASSUME NEW e, Cleanup(z, e), UNCHANGED <<queues, wire>>, e.req = c.req,
              e.pc \in {"idle", "send", "sleep"}
       PROVE  SenderInv'
  <2>1. ClientSends(z, e)
    BY <1>0, <1>04 DEF ClientSends
  <2>2. cli' = [cli EXCEPT ![z] = e]
        /\ (hnd' = [hnd EXCEPT ![z].client = FALSE] \/ hnd' = hnd)
    BY <1>04 DEF Cleanup
  <2>3. \A n \in Nodes : HandlerSends(n, hnd'[n]) /\ hnd'[n].pc = hnd[n].pc
    BY <1>02, <2>2
  <2> QED BY <1>0, <1>01, <1>04, <2>1, <2>2, <2>3, SendersClient
<1>05. ASSUME NEW e, cli' = [cli EXCEPT ![z] = e], SameClient(c, e), e.out = c.out,
              hnd' = hnd, \A n \in Nodes : Others(n)'
       PROVE  SenderInv'
  <2>1. ClientSends(z, e) /\ (e.pc # "wait_dg" \/ hnd'[z].pc # "wait_dg")
    BY <1>0, <1>05 DEF ClientSends, SameClient, Current, Senders, c
  <2> QED BY <1>0, <1>03, <1>05, <2>1, SendersClient
<1>1. CASE Entry(z)
  <2>1. PICK r \in Requests : r.src = z /\ cli' = [cli EXCEPT ![z] = Start(c, r, asked + 1)]
    BY <1>1 DEF Entry, c
  <2> DEFINE e == Start(c, r, asked + 1)
  <2>2. e.pc = "alloc" /\ e.req = r
    BY <1>0, StartFields
  <2>3. cli' = [cli EXCEPT ![z] = e] /\ hnd' = hnd /\ UNCHANGED <<queues, wire>>
    BY <1>1, <2>1 DEF Entry
  <2> HIDE DEF e
  <2>4. ClientSends(z, e)
    BY <2>1, <2>2 DEF ClientSends
  <2> QED BY <1>0, <1>01, <1>03, <2>2, <2>3, <2>4, SendersClient
<1>2. CASE DoRequest(z)
  <2> DEFINE e == [c EXCEPT !.pc = "send", !.payloadOffset = 0, !.offset = c.req.addr]
  <2>1. e.pc = "send" /\ e.req = c.req
    BY <1>0, DoRequestFields
  <2>2. /\ cli' = [cli EXCEPT ![z] = e] /\ UNCHANGED <<queues, wire>>
        /\ hnd' = [hnd EXCEPT ![z].client = c.req.cmd # "META"]
    BY <1>2 DEF DoRequest, c
  <2> HIDE DEF e
  <2>3. ClientSends(z, e)
    BY <1>0, <2>1 DEF ClientSends
  <2>4. \A n \in Nodes : HandlerSends(n, hnd'[n]) /\ hnd'[n].pc = hnd[n].pc
    BY <1>02, <2>2
  <2> QED BY <1>0, <1>01, <2>1, <2>2, <2>3, <2>4, SendersClient
<1>3. CASE SendDatagram(z)
  <2> DEFINE d == [kind |-> c.req.cmd, src |-> z, space |-> c.req.space,
                   addr |-> c.offset, len |-> NextLength(c), id |-> c.id]
             l == IF c.req.cmd = "READ" THEN Left(c) ELSE c.left
             e == [c EXCEPT !.pc = "write_datagram", !.out = d, !.left = l,
                            !.writeLength = NextLength(c),
                            !.isWaitingForTimer = FALSE, !.code = "pending"]
  <2>1. /\ cli' = [cli EXCEPT ![z] = e] /\ hnd' = hnd /\ UNCHANGED <<queues, wire>>
        /\ c.pc = "send"
    BY <1>3 DEF SendDatagram, c
  <2> HIDE DEF d, l
  <2>2. /\ e.pc = "write_datagram" /\ e.req = c.req /\ e.out = d /\ e.offset = c.offset
        /\ e.writeLength = NextLength(c) /\ e.id = c.id
    BY <1>0, SendFields
  <2> HIDE DEF e
  <2>3. c.req \in Requests /\ c.req.src = z
    BY <1>0, <2>1, AskedOther DEF c
  <2>4. ClientSends(z, e)
    BY <2>2, <2>3 DEF ClientSends, Current, d
  <2> QED BY <1>0, <1>01, <1>03, <2>1, <2>2, <2>4, SendersClient
<1>4. CASE WriteDatagram(z)
  <2> DEFINE e == [c EXCEPT !.pc = "wait_dg", !.out = NoReply]
  <2>1. /\ cli' = [cli EXCEPT ![z] = e] /\ hnd' = hnd /\ c.pc = "write_datagram"
        /\ hq' = [hq EXCEPT ![c.req.dst] = Append(@, c.out)] /\ UNCHANGED <<rq, wire>>
        /\ ~Busy(z, c.req.dst)
    BY <1>4 DEF WriteDatagram, c
  <2>2. e.pc = "wait_dg" /\ e.req = c.req
    BY <1>0, WriteFields
  <2> HIDE DEF e
  <2>3. ClientSends(z, e)
    BY <1>0, <2>2 DEF ClientSends
  <2>4. c.req.src = z /\ c.req.dst \in Nodes /\ c.req.dst # z
    BY <1>0, <2>1, AskedOther DEF c
  <2>5. c.out \in Command /\ c.out.src = z
    BY <1>0, <2>1, <2>4 DEF ClientInv, ClientSends, Current
  <2>6. c.out \in Command \cup Reply /\ hq \in [Nodes -> Seq(Command \cup Reply)]
    BY <1>0, <2>5 DEF Queues
  <2>7. \A n \in Nodes : Others(n)'
    <3> TAKE n \in Nodes
    <3>1. \A i \in 1..Len(hq'[n]) : hq'[n][i].src # n
      <4>1. \A i \in 1..Len(hq[n]) : hq[n][i].src # n
        BY <1>0 DEF Others
      <4> QED BY <2>1, <2>4, <2>5, <2>6, <4>1, OthersAppend
    <3> QED BY <1>0, <2>1, <3>1 DEF Others, wire
  <2>8. hnd'[z].pc # "wait_dg"
    <3>1. hnd[z].pc # "idle" => hnd[z].msg \in Command /\ hnd[z].msg.src \in Nodes
      BY <1>0 DEF Handlers, HandlerInv, Command
    <3> QED BY <1>0, <2>1, <2>4, <3>1 DEF Busy, HandlerSends, TwoNodes
  <2> QED BY <1>0, <1>03, <2>1, <2>3, <2>7, <2>8, SendersClient
<1>5. CASE DatagramComplete(z)
  <2>1. /\ Cleanup(z, Completed(c)) /\ UNCHANGED <<queues, wire>> /\ c.pc = "complete"
    BY <1>5 DEF DatagramComplete, c
  <2>2. c.code # "pending" => c.resp \in Reply
    BY <1>0, <2>1 DEF ClientInv
  <2>3. LET e == Completed(c) IN e.req = c.req /\ e.pc \in {"idle", "send", "sleep"}
    BY <1>0, <2>2, CompletedFields
  <2> QED BY <1>04, <2>1, <2>3
<1>6. CASE ResponseTimeout(z)
  <2>1. /\ Cleanup(z, Response(c)) /\ UNCHANGED <<queues, wire>> /\ c.pc = "sleep"
    BY <1>6 DEF ResponseTimeout, c
  <2>2. c.code # "pending" => c.resp \in Reply
    BY <1>0, <2>1 DEF ClientInv
  <2>3. LET e == Response(c) IN e.req = c.req /\ e.pc \in {"idle", "send", "sleep"}
    BY <1>0, <2>2, ResponseFields
  <2> QED BY <1>04, <2>1, <2>3
<1>7. CASE TimerExpires(z)
  <2> DEFINE e == [c EXCEPT !.timer = "expired"]
  <2>1. cli' = [cli EXCEPT ![z] = e] /\ hnd' = hnd /\ UNCHANGED <<queues, wire>>
    BY <1>7 DEF TimerExpires, c
  <2>2. SameClient(c, e) /\ e.out = c.out
    BY <1>0, TimerFields
  <2> HIDE DEF e
  <2> QED BY <1>01, <1>05, <2>1, <2>2
<1>8. CASE TimerRun(z)
  <2> DEFINE e == [c EXCEPT !.timer = "notified"]
  <2>1. cli' = [cli EXCEPT ![z] = e] /\ hnd' = hnd /\ UNCHANGED <<queues, wire>>
    BY <1>8 DEF TimerRun, c
  <2>2. SameClient(c, e) /\ e.out = c.out
    BY <1>0, TimerFields
  <2> HIDE DEF e
  <2> QED BY <1>01, <1>05, <2>1, <2>2
<1>9. CASE ResponseEntry(z)
  <2> DEFINE m == Head(rq[z])
             e == Replied(c, m)
  <2>1. /\ rq[z] # << >> /\ rq' = [rq EXCEPT ![z] = Tail(@)] /\ UNCHANGED <<hnd, hq, dgs>>
        /\ \/ cli' = [cli EXCEPT ![z] = e] /\ Answer(z, m, "ok")
           \/ cli' = cli /\ Answer(z, m, "rejected")
    BY <1>9 DEF ResponseEntry, Replied, c
  <2>2. m \in Reply /\ m.src # z
    <3>1. rq[z] \in Seq(Reply) /\ m = rq[z][1] /\ m \in Reply /\ 1 \in 1..Len(rq[z])
      BY <1>0, <2>1, TailShape DEF Queues
    <3> QED BY <1>0, <3>1 DEF Others
  <2>3. e.pc = c.pc /\ e.req = c.req /\ e.out = c.out /\ e.offset = c.offset
        /\ e.writeLength = c.writeLength /\ e.id = c.id
    <3> HIDE DEF m
    <3>1. m \in Resps
      BY <2>2, Values
    <3> QED BY <1>0, <3>1, ReplyFields
  <2> HIDE DEF e, m
  <2>4. \A n \in Nodes : Others(n)'
    <3> TAKE n \in Nodes
    <3>1. \A i \in 1..Len(rq'[n]) : rq'[n][i].src # n
      <4>1. (\A i \in 1..Len(rq[n]) : rq[n][i].src # n) /\ rq \in [Nodes -> Seq(Reply)]
        BY <1>0 DEF Others, Queues
      <4> QED BY <2>1, <4>1, OthersTail
    <3>2. \A i \in 1..Len(acks'[n]) : acks'[n][i].src # n
      BY <1>0, <2>1, <2>2, OthersAnswer DEF Outcomes
    <3> QED BY <1>0, <2>1, <3>1, <3>2 DEF Others
  <2>5. CASE cli' = [cli EXCEPT ![z] = e]
    <3>1. ClientSends(z, e) /\ (e.pc # "wait_dg" \/ hnd'[z].pc # "wait_dg")
      BY <1>0, <2>1, <2>3 DEF ClientSends, Current, Senders, c
    <3> QED BY <1>0, <1>03, <2>1, <2>4, <2>5, <3>1, SendersClient
  <2>6. CASE cli' = cli
    <3>1. cli' = [cli EXCEPT ![z] = c]
      BY <1>0, <2>6 DEF c, Clients
    <3> QED BY <1>0, <1>03, <2>1, <2>4, <3>1, SendersClient DEF Senders, c
  <2> QED BY <2>1, <2>5, <2>6
<1> QED BY <1>1, <1>2, <1>3, <1>4, <1>5, <1>6, <1>7, <1>8, <1>9 DEF ClientStep

\* What a response says of its handler.
LEMMA RespondFields ==
    ASSUME NEW h \in HandlerState, NEW n, NEW k, NEW e
    PROVE  LET g == Respond(n, h, k, e)
           IN /\ g.pc = "alloc" /\ g.msg = h.msg
              /\ g.response.kind = k /\ g.response.src = n /\ g.response.error = e
              /\ g.response.space = h.msg.space /\ g.response.addr = h.msg.addr
              /\ k = "READ_REPLY" => g.response.bytes = h.bytes
<1> DEFINE r == [kind |-> k, src |-> n, space |-> h.msg.space, addr |-> h.msg.addr,
                 error |-> e, bytes |-> IF k = "READ_REPLY" THEN h.bytes ELSE << >>]
           g == [h EXCEPT !.pc = "alloc", !.bytes = << >>, !.currentOffset = 0,
                          !.response = r]
<1>1. g = Respond(n, h, k, e)
  BY DEF Respond
<1>2. g.pc = "alloc" /\ g.msg = h.msg /\ g.response = r
  <2> HIDE DEF r
  <2> QED BY DEF HandlerState
<1>3. /\ r.kind = k /\ r.src = n /\ r.error = e /\ r.space = h.msg.space
      /\ r.addr = h.msg.addr
      /\ k = "READ_REPLY" => r.bytes = h.bytes
  OBVIOUS
<1> HIDE DEF g, r
<1> QED BY <1>1, <1>2, <1>3

LEMMA MoreFields ==
    ASSUME NEW h \in HandlerState, NEW o, NEW b
    PROVE  LET g == [h EXCEPT !.currentOffset = o, !.bytes = b]
           IN /\ g.pc = h.pc /\ g.msg = h.msg /\ g.response = h.response
              /\ g.currentOffset = o /\ g.bytes = b
BY DEF HandlerState

LEMMA OffsetFields ==
    ASSUME NEW h \in HandlerState, NEW o
    PROVE  LET g == [h EXCEPT !.currentOffset = o]
           IN /\ g.pc = h.pc /\ g.msg = h.msg /\ g.response = h.response
              /\ g.currentOffset = o /\ g.bytes = h.bytes
BY DEF HandlerState

\* What one step of a handler that tries to read or to write does to it: k bytes
\* more, or a response, after k bytes more, with what it has, or with a failure.
ReadsMore(n, h, k) ==
    [h EXCEPT !.currentOffset = @ + k, !.bytes = @ \o
        [i \in 1..k |-> <<h.msg.addr + h.currentOffset + i - 1,
                          mem[n][h.msg.addr + h.currentOffset + i - 1]>>]]
WritesMore(h, k) == [h EXCEPT !.currentOffset = @ + k]

LEMMA ReadsMoreFields ==
    ASSUME BytesInv, NEW n \in Nodes, hnd[n].pc = "try", hnd[n].msg.kind = "READ",
           NEW k \in Possible(hnd[n])
    PROVE  LET h == hnd[n]
               at == h.msg.addr + h.currentOffset
               g == ReadsMore(n, h, k)
           IN /\ HandlerOK(g) /\ g \in HandlerState /\ g.pc = "try" /\ g.msg = h.msg
              /\ g.currentOffset = h.currentOffset + k
              /\ g.bytes = h.bytes \o [i \in 1..k |-> <<at + i - 1, mem[n][at + i - 1]>>]
<1> DEFINE h == hnd[n]
           o == h.currentOffset + k
           b == h.bytes \o [i \in 1..k |-> <<h.msg.addr + h.currentOffset + i - 1,
                                          mem[n][h.msg.addr + h.currentOffset + i - 1]>>]
           g == [h EXCEPT !.currentOffset = o, !.bytes = b]
<1>1. HandlerOK(h) /\ h \in HandlerState /\ mem[n] \in [0..SpaceSize - 1 -> Nat]
  BY DEF BytesInv, Handlers, HandlerOK, Memory
<1>2. g = ReadsMore(n, h, k)
  BY DEF ReadsMore
<1>3. HandlerOK(ReadsMore(n, h, k))
  BY <1>1, ReadMoreOK DEF ReadsMore
<1>4. g.pc = h.pc /\ g.msg = h.msg /\ g.currentOffset = o /\ g.bytes = b
  <2> HIDE DEF h, o, b
  <2> QED BY <1>1, MoreFields
<1> HIDE DEF g
<1> QED BY <1>2, <1>3, <1>4 DEF HandlerOK

LEMMA WritesMoreFields ==
    ASSUME NEW h \in HandlerState, HandlerInv(h), h.pc = "try", h.msg.kind = "WRITE",
           NEW k \in Possible(h)
    PROVE  LET g == WritesMore(h, k)
           IN /\ g \in HandlerState /\ g.pc = "try" /\ g.msg = h.msg /\ g.bytes = h.bytes
              /\ g.currentOffset = h.currentOffset + k /\ k \in Nat
<1>1. k \in Nat
  BY DEF Possible, HandlerState, HandlerInv, Command
<1>2. HandlerOK([h EXCEPT !.currentOffset = @ + k])
  BY <1>1, WriteMoreOK DEF HandlerOK
<1> DEFINE o == h.currentOffset + k
           g == [h EXCEPT !.currentOffset = o]
<1>3. g = WritesMore(h, k)
  BY DEF WritesMore
<1>4. g.pc = h.pc /\ g.msg = h.msg /\ g.currentOffset = o /\ g.bytes = h.bytes
  <2> HIDE DEF o
  <2> QED BY OffsetFields
<1>5. WritesMore(h, k) \in HandlerState
  BY <1>2 DEF WritesMore, HandlerOK
<1> HIDE DEF g
<1> QED BY <1>1, <1>3, <1>4, <1>5

LEMMA TryReadStep ==
    ASSUME NEW n, TryRead(n)
    PROVE  LET h == hnd[n]
           IN /\ h.pc = "try" /\ h.msg.kind = "READ"
              /\ UNCHANGED <<cli, pool, mem, queues, wire, bounds>>
              /\ \/ \E k \in Possible(h) :
                       hnd' = [hnd EXCEPT ![n] = ReadsMore(n, h, k)]
                 \/ \E k \in Possible(h) :
                       /\ Complete(ReadsMore(n, h, k))
                       /\ hnd' = [hnd EXCEPT ![n] =
                                     Respond(n, ReadsMore(n, h, k), "READ_REPLY", "none")]
                 \/ /\ Complete(h) \/ AtEnd(h)
                    /\ hnd' = [hnd EXCEPT ![n] = Respond(n, h, "READ_REPLY", "none")]
                 \/ /\ AtEnd(h) /\ ~(h.currentOffset > 0)
                    /\ hnd' = [hnd EXCEPT ![n] =
                                  Respond(n, h, "READ_FAILED", "ERROR_OUT_OF_BOUNDS")]
                 \/ hnd' = [hnd EXCEPT ![n] = Respond(n, h, "READ_FAILED", "failed")]
BY DEF TryRead, ReadsMore

LEMMA TryWriteStep ==
    ASSUME NEW n, TryWrite(n)
    PROVE  LET h == hnd[n]
               at == h.msg.addr + h.currentOffset
           IN /\ h.pc = "try" /\ h.msg.kind = "WRITE"
              /\ UNCHANGED <<cli, pool, queues, wire, bounds>>
              /\ \/ \E k \in Possible(h) :
                       /\ mem' = [mem EXCEPT ![n] =
                                    [a \in DOMAIN @ |-> IF a \in at..at + k - 1
                                                        THEN h.msg.id ELSE @[a]]]
                       /\ \/ /\ ~Complete(WritesMore(h, k))
                             /\ hnd' = [hnd EXCEPT ![n] = WritesMore(h, k)]
                          \/ /\ Complete(WritesMore(h, k))
                             /\ hnd' = [hnd EXCEPT ![n] =
                                    Respond(n, WritesMore(h, k), "WRITE_REPLY", "none")]
                 \/ /\ UNCHANGED mem
                    /\ \/ /\ AtEnd(h)
                          /\ hnd' = [hnd EXCEPT ![n] =
                                       Respond(n, h, "WRITE_FAILED", "ERROR_OUT_OF_BOUNDS")]
                       \/ hnd' = [hnd EXCEPT ![n] =
                                    Respond(n, h, "WRITE_FAILED", "failed")]
BY DEF TryWrite, WritesMore

\* A handler's step.
LEMMA SenderHandlerSteps ==
    ASSUME BytesInv, SenderInv, TwoNodes, NEW z \in Nodes, HandlerStep(z)
    PROVE  SenderInv'
<1> DEFINE h == hnd[z]
<1>0. /\ Clients /\ Handlers /\ Queues /\ h \in HandlerState /\ HandlerInv(h)
      /\ DOMAIN cli = Nodes /\ DOMAIN hnd = Nodes /\ Senders(z)
      /\ \A n \in Nodes : Others(n)
      /\ HandlerSends(z, h) /\ hnd \in [Nodes -> HandlerState]
  BY SendersParts DEF BytesInv, Clients, Handlers, SenderInv
<1> HIDE DEF h
<1>01. UNCHANGED <<queues, wire>> => \A n \in Nodes : Others(n)'
  BY <1>0, OthersSame
<1>02. ASSUME NEW g, hnd' = [hnd EXCEPT ![z] = g], cli' = cli, UNCHANGED <<queues, wire>>,
              h.pc # "idle", g.pc \in Serving, g.msg = h.msg,
              g.pc = "try" \/ g.response.src = z
       PROVE  SenderInv'
  <2>1. HandlerSends(z, g) /\ g.pc # "wait_dg"
    BY <1>0, <1>02 DEF HandlerSends, Serving
  <2> QED BY <1>0, <1>01, <1>02, <2>1, SendersHandler
<1>03. ASSUME hnd' = hnd, cli' = cli, \A n \in Nodes : Others(n)'
       PROVE  SenderInv'
  BY <1>03 DEF SenderInv, Senders, Others, Current
<1>1. CASE HandlerSend(z)
  <2> DEFINE m == Head(dgs[z])
  <2>1. /\ dgs[z] # << >> /\ dgs' = [dgs EXCEPT ![z] = Tail(@)] /\ UNCHANGED <<cli, hnd, acks>>
        /\ \/ rq' = [rq EXCEPT ![z] = Append(@, m)] /\ hq' = hq
           \/ hq' = [hq EXCEPT ![z] = Append(@, m)] /\ rq' = rq
    BY <1>1 DEF HandlerSend
  <2>2. m \in Reply /\ m.src # z /\ m \in Command \cup Reply
    <3>1. dgs[z] \in Seq(Reply) /\ m = dgs[z][1] /\ m \in Reply /\ 1 \in 1..Len(dgs[z])
      BY <1>0, <2>1, TailShape DEF Queues
    <3> QED BY <1>0, <3>1 DEF Others
  <2> HIDE DEF m
  <2>3. \A n \in Nodes : Others(n)'
    <3> TAKE n \in Nodes
    <3>1. /\ dgs \in [Nodes -> Seq(Reply)] /\ rq \in [Nodes -> Seq(Reply)]
          /\ hq \in [Nodes -> Seq(Command \cup Reply)]
      BY <1>0 DEF Queues
    <3>2. \A i \in 1..Len(dgs'[n]) : dgs'[n][i].src # n
      BY <1>0, <2>1, <3>1, OthersTail DEF Others
    <3>3. \A i \in 1..Len(rq'[n]) : rq'[n][i].src # n
      <4>1. \A i \in 1..Len(rq[n]) : rq[n][i].src # n
        BY <1>0 DEF Others
      <4>2. CASE rq' = [rq EXCEPT ![z] = Append(@, m)]
        BY <2>2, <3>1, <4>1, <4>2, OthersAppend
      <4> QED BY <2>1, <4>1, <4>2
    <3>4. \A i \in 1..Len(hq'[n]) : hq'[n][i].src # n
      <4>1. \A i \in 1..Len(hq[n]) : hq[n][i].src # n
        BY <1>0 DEF Others
      <4>2. CASE hq' = [hq EXCEPT ![z] = Append(@, m)]
        BY <2>2, <3>1, <4>1, <4>2, OthersAppend
      <4> QED BY <2>1, <4>1, <4>2
    <3> QED BY <1>0, <2>1, <3>2, <3>3, <3>4 DEF Others
  <2> QED BY <1>03, <2>1, <2>3
<1>2. CASE HandlerEntry(z)
  <2> DEFINE m == Head(hq[z])
             g == [h EXCEPT !.pc = "try", !.msg = m, !.currentOffset = 0]
  <2>1. /\ hq[z] # << >> /\ hq' = [hq EXCEPT ![z] = Tail(@)] /\ UNCHANGED <<cli, dgs>>
        /\ \/ IsReply(m) /\ rq' = [rq EXCEPT ![z] = Append(@, m)] /\ UNCHANGED <<hnd, acks>>
           \/ \E o \in {"ok", "rejected"} : Answer(z, m, o) /\ UNCHANGED <<hnd, rq>>
           \/ /\ Answer(z, m, "ok_reply_pending") /\ UNCHANGED rq
              /\ hnd' = [hnd EXCEPT ![z] = g]
    BY <1>2 DEF HandlerEntry, h
  <2>2. m \in Command \cup Reply /\ m.src # z
    <3>1. /\ hq[z] \in Seq(Command \cup Reply) /\ m = hq[z][1]
          /\ m \in Command \cup Reply /\ 1 \in 1..Len(hq[z])
      BY <1>0, <2>1, TailShape DEF Queues
    <3> QED BY <1>0, <3>1 DEF Others
  <2>3. g.pc = "try" /\ g.msg = m
    BY <1>0 DEF HandlerState
  <2> HIDE DEF g, m
  <2>4. \A n \in Nodes : Others(n)'
    <3> TAKE n \in Nodes
    <3>1. rq \in [Nodes -> Seq(Reply)] /\ hq \in [Nodes -> Seq(Command \cup Reply)]
      BY <1>0 DEF Queues
    <3>2. \A i \in 1..Len(hq'[n]) : hq'[n][i].src # n
      BY <1>0, <2>1, <3>1, OthersTail DEF Others
    <3>3. \A i \in 1..Len(rq'[n]) : rq'[n][i].src # n
      <4>1. IsReply(m) => m \in Reply
        BY <2>2, KindOfMessage
      <4>2. \A i \in 1..Len(rq[n]) : rq[n][i].src # n
        BY <1>0 DEF Others
      <4>3. CASE IsReply(m) /\ rq' = [rq EXCEPT ![z] = Append(@, m)]
        BY <2>2, <3>1, <4>1, <4>2, <4>3, OthersAppend
      <4> QED BY <2>1, <4>2, <4>3
    <3>4. \A i \in 1..Len(acks'[n]) : acks'[n][i].src # n
      <4>1. UNCHANGED acks \/ \E o \in Outcomes : Answer(z, m, o)
        BY <2>1 DEF Outcomes
      <4> QED BY <1>0, <2>2, <4>1, OthersAnswer DEF Others
    <3> QED BY <1>0, <2>1, <3>2, <3>3, <3>4 DEF Others
  <2>5. CASE UNCHANGED hnd
    BY <1>03, <2>1, <2>4, <2>5
  <2>6. CASE hnd' = [hnd EXCEPT ![z] = g]
    <3>1. HandlerSends(z, g) /\ g.pc # "wait_dg"
      BY <2>2, <2>3 DEF HandlerSends
    <3> QED BY <1>0, <2>1, <2>4, <2>6, <3>1, SendersHandler
  <2> QED BY <2>1, <2>5, <2>6
<1>3. CASE TryRead(z)
  <2>1. h.pc = "try" /\ h.msg.kind = "READ" /\ cli' = cli /\ UNCHANGED <<queues, wire>>
    BY <1>3, TryReadStep DEF h
  <2>2. ASSUME NEW k \in Possible(h)
        PROVE  /\ ReadsMore(z, h, k) \in HandlerState
               /\ ReadsMore(z, h, k).pc = "try" /\ ReadsMore(z, h, k).msg = h.msg
    BY <2>1, ReadsMoreFields DEF h
  <2>3. ASSUME NEW k \in Possible(h), hnd' = [hnd EXCEPT ![z] = ReadsMore(z, h, k)]
        PROVE  SenderInv'
    BY <1>02, <2>1, <2>2, <2>3 DEF Serving
  <2>4. ASSUME NEW g \in HandlerState, g.msg = h.msg, NEW v, NEW e,
               hnd' = [hnd EXCEPT ![z] = Respond(z, g, v, e)]
        PROVE  SenderInv'
    <3>1. LET f == Respond(z, g, v, e)
          IN f.pc = "alloc" /\ f.msg = h.msg /\ f.response.src = z
      BY <2>4, RespondFields
    <3> QED BY <1>02, <2>1, <2>4, <3>1 DEF Serving
  <2> QED BY <1>0, <1>3, <2>2, <2>3, <2>4, TryReadStep DEF h
<1>4. CASE TryWrite(z)
  <2>1. h.pc = "try" /\ h.msg.kind = "WRITE" /\ cli' = cli /\ UNCHANGED <<queues, wire>>
    BY <1>4, TryWriteStep DEF h
  <2>2. ASSUME NEW k \in Possible(h)
        PROVE  /\ WritesMore(h, k) \in HandlerState
               /\ WritesMore(h, k).pc = "try" /\ WritesMore(h, k).msg = h.msg
    BY <1>0, <2>1, WritesMoreFields
  <2>3. ASSUME NEW k \in Possible(h), hnd' = [hnd EXCEPT ![z] = WritesMore(h, k)]
        PROVE  SenderInv'
    BY <1>02, <2>1, <2>2, <2>3 DEF Serving
  <2>4. ASSUME NEW g \in HandlerState, g.msg = h.msg, NEW v, NEW e,
               hnd' = [hnd EXCEPT ![z] = Respond(z, g, v, e)]
        PROVE  SenderInv'
    <3>1. LET f == Respond(z, g, v, e)
          IN f.pc = "alloc" /\ f.msg = h.msg /\ f.response.src = z
      BY <2>4, RespondFields
    <3> QED BY <1>02, <2>1, <2>4, <3>1 DEF Serving
  <2> QED BY <1>0, <1>4, <2>2, <2>3, <2>4, TryWriteStep DEF h
<1>5. CASE ClientAllocated(z)
  <2>1. hnd' = [hnd EXCEPT ![z] = [h EXCEPT !.pc = "send"]] /\ h.pc = "alloc"
        /\ cli' = cli /\ UNCHANGED <<queues, wire>>
    BY <1>5 DEF ClientAllocated, h
  <2>2. LET g == [h EXCEPT !.pc = "send"]
        IN g.pc = "send" /\ g.msg = h.msg /\ g.response = h.response
    BY <1>0 DEF HandlerState
  <2>3. h.response.src = z
    BY <1>0, <2>1 DEF HandlerSends
  <2> QED BY <1>02, <2>1, <2>2, <2>3 DEF Serving
<1>6. CASE SendResponse(z)
  <2> DEFINE g == [h EXCEPT !.pc = "wait_dg", !.response = NoReply]
  <2>1. /\ hnd' = [hnd EXCEPT ![z] = g] /\ h.pc = "send" /\ cli' = cli
        /\ dgs' = [dgs EXCEPT ![h.msg.src] = Append(@, h.response)]
        /\ UNCHANGED <<hq, rq, acks>> /\ ~Busy(z, h.msg.src)
    BY <1>6 DEF SendResponse, h, queues
  <2>2. g.pc = "wait_dg" /\ g.msg = h.msg
    BY <1>0 DEF HandlerState
  <2> HIDE DEF g
  <2>3. /\ h.response \in Reply /\ h.response.src = z
        /\ h.msg \in Command /\ h.msg.src # z /\ h.msg.src \in Nodes
    BY <1>0, <2>1 DEF HandlerInv, HandlerSends, Command
  <2>4. \A n \in Nodes : Others(n)'
    <3> TAKE n \in Nodes
    <3>1. dgs \in [Nodes -> Seq(Reply)]
      BY <1>0 DEF Queues
    <3>2. \A i \in 1..Len(dgs'[n]) : dgs'[n][i].src # n
      BY <1>0, <2>1, <2>3, <3>1, OthersAppend DEF Others
    <3> QED BY <1>0, <2>1, <3>2 DEF Others
  <2>5. cli[z].pc # "wait_dg"
    <3>1. ASSUME cli[z].pc = "wait_dg" PROVE FALSE
      <4>1. cli[z].req.dst \in Nodes /\ cli[z].req.dst # z
        BY <1>0, <3>1, AskedOther
      <4> QED BY <2>1, <2>3, <3>1, <4>1 DEF Busy, TwoNodes
    <3> QED BY <3>1
  <2>6. HandlerSends(z, g)
    BY <2>2, <2>3 DEF HandlerSends
  <2> QED BY <1>0, <2>1, <2>4, <2>5, <2>6, SendersHandler
<1> QED BY <1>1, <1>2, <1>3, <1>4, <1>5, <1>6 DEF HandlerStep

\* Answers, timeouts, lost messages and reboots.
LEMMA SenderNetworkSteps ==
    ASSUME BytesInv, SenderInv, NEW z \in Nodes,
           TakeAnswer(z) \/ AnswerTimeout(z) \/ LoseMessage \/ Reboot(z)
    PROVE  SenderInv'
<1>0. /\ Clients /\ Handlers /\ Queues /\ hnd \in [Nodes -> HandlerState]
      /\ cli \in [Nodes -> ClientState]
      /\ \A n \in Nodes : /\ Others(n) /\ Senders(n)
                          /\ HandlerSends(n, hnd[n]) /\ ClientSends(n, cli[n])
  BY SendersParts DEF BytesInv, Clients, Handlers, SenderInv
<1>01. ASSUME \A n \in Nodes : Others(n)',
              \A n \in Nodes : \/ cli'[n].pc = cli[n].pc /\ cli'[n].out = cli[n].out
                                  /\ cli'[n].req = cli[n].req /\ Current(cli'[n]) = Current(cli[n])
                               \/ cli'[n].pc = "complete" /\ cli'[n].req = cli[n].req
                               \/ cli'[n].pc = "idle" /\ cli'[n].req.cmd = "none",
              \A n \in Nodes : hnd'[n] = hnd[n] \/ hnd'[n].pc = "idle"
       PROVE  SenderInv'
  <2> SUFFICES ASSUME NEW n \in Nodes PROVE Senders(n)'
    BY DEF SenderInv
  <2>1. ClientSends(n, cli'[n]) /\ HandlerSends(n, hnd'[n])
    BY <1>0, <1>01 DEF ClientSends, HandlerSends
  <2>2. ~(cli'[n].pc = "wait_dg" /\ hnd'[n].pc = "wait_dg")
    BY <1>0, <1>01 DEF Senders
  <2> QED BY <1>01, <2>1, <2>2 DEF Senders, Others, ClientSends, HandlerSends
<1>02. ResponseFlowComplete(z) => \A n \in Nodes : hnd'[n] = hnd[n] \/ hnd'[n].pc = "idle"
  <2> SUFFICES ASSUME ResponseFlowComplete(z), NEW n \in Nodes
               PROVE  hnd'[n] = hnd[n] \/ hnd'[n].pc = "idle"
    OBVIOUS
  <2> DEFINE g == [IdleHandler EXCEPT !.client = hnd[z].client]
  <2>1. hnd' = [hnd EXCEPT ![z] = g] /\ g.pc = "idle"
    BY <1>0, FlowFields
  <2> HIDE DEF g
  <2> QED BY <1>0, <2>1
<1>03. ASSUME NEW n \in Nodes, NEW q, q = hq \/ q = rq \/ q = dgs \/ q = acks,
              NEW m \in Nodes, q[m] # << >>
       PROVE  LET p == [q EXCEPT ![m] = Tail(@)] IN \A i \in 1..Len(p[n]) : p[n][i].src # n
  <2>1. \A i \in 1..Len(q[n]) : q[n][i].src # n
    BY <1>0, <1>03 DEF Others
  <2>2. \/ q \in [Nodes -> Seq(Command \cup Reply)] \/ q \in [Nodes -> Seq(Reply)]
        \/ q \in [Nodes -> Seq(Ack)]
    BY <1>0, <1>03 DEF Queues
  <2>3. CASE q \in [Nodes -> Seq(Command \cup Reply)]
    BY <1>03, <2>1, <2>3, OthersTail
  <2>4. CASE q \in [Nodes -> Seq(Reply)]
    BY <1>03, <2>1, <2>4, OthersTail
  <2>5. CASE q \in [Nodes -> Seq(Ack)]
    BY <1>03, <2>1, <2>5, OthersTail
  <2> QED BY <2>2, <2>3, <2>4, <2>5
<1>1. CASE TakeAnswer(z)
  <2> DEFINE a == Head(acks[z])
             d == [cli[z] EXCEPT !.pc = "complete", !.dg = a.outcome]
  <2>1. /\ acks[z] # << >> /\ acks' = [acks EXCEPT ![z] = Tail(@)] /\ UNCHANGED <<hq, rq, dgs>>
        /\ cli' = cli \/ cli' = [cli EXCEPT ![z] = d]
        /\ hnd' = hnd \/ ResponseFlowComplete(z)
    BY <1>1 DEF TakeAnswer, queues
  <2>2. d.pc = "complete" /\ d.req = cli[z].req
    BY <1>0, OutcomeFields
  <2> HIDE DEF d
  <2>3. \A n \in Nodes : Others(n)'
    <3> TAKE n \in Nodes
    <3>1. \A i \in 1..Len(acks'[n]) : acks'[n][i].src # n
      BY <1>03, <2>1
    <3> QED BY <1>0, <2>1, <3>1 DEF Others
  <2>4. \A n \in Nodes : \/ cli'[n] = cli[n]
                         \/ cli'[n].pc = "complete" /\ cli'[n].req = cli[n].req
    BY <1>0, <2>1, <2>2
  <2>5. \A n \in Nodes : hnd'[n] = hnd[n] \/ hnd'[n].pc = "idle"
    BY <1>02, <2>1
  <2> QED BY <1>01, <2>3, <2>4, <2>5
<1>2. CASE AnswerTimeout(z)
  <2> DEFINE d == [cli[z] EXCEPT !.pc = "complete", !.dg = "timeout", !.clean = FALSE]
             e == [cli[z] EXCEPT !.clean = FALSE]
  <2>1. /\ \/ cli' = [cli EXCEPT ![z] = d] /\ hnd' = hnd
           \/ cli' = [cli EXCEPT ![z] = e] /\ ResponseFlowComplete(z)
        /\ UNCHANGED <<queues, wire>>
    BY <1>2 DEF AnswerTimeout
  <2>2. /\ d.pc = "complete" /\ d.req = cli[z].req
        /\ e.pc = cli[z].pc /\ e.out = cli[z].out /\ e.req = cli[z].req
        /\ Current(e) = Current(cli[z])
    BY <1>0 DEF ClientState, Current
  <2> HIDE DEF d, e
  <2>3. \A n \in Nodes : Others(n)'
    BY <1>0, <2>1, OthersSame
  <2>4. \A n \in Nodes : \/ cli'[n].pc = cli[n].pc /\ cli'[n].out = cli[n].out
                            /\ cli'[n].req = cli[n].req /\ Current(cli'[n]) = Current(cli[n])
                         \/ cli'[n].pc = "complete" /\ cli'[n].req = cli[n].req
    BY <1>0, <2>1, <2>2
  <2>5. \A n \in Nodes : hnd'[n] = hnd[n] \/ hnd'[n].pc = "idle"
    BY <1>02, <2>1
  <2> QED BY <1>01, <2>3, <2>4, <2>5
<1>3. CASE LoseMessage
  <2>1. PICK m \in Nodes :
           \/ dgs[m] # << >> /\ dgs' = [dgs EXCEPT ![m] = Tail(@)] /\ UNCHANGED <<acks, hq>>
           \/ hq[m] # << >> /\ hq' = [hq EXCEPT ![m] = Tail(@)] /\ UNCHANGED <<dgs, acks>>
           \/ acks[m] # << >> /\ acks' = [acks EXCEPT ![m] = Tail(@)] /\ UNCHANGED <<dgs, hq>>
    BY <1>3 DEF LoseMessage, wire
  <2>2. UNCHANGED <<rq, cli, hnd>>
    BY <1>3 DEF LoseMessage
  <2>3. \A n \in Nodes : Others(n)'
    <3> TAKE n \in Nodes
    <3>1. CASE dgs[m] # << >> /\ dgs' = [dgs EXCEPT ![m] = Tail(@)] /\ UNCHANGED <<acks, hq>>
      <4>1. \A i \in 1..Len(dgs'[n]) : dgs'[n][i].src # n
        BY <1>03, <3>1
      <4> QED BY <1>0, <2>2, <3>1, <4>1 DEF Others
    <3>2. CASE hq[m] # << >> /\ hq' = [hq EXCEPT ![m] = Tail(@)] /\ UNCHANGED <<dgs, acks>>
      <4>1. \A i \in 1..Len(hq'[n]) : hq'[n][i].src # n
        BY <1>03, <3>2
      <4> QED BY <1>0, <2>2, <3>2, <4>1 DEF Others
    <3>3. CASE acks[m] # << >> /\ acks' = [acks EXCEPT ![m] = Tail(@)] /\ UNCHANGED <<dgs, hq>>
      <4>1. \A i \in 1..Len(acks'[n]) : acks'[n][i].src # n
        BY <1>03, <3>3
      <4> QED BY <1>0, <2>2, <3>3, <4>1 DEF Others
    <3> QED BY <2>1, <3>1, <3>2, <3>3
  <2> QED BY <1>01, <2>2, <2>3
<1>4. CASE Reboot(z)
  <2>1. \A n \in Nodes : Others(n)'
    <3> TAKE n \in Nodes
    <3>1. /\ hq'[n] = hq[n] \/ hq'[n] = << >>
          /\ rq'[n] = rq[n] \/ rq'[n] = << >>
          /\ UNCHANGED <<dgs, acks>>
      BY <1>0, <1>4 DEF Reboot, wire, Queues
    <3> QED BY <1>0, <3>1 DEF Others
  <2>2. ASSUME NEW n \in Nodes
        PROVE  /\ \/ cli'[n].pc = cli[n].pc /\ cli'[n].out = cli[n].out
                     /\ cli'[n].req = cli[n].req /\ Current(cli'[n]) = Current(cli[n])
                  \/ cli'[n].pc = "complete" /\ cli'[n].req = cli[n].req
                  \/ cli'[n].pc = "idle" /\ cli'[n].req.cmd = "none"
               /\ hnd'[n] = hnd[n] \/ hnd'[n].pc = "idle"
    <3> DEFINE d == [cli[n] EXCEPT !.pc = "complete", !.dg = "DST_REBOOT", !.clean = FALSE]
               e == [cli[n] EXCEPT !.clean = FALSE]
               f == [IdleClient EXCEPT !.clean = FALSE]
               g == [IdleHandler EXCEPT !.client = hnd[n].client]
    <3>1. /\ cli'[n] = d \/ cli'[n] = e \/ cli'[n] = f \/ cli'[n] = cli[n]
          /\ hnd'[n] = hnd[n] \/ hnd'[n] = g \/ hnd'[n] = IdleHandler
      BY <1>4, Zenon DEF Reboot
    <3>2. /\ d.pc = "complete" /\ d.req = cli[n].req
          /\ e.pc = cli[n].pc /\ e.out = cli[n].out /\ e.req = cli[n].req
          /\ Current(e) = Current(cli[n])
      BY <1>0 DEF ClientState, Current
    <3>3. f.pc = "idle" /\ f.req.cmd = "none"
      BY DEF IdleClient
    <3>4. g.pc = "idle" /\ IdleHandler.pc = "idle"
      BY DEF IdleHandler
    <3> HIDE DEF d, e, f, g
    <3> QED BY <3>1, <3>2, <3>3, <3>4
  <2> QED BY <1>01, <2>1, <2>2
<1> QED BY <1>1, <1>2, <1>3, <1>4

LEMMA SenderStep == TwoNodes /\ BytesInv /\ SenderInv /\ [Next]_vars => SenderInv'
<1> SUFFICES ASSUME TwoNodes, BytesInv, SenderInv, [Next]_vars PROVE SenderInv'
  OBVIOUS
<1>1. CASE UNCHANGED vars
  BY <1>1 DEF SenderInv, Senders, Current, vars, queues, wire
<1>2. CASE LoseMessage
  <2>1. PICK n \in Nodes : TRUE
    BY <1>2 DEF LoseMessage
  <2> QED BY <1>2, <2>1, SenderNetworkSteps
<1>3. CASE \E n \in Nodes : \/ ClientStep(n) \/ HandlerStep(n) \/ TakeAnswer(n)
                            \/ AnswerTimeout(n) \/ Entry(n) \/ Reboot(n)
  BY <1>3, SenderClientSteps, SenderHandlerSteps, SenderNetworkSteps
<1> QED BY <1>1, <1>2, <1>3 DEF Next, Progress
-----------------------------------------------------------------------------
(* What a step does to the messages of a pair. *)

\* n waits for no answer to a request: replies, and answers to replies, that it
\* has sent come and go as long as there is at most one.
LEMMA PairMoves ==
    ASSUME NEW c, NEW e, NEW g, NEW f, NEW h, NEW k, NEW m, NEW sq, NEW tq, NEW kq,
           NEW sd, NEW td, NEW kd, NEW aq, NEW xd, NEW yd, NEW zd, NEW bq,
           PairOf(c, g, h, m, sq, tq, kq, sd, td, kd, aq),
           SameClient(c, e), SameHandler(h, k), c.pc # "wait_dg",
           Len(xd) + Len(yd) + Len(zd) + Len(bq) <= IF f.pc = "wait_dg" THEN 1 ELSE 0,
           \A i \in 1..Len(zd) : IsReply(zd[i])
    PROVE  PairOf(e, f, k, m, sq, tq, kq, xd, yd, zd, bq)
<1>1. Open(e, f, xd, yd, zd, bq)
  BY DEF PairOf, Open, SameClient
<1>2. PICK s \in Stages : Stage(c, h, sq, tq, kq, kd, aq, s)
  BY DEF PairOf
<1>3. \A i \in 1..Len(kd) : IsReply(kd[i])
  BY DEF PairOf, Open
<1>4. Stage(e, k, sq, tq, kq, zd, bq, s)
  BY <1>2, <1>3 DEF Stage, SameClient, SameHandler
<1> QED BY <1>1, <1>4, ServesSame, ArrivedSame, CollectedSame DEF PairOf

\* n's request has an answer or is lost, or its answer is lost.
LEMMA PairAnswered ==
    ASSUME NEW c, NEW e, NEW g, NEW f, NEW h, NEW k, NEW m, NEW sq, NEW tq, NEW kq,
           NEW sd, NEW td, NEW kd, NEW aq, NEW bq,
           PairOf(c, g, h, m, sq, tq, kq, sd, td, kd, aq),
           SameClient(c, e), SameHandler(h, k), c.pc = "wait_dg",
           bq = << >> \/ ((\E i \in 1..Len(kd) : ~IsReply(kd[i])) /\ Len(bq) = 1),
           \A i \in 1..Len(bq) : bq[i].outcome = "ok" => c.req.cmd = "META"
    PROVE  PairOf(e, f, k, m, sq, tq, kq, << >>, << >>, << >>, bq)
<1>1. Open(e, f, << >>, << >>, << >>, bq)
  BY DEF PairOf, Open, SameClient
<1>2. PICK s \in Stages : Stage(c, h, sq, tq, kq, kd, aq, s)
  BY DEF PairOf
<1>3. CASE s = "asked"
  <2>1. Stage(e, k, sq, tq, kq, << >>, bq, "none")
    BY <1>2, <1>3 DEF Stage, SameClient, SameHandler
  <2>2. "none" \in Stages
    BY DEF Stages
  <2> QED BY <1>1, <2>1, <2>2, ServesSame, ArrivedSame, CollectedSame DEF PairOf
<1>4. CASE s # "asked"
  <2>1. bq = << >>
    BY <1>2, <1>4 DEF Stage
  <2>2. Stage(e, k, sq, tq, kq, << >>, bq, s)
    BY <1>2, <1>4, <2>1 DEF Stage, SameClient, SameHandler
  <2> QED BY <1>1, <2>2, ServesSame, ArrivedSame, CollectedSame DEF PairOf
<1> QED BY <1>3, <1>4

\* The other handler accepts n's request.
LEMMA PairAccepts ==
    ASSUME NEW c, NEW g, NEW h, NEW k, NEW m, NEW sq, NEW tq, NEW kq,
           NEW sd, NEW td, NEW kd, NEW aq, NEW bq,
           PairOf(c, g, h, m, sq, tq, kq, sd, td, kd, aq),
           c.pc = "wait_dg", \E i \in 1..Len(kd) : ~IsReply(kd[i]),
           Len(bq) = 1, bq[1].outcome = "ok_reply_pending",
           k.pc = "try", k.msg = Current(c), k.currentOffset = 0, k.bytes = << >>,
           c.writeLength \in Nat, c.offset \in Nat,
           c.req.cmd # "META", c.req.cmd = "WRITE" => c.writeLength # 0
    PROVE  PairOf(c, g, k, m, sq, tq, kq, << >>, << >>, << >>, bq)
<1>0. \A i \in 1..Len(bq) : bq[i].outcome = "ok_reply_pending"
  OBVIOUS
<1>1. Open(c, g, << >>, << >>, << >>, bq)
  BY <1>0 DEF PairOf, Open
<1>2. PICK s \in Stages : Stage(c, h, sq, tq, kq, kd, aq, s)
  BY DEF PairOf
<1>3. s = "asked"
  BY <1>2 DEF Stage
<1>4. Stage(c, k, sq, tq, kq, << >>, bq, "serving") /\ "serving" \in Stages
  BY <1>0, <1>2, <1>3 DEF Stage, Stages, Serving
<1>5. Serves(c, m, k)
  BY DEF Serves, Current, Holds, Written
<1> QED BY <1>1, <1>4, <1>5 DEF PairOf

\* It goes on with it, and what it writes is what n has asked for.
LEMMA PairServes ==
    ASSUME NEW c, NEW g, NEW h, NEW k, NEW m, NEW p, NEW sq, NEW tq, NEW kq,
           NEW sd, NEW td, NEW kd, NEW aq,
           PairOf(c, g, h, m, sq, tq, kq, sd, td, kd, aq),
           h.pc \in Serving, k.pc \in Serving, Serves(c, p, k),
           \/ p = m
           \/ c.req.cmd = "WRITE" /\ \A a \in 0..SpaceSize - 1 : p[a] = m[a] \/ p[a] = c.id
    PROVE  PairOf(c, g, k, p, sq, tq, kq, sd, td, kd, aq)
<1>1. PICK s \in Stages : Stage(c, h, sq, tq, kq, kd, aq, s)
  BY DEF PairOf
<1>2. s = "serving"
  BY <1>1 DEF Stage
<1>3. Stage(c, k, sq, tq, kq, kd, aq, s)
  BY <1>1, <1>2 DEF Stage
<1>4. Arrived(c, p, sq, tq, kq)
  BY <1>1, <1>2 DEF Stage, Arrived
<1>5. c.pc # "idle"
  BY <1>1, <1>2 DEF Stage, Asking
<1>6. Collected(c, p) /\ Returns(c, p)
  BY <1>5 DEF PairOf, Collected, Returns, Written
<1> QED BY <1>3, <1>4, <1>6 DEF PairOf

\* It sends its response.
LEMMA PairResponds ==
    ASSUME NEW c, NEW g, NEW h, NEW k, NEW m, NEW sq \in Seq(Reply), NEW tq, NEW kq,
           NEW sd, NEW td, NEW kd, NEW aq,
           PairOf(c, g, h, m, sq, tq, kq, sd, td, kd, aq),
           h.pc = "send", h.response \in Reply, k.pc = "wait_dg"
    PROVE  PairOf(c, g, k, m, Append(sq, h.response), tq, kq, sd, td, kd, aq)
<1> DEFINE r == Append(sq, h.response)
<1>0. Len(r) = Len(sq) + 1 /\ r[Len(sq) + 1] = h.response
  BY AppendShape
<1> HIDE DEF r
<1>1. PICK s \in Stages : Stage(c, h, sq, tq, kq, kd, aq, s)
  BY DEF PairOf
<1>2. s = "serving" /\ Len(sq) = 0
  BY <1>1 DEF Stage, Serving
<1>3. Stage(c, k, r, tq, kq, kd, aq, "sent") /\ "sent" \in Stages
  BY <1>0, <1>1, <1>2 DEF Stage, Stages, Serving
<1>4. Fits(c, m, h.response)
  BY DEF PairOf, Serves
<1>5. Arrived(c, m, r, tq, kq)
  BY <1>0, <1>2, <1>4 DEF PairOf, Arrived
<1>6. Serves(c, m, k)
  BY DEF Serves, Serving
<1> QED BY <1>3, <1>5, <1>6 DEF PairOf, r

\* A queue of n's handler with other commands, and no other replies.
LEMMA PairCommands ==
    ASSUME NEW c, NEW e, NEW g, NEW f, NEW h, NEW m, NEW sq, NEW tq, NEW kq, NEW lq,
           NEW sd, NEW td, NEW kd, NEW aq,
           PairOf(c, g, h, m, sq, tq, kq, sd, td, kd, aq),
           SameClient(c, e), f.pc = "wait_dg" <=> g.pc = "wait_dg",
           \A i, j \in 1..Len(lq) : IsReply(lq[i]) /\ IsReply(lq[j]) => i = j,
           \A i \in 1..Len(lq) : IsReply(lq[i]) => \E j \in 1..Len(kq) : lq[i] = kq[j]
    PROVE  PairOf(e, f, h, m, sq, tq, lq, sd, td, kd, aq)
<1>1. PICK s \in Stages : Stage(c, h, sq, tq, kq, kd, aq, s)
  BY DEF PairOf
<1>2. Stage(c, h, sq, tq, lq, kd, aq, s)
  BY <1>1 DEF Stage
<1>3. Arrived(c, m, sq, tq, lq)
  BY DEF PairOf, Arrived
<1>4. PairOf(c, g, h, m, sq, tq, lq, sd, td, kd, aq)
  BY <1>2, <1>3 DEF PairOf
<1> QED BY <1>4, PairSame DEF SameHandler

\* A queue with one message.
LEMMA OneMessage ==
    ASSUME NEW T, NEW q \in Seq(T), Len(q) = 1
    PROVE  q # << >> /\ Tail(q) = << >> /\ Head(q) = q[1] /\ Head(q) \in T
<1>1. q # << >>
  BY EmptySeq
<1>2. Tail(q) \in Seq(T) /\ Len(Tail(q)) = 0 /\ Head(q) = q[1] /\ Head(q) \in T
  BY <1>1, TailShape, HeadTailProperties
<1> DEFINE r == Tail(q)
<1>3. r \in Seq(T) /\ Len(r) = 0
  BY <1>2
<1> HIDE DEF r
<1>4. r = << >>
  BY <1>3, EmptySeq
<1> QED BY <1>1, <1>2, <1>4 DEF r

\* A reply to n is lost.
LEMMA PairLoses ==
    ASSUME NEW c, NEW g, NEW h, NEW m, NEW sq \in Seq(Reply), NEW tq, NEW kq,
           NEW sd, NEW td, NEW kd, NEW aq, sq # << >>,
           PairOf(c, g, h, m, sq, tq, kq, sd, td, kd, aq)
    PROVE  PairOf(c, g, h, m, Tail(sq), tq, kq, sd, td, kd, aq)
<1>1. PICK s \in Stages : Stage(c, h, sq, tq, kq, kd, aq, s)
  BY DEF PairOf
<1>2. s = "sent"
  BY <1>1 DEF Stage
<1>3. Tail(sq) = << >>
  <2>1. Len(sq) = 1
    BY <1>1, <1>2 DEF Stage
  <2> QED BY <2>1, OneMessage
<1>4. Stage(c, h, << >>, tq, kq, kd, aq, "none") /\ "none" \in Stages
  BY <1>1, <1>2 DEF Stage, Stages
<1>5. Arrived(c, m, << >>, tq, kq)
  BY DEF PairOf, Arrived
<1> QED BY <1>3, <1>4, <1>5 DEF PairOf

\* A reply to n comes to n's client, or to n's handler, which keeps it.
LEMMA PairDelivers ==
    ASSUME NEW c, NEW g, NEW h, NEW m, NEW sq \in Seq(Reply), NEW tq \in Seq(Reply),
           NEW kq \in Seq(Command \cup Reply),
           NEW sd, NEW td, NEW kd, NEW aq, sq # << >>,
           PairOf(c, g, h, m, sq, tq, kq, sd, td, kd, aq)
    PROVE  /\ PairOf(c, g, h, m, Tail(sq), Append(tq, Head(sq)), kq, sd, td, kd, aq)
           /\ PairOf(c, g, h, m, Tail(sq), tq, Append(kq, Head(sq)), sd, td, kd, aq)
<1> DEFINE r == Head(sq)
           uq == Append(tq, r)
           lq == Append(kq, r)
<1>1. PICK s \in Stages : Stage(c, h, sq, tq, kq, kd, aq, s)
  BY DEF PairOf
<1>2. s = "sent" /\ Len(sq) = 1 /\ Len(tq) = 0
  BY <1>1 DEF Stage
<1>3. Tail(sq) = << >> /\ r = sq[1] /\ r \in Reply
  <2>1. Len(sq) = 1
    BY <1>2
  <2> QED BY <2>1, OneMessage
<1>4. Fits(c, m, r) /\ r \in Command \cup Reply /\ IsReply(r)
  <2>1. 1 \in 1..Len(sq)
    BY <1>2
  <2> QED BY <1>3, <2>1, KindOfMessage DEF PairOf, Arrived
<1> HIDE DEF r
<1>5. Len(uq) = Len(tq) + 1 /\ uq[Len(tq) + 1] = r
  BY <1>3, AppendShape
<1>6. /\ Len(lq) = Len(kq) + 1 /\ lq[Len(kq) + 1] = r /\ Len(kq) \in Nat
      /\ \A i \in 1..Len(kq) : lq[i] = kq[i]
  BY <1>4, AppendShape
<1> HIDE DEF uq, lq
<1>7. Stage(c, h, << >>, uq, kq, kd, aq, "taken") /\ "taken" \in Stages
  BY <1>1, <1>2, <1>5 DEF Stage, Stages
<1>8. Arrived(c, m, << >>, uq, kq)
  BY <1>2, <1>4, <1>5 DEF PairOf, Arrived
<1>9. \A i \in 1..Len(lq) : i \in 1..Len(kq) \/ i = Len(kq) + 1
  BY <1>6
<1>10. \A i \in 1..Len(lq) : IsReply(lq[i]) => i = Len(kq) + 1
  BY <1>1, <1>2, <1>6, <1>9 DEF Stage
<1>11. Stage(c, h, << >>, tq, lq, kd, aq, "kept") /\ "kept" \in Stages
  BY <1>1, <1>2, <1>10 DEF Stage, Stages
<1>12. Arrived(c, m, << >>, tq, lq)
  BY <1>4, <1>6, <1>9, <1>10 DEF PairOf, Arrived
<1>13. PairOf(c, g, h, m, << >>, uq, kq, sd, td, kd, aq)
  BY <1>7, <1>8 DEF PairOf
<1>14. PairOf(c, g, h, m, << >>, tq, lq, sd, td, kd, aq)
  BY <1>11, <1>12 DEF PairOf
<1> QED BY <1>3, <1>13, <1>14 DEF r, uq, lq

\* The handler hands it on to the client.
LEMMA PairPasses ==
    ASSUME NEW c, NEW g, NEW h, NEW m, NEW sq, NEW tq \in Seq(Reply),
           NEW kq \in Seq(Command \cup Reply),
           NEW sd, NEW td, NEW kd, NEW aq, kq # << >>, IsReply(Head(kq)),
           PairOf(c, g, h, m, sq, tq, kq, sd, td, kd, aq)
    PROVE  PairOf(c, g, h, m, sq, Append(tq, Head(kq)), Tail(kq), sd, td, kd, aq)
<1> DEFINE r == Head(kq)
           uq == Append(tq, r)
           lq == Tail(kq)
<1>1. PICK s \in Stages : Stage(c, h, sq, tq, kq, kd, aq, s)
  BY DEF PairOf
<1>2. /\ Len(lq) = Len(kq) - 1 /\ Len(kq) \in Nat \ {0}
      /\ r = kq[1] /\ r \in Command \cup Reply
      /\ \A i \in 1..Len(lq) : lq[i] = kq[i + 1]
  BY TailShape
<1>3. 1 \in 1..Len(kq) /\ \A i \in 1..Len(lq) : i + 1 \in 1..Len(kq) /\ i + 1 # 1
  BY <1>2
<1>4. s = "kept" /\ Len(tq) = 0
  BY <1>1, <1>2, <1>3 DEF Stage
<1>5. Fits(c, m, r) /\ r \in Reply
  BY <1>2, <1>3, KindOfMessage DEF PairOf, Arrived
<1> HIDE DEF r, lq
<1>6. Len(uq) = Len(tq) + 1 /\ uq[Len(tq) + 1] = r
  BY <1>5, AppendShape
<1> HIDE DEF uq
<1>7. \A i \in 1..Len(lq) : ~IsReply(lq[i])
  <2> TAKE i \in 1..Len(lq)
  <2>1. lq[i] = kq[i + 1] /\ i + 1 \in 1..Len(kq) /\ i + 1 # 1 /\ IsReply(kq[1])
    BY <1>2, <1>3 DEF r
  <2> QED BY <1>1, <1>3, <2>1 DEF Stage
<1>8. Stage(c, h, sq, uq, lq, kd, aq, "taken") /\ "taken" \in Stages
  BY <1>1, <1>4, <1>6, <1>7 DEF Stage, Stages
<1>9. Arrived(c, m, sq, uq, lq)
  BY <1>4, <1>5, <1>6, <1>7 DEF PairOf, Arrived
<1> QED BY <1>8, <1>9 DEF PairOf, r, uq, lq

\* The client takes it, or rejects it.
LEMMA PairTakes ==
    ASSUME NEW c, NEW e, NEW g, NEW f, NEW h, NEW m, NEW sq, NEW tq \in Seq(Reply), NEW kq,
           NEW sd, NEW td, NEW kd, NEW aq, tq # << >>,
           PairOf(c, g, h, m, sq, tq, kq, sd, td, kd, aq),
           \/ e = c
           \/ /\ e.pc = c.pc /\ e.req = c.req /\ e.id = c.id /\ e.left = c.left
              /\ e.offset = c.offset /\ e.payloadOffset = c.payloadOffset
              /\ e.writeLength = c.writeLength /\ e.payload = c.payload /\ e.dg = c.dg
              /\ e.result = c.result /\ e.code = "none" /\ e.resp = Head(tq)
    PROVE  PairOf(e, g, h, m, sq, Tail(tq), kq, sd, td, kd, aq)
<1>1. PICK s \in Stages : Stage(c, h, sq, tq, kq, kd, aq, s)
  BY DEF PairOf
<1>2. s = "taken" /\ Len(tq) = 1 /\ c.pc \in Asking
  BY <1>1 DEF Stage
<1>3. Tail(tq) = << >> /\ Head(tq) = tq[1] /\ 1 \in 1..Len(tq)
  BY <1>2, OneMessage
<1>4. Fits(c, m, Head(tq))
  BY <1>3 DEF PairOf, Arrived
<1>5. Open(e, g, sd, td, kd, aq)
  BY DEF PairOf, Open, Current
<1>6. Stage(e, h, sq, << >>, kq, kd, aq, "none") /\ "none" \in Stages
  BY <1>1, <1>2 DEF Stage, Stages, Asking
<1>7. Serves(e, m, h)
  BY DEF PairOf, Serves, Current, Fits
<1>8. Arrived(e, m, sq, << >>, kq)
  BY <1>4 DEF PairOf, Arrived, Fits
<1>9. Collected(e, m) /\ Returns(e, m)
  BY DEF PairOf, Collected, Returns
<1> QED BY <1>3, <1>5, <1>6, <1>7, <1>8, <1>9 DEF PairOf
-----------------------------------------------------------------------------
(* What a client has collected and what it returns. *)

LEMMA HoldsMore ==
    ASSUME NEW m, NEW s \in Seq(Byte), NEW t \in Seq(Byte), NEW a \in Nat,
           Holds(m, s, a), Holds(m, t, a + Len(s))
    PROVE  Holds(m, s \o t, a)
<1>1. /\ Len(s \o t) = Len(s) + Len(t) /\ Len(s) \in Nat /\ Len(t) \in Nat
      /\ \A i \in 1..Len(s) + Len(t) :
            (s \o t)[i] = IF i <= Len(s) THEN s[i] ELSE t[i - Len(s)]
  BY ConcatProperties
<1> DEFINE r == s \o t
<1>2. /\ Len(r) = Len(s) + Len(t)
      /\ \A i \in 1..Len(s) + Len(t) : r[i] = IF i <= Len(s) THEN s[i] ELSE t[i - Len(s)]
  BY <1>1
<1> HIDE DEF r
<1>3. ASSUME NEW i \in 1..Len(r) PROVE r[i] = <<a + i - 1, m[a + i - 1]>>
  <2>1. CASE i <= Len(s)
    BY <1>1, <1>2, <2>1 DEF Holds
  <2>2. CASE i > Len(s)
    <3>1. i - Len(s) \in 1..Len(t) /\ (a + Len(s)) + (i - Len(s)) - 1 = a + i - 1
      BY <1>1, <1>2, <2>2
    <3>2. t[i - Len(s)] = <<a + i - 1, m[a + i - 1]>>
      BY <3>1 DEF Holds
    <3> QED BY <1>1, <1>2, <2>2, <3>2
  <2> QED BY <1>1, <1>2, <2>1, <2>2
<1> QED BY <1>3 DEF Holds, r

LEMMA WrittenMore ==
    ASSUME NEW m, NEW a \in Nat, NEW k \in Nat, NEW l \in Nat, NEW x,
           Written(m, a, k, x), Written(m, a + k, l, x)
    PROVE  Written(m, a, k + l, x)
<1> SUFFICES ASSUME NEW b \in a..a + (k + l) - 1
             PROVE  b \in 0..SpaceSize - 1 /\ m[b] = x
  BY DEF Written
<1>1. b \in a..a + k - 1 \/ b \in a + k..(a + k) + l - 1
  OBVIOUS
<1> QED BY <1>1 DEF Written

\* Bytes that are true of the space are all of them when there are as many as
\* asked for, or when they reach the end of the space.
LEMMA WholeBytes ==
    ASSUME NEW m, NEW p \in Seq(Byte), NEW a \in Nat, NEW size \in Nat, Holds(m, p, a),
           Len(p) <= size, Len(p) = size \/ a + Len(p) >= SpaceSize
    PROVE  p = [i \in 1..Smaller(a + size, SpaceSize) - a |-> <<a + i - 1, m[a + i - 1]>>]
<1>0. SpaceSize \in Nat /\ Len(p) \in Nat
  BY MemoryConfigAssumption DEF MemoryConfigAssumption
<1>1. p = [i \in 1..Len(p) |-> <<a + i - 1, m[a + i - 1]>>]
  <2>1. p \in [1..Len(p) -> Byte]
    BY LenProperties
  <2> QED BY <2>1 DEF Holds
<1>2. 1..Len(p) = 1..Smaller(a + size, SpaceSize) - a
  <2>1. CASE Len(p) = 0
    BY <1>0, <2>1 DEF Smaller
  <2>2. CASE Len(p) # 0
    <3>0. Len(p) \in 1..Len(p)
      BY <1>0, <2>2
    <3>1. p[Len(p)] = <<a + Len(p) - 1, m[a + Len(p) - 1]>> /\ p[Len(p)] \in Byte
      BY <3>0 DEF Holds
    <3>2. a + Len(p) - 1 \in 0..SpaceSize - 1
      BY <3>1 DEF Byte
    <3>3. a + Len(p) <= SpaceSize
      <4> DEFINE l == Len(p)
      <4>1. l \in Nat /\ a + l - 1 <= SpaceSize - 1
        BY <1>0, <3>2
      <4> HIDE DEF l
      <4>2. a + l <= SpaceSize
        BY <1>0, <4>1
      <4> QED BY <4>2 DEF l
    <3> QED BY <1>0, <3>3 DEF Smaller
  <2> QED BY <2>1, <2>2
<1> QED BY <1>1, <1>2

\* Sums of lengths.
LEMMA AtLeast == \A x, y \in Nat : ~(x < y) => x >= y
OBVIOUS
LEMMA Beyond == \A a, o, l, s, z \in Nat : a + o + l > z /\ o + l <= s => ~(a + s <= z)
OBVIOUS
LEMMA WithinSize == \A p, q, w, l \in Nat : q <= w => p + q <= l + w + p
OBVIOUS
LEMMA AllOrEnd ==
    \A a, p, q, w, z \in Nat : q <= w /\ (q < w => a + p + q >= z) => q = w \/ a + (p + q) >= z
OBVIOUS

\* A reply to the last datagram, and what the client makes of it.
LEMMA CollectsMore ==
    ASSUME NEW c \in ClientState, ClientInv(c), NEW e, NEW m,
           c.pc \in {"complete", "sleep"}, c.code # "pending",
           Collected(c, m), Fits(c, m, c.resp), Answered(c, e),
           e.pc = "send", e.req = c.req, e.id = c.id
    PROVE  Collected(e, m)
<1>1. /\ c.req \in Requests /\ c.resp \in Reply
      /\ c.req.addr \in Nat /\ c.req.size \in Nat
  BY RequestType DEF ClientInv
<1>2. /\ c.payload \in Seq(Byte) /\ c.writeLength \in Nat /\ c.payloadOffset \in Nat
      /\ c.left \in Nat /\ c.offset \in Nat /\ Chunk \in Nat \ {0} /\ Len(c.payload) \in Nat
  BY MemoryConfigAssumption DEF ClientState, MemoryConfigAssumption
<1>3. CASE c.req.cmd = "READ"
  <2>1. /\ c.resp.kind = "READ_REPLY" /\ c.offset = c.req.addr + Len(c.payload)
        /\ c.resp.bytes \in Seq(Byte) /\ Len(c.resp.bytes) \in Nat
    <3>1. c.resp.kind \notin {"WRITE_REPLY", "WRITE_FAILED"}
      BY <1>3 DEF ClientInv
    <3>2. c.resp.kind \in {"READ_REPLY", "READ_FAILED", "WRITE_REPLY", "WRITE_FAILED"}
          /\ c.resp.bytes \in Seq(Byte)
      BY <1>1 DEF Reply
    <3>3. c.resp.kind = "READ_REPLY"
      BY <3>1, <3>2 DEF Answered
    <3>4. c.offset = c.req.addr + Len(c.payload)
      BY <1>3 DEF ClientInv
    <3> QED BY <3>2, <3>3, <3>4
  <2>2. /\ e.payload = c.payload \o c.resp.bytes /\ e.left = c.left
        /\ Len(c.resp.bytes) >= Chunk /\ c.left # 0 /\ c.resp.addr = c.offset
    <3>1. /\ e.payload = c.payload \o c.resp.bytes /\ e.left = c.left
          /\ ~(Len(c.resp.bytes) < Chunk) /\ c.left # 0 /\ c.resp.addr = c.offset
      BY <2>1 DEF Answered
    <3> QED BY <1>2, <2>1, <3>1, AtLeast
  <2>3. /\ Holds(m, c.resp.bytes, c.req.addr + Len(c.payload))
        /\ Len(c.resp.bytes) <= c.writeLength
    BY <2>1, <2>2 DEF Fits
  <2>4. c.writeLength = Chunk /\ Len(c.resp.bytes) = c.writeLength
    BY <1>2, <1>3, <2>1, <2>2, <2>3 DEF Collected
  <2>5. Holds(m, e.payload, c.req.addr)
    BY <1>1, <1>2, <1>3, <2>1, <2>2, <2>3, HoldsMore DEF Collected
  <2>6. Len(e.payload) = Len(c.payload) + c.writeLength
    <3>1. Len(c.payload \o c.resp.bytes) = Len(c.payload) + Len(c.resp.bytes)
      BY <1>2, <2>1, ConcatProperties
    <3> QED BY <2>2, <2>4, <3>1
  <2> QED BY <1>2, <1>3, <2>2, <2>5, <2>6 DEF Collected
<1>4. CASE c.req.cmd = "WRITE"
  <2>1. c.resp.kind = "WRITE_REPLY"
    BY <1>1, <1>4 DEF Answered, ClientInv, Reply
  <2>2. /\ e.payloadOffset = c.payloadOffset + c.writeLength
        /\ e.offset = c.offset + c.writeLength /\ c.resp.addr = c.offset
        /\ c.offset = c.req.addr + c.payloadOffset
    BY <1>4, <2>1 DEF Answered, Collected
  <2>3. Written(m, c.req.addr, c.payloadOffset + c.writeLength, c.id)
    <3>1. Written(m, c.req.addr + c.payloadOffset, c.writeLength, c.id)
      BY <2>1, <2>2 DEF Fits
    <3>2. Written(m, c.req.addr, c.payloadOffset, c.id)
      BY <1>4 DEF Collected
    <3> QED BY <1>1, <1>2, <3>1, <3>2, WrittenMore
  <2> QED BY <1>1, <1>2, <1>4, <2>2, <2>3 DEF Collected
<1>5. CASE c.req.cmd = "META"
  BY <1>5 DEF Collected
<1> QED BY <1>1, <1>3, <1>4, <1>5, RequestType

LEMMA ReturnsWhole ==
    ASSUME NEW c \in ClientState, ClientInv(c), NEW e, NEW m,
           c.pc \in {"complete", "sleep"}, c.code # "pending",
           Collected(c, m), Fits(c, m, c.resp), Answered(c, e),
           e.pc = "idle", e.req = c.req, e.id = c.id
    PROVE  Returns(e, m)
<1>1. /\ c.req \in Requests /\ c.resp \in Reply
      /\ c.req.addr \in Nat /\ c.req.size \in Nat /\ c.req.size <= Whole
      /\ SpaceSize \in Nat /\ Whole = SpaceSize + Chunk + 1
  BY RequestType, MemoryConfigAssumption DEF ClientInv, MemoryConfigAssumption, Whole
<1>2. /\ c.payload \in Seq(Byte) /\ c.writeLength \in Nat /\ c.payloadOffset \in Nat
      /\ c.left \in Nat /\ c.offset \in Nat /\ Chunk \in Nat \ {0} /\ Len(c.payload) \in Nat
  BY MemoryConfigAssumption DEF ClientState, MemoryConfigAssumption
<1>3. CASE c.req.cmd = "READ"
  <2>1. /\ c.resp.kind \in {"READ_REPLY", "READ_FAILED"}
        /\ c.offset = c.req.addr + Len(c.payload)
        /\ c.resp.bytes \in Seq(Byte) /\ Len(c.resp.bytes) \in Nat
        /\ c.resp.addr = c.offset
    BY <1>1, <1>3 DEF Answered, ClientInv, Reply
  <2>2. Holds(m, c.payload, c.req.addr)
    BY <1>3 DEF Collected
  <2>3. /\ e.payload \in Seq(Byte) /\ Holds(m, e.payload, c.req.addr)
        /\ Len(e.payload) \in Nat
        /\ \/ c.req.addr + Len(e.payload) >= SpaceSize
           \/ c.req.size # Whole /\ Len(e.payload) = c.req.size
        /\ c.req.size # Whole => Len(e.payload) <= c.req.size
    <3>1. CASE c.resp.kind = "READ_FAILED"
      <4>1. e.payload = c.payload /\ c.req.addr + Len(c.payload) >= SpaceSize
        BY <2>1, <3>1 DEF Answered, Fits
      <4>2. c.req.size # Whole => Len(c.payload) <= c.req.size
        BY <1>1, <1>2, <1>3 DEF Collected
      <4> QED BY <1>2, <2>2, <4>1, <4>2
    <3>2. CASE c.resp.kind = "READ_REPLY"
      <4>1. /\ e.payload = c.payload \o c.resp.bytes
            /\ Len(c.resp.bytes) < Chunk \/ c.left = 0
        BY <3>2 DEF Answered
      <4>2. /\ Holds(m, c.resp.bytes, c.req.addr + Len(c.payload))
            /\ Len(c.resp.bytes) <= c.writeLength
            /\ Len(c.resp.bytes) < c.writeLength =>
                  c.req.addr + Len(c.payload) + Len(c.resp.bytes) >= SpaceSize
        BY <2>1, <3>2 DEF Fits
      <4>3. e.payload \in Seq(Byte) /\ Len(e.payload) = Len(c.payload) + Len(c.resp.bytes)
        BY <1>2, <2>1, <4>1, ConcatProperties
      <4>4. Holds(m, e.payload, c.req.addr)
        BY <1>1, <1>2, <2>1, <2>2, <4>1, <4>2, HoldsMore
      <4>5. /\ c.req.size = Whole => c.left = Whole
            /\ c.req.size # Whole => c.left + c.writeLength + Len(c.payload) = c.req.size
            /\ c.left # 0 => c.writeLength = Chunk
        BY <1>3 DEF Collected
      <4>6. Len(c.resp.bytes) = c.writeLength =>
               c.req.size # Whole /\ Len(e.payload) = c.req.size
        <5> SUFFICES ASSUME Len(c.resp.bytes) = c.writeLength
                     PROVE  c.req.size # Whole /\ Len(e.payload) = c.req.size
          OBVIOUS
        <5>1. c.left = 0
          BY <1>2, <4>1, <4>5
        <5> QED BY <1>1, <1>2, <4>3, <4>5, <5>1
      <4>7. c.req.size # Whole => Len(e.payload) <= c.req.size
        <5> SUFFICES ASSUME c.req.size # Whole
                     PROVE  Len(c.payload) + Len(c.resp.bytes) <= c.req.size
          BY <4>3
        <5>1. c.left + c.writeLength + Len(c.payload) = c.req.size
          BY <4>5
        <5>2. Len(c.payload) + Len(c.resp.bytes) <= c.left + c.writeLength + Len(c.payload)
          BY <1>2, <2>1, <4>2, WithinSize, Zenon
        <5> QED BY <5>1, <5>2
      <4>8. \/ Len(c.resp.bytes) = c.writeLength
            \/ c.req.addr + Len(e.payload) >= SpaceSize
        <5>1. \/ Len(c.resp.bytes) = c.writeLength
              \/ c.req.addr + (Len(c.payload) + Len(c.resp.bytes)) >= SpaceSize
          BY <1>1, <1>2, <2>1, <4>2, AllOrEnd, Zenon
        <5> QED BY <4>3, <5>1
      <4> QED BY <4>3, <4>4, <4>6, <4>7, <4>8, LenProperties
    <3> QED BY <2>1, <3>1, <3>2
  <2>4. Len(e.payload) <= c.req.size
    <3>1. CASE c.req.size = Whole
      <4>1. ASSUME Len(e.payload) # 0 PROVE Len(e.payload) <= SpaceSize
        <5>1. /\ e.payload[Len(e.payload)] \in Byte
              /\ e.payload[Len(e.payload)] =
                    <<c.req.addr + Len(e.payload) - 1, m[c.req.addr + Len(e.payload) - 1]>>
          BY <2>3, <4>1 DEF Holds
        <5>2. c.req.addr + Len(e.payload) - 1 \in 0..SpaceSize - 1
          BY <5>1 DEF Byte
        <5> QED BY <1>1, <2>3, <5>2
      <4> QED BY <1>1, <1>2, <2>3, <3>1, <4>1
    <3> QED BY <2>3, <3>1
  <2>5. e.payload = [i \in 1..Smaller(c.req.addr + c.req.size, SpaceSize) - c.req.addr |->
                        <<c.req.addr + i - 1, m[c.req.addr + i - 1]>>]
    BY <1>1, <2>3, <2>4, WholeBytes
  <2> QED BY <1>3, <2>5, Zenon DEF Returns
<1>4. CASE c.req.cmd = "WRITE"
  <2>1. /\ c.resp.kind \in {"WRITE_REPLY", "WRITE_FAILED"} /\ c.resp.addr = c.offset
        /\ c.offset = c.req.addr + c.payloadOffset
        /\ Written(m, c.req.addr, c.payloadOffset, c.id)
        /\ c.payloadOffset + c.writeLength <= c.req.size
    BY <1>1, <1>4 DEF Answered, ClientInv, Reply, Collected
  <2>2. CASE c.resp.kind = "WRITE_FAILED"
    <3>1. c.req.addr + c.payloadOffset + c.writeLength > SpaceSize
      BY <2>1, <2>2 DEF Answered, Fits
    <3>2. ~(c.req.addr + c.req.size <= SpaceSize)
      BY <1>1, <1>2, <2>1, <3>1, Beyond, Zenon
    <3> QED BY <1>4, <3>2 DEF Returns
  <2>3. CASE c.resp.kind = "WRITE_REPLY"
    <3>1. c.payloadOffset + c.writeLength >= c.req.size
      BY <2>3 DEF Answered
    <3>2. Written(m, c.req.addr + c.payloadOffset, c.writeLength, c.id)
      BY <2>1, <2>3 DEF Fits
    <3>3. Written(m, c.req.addr, c.payloadOffset + c.writeLength, c.id)
      BY <1>1, <1>2, <2>1, <3>2, WrittenMore
    <3>4. c.payloadOffset + c.writeLength = c.req.size
      BY <1>1, <1>2, <2>1, <3>1
    <3> QED BY <1>4, <3>3, <3>4 DEF Returns
  <2> QED BY <2>1, <2>2, <2>3
<1>5. CASE c.req.cmd = "META"
  BY <1>5 DEF Returns
<1> QED BY <1>1, <1>3, <1>4, <1>5, RequestType
-----------------------------------------------------------------------------
(* The client's own steps. *)

\* Nothing of a request of n is anywhere: no request, and no reply.
Rest(g, h, sq, tq, kq, sd, td, kd, aq) ==
    /\ Len(sd) + Len(td) + Len(kd) + Len(aq) <= IF g.pc = "wait_dg" THEN 1 ELSE 0
    /\ \A i \in 1..Len(kd) : IsReply(kd[i])
    /\ h.pc \notin Serving /\ Len(sq) = 0 /\ Len(tq) = 0
    /\ \A i \in 1..Len(kq) : ~IsReply(kq[i])

\* That is so when n expects no reply.
LEMMA PairRests ==
    ASSUME NEW c, NEW g, NEW h, NEW m, NEW sq, NEW tq, NEW kq,
           NEW sd, NEW td, NEW kd, NEW aq,
           PairOf(c, g, h, m, sq, tq, kq, sd, td, kd, aq), c.pc # "wait_dg",
           \/ c.pc \notin Asking \/ c.code # "pending"
           \/ c.pc = "complete" /\ (c.req.cmd = "META" \/ c.dg # "ok_reply_pending")
    PROVE  Rest(g, h, sq, tq, kq, sd, td, kd, aq)
<1>1. PICK s \in Stages : Stage(c, h, sq, tq, kq, kd, aq, s)
  BY DEF PairOf
<1>2. /\ \A i \in 1..Len(kd) : IsReply(kd[i])
      /\ Len(sd) + Len(td) + Len(kd) + Len(aq) <= IF g.pc = "wait_dg" THEN 1 ELSE 0
  BY DEF PairOf, Open
<1>3. s # "asked"
  BY <1>1, <1>2 DEF Stage
<1>4. s = "none"
  BY <1>1, <1>3 DEF Stage
<1> QED BY <1>1, <1>2, <1>4 DEF Rest, Stage

\* From there the client goes on with nothing of it left.
LEMMA PairRenews ==
    ASSUME NEW e, NEW g, NEW f, NEW h, NEW m, NEW sq, NEW tq, NEW kq,
           NEW sd, NEW td, NEW kd, NEW aq,
           Rest(g, h, sq, tq, kq, sd, td, kd, aq), f.pc = "wait_dg" <=> g.pc = "wait_dg",
           e.pc \notin Asking, e.pc = "write_datagram" => e.code = "pending",
           Collected(e, m), Returns(e, m)
    PROVE  PairOf(e, f, h, m, sq, tq, kq, sd, td, kd, aq)
<1>1. Open(e, f, sd, td, kd, aq)
  BY DEF Rest, Open, Asking
<1>2. Stage(e, h, sq, tq, kq, kd, aq, "none") /\ "none" \in Stages
  BY DEF Rest, Stage, Stages
<1>3. Serves(e, m, h)
  BY DEF Rest, Serves, Serving
<1>4. Arrived(e, m, sq, tq, kq)
  BY DEF Rest, Arrived
<1> QED BY <1>1, <1>2, <1>3, <1>4 DEF PairOf

\* What it has to say of itself at each of these steps.
LEMMA StartCollects ==
    ASSUME NEW e, NEW m, e.pc = "alloc", e.left = e.req.size, e.payload = << >>,
           e.req \in Requests
    PROVE  Collected(e, m) /\ Returns(e, m)
<1>1. e.req.size \in Nat
  BY RequestType
<1> QED BY <1>1 DEF Collected, Returns, Holds

LEMMA RequestCollects ==
    ASSUME NEW c, NEW e, NEW m, c.pc = "alloc", Collected(c, m), e.pc = "send",
           e.payloadOffset = 0, e.offset = c.req.addr, e.req = c.req,
           e.left = c.left, e.payload = c.payload, c.req \in Requests
    PROVE  Collected(e, m) /\ Returns(e, m)
<1>1. c.req.addr \in Nat
  BY RequestType
<1> QED BY <1>1 DEF Collected, Returns, Written

LEMMA SendCollects ==
    ASSUME NEW c \in ClientState, NEW e, NEW m, c.pc = "send", Collected(c, m),
           e.pc = "write_datagram", e.req = c.req, e.payload = c.payload,
           e.left = IF c.req.cmd = "READ" THEN Left(c) ELSE c.left,
           e.writeLength = NextLength(c), e.offset = c.offset,
           e.payloadOffset = c.payloadOffset, e.id = c.id, c.req \in Requests
    PROVE  Collected(e, m) /\ Returns(e, m)
<1>1. /\ c.req.size \in Nat /\ c.req.size <= Whole /\ Whole = SpaceSize + Chunk + 1
      /\ c.left \in Nat /\ Len(c.payload) \in Nat
      /\ SpaceSize \in Nat /\ Chunk \in Nat /\ Chunk # 0
  <2>1. c.left \in Nat /\ c.payload \in Seq(Byte)
    BY DEF ClientState
  <2> QED BY <2>1, RequestType, MemoryConfigAssumption, LenProperties
             DEF MemoryConfigAssumption, Whole
<1>2. CASE c.req.cmd = "READ"
  <2>1. /\ NextLength(c) = Smaller(c.left, Chunk) /\ e.left = Left(c)
        /\ Left(c) = IF c.left = Whole THEN Whole ELSE c.left - NextLength(c)
    BY <1>2 DEF NextLength, Left
  <2>2. /\ Holds(m, c.payload, c.req.addr)
        /\ c.req.size = Whole => c.left = Whole
        /\ c.req.size # Whole => c.left + Len(c.payload) = c.req.size
    BY <1>2 DEF Collected
  <2> DEFINE l == c.left
             p == Len(c.payload)
             s == c.req.size
             w == NextLength(c)
             r == Left(c)
  <2>3. /\ l \in Nat /\ p \in Nat /\ s \in Nat /\ s <= Whole
        /\ w = (IF l <= Chunk THEN l ELSE Chunk)
        /\ r = IF l = Whole THEN Whole ELSE l - w
        /\ s = Whole => l = Whole
        /\ s # Whole => l + p = s
    BY <1>1, <2>1, <2>2 DEF Smaller
  <2> HIDE DEF l, p, s, w, r
  <2>4. /\ w <= Chunk /\ (r # 0 => w = Chunk)
        /\ s = Whole => r = Whole
        /\ s # Whole => r + w + p = s
    BY <1>1, <2>3
  <2> QED BY <1>2, <2>1, <2>2, <2>4 DEF Collected, Returns, l, p, s, w, r
<1>3. CASE c.req.cmd # "READ"
  BY <1>3 DEF Collected, Returns
<1> QED BY <1>2, <1>3

\* The client sends its request.
LEMMA PairAsks ==
    ASSUME NEW c, NEW e, NEW g, NEW h, NEW m, NEW sq, NEW tq, NEW kq,
           NEW sd, NEW td, NEW kd \in Seq(Command \cup Reply), NEW aq,
           PairOf(c, g, h, m, sq, tq, kq, sd, td, kd, aq),
           Len(sd) \in Nat, Len(td) \in Nat, Len(aq) \in Nat, sd = << >> <=> Len(sd) = 0,
           td = << >> <=> Len(td) = 0,
           c.pc = "write_datagram", g.pc # "wait_dg", Current(c) \in Command,
           e.pc = "wait_dg", e.left = c.left, e.writeLength = c.writeLength,
           e.code = c.code, e.req = c.req, e.offset = c.offset,
           e.payloadOffset = c.payloadOffset, e.payload = c.payload, e.id = c.id,
           e.resp = c.resp, e.result = c.result
    PROVE  PairOf(e, g, h, m, sq, tq, kq, sd, td, Append(kd, Current(c)), aq)
<1> DEFINE r == Current(c)
           ld == Append(kd, r)
<1>1. PICK s \in Stages : Stage(c, h, sq, tq, kq, kd, aq, s)
  BY DEF PairOf
<1>2. s = "none" /\ c.code = "pending"
  BY <1>1 DEF Stage, Asking
<1>3. Len(sd) = 0 /\ Len(td) = 0 /\ Len(kd) = 0 /\ Len(aq) = 0
  <2>1. Len(sd) + Len(td) + Len(kd) + Len(aq) <= 0 /\ Len(kd) \in Nat
    BY LenProperties DEF PairOf, Open
  <2> QED BY <2>1
<1>4. r \in Command /\ r \in Command \cup Reply /\ ~IsReply(r) /\ Current(e) = r
  BY KindOfMessage DEF Current
<1> HIDE DEF r
<1>5. Len(ld) = 1 /\ ld[1] = r
  BY <1>3, <1>4, AppendShape
<1> HIDE DEF ld
<1>6. Open(e, g, sd, td, ld, aq)
  BY <1>3, <1>4, <1>5 DEF Open
<1>7. Stage(e, h, sq, tq, kq, ld, aq, "asked") /\ "asked" \in Stages
  BY <1>1, <1>2, <1>3, <1>4, <1>5 DEF Stage, Stages, Asking
<1>8. Serves(e, m, h)
  BY <1>1, <1>2 DEF Stage, Serves, Serving
<1>9. Arrived(e, m, sq, tq, kq)
  BY <1>1, <1>2 DEF Stage, Arrived
<1>10. Collected(e, m) /\ Returns(e, m)
  BY DEF PairOf, Collected, Returns
<1> QED BY <1>6, <1>7, <1>8, <1>9, <1>10 DEF PairOf, r, ld

\* The client hears of its request.
LEMMA PairHears ==
    ASSUME NEW c, NEW e, NEW g, NEW h, NEW m, NEW sq, NEW tq, NEW kq,
           NEW sd, NEW td, NEW kd \in Seq(Command \cup Reply), NEW aq \in Seq(Ack),
           PairOf(c, g, h, m, sq, tq, kq, sd, td, kd, aq),
           c.pc = "wait_dg", g.pc # "wait_dg", aq # << >>,
           e.pc = "complete", e.dg = Head(aq).outcome,
           e.left = c.left, e.writeLength = c.writeLength,
           e.code = c.code, e.req = c.req, e.offset = c.offset,
           e.payloadOffset = c.payloadOffset, e.payload = c.payload, e.id = c.id,
           e.resp = c.resp, e.result = c.result
    PROVE  PairOf(e, g, h, m, sq, tq, kq, sd, td, kd, Tail(aq))
<1>1. PICK s \in Stages : Stage(c, h, sq, tq, kq, kd, aq, s)
  BY DEF PairOf
<1>2. /\ sd = << >> /\ td = << >>
      /\ Len(sd) + Len(td) + Len(kd) + Len(aq) <= 1
      /\ \A i \in 1..Len(aq) : aq[i].outcome = "ok" => c.req.cmd = "META"
  BY DEF PairOf, Open
<1>3. Len(sd) = 0 /\ Len(td) = 0 /\ Len(kd) = 0 /\ Len(aq) = 1
  <2>1. Len(kd) \in Nat /\ Len(aq) \in Nat /\ Len(aq) # 0 /\ Len(sd) = 0 /\ Len(td) = 0
    BY <1>2, EmptySeq, LenProperties
  <2> DEFINE k == Len(kd)
             a == Len(aq)
  <2>2. 0 + 0 + k + a <= 1 /\ k \in Nat /\ a \in Nat /\ a # 0
    BY <1>2, <2>1
  <2> HIDE DEF k, a
  <2>3. k = 0 /\ a = 1
    BY <2>2
  <2> QED BY <2>1, <2>3 DEF k, a
<1>4. Tail(aq) = << >> /\ Head(aq) = aq[1] /\ 1 \in 1..Len(aq)
  BY <1>3, OneMessage
<1>5. Open(e, g, sd, td, kd, << >>)
  BY <1>2, <1>3, <1>4 DEF Open
<1>6. s # "asked"
  BY <1>1, <1>3 DEF Stage
<1>7. Stage(e, h, sq, tq, kq, kd, << >>, s)
  BY <1>1, <1>4, <1>6 DEF Stage, Asking
<1>8. Serves(e, m, h)
  BY DEF PairOf, Serves, Current, Fits
<1>9. Arrived(e, m, sq, tq, kq)
  BY DEF PairOf, Arrived, Fits, Asking
<1>10. Collected(e, m) /\ Returns(e, m)
  BY DEF PairOf, Collected, Returns
<1> QED BY <1>4, <1>5, <1>7, <1>8, <1>9, <1>10 DEF PairOf

\* The client goes to sleep until the reply comes.
LEMMA PairSleeps ==
    ASSUME NEW c, NEW e, NEW g, NEW h, NEW m, NEW sq, NEW tq, NEW kq,
           NEW sd, NEW td, NEW kd, NEW aq,
           PairOf(c, g, h, m, sq, tq, kq, sd, td, kd, aq),
           c.pc = "complete", e.pc = "sleep",
           e.left = c.left, e.writeLength = c.writeLength, e.code = c.code,
           e.req = c.req, e.offset = c.offset, e.payloadOffset = c.payloadOffset,
           e.payload = c.payload, e.id = c.id, e.resp = c.resp
    PROVE  PairOf(e, g, h, m, sq, tq, kq, sd, td, kd, aq)
<1>1. PICK s \in Stages : Stage(c, h, sq, tq, kq, kd, aq, s)
  BY DEF PairOf
<1>2. Open(e, g, sd, td, kd, aq)
  BY DEF PairOf, Open
<1>3. Stage(e, h, sq, tq, kq, kd, aq, s)
  BY <1>1 DEF Stage, Asking
<1>4. Serves(e, m, h)
  BY DEF PairOf, Serves, Current, Fits
<1>5. Arrived(e, m, sq, tq, kq)
  BY DEF PairOf, Arrived, Fits, Asking
<1>6. Collected(e, m) /\ Returns(e, m)
  BY DEF PairOf, Collected, Returns
<1> QED BY <1>2, <1>3, <1>4, <1>5, <1>6 DEF PairOf
-----------------------------------------------------------------------------
(* The steps of the other node. *)

\* Of two nodes, a message that is not a node's own is the other one's.
LEMMA AnswerGoes ==
    ASSUME Queues, TwoNodes, NEW n \in Nodes, NEW d \in Nodes, n # d,
           NEW r \in Command \cup Reply, r.src # d, NEW o \in Outcomes, Answer(d, r, o)
    PROVE  LET a == [src |-> d, outcome |-> o]
           IN acks'[n] = Append(acks[n], a) /\ acks'[d] = acks[d] /\ a \in Ack
<1>1. r.src \in Nodes
  BY DEF Command, Reply
<1>2. r.src = n
  BY <1>1 DEF TwoNodes
<1> QED BY <1>2 DEF Answer, Queues, Ack

\* The head of a queue is of a message of the other node.
LEMMA HeadSender ==
    ASSUME BytesInv, SenderInv, NEW n \in Nodes
    PROVE  /\ hq[n] # << >> => Head(hq[n]) \in Command \cup Reply /\ Head(hq[n]).src # n
           /\ rq[n] # << >> => Head(rq[n]) \in Reply /\ Head(rq[n]).src # n
           /\ dgs[n] # << >> => Head(dgs[n]) \in Reply /\ Head(dgs[n]).src # n
           /\ acks[n] # << >> => Head(acks[n]) \in Ack /\ Head(acks[n]).src # n
<1>1. Senders(n) /\ hq[n] \in Seq(Command \cup Reply) /\ rq[n] \in Seq(Reply)
      /\ dgs[n] \in Seq(Reply) /\ acks[n] \in Seq(Ack)
  BY PairTypes DEF SenderInv
<1>2. hq[n] # << >> => /\ Head(hq[n]) \in Command \cup Reply /\ Head(hq[n]) = hq[n][1]
                       /\ 1 \in 1..Len(hq[n])
  BY <1>1, TailShape
<1>3. rq[n] # << >> => Head(rq[n]) \in Reply /\ Head(rq[n]) = rq[n][1] /\ 1 \in 1..Len(rq[n])
  BY <1>1, TailShape
<1>4. dgs[n] # << >> => Head(dgs[n]) \in Reply /\ Head(dgs[n]) = dgs[n][1] /\ 1 \in 1..Len(dgs[n])
  BY <1>1, TailShape
<1>5. acks[n] # << >> => Head(acks[n]) \in Ack /\ Head(acks[n]) = acks[n][1] /\ 1 \in 1..Len(acks[n])
  BY <1>1, TailShape
<1> QED BY <1>1, <1>2, <1>3, <1>4, <1>5 DEF Senders

\* What a pair consists of after a step.
LEMMA PairNext ==
    ASSUME NEW n, NEW d,
           PairOf(cli'[n], hnd'[n], hnd'[d], mem'[d], dgs'[n], rq'[n], hq'[n],
                  dgs'[d], rq'[d], hq'[d], acks'[n])
    PROVE  Pair(n, d)'
BY DEF Pair

\* Whatever the other client does, and the end of a response of the handler.
LEMMA PeerClientSteps ==
    ASSUME BytesInv, SenderInv, TwoNodes, NEW n \in Nodes, NEW d \in Nodes, n # d, Pair(n, d),
           \/ Entry(d) \/ DoRequest(d) \/ SendDatagram(d) \/ DatagramComplete(d)
           \/ ResponseTimeout(d) \/ TimerExpires(d) \/ TimerRun(d)
           \/ TakeAnswer(d) \/ AnswerTimeout(d)
    PROVE  Pair(n, d)'
<1>0. /\ cli \in [Nodes -> ClientState] /\ hnd \in [Nodes -> HandlerState] /\ Handlers
      /\ acks \in [Nodes -> Seq(Ack)]
  BY DEF BytesInv, Clients, Handlers, Queues
<1>1. /\ cli'[n] = cli[n]
      /\ UNCHANGED <<mem, hq, rq, dgs>> /\ acks'[n] = acks[n]
      /\ \/ hnd' = hnd \/ (\E b : hnd' = [hnd EXCEPT ![d].client = b])
         \/ ResponseFlowComplete(d) /\ hnd[d].pc = "wait_dg"
  <2>1. CASE Entry(d)
    BY <1>0, <2>1 DEF Entry, queues, wire
  <2>2. CASE DoRequest(d)
    BY <1>0, <2>2 DEF DoRequest, queues, wire
  <2>3. CASE SendDatagram(d)
    BY <1>0, <2>3 DEF SendDatagram, queues, wire
  <2>4. CASE DatagramComplete(d)
    <3> DEFINE e == Completed(cli[d])
    <3>1. Cleanup(d, e) /\ UNCHANGED <<mem, queues, wire>>
      BY <2>4 DEF DatagramComplete
    <3> HIDE DEF e
    <3> QED BY <1>0, <3>1 DEF Cleanup, queues, wire
  <2>5. CASE ResponseTimeout(d)
    <3> DEFINE e == Response(cli[d])
    <3>1. Cleanup(d, e) /\ UNCHANGED <<mem, queues, wire>>
      BY <2>5 DEF ResponseTimeout
    <3> HIDE DEF e
    <3> QED BY <1>0, <3>1 DEF Cleanup, queues, wire
  <2>6. CASE TimerExpires(d)
    BY <1>0, <2>6 DEF TimerExpires, queues, wire
  <2>7. CASE TimerRun(d)
    BY <1>0, <2>7 DEF TimerRun, queues, wire
  <2>8. CASE TakeAnswer(d)
    BY <1>0, <2>8 DEF TakeAnswer, queues
  <2>9. CASE AnswerTimeout(d)
    BY <1>0, <2>9 DEF AnswerTimeout, queues, wire
  <2> QED BY <2>1, <2>2, <2>3, <2>4, <2>5, <2>6, <2>7, <2>8, <2>9
<1>2. hnd'[n] = hnd[n] /\ SameHandler(hnd[d], hnd'[d])
  <2>1. CASE hnd' = hnd
    BY <2>1 DEF SameHandler
  <2>2. CASE \E b : hnd' = [hnd EXCEPT ![d].client = b]
    BY <1>0, <2>2, FlagFields
  <2>3. CASE ResponseFlowComplete(d) /\ hnd[d].pc = "wait_dg"
    <3> DEFINE k == [IdleHandler EXCEPT !.client = hnd[d].client]
    <3>1. hnd' = [hnd EXCEPT ![d] = k] /\ k.pc = "idle"
      BY <1>0, <2>3, FlowFields
    <3> HIDE DEF k
    <3> QED BY <1>0, <2>3, <3>1 DEF SameHandler, Serving
  <2> QED BY <1>1, <2>1, <2>2, <2>3
<1>3. PairOf(cli[n], hnd[n], hnd'[d], mem[d], dgs[n], rq[n], hq[n],
             dgs[d], rq[d], hq[d], acks[n])
  <2>1. SameClient(cli[n], cli[n])
    BY DEF SameClient
  <2> QED BY <1>2, <2>1, PairSame DEF Pair
<1> QED BY <1>1, <1>2, <1>3, PairNext

\* The request of the other client comes to n.
LEMMA PeerWrites ==
    ASSUME BytesInv, SenderInv, NEW n \in Nodes, NEW d \in Nodes, n # d, Pair(n, d),
           WriteDatagram(d), TwoNodes
    PROVE  Pair(n, d)'
<1> DEFINE r == cli[d].out
           lq == Append(hq[n], r)
<1>1. /\ cli[d].pc = "write_datagram" /\ hnd' = hnd /\ UNCHANGED <<mem, rq, dgs, acks>>
      /\ hq' = [hq EXCEPT ![cli[d].req.dst] = Append(@, r)]
      /\ cli'[n] = cli[n]
  BY PairTypes DEF WriteDatagram, wire, BytesInv, Clients
<1>2. r \in Command /\ cli[d].req.dst = n
  <2>1. cli[d].req.dst \in Nodes /\ cli[d].req.dst # d
    BY <1>1, AskedOther DEF SenderInv
  <2>2. r \in Command
    BY <1>1, PairTypes DEF ClientInv
  <2> QED BY <2>1, <2>2 DEF TwoNodes
<1>3. hq[n] \in Seq(Command \cup Reply) /\ r \in Command \cup Reply /\ ~IsReply(r)
  BY <1>2, PairTypes, KindOfMessage
<1>4. hq'[n] = lq /\ hq'[d] = hq[d]
  BY <1>1, <1>2 DEF BytesInv, Queues
<1> HIDE DEF r
<1>5. /\ Len(lq) = Len(hq[n]) + 1 /\ lq[Len(hq[n]) + 1] = r /\ Len(hq[n]) \in Nat
      /\ \A i \in 1..Len(hq[n]) : lq[i] = hq[n][i]
  BY <1>3, AppendShape
<1> HIDE DEF lq
<1>6. \A i \in 1..Len(lq) : IsReply(lq[i]) => i \in 1..Len(hq[n]) /\ lq[i] = hq[n][i]
  BY <1>3, <1>5
<1>7. \A i, j \in 1..Len(lq) : IsReply(lq[i]) /\ IsReply(lq[j]) => i = j
  BY <1>6 DEF Pair, PairOf, Stage
<1>8. PairOf(cli[n], hnd[n], hnd[d], mem[d], dgs[n], rq[n], lq, dgs[d], rq[d], hq[d], acks[n])
  <2>1. SameClient(cli[n], cli[n])
    BY DEF SameClient
  <2>2. \A i \in 1..Len(lq) : IsReply(lq[i]) => \E j \in 1..Len(hq[n]) : lq[i] = hq[n][j]
    BY <1>6
  <2> QED BY <1>7, <2>1, <2>2, PairCommands DEF Pair
<1> QED BY <1>1, <1>4, <1>8, PairNext

\* How many messages n has sent that have no outcome yet.
LEMMA RoomOf ==
    ASSUME BytesInv, NEW n \in Nodes, NEW d \in Nodes, Pair(n, d)
    PROVE  /\ Len(dgs[d]) \in Nat /\ Len(rq[d]) \in Nat /\ Len(hq[d]) \in Nat
           /\ Len(acks[n]) \in Nat
           /\ Len(dgs[d]) + Len(rq[d]) + Len(hq[d]) + Len(acks[n]) <=
                 IF cli[n].pc = "wait_dg" \/ hnd[n].pc = "wait_dg" THEN 1 ELSE 0
           /\ cli[n].pc # "wait_dg" => \A i \in 1..Len(hq[d]) : IsReply(hq[d][i])
           /\ cli[n].pc = "wait_dg" => dgs[d] = << >> /\ rq[d] = << >>
BY PairTypes, LenProperties DEF Pair, PairOf, Open

\* A reply of n that the other node's client takes, or rejects.
LEMMA PeerTakes ==
    ASSUME BytesInv, SenderInv, TwoNodes, NEW n \in Nodes, NEW d \in Nodes, n # d, Pair(n, d),
           ResponseEntry(d)
    PROVE  Pair(n, d)'
<1> DEFINE r == Head(rq[d])
           yd == Tail(rq[d])
<1>1. /\ rq[d] # << >> /\ rq' = [rq EXCEPT ![d] = yd] /\ UNCHANGED <<hnd, mem, hq, dgs>>
      /\ Answer(d, r, "ok") \/ Answer(d, r, "rejected")
      /\ cli'[n] = cli[n]
  BY PairTypes DEF ResponseEntry, BytesInv, Clients
<1>2. r \in Command \cup Reply /\ r.src # d
  BY <1>1, HeadSender
<1> HIDE DEF r
<1>3. PICK a : acks'[n] = Append(acks[n], a) /\ a \in Ack
  BY <1>1, <1>2, AnswerGoes DEF BytesInv, Outcomes
<1> DEFINE bq == Append(acks[n], a)
<1>4. acks[n] \in Seq(Ack) /\ rq[d] \in Seq(Reply)
  BY PairTypes
<1>5. Len(bq) = Len(acks[n]) + 1 /\ Len(yd) = Len(rq[d]) - 1
  BY <1>1, <1>3, <1>4, AppendShape, TailShape
<1> HIDE DEF bq, yd
<1>6. cli[n].pc # "wait_dg"
  BY <1>1, RoomOf
<1>7. Len(dgs[d]) + Len(yd) + Len(hq[d]) + Len(bq) <= IF hnd[n].pc = "wait_dg" THEN 1 ELSE 0
  <2>1. /\ Len(dgs[d]) \in Nat /\ Len(rq[d]) \in Nat /\ Len(hq[d]) \in Nat
        /\ Len(acks[n]) \in Nat
        /\ Len(dgs[d]) + Len(rq[d]) + Len(hq[d]) + Len(acks[n]) <=
              IF cli[n].pc = "wait_dg" \/ hnd[n].pc = "wait_dg" THEN 1 ELSE 0
    BY RoomOf, Zenon
  <2> DEFINE x == Len(dgs[d])
             y == Len(rq[d])
             z == Len(hq[d])
             q == Len(acks[n])
  <2>2. /\ x \in Nat /\ y \in Nat /\ z \in Nat /\ q \in Nat
        /\ x + y + z + q <= IF hnd[n].pc = "wait_dg" THEN 1 ELSE 0
        /\ Len(yd) = y - 1 /\ Len(bq) = q + 1
    BY <1>5, <1>6, <2>1
  <2> HIDE DEF x, y, z, q
  <2>3. x + Len(yd) + z + Len(bq) <= IF hnd[n].pc = "wait_dg" THEN 1 ELSE 0
    BY <2>2
  <2> QED BY <2>3 DEF x, z
<1>8. PairOf(cli[n], hnd[n], hnd[d], mem[d], dgs[n], rq[n], hq[n], dgs[d], yd, hq[d], bq)
  <2>1. SameClient(cli[n], cli[n]) /\ SameHandler(hnd[d], hnd[d])
    BY DEF SameClient, SameHandler
  <2> QED BY <1>6, <1>7, <2>1, RoomOf, PairMoves DEF Pair
<1>9. rq'[d] = yd /\ rq'[n] = rq[n] /\ acks'[n] = bq
  BY <1>1, <1>3 DEF bq, BytesInv, Queues
<1> QED BY <1>1, <1>8, <1>9, PairNext

\* A reply of n comes to the other node.
LEMMA PeerDelivers ==
    ASSUME BytesInv, NEW n \in Nodes, NEW d \in Nodes, n # d, Pair(n, d), HandlerSend(d)
    PROVE  Pair(n, d)'
<1> DEFINE r == Head(dgs[d])
           xd == Tail(dgs[d])
           yd == Append(rq[d], r)
           zd == Append(hq[d], r)
<1>1. /\ dgs[d] # << >> /\ dgs' = [dgs EXCEPT ![d] = xd] /\ UNCHANGED <<hnd, mem, cli, acks>>
      /\ \/ rq' = [rq EXCEPT ![d] = yd] /\ hq' = hq
         \/ hq' = [hq EXCEPT ![d] = zd] /\ rq' = rq
  BY DEF HandlerSend
<1>2. /\ dgs[d] \in Seq(Reply) /\ rq[d] \in Seq(Reply) /\ hq[d] \in Seq(Command \cup Reply)
  BY PairTypes
<1>3. Len(xd) = Len(dgs[d]) - 1 /\ r \in Reply
  BY <1>1, <1>2, TailShape
<1> HIDE DEF r
<1>4. r \in Command \cup Reply /\ IsReply(r)
  BY <1>3, KindOfMessage
<1>5. Len(yd) = Len(rq[d]) + 1
  BY <1>2, <1>3, AppendShape
<1>6. /\ Len(zd) = Len(hq[d]) + 1 /\ zd[Len(hq[d]) + 1] = r /\ Len(hq[d]) \in Nat
      /\ \A i \in 1..Len(hq[d]) : zd[i] = hq[d][i]
  BY <1>2, <1>4, AppendShape
<1> HIDE DEF xd, yd, zd
<1>7. cli[n].pc # "wait_dg"
  BY <1>1, RoomOf
<1>8. /\ Len(xd) + Len(yd) + Len(hq[d]) + Len(acks[n]) <= IF hnd[n].pc = "wait_dg" THEN 1 ELSE 0
      /\ Len(xd) + Len(rq[d]) + Len(zd) + Len(acks[n]) <= IF hnd[n].pc = "wait_dg" THEN 1 ELSE 0
  <2>1. /\ Len(dgs[d]) \in Nat /\ Len(rq[d]) \in Nat /\ Len(hq[d]) \in Nat
        /\ Len(acks[n]) \in Nat
        /\ Len(dgs[d]) + Len(rq[d]) + Len(hq[d]) + Len(acks[n]) <=
              IF cli[n].pc = "wait_dg" \/ hnd[n].pc = "wait_dg" THEN 1 ELSE 0
    BY RoomOf, Zenon
  <2> DEFINE x == Len(dgs[d])
             y == Len(rq[d])
             z == Len(hq[d])
             q == Len(acks[n])
  <2>2. /\ x \in Nat /\ y \in Nat /\ z \in Nat /\ q \in Nat
        /\ x + y + z + q <= IF hnd[n].pc = "wait_dg" THEN 1 ELSE 0
        /\ Len(xd) = x - 1 /\ Len(yd) = y + 1 /\ Len(zd) = z + 1
    BY <1>3, <1>5, <1>6, <1>7, <2>1
  <2> HIDE DEF x, y, z, q
  <2>3. /\ Len(xd) + Len(yd) + z + q <= IF hnd[n].pc = "wait_dg" THEN 1 ELSE 0
        /\ Len(xd) + y + Len(zd) + q <= IF hnd[n].pc = "wait_dg" THEN 1 ELSE 0
    BY <2>2
  <2> QED BY <2>3 DEF y, z, q
<1>9. \A i \in 1..Len(zd) : IsReply(zd[i])
  <2> TAKE i \in 1..Len(zd)
  <2>1. i \in 1..Len(hq[d]) \/ i = Len(hq[d]) + 1
    BY <1>6
  <2> QED BY <1>4, <1>6, <1>7, <2>1, RoomOf
<1>10. SameClient(cli[n], cli[n]) /\ SameHandler(hnd[d], hnd[d])
  BY DEF SameClient, SameHandler
<1>11. /\ PairOf(cli[n], hnd[n], hnd[d], mem[d], dgs[n], rq[n], hq[n], xd, yd, hq[d], acks[n])
       /\ PairOf(cli[n], hnd[n], hnd[d], mem[d], dgs[n], rq[n], hq[n], xd, rq[d], zd, acks[n])
  <2>1. PairOf(cli[n], hnd[n], hnd[d], mem[d], dgs[n], rq[n], hq[n], dgs[d], rq[d],
               hq[d], acks[n])
    BY DEF Pair
  <2>2. \A i \in 1..Len(hq[d]) : IsReply(hq[d][i])
    BY <1>7, RoomOf, Zenon
  <2>3. PairOf(cli[n], hnd[n], hnd[d], mem[d], dgs[n], rq[n], hq[n], xd, yd, hq[d], acks[n])
    BY <1>7, <1>8, <1>10, <2>1, <2>2, PairMoves
  <2>4. PairOf(cli[n], hnd[n], hnd[d], mem[d], dgs[n], rq[n], hq[n], xd, rq[d], zd, acks[n])
    BY <1>7, <1>8, <1>9, <1>10, <2>1, PairMoves
  <2> QED BY <2>3, <2>4, Zenon
<1>12. /\ dgs'[d] = xd /\ dgs'[n] = dgs[n] /\ rq'[n] = rq[n] /\ hq'[n] = hq[n]
       /\ \/ rq'[d] = yd /\ hq'[d] = hq[d]
          \/ rq'[d] = rq[d] /\ hq'[d] = zd
  BY <1>1 DEF BytesInv, Queues
<1> QED BY <1>1, <1>11, <1>12, PairNext

\* The other handler takes a reply or a request of n from its queue.
LEMMA PeerEnters ==
    ASSUME BytesInv, SenderInv, TwoNodes, NEW n \in Nodes, NEW d \in Nodes, n # d, Pair(n, d),
           HandlerEntry(d)
    PROVE  Pair(n, d)'
<1> DEFINE r == Head(hq[d])
           zd == Tail(hq[d])
           yd == Append(rq[d], r)
           k == [hnd[d] EXCEPT !.pc = "try", !.msg = r, !.currentOffset = 0]
           c == cli[n]
<1>1. /\ hq[d] # << >> /\ hq' = [hq EXCEPT ![d] = zd] /\ UNCHANGED <<cli, mem, dgs>>
      /\ hnd[d].pc = "idle"
      /\ \/ /\ IsReply(r) /\ rq' = [rq EXCEPT ![d] = yd] /\ UNCHANGED <<hnd, acks>>
         \/ /\ Answer(d, r, "rejected") /\ UNCHANGED <<hnd, rq>>
         \/ /\ r.kind = "META" /\ Answer(d, r, "ok") /\ UNCHANGED <<hnd, rq>>
         \/ /\ r.kind \in {"READ", "WRITE"} /\ ~Refused(r) /\ UNCHANGED rq
            /\ Answer(d, r, "ok_reply_pending")
            /\ hnd' = [hnd EXCEPT ![d] = k]
  BY DEF HandlerEntry
<1>2. /\ r \in Command \cup Reply /\ r.src # d
      /\ rq[d] \in Seq(Reply) /\ hq[d] \in Seq(Command \cup Reply) /\ acks[n] \in Seq(Ack)
      /\ hnd[d] \in HandlerState /\ HandlerInv(hnd[d]) /\ c \in ClientState
  BY <1>1, HeadSender, PairTypes
<1>3. /\ Len(zd) = Len(hq[d]) - 1 /\ r = hq[d][1] /\ Len(hq[d]) \in Nat /\ Len(hq[d]) # 0
  BY <1>1, <1>2, TailShape
<1>4. /\ Len(dgs[d]) = 0 /\ Len(rq[d]) = 0 /\ Len(hq[d]) = 1 /\ Len(acks[n]) = 0
      /\ c.pc = "wait_dg" \/ hnd[n].pc = "wait_dg"
  <2>1. /\ Len(dgs[d]) \in Nat /\ Len(rq[d]) \in Nat /\ Len(hq[d]) \in Nat
        /\ Len(acks[n]) \in Nat
        /\ Len(dgs[d]) + Len(rq[d]) + Len(hq[d]) + Len(acks[n]) <=
              IF cli[n].pc = "wait_dg" \/ hnd[n].pc = "wait_dg" THEN 1 ELSE 0
    BY RoomOf, Zenon
  <2> DEFINE x == Len(dgs[d])
             y == Len(rq[d])
             z == Len(hq[d])
             q == Len(acks[n])
  <2>2. /\ x \in Nat /\ y \in Nat /\ z \in Nat /\ q \in Nat /\ z # 0
        /\ x + y + z + q <= IF c.pc = "wait_dg" \/ hnd[n].pc = "wait_dg" THEN 1 ELSE 0
    BY <1>3, <2>1
  <2> HIDE DEF x, y, z, q, c
  <2>3. /\ x = 0 /\ y = 0 /\ z = 1 /\ q = 0
        /\ c.pc = "wait_dg" \/ hnd[n].pc = "wait_dg"
    BY <2>2
  <2> QED BY <2>3 DEF x, y, z, q
<1>5. zd = << >>
  BY <1>2, <1>4, OneMessage
<1> HIDE DEF r, zd
<1>6. SameClient(c, c) /\ SameHandler(hnd[d], hnd[d])
  BY DEF SameClient, SameHandler
<1>7. c.pc = "wait_dg" => r = Current(c) /\ ~IsReply(r)
  <2> SUFFICES ASSUME c.pc = "wait_dg" PROVE r = Current(c) /\ ~IsReply(r)
    OBVIOUS
  <2>1. r = Current(c)
    BY <1>3, <1>4 DEF Pair, PairOf, Open
  <2>2. c.req.cmd \in {"READ", "WRITE", "META"}
    BY AskedOther DEF SenderInv
  <2> QED BY <2>1, <2>2 DEF IsReply, Current
<1>8. c.pc # "wait_dg" => IsReply(r)
  <2>1. c.pc # "wait_dg" => \A i \in 1..Len(hq[d]) : IsReply(hq[d][i])
    BY RoomOf, Zenon
  <2> QED BY <1>3, <1>4, <2>1
<1>9. /\ hq'[d] = zd /\ hq'[n] = hq[n] /\ hnd'[n] = hnd[n] /\ rq'[n] = rq[n]
  BY <1>1 DEF BytesInv, Queues, Handlers
<1>10. ASSUME NEW o \in Outcomes, Answer(d, r, o)
       PROVE  \E bq : acks'[n] = bq /\ Len(bq) = 1 /\ bq[1].outcome = o
  <2> DEFINE a == [src |-> d, outcome |-> o]
             bq == Append(acks[n], a)
  <2>1. acks'[n] = bq /\ a \in Ack /\ a.outcome = o
    BY <1>2, <1>10, AnswerGoes DEF BytesInv
  <2> HIDE DEF a
  <2>2. Len(bq) = Len(acks[n]) + 1 /\ bq[Len(acks[n]) + 1] = a
    BY <1>2, <2>1, AppendShape
  <2> HIDE DEF bq
  <2>3. Len(bq) = 1 /\ bq[1].outcome = o
    BY <1>4, <2>1, <2>2
  <2> QED BY <2>1, <2>3
<1>11. \A i \in 1..Len(<< >>) : IsReply(<< >>[i])
  OBVIOUS
<1>12. Len(<< >>) = 0
  OBVIOUS
<1>13. CASE IsReply(r) /\ rq' = [rq EXCEPT ![d] = yd] /\ UNCHANGED <<hnd, acks>>
  <2>1. c.pc # "wait_dg" /\ hnd[n].pc = "wait_dg" /\ r \in Reply
    BY <1>2, <1>4, <1>7, <1>13, KindOfMessage
  <2>2. Len(yd) = 1
    BY <1>2, <1>4, <2>1, AppendShape
  <2>3. rq'[d] = yd
    BY <1>13 DEF BytesInv, Queues
  <2> HIDE DEF yd
  <2>4. PairOf(c, hnd[n], hnd[d], mem[d], dgs[n], rq[n], hq[n], dgs[d], yd, << >>, acks[n])
    <3>1. Len(dgs[d]) + Len(yd) + Len(<< >>) + Len(acks[n]) <= IF hnd[n].pc = "wait_dg" THEN 1 ELSE 0
      BY <1>4, <1>12, <2>1, <2>2
    <3> QED BY <1>6, <1>11, <2>1, <3>1, PairMoves DEF Pair
  <2> QED BY <1>1, <1>5, <1>9, <1>13, <2>3, <2>4, PairNext
<1>14. ASSUME NEW o \in {"rejected", "ok"}, o = "ok" => r.kind = "META",
              Answer(d, r, o), UNCHANGED <<hnd, rq>>
       PROVE  Pair(n, d)'
  <2>1. PICK bq : acks'[n] = bq /\ Len(bq) = 1 /\ bq[1].outcome = o
    BY <1>10, <1>14 DEF Outcomes
  <2>2. CASE c.pc # "wait_dg"
    <3>1. hnd[n].pc = "wait_dg"
      BY <1>4, <2>2
    <3>2. PairOf(c, hnd[n], hnd[d], mem[d], dgs[n], rq[n], hq[n], dgs[d], rq[d], << >>, bq)
      <4>1. Len(dgs[d]) + Len(rq[d]) + Len(<< >>) + Len(bq) <= IF hnd[n].pc = "wait_dg" THEN 1 ELSE 0
        BY <1>4, <1>12, <2>1, <3>1
      <4> QED BY <1>6, <1>11, <2>2, <4>1, PairMoves DEF Pair
    <3> QED BY <1>1, <1>5, <1>9, <1>14, <2>1, <3>2, PairNext
  <2>3. CASE c.pc = "wait_dg"
    <3>1. \E i \in 1..Len(hq[d]) : ~IsReply(hq[d][i])
      BY <1>3, <1>4, <1>7, <2>3
    <3>2. \A i \in 1..Len(bq) : bq[i].outcome = "ok" => c.req.cmd = "META"
      BY <1>7, <1>14, <2>1, <2>3 DEF Current
    <3>3. PairOf(c, hnd[n], hnd[d], mem[d], dgs[n], rq[n], hq[n], << >>, << >>, << >>, bq)
      BY <1>6, <2>1, <2>3, <3>1, <3>2, PairAnswered DEF Pair
    <3>4. dgs[d] = << >> /\ rq[d] = << >>
      BY <2>3, RoomOf
    <3> QED BY <1>1, <1>5, <1>9, <1>14, <2>1, <3>3, <3>4, PairNext
  <2> QED BY <2>2, <2>3
<1>15. CASE /\ r.kind \in {"READ", "WRITE"} /\ ~Refused(r) /\ UNCHANGED rq
            /\ Answer(d, r, "ok_reply_pending") /\ hnd' = [hnd EXCEPT ![d] = k]
  <2>1. PICK bq : acks'[n] = bq /\ Len(bq) = 1 /\ bq[1].outcome = "ok_reply_pending"
    BY <1>10, <1>15 DEF Outcomes
  <2>2. c.pc = "wait_dg"
    BY <1>8, <1>15 DEF IsReply
  <2>3. /\ k.pc = "try" /\ k.msg = r /\ k.currentOffset = 0 /\ k.bytes = << >>
    <3>1. hnd[d].bytes = << >>
      BY <1>1, <1>2 DEF HandlerInv
    <3> QED BY <1>2, <3>1 DEF HandlerState
  <2>4. hnd'[d] = k
    BY <1>15 DEF BytesInv, Handlers
  <2> HIDE DEF k
  <2>5. \E i \in 1..Len(hq[d]) : ~IsReply(hq[d][i])
    BY <1>3, <1>4, <1>7, <2>2
  <2>6. /\ c.writeLength \in Nat /\ c.offset \in Nat
        /\ c.req.cmd # "META"
        /\ c.req.cmd = "WRITE" => c.writeLength # 0
    BY <1>2, <1>7, <1>15, <2>2 DEF ClientState, Current, Refused
  <2>7. PairOf(c, hnd[n], k, mem[d], dgs[n], rq[n], hq[n], << >>, << >>, << >>, bq)
    BY <1>7, <2>1, <2>2, <2>3, <2>5, <2>6, PairAccepts DEF Pair
  <2>8. dgs[d] = << >> /\ rq[d] = << >>
    BY <2>2, RoomOf
  <2> QED BY <1>1, <1>5, <1>9, <1>15, <2>1, <2>4, <2>7, <2>8, PairNext
<1> QED BY <1>1, <1>13, <1>14, <1>15
-----------------------------------------------------------------------------
(* The handler of the other node serves the request. *)

LEMMA SeqOf ==
    ASSUME NEW T, NEW k \in Nat, NEW s \in [1..k -> T]
    PROVE  s \in Seq(T) /\ Len(s) = k
OBVIOUS

\* A step further: what it has read or written is still what was asked for.
LEMMA ServesReads ==
    ASSUME NEW c, NEW h \in HandlerState, HandlerInv(h), NEW g \in HandlerState,
           NEW m \in [0..SpaceSize - 1 -> Nat], Serves(c, m, h), NEW k \in Possible(h),
           h.pc = "try", h.msg.kind = "READ", g.pc = "try", g.msg = h.msg,
           g.currentOffset = h.currentOffset + k,
           g.bytes = h.bytes \o
              [i \in 1..k |-> <<h.msg.addr + h.currentOffset + i - 1,
                                m[h.msg.addr + h.currentOffset + i - 1]>>]
    PROVE  Serves(c, m, g)
<1> DEFINE at == h.msg.addr + h.currentOffset
           t == [i \in 1..k |-> <<at + i - 1, m[at + i - 1]>>]
<1>1. /\ h.msg \in Command /\ h.msg.addr \in Nat /\ h.msg.len \in Nat
      /\ h.currentOffset \in Nat /\ h.bytes \in Seq(Byte)
      /\ Len(h.bytes) = h.currentOffset
      /\ k \in Nat /\ h.currentOffset + k <= h.msg.len /\ at + k <= SpaceSize
      /\ SpaceSize \in Nat
  <2>1. h.msg \in Command /\ Len(h.bytes) = h.currentOffset
    BY DEF HandlerInv
  <2>2. h.msg.addr \in Nat /\ h.msg.len \in Nat
    BY <2>1 DEF Command
  <2>3. h.currentOffset \in Nat /\ h.bytes \in Seq(Byte)
    BY DEF HandlerState
  <2>4. SpaceSize \in Nat
    BY MemoryConfigAssumption DEF MemoryConfigAssumption
  <2>5. k \in 1..h.msg.len - h.currentOffset /\ at + k <= SpaceSize
    BY DEF Possible
  <2>6. \A x, y \in Nat : k \in 1..x - y => k \in Nat /\ y + k <= x
    OBVIOUS
  <2> HIDE DEF at
  <2>7. k \in Nat /\ h.currentOffset + k <= h.msg.len
    BY <2>2, <2>3, <2>5, <2>6
  <2> QED BY <2>1, <2>2, <2>3, <2>4, <2>5, <2>7, Zenon
<1>2. t \in Seq(Byte) /\ Len(t) = k
  <2>0. at \in Nat
    BY <1>1
  <2> HIDE DEF at
  <2>1. \A i \in 1..k : at + i - 1 \in 0..SpaceSize - 1
    BY <1>1, <2>0
  <2>2. \A i \in 1..k : <<at + i - 1, m[at + i - 1]>> \in Byte
    BY <2>1 DEF Byte
  <2>3. t \in [1..k -> Byte]
    BY <2>2
  <2> HIDE DEF t
  <2>4. k \in Nat
    BY <1>1
  <2> QED BY <2>3, <2>4, SeqOf, Zenon
<1>3. Holds(m, t, at)
  BY <1>2 DEF Holds
<1>4. Holds(m, h.bytes, h.msg.addr)
  BY DEF Serves
<1> HIDE DEF t
<1>5. Holds(m, h.bytes \o t, h.msg.addr)
  BY <1>1, <1>2, <1>3, <1>4, HoldsMore
<1>6. g.bytes = h.bytes \o t
  BY DEF t
<1> QED BY <1>1, <1>5, <1>6 DEF Serves, Serving

\* The response to a read: all that was asked for, or all there is.
LEMMA ServesReadReply ==
    ASSUME NEW c, NEW h \in HandlerState, HandlerInv(h), NEW m, Serves(c, m, h),
           h.pc = "try", h.msg.kind = "READ", Complete(h) \/ AtEnd(h),
           NEW g, g.pc = "alloc", g.msg = h.msg, g.response.kind = "READ_REPLY",
           g.response.addr = h.msg.addr, g.response.bytes = h.bytes
    PROVE  Serves(c, m, g)
<1>1. h.msg = Current(c) /\ h.msg.addr = c.offset /\ h.msg.len = c.writeLength
  BY DEF Serves, Serving, Current
<1>2. Len(h.bytes) = h.currentOffset /\ h.currentOffset <= h.msg.len
      /\ Holds(m, h.bytes, h.msg.addr)
  BY DEF HandlerInv, Serves
<1>3. Fits(c, m, g.response)
  BY <1>1, <1>2 DEF Fits, Complete, AtEnd
<1> QED BY <1>1, <1>3 DEF Serves, Serving

\* A read that fails has nothing to say, unless it is beyond the end.
LEMMA ServesReadFailed ==
    ASSUME NEW c, NEW h \in HandlerState, NEW m, Serves(c, m, h), HandlerInv(h),
           h.pc = "try", h.msg.kind = "READ",
           NEW g, g.pc = "alloc", g.msg = h.msg, g.response.kind = "READ_FAILED",
           g.response.addr = h.msg.addr,
           g.response.error = "failed" \/ (AtEnd(h) /\ ~(h.currentOffset > 0))
    PROVE  Serves(c, m, g)
<1>1. h.msg = Current(c) /\ h.currentOffset \in Nat /\ h.msg.addr \in Nat
  BY DEF Serves, Serving, HandlerState, HandlerInv, Command
<1>2. Fits(c, m, g.response)
  BY <1>1 DEF Fits, AtEnd
<1> QED BY <1>1, <1>2 DEF Serves, Serving

LEMMA ServesWriteFailed ==
    ASSUME NEW c, NEW h \in HandlerState, NEW m, Serves(c, m, h), HandlerInv(h),
           h.pc = "try", h.msg.kind = "WRITE",
           NEW g, g.pc = "alloc", g.msg = h.msg, g.response.kind = "WRITE_FAILED",
           g.response.addr = h.msg.addr,
           g.response.error = "failed" \/ AtEnd(h)
    PROVE  Serves(c, m, g)
<1>1. /\ h.msg = Current(c) /\ h.currentOffset \in Nat /\ h.msg.addr \in Nat
      /\ h.msg.len \in Nat /\ h.currentOffset < h.msg.len /\ h.msg.len = c.writeLength
      /\ SpaceSize \in Nat
  BY MemoryConfigAssumption DEF Serves, Serving, HandlerState, HandlerInv, Command, Current,
                                MemoryConfigAssumption
<1>2. Fits(c, m, g.response)
  BY <1>1 DEF Fits, AtEnd
<1> QED BY <1>1, <1>2 DEF Serves, Serving

\* A write of k bytes, and then the response when that was all.
Stored(m, h, k) ==
    [a \in 0..SpaceSize - 1 |->
        IF a \in h.msg.addr + h.currentOffset..h.msg.addr + h.currentOffset + k - 1
        THEN h.msg.id ELSE m[a]]
Stores(h, g, k) ==
    /\ g.msg = h.msg
    /\ \/ /\ g.pc = "try" /\ g.currentOffset = h.currentOffset + k
          /\ g.currentOffset # g.msg.len
       \/ /\ g.pc = "alloc" /\ h.currentOffset + k = h.msg.len
          /\ g.response.kind = "WRITE_REPLY" /\ g.response.addr = h.msg.addr

LEMMA ServesWrites ==
    ASSUME NEW c, NEW h \in HandlerState, NEW m, Serves(c, m, h), HandlerInv(h),
           h.pc = "try", h.msg.kind = "WRITE", NEW k \in Possible(h), NEW g, Stores(h, g, k)
    PROVE  LET p == Stored(m, h, k)
           IN Serves(c, p, g) /\ \A a \in 0..SpaceSize - 1 : p[a] = m[a] \/ p[a] = c.id
<1> DEFINE at == h.msg.addr + h.currentOffset
           p == Stored(m, h, k)
<1>1. /\ h.msg = Current(c) /\ h.currentOffset \in Nat /\ h.msg.addr \in Nat
      /\ h.msg.len \in Nat /\ h.msg.len = c.writeLength /\ h.msg.id = c.id
      /\ SpaceSize \in Nat
      /\ k \in Nat /\ h.currentOffset + k <= h.msg.len /\ at + k <= SpaceSize
      /\ Written(m, h.msg.addr, h.currentOffset, h.msg.id)
  BY MemoryConfigAssumption DEF Serves, Serving, HandlerState, HandlerInv, Command, Current,
                                MemoryConfigAssumption, Possible
<1>0. \A a \in 0..SpaceSize - 1 : p[a] = IF a \in at..at + k - 1 THEN h.msg.id ELSE m[a]
  BY DEF Stored
<1> HIDE DEF p
<1>2. \A a \in 0..SpaceSize - 1 : p[a] = m[a] \/ p[a] = c.id
  BY <1>0, <1>1
<1>3. Written(p, h.msg.addr, h.currentOffset, h.msg.id)
  BY <1>1, <1>2 DEF Written
<1>4. Written(p, at, k, h.msg.id)
  BY <1>0, <1>1 DEF Written
<1>5. Written(p, h.msg.addr, h.currentOffset + k, h.msg.id)
  BY <1>1, <1>3, <1>4, WrittenMore
<1>6. CASE g.pc = "try"
  <2>1. g.msg = h.msg /\ g.currentOffset = h.currentOffset + k /\ g.currentOffset < g.msg.len
    BY <1>1, <1>6 DEF Stores
  <2>2. g.msg = Current(c) /\ Written(p, g.msg.addr, g.currentOffset, g.msg.id)
    BY <1>1, <1>5, <2>1
  <2> QED BY <1>2, <1>6, <2>1, <2>2 DEF Serves, Serving, p
<1>7. CASE g.pc = "alloc"
  <2>0. g.msg = h.msg /\ h.currentOffset + k = h.msg.len /\ g.response.addr = h.msg.addr
        /\ g.response.kind = "WRITE_REPLY"
    BY <1>7 DEF Stores
  <2>1. Fits(c, p, g.response)
    BY <1>1, <1>5, <2>0 DEF Fits
  <2>2. Serves(c, p, g)
    BY <1>1, <1>7, <2>0, <2>1 DEF Serves, Serving
  <2> QED BY <1>2, <2>2 DEF p
<1> QED BY <1>6, <1>7 DEF Stores

\* What the other handler does with the request, until it sends its response.
LEMMA PeerHandlerSteps ==
    ASSUME BytesInv, SenderInv, TwoNodes, NEW n \in Nodes, NEW d \in Nodes, n # d, Pair(n, d),
           TryRead(d) \/ TryWrite(d) \/ ClientAllocated(d)
    PROVE  Pair(n, d)'
<1> DEFINE h == hnd[d]
           c == cli[n]
           m == mem[d]
<1>0. /\ h \in HandlerState /\ HandlerInv(h) /\ m \in [0..SpaceSize - 1 -> Nat]
      /\ hnd \in [Nodes -> HandlerState] /\ mem \in [Nodes -> [0..SpaceSize - 1 -> Nat]]
      /\ c \in ClientState /\ Serves(c, m, h)
  BY PairTypes DEF BytesInv, Handlers, Memory, Pair, PairOf
<1>01. ASSUME NEW k, NEW p, hnd' = [hnd EXCEPT ![d] = k], mem'[d] = p,
              UNCHANGED <<cli, hq, rq, dgs, acks>>,
              PairOf(c, hnd[n], k, p, dgs[n], rq[n], hq[n], dgs[d], rq[d], hq[d], acks[n])
       PROVE  Pair(n, d)'
  <2>1. hnd'[d] = k /\ hnd'[n] = hnd[n]
    BY <1>0, <1>01
  <2> QED BY <1>01, <2>1, PairNext
<1>02. ASSUME NEW k, NEW p, hnd' = [hnd EXCEPT ![d] = k], mem'[d] = p,
              UNCHANGED <<cli, hq, rq, dgs, acks>>, h.pc \in Serving, k.pc \in Serving,
              Serves(c, p, k),
              \/ p = m
              \/ c.req.cmd = "WRITE" /\ \A a \in 0..SpaceSize - 1 : p[a] = m[a] \/ p[a] = c.id
       PROVE  Pair(n, d)'
  <2>1. PairOf(c, hnd[n], k, p, dgs[n], rq[n], hq[n], dgs[d], rq[d], hq[d], acks[n])
    BY <1>02, PairServes DEF Pair
  <2> QED BY <1>01, <1>02, <2>1
<1> HIDE DEF h, c, m
<1>1. CASE TryRead(d)
  <2>1. /\ h.pc = "try" /\ h.msg.kind = "READ" /\ mem'[d] = m
        /\ UNCHANGED <<cli, hq, rq, dgs, acks>>
    BY <1>1, TryReadStep DEF h, m, queues, wire
  <2>2. ASSUME NEW k \in Possible(h)
        PROVE  /\ HandlerOK(ReadsMore(d, h, k)) /\ ReadsMore(d, h, k).pc = "try"
               /\ ReadsMore(d, h, k).msg = h.msg /\ Serves(c, m, ReadsMore(d, h, k))
    <3> DEFINE at == h.msg.addr + h.currentOffset
               g == ReadsMore(d, h, k)
    <3>1. /\ HandlerOK(g) /\ g \in HandlerState /\ g.pc = "try" /\ g.msg = h.msg
          /\ g.currentOffset = h.currentOffset + k
          /\ g.bytes = h.bytes \o [i \in 1..k |-> <<at + i - 1, m[at + i - 1]>>]
      BY <2>1, ReadsMoreFields DEF h, m
    <3> HIDE DEF g
    <3>2. Serves(c, m, g)
      BY <1>0, <2>1, <3>1, ServesReads
    <3> QED BY <3>1, <3>2 DEF g
  <2>3. ASSUME NEW k \in Possible(h), hnd' = [hnd EXCEPT ![d] = ReadsMore(d, h, k)]
        PROVE  Pair(n, d)'
    BY <1>02, <2>1, <2>2, <2>3 DEF Serving
  <2>4. ASSUME NEW g, HandlerOK(g), g.pc = "try", g.msg = h.msg, Serves(c, m, g),
               Complete(g) \/ AtEnd(g),
               hnd' = [hnd EXCEPT ![d] = Respond(d, g, "READ_REPLY", "none")]
        PROVE  Pair(n, d)'
    <3> DEFINE f == Respond(d, g, "READ_REPLY", "none")
    <3>1. /\ f.pc = "alloc" /\ f.msg = g.msg /\ f.response.kind = "READ_REPLY"
          /\ f.response.addr = g.msg.addr /\ f.response.bytes = g.bytes
      BY <2>4, RespondFields DEF HandlerOK
    <3> HIDE DEF f
    <3>2. Serves(c, m, f)
      BY <2>1, <2>4, <3>1, ServesReadReply DEF HandlerOK
    <3>3. hnd' = [hnd EXCEPT ![d] = f]
      BY <2>4 DEF f
    <3> QED BY <1>02, <2>1, <3>1, <3>2, <3>3 DEF Serving
  <2>5. ASSUME NEW e, e = "failed" \/ (AtEnd(h) /\ ~(h.currentOffset > 0)),
               hnd' = [hnd EXCEPT ![d] = Respond(d, h, "READ_FAILED", e)]
        PROVE  Pair(n, d)'
    <3> DEFINE f == Respond(d, h, "READ_FAILED", e)
    <3>1. /\ f.pc = "alloc" /\ f.msg = h.msg /\ f.response.kind = "READ_FAILED"
          /\ f.response.addr = h.msg.addr /\ f.response.error = e
      BY <1>0, RespondFields
    <3> HIDE DEF f
    <3>2. Serves(c, m, f)
      BY <1>0, <2>1, <2>5, <3>1, ServesReadFailed
    <3>3. hnd' = [hnd EXCEPT ![d] = f]
      BY <2>5 DEF f
    <3> QED BY <1>02, <2>1, <3>1, <3>2, <3>3 DEF Serving
  <2>6. \/ \E k \in Possible(h) : hnd' = [hnd EXCEPT ![d] = ReadsMore(d, h, k)]
        \/ \E k \in Possible(h) :
              /\ Complete(ReadsMore(d, h, k))
              /\ hnd' = [hnd EXCEPT ![d] = Respond(d, ReadsMore(d, h, k), "READ_REPLY", "none")]
        \/ /\ Complete(h) \/ AtEnd(h)
           /\ hnd' = [hnd EXCEPT ![d] = Respond(d, h, "READ_REPLY", "none")]
        \/ /\ AtEnd(h) /\ ~(h.currentOffset > 0)
           /\ hnd' = [hnd EXCEPT ![d] = Respond(d, h, "READ_FAILED", "ERROR_OUT_OF_BOUNDS")]
        \/ hnd' = [hnd EXCEPT ![d] = Respond(d, h, "READ_FAILED", "failed")]
    BY <1>1, TryReadStep DEF h
  <2>7. ASSUME NEW k \in Possible(h), Complete(ReadsMore(d, h, k)),
               hnd' = [hnd EXCEPT ![d] = Respond(d, ReadsMore(d, h, k), "READ_REPLY", "none")]
        PROVE  Pair(n, d)'
    BY <2>2, <2>4, <2>7
  <2>8. HandlerOK(h)
    BY <1>0 DEF HandlerOK
  <2> QED BY <1>0, <2>1, <2>3, <2>4, <2>5, <2>6, <2>7, <2>8
<1>2. CASE TryWrite(d)
  <2>1. h.pc = "try" /\ h.msg.kind = "WRITE" /\ UNCHANGED <<cli, hq, rq, dgs, acks>>
    BY <1>2, TryWriteStep DEF h, queues, wire
  <2>2. c.req.cmd = "WRITE"
    BY <1>0, <2>1 DEF Serves, Serving, Current
  <2>3. ASSUME NEW k \in Possible(h),
               mem' = [mem EXCEPT ![d] =
                          [a \in DOMAIN @ |->
                              IF a \in h.msg.addr + h.currentOffset
                                         ..h.msg.addr + h.currentOffset + k - 1
                              THEN h.msg.id ELSE @[a]]],
               \/ /\ ~Complete(WritesMore(h, k)) /\ hnd' = [hnd EXCEPT ![d] = WritesMore(h, k)]
               \/ /\ Complete(WritesMore(h, k))
                  /\ hnd' = [hnd EXCEPT ![d] =
                                Respond(d, WritesMore(h, k), "WRITE_REPLY", "none")]
        PROVE  Pair(n, d)'
    <3> DEFINE p == Stored(m, h, k)
               w == WritesMore(h, k)
               f == Respond(d, w, "WRITE_REPLY", "none")
    <3>1. mem'[d] = p
      BY <1>0, <2>3 DEF m, Stored
    <3>2. w \in HandlerState /\ w.pc = "try" /\ w.msg = h.msg
          /\ w.currentOffset = h.currentOffset + k
      BY <1>0, <2>1, WritesMoreFields
    <3> HIDE DEF w
    <3>3. /\ f.pc = "alloc" /\ f.msg = h.msg /\ f.response.kind = "WRITE_REPLY"
          /\ f.response.addr = h.msg.addr
      BY <3>2, RespondFields
    <3>4. \/ w.currentOffset # w.msg.len /\ hnd' = [hnd EXCEPT ![d] = w]
          \/ w.currentOffset = w.msg.len /\ hnd' = [hnd EXCEPT ![d] = f]
      BY <2>3 DEF Complete, w
    <3> HIDE DEF f
    <3>5. ASSUME NEW g, Stores(h, g, k), hnd' = [hnd EXCEPT ![d] = g] PROVE Pair(n, d)'
      <4>1. Serves(c, p, g) /\ \A a \in 0..SpaceSize - 1 : p[a] = m[a] \/ p[a] = c.id
        BY <1>0, <2>1, <3>5, ServesWrites
      <4>2. g.pc \in Serving
        BY <3>5 DEF Stores, Serving
      <4> HIDE DEF p
      <4> QED BY <1>02, <2>1, <2>2, <3>1, <3>5, <4>1, <4>2 DEF Serving
    <3>6. CASE w.currentOffset # w.msg.len /\ hnd' = [hnd EXCEPT ![d] = w]
      BY <3>2, <3>5, <3>6 DEF Stores
    <3>7. CASE w.currentOffset = w.msg.len /\ hnd' = [hnd EXCEPT ![d] = f]
      BY <3>2, <3>3, <3>5, <3>7 DEF Stores
    <3> QED BY <3>4, <3>6, <3>7
  <2>4. ASSUME NEW e, e = "failed" \/ AtEnd(h), UNCHANGED mem,
               hnd' = [hnd EXCEPT ![d] = Respond(d, h, "WRITE_FAILED", e)]
        PROVE  Pair(n, d)'
    <3> DEFINE f == Respond(d, h, "WRITE_FAILED", e)
    <3>1. /\ f.pc = "alloc" /\ f.msg = h.msg /\ f.response.kind = "WRITE_FAILED"
          /\ f.response.addr = h.msg.addr /\ f.response.error = e
      BY <1>0, RespondFields
    <3> HIDE DEF f
    <3>2. Serves(c, m, f)
      BY <1>0, <2>1, <2>4, <3>1, ServesWriteFailed
    <3>3. hnd' = [hnd EXCEPT ![d] = f] /\ mem'[d] = m
      BY <2>4 DEF f, m
    <3> QED BY <1>02, <2>1, <3>1, <3>2, <3>3 DEF Serving
  <2>5. \/ \E k \in Possible(h) :
             /\ mem' = [mem EXCEPT ![d] =
                          [a \in DOMAIN @ |->
                              IF a \in h.msg.addr + h.currentOffset
                                         ..h.msg.addr + h.currentOffset + k - 1
                              THEN h.msg.id ELSE @[a]]]
             /\ \/ /\ ~Complete(WritesMore(h, k))
                   /\ hnd' = [hnd EXCEPT ![d] = WritesMore(h, k)]
                \/ /\ Complete(WritesMore(h, k))
                   /\ hnd' = [hnd EXCEPT ![d] =
                                 Respond(d, WritesMore(h, k), "WRITE_REPLY", "none")]
        \/ \E e : /\ e = "failed" \/ AtEnd(h)
                  /\ UNCHANGED mem
                  /\ hnd' = [hnd EXCEPT ![d] = Respond(d, h, "WRITE_FAILED", e)]
    BY <1>2, TryWriteStep DEF h
  <2> QED BY <2>3, <2>4, <2>5
<1>3. CASE ClientAllocated(d)
  <2> DEFINE k == [h EXCEPT !.pc = "send"]
  <2>1. /\ hnd' = [hnd EXCEPT ![d] = k] /\ h.pc = "alloc" /\ mem'[d] = m
        /\ UNCHANGED <<cli, hq, rq, dgs, acks>>
    BY <1>3 DEF ClientAllocated, h, m, queues, wire
  <2>2. k.pc = "send" /\ k.msg = h.msg /\ k.response = h.response
    BY <1>0 DEF HandlerState
  <2> HIDE DEF k
  <2>3. SameHandler(h, k) /\ SameClient(c, c)
    BY <2>1, <2>2 DEF SameHandler, Serving, SameClient
  <2>4. PairOf(c, hnd[n], k, m, dgs[n], rq[n], hq[n], dgs[d], rq[d], hq[d], acks[n])
    BY <2>3, PairSame DEF Pair, h, c, m
  <2> QED BY <1>01, <2>1, <2>4
<1> QED BY <1>1, <1>2, <1>3

\* It sends its response.
LEMMA PeerResponds ==
    ASSUME BytesInv, SenderInv, TwoNodes, NEW n \in Nodes, NEW d \in Nodes, n # d, Pair(n, d),
           SendResponse(d)
    PROVE  Pair(n, d)'
<1> DEFINE h == hnd[d]
           k == [h EXCEPT !.pc = "wait_dg", !.response = NoReply]
           r == h.response
           xd == Append(dgs[n], r)
<1>1. /\ h.pc = "send" /\ dgs' = [dgs EXCEPT ![h.msg.src] = Append(@, r)]
      /\ hnd' = [hnd EXCEPT ![d] = k] /\ UNCHANGED <<cli, mem, hq, rq, acks>>
  BY DEF SendResponse, queues
<1>2. /\ h \in HandlerState /\ HandlerInv(h) /\ dgs[n] \in Seq(Reply)
      /\ hnd \in [Nodes -> HandlerState] /\ dgs \in [Nodes -> Seq(Reply)]
  BY PairTypes DEF BytesInv, Handlers, Queues
<1>3. r \in Reply /\ k.pc = "wait_dg"
  BY <1>1, <1>2 DEF HandlerInv, HandlerState
<1>4. h.msg.src = n
  <2>1. h.msg.src \in Nodes /\ h.msg.src # d
    BY <1>1, <1>2 DEF SenderInv, Senders, HandlerInv, Command
  <2> QED BY <2>1 DEF TwoNodes
<1> HIDE DEF k
<1>5. PairOf(cli[n], hnd[n], k, mem[d], xd, rq[n], hq[n], dgs[d], rq[d], hq[d], acks[n])
  BY <1>1, <1>2, <1>3, PairResponds DEF Pair
<1>6. dgs'[n] = xd /\ dgs'[d] = dgs[d] /\ hnd'[d] = k /\ hnd'[n] = hnd[n]
  BY <1>1, <1>2, <1>4
<1> HIDE DEF xd
<1> QED BY <1>1, <1>5, <1>6, PairNext
-----------------------------------------------------------------------------
(* The steps of n's client. *)

\* The client returns, or goes on to its next datagram.
LEMMA PairReturns ==
    ASSUME NEW c \in ClientState, ClientInv(c), NEW e, NEW g, NEW f, NEW h, NEW m,
           NEW sq, NEW tq, NEW kq, NEW sd, NEW td, NEW kd, NEW aq,
           PairOf(c, g, h, m, sq, tq, kq, sd, td, kd, aq),
           f.pc = "wait_dg" <=> g.pc = "wait_dg",
           c.pc \in {"complete", "sleep"}, e.pc \in {"idle", "send"},
           e.req = c.req, e.id = c.id,
           e.pc = "send" \/ (e.result = "ok" /\ c.req.cmd # "META") => Answered(c, e),
           \/ c.code # "pending"
           \/ c.pc = "complete" /\ (c.req.cmd = "META" \/ c.dg # "ok_reply_pending")
    PROVE  PairOf(e, f, h, m, sq, tq, kq, sd, td, kd, aq)
<1>1. Rest(g, h, sq, tq, kq, sd, td, kd, aq)
  BY PairRests
<1>2. Collected(c, m) /\ (c.code # "pending" => Fits(c, m, c.resp))
  BY DEF PairOf, Arrived, Asking
<1>3. Answered(c, e) => c.code # "pending"
  BY DEF Answered
<1>4. CASE e.pc = "send"
  <2>1. Collected(e, m)
    BY <1>2, <1>3, <1>4, CollectsMore
  <2>2. Returns(e, m)
    BY <1>4 DEF Returns
  <2> QED BY <1>1, <1>4, <2>1, <2>2, PairRenews DEF Asking
<1>5. CASE e.pc = "idle"
  <2>1. Collected(e, m)
    BY <1>5 DEF Collected
  <2>2. Returns(e, m)
    <3>1. CASE Answered(c, e)
      BY <1>2, <1>3, <1>5, <3>1, ReturnsWhole
    <3>2. CASE ~Answered(c, e)
      BY <1>5, <3>2 DEF Returns
    <3> QED BY <3>1, <3>2
  <2> QED BY <1>1, <1>5, <2>1, <2>2, PairRenews DEF Asking
<1> QED BY <1>4, <1>5

\* Of four queues that are empty together each one is.
LEMMA AllEmpty ==
    ASSUME NEW S, NEW T, NEW U, NEW V, NEW a \in Seq(S), NEW b \in Seq(T), NEW c \in Seq(U),
           NEW e \in Seq(V), a \o b \o c \o e = << >>
    PROVE  a = << >> /\ b = << >> /\ c = << >> /\ e = << >>
<1> DEFINE W == S \cup T \cup U \cup V
<1>1. a \in Seq(W) /\ b \in Seq(W) /\ c \in Seq(W) /\ e \in Seq(W)
  OBVIOUS
<1> HIDE DEF W
<1>2. /\ a \o b \in Seq(W) /\ Len(a \o b) = Len(a) + Len(b)
      /\ Len(a) \in Nat /\ Len(b) \in Nat /\ Len(c) \in Nat /\ Len(e) \in Nat
  BY <1>1, ConcatProperties, LenProperties
<1>3. (a \o b) \o c \in Seq(W) /\ Len((a \o b) \o c) = Len(a \o b) + Len(c)
  BY <1>1, <1>2, ConcatProperties
<1>4. Len(((a \o b) \o c) \o e) = Len((a \o b) \o c) + Len(e)
  BY <1>1, <1>3, ConcatProperties
<1>5. Len(((a \o b) \o c) \o e) = 0
  OBVIOUS
<1> DEFINE w == Len(a)
           x == Len(b)
           y == Len(c)
           z == Len(e)
<1>6. w + x + y + z = 0 /\ w \in Nat /\ x \in Nat /\ y \in Nat /\ z \in Nat
  BY <1>2, <1>3, <1>4, <1>5
<1> HIDE DEF w, x, y, z
<1>7. w = 0 /\ x = 0 /\ y = 0 /\ z = 0
  BY <1>6
<1> QED BY <1>1, <1>7, EmptySeq DEF w, x, y, z

\* With nothing left anywhere nothing of n's is.
LEMMA QuietRests ==
    ASSUME BytesInv, Quiet, NEW n \in Nodes, NEW d \in Nodes
    PROVE  Rest(hnd[n], hnd[d], dgs[n], rq[n], hq[n], dgs[d], rq[d], hq[d], acks[n])
<1>1. \A z \in Nodes : /\ hnd[z].pc = "idle" /\ hq[z] = << >> /\ rq[z] = << >>
                       /\ dgs[z] = << >> /\ acks[z] = << >>
  <2> TAKE z \in Nodes
  <2>1. /\ hq[z] \in Seq(Command \cup Reply) /\ rq[z] \in Seq(Reply)
        /\ dgs[z] \in Seq(Reply) /\ acks[z] \in Seq(Ack)
    BY PairTypes
  <2>2. hnd[z].pc = "idle" /\ hq[z] \o rq[z] \o dgs[z] \o acks[z] = << >>
    BY DEF Quiet
  <2> QED BY <2>1, <2>2, AllEmpty
<1>2. Len(<< >>) = 0
  OBVIOUS
<1>3. /\ Len(dgs[d]) = 0 /\ Len(rq[d]) = 0 /\ Len(hq[d]) = 0 /\ Len(acks[n]) = 0
      /\ Len(dgs[n]) = 0 /\ Len(rq[n]) = 0 /\ Len(hq[n]) = 0
  BY <1>1, <1>2
<1>4. Len(dgs[d]) + Len(rq[d]) + Len(hq[d]) + Len(acks[n]) <=
         IF hnd[n].pc = "wait_dg" THEN 1 ELSE 0
  BY <1>3
<1>5. /\ \A i \in 1..Len(hq[d]) : IsReply(hq[d][i])
      /\ \A i \in 1..Len(hq[n]) : ~IsReply(hq[n][i])
  BY <1>3
<1> QED BY <1>1, <1>3, <1>4, <1>5 DEF Rest, Serving

\* A request starts.
LEMMA OwnEntry ==
    ASSUME BytesInv, NEW n \in Nodes, NEW d \in Nodes, n # d, cli[n].clean => Pair(n, d),
           Entry(n), cli'[n].clean
    PROVE  Pair(n, d)'
<1> DEFINE c == cli[n]
<1>1. /\ c.pc = "idle" /\ UNCHANGED <<hnd, mem, hq, rq, dgs, acks>>
      /\ \E r \in Requests : r.src = n /\ cli' = [cli EXCEPT ![n] = Start(c, r, asked + 1)]
  BY DEF Entry, queues, wire
<1>2. PICK r \in Requests : cli' = [cli EXCEPT ![n] = Start(c, r, asked + 1)]
  BY <1>1
<1> DEFINE e == Start(c, r, asked + 1)
<1>3. /\ e.pc = "alloc" /\ e.req = r /\ e.left = r.size /\ e.payload = << >>
      /\ (e.clean <=> (c.clean \/ Quiet))
  BY PairTypes, StartFields
<1>4. cli'[n] = e
  BY <1>2, PairTypes
<1> HIDE DEF e
<1>5. Rest(hnd[n], hnd[d], dgs[n], rq[n], hq[n], dgs[d], rq[d], hq[d], acks[n])
  <2>1. CASE Pair(n, d)
    BY <1>1, <2>1, PairRests DEF Pair, Asking
  <2>2. CASE Quiet
    BY <2>2, QuietRests
  <2> QED BY <1>3, <1>4, <2>1, <2>2
<1>6. Collected(e, mem[d]) /\ Returns(e, mem[d])
  BY <1>3, StartCollects
<1>7. PairOf(e, hnd[n], hnd[d], mem[d], dgs[n], rq[n], hq[n], dgs[d], rq[d], hq[d], acks[n])
  BY <1>3, <1>5, <1>6, PairRenews DEF Asking
<1> QED BY <1>1, <1>4, <1>7, PairNext

\* It has a datagram client, and makes its next datagram.
LEMMA OwnDoRequest ==
    ASSUME BytesInv, NEW n \in Nodes, NEW d \in Nodes, n # d, Pair(n, d), DoRequest(n)
    PROVE  Pair(n, d)'
<1> DEFINE c == cli[n]
           b == cli[n].req.cmd # "META"
           e == [c EXCEPT !.pc = "send", !.payloadOffset = 0, !.offset = c.req.addr]
<1>1. /\ c.pc = "alloc" /\ UNCHANGED <<mem, hq, rq, dgs, acks>>
      /\ cli' = [cli EXCEPT ![n] = e] /\ hnd' = [hnd EXCEPT ![n].client = b]
  BY DEF DoRequest, queues, wire
<1>2. c \in ClientState /\ ClientInv(c) /\ Handlers /\ DOMAIN cli = Nodes /\ DOMAIN hnd = Nodes
  BY PairTypes DEF BytesInv
<1>3. /\ e.pc = "send" /\ e.payloadOffset = 0 /\ e.offset = c.req.addr /\ e.req = c.req
      /\ e.left = c.left /\ e.payload = c.payload
  BY <1>2, DoRequestFields
<1>4. cli'[n] = e /\ hnd'[d] = hnd[d] /\ hnd'[n].pc = hnd[n].pc
  BY <1>1, <1>2, FlagFields
<1> HIDE DEF e, b
<1>5. Collected(e, mem[d]) /\ Returns(e, mem[d])
  <2>1. Collected(c, mem[d]) /\ c.req \in Requests
    BY <1>1, <1>2 DEF Pair, PairOf, ClientInv
  <2> QED BY <1>1, <1>3, <2>1, RequestCollects
<1>6. Rest(hnd[n], hnd[d], dgs[n], rq[n], hq[n], dgs[d], rq[d], hq[d], acks[n])
  BY <1>1, PairRests DEF Pair, Asking
<1>7. PairOf(e, hnd'[n], hnd[d], mem[d], dgs[n], rq[n], hq[n], dgs[d], rq[d], hq[d], acks[n])
  BY <1>3, <1>4, <1>5, <1>6, PairRenews DEF Asking
<1> QED BY <1>1, <1>4, <1>7, PairNext

LEMMA OwnSendDatagram ==
    ASSUME BytesInv, NEW n \in Nodes, NEW d \in Nodes, n # d, Pair(n, d), SendDatagram(n)
    PROVE  Pair(n, d)'
<1> DEFINE c == cli[n]
           o == [kind |-> c.req.cmd, src |-> n, space |-> c.req.space,
                 addr |-> c.offset, len |-> NextLength(c), id |-> c.id]
           l == IF c.req.cmd = "READ" THEN Left(c) ELSE c.left
           w == NextLength(c)
           e == [c EXCEPT !.pc = "write_datagram", !.out = o, !.left = l,
                          !.writeLength = w, !.isWaitingForTimer = FALSE,
                          !.code = "pending"]
<1>1. /\ c.pc = "send" /\ UNCHANGED <<hnd, mem, hq, rq, dgs, acks>>
      /\ cli' = [cli EXCEPT ![n] = e]
  BY DEF SendDatagram, queues, wire
<1>2. c \in ClientState /\ ClientInv(c) /\ DOMAIN cli = Nodes
  BY PairTypes
<1>3. cli'[n] = e
  BY <1>1, <1>2
<1> HIDE DEF o
<1>4. /\ e.pc = "write_datagram" /\ e.left = l /\ e.writeLength = w
      /\ e.code = "pending" /\ e.req = c.req /\ e.offset = c.offset
      /\ e.payloadOffset = c.payloadOffset /\ e.payload = c.payload /\ e.id = c.id
  <2> HIDE DEF l, w
  <2> QED BY <1>2, SendFields
<1> HIDE DEF e
<1>5. Collected(e, mem[d]) /\ Returns(e, mem[d])
  <2>1. Collected(c, mem[d]) /\ c.req \in Requests
    BY <1>1, <1>2 DEF Pair, PairOf, ClientInv
  <2> QED BY <1>1, <1>2, <1>4, <2>1, SendCollects
<1>6. Rest(hnd[n], hnd[d], dgs[n], rq[n], hq[n], dgs[d], rq[d], hq[d], acks[n])
  BY <1>1, PairRests DEF Pair, Asking
<1>7. PairOf(e, hnd[n], hnd[d], mem[d], dgs[n], rq[n], hq[n], dgs[d], rq[d], hq[d], acks[n])
  BY <1>4, <1>5, <1>6, PairRenews DEF Asking
<1> QED BY <1>1, <1>3, <1>7, PairNext

\* It sends the datagram when it has its turn.
LEMMA OwnWriteDatagram ==
    ASSUME BytesInv, SenderInv, TwoNodes, NEW n \in Nodes, NEW d \in Nodes, n # d, Pair(n, d),
           WriteDatagram(n)
    PROVE  Pair(n, d)'
<1> DEFINE c == cli[n]
           e == [c EXCEPT !.pc = "wait_dg", !.out = NoReply]
<1>1. /\ c.pc = "write_datagram" /\ UNCHANGED <<hnd, mem, rq, dgs, acks>>
      /\ cli' = [cli EXCEPT ![n] = e] /\ ~Busy(n, c.req.dst)
      /\ hq' = [hq EXCEPT ![c.req.dst] = Append(@, c.out)]
  BY DEF WriteDatagram, wire
<1>2. /\ c \in ClientState /\ ClientInv(c) /\ DOMAIN cli = Nodes /\ DOMAIN hq = Nodes
      /\ hq[d] \in Seq(Command \cup Reply) /\ dgs[d] \in Seq(Reply) /\ rq[d] \in Seq(Reply)
      /\ acks[n] \in Seq(Ack) /\ hnd[n] \in HandlerState /\ HandlerInv(hnd[n])
  BY PairTypes
<1>3. c.out = Current(c) /\ c.out \in Command /\ c.req.dst = d
  <2>1. c.req.dst \in Nodes /\ c.req.dst # n
    BY <1>1, AskedOther DEF SenderInv
  <2> QED BY <1>1, <1>2, <2>1 DEF SenderInv, Senders, ClientInv, TwoNodes
<1>4. hnd[n].pc # "wait_dg"
  <2>1. ASSUME hnd[n].pc = "wait_dg" PROVE FALSE
    <3>1. hnd[n].msg.src \in Nodes /\ hnd[n].msg.src # n
      BY <1>2, <2>1 DEF SenderInv, Senders, HandlerInv, Command
    <3> QED BY <1>1, <1>3, <2>1, <3>1 DEF Busy, TwoNodes
  <2> QED BY <2>1
<1>5. /\ e.pc = "wait_dg" /\ e.left = c.left /\ e.writeLength = c.writeLength
      /\ e.code = c.code /\ e.req = c.req /\ e.offset = c.offset
      /\ e.payloadOffset = c.payloadOffset /\ e.payload = c.payload
      /\ e.id = c.id /\ e.resp = c.resp /\ e.result = c.result
  BY <1>2, WriteFields
<1> DEFINE zd == Append(hq[d], Current(c))
<1>6. cli'[n] = e /\ hq'[d] = zd /\ hq'[n] = hq[n]
  BY <1>1, <1>2, <1>3
<1> HIDE DEF e
<1>7. /\ Len(dgs[d]) \in Nat /\ Len(rq[d]) \in Nat /\ Len(acks[n]) \in Nat
      /\ dgs[d] = << >> <=> Len(dgs[d]) = 0
      /\ rq[d] = << >> <=> Len(rq[d]) = 0
  BY <1>2, EmptySeq, LenProperties
<1>8. PairOf(e, hnd[n], hnd[d], mem[d], dgs[n], rq[n], hq[n], dgs[d], rq[d], zd, acks[n])
  BY <1>1, <1>2, <1>3, <1>4, <1>5, <1>7, PairAsks DEF Pair
<1> HIDE DEF zd
<1> QED BY <1>1, <1>6, <1>8, PairNext

\* What becomes of n when its client has come to an end, or goes on.
LEMMA CleanupFields ==
    ASSUME BytesInv, NEW n \in Nodes, NEW d \in Nodes, n # d, NEW e, Cleanup(n, e)
    PROVE  /\ cli'[n] = e /\ hnd'[d] = hnd[d] /\ hnd'[n].pc = hnd[n].pc
           /\ e.pc # "idle" => hnd' = hnd
<1>1. DOMAIN cli = Nodes /\ Handlers
  BY PairTypes DEF BytesInv
<1>2. hnd' = hnd \/ hnd' = [hnd EXCEPT ![n].client = FALSE]
  BY DEF Cleanup
<1>3. hnd'[n].pc = hnd[n].pc
  BY <1>1, <1>2, FlagFields
<1>4. hnd'[d] = hnd[d]
  BY <1>1, <1>2 DEF Handlers
<1> QED BY <1>1, <1>3, <1>4 DEF Cleanup

LEMMA OwnDatagramComplete ==
    ASSUME BytesInv, NEW n \in Nodes, NEW d \in Nodes, n # d, cli[n].clean => Pair(n, d),
           DatagramComplete(n), cli'[n].clean
    PROVE  Pair(n, d)'
<1> DEFINE c == cli[n]
           e == Completed(c)
<1>1. c.pc = "complete" /\ Cleanup(n, e) /\ UNCHANGED <<mem, hq, rq, dgs, acks>>
  BY DEF DatagramComplete, queues, wire
<1>2. c \in ClientState /\ ClientInv(c) /\ (c.code # "pending" => c.resp \in Reply)
  BY <1>1, PairTypes DEF ClientInv
<1>3. /\ e.req = c.req /\ e.id = c.id /\ e.pc \in {"idle", "send", "sleep"}
      /\ e.clean => c.clean
      /\ e.clean /\ c.code = "pending" /\ c.req.cmd # "META" =>
            c.dg # "ok_reply_pending" \/ e.pc = "sleep"
      /\ e.pc = "send" => Answered(c, e) /\ c.req.cmd # "META"
      /\ e.pc = "sleep" =>
            /\ c.code = "pending" /\ e.left = c.left
            /\ e.writeLength = c.writeLength /\ e.code = c.code
            /\ e.offset = c.offset /\ e.payloadOffset = c.payloadOffset
            /\ e.payload = c.payload /\ e.resp = c.resp /\ e.dg = c.dg
      /\ e.pc = "idle" /\ e.result = "ok" /\ c.req.cmd # "META" =>
            Answered(c, e) \/ (c.dg = "ok" /\ c.req.cmd = "WRITE")
  BY <1>2, CompletedFields
<1> HIDE DEF e
<1>4. /\ cli'[n] = e /\ hnd'[d] = hnd[d] /\ hnd'[n].pc = hnd[n].pc
      /\ e.pc # "idle" => hnd' = hnd
  BY <1>1, CleanupFields
<1>5. Pair(n, d)
  BY <1>3, <1>4
<1> HIDE DEF c
<1>6. PairOf(c, hnd[n], hnd[d], mem[d], dgs[n], rq[n], hq[n], dgs[d], rq[d], hq[d], acks[n])
  BY <1>5 DEF Pair, c
<1>7. c.dg = "ok" => c.req.cmd = "META"
  BY <1>1, <1>6 DEF PairOf, Open
<1>8. PairOf(e, hnd'[n], hnd[d], mem[d], dgs[n], rq[n], hq[n], dgs[d], rq[d], hq[d], acks[n])
  <2>1. CASE e.pc = "sleep"
    BY <1>1, <1>3, <1>4, <1>6, <2>1, PairSleeps
  <2>2. CASE e.pc # "sleep"
    <3>1. \/ c.code # "pending"
          \/ c.pc = "complete" /\ (c.req.cmd = "META" \/ c.dg # "ok_reply_pending")
      BY <1>1, <1>3, <1>4, <2>2
    <3>2. e.pc = "send" \/ (e.result = "ok" /\ c.req.cmd # "META") => Answered(c, e)
      BY <1>3, <1>7, <2>2
    <3>3. e.pc \in {"idle", "send"}
      BY <1>3, <2>2
    <3> QED BY <1>1, <1>2, <1>3, <1>4, <1>6, <3>1, <3>2, <3>3, PairReturns
  <2> QED BY <2>1, <2>2
<1> QED BY <1>1, <1>4, <1>8, PairNext

LEMMA OwnResponseTimeout ==
    ASSUME BytesInv, NEW n \in Nodes, NEW d \in Nodes, n # d, cli[n].clean => Pair(n, d),
           ResponseTimeout(n), cli'[n].clean
    PROVE  Pair(n, d)'
<1> DEFINE c == cli[n]
           e == Response(c)
<1>1. c.pc = "sleep" /\ Cleanup(n, e) /\ UNCHANGED <<mem, hq, rq, dgs, acks>>
  BY DEF ResponseTimeout, queues, wire
<1>2. c \in ClientState /\ ClientInv(c) /\ (c.code # "pending" => c.resp \in Reply)
  BY <1>1, PairTypes DEF ClientInv
<1>3. /\ e.req = c.req /\ e.id = c.id /\ e.pc \in {"idle", "send"}
      /\ e.clean => c.clean /\ c.code # "pending"
      /\ e.pc = "send" \/ e.result = "ok" => Answered(c, e)
  BY <1>2, ResponseFields
<1> HIDE DEF e
<1>4. cli'[n] = e /\ hnd'[d] = hnd[d] /\ hnd'[n].pc = hnd[n].pc
  BY <1>1, CleanupFields
<1>5. Pair(n, d) /\ c.code # "pending"
  BY <1>3, <1>4
<1> HIDE DEF c
<1>6. PairOf(c, hnd[n], hnd[d], mem[d], dgs[n], rq[n], hq[n], dgs[d], rq[d], hq[d], acks[n])
  BY <1>5 DEF Pair, c
<1>7. PairOf(e, hnd'[n], hnd[d], mem[d], dgs[n], rq[n], hq[n], dgs[d], rq[d], hq[d], acks[n])
  BY <1>1, <1>2, <1>3, <1>4, <1>5, <1>6, PairReturns
<1> QED BY <1>1, <1>4, <1>7, PairNext

\* The timer.
LEMMA OwnTimer ==
    ASSUME BytesInv, NEW n \in Nodes, NEW d \in Nodes, n # d, Pair(n, d),
           TimerExpires(n) \/ TimerRun(n)
    PROVE  Pair(n, d)'
<1>1. /\ UNCHANGED <<hnd, mem, hq, rq, dgs, acks>>
      /\ \E v : cli' = [cli EXCEPT ![n].timer = v]
  BY DEF TimerExpires, TimerRun, queues, wire
<1>2. SameClient(cli[n], cli'[n])
  <2>1. PICK v : cli' = [cli EXCEPT ![n].timer = v]
    BY <1>1
  <2> DEFINE e == [cli[n] EXCEPT !.timer = v]
  <2>2. SameClient(cli[n], e)
    BY PairTypes, TimerFields
  <2>3. cli'[n] = e
    BY <2>1, PairTypes
  <2> QED BY <2>2, <2>3
<1>3. SameHandler(hnd[d], hnd[d])
  BY DEF SameHandler
<1>4. PairOf(cli'[n], hnd[n], hnd[d], mem[d], dgs[n], rq[n], hq[n], dgs[d], rq[d], hq[d], acks[n])
  BY <1>2, <1>3, PairSame DEF Pair
<1> QED BY <1>1, <1>4, PairNext

\* A reply comes in.
LEMMA OwnResponseEntry ==
    ASSUME BytesInv, SenderInv, TwoNodes, NEW n \in Nodes, NEW d \in Nodes, n # d, Pair(n, d),
           ResponseEntry(n)
    PROVE  Pair(n, d)'
<1> DEFINE r == Head(rq[n])
           yd == Tail(rq[n])
           c == cli[n]
           e == Replied(c, r)
<1>1. /\ rq[n] # << >> /\ rq' = [rq EXCEPT ![n] = yd] /\ UNCHANGED <<hnd, mem, hq, dgs>>
      /\ Answer(n, r, "ok") \/ Answer(n, r, "rejected")
      /\ cli' = cli \/ cli' = [cli EXCEPT ![n] = e]
  BY DEF ResponseEntry, Replied
<1>2. r \in Reply /\ r \in Command \cup Reply /\ r.src # n /\ rq[n] \in Seq(Reply)
      /\ c \in ClientState /\ DOMAIN cli = Nodes /\ DOMAIN rq = Nodes
  BY <1>1, HeadSender, PairTypes
<1>3. acks'[n] = acks[n]
  BY <1>1, <1>2, AnswerGoes DEF BytesInv, Outcomes
<1>4. /\ e.pc = c.pc /\ e.req = c.req /\ e.id = c.id /\ e.left = c.left
      /\ e.offset = c.offset /\ e.payloadOffset = c.payloadOffset
      /\ e.writeLength = c.writeLength /\ e.payload = c.payload /\ e.dg = c.dg
      /\ e.result = c.result /\ e.code = "none" /\ e.resp = r
  <2> HIDE DEF r
  <2>1. r \in Resps
    BY <1>2 DEF Resps
  <2> QED BY <1>2, <2>1, ReplyFields
<1>5. cli'[n] = c \/ cli'[n] = e
  BY <1>1, <1>2
<1> HIDE DEF e
<1>6. PairOf(cli'[n], hnd[n], hnd[d], mem[d], dgs[n], yd, hq[n], dgs[d], rq[d], hq[d], acks[n])
  BY <1>1, <1>2, <1>4, <1>5, PairTakes DEF Pair
<1>7. rq'[n] = yd /\ rq'[d] = rq[d]
  BY <1>1, <1>2
<1> QED BY <1>1, <1>3, <1>6, <1>7, PairNext
-----------------------------------------------------------------------------
(* The steps of n's handler, and what its datagram clients hear. *)

\* A queue without its first message has the replies it had.
LEMMA RepliesLeft ==
    ASSUME NEW q \in Seq(Command \cup Reply), q # << >>,
           \A i, j \in 1..Len(q) : IsReply(q[i]) /\ IsReply(q[j]) => i = j
    PROVE  LET r == Tail(q)
           IN /\ \A i, j \in 1..Len(r) : IsReply(r[i]) /\ IsReply(r[j]) => i = j
              /\ \A i \in 1..Len(r) : \E j \in 1..Len(q) : r[i] = q[j]
<1> DEFINE r == Tail(q)
<1>1. /\ Len(r) = Len(q) - 1 /\ Len(q) \in Nat \ {0}
      /\ \A i \in 1..Len(r) : r[i] = q[i + 1]
  BY TailShape
<1> HIDE DEF r
<1>2. \A i \in 1..Len(r) : i + 1 \in 1..Len(q)
  BY <1>1
<1>3. \A i \in 1..Len(r) : \E j \in 1..Len(q) : r[i] = q[j]
  BY <1>1, <1>2
<1>4. ASSUME NEW i \in 1..Len(r), NEW j \in 1..Len(r), IsReply(r[i]), IsReply(r[j])
      PROVE  i = j
  <2>1. i + 1 \in 1..Len(q) /\ j + 1 \in 1..Len(q) /\ IsReply(q[i + 1]) /\ IsReply(q[j + 1])
    BY <1>1, <1>2, <1>4
  <2>2. i + 1 = j + 1
    BY <2>1
  <2> QED BY <2>2
<1> QED BY <1>3, <1>4 DEF r

\* A reply from d goes to n's client, or stays with n's handler.
LEMMA OwnHandlerSend ==
    ASSUME BytesInv, NEW n \in Nodes, NEW d \in Nodes, n # d, Pair(n, d), HandlerSend(n)
    PROVE  Pair(n, d)'
<1> DEFINE r == Head(dgs[n])
           xd == Tail(dgs[n])
           yd == Append(rq[n], r)
           zd == Append(hq[n], r)
<1>1. /\ dgs[n] # << >> /\ dgs' = [dgs EXCEPT ![n] = xd] /\ UNCHANGED <<hnd, mem, cli, acks>>
      /\ \/ rq' = [rq EXCEPT ![n] = yd] /\ hq' = hq
         \/ hq' = [hq EXCEPT ![n] = zd] /\ rq' = rq
  BY DEF HandlerSend
<1>2. /\ dgs[n] \in Seq(Reply) /\ rq[n] \in Seq(Reply) /\ hq[n] \in Seq(Command \cup Reply)
      /\ DOMAIN dgs = Nodes /\ DOMAIN rq = Nodes /\ DOMAIN hq = Nodes
  BY PairTypes
<1>3. /\ PairOf(cli[n], hnd[n], hnd[d], mem[d], xd, yd, hq[n], dgs[d], rq[d], hq[d], acks[n])
      /\ PairOf(cli[n], hnd[n], hnd[d], mem[d], xd, rq[n], zd, dgs[d], rq[d], hq[d], acks[n])
  BY <1>1, <1>2, PairDelivers DEF Pair
<1> HIDE DEF xd, yd, zd
<1>4. /\ dgs'[n] = xd /\ dgs'[d] = dgs[d] /\ rq'[d] = rq[d] /\ hq'[d] = hq[d]
      /\ \/ rq'[n] = yd /\ hq'[n] = hq[n]
         \/ rq'[n] = rq[n] /\ hq'[n] = zd
  BY <1>1, <1>2
<1> QED BY <1>1, <1>3, <1>4, PairNext

\* n's handler takes the next message from its queue.
LEMMA OwnHandlerEntry ==
    ASSUME BytesInv, SenderInv, TwoNodes, NEW n \in Nodes, NEW d \in Nodes, n # d, Pair(n, d),
           HandlerEntry(n)
    PROVE  Pair(n, d)'
<1> DEFINE r == Head(hq[n])
           zd == Tail(hq[n])
           yd == Append(rq[n], r)
           k == [hnd[n] EXCEPT !.pc = "try", !.msg = r, !.currentOffset = 0]
<1>1. /\ hq[n] # << >> /\ hq' = [hq EXCEPT ![n] = zd] /\ UNCHANGED <<cli, mem, dgs>>
      /\ hnd[n].pc = "idle"
      /\ \/ IsReply(r) /\ rq' = [rq EXCEPT ![n] = yd] /\ UNCHANGED <<hnd, acks>>
         \/ /\ \E o \in Outcomes : Answer(n, r, o)
            /\ rq' = rq /\ (hnd' = hnd \/ hnd' = [hnd EXCEPT ![n] = k])
  BY DEF HandlerEntry, Outcomes
<1>2. /\ r \in Command \cup Reply /\ r.src # n
      /\ rq[n] \in Seq(Reply) /\ hq[n] \in Seq(Command \cup Reply)
      /\ hnd[n] \in HandlerState /\ DOMAIN hnd = Nodes /\ DOMAIN hq = Nodes
      /\ DOMAIN rq = Nodes
  BY <1>1, HeadSender, PairTypes
<1>3. hq'[n] = zd /\ hq'[d] = hq[d]
  BY <1>1, <1>2
<1>4. CASE IsReply(r) /\ rq' = [rq EXCEPT ![n] = yd] /\ UNCHANGED <<hnd, acks>>
  <2>1. PairOf(cli[n], hnd[n], hnd[d], mem[d], dgs[n], yd, zd, dgs[d], rq[d], hq[d], acks[n])
    BY <1>1, <1>2, <1>4, PairPasses DEF Pair
  <2>2. rq'[n] = yd /\ rq'[d] = rq[d]
    BY <1>2, <1>4
  <2> QED BY <1>1, <1>3, <1>4, <2>1, <2>2, PairNext
<1>5. CASE /\ \E o \in Outcomes : Answer(n, r, o)
           /\ rq' = rq /\ (hnd' = hnd \/ hnd' = [hnd EXCEPT ![n] = k])
  <2>1. acks'[n] = acks[n]
    <3> HIDE DEF r
    <3> QED BY <1>2, <1>5, AnswerGoes DEF BytesInv
  <2>2. hnd'[d] = hnd[d] /\ (hnd'[n].pc = "wait_dg" <=> hnd[n].pc = "wait_dg")
    <3>1. k.pc = "try"
      BY <1>2 DEF HandlerState
    <3> HIDE DEF k
    <3> QED BY <1>1, <1>2, <1>5, <3>1
  <2>3. /\ \A i, j \in 1..Len(zd) : IsReply(zd[i]) /\ IsReply(zd[j]) => i = j
        /\ \A i \in 1..Len(zd) : \E j \in 1..Len(hq[n]) : zd[i] = hq[n][j]
    <3>1. \A i, j \in 1..Len(hq[n]) : IsReply(hq[n][i]) /\ IsReply(hq[n][j]) => i = j
      BY DEF Pair, PairOf, Stage
    <3> QED BY <1>1, <1>2, <3>1, RepliesLeft
  <2> HIDE DEF zd
  <2>4. SameClient(cli[n], cli[n])
    BY DEF SameClient
  <2>5. PairOf(cli[n], hnd'[n], hnd[d], mem[d], dgs[n], rq[n], zd, dgs[d], rq[d], hq[d], acks[n])
    BY <2>2, <2>3, <2>4, PairCommands DEF Pair
  <2> QED BY <1>1, <1>3, <1>5, <2>1, <2>2, <2>5, PairNext
<1> QED BY <1>1, <1>4, <1>5

\* It serves a request of d.
LEMMA OwnHandlerSteps ==
    ASSUME BytesInv, NEW n \in Nodes, NEW d \in Nodes, n # d, Pair(n, d),
           TryRead(n) \/ TryWrite(n) \/ ClientAllocated(n)
    PROVE  Pair(n, d)'
<1> DEFINE h == hnd[n]
<1>0. /\ h \in HandlerState /\ HandlerInv(h) /\ DOMAIN hnd = Nodes /\ DOMAIN mem = Nodes
  BY PairTypes
<1>1. /\ UNCHANGED <<cli, hq, rq, dgs, acks>> /\ mem'[d] = mem[d] /\ hnd'[d] = hnd[d]
      /\ h.pc # "wait_dg" /\ hnd'[n].pc # "wait_dg"
  <2>1. ASSUME NEW g, hnd' = [hnd EXCEPT ![n] = g], g.pc # "wait_dg"
        PROVE  hnd'[d] = hnd[d] /\ hnd'[n].pc # "wait_dg"
    BY <1>0, <2>1
  <2>2. ASSUME NEW g \in HandlerState, NEW v, NEW o, hnd' = [hnd EXCEPT ![n] = Respond(n, g, v, o)]
        PROVE  hnd'[d] = hnd[d] /\ hnd'[n].pc # "wait_dg"
    <3> DEFINE f == Respond(n, g, v, o)
    <3>1. f.pc = "alloc" /\ hnd' = [hnd EXCEPT ![n] = f]
      BY <2>2, RespondFields
    <3> HIDE DEF f
    <3> QED BY <2>1, <3>1
  <2>3. CASE TryRead(n)
    <3>1. /\ h.pc = "try" /\ h.msg.kind = "READ" /\ mem' = mem
          /\ UNCHANGED <<cli, hq, rq, dgs, acks>>
          /\ \/ \E k \in Possible(h) : hnd' = [hnd EXCEPT ![n] = ReadsMore(n, h, k)]
             \/ \E k \in Possible(h) :
                   hnd' = [hnd EXCEPT ![n] =
                              Respond(n, ReadsMore(n, h, k), "READ_REPLY", "none")]
             \/ \E v, o : hnd' = [hnd EXCEPT ![n] = Respond(n, h, v, o)]
      BY <2>3, TryReadStep DEF queues, wire
    <3>2. ASSUME NEW k \in Possible(h)
          PROVE  ReadsMore(n, h, k) \in HandlerState /\ ReadsMore(n, h, k).pc = "try"
      BY <3>1, ReadsMoreFields
    <3>3. hnd'[d] = hnd[d] /\ hnd'[n].pc # "wait_dg"
      <4> HIDE DEF h
      <4> QED BY <1>0, <2>1, <2>2, <3>1, <3>2
    <3> QED BY <3>1, <3>3
  <2>4. CASE TryWrite(n)
    <3>1. /\ h.pc = "try" /\ h.msg.kind = "WRITE"
          /\ UNCHANGED <<cli, hq, rq, dgs, acks>>
          /\ mem' = mem \/ \E s : mem' = [mem EXCEPT ![n] = s]
          /\ \/ \E k \in Possible(h) : hnd' = [hnd EXCEPT ![n] = WritesMore(h, k)]
             \/ \E k \in Possible(h) :
                   hnd' = [hnd EXCEPT ![n] =
                              Respond(n, WritesMore(h, k), "WRITE_REPLY", "none")]
             \/ \E v, o : hnd' = [hnd EXCEPT ![n] = Respond(n, h, v, o)]
      BY <2>4, TryWriteStep DEF queues, wire
    <3>2. ASSUME NEW k \in Possible(h)
          PROVE  WritesMore(h, k) \in HandlerState /\ WritesMore(h, k).pc = "try"
      BY <1>0, <3>1, WritesMoreFields
    <3>3. hnd'[d] = hnd[d] /\ hnd'[n].pc # "wait_dg"
      <4> HIDE DEF h
      <4> QED BY <1>0, <2>1, <2>2, <3>1, <3>2
    <3> QED BY <1>0, <3>1, <3>3
  <2>5. CASE ClientAllocated(n)
    <3> DEFINE k == [h EXCEPT !.pc = "send"]
    <3>1. /\ hnd' = [hnd EXCEPT ![n] = k] /\ h.pc = "alloc" /\ mem' = mem
          /\ UNCHANGED <<cli, hq, rq, dgs, acks>>
      BY <2>5 DEF ClientAllocated, queues, wire
    <3>2. k.pc = "send"
      BY <1>0 DEF HandlerState
    <3> HIDE DEF k
    <3>3. hnd'[d] = hnd[d] /\ hnd'[n].pc # "wait_dg"
      BY <2>1, <3>1, <3>2
    <3> QED BY <3>1, <3>3
  <2> QED BY <2>3, <2>4, <2>5
<1>2. SameClient(cli[n], cli[n]) /\ SameHandler(hnd[d], hnd[d])
  BY DEF SameClient, SameHandler
<1>3. PairOf(cli[n], hnd'[n], hnd[d], mem[d], dgs[n], rq[n], hq[n],
             dgs[d], rq[d], hq[d], acks[n])
  BY <1>1, <1>2, PairSame DEF Pair
<1> QED BY <1>1, <1>3, PairNext

\* It sends its response: n's client waits for nothing then.
LEMMA OwnSendResponse ==
    ASSUME BytesInv, SenderInv, TwoNodes, NEW n \in Nodes, NEW d \in Nodes, n # d, Pair(n, d),
           SendResponse(n)
    PROVE  Pair(n, d)'
<1> DEFINE h == hnd[n]
           k == [h EXCEPT !.pc = "wait_dg", !.response = NoReply]
           r == h.response
           xd == Append(dgs[d], r)
<1>1. /\ h.pc = "send" /\ dgs' = [dgs EXCEPT ![h.msg.src] = Append(@, r)]
      /\ hnd' = [hnd EXCEPT ![n] = k] /\ UNCHANGED <<cli, mem, hq, rq, acks>>
      /\ ~Busy(n, h.msg.src)
  BY DEF SendResponse, queues
<1>2. /\ h \in HandlerState /\ HandlerInv(h) /\ dgs[d] \in Seq(Reply)
      /\ DOMAIN hnd = Nodes /\ DOMAIN dgs = Nodes
  BY PairTypes
<1>3. r \in Reply /\ k.pc = "wait_dg" /\ h.msg.src = d
  <2>1. h.msg.src \in Nodes /\ h.msg.src # n
    BY <1>1, <1>2 DEF SenderInv, Senders, HandlerInv, Command
  <2>2. h.msg.src = d
    BY <2>1 DEF TwoNodes
  <2> QED BY <1>1, <1>2, <2>2 DEF HandlerInv, HandlerState
<1>4. cli[n].pc # "wait_dg"
  <2>1. ASSUME cli[n].pc = "wait_dg" PROVE FALSE
    <3>1. cli[n].req.dst \in Nodes /\ cli[n].req.dst # n
      BY <2>1, AskedOther DEF SenderInv
    <3> QED BY <1>1, <1>3, <2>1, <3>1 DEF Busy, TwoNodes
  <2> QED BY <2>1
<1> HIDE DEF k
<1>5. Len(xd) = Len(dgs[d]) + 1
  BY <1>2, <1>3, AppendShape
<1>6. xd = dgs'[d] /\ dgs'[n] = dgs[n] /\ hnd'[n] = k /\ hnd'[d] = hnd[d]
  BY <1>1, <1>2, <1>3
<1> HIDE DEF xd
<1>7. Len(xd) + Len(rq[d]) + Len(hq[d]) + Len(acks[n]) <= IF k.pc = "wait_dg" THEN 1 ELSE 0
  <2>1. /\ Len(dgs[d]) \in Nat /\ Len(rq[d]) \in Nat /\ Len(hq[d]) \in Nat
        /\ Len(acks[n]) \in Nat
        /\ Len(dgs[d]) + Len(rq[d]) + Len(hq[d]) + Len(acks[n]) <=
              IF cli[n].pc = "wait_dg" \/ hnd[n].pc = "wait_dg" THEN 1 ELSE 0
    BY RoomOf, Zenon
  <2> DEFINE x == Len(dgs[d])
             y == Len(rq[d])
             z == Len(hq[d])
             q == Len(acks[n])
  <2>2. /\ x \in Nat /\ y \in Nat /\ z \in Nat /\ q \in Nat
        /\ x + y + z + q <= 0 /\ Len(xd) = x + 1
    BY <1>1, <1>4, <1>5, <2>1
  <2> HIDE DEF x, y, z, q
  <2>3. Len(xd) + y + z + q <= 1
    BY <2>2
  <2> QED BY <1>3, <2>3 DEF y, z, q
<1>8. SameClient(cli[n], cli[n]) /\ SameHandler(hnd[d], hnd[d])
  BY DEF SameClient, SameHandler
<1>9. \A i \in 1..Len(hq[d]) : IsReply(hq[d][i])
  BY <1>4, RoomOf, Zenon
<1>10. PairOf(cli[n], k, hnd[d], mem[d], dgs[n], rq[n], hq[n], xd, rq[d], hq[d], acks[n])
  BY <1>4, <1>7, <1>8, <1>9, PairMoves DEF Pair
<1> QED BY <1>1, <1>6, <1>10, PairNext

\* An answer of d comes to n.
LEMMA OwnTakeAnswer ==
    ASSUME BytesInv, SenderInv, TwoNodes, NEW n \in Nodes, NEW d \in Nodes, n # d, Pair(n, d),
           TakeAnswer(n)
    PROVE  Pair(n, d)'
<1> DEFINE a == Head(acks[n])
           bq == Tail(acks[n])
           c == cli[n]
           e == [c EXCEPT !.pc = "complete", !.dg = a.outcome]
           f == [IdleHandler EXCEPT !.client = hnd[n].client]
<1>1. /\ acks[n] # << >> /\ acks' = [acks EXCEPT ![n] = bq] /\ UNCHANGED <<mem, hq, rq, dgs>>
      /\ cli' = IF c.pc = "wait_dg" /\ c.req.dst = a.src THEN [cli EXCEPT ![n] = e] ELSE cli
      /\ IF hnd[n].pc = "wait_dg" /\ hnd[n].msg.src = a.src
         THEN hnd' = [hnd EXCEPT ![n] = f] ELSE hnd' = hnd
  BY DEF TakeAnswer, ResponseFlowComplete, queues
<1>2. /\ c \in ClientState /\ hnd[n] \in HandlerState /\ HandlerInv(hnd[n])
      /\ acks[n] \in Seq(Ack) /\ hq[d] \in Seq(Command \cup Reply)
      /\ DOMAIN cli = Nodes /\ DOMAIN hnd = Nodes /\ DOMAIN acks = Nodes
  BY PairTypes
<1>3. a.src = d
  <2>1. a \in Ack /\ a.src # n
    BY <1>1, HeadSender
  <2> QED BY <2>1 DEF Ack, TwoNodes
<1>4. c.pc = "wait_dg" => c.req.dst = d /\ hnd[n].pc # "wait_dg"
  <2> SUFFICES ASSUME c.pc = "wait_dg" PROVE c.req.dst = d /\ hnd[n].pc # "wait_dg"
    OBVIOUS
  <2>1. c.req.dst \in Nodes /\ c.req.dst # n
    BY AskedOther DEF SenderInv
  <2> QED BY <2>1 DEF TwoNodes, SenderInv, Senders
<1>5. hnd[n].pc = "wait_dg" => hnd[n].msg.src = d
  <2> SUFFICES ASSUME hnd[n].pc = "wait_dg" PROVE hnd[n].msg.src = d
    OBVIOUS
  <2>1. hnd[n].msg.src \in Nodes /\ hnd[n].msg.src # n
    BY <1>2 DEF SenderInv, Senders, HandlerInv, Command
  <2> QED BY <2>1 DEF TwoNodes
<1>6. /\ hnd'[d] = hnd[d] /\ acks'[n] = bq /\ acks'[d] = acks[d]
      /\ hnd[n].pc # "wait_dg" => hnd'[n] = hnd[n]
      /\ cli'[n] = IF c.pc = "wait_dg" THEN e ELSE c
  BY <1>1, <1>2, <1>3, <1>4
<1>7. SameClient(c, c) /\ SameHandler(hnd[d], hnd[d])
  BY DEF SameClient, SameHandler
<1>8. CASE c.pc = "wait_dg"
  <2>1. /\ e.pc = "complete" /\ e.left = c.left /\ e.writeLength = c.writeLength
        /\ e.code = c.code /\ e.req = c.req /\ e.offset = c.offset
        /\ e.payloadOffset = c.payloadOffset /\ e.payload = c.payload
        /\ e.id = c.id /\ e.resp = c.resp /\ e.result = c.result /\ e.dg = a.outcome
    <3> HIDE DEF a
    <3> QED BY <1>2, OutcomeFields
  <2> HIDE DEF e
  <2>2. PairOf(e, hnd[n], hnd[d], mem[d], dgs[n], rq[n], hq[n], dgs[d], rq[d], hq[d], bq)
    BY <1>1, <1>2, <1>4, <1>8, <2>1, PairHears DEF Pair
  <2> HIDE DEF bq
  <2> QED BY <1>1, <1>4, <1>6, <1>8, <2>2, PairNext
<1>9. CASE c.pc # "wait_dg"
  <2>1. Len(bq) = Len(acks[n]) - 1
    BY <1>1, <1>2, TailShape
  <2> HIDE DEF bq, f
  <2>2. Len(dgs[d]) + Len(rq[d]) + Len(hq[d]) + Len(bq) <=
           IF hnd'[n].pc = "wait_dg" THEN 1 ELSE 0
    <3>1. /\ Len(dgs[d]) \in Nat /\ Len(rq[d]) \in Nat /\ Len(hq[d]) \in Nat
          /\ Len(acks[n]) \in Nat
          /\ Len(dgs[d]) + Len(rq[d]) + Len(hq[d]) + Len(acks[n]) <=
                IF cli[n].pc = "wait_dg" \/ hnd[n].pc = "wait_dg" THEN 1 ELSE 0
      BY RoomOf, Zenon
    <3> DEFINE x == Len(dgs[d])
               y == Len(rq[d])
               z == Len(hq[d])
               q == Len(acks[n])
    <3>2. /\ x \in Nat /\ y \in Nat /\ z \in Nat /\ q \in Nat
          /\ x + y + z + q <= IF cli[n].pc = "wait_dg" \/ hnd[n].pc = "wait_dg" THEN 1 ELSE 0
          /\ Len(bq) = q - 1
      BY <2>1, <3>1
    <3> HIDE DEF x, y, z, q
    <3>3. x + y + z + Len(bq) <= IF hnd'[n].pc = "wait_dg" THEN 1 ELSE 0
      BY <3>2
    <3> QED BY <3>3 DEF x, y, z
  <2>3. \A i \in 1..Len(hq[d]) : IsReply(hq[d][i])
    BY <1>9, RoomOf, Zenon
  <2>4. PairOf(c, hnd'[n], hnd[d], mem[d], dgs[n], rq[n], hq[n], dgs[d], rq[d], hq[d], bq)
    BY <1>7, <1>9, <2>2, <2>3, PairMoves DEF Pair
  <2> QED BY <1>1, <1>6, <1>9, <2>4, PairNext
<1> QED BY <1>8, <1>9
-----------------------------------------------------------------------------
(* Reboots and losses. *)

\* d reboots while n waits for nothing of it.
LEMMA PairReboots ==
    ASSUME NEW c, NEW g, NEW h, NEW k, NEW m, NEW sq, NEW tq, NEW kq,
           NEW sd, NEW td, NEW kd, NEW aq,
           PairOf(c, g, h, m, sq, tq, kq, sd, td, kd, aq), c.pc # "wait_dg",
           k.pc = "idle",
           Len(sd) + Len(<< >>) + Len(<< >>) + Len(aq) <= IF g.pc = "wait_dg" THEN 1 ELSE 0
    PROVE  PairOf(c, g, k, m, sq, tq, kq, sd, << >>, << >>, aq)
<1>0. \A i \in 1..Len(<< >>) : IsReply(<< >>[i])
  OBVIOUS
<1>1. Open(c, g, sd, << >>, << >>, aq)
  BY <1>0 DEF PairOf, Open
<1>2. PICK s \in Stages : Stage(c, h, sq, tq, kq, kd, aq, s)
  BY DEF PairOf
<1>3. s # "asked"
  BY <1>2 DEF PairOf, Open, Stage
<1>4. Serves(c, m, k)
  BY DEF Serves, Serving
<1>5. CASE s = "serving"
  <2>1. Stage(c, k, sq, tq, kq, << >>, aq, "none") /\ "none" \in Stages
    BY <1>0, <1>2, <1>5 DEF Stage, Stages, Serving
  <2> QED BY <1>1, <1>4, <2>1 DEF PairOf
<1>6. CASE s # "serving"
  <2>1. Stage(c, k, sq, tq, kq, << >>, aq, s)
    BY <1>0, <1>2, <1>3, <1>6 DEF Stage, Serving
  <2> QED BY <1>1, <1>4, <2>1 DEF PairOf
<1> QED BY <1>5, <1>6

LEMMA PeerReboots ==
    ASSUME BytesInv, SenderInv, TwoNodes, NEW n \in Nodes, NEW d \in Nodes, n # d,
           cli[n].clean => Pair(n, d), Reboot(d), cli'[n].clean
    PROVE  Pair(n, d)'
<1> DEFINE c == cli[n]
           g == hnd[n]
<1>1. /\ c \in ClientState /\ g \in HandlerState /\ HandlerInv(g)
      /\ DOMAIN hq = Nodes /\ DOMAIN rq = Nodes
  BY PairTypes
<1>2. /\ cli'[n] = IF c.pc = "wait_dg" /\ c.req.dst = d
                   THEN [c EXCEPT !.pc = "complete", !.dg = "DST_REBOOT", !.clean = FALSE]
                   ELSE IF g.pc = "wait_dg" /\ g.msg.src = d
                   THEN [c EXCEPT !.clean = FALSE] ELSE c
      /\ hnd'[n] = IF g.pc = "wait_dg" /\ g.msg.src = d
                   THEN [IdleHandler EXCEPT !.client = g.client] ELSE g
      /\ hnd'[d] = IdleHandler
      /\ hq' = [hq EXCEPT ![d] = << >>] /\ rq' = [rq EXCEPT ![d] = << >>]
      /\ UNCHANGED <<mem, dgs, acks>>
  BY DEF Reboot, wire
<1>3. /\ ~[c EXCEPT !.pc = "complete", !.dg = "DST_REBOOT", !.clean = FALSE].clean
      /\ ~[c EXCEPT !.clean = FALSE].clean
  BY <1>1 DEF ClientState
<1>4. cli'[n] = c /\ ~(c.pc = "wait_dg" /\ c.req.dst = d) /\ ~(g.pc = "wait_dg" /\ g.msg.src = d)
  BY <1>2, <1>3
<1>5. hnd'[n] = g /\ Pair(n, d)
  BY <1>2, <1>4
<1>6. c.pc # "wait_dg"
  <2>1. ASSUME c.pc = "wait_dg" PROVE FALSE
    <3>1. c.req.dst \in Nodes /\ c.req.dst # n
      BY <2>1, AskedOther DEF SenderInv
    <3> QED BY <1>4, <2>1, <3>1 DEF TwoNodes
  <2> QED BY <2>1
<1>7. g.pc # "wait_dg"
  <2>1. ASSUME g.pc = "wait_dg" PROVE FALSE
    <3>1. g.msg.src \in Nodes /\ g.msg.src # n
      BY <1>1, <2>1 DEF SenderInv, Senders, HandlerInv, Command
    <3> QED BY <1>4, <2>1, <3>1 DEF TwoNodes
  <2> QED BY <2>1
<1>8. Len(dgs[d]) + Len(<< >>) + Len(<< >>) + Len(acks[n]) <= IF g.pc = "wait_dg" THEN 1 ELSE 0
  <2>1. /\ Len(dgs[d]) \in Nat /\ Len(rq[d]) \in Nat /\ Len(hq[d]) \in Nat
        /\ Len(acks[n]) \in Nat
        /\ Len(dgs[d]) + Len(rq[d]) + Len(hq[d]) + Len(acks[n]) <=
              IF cli[n].pc = "wait_dg" \/ hnd[n].pc = "wait_dg" THEN 1 ELSE 0
    BY <1>5, RoomOf, Zenon
  <2> DEFINE x == Len(dgs[d])
             y == Len(rq[d])
             z == Len(hq[d])
             q == Len(acks[n])
  <2>2. x \in Nat /\ y \in Nat /\ z \in Nat /\ q \in Nat /\ x + y + z + q <= 0
    BY <1>6, <1>7, <2>1
  <2>3. Len(<< >>) = 0
    OBVIOUS
  <2> HIDE DEF x, y, z, q
  <2>4. x = 0 /\ q = 0
    BY <2>2
  <2> QED BY <2>3, <2>4 DEF x, q
<1>9. IdleHandler.pc = "idle"
  BY DEF IdleHandler
<1>10. PairOf(c, g, IdleHandler, mem[d], dgs[n], rq[n], hq[n], dgs[d], << >>, << >>, acks[n])
  BY <1>5, <1>6, <1>8, <1>9, PairReboots DEF Pair
<1>11. hq'[d] = << >> /\ rq'[d] = << >> /\ hq'[n] = hq[n] /\ rq'[n] = rq[n]
  BY <1>1, <1>2
<1> QED BY <1>2, <1>4, <1>5, <1>10, <1>11, PairNext

\* A message that n waits for, or that d does, is lost.
LEMMA PairLosses ==
    ASSUME BytesInv, TwoNodes, NEW n \in Nodes, NEW d \in Nodes, n # d, Pair(n, d), LoseMessage
    PROVE  Pair(n, d)'
<1>0. /\ hq[n] \in Seq(Command \cup Reply) /\ hq[d] \in Seq(Command \cup Reply)
      /\ dgs[n] \in Seq(Reply) /\ dgs[d] \in Seq(Reply) /\ rq[d] \in Seq(Reply)
      /\ acks[n] \in Seq(Ack)
      /\ DOMAIN hq = Nodes /\ DOMAIN dgs = Nodes /\ DOMAIN acks = Nodes
  BY PairTypes
<1>1. UNCHANGED <<cli, hnd, mem, rq>>
  BY DEF LoseMessage
<1>2. PICK z \in Nodes :
         \/ /\ dgs[z] # << >> /\ dgs' = [dgs EXCEPT ![z] = Tail(@)]
            /\ acks' = acks /\ hq' = hq
         \/ /\ hq[z] # << >> /\ hq' = [hq EXCEPT ![z] = Tail(@)]
            /\ acks' = acks /\ dgs' = dgs
         \/ /\ acks[z] # << >> /\ acks' = [acks EXCEPT ![z] = Tail(@)]
            /\ dgs' = dgs /\ hq' = hq
  BY DEF LoseMessage, wire
<1>3. z = n \/ z = d
  BY DEF TwoNodes
<1>4. SameClient(cli[n], cli[n]) /\ SameHandler(hnd[d], hnd[d])
  BY DEF SameClient, SameHandler
<1>5. /\ Len(dgs[d]) \in Nat /\ Len(rq[d]) \in Nat /\ Len(hq[d]) \in Nat
      /\ Len(acks[n]) \in Nat
      /\ Len(dgs[d]) + Len(rq[d]) + Len(hq[d]) + Len(acks[n]) <=
            IF cli[n].pc = "wait_dg" \/ hnd[n].pc = "wait_dg" THEN 1 ELSE 0
      /\ cli[n].pc # "wait_dg" => \A i \in 1..Len(hq[d]) : IsReply(hq[d][i])
      /\ cli[n].pc = "wait_dg" => dgs[d] = << >> /\ rq[d] = << >>
  BY RoomOf, Zenon
<1> DEFINE x == Len(dgs[d])
           y == Len(rq[d])
           w == Len(hq[d])
           q == Len(acks[n])
<1>6. /\ x \in Nat /\ y \in Nat /\ w \in Nat /\ q \in Nat
      /\ x + y + w + q <=
            IF cli[n].pc = "wait_dg" \/ hnd[n].pc = "wait_dg" THEN 1 ELSE 0
  BY <1>5
\* A message less when n waits for no answer to a request.
<1>7. ASSUME NEW xd, NEW zd, NEW bq, cli[n].pc # "wait_dg",
             \/ Len(xd) = x - 1 /\ zd = hq[d] /\ bq = acks[n]
             \/ xd = dgs[d] /\ Len(zd) = w - 1 /\ bq = acks[n]
             \/ xd = dgs[d] /\ zd = hq[d] /\ Len(bq) = q - 1,
             \A i \in 1..Len(zd) : IsReply(zd[i]),
             dgs'[d] = xd, hq'[d] = zd, acks'[n] = bq, dgs'[n] = dgs[n], hq'[n] = hq[n]
      PROVE  Pair(n, d)'
  <2>1. Len(xd) + Len(rq[d]) + Len(zd) + Len(bq) <= IF hnd[n].pc = "wait_dg" THEN 1 ELSE 0
    <3>1. \/ Len(xd) = x - 1 /\ Len(zd) = w /\ Len(bq) = q
          \/ Len(xd) = x /\ Len(zd) = w - 1 /\ Len(bq) = q
          \/ Len(xd) = x /\ Len(zd) = w /\ Len(bq) = q - 1
      BY <1>7
    <3> HIDE DEF x, y, w, q
    <3>2. Len(xd) + y + Len(zd) + Len(bq) <= IF hnd[n].pc = "wait_dg" THEN 1 ELSE 0
      BY <1>6, <1>7, <3>1
    <3> QED BY <3>2 DEF y
  <2>2. PairOf(cli[n], hnd[n], hnd[d], mem[d], dgs[n], rq[n], hq[n], xd, rq[d], zd, bq)
    BY <1>4, <1>7, <2>1, PairMoves DEF Pair
  <2> QED BY <1>1, <1>7, <2>2, PairNext
\* n's request, or the answer to it, is the only message when n waits for it.
<1>8. ASSUME cli[n].pc = "wait_dg", w # 0 \/ q # 0, dgs' = dgs, hq'[n] = hq[n],
             \/ w # 0 /\ Len(hq'[d]) = w - 1 /\ hq'[d] \in Seq(Command \cup Reply)
                /\ acks' = acks
             \/ q # 0 /\ hq' = hq /\ Len(acks'[n]) = q - 1 /\ acks'[n] \in Seq(Ack)
      PROVE  Pair(n, d)'
  <2>1. \/ w = 1 /\ q = 0 /\ Len(hq'[d]) = 0 /\ hq'[d] \in Seq(Command \cup Reply)
           /\ acks' = acks
        \/ w = 0 /\ q = 1 /\ hq' = hq /\ Len(acks'[n]) = 0 /\ acks'[n] \in Seq(Ack)
    <3>1. \/ w = 1 /\ q = 0
          \/ w = 0 /\ q = 1
      <4>1. (w # 0 \/ q # 0) /\ cli[n].pc = "wait_dg"
        BY <1>8
      <4> HIDE DEF x, y, w, q
      <4>2. x + y + w + q <= 1
        BY <1>6, <4>1
      <4>3. x \in Nat /\ y \in Nat /\ w \in Nat /\ q \in Nat
        BY <1>6
      <4> QED BY <4>1, <4>2, <4>3
    <3>2. CASE w # 0 /\ Len(hq'[d]) = w - 1 /\ hq'[d] \in Seq(Command \cup Reply) /\ acks' = acks
      <4> HIDE DEF w, q
      <4> QED BY <3>1, <3>2
    <3>3. CASE q # 0 /\ hq' = hq /\ Len(acks'[n]) = q - 1 /\ acks'[n] \in Seq(Ack)
      <4> HIDE DEF w, q
      <4> QED BY <3>1, <3>3
    <3> QED BY <1>8, <3>2, <3>3
  <2>2. hq'[d] = << >> /\ acks'[n] = << >>
    BY <1>0, <2>1, EmptySeq
  <2>3. \A i \in 1..Len(<< >>) : << >>[i].outcome = "ok" => cli[n].req.cmd = "META"
    OBVIOUS
  <2>4. PairOf(cli[n], hnd[n], hnd[d], mem[d], dgs[n], rq[n], hq[n],
               << >>, << >>, << >>, << >>)
    BY <1>4, <1>8, <2>3, PairAnswered DEF Pair
  <2> QED BY <1>1, <1>5, <1>8, <2>2, <2>4, PairNext
<1>9. CASE dgs[z] # << >> /\ dgs' = [dgs EXCEPT ![z] = Tail(@)] /\ acks' = acks /\ hq' = hq
  <2>1. CASE z = n
    <3>1. dgs'[n] = Tail(dgs[n]) /\ dgs'[d] = dgs[d]
      BY <1>0, <1>9, <2>1
    <3>2. PairOf(cli[n], hnd[n], hnd[d], mem[d], Tail(dgs[n]), rq[n], hq[n],
                 dgs[d], rq[d], hq[d], acks[n])
      BY <1>0, <1>9, <2>1, PairLoses DEF Pair
    <3> QED BY <1>1, <1>9, <3>1, <3>2, PairNext
  <2>2. CASE z = d
    <3> DEFINE xd == Tail(dgs[d])
    <3>1. dgs'[d] = xd /\ dgs'[n] = dgs[n] /\ Len(xd) = x - 1
      BY <1>0, <1>9, <2>2, TailShape
    <3>2. cli[n].pc # "wait_dg"
      BY <1>5, <1>9, <2>2
    <3> HIDE DEF xd
    <3> QED BY <1>5, <1>7, <1>9, <3>1, <3>2
  <2> QED BY <1>3, <2>1, <2>2
<1>10. CASE hq[z] # << >> /\ hq' = [hq EXCEPT ![z] = Tail(@)] /\ acks' = acks /\ dgs' = dgs
  <2>1. CASE z = n
    <3> DEFINE zd == Tail(hq[n])
    <3>1. hq'[n] = zd /\ hq'[d] = hq[d]
      BY <1>0, <1>10, <2>1
    <3>2. \A i, j \in 1..Len(hq[n]) : IsReply(hq[n][i]) /\ IsReply(hq[n][j]) => i = j
      BY DEF Pair, PairOf, Stage
    <3>3. /\ \A i, j \in 1..Len(zd) : IsReply(zd[i]) /\ IsReply(zd[j]) => i = j
          /\ \A i \in 1..Len(zd) : \E j \in 1..Len(hq[n]) : zd[i] = hq[n][j]
      BY <1>0, <1>10, <2>1, <3>2, RepliesLeft
    <3> HIDE DEF zd
    <3>4. PairOf(cli[n], hnd[n], hnd[d], mem[d], dgs[n], rq[n], zd,
                 dgs[d], rq[d], hq[d], acks[n])
      BY <1>4, <3>3, PairCommands DEF Pair
    <3> QED BY <1>1, <1>10, <3>1, <3>4, PairNext
  <2>2. CASE z = d
    <3> DEFINE zd == Tail(hq[d])
    <3>1. hq'[d] = zd /\ hq'[n] = hq[n]
      BY <1>0, <1>10, <2>2
    <3>2. /\ Len(zd) = w - 1 /\ w # 0 /\ zd \in Seq(Command \cup Reply)
          /\ \A i \in 1..Len(zd) : i + 1 \in 1..Len(hq[d]) /\ zd[i] = hq[d][i + 1]
      <4>1. Len(zd) = Len(hq[d]) - 1 /\ Len(hq[d]) \in Nat \ {0}
            /\ \A i \in 1..Len(zd) : zd[i] = hq[d][i + 1]
        BY <1>0, <1>10, <2>2, TailShape
      <4>2. zd \in Seq(Command \cup Reply)
        BY <1>0, <1>10, <2>2, HeadTailProperties
      <4> HIDE DEF zd
      <4>3. \A i \in 1..Len(zd) : i + 1 \in 1..Len(hq[d])
        BY <4>1
      <4> QED BY <4>1, <4>2, <4>3
    <3> HIDE DEF zd
    <3>3. CASE cli[n].pc = "wait_dg"
      BY <1>8, <1>10, <3>1, <3>2, <3>3
    <3>4. CASE cli[n].pc # "wait_dg"
      <4>1. \A i \in 1..Len(zd) : IsReply(zd[i])
        BY <1>5, <3>2, <3>4
      <4> QED BY <1>7, <1>10, <3>1, <3>2, <3>4, <4>1
    <3> QED BY <3>3, <3>4
  <2> QED BY <1>3, <2>1, <2>2
<1>11. CASE acks[z] # << >> /\ acks' = [acks EXCEPT ![z] = Tail(@)] /\ dgs' = dgs /\ hq' = hq
  <2>1. CASE z = n
    <3> DEFINE bq == Tail(acks[n])
    <3>1. acks'[n] = bq
      BY <1>0, <1>11, <2>1
    <3>2. Len(bq) = q - 1 /\ q # 0 /\ bq \in Seq(Ack)
      BY <1>0, <1>11, <2>1, TailShape, HeadTailProperties
    <3> HIDE DEF bq
    <3>3. CASE cli[n].pc = "wait_dg"
      BY <1>8, <1>11, <3>1, <3>2, <3>3
    <3>4. CASE cli[n].pc # "wait_dg"
      BY <1>5, <1>7, <1>11, <3>1, <3>2, <3>4
    <3> QED BY <3>3, <3>4
  <2>2. CASE z = d
    <3>1. acks'[n] = acks[n]
      BY <1>0, <1>11, <2>2
    <3> QED BY <1>1, <1>11, <3>1 DEF Pair
  <2> QED BY <1>3, <2>1, <2>2
<1> QED BY <1>2, <1>9, <1>10, <1>11
-----------------------------------------------------------------------------
(* All steps together. *)

\* A step of one node leaves the client of another alone.
LEMMA OtherClient ==
    ASSUME BytesInv, NEW n \in Nodes, NEW z \in Nodes, z # n,
           \/ ClientStep(z) \/ HandlerStep(z) \/ TakeAnswer(z)
           \/ AnswerTimeout(z) \/ Entry(z)
    PROVE  cli'[n] = cli[n]
<1>0. DOMAIN cli = Nodes
  BY PairTypes
<1>1. ASSUME NEW e, Cleanup(z, e) PROVE cli'[n] = cli[n]
  BY <1>0, <1>1 DEF Cleanup
<1>2. CASE HandlerStep(z)
  BY <1>2 DEF HandlerStep, HandlerSend, HandlerEntry, TryRead, TryWrite,
              ClientAllocated, SendResponse
<1>3. CASE DatagramComplete(z) \/ ResponseTimeout(z)
  <2>1. \E e : Cleanup(z, e)
    BY <1>3 DEF DatagramComplete, ResponseTimeout
  <2> QED BY <1>1, <2>1
<1>4. CASE ResponseEntry(z)
  BY <1>0, <1>4 DEF ResponseEntry
<1>5. CASE TakeAnswer(z) \/ AnswerTimeout(z) \/ Entry(z)
  BY <1>0, <1>5 DEF TakeAnswer, AnswerTimeout, Entry
<1>6. CASE \/ DoRequest(z) \/ SendDatagram(z) \/ WriteDatagram(z)
           \/ TimerExpires(z) \/ TimerRun(z)
  BY <1>0, <1>6 DEF DoRequest, SendDatagram, WriteDatagram, TimerExpires, TimerRun
<1> QED BY <1>2, <1>3, <1>4, <1>5, <1>6 DEF ClientStep

\* Only the start of a request makes a client clean.
LEMMA StaysClean ==
    ASSUME BytesInv, NEW n \in Nodes, cli'[n].clean,
           \/ DoRequest(n) \/ SendDatagram(n) \/ WriteDatagram(n)
           \/ TimerExpires(n) \/ TimerRun(n) \/ ResponseEntry(n)
           \/ HandlerStep(n) \/ TakeAnswer(n)
    PROVE  cli[n].clean
<1> DEFINE c == cli[n]
<1>0. DOMAIN cli = Nodes /\ c \in ClientState
  BY PairTypes
<1>1. CASE HandlerStep(n)
  BY <1>1 DEF HandlerStep, HandlerSend, HandlerEntry, TryRead, TryWrite,
              ClientAllocated, SendResponse
<1>2. CASE DoRequest(n)
  <2>1. cli'[n] = [c EXCEPT !.pc = "send", !.payloadOffset = 0, !.offset = c.req.addr]
    BY <1>0, <1>2 DEF DoRequest
  <2> QED BY <1>0, <2>1, DoRequestFields
<1>3. CASE SendDatagram(n)
  <2>1. PICK o, l, w :
           cli'[n] = [c EXCEPT !.pc = "write_datagram", !.out = o, !.left = l,
                               !.writeLength = w, !.isWaitingForTimer = FALSE,
                               !.code = "pending"]
    BY <1>0, <1>3 DEF SendDatagram
  <2> QED BY <1>0, <2>1, SendFields
<1>4. CASE WriteDatagram(n)
  <2>1. cli'[n] = [c EXCEPT !.pc = "wait_dg", !.out = NoReply]
    BY <1>0, <1>4 DEF WriteDatagram
  <2> QED BY <1>0, <2>1, WriteFields
<1>5. CASE TimerExpires(n) \/ TimerRun(n)
  <2>1. PICK v : cli'[n] = [c EXCEPT !.timer = v]
    BY <1>0, <1>5 DEF TimerExpires, TimerRun
  <2> QED BY <1>0, <2>1, TimerFields
<1>6. CASE ResponseEntry(n)
  <2>1. /\ cli'[n] = c \/ cli'[n] = Replied(c, Head(rq[n]))
        /\ Head(rq[n]) \in Reply
    <3>1. /\ rq[n] # << >>
          /\ cli' = cli \/ cli' = [cli EXCEPT ![n] = Replied(c, Head(rq[n]))]
      BY <1>6 DEF ResponseEntry, Replied
    <3>2. Head(rq[n]) \in Reply
      BY <3>1, PairTypes, TailShape
    <3> QED BY <1>0, <3>1, <3>2
  <2>2. Head(rq[n]) \in Resps
    BY <2>1 DEF Resps
  <2> DEFINE e == Replied(c, Head(rq[n]))
  <2>3. e.clean = c.clean
    BY <1>0, <2>2, ReplyFields
  <2> HIDE DEF e
  <2> QED BY <2>1, <2>3 DEF e
<1>7. CASE TakeAnswer(n)
  <2> DEFINE e == [c EXCEPT !.pc = "complete", !.dg = Head(acks[n]).outcome]
  <2>1. cli' = cli \/ cli' = [cli EXCEPT ![n] = e]
    BY <1>7 DEF TakeAnswer
  <2>2. e.clean = c.clean
    BY <1>0, OutcomeFields
  <2> HIDE DEF e
  <2> QED BY <1>0, <2>1, <2>2
<1> QED BY <1>1, <1>2, <1>3, <1>4, <1>5, <1>6, <1>7

\* Two timeouts and a reboot of its own leave a client unclean.
LEMMA LeftUnclean ==
    ASSUME BytesInv, NEW n \in Nodes, AnswerTimeout(n) \/ Reboot(n)
    PROVE  ~cli'[n].clean
<1>0. DOMAIN cli = Nodes /\ cli[n] \in ClientState
  BY PairTypes
<1>1. CASE AnswerTimeout(n)
  <2>1. \/ cli'[n] = [cli[n] EXCEPT !.pc = "complete", !.dg = "timeout", !.clean = FALSE]
        \/ cli'[n] = [cli[n] EXCEPT !.clean = FALSE]
    BY <1>0, <1>1 DEF AnswerTimeout
  <2> QED BY <1>0, <2>1 DEF ClientState
<1>2. CASE Reboot(n)
  <2>1. cli'[n] = [IdleClient EXCEPT !.clean = FALSE]
    BY <1>2 DEF Reboot
  <2> QED BY <2>1 DEF IdleClient
<1> QED BY <1>1, <1>2

\* The other node's step.
LEMMA PeerStep ==
    ASSUME BytesInv, SenderInv, TwoNodes, NEW n \in Nodes, NEW d \in Nodes, n # d,
           cli[n].clean => Pair(n, d), cli'[n].clean,
           \/ ClientStep(d) \/ HandlerStep(d) \/ TakeAnswer(d)
           \/ AnswerTimeout(d) \/ Entry(d) \/ Reboot(d)
    PROVE  Pair(n, d)'
<1>1. CASE Reboot(d)
  BY <1>1, PeerReboots
<1>2. CASE ~Reboot(d)
  <2>1. Pair(n, d)
    BY <1>2, OtherClient
  <2>2. CASE HandlerStep(d)
    BY <2>1, <2>2, PeerDelivers, PeerEnters, PeerHandlerSteps, PeerResponds DEF HandlerStep
  <2>3. CASE WriteDatagram(d)
    BY <2>1, <2>3, PeerWrites
  <2>4. CASE ResponseEntry(d)
    BY <2>1, <2>4, PeerTakes
  <2>5. CASE \/ Entry(d) \/ DoRequest(d) \/ SendDatagram(d) \/ DatagramComplete(d)
             \/ ResponseTimeout(d) \/ TimerExpires(d) \/ TimerRun(d)
             \/ TakeAnswer(d) \/ AnswerTimeout(d)
    BY <2>1, <2>5, PeerClientSteps
  <2> QED BY <1>2, <2>2, <2>3, <2>4, <2>5 DEF ClientStep
<1> QED BY <1>1, <1>2

\* n's own step.
LEMMA OwnStep ==
    ASSUME BytesInv, SenderInv, TwoNodes, NEW n \in Nodes, NEW d \in Nodes, n # d,
           cli[n].clean => Pair(n, d), cli'[n].clean,
           \/ ClientStep(n) \/ HandlerStep(n) \/ TakeAnswer(n)
           \/ AnswerTimeout(n) \/ Entry(n) \/ Reboot(n)
    PROVE  Pair(n, d)'
<1>1. CASE AnswerTimeout(n) \/ Reboot(n)
  BY <1>1, LeftUnclean
<1>2. CASE Entry(n)
  BY <1>2, OwnEntry
<1>3. CASE DatagramComplete(n)
  BY <1>3, OwnDatagramComplete
<1>4. CASE ResponseTimeout(n)
  BY <1>4, OwnResponseTimeout
<1>5. CASE \/ DoRequest(n) \/ SendDatagram(n) \/ WriteDatagram(n)
           \/ TimerExpires(n) \/ TimerRun(n) \/ ResponseEntry(n)
           \/ HandlerStep(n) \/ TakeAnswer(n)
  <2>1. Pair(n, d)
    BY <1>5, StaysClean
  <2>2. CASE HandlerStep(n)
    BY <2>1, <2>2, OwnHandlerSend, OwnHandlerEntry, OwnHandlerSteps, OwnSendResponse
       DEF HandlerStep
  <2>3. CASE DoRequest(n) \/ SendDatagram(n) \/ WriteDatagram(n)
    BY <2>1, <2>3, OwnDoRequest, OwnSendDatagram, OwnWriteDatagram
  <2>4. CASE TimerExpires(n) \/ TimerRun(n) \/ ResponseEntry(n) \/ TakeAnswer(n)
    BY <2>1, <2>4, OwnTimer, OwnResponseEntry, OwnTakeAnswer
  <2> QED BY <1>5, <2>2, <2>3, <2>4
<1> QED BY <1>1, <1>2, <1>3, <1>4, <1>5 DEF ClientStep

LEMMA PairStep ==
    TwoNodes /\ BytesInv /\ SenderInv /\ PairInv /\ [Next]_vars => PairInv'
<1> SUFFICES ASSUME TwoNodes, BytesInv, SenderInv, PairInv, [Next]_vars,
                    NEW n \in Nodes, NEW d \in Nodes, n # d, cli'[n].clean
             PROVE  Pair(n, d)'
  BY DEF PairInv
<1>0. cli[n].clean => Pair(n, d)
  BY DEF PairInv
<1>1. CASE UNCHANGED vars
  BY <1>0, <1>1 DEF vars, queues, wire, Pair
<1>2. CASE LoseMessage
  <2>1. cli' = cli
    BY <1>2 DEF LoseMessage
  <2> QED BY <1>0, <1>2, <2>1, PairLosses
<1>3. CASE \E z \in Nodes : \/ ClientStep(z) \/ HandlerStep(z) \/ TakeAnswer(z)
                            \/ AnswerTimeout(z) \/ Entry(z) \/ Reboot(z)
  <2>1. PICK z \in Nodes : \/ ClientStep(z) \/ HandlerStep(z) \/ TakeAnswer(z)
                           \/ AnswerTimeout(z) \/ Entry(z) \/ Reboot(z)
    BY <1>3
  <2>2. z = n \/ z = d
    BY DEF TwoNodes
  <2> QED BY <1>0, <2>1, <2>2, OwnStep, PeerStep
<1> QED BY <1>1, <1>2, <1>3 DEF Next, Progress

LEMMA SenderInit == Init => SenderInv
<1> SUFFICES ASSUME Init, NEW n \in Nodes PROVE Senders(n)
  BY DEF SenderInv
<1>1. /\ cli[n] = IdleClient /\ hnd[n] = IdleHandler
      /\ hq[n] = << >> /\ rq[n] = << >> /\ dgs[n] = << >> /\ acks[n] = << >>
  BY DEF Init
<1>2. Len(<< >>) = 0
  OBVIOUS
<1>3. IdleClient.pc = "idle" /\ IdleClient.req.cmd = "none" /\ IdleHandler.pc = "idle"
  BY DEF IdleClient, IdleHandler
<1> QED BY <1>1, <1>2, <1>3 DEF Senders

LEMMA PairInit == Init => PairInv
<1> SUFFICES ASSUME Init, NEW n \in Nodes, NEW d \in Nodes PROVE Pair(n, d)
  BY DEF PairInv
<1>1. /\ cli[n] = IdleClient /\ hnd[n] = IdleHandler /\ hnd[d] = IdleHandler
      /\ hq[n] = << >> /\ rq[n] = << >> /\ dgs[n] = << >> /\ acks[n] = << >>
      /\ hq[d] = << >> /\ rq[d] = << >> /\ dgs[d] = << >>
  BY DEF Init
<1>2. Len(<< >>) = 0 /\ \A i \in 1..0 : FALSE
  OBVIOUS
<1>3. Rest(IdleHandler, IdleHandler, << >>, << >>, << >>, << >>, << >>, << >>, << >>)
  BY <1>2 DEF Rest, IdleHandler, Serving
<1>4. Collected(IdleClient, mem[d]) /\ Returns(IdleClient, mem[d])
  BY DEF Collected, Returns, IdleClient
<1>5. IdleClient.pc = "idle"
  BY DEF IdleClient
<1> QED BY <1>1, <1>3, <1>4, <1>5, PairRenews DEF Pair, Asking

\* What a client returns is about the other node's memory.
LEMMA PairGoal ==
    TwoNodes /\ BytesInv /\ SenderInv /\ PairInv => OkReadIsWhole /\ OkWriteIsThere
<1> SUFFICES ASSUME TwoNodes, BytesInv, SenderInv, PairInv
             PROVE  OkReadIsWhole /\ OkWriteIsThere
  OBVIOUS
<1>1. ASSUME NEW n \in Nodes, NEW v \in {"READ", "WRITE"}, Returned(n, v), cli[n].clean
      PROVE  Returns(cli[n], mem[cli[n].req.dst]) /\ cli[n].req \in Requests
  <2>1. cli[n].req \in Requests /\ cli[n].req.src = n
    BY <1>1 DEF SenderInv, Senders, Returned
  <2>2. cli[n].req.dst \in Nodes /\ cli[n].req.dst # n
    BY <2>1, MemoryConfigAssumption DEF MemoryConfigAssumption
  <2>3. Pair(n, cli[n].req.dst)
    BY <1>1, <2>2 DEF PairInv
  <2> QED BY <2>1, <2>3 DEF Pair, PairOf
<1>2. OkReadIsWhole
  BY <1>1 DEF OkReadIsWhole, Returned, Returns
<1>3. OkWriteIsThere
  BY <1>1 DEF OkWriteIsThere, Returned, Returns, Written
<1> QED BY <1>2, <1>3

\* With two nodes a read that returns without an error, when no timeout and no
\* reboot has left an older message of theirs under way, has every byte up to
\* the size asked for or the end of the space, as the space holds them, in
\* whatever pieces the space gave them and whatever the other node asks
\* meanwhile (read_response_timeout() and try_read()).
THEOREM ReadsAreWhole == ASSUME TwoNodes PROVE Spec => []OkReadIsWhole
<1>1. Init => BytesInv /\ SenderInv /\ PairInv
  BY BytesInit, SenderInit, PairInit
<1>2. BytesInv /\ SenderInv /\ PairInv /\ [Next]_vars => (BytesInv /\ SenderInv /\ PairInv)'
  BY BytesStep, SenderStep, PairStep
<1>3. BytesInv /\ SenderInv /\ PairInv => OkReadIsWhole
  BY PairGoal
<1> QED BY <1>1, <1>2, <1>3, PTL DEF Spec

\* And a write inside the space that returns without an error is in the space,
\* all of it (write_response_timeout() and try_write()).
THEOREM WritesAreThere == ASSUME TwoNodes PROVE Spec => []OkWriteIsThere
<1>1. Init => BytesInv /\ SenderInv /\ PairInv
  BY BytesInit, SenderInit, PairInit
<1>2. BytesInv /\ SenderInv /\ PairInv /\ [Next]_vars => (BytesInv /\ SenderInv /\ PairInv)'
  BY BytesStep, SenderStep, PairStep
<1>3. BytesInv /\ SenderInv /\ PairInv => OkWriteIsThere
  BY PairGoal
<1> QED BY <1>1, <1>2, <1>3, PTL DEF Spec
=============================================================================

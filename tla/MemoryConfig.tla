----------------------------- MODULE MemoryConfig -----------------------------
(***************************************************************************)
(* The memory configuration protocol: MemoryConfigClient with its          *)
(* ResponseFlow (MemoryConfigClient.hxx) and MemoryConfigHandler           *)
(* (MemoryConfig.hxx), which serves requests and hands replies to the      *)
(* client of its node.  Both send through the datagram clients of the      *)
(* node's pool; of these the model keeps what DatagramClient shows: one    *)
(* open datagram per pair of nodes, an outcome for each, no way to tell a  *)
(* late answer from a punctual one.                                        *)
(*                                                                         *)
(* Nodes ask each other.  Datagrams and answers may be lost, any wait may  *)
(* run into its timeout, nodes reboot.  A byte is a pair of its address    *)
(* and of the request that wrote it.  A failed assertion stops the model   *)
(* and stays in "bad".                                                     *)
(***************************************************************************)
EXTENDS Naturals, Sequences

CONSTANTS
    Nodes,
    Requests,    \* what clients ask for: [cmd, src, dst, space, addr, size]
    SpaceSize,   \* bytes of a memory space
    Chunk,       \* MAX_DATAGRAM_RW_BYTES
    Pools,       \* how many datagram clients the nodes may have
    MaxRequests, \* bound: requests made
    MaxFaults    \* bound: messages lost, reboots, and timeouts that come
                 \* before what they wait for

\* The size of a request for the whole space, 0xffffffff.
Whole == SpaceSize + Chunk + 1

ASSUME MemoryConfigAssumption ==
    /\ SpaceSize \in Nat /\ Chunk \in Nat \ {0} /\ Pools \subseteq [Nodes -> Nat \ {0}]
    /\ MaxRequests \in Nat /\ MaxFaults \in Nat
    /\ \A r \in Requests :
          /\ r.src \in Nodes /\ r.dst \in Nodes /\ r.src # r.dst
          /\ r.cmd \in {"READ", "WRITE", "META"}
          /\ r.space \in {"rw", "ro", "unknown"}
          /\ r.addr \in Nat /\ r.size \in 0..Whole

VARIABLES
    cli,         \* MemoryConfigClient of a node
    hnd,         \* MemoryConfigHandler of a node
    clients,     \* datagram clients of the nodes; never changes
    pool,        \* free entries of client_allocator()
    mem,         \* contents of the memory space
    hq, rq,      \* queues of the handler, with the requests that are still
                 \* under way to it, and of the ResponseFlow
    dgs, acks,   \* replies and answers to datagrams under way to a node
    asked, faults

queues == <<hq, rq>>
wire == <<dgs, acks>>
bounds == <<asked, faults, clients>>
vars == <<cli, hnd, pool, mem, queues, wire, bounds>>

Smaller(a, b) == IF a < b THEN a ELSE b
Running == \A n \in Nodes : cli[n].bad = "none"

NoReply == [kind |-> "none"]
IdleClient ==
    [pc |-> "idle", req |-> [cmd |-> "none"], id |-> 0, left |-> 0,
     offset |-> 0, payloadOffset |-> 0, writeLength |-> 0, payload |-> << >>,
     out |-> NoReply, dg |-> "none", code |-> "pending", resp |-> NoReply,
     isWaitingForTimer |-> FALSE, timer |-> "idle", triggered |-> FALSE,
     result |-> "none", clean |-> TRUE, bad |-> "none"]
IdleHandler ==
    [pc |-> "idle", msg |-> NoReply, currentOffset |-> 0, bytes |-> << >>,
     response |-> NoReply, client |-> FALSE]

Init ==
    /\ cli = [n \in Nodes |-> IdleClient]
    /\ hnd = [n \in Nodes |-> IdleHandler]
    /\ clients \in Pools /\ pool = clients
    /\ mem = [n \in Nodes |-> [a \in 0..SpaceSize - 1 |-> 0]]
    /\ hq = [n \in Nodes |-> << >>] /\ rq = [n \in Nodes |-> << >>]
    /\ dgs = [n \in Nodes |-> << >>] /\ acks = [n \in Nodes |-> << >>]
    /\ asked = 0 /\ faults = 0

\* Nothing of an earlier request is left anywhere.
Quiet ==
    \A n \in Nodes : /\ hnd[n].pc = "idle"
                     /\ hq[n] \o rq[n] \o dgs[n] \o acks[n] = << >>
-----------------------------------------------------------------------------
(* The datagram layer.                                                     *)

\* Mutant: clients of a node do not wait for each other.
Busy_Never(n, d) == FALSE

\* acquire_srcdst_lock(): another datagram of n to d has no outcome yet.
Busy(n, d) ==
    \/ cli[n].pc = "wait_dg" /\ cli[n].req.dst = d
    \/ hnd[n].pc = "wait_dg" /\ hnd[n].msg.src = d

Answer(n, m, outcome) ==
    acks' = [acks EXCEPT ![m.src] =
                Append(@, [src |-> n, outcome |-> outcome])]

\* response_flow_complete(), whatever the outcome: the handler is free again.
ResponseFlowComplete(n) ==
    /\ hnd' = [hnd EXCEPT ![n] = [IdleHandler EXCEPT !.client = hnd[n].client]]
    /\ pool' = [pool EXCEPT ![n] = @ + 1]

\* The listeners of n's datagram clients get an answer of the destination.
TakeAnswer(n) ==
    /\ Running /\ acks[n] # << >>
    /\ acks' = [acks EXCEPT ![n] = Tail(@)]
    /\ LET a == Head(acks[n])
       IN /\ cli' = IF cli[n].pc = "wait_dg" /\ cli[n].req.dst = a.src
                    THEN [cli EXCEPT ![n] = [@ EXCEPT !.pc = "complete",
                                                       !.dg = a.outcome]]
                    ELSE cli
          /\ IF hnd[n].pc = "wait_dg" /\ hnd[n].msg.src = a.src
             THEN ResponseFlowComplete(n)
             ELSE UNCHANGED <<hnd, pool>>
    /\ UNCHANGED <<mem, queues, dgs, bounds>>

\* No message is under way and no handler can go on.
Standstill ==
    \A n \in Nodes :
        /\ dgs[n] \o rq[n] \o acks[n] = << >>
        /\ CASE hnd[n].pc = "idle" -> hq[n] = << >>
             [] hnd[n].pc = "try" -> FALSE
             [] hnd[n].pc = "alloc" -> pool[n] = 0
             [] hnd[n].pc = "send" -> Busy(n, hnd[n].msg.src)
             [] hnd[n].pc = "wait_dg" -> TRUE

\* Any timer may run out at any time; before a standstill it counts as a fault.
TimesOut ==
    /\ Standstill \/ faults < MaxFaults
    /\ faults' = IF Standstill THEN faults ELSE faults + 1

\* No answer within DATAGRAM_RESPONSE_TIMEOUT_NSEC.
AnswerTimeout(n) ==
    /\ Running /\ TimesOut
    /\ \/ /\ cli[n].pc = "wait_dg"
          /\ cli' = [cli EXCEPT ![n] = [@ EXCEPT !.pc = "complete",
                                                 !.dg = "timeout",
                                                 !.clean = FALSE]]
          /\ UNCHANGED <<hnd, pool>>
       \/ /\ hnd[n].pc = "wait_dg" /\ ResponseFlowComplete(n)
          /\ cli' = [cli EXCEPT ![n].clean = FALSE]
    /\ UNCHANGED <<mem, queues, wire, asked, clients>>

LoseMessage ==
    /\ Running /\ faults < MaxFaults
    /\ faults' = faults + 1
    /\ \E n \in Nodes :
          \/ /\ dgs[n] # << >> /\ dgs' = [dgs EXCEPT ![n] = Tail(@)]
             /\ UNCHANGED <<acks, hq>>
          \/ /\ hq[n] # << >> /\ hq' = [hq EXCEPT ![n] = Tail(@)]
             /\ UNCHANGED wire
          \/ /\ acks[n] # << >> /\ acks' = [acks EXCEPT ![n] = Tail(@)]
             /\ UNCHANGED <<dgs, hq>>
    /\ UNCHANGED <<cli, hnd, pool, mem, rq, asked, clients>>

\* A node reboots: whoever waits for its answer hears INITIALIZATION_COMPLETE.
Reboot(n) ==
    /\ Running /\ faults < MaxFaults
    /\ faults' = faults + 1
    /\ cli' = [m \in Nodes |->
                 IF m = n THEN [IdleClient EXCEPT !.clean = FALSE]
                 ELSE IF cli[m].pc = "wait_dg" /\ cli[m].req.dst = n
                 THEN [cli[m] EXCEPT !.pc = "complete", !.dg = "DST_REBOOT",
                                     !.clean = FALSE]
                 ELSE IF hnd[m].pc = "wait_dg" /\ hnd[m].msg.src = n
                 THEN [cli[m] EXCEPT !.clean = FALSE]
                 ELSE cli[m]]
    /\ hnd' = [m \in Nodes |->
                 IF m = n THEN IdleHandler
                 ELSE IF hnd[m].pc = "wait_dg" /\ hnd[m].msg.src = n
                 THEN [IdleHandler EXCEPT !.client = hnd[m].client]
                 ELSE hnd[m]]
    /\ pool' = [m \in Nodes |->
                 IF m = n THEN clients[n]
                 ELSE IF hnd[m].pc = "wait_dg" /\ hnd[m].msg.src = n
                 THEN pool[m] + 1
                 ELSE pool[m]]
    /\ hq' = [hq EXCEPT ![n] = << >>] /\ rq' = [rq EXCEPT ![n] = << >>]
    /\ UNCHANGED <<mem, wire, asked, clients>>
-----------------------------------------------------------------------------
(* The client.                                                             *)

\* reset() of a request, as r, which gets number id, and the start of entry().
Start(c, r, id) ==
    [c EXCEPT !.pc = "alloc", !.req = r, !.left = r.size, !.payload = << >>,
              !.id = id, !.result = "pending", !.clean = @ \/ Quiet]

\* A caller sends a request; entry() asks for a datagram client.
Entry(n) ==
    /\ Running /\ cli[n].pc = "idle" /\ asked < MaxRequests
    /\ asked' = asked + 1
    /\ \E r \in {q \in Requests : q.src = n} :
          cli' = [cli EXCEPT ![n] = Start(@, r, asked + 1)]
    /\ UNCHANGED <<hnd, pool, mem, queues, wire, faults, clients>>

\* do_read(), do_write(), do_meta_request() with set_client().
DoRequest(n) ==
    /\ Running /\ cli[n].pc = "alloc" /\ pool[n] > 0
    /\ pool' = [pool EXCEPT ![n] = @ - 1]
    /\ cli' = [cli EXCEPT ![n] = [@ EXCEPT !.pc = "send", !.payloadOffset = 0,
                                           !.offset = cli[n].req.addr]]
    /\ hnd' = [hnd EXCEPT ![n].client = cli[n].req.cmd # "META"]
    /\ UNCHANGED <<mem, queues, wire, bounds>>

\* How much the next datagram asks for or carries.
NextLength(c) ==
    IF c.req.cmd = "WRITE" THEN Smaller(c.req.size - c.payloadOffset, Chunk)
    ELSE Smaller(c.left, Chunk)

\* Mutant: what was asked for is not subtracted.
Left_NotCounted(c) == c.left

Left(c) == IF c.left = Whole THEN Whole ELSE c.left - NextLength(c)

\* send_read_datagram(), send_write_datagram(), send_meta_datagram().
SendDatagram(n) ==
    /\ Running /\ cli[n].pc = "send"
    /\ LET c == cli[n]
           d == [kind |-> c.req.cmd, src |-> n, space |-> c.req.space,
                 addr |-> c.offset, len |-> NextLength(c), id |-> c.id]
       IN cli' = [cli EXCEPT ![n] =
                    [c EXCEPT !.pc = "write_datagram", !.out = d,
                              !.left = IF c.req.cmd = "READ" THEN Left(c)
                                       ELSE @,
                              !.writeLength = NextLength(c),
                              !.isWaitingForTimer = FALSE,
                              !.code = "pending"]]
    /\ UNCHANGED <<hnd, pool, mem, queues, wire, bounds>>

\* The datagram client has its turn.
WriteDatagram(n) ==
    /\ Running /\ cli[n].pc = "write_datagram" /\ ~Busy(n, cli[n].req.dst)
    /\ hq' = [hq EXCEPT ![cli[n].req.dst] = Append(@, cli[n].out)]
    /\ cli' = [cli EXCEPT ![n] = [@ EXCEPT !.pc = "wait_dg", !.out = NoReply]]
    /\ UNCHANGED <<hnd, pool, mem, rq, wire, bounds>>

\* return_with_error() or return_ok(); what the next request sets before it is
\* used is cleared.
Return(c, result) ==
    [c EXCEPT !.pc = "idle", !.result = result, !.resp = NoReply,
              !.dg = "none", !.offset = 0, !.payloadOffset = 0,
              !.writeLength = 0, !.left = 0, !.code = "none",
              !.triggered = FALSE]

\* handle_read_error() and handle_write_error().
HandleError(c, error) ==
    Return(c, IF error = "ERROR_OUT_OF_BOUNDS" THEN "ok" ELSE error)

\* Mutant: the address of the reply is not looked at.
IsReplyTo_AnyAddress(c, m) == m.space = c.req.space

IsReplyTo(c, m) == m.addr = c.offset /\ m.space = c.req.space

\* read_response_timeout() and write_response_timeout().
Response(c) ==
    LET done == [c EXCEPT !.timer = "idle"]
        read == [done EXCEPT !.payload = @ \o c.resp.bytes,
                             !.offset = @ + Len(c.resp.bytes)]
        written == [done EXCEPT !.offset = @ + c.writeLength,
                                !.payloadOffset = @ + c.writeLength]
    IN IF c.code = "pending" \/ (c.isWaitingForTimer /\ ~c.triggered)
       THEN HandleError([done EXCEPT !.clean = FALSE], "timeout")
       ELSE IF ~IsReplyTo(c, c.resp) THEN HandleError(done, "out_of_order")
       ELSE IF c.resp.kind \in {"READ_FAILED", "WRITE_FAILED"}
       THEN HandleError(done, c.resp.error)
       ELSE IF c.resp.kind = "READ_REPLY"
       THEN IF Len(c.resp.bytes) < Chunk \/ c.left = 0
            THEN Return(read, "ok") ELSE [read EXCEPT !.pc = "send"]
       ELSE IF written.payloadOffset >= c.req.size
            THEN Return(written, "ok") ELSE [written EXCEPT !.pc = "send"]

\* read_complete(), write_complete() and meta_complete().
Completed(c) ==
    IF c.req.cmd = "META"
    THEN Return(c, IF c.dg \in {"ok", "DST_REBOOT"} THEN "ok" ELSE c.dg)
    ELSE IF c.dg \notin {"ok", "ok_reply_pending"} THEN HandleError(c, c.dg)
    ELSE IF c.req.cmd = "WRITE" /\ c.dg = "ok" THEN Return(c, "ok")
    ELSE IF c.code = "pending"
    THEN [c EXCEPT !.pc = "sleep", !.isWaitingForTimer = TRUE,
                   !.timer = "active", !.triggered = FALSE]
    ELSE Response(c)

\* Mutant: after an error the datagram client is not given back.
Cleanup_KeepClient(n, c) ==
    /\ cli' = [cli EXCEPT ![n] = c]
    /\ pool' = IF c.pc = "idle" /\ c.result = "ok"
               THEN [pool EXCEPT ![n] = @ + 1] ELSE pool
    /\ hnd' = IF c.pc = "idle" THEN [hnd EXCEPT ![n].client = FALSE] ELSE hnd

\* cleanup_read() and cleanup_write(), with clear_client(), when it returns.
Cleanup(n, c) ==
    /\ cli' = [cli EXCEPT ![n] = c]
    /\ pool' = IF c.pc = "idle" THEN [pool EXCEPT ![n] = @ + 1] ELSE pool
    /\ hnd' = IF c.pc = "idle" THEN [hnd EXCEPT ![n].client = FALSE] ELSE hnd

DatagramComplete(n) ==
    /\ Running /\ cli[n].pc = "complete"
    /\ Cleanup(n, Completed(cli[n]))
    /\ UNCHANGED <<mem, queues, wire, bounds>>

ResponseTimeout(n) ==
    /\ Running /\ cli[n].pc = "sleep" /\ cli[n].timer = "notified"
    /\ Cleanup(n, Response(cli[n]))
    /\ UNCHANGED <<mem, queues, wire, bounds>>

\* The timeout the answer named is over; the executor runs the timer.
TimerExpires(n) ==
    /\ Running /\ cli[n].timer = "active" /\ TimesOut
    /\ cli' = [cli EXCEPT ![n].timer = "expired"]
    /\ UNCHANGED <<hnd, pool, mem, queues, wire, asked, clients>>

TimerRun(n) ==
    /\ Running /\ cli[n].timer = "expired"
    /\ cli' = [cli EXCEPT ![n].timer = "notified"]
    /\ UNCHANGED <<hnd, pool, mem, queues, wire, bounds>>

\* Timer::trigger().
Trigger(c) ==
    CASE c.timer = "expired" -> c
      [] c.timer = "active" -> [c EXCEPT !.timer = "expired",
                                         !.triggered = TRUE]
      [] OTHER -> [c EXCEPT !.bad = "trigger"]

\* What ResponseFlow::entry() accepts.
Expected(c, m) ==
    /\ c.pc # "idle" /\ m.src = c.req.dst
    /\ m.kind \in {"READ_REPLY", "READ_FAILED"} => c.req.cmd = "READ"
    /\ m.kind \in {"WRITE_REPLY", "WRITE_FAILED"} => c.req.cmd = "WRITE"

\* ResponseFlow::entry().
ResponseEntry(n) ==
    /\ Running /\ rq[n] # << >>
    /\ rq' = [rq EXCEPT ![n] = Tail(@)]
    /\ LET m == Head(rq[n])
           c == [cli[n] EXCEPT !.code = "none", !.resp = m]
       IN \/ /\ Expected(cli[n], m)
             /\ cli' = [cli EXCEPT ![n] =
                          IF c.isWaitingForTimer THEN Trigger(c) ELSE c]
             /\ Answer(n, m, "ok")
          \/ /\ ~Expected(cli[n], m)
             /\ Answer(n, m, "rejected")
             /\ UNCHANGED cli
    /\ UNCHANGED <<hnd, pool, mem, hq, dgs, bounds>>
-----------------------------------------------------------------------------
(* The handler.                                                            *)

IsReply(m) == m.kind \notin {"READ", "WRITE", "META"}

\* send(): replies go to the client's ResponseFlow, if there is one.
HandlerSend(n) ==
    /\ Running /\ dgs[n] # << >>
    /\ dgs' = [dgs EXCEPT ![n] = Tail(@)]
    /\ LET m == Head(dgs[n])
       IN IF hnd[n].client
          THEN rq' = [rq EXCEPT ![n] = Append(@, m)] /\ UNCHANGED hq
          ELSE hq' = [hq EXCEPT ![n] = Append(@, m)] /\ UNCHANGED rq
    /\ UNCHANGED <<cli, hnd, pool, mem, acks, bounds>>

\* handle_read() and handle_write() refuse.
Refused(m) ==
    \/ m.kind \in {"READ", "WRITE"} /\ m.space = "unknown"
    \/ m.kind = "WRITE" /\ (m.space = "ro" \/ m.len = 0)

\* entry(): a reply that came before there was a client goes to it now; a
\* command without a reply is done or refused.
HandlerEntry(n) ==
    /\ Running /\ hnd[n].pc = "idle" /\ hq[n] # << >>
    /\ hq' = [hq EXCEPT ![n] = Tail(@)]
    /\ LET m == Head(hq[n])
       IN \/ /\ IsReply(m) /\ hnd[n].client
             /\ rq' = [rq EXCEPT ![n] = Append(@, m)]
             /\ UNCHANGED <<hnd, acks>>
          \/ /\ \/ Refused(m) \/ m.kind = "META"
                \/ IsReply(m) /\ ~hnd[n].client
             /\ Answer(n, m, "rejected")
             /\ UNCHANGED <<hnd, rq>>
          \/ /\ m.kind = "META"
             /\ Answer(n, m, "ok")
             /\ UNCHANGED <<hnd, rq>>
          \/ /\ m.kind \in {"READ", "WRITE"} /\ ~Refused(m)
             /\ Answer(n, m, "ok_reply_pending")
             /\ hnd' = [hnd EXCEPT ![n] = [@ EXCEPT !.pc = "try", !.msg = m,
                                                    !.currentOffset = 0]]
             /\ UNCHANGED rq
    /\ UNCHANGED <<cli, pool, mem, dgs, bounds>>

\* The response of try_read() or try_write().
Respond(n, h, kind, error) ==
    [h EXCEPT !.pc = "alloc", !.bytes = << >>, !.currentOffset = 0,
              !.response = [kind |-> kind, src |-> n, space |-> h.msg.space,
                            addr |-> h.msg.addr, error |-> error,
                            bytes |-> IF kind = "READ_REPLY" THEN h.bytes
                                      ELSE << >>]]

\* How many bytes the memory space may read or write in one call: at least one
\* unless the end was reached.
Possible(h) ==
    {k \in 1..h.msg.len - h.currentOffset :
        h.msg.addr + h.currentOffset + k <= SpaceSize}
AtEnd(h) == h.msg.addr + h.currentOffset >= SpaceSize
Complete(h) == h.currentOffset = h.msg.len

\* try_read(): the space gives some bytes, at once or after a while, has no
\* more, or fails.  A partial response is possible at the end only.
TryRead(n) ==
    /\ Running /\ hnd[n].pc = "try" /\ hnd[n].msg.kind = "READ"
    /\ LET h == hnd[n]
           at == h.msg.addr + h.currentOffset
           more(k) == [h EXCEPT !.currentOffset = @ + k, !.bytes = @ \o
                          [i \in 1..k |-> <<at + i - 1, mem[n][at + i - 1]>>]]
       IN \/ /\ Complete(h)
             /\ hnd' = [hnd EXCEPT ![n] = Respond(n, h, "READ_REPLY", "none")]
          \/ /\ ~Complete(h)
             /\ \E k \in Possible(h) :
                   hnd' = [hnd EXCEPT ![n] =
                             IF Complete(more(k))
                             THEN Respond(n, more(k), "READ_REPLY", "none")
                             ELSE more(k)]
          \/ /\ ~Complete(h) /\ AtEnd(h)
             /\ hnd' = [hnd EXCEPT ![n] =
                          IF h.currentOffset > 0
                          THEN Respond(n, h, "READ_REPLY", "none")
                          ELSE Respond(n, h, "READ_FAILED",
                                       "ERROR_OUT_OF_BOUNDS")]
          \/ /\ ~Complete(h)
             /\ hnd' = [hnd EXCEPT ![n] =
                          Respond(n, h, "READ_FAILED", "failed")]
    /\ UNCHANGED <<cli, pool, mem, queues, wire, bounds>>

\* try_write(), likewise.
TryWrite(n) ==
    /\ Running /\ hnd[n].pc = "try" /\ hnd[n].msg.kind = "WRITE"
    /\ LET h == hnd[n]
           at == h.msg.addr + h.currentOffset
       IN \/ \E k \in Possible(h) :
                /\ mem' = [mem EXCEPT ![n] =
                             [a \in DOMAIN @ |-> IF a \in at..at + k - 1
                                                 THEN h.msg.id ELSE @[a]]]
                /\ LET w == [h EXCEPT !.currentOffset = @ + k]
                   IN hnd' = [hnd EXCEPT ![n] =
                                IF Complete(w)
                                THEN Respond(n, w, "WRITE_REPLY", "none")
                                ELSE w]
          \/ /\ hnd' = [hnd EXCEPT ![n] =
                          Respond(n, h, "WRITE_FAILED",
                                  IF AtEnd(h) THEN "ERROR_OUT_OF_BOUNDS"
                                  ELSE "failed")]
             /\ UNCHANGED mem
    /\ UNCHANGED <<cli, pool, queues, wire, bounds>>

\* client_allocated(): a datagram client of the pool is there.
ClientAllocated(n) ==
    /\ Running /\ hnd[n].pc = "alloc" /\ pool[n] > 0
    /\ pool' = [pool EXCEPT ![n] = @ - 1]
    /\ hnd' = [hnd EXCEPT ![n].pc = "send"]
    /\ UNCHANGED <<cli, mem, queues, wire, bounds>>

\* send_response_datagram() when the datagram client has its turn.
SendResponse(n) ==
    /\ Running /\ hnd[n].pc = "send" /\ ~Busy(n, hnd[n].msg.src)
    /\ dgs' = [dgs EXCEPT ![hnd[n].msg.src] = Append(@, hnd[n].response)]
    /\ hnd' = [hnd EXCEPT ![n] = [@ EXCEPT !.pc = "wait_dg",
                                           !.response = NoReply]]
    /\ UNCHANGED <<cli, pool, mem, queues, acks, bounds>>

-----------------------------------------------------------------------------
ClientStep(n) == DoRequest(n) \/ SendDatagram(n) \/ WriteDatagram(n)
                   \/ DatagramComplete(n) \/ ResponseTimeout(n)
                   \/ TimerExpires(n) \/ TimerRun(n) \/ ResponseEntry(n)
HandlerStep(n) == HandlerSend(n) \/ HandlerEntry(n) \/ TryRead(n)
                    \/ TryWrite(n) \/ ClientAllocated(n) \/ SendResponse(n)
Progress == \E n \in Nodes : ClientStep(n) \/ HandlerStep(n) \/ TakeAnswer(n)
                               \/ AnswerTimeout(n)

Next == \/ Progress \/ LoseMessage
        \/ \E n \in Nodes : Entry(n) \/ Reboot(n)

Spec == Init /\ [][Next]_vars

\* As long as a flow can run, a message is under way or somebody waits with a
\* timeout, something happens; nobody has to ask.
FairSpec == Spec /\ WF_vars(Progress)
-----------------------------------------------------------------------------
(* Properties.                                                             *)

Returned(n, cmd) ==
    cli[n].pc = "idle" /\ cli[n].result = "ok" /\ cli[n].req.cmd = cmd

\* The bytes a read has collected are those of the addresses asked for, one
\* after the other, whatever late replies of earlier requests came in.
BytesFromAddress ==
    \A n \in Nodes : \A i \in DOMAIN cli[n].payload :
        cli[n].payload[i][1] = cli[n].req.addr + i - 1

\* A read that returns without an error has every byte up to the size asked
\* for or the end of the space, as the space holds them, unless a timeout or
\* a reboot has left an earlier message of the two nodes under way.
OkReadIsWhole ==
    \A n \in Nodes : Returned(n, "READ") /\ cli[n].clean =>
        LET r == cli[n].req
            end == Smaller(r.addr + r.size, SpaceSize)
        IN cli[n].payload = [i \in 1..end - r.addr |->
                  <<r.addr + i - 1, mem[r.dst][r.addr + i - 1]>>]

\* A write inside the space that returns without an error is in the space,
\* all of it, under the same condition: also when the node answers requests
\* of the other one at the same time through the same datagram clients.
OkWriteIsThere ==
    \A n \in Nodes : Returned(n, "WRITE") /\ cli[n].clean =>
        LET r == cli[n].req
        IN r.addr + r.size <= SpaceSize =>
              \A a \in r.addr..r.addr + r.size - 1 :
                  mem[r.dst][a] = cli[n].id

\* Every request returns and every handler gets free again, with all datagram
\* clients back in their pools: nodes that ask each other with all of them in
\* use do not block for good.
EveryoneComesToRest ==
    []<>(~Running \/ \A n \in Nodes : /\ cli[n].pc = "idle"
                                      /\ hnd[n].pc = "idle"
                                      /\ pool[n] = clients[n])

\* "@param size is the number of bytes to read" (MemoryConfigClient.hxx,
\* reset() of READ_PART).
NoMoreThanAsked ==
    \A n \in Nodes : Returned(n, "READ") =>
        Len(cli[n].payload) <= cli[n].req.size

\* "The timer must be active or expired at the time of call." (Timer.hxx,
\* trigger()).
TriggerAssert == \A n \in Nodes : cli[n].bad # "trigger"
=============================================================================

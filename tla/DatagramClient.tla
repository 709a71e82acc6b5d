--------------------------- MODULE DatagramClient ---------------------------
(***************************************************************************)
(* The datagram clients of one interface (openlcb/DatagramImpl.hxx,        *)
(* DatagramClientImpl): each sends one datagram at a time and waits for    *)
(* the answer or a timeout; clients with the same source and destination   *)
(* exclude each other and hand the turn over when they finish.             *)
(*                                                                         *)
(* Everything runs on the interface's executor.  runq is its queue at one  *)
(* priority, in FIFO order; it holds state flows and expired timers.  An   *)
(* answer is handled by the dispatcher between two of them.  A failed      *)
(* HASSERT ends the program: crashed names it.                             *)
(***************************************************************************)
EXTENDS Naturals, Sequences, FiniteSets

CONSTANTS
    Clients,    \* DatagramClientImpl objects
    Targets,    \* destination nodes, all with the same source node
    NoTarget,   \* dst_ of a client that never sent
    MaxWrites   \* bound: number of datagrams the application sends

ASSUME ClientAssumption == MaxWrites \in Nat /\ NoTarget \notin Targets

VARIABLES
    state,          \* StateFlowBase::state_
    runq,           \* the executor's queue: <<"flow", c>> or <<"timer", c>>
    timer,          \* timer_: "idle", "active" or "expired"
    dst,            \* dst_
    sendPending, isSleeping,    \* the flags, as sets of clients
    waitingClients, \* waitingClients_, front first
    pending,        \* clients with OPERATION_PENDING in result_
    result,         \* the other outcome flags of result_, as a set
    number,         \* how many datagrams the client was given so far
    net,            \* datagrams sent and not answered yet
    answered,       \* the datagrams whose answers made the client's outcome
    writes,         \* datagrams sent so far
    crashed         \* the assertion that failed, or "no"

vars == <<state, runq, timer, dst, sendPending, isSleeping, waitingClients,
          pending, result, number, net, answered, writes, crashed>>

States == {"terminated", "start_send", "timeout_waiting_for_dg_response",
           "datagram_finalize"}
Outcomes == {"OPERATION_SUCCESS", "PERMANENT_ERROR", "RESEND_OK", "TIMEOUT",
             "DST_REBOOT"}
Asserts == {"no", "insert", "start", "trigger", "hand_off", "finalize"}

Datagram == [from : Clients, to : Targets, no : 0..MaxWrites]

\* The client c is registered for the answer to the datagram n, its own.
WaitsFor(c, n) == c \in sendPending /\ n.from = c /\ n.no = number[c]

Flow(c) == <<"flow", c>>
TimerOf(c) == <<"timer", c>>
InRunq(x) == \E i \in 1..Len(runq) : runq[i] = x

Init ==
    /\ state = [c \in Clients |-> "terminated"]
    /\ runq = << >>
    /\ timer = [c \in Clients |-> "idle"]
    /\ dst = [c \in Clients |-> NoTarget]
    /\ sendPending = {} /\ isSleeping = {}
    /\ waitingClients = [c \in Clients |-> << >>]
    /\ pending = {}
    /\ result = [c \in Clients |-> {}]
    /\ number = [c \in Clients |-> 0]
    /\ net = {}
    /\ answered = [c \in Clients |-> {}]
    /\ writes = 0
    /\ crashed = "no"
-----------------------------------------------------------------------------
\* write_datagram() by the application, on a client it got from the
\* allocator and that has finished its previous datagram.
WriteDatagram(c, d) ==
    /\ crashed = "no"
    /\ state[c] = "terminated"
    /\ writes < MaxWrites
    /\ writes' = writes + 1
    /\ pending' = pending \cup {c}
    /\ result' = [result EXCEPT ![c] = {}]
    /\ answered' = [answered EXCEPT ![c] = {}]
    /\ number' = [number EXCEPT ![c] = @ + 1]
    /\ dst' = [dst EXCEPT ![c] = d]
    /\ state' = [state EXCEPT ![c] = "start_send"]
    /\ runq' = Append(runq, Flow(c))
    /\ UNCHANGED <<timer, sendPending, isSleeping, waitingClients, net, crashed>>

\* Mutant: the clients whose own turn was just handed over are not seen.
Holders_SleepingOnly(c) == {h \in sendPending \cap isSleeping :
                               dst[h] = dst[c] /\ timer[h] = "active"}

\* The clients acquire_srcdst_lock() must wait for.
Holders(c) == {h \in sendPending : dst[h] = dst[c]}

\* start_send(), acquire_srcdst_lock(): wait in the list of the client that
\* is sending to this destination.
WaitForTurn(c) ==
    /\ crashed = "no" /\ runq # << >> /\ Head(runq) = Flow(c)
    /\ state[c] = "start_send"
    /\ \E h \in Holders(c) :
          waitingClients' = [waitingClients EXCEPT ![h] = <<c>> \o @]
    /\ runq' = Tail(runq)
    /\ UNCHANGED <<state, timer, dst, sendPending, isSleeping, pending, result,
                   number, net, answered, writes, crashed>>

\* start_send(), do_send(): register the handlers, hand the datagram to the
\* send flow and sleep until the answer.
DoSend(c) ==
    /\ crashed = "no" /\ runq # << >> /\ Head(runq) = Flow(c)
    /\ state[c] = "start_send"
    /\ Holders(c) = {}
    /\ sendPending' = sendPending \cup {c}
    /\ net' = net \cup {[from |-> c, to |-> dst[c], no |-> number[c]]}
    /\ isSleeping' = isSleeping \cup {c}
    /\ timer' = [timer EXCEPT ![c] = "active"]
    /\ crashed' = IF timer[c] = "idle" THEN "no" ELSE "start"
    /\ state' = [state EXCEPT ![c] = "timeout_waiting_for_dg_response"]
    /\ runq' = Tail(runq)
    /\ UNCHANGED <<dst, waitingClients, pending, result, number, answered, writes>>

\* Mutant: the whole waiting list but the first client is forgotten.
HandOver_DropRest(c, q, after) ==
    IF waitingClients[c] = << >>
    THEN UNCHANGED waitingClients /\ runq' = q /\ crashed' = after
    ELSE /\ waitingClients' = [waitingClients EXCEPT ![c] = << >>]
         /\ runq' = Append(q, Flow(Head(waitingClients[c])))
         /\ crashed' = after

\* unregister_response_handler() after sendPending_ = 0: the first waiting
\* client inherits the others and is notified.  q is the rest of the queue,
\* after the assertion that fails next in the caller, or "no".
HandOver(c, q, after) ==
    IF waitingClients[c] = << >>
    THEN UNCHANGED waitingClients /\ runq' = q /\ crashed' = after
    ELSE LET w == Head(waitingClients[c]) IN
         /\ waitingClients' = [waitingClients EXCEPT
                                  ![w] = Tail(waitingClients[c]),
                                  ![c] = waitingClients[w]]
         /\ runq' = Append(q, Flow(w))
         /\ crashed' = IF waitingClients[w] # << >> THEN "hand_off"
                       ELSE IF InRunq(Flow(w)) THEN "insert"
                       ELSE after

\* Mutant: the flow that timed out keeps its turn.
TimeoutWaiting_KeepTurn(c) ==
    /\ crashed = "no" /\ runq # << >> /\ Head(runq) = Flow(c)
    /\ state[c] = "timeout_waiting_for_dg_response"
    /\ isSleeping' = isSleeping \ {c}
    /\ sendPending' = sendPending \ {c}
    /\ runq' = Tail(runq)
    /\ result' = [result EXCEPT ![c] = @ \cup {"PERMANENT_ERROR", "TIMEOUT"}]
    /\ pending' = pending \ {c}
    /\ state' = [state EXCEPT ![c] = "terminated"]
    /\ UNCHANGED <<timer, dst, waitingClients, number, net, answered, writes, crashed>>

\* timeout_waiting_for_dg_response() and, by call_immediately(), the
\* finalization.  The datagram is given up; its answer may still come, and
\* whoever is sending to the destination then takes it.
TimeoutWaiting(c) ==
    /\ crashed = "no" /\ runq # << >> /\ Head(runq) = Flow(c)
    /\ state[c] = "timeout_waiting_for_dg_response"
    /\ isSleeping' = isSleeping \ {c}
    /\ sendPending' = sendPending \ {c}
    /\ HandOver(c, Tail(runq), "no")
    /\ result' = [result EXCEPT ![c] = @ \cup {"PERMANENT_ERROR", "TIMEOUT"}]
    /\ pending' = pending \ {c}
    /\ state' = [state EXCEPT ![c] = "terminated"]
    /\ UNCHANGED <<timer, dst, number, net, answered, writes>>

\* datagram_finalize() after an answer.
Finalize(c) ==
    /\ crashed = "no" /\ runq # << >> /\ Head(runq) = Flow(c)
    /\ state[c] = "datagram_finalize"
    /\ crashed' = IF c \in sendPending \/ c \notin pending THEN "finalize"
                  ELSE "no"
    /\ pending' = pending \ {c}
    /\ state' = [state EXCEPT ![c] = "terminated"]
    /\ runq' = Tail(runq)
    /\ UNCHANGED <<timer, dst, sendPending, isSleeping, waitingClients, result,
                   number, net, answered, writes>>

\* stop_waiting_for_response(): unregister and hand over, trigger the timer,
\* restart the flow at datagram_finalize.  trigger() leaves an expired timer
\* alone and asserts that it is active otherwise; an active one expires next.
StopWaiting(c) ==
    /\ sendPending' = sendPending \ {c}
    /\ isSleeping' = isSleeping \ {c}
    /\ HandOver(c, runq, IF c \in isSleeping /\ timer[c] = "idle"
                         THEN "trigger" ELSE "no")
    /\ state' = [state EXCEPT ![c] = "datagram_finalize"]
    /\ timer' = timer

\* The answers of the destination: Datagram OK, and Datagram Rejected (or
\* Terminate Due To Error, Optional Interaction Rejected) with an error code
\* that has the permanent bit, the resend bit, or neither.
Answers == {"OK", "ERR_PERMANENT", "ERR_RESEND", "ERR_NO_FLAG"}

\* handle_response(): what result_ shows; an error is always visible.
Verdict(r) ==
    CASE r = "OK" -> "OPERATION_SUCCESS"
      [] r = "ERR_RESEND" -> "RESEND_OK"
      [] OTHER -> "PERMANENT_ERROR"

\* Mutant: the source of the answer is not compared with dst_.
HandleResponse_AnySource(c, n, r) ==
    /\ crashed = "no"
    /\ c \in sendPending
    /\ result' = [result EXCEPT ![c] = @ \cup {Verdict(r)}]
    /\ answered' = [answered EXCEPT ![c] = @ \cup {n}]
    /\ net' = net \ {n}
    /\ StopWaiting(c)
    /\ UNCHANGED <<dst, pending, number, writes>>

\* handle_response(): an answer r to the datagram n, from the destination of
\* c to the source node all clients share.  It does not say which datagram it
\* is for: n may be one that its sender, c or another client, has given up.
HandleResponse(c, n, r) ==
    /\ crashed = "no"
    /\ c \in sendPending /\ n.to = dst[c]
    /\ result' = [result EXCEPT ![c] = @ \cup {Verdict(r)}]
    /\ answered' = [answered EXCEPT ![c] = @ \cup {n}]
    /\ net' = net \ {n}
    /\ StopWaiting(c)
    /\ UNCHANGED <<dst, pending, number, writes>>

\* handle_response(): Initialization Complete, the destination has rebooted
\* and will answer nothing that was sent before.
HandleReboot(c) ==
    /\ crashed = "no"
    /\ c \in sendPending
    /\ result' = [result EXCEPT ![c] = @ \cup {"DST_REBOOT"}]
    /\ net' = {n \in net : n.to # dst[c]}
    /\ StopWaiting(c)
    /\ UNCHANGED <<dst, pending, number, answered, writes>>

\* An answer or a datagram is lost on the bus.
Lose(n) ==
    /\ crashed = "no"
    /\ net' = net \ {n}
    /\ UNCHANGED <<state, runq, timer, dst, sendPending, isSleeping,
                   waitingClients, pending, result, number, answered, writes,
                   crashed>>

\* ActiveTimers::get_next_timeout(): the timer has run down or was triggered.
TimerExpires(c) ==
    /\ crashed = "no"
    /\ timer[c] = "active"
    /\ timer' = [timer EXCEPT ![c] = "expired"]
    /\ runq' = Append(runq, TimerOf(c))
    /\ UNCHANGED <<state, dst, sendPending, isSleeping, waitingClients, pending,
                   result, number, net, answered, writes, crashed>>

\* Timer::run(), StateFlowTimer::timeout(): notify the flow.
TimerRun(c) ==
    /\ crashed = "no" /\ runq # << >> /\ Head(runq) = TimerOf(c)
    /\ timer' = [timer EXCEPT ![c] = "idle"]
    /\ runq' = Append(Tail(runq), Flow(c))
    /\ crashed' = IF InRunq(Flow(c)) THEN "insert" ELSE "no"
    /\ UNCHANGED <<state, dst, sendPending, isSleeping, waitingClients, pending,
                   result, number, net, answered, writes>>
-----------------------------------------------------------------------------
Run == \E c \in Clients : \/ WaitForTurn(c) \/ DoSend(c) \/ TimeoutWaiting(c)
                          \/ Finalize(c) \/ TimerRun(c)

Next ==
    \/ Run
    \/ \E c \in Clients, d \in Targets : WriteDatagram(c, d)
    \/ \E c \in Clients, n \in net, r \in Answers : HandleResponse(c, n, r)
    \/ \E c \in Clients : HandleReboot(c)
    \/ \E n \in net : Lose(n)
    \/ \E c \in Clients : TimerExpires(c)

Spec == Init /\ [][Next]_vars

\* The executor runs what is queued and timers expire.
Fairness == WF_vars(Run) /\ \A c \in Clients : WF_vars(TimerExpires(c))

FairSpec == Spec /\ Fairness
-----------------------------------------------------------------------------
\* Type correctness of the clients' state.
TypeOK ==
    /\ state \in [Clients -> States]
    /\ runq \in Seq({"flow", "timer"} \X Clients)
    /\ timer \in [Clients -> {"idle", "active", "expired"}]
    /\ dst \in [Clients -> Targets \cup {NoTarget}]
    /\ sendPending \subseteq Clients /\ isSleeping \subseteq Clients
    /\ waitingClients \in [Clients -> Seq(Clients)]
    /\ pending \subseteq Clients
    /\ result \in [Clients -> SUBSET Outcomes]
    /\ number \in [Clients -> 0..MaxWrites]
    /\ net \subseteq Datagram
    /\ answered \in [Clients -> SUBSET Datagram]
    /\ writes \in 0..MaxWrites
    /\ crashed \in Asserts

\* "Ensures that there is no other datagram client with the same src:dst pair.
\* This is required by the standard." (DatagramImpl.hxx:112): over any sequence
\* of hand-overs, timeouts and reboots at most one client has an open datagram
\* to a destination.
OnePerTarget ==
    \A c, e \in sendPending : dst[c] = dst[e] => c = e

\* The client c has finished its datagram and reports an outcome.
Reports(c) == state[c] = "terminated" /\ c \notin pending /\ dst[c] # NoTarget

\* The outcome of c is what one answer said.
AnswerOutcome(c) ==
    /\ result[c] \in {{"OPERATION_SUCCESS"}, {"PERMANENT_ERROR"}, {"RESEND_OK"}}
    /\ \E n \in Datagram : answered[c] = {n}

\* A client reports exactly one outcome, whatever races there are between the
\* answer, the reboot and the timeout, and when it is that of an answer, one
\* answer made it: no second one is taken while the first is being finalized,
\* and a timeout or a reboot is not reported over an answer.
OneOutcome ==
    \A c \in Clients : Reports(c) =>
        \/ AnswerOutcome(c)
        \/ /\ result[c] \in {{"PERMANENT_ERROR", "TIMEOUT"}, {"DST_REBOOT"}}
           /\ answered[c] = {}

\* An answer names its source only (handle_response()), so a client can take the
\* late answer to a datagram, its own or another client's, that was given up.
\* It never takes the answer another client still waits for: what it took came
\* from its own destination and whoever sent the datagram waits no longer.  With
\* the destination as the only key, mutual exclusion must see to that.
NoStolenAnswer ==
    /\ OneOutcome
    /\ \A c \in Clients : \A n \in answered[c] :
          n.to = dst[c] /\ \A e \in Clients : ~WaitsFor(e, n)

\* The other assertions hold: no flow is queued twice, a timer is idle when a
\* datagram starts it, and a flow that finalizes is unregistered and pending.
OtherAsserts == crashed \notin {"insert", "start", "finalize"}

\* A finished client has left nothing behind that could run it, wake it or
\* keep others waiting on it: no timer, no queue entry, no waiting client, no
\* handler.  The next write_datagram() relies on it, and so do the assertions.
NothingLeftBehind ==
    /\ OtherAsserts
    /\ \A c \in Clients : state[c] = "terminated" /\ crashed = "no" =>
          /\ timer[c] = "idle"
          /\ ~InRunq(Flow(c)) /\ ~InRunq(TimerOf(c))
          /\ waitingClients[c] = << >>
          /\ c \notin sendPending \cup isSleeping

\* Every datagram handed to a client is finished, with a result, unless an
\* assertion stops the program.
EveryDatagramFinishes ==
    \A c \in Clients : c \in pending ~> (state[c] = "terminated" \/ crashed # "no")

\* The HASSERT(c->waitingClients_.empty()) of the hand-over holds.
HandOverAssert == crashed # "hand_off"

\* Timer::trigger()'s HASSERT(isActive_) holds when an answer stops the wait.
TriggerAssert == crashed # "trigger"
=============================================================================

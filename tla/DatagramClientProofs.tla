------------------------ MODULE DatagramClientProofs ------------------------
(***************************************************************************)
(* For any number of clients, destinations and datagrams: the mutual       *)
(* exclusion of clients with the same destination, and what follows from   *)
(* it: no client takes the answer another one still waits for.             *)
(*                                                                         *)
(* OnePerTarget is not inductive by itself: write_datagram() changes dst_, *)
(* which must not happen to a client that is registered.  PendingWaits     *)
(* adds that a registered client is waiting for its answer.  AnswerInv     *)
(* then relates the datagrams under way to the registered clients, and     *)
(* PlaceInv says where a client is in each state of its flow: in the queue,*)
(* with its timer or in the list of another client, and never in two.      *)
(***************************************************************************)
EXTENDS DatagramClient, TLAPS

\* A client has handlers registered only while it waits for the answer: every
\* way out of the wait unregisters them first.
PendingWaits ==
    \A c \in sendPending : state[c] = "timeout_waiting_for_dg_response"

\* The part of the types that the exclusion needs.
Typed ==
    /\ state \in [Clients -> States]
    /\ dst \in [Clients -> Targets \cup {NoTarget}]
    /\ sendPending \subseteq Clients

TurnInv == Typed /\ PendingWaits /\ OnePerTarget

\* How a step changes what the exclusion is about: c starts another datagram,
\* c gets the turn, c gives it back, or nothing.
NewDatagram(c) ==
    /\ state[c] = "terminated"
    /\ state' = [state EXCEPT ![c] = "start_send"]
    /\ \E d \in Targets : dst' = [dst EXCEPT ![c] = d]
    /\ sendPending' = sendPending
GetTurn(c) ==
    /\ Holders(c) = {}
    /\ state' = [state EXCEPT ![c] = "timeout_waiting_for_dg_response"]
    /\ dst' = dst
    /\ sendPending' = sendPending \cup {c}
GiveTurn(c) ==
    /\ \E s \in {"terminated", "datagram_finalize"} : state' = [state EXCEPT ![c] = s]
    /\ dst' = dst
    /\ sendPending' = sendPending \ {c}
EndFlow(c) ==
    /\ state[c] = "datagram_finalize"
    /\ state' = [state EXCEPT ![c] = "terminated"]
    /\ dst' = dst /\ sendPending' = sendPending
TurnStep ==
    \/ \E c \in Clients : NewDatagram(c) \/ GetTurn(c) \/ GiveTurn(c) \/ EndFlow(c)
    \/ UNCHANGED <<state, dst, sendPending>>

\* Every action of the clients is one of these four kinds of step.
LEMMA StepKinds == [Next]_vars => TurnStep
<1> SUFFICES ASSUME [Next]_vars PROVE TurnStep
  OBVIOUS
<1>1. CASE \E c \in Clients, d \in Targets : WriteDatagram(c, d)
  <2> PICK c \in Clients, d \in Targets : WriteDatagram(c, d)
    BY <1>1
  <2>1. NewDatagram(c)
    BY DEF WriteDatagram, NewDatagram
  <2> QED BY <2>1 DEF TurnStep
<1>2. CASE Run
  <2> PICK c \in Clients : \/ WaitForTurn(c) \/ DoSend(c) \/ TimeoutWaiting(c)
                           \/ Finalize(c) \/ TimerRun(c)
    BY <1>2 DEF Run
  <2>1. CASE WaitForTurn(c)
    BY <2>1 DEF WaitForTurn, TurnStep
  <2>2. CASE DoSend(c)
    <3>1. GetTurn(c)
      BY <2>2 DEF DoSend, GetTurn
    <3> QED BY <3>1 DEF TurnStep
  <2>3. CASE TimeoutWaiting(c)
    <3>1. GiveTurn(c)
      BY <2>3 DEF TimeoutWaiting, GiveTurn
    <3> QED BY <3>1 DEF TurnStep
  <2>4. CASE Finalize(c)
    <3>1. EndFlow(c)
      BY <2>4 DEF Finalize, EndFlow
    <3> QED BY <3>1 DEF TurnStep
  <2>5. CASE TimerRun(c)
    BY <2>5 DEF TimerRun, TurnStep
  <2> QED BY <2>1, <2>2, <2>3, <2>4, <2>5
<1>3. CASE \E c \in Clients, n \in net, r \in Answers : HandleResponse(c, n, r)
  <2> PICK c \in Clients, n \in net, r \in Answers : HandleResponse(c, n, r)
    BY <1>3
  <2>1. GiveTurn(c)
    BY DEF HandleResponse, StopWaiting, GiveTurn
  <2> QED BY <2>1 DEF TurnStep
<1>4. CASE \E c \in Clients : HandleReboot(c)
  <2> PICK c \in Clients : HandleReboot(c)
    BY <1>4
  <2>1. GiveTurn(c)
    BY DEF HandleReboot, StopWaiting, GiveTurn
  <2> QED BY <2>1 DEF TurnStep
<1>5. CASE \E n \in net : Lose(n)
  BY <1>5 DEF Lose, TurnStep
<1>6. CASE \E c \in Clients : TimerExpires(c)
  BY <1>6 DEF TimerExpires, TurnStep
<1>7. CASE UNCHANGED vars
  BY <1>7 DEF vars, TurnStep
<1> QED BY <1>1, <1>2, <1>3, <1>4, <1>5, <1>6, <1>7 DEF Next

\* Each kind of step keeps the exclusion.
LEMMA TurnInvInductive == TurnInv /\ [Next]_vars => TurnInv'
<1> SUFFICES ASSUME TurnInv, [Next]_vars PROVE TurnInv'
  OBVIOUS
<1>0. TurnStep
  BY StepKinds
<1>1. ASSUME NEW c \in Clients, NewDatagram(c) PROVE TurnInv'
  <2>1. c \notin sendPending
    BY <1>1 DEF TurnInv, PendingWaits, NewDatagram
  <2>2. \A e \in sendPending : state'[e] = state[e] /\ dst'[e] = dst[e]
    BY <1>1, <2>1 DEF TurnInv, Typed, NewDatagram
  <2>3. Typed'
    BY <1>1 DEF TurnInv, Typed, NewDatagram, States
  <2> QED BY <1>1, <2>2, <2>3 DEF TurnInv, PendingWaits, OnePerTarget, NewDatagram
<1>2. ASSUME NEW c \in Clients, GetTurn(c) PROVE TurnInv'
  <2>1. Typed'
    BY <1>2 DEF TurnInv, Typed, GetTurn, States
  <2>2. PendingWaits'
    BY <1>2 DEF TurnInv, Typed, PendingWaits, GetTurn
  <2>3. \A e \in sendPending : dst[e] # dst[c]
    BY <1>2 DEF GetTurn, Holders
  <2>4. OnePerTarget'
    BY <1>2, <2>3 DEF TurnInv, OnePerTarget, GetTurn
  <2> QED BY <2>1, <2>2, <2>4 DEF TurnInv
<1>3. ASSUME NEW c \in Clients, GiveTurn(c) PROVE TurnInv'
  <2>1. Typed'
    BY <1>3 DEF TurnInv, Typed, GiveTurn, States
  <2>2. PendingWaits'
    BY <1>3 DEF TurnInv, Typed, PendingWaits, GiveTurn
  <2>3. OnePerTarget'
    BY <1>3 DEF TurnInv, OnePerTarget, GiveTurn
  <2> QED BY <2>1, <2>2, <2>3 DEF TurnInv
<1>4. ASSUME NEW c \in Clients, EndFlow(c) PROVE TurnInv'
  <2>1. c \notin sendPending
    BY <1>4 DEF TurnInv, PendingWaits, EndFlow
  <2>2. Typed' /\ PendingWaits'
    BY <1>4, <2>1 DEF TurnInv, Typed, PendingWaits, EndFlow, States
  <2>3. OnePerTarget'
    BY <1>4 DEF TurnInv, OnePerTarget, EndFlow
  <2> QED BY <2>2, <2>3 DEF TurnInv
<1>5. CASE UNCHANGED <<state, dst, sendPending>>
  BY <1>5 DEF TurnInv, Typed, PendingWaits, OnePerTarget
<1> QED BY <1>0, <1>1, <1>2, <1>3, <1>4, <1>5 DEF TurnStep

\* No two clients ever have an open datagram to the same destination
\* (acquire_srcdst_lock() and unregister_response_handler()), for any number
\* of clients and destinations.
THEOREM MutualExclusion == Spec => []OnePerTarget
<1>1. Init => TurnInv
  BY DEF Init, TurnInv, Typed, PendingWaits, OnePerTarget, States
<1>2. TurnInv /\ [Next]_vars => TurnInv'
  BY TurnInvInductive
<1>3. TurnInv => OnePerTarget
  BY DEF TurnInv
<1> QED BY <1>1, <1>2, <1>3, PTL DEF Spec
-----------------------------------------------------------------------------
\* The datagrams under way or taken: counted among the writes of their sender,
\* and not of the number the sender gives to the one it is about to send.
Numbered(n) ==
    /\ n.no <= number[n.from]
    /\ state[n.from] = "start_send" => n.no # number[n.from]
Numbers ==
    /\ \A c \in Clients : number[c] <= writes
    /\ \A n \in net : Numbered(n)
    /\ \A c \in Clients : \A n \in answered[c] : Numbered(n)

\* A datagram its sender waits for was sent to the destination of that client.
OpenGoThere == \A n \in net : WaitsFor(n.from, n) => n.to = dst[n.from]

\* What result_ and the answers taken are in each state of the flow.
ResultOfState ==
    \A c \in Clients :
        /\ state[c] \in {"start_send", "timeout_waiting_for_dg_response"} =>
              result[c] = {} /\ answered[c] = {} /\ dst[c] \in Targets
        /\ state[c] = "datagram_finalize" =>
              \/ AnswerOutcome(c)
              \/ result[c] = {"DST_REBOOT"} /\ answered[c] = {}
        /\ state[c] = "terminated" /\ dst[c] # NoTarget =>
              \/ AnswerOutcome(c)
              \/ /\ result[c] \in {{"PERMANENT_ERROR", "TIMEOUT"}, {"DST_REBOOT"}}
                 /\ answered[c] = {}

\* What a client took came from its destination, and nobody waits for it.
TakenIsFree ==
    \A c \in Clients : \A n \in answered[c] :
        n.to = dst[c] /\ \A e \in Clients : ~WaitsFor(e, n)

AnswerInv ==
    /\ TypeOK /\ PendingWaits /\ OnePerTarget
    /\ Numbers /\ OpenGoThere /\ ResultOfState /\ TakenIsFree

\* The queue after its first entry was taken, and with another one added.
LEMMA QueueTypes ==
    ASSUME TypeOK
    PROVE  /\ runq # << >> => Tail(runq) \in Seq({"flow", "timer"} \X Clients)
           /\ \A q \in Seq({"flow", "timer"} \X Clients), c \in Clients :
                 Append(q, Flow(c)) \in Seq({"flow", "timer"} \X Clients)
                 /\ Append(q, TimerOf(c)) \in Seq({"flow", "timer"} \X Clients)
BY DEF TypeOK, Flow, TimerOf

\* The hand-over moves waiting clients from one list to another.
LEMMA HandOverTypes ==
    ASSUME TypeOK, NEW c \in Clients, NEW q \in Seq({"flow", "timer"} \X Clients),
           NEW after \in Asserts, HandOver(c, q, after)
    PROVE  /\ waitingClients' \in [Clients -> Seq(Clients)]
           /\ runq' \in Seq({"flow", "timer"} \X Clients)
           /\ crashed' \in Asserts
<1>1. CASE waitingClients[c] = << >>
  BY <1>1 DEF HandOver, TypeOK
<1>2. CASE waitingClients[c] # << >>
  <2> DEFINE w == Head(waitingClients[c])
  <2>1. w \in Clients /\ Tail(waitingClients[c]) \in Seq(Clients)
    BY <1>2 DEF TypeOK
  <2>2. /\ waitingClients' = [waitingClients EXCEPT ![w] = Tail(waitingClients[c]),
                                                   ![c] = waitingClients[w]]
        /\ runq' = Append(q, Flow(w))
        /\ crashed' \in {"hand_off", "insert", after}
    BY <1>2 DEF HandOver
  <2>3. runq' \in Seq({"flow", "timer"} \X Clients)
    BY <2>1, <2>2, QueueTypes
  <2> HIDE DEF w
  <2>4. waitingClients' \in [Clients -> Seq(Clients)]
    BY <2>1, <2>2 DEF TypeOK
  <2> QED BY <2>2, <2>3, <2>4 DEF Asserts
<1> QED BY <1>1, <1>2

\* An answer, the destination's reboot: the flow goes on at datagram_finalize.
LEMMA StopTypes ==
    ASSUME TypeOK, NEW c \in Clients, StopWaiting(c)
    PROVE  /\ waitingClients' \in [Clients -> Seq(Clients)]
           /\ runq' \in Seq({"flow", "timer"} \X Clients)
           /\ crashed' \in Asserts
           /\ state' \in [Clients -> States] /\ timer' = timer
           /\ sendPending' \subseteq Clients /\ isSleeping' \subseteq Clients
<1> DEFINE after == IF c \in isSleeping /\ timer[c] = "idle" THEN "trigger" ELSE "no"
<1>1. after \in Asserts /\ runq \in Seq({"flow", "timer"} \X Clients)
  BY DEF Asserts, TypeOK
<1>2. HandOver(c, runq, after)
  BY DEF StopWaiting
<1> HIDE DEF after
<1>3. /\ waitingClients' \in [Clients -> Seq(Clients)]
      /\ runq' \in Seq({"flow", "timer"} \X Clients)
      /\ crashed' \in Asserts
  BY <1>1, <1>2, HandOverTypes
<1> QED BY <1>3 DEF StopWaiting, TypeOK, States

\* How a step changes the clients' answers: c is given another datagram, sends
\* it, gives its turn back with an outcome, or reports it.
Others(c, f, g) == \A e \in Clients \ {c} : g[e] = f[e]
Given(c) ==
    /\ state[c] = "terminated" /\ state'[c] = "start_send"
    /\ dst'[c] \in Targets /\ result'[c] = {} /\ answered'[c] = {}
    /\ number'[c] = number[c] + 1 /\ writes' = writes + 1
    /\ Others(c, dst, dst') /\ Others(c, result, result')
    /\ Others(c, answered, answered') /\ Others(c, number, number')
    /\ UNCHANGED <<sendPending, net>>
Sent(c) ==
    /\ state[c] = "start_send" /\ state'[c] = "timeout_waiting_for_dg_response"
    /\ sendPending' = sendPending \cup {c}
    /\ \A e \in sendPending : dst[e] # dst[c]
    /\ net' = net \cup {[from |-> c, to |-> dst[c], no |-> number[c]]}
    /\ UNCHANGED <<dst, result, answered, number, writes>>
Settled(c) ==
    /\ state[c] = "timeout_waiting_for_dg_response"
    /\ sendPending' = sendPending \ {c}
    /\ net' \subseteq net
    /\ Others(c, result, result') /\ Others(c, answered, answered')
    /\ \/ /\ result'[c] = {"PERMANENT_ERROR", "TIMEOUT"}
          /\ state'[c] = "terminated" /\ answered' = answered
       \/ /\ result'[c] = {"DST_REBOOT"}
          /\ state'[c] = "datagram_finalize" /\ answered' = answered
       \/ /\ c \in sendPending
          /\ result'[c] \in {{"OPERATION_SUCCESS"}, {"PERMANENT_ERROR"}, {"RESEND_OK"}}
          /\ state'[c] = "datagram_finalize"
          /\ \E n \in net : n.to = dst[c] /\ answered'[c] = {n}
    /\ UNCHANGED <<dst, number, writes>>
Reported(c) ==
    /\ state[c] = "datagram_finalize" /\ state'[c] = "terminated"
    /\ UNCHANGED <<sendPending, dst, result, answered, number, net, writes>>

Quiet ==
    /\ net' \subseteq net
    /\ UNCHANGED <<state, sendPending, dst, result, answered, number, writes>>
AnswerKind ==
    \/ \E c \in Clients : /\ Others(c, state, state')
                          /\ Given(c) \/ Sent(c) \/ Settled(c) \/ Reported(c)
    \/ Quiet

\* The application starts a datagram.
LEMMA WriteKind ==
    ASSUME AnswerInv, NEW c \in Clients, NEW d \in Targets, WriteDatagram(c, d)
    PROVE  TypeOK' /\ AnswerKind
<1>1. TypeOK'
  <2>1. Append(runq, Flow(c)) \in Seq({"flow", "timer"} \X Clients)
    BY QueueTypes DEF AnswerInv, TypeOK
  <2>2. writes' \in 0..MaxWrites
    BY ClientAssumption DEF WriteDatagram, AnswerInv, TypeOK
  <2>3. number[c] \in 0..MaxWrites /\ number[c] <= writes /\ writes < MaxWrites
        /\ writes \in 0..MaxWrites
    BY DEF AnswerInv, TypeOK, Numbers, WriteDatagram
  <2>4. number' \in [Clients -> 0..MaxWrites]
    <3>1. number[c] + 1 \in 0..MaxWrites
      BY <2>3, ClientAssumption
    <3> QED BY <3>1 DEF WriteDatagram, AnswerInv, TypeOK
  <2> QED BY <2>1, <2>2, <2>4 DEF WriteDatagram, AnswerInv, TypeOK, States
<1>2. Given(c) /\ Others(c, state, state')
  BY DEF WriteDatagram, Given, Others, AnswerInv, TypeOK
<1> QED BY <1>1, <1>2 DEF AnswerKind

\* A client gets the turn and sends, or waits for it.
LEMMA SendKind ==
    ASSUME AnswerInv, NEW c \in Clients, WaitForTurn(c) \/ DoSend(c)
    PROVE  TypeOK' /\ AnswerKind
<1>1. Tail(runq) \in Seq({"flow", "timer"} \X Clients)
  BY QueueTypes DEF AnswerInv, WaitForTurn, DoSend
<1>2. CASE WaitForTurn(c)
  <2>1. PICK h \in Holders(c) :
            waitingClients' = [waitingClients EXCEPT ![h] = <<c>> \o @]
    BY <1>2 DEF WaitForTurn
  <2>2. waitingClients' \in [Clients -> Seq(Clients)]
    <3>1. waitingClients \in [Clients -> Seq(Clients)] /\ h \in Clients
      BY DEF AnswerInv, TypeOK, Holders
    <3>2. <<c>> \o waitingClients[h] \in Seq(Clients)
      BY <3>1
    <3> QED BY <2>1, <3>1, <3>2
  <2>3. TypeOK'
    BY <1>1, <1>2, <2>2 DEF WaitForTurn, AnswerInv, TypeOK
  <2> QED BY <1>2, <2>3 DEF WaitForTurn, AnswerKind, Quiet
<1>3. CASE DoSend(c)
  <2>1. dst[c] \in Targets /\ number[c] \in 0..MaxWrites
    BY <1>3 DEF DoSend, AnswerInv, ResultOfState, TypeOK
  <2>2. [from |-> c, to |-> dst[c], no |-> number[c]] \in Datagram
    BY <2>1 DEF Datagram
  <2>3. TypeOK'
    BY <1>1, <1>3, <2>2 DEF DoSend, AnswerInv, TypeOK, States, Asserts
  <2>4. Sent(c) /\ Others(c, state, state')
    BY <1>3 DEF DoSend, Sent, Others, Holders, AnswerInv, TypeOK
  <2> QED BY <2>3, <2>4 DEF AnswerKind
<1> QED BY <1>2, <1>3

\* The client times out.
LEMMA TimeoutKind ==
    ASSUME AnswerInv, NEW c \in Clients, TimeoutWaiting(c)
    PROVE  TypeOK' /\ AnswerKind
<1>1. TypeOK /\ Tail(runq) \in Seq({"flow", "timer"} \X Clients) /\ "no" \in Asserts
  BY QueueTypes DEF AnswerInv, TimeoutWaiting, Asserts
<1>2. /\ waitingClients' \in [Clients -> Seq(Clients)]
      /\ runq' \in Seq({"flow", "timer"} \X Clients)
      /\ crashed' \in Asserts
  BY <1>1, HandOverTypes DEF TimeoutWaiting
<1>3. TypeOK'
  BY <1>1, <1>2 DEF TimeoutWaiting, TypeOK, States, Outcomes
<1>4. Settled(c) /\ Others(c, state, state')
  BY DEF TimeoutWaiting, Settled, Others, AnswerInv, ResultOfState, TypeOK
<1> QED BY <1>3, <1>4 DEF AnswerKind

\* An answer from the destination of c.
LEMMA ResponseKind ==
    ASSUME AnswerInv, NEW c \in Clients, NEW n \in net, NEW r \in Answers,
           HandleResponse(c, n, r)
    PROVE  TypeOK' /\ AnswerKind
<1>1. TypeOK /\ c \in sendPending /\ n.to = dst[c] /\ n \in Datagram
  BY DEF AnswerInv, HandleResponse, TypeOK
<1>2. /\ state[c] = "timeout_waiting_for_dg_response"
      /\ result[c] = {} /\ answered[c] = {}
  BY <1>1 DEF AnswerInv, PendingWaits, ResultOfState
<1>3. /\ waitingClients' \in [Clients -> Seq(Clients)]
      /\ runq' \in Seq({"flow", "timer"} \X Clients)
      /\ crashed' \in Asserts
      /\ state' \in [Clients -> States] /\ timer' = timer
      /\ sendPending' \subseteq Clients /\ isSleeping' \subseteq Clients
  BY <1>1, StopTypes DEF HandleResponse
<1>4. Verdict(r) \in {"OPERATION_SUCCESS", "PERMANENT_ERROR", "RESEND_OK"}
  BY DEF Verdict
<1>5. TypeOK'
  <2>1. result' \in [Clients -> SUBSET Outcomes]
    BY <1>1, <1>4 DEF HandleResponse, TypeOK, Outcomes
  <2>2. answered' \in [Clients -> SUBSET Datagram]
    BY <1>1 DEF HandleResponse, TypeOK
  <2>3. net' \subseteq Datagram
    BY <1>1 DEF HandleResponse, TypeOK
  <2> QED BY <1>1, <1>3, <2>1, <2>2, <2>3 DEF HandleResponse, TypeOK
<1>6. Settled(c) /\ Others(c, state, state')
  <2>1. answered'[c] = {n} /\ result'[c] = {Verdict(r)}
    BY <1>1, <1>2 DEF HandleResponse, TypeOK
  <2>2. Others(c, result, result') /\ Others(c, answered, answered')
    BY <1>1 DEF HandleResponse, Others, TypeOK
  <2>3. /\ state'[c] = "datagram_finalize" /\ Others(c, state, state')
        /\ sendPending' = sendPending \ {c}
    BY <1>1 DEF HandleResponse, StopWaiting, Others, TypeOK
  <2> QED BY <1>1, <1>2, <1>4, <2>1, <2>2, <2>3 DEF HandleResponse, Settled
<1> QED BY <1>5, <1>6 DEF AnswerKind

\* The destination reboots: what was sent to it is gone.
LEMMA RebootKind ==
    ASSUME AnswerInv, NEW c \in Clients, HandleReboot(c)
    PROVE  TypeOK' /\ AnswerKind
<1>1. TypeOK /\ c \in sendPending
  BY DEF AnswerInv, HandleReboot
<1>2. state[c] = "timeout_waiting_for_dg_response" /\ result[c] = {}
  BY <1>1 DEF AnswerInv, PendingWaits, ResultOfState
<1>3. /\ waitingClients' \in [Clients -> Seq(Clients)]
      /\ runq' \in Seq({"flow", "timer"} \X Clients)
      /\ crashed' \in Asserts
      /\ state' \in [Clients -> States] /\ timer' = timer
      /\ sendPending' \subseteq Clients /\ isSleeping' \subseteq Clients
  BY <1>1, StopTypes DEF HandleReboot
<1>4. TypeOK'
  BY <1>1, <1>3 DEF HandleReboot, TypeOK, Outcomes
<1>5. Settled(c) /\ Others(c, state, state')
  BY <1>1, <1>2 DEF HandleReboot, StopWaiting, Settled, Others, TypeOK
<1> QED BY <1>4, <1>5 DEF AnswerKind

\* The end of a flow, its timer, and a loss on the bus.
LEMMA QuietKind ==
    ASSUME AnswerInv,
           \/ \E c \in Clients : Finalize(c) \/ TimerRun(c) \/ TimerExpires(c)
           \/ \E n \in net : Lose(n)
    PROVE  TypeOK' /\ AnswerKind
<1>1. TypeOK /\ (runq # << >> => Tail(runq) \in Seq({"flow", "timer"} \X Clients))
      /\ \A q \in Seq({"flow", "timer"} \X Clients), c \in Clients :
            /\ Append(q, Flow(c)) \in Seq({"flow", "timer"} \X Clients)
            /\ Append(q, TimerOf(c)) \in Seq({"flow", "timer"} \X Clients)
  BY QueueTypes DEF AnswerInv
<1>2. ASSUME NEW c \in Clients, Finalize(c) PROVE TypeOK' /\ AnswerKind
  <2>1. TypeOK'
    BY <1>1, <1>2 DEF Finalize, TypeOK, States, Asserts
  <2>2. Reported(c) /\ Others(c, state, state')
    BY <1>1, <1>2 DEF Finalize, Reported, Others, TypeOK
  <2> QED BY <2>1, <2>2 DEF AnswerKind
<1>3. ASSUME NEW c \in Clients, TimerRun(c) \/ TimerExpires(c)
      PROVE  TypeOK' /\ AnswerKind
  <2>1. runq' \in Seq({"flow", "timer"} \X Clients)
    <3>1. \/ runq' = Append(Tail(runq), Flow(c)) /\ runq # << >>
          \/ runq' = Append(runq, TimerOf(c))
      BY <1>3 DEF TimerRun, TimerExpires
    <3>2. runq \in Seq({"flow", "timer"} \X Clients)
      BY <1>1 DEF TypeOK
    <3> QED BY <1>1, <3>1, <3>2
  <2>2. timer' \in [Clients -> {"idle", "active", "expired"}] /\ crashed' \in Asserts
    BY <1>1, <1>3 DEF TimerRun, TimerExpires, TypeOK, Asserts
  <2>3. UNCHANGED <<state, dst, sendPending, isSleeping, waitingClients, pending,
                    result, number, net, answered, writes>>
    BY <1>3 DEF TimerRun, TimerExpires
  <2>4. TypeOK'
    BY <1>1, <2>1, <2>2, <2>3 DEF TypeOK
  <2> QED BY <2>3, <2>4 DEF AnswerKind, Quiet
<1>4. ASSUME NEW n \in net, Lose(n) PROVE TypeOK' /\ AnswerKind
  BY <1>1, <1>4 DEF Lose, TypeOK, AnswerKind, Quiet
<1> QED BY <1>2, <1>3, <1>4

\* What a datagram under way or taken is numbered stays right.
LEMMA NumbersKept == AnswerInv /\ TypeOK' /\ AnswerKind => Numbers'
<1> SUFFICES ASSUME AnswerInv, TypeOK', AnswerKind PROVE Numbers'
  OBVIOUS
<1>1. /\ \A n \in Datagram : n.from \in Clients /\ n.no \in Nat
      /\ number \in [Clients -> Nat] /\ writes \in Nat /\ net \subseteq Datagram
      /\ \A e \in Clients : answered[e] \subseteq Datagram
  BY ClientAssumption DEF AnswerInv, TypeOK, Datagram
<1>2. ASSUME NEW c \in Clients, Others(c, state, state'), Given(c) PROVE Numbers'
  <2>1. \A n \in Datagram : Numbered(n) => Numbered(n)'
    BY <1>1, <1>2 DEF Numbered, Given, Others
  <2>2. \A e \in Clients : number'[e] <= writes'
    BY <1>1, <1>2 DEF AnswerInv, Numbers, Given, Others
  <2>3. \A e \in Clients : answered'[e] \subseteq answered[e]
    BY <1>2 DEF Given, Others
  <2> QED BY <1>1, <1>2, <2>1, <2>2, <2>3 DEF AnswerInv, Numbers, Given
<1>3. ASSUME NEW c \in Clients, Others(c, state, state'), Sent(c) PROVE Numbers'
  <2> DEFINE dg == [from |-> c, to |-> dst[c], no |-> number[c]]
  <2>1. \A n \in Datagram : Numbered(n) => Numbered(n)'
    BY <1>1, <1>3 DEF Numbered, Sent, Others
  <2>2. \A n \in Datagram : n = dg => Numbered(n)'
    BY <1>1, <1>3 DEF Numbered, Sent
  <2> HIDE DEF dg
  <2>3. net' \subseteq Datagram /\ net' = net \cup {dg}
    BY <1>3 DEF Sent, TypeOK, dg
  <2>4. \A n \in net' : Numbered(n)'
    <3>1. \A n \in net : Numbered(n)'
      BY <1>1, <2>1 DEF AnswerInv, Numbers
    <3> QED BY <2>2, <2>3, <3>1
  <2>5. UNCHANGED <<number, writes, answered>>
    BY <1>3 DEF Sent
  <2>6. \A e \in Clients : \A n \in answered[e] : Numbered(n)'
    BY <1>1, <2>1 DEF AnswerInv, Numbers
  <2> QED BY <2>4, <2>5, <2>6 DEF AnswerInv, Numbers
<1>4. ASSUME NEW c \in Clients, Others(c, state, state'), Settled(c) \/ Reported(c)
      PROVE  Numbers'
  <2>1. \A n \in Datagram : Numbered(n) => Numbered(n)'
    BY <1>1, <1>4 DEF Numbered, Settled, Reported, Others
  <2>2. net' \subseteq net /\ number' = number /\ writes' = writes
    BY <1>4 DEF Settled, Reported
  <2>3. \A e \in Clients : answered'[e] \subseteq answered[e] \cup net
    BY <1>4 DEF Settled, Reported, Others
  <2> QED BY <1>1, <2>1, <2>2, <2>3 DEF AnswerInv, Numbers
<1>5. CASE Quiet
  BY <1>5 DEF Quiet, AnswerInv, Numbers, Numbered
<1> QED BY <1>2, <1>3, <1>4, <1>5 DEF AnswerKind

\* What each client has taken stays a datagram nobody waits for.
LEMMA TakenKept == AnswerInv /\ AnswerKind => OpenGoThere' /\ TakenIsFree'
<1> SUFFICES ASSUME AnswerInv, AnswerKind PROVE OpenGoThere' /\ TakenIsFree'
  OBVIOUS
<1>1. /\ sendPending \subseteq Clients /\ net \subseteq Datagram
      /\ \A n \in Datagram : n.from \in Clients
      /\ \A e \in Clients : answered[e] \subseteq Datagram
  BY DEF AnswerInv, TypeOK, Datagram
<1>2. ASSUME NEW c \in Clients, Others(c, state, state'), Given(c)
      PROVE  OpenGoThere' /\ TakenIsFree'
  <2>1. c \notin sendPending
    BY <1>2 DEF AnswerInv, PendingWaits, Given
  <2>2. \A n \in Datagram, e \in Clients : WaitsFor(e, n)' => WaitsFor(e, n) /\ e # c
    BY <1>2, <2>1 DEF WaitsFor, Given, Others
  <2>3. /\ \A e \in Clients \ {c} : dst'[e] = dst[e] /\ answered'[e] = answered[e]
        /\ answered'[c] = {} /\ net' = net
    BY <1>2 DEF Given, Others
  <2> QED BY <1>1, <2>2, <2>3 DEF AnswerInv, OpenGoThere, TakenIsFree
<1>3. ASSUME NEW c \in Clients, Others(c, state, state'), Sent(c)
      PROVE  OpenGoThere' /\ TakenIsFree'
  <2> DEFINE dg == [from |-> c, to |-> dst[c], no |-> number[c]]
  <2>1. \A n \in Datagram, e \in Clients :
            Numbered(n) /\ WaitsFor(e, n)' => WaitsFor(e, n)
    BY <1>3 DEF WaitsFor, Numbered, Sent
  <2>2. \A e \in Clients : \A n \in answered[e] : Numbered(n)
    BY DEF AnswerInv, Numbers
  <2>3. TakenIsFree'
    BY <1>1, <1>3, <2>1, <2>2 DEF AnswerInv, TakenIsFree, Sent
  <2>4. \A n \in net : Numbered(n)
    BY DEF AnswerInv, Numbers
  <2>5. dg.to = dst'[dg.from] /\ net' = net \cup {dg} /\ dst' = dst
    BY <1>3 DEF Sent
  <2> HIDE DEF dg
  <2>6. OpenGoThere'
    BY <1>1, <2>1, <2>4, <2>5 DEF AnswerInv, OpenGoThere
  <2> QED BY <2>3, <2>6
<1>4. ASSUME NEW c \in Clients, Others(c, state, state'), Settled(c)
      PROVE  OpenGoThere' /\ TakenIsFree'
  <2>1. \A n \in Datagram, e \in Clients : WaitsFor(e, n)' => WaitsFor(e, n) /\ e # c
    BY <1>4 DEF WaitsFor, Settled
  <2>2. dst' = dst /\ net' \subseteq net
    BY <1>4 DEF Settled
  <2>3. OpenGoThere'
    BY <1>1, <2>1, <2>2 DEF AnswerInv, OpenGoThere
  <2>4. CASE answered' = answered
    BY <1>1, <2>1, <2>2, <2>3, <2>4 DEF AnswerInv, TakenIsFree
  <2>5. CASE c \in sendPending /\ \E n \in net : n.to = dst[c] /\ answered'[c] = {n}
    <3>1. PICK n \in net : n.to = dst[c] /\ answered'[c] = {n}
      BY <2>5
    <3>2. \A e \in Clients : ~WaitsFor(e, n)'
      <4> SUFFICES ASSUME NEW e \in Clients, WaitsFor(e, n)' PROVE FALSE
        OBVIOUS
      <4>1. WaitsFor(e, n) /\ e # c /\ n.from = e /\ e \in sendPending
        BY <1>1, <2>1 DEF WaitsFor
      <4>2. dst[e] = dst[c]
        BY <3>1, <4>1 DEF AnswerInv, OpenGoThere
      <4> QED BY <2>5, <4>1, <4>2 DEF AnswerInv, OnePerTarget
    <3>3. \A e \in Clients \ {c} : answered'[e] = answered[e]
      BY <1>4 DEF Settled, Others
    <3>4. \A e \in Clients : \A m \in answered[e] :
              m.to = dst[e] /\ \A b \in Clients : ~WaitsFor(b, m)'
      BY <1>1, <2>1 DEF AnswerInv, TakenIsFree
    <3> QED BY <2>2, <2>3, <3>1, <3>2, <3>3, <3>4 DEF TakenIsFree
  <2> QED BY <1>4, <2>4, <2>5 DEF Settled
<1>5. ASSUME NEW c \in Clients, Reported(c) PROVE OpenGoThere' /\ TakenIsFree'
  BY <1>5 DEF Reported, AnswerInv, OpenGoThere, TakenIsFree, WaitsFor
<1>6. CASE Quiet
  BY <1>6 DEF Quiet, AnswerInv, OpenGoThere, TakenIsFree, WaitsFor
<1> QED BY <1>2, <1>3, <1>4, <1>5, <1>6 DEF AnswerKind

\* The outcome in result_ and the answers taken go together in every state.
LEMMA ResultKept == AnswerInv /\ AnswerKind => ResultOfState'
<1> SUFFICES ASSUME AnswerInv, AnswerKind PROVE ResultOfState'
  OBVIOUS
<1>1. ASSUME NEW c \in Clients, Others(c, state, state'), Given(c)
      PROVE  ResultOfState'
  BY <1>1 DEF AnswerInv, ResultOfState, AnswerOutcome, Given, Others
<1>2. ASSUME NEW c \in Clients, Others(c, state, state'), Sent(c)
      PROVE  ResultOfState'
  BY <1>2 DEF AnswerInv, ResultOfState, AnswerOutcome, Sent, Others
<1>3. ASSUME NEW c \in Clients, Others(c, state, state'), Settled(c)
      PROVE  ResultOfState'
  <2>1. answered[c] = {} /\ net \subseteq Datagram
    BY <1>3 DEF AnswerInv, TypeOK, ResultOfState, Settled
  <2>2. \A e \in Clients \ {c} : /\ state'[e] = state[e] /\ result'[e] = result[e]
                                 /\ answered'[e] = answered[e] /\ dst'[e] = dst[e]
    BY <1>3 DEF Settled, Others
  <2>3. \/ state'[c] = "terminated" /\ result'[c] = {"PERMANENT_ERROR", "TIMEOUT"}
           /\ answered'[c] = {}
        \/ state'[c] = "datagram_finalize" /\ result'[c] = {"DST_REBOOT"}
           /\ answered'[c] = {}
        \/ state'[c] = "datagram_finalize" /\ AnswerOutcome(c)'
    BY <1>3, <2>1 DEF Settled, AnswerOutcome
  <2> QED BY <2>2, <2>3 DEF AnswerInv, ResultOfState, AnswerOutcome
<1>4. ASSUME NEW c \in Clients, Others(c, state, state'), Reported(c)
      PROVE  ResultOfState'
  BY <1>4 DEF AnswerInv, ResultOfState, AnswerOutcome, Reported, Others
<1>5. CASE Quiet
  BY <1>5 DEF AnswerInv, ResultOfState, AnswerOutcome, Quiet
<1> QED BY <1>1, <1>2, <1>3, <1>4, <1>5 DEF AnswerKind

\* Every step keeps it.
LEMMA AnswerStep == AnswerInv /\ [Next]_vars => AnswerInv'
<1> SUFFICES ASSUME AnswerInv, [Next]_vars PROVE AnswerInv'
  OBVIOUS
<1>1. TypeOK' /\ AnswerKind
  <2>1. CASE UNCHANGED vars
    BY <2>1 DEF vars, AnswerInv, TypeOK, AnswerKind, Quiet
  <2>2. CASE Next
    BY <2>2, WriteKind, SendKind, TimeoutKind, ResponseKind, RebootKind, QuietKind
       DEF Next, Run
  <2> QED BY <2>1, <2>2
<1>2. PendingWaits' /\ OnePerTarget'
  <2>1. TurnInv
    BY DEF AnswerInv, TurnInv, Typed, TypeOK
  <2> QED BY <2>1, TurnInvInductive DEF TurnInv
<1> QED BY <1>1, <1>2, NumbersKept, TakenKept, ResultKept DEF AnswerInv

\* It holds before any datagram is sent.
LEMMA AnswerInit == Init => AnswerInv
<1> SUFFICES ASSUME Init PROVE AnswerInv
  OBVIOUS
<1>1. TypeOK
  BY ClientAssumption DEF Init, TypeOK, States, Asserts
<1> QED BY <1>1 DEF Init, AnswerInv, PendingWaits, OnePerTarget, Numbers, OpenGoThere,
                    ResultOfState, TakenIsFree

\* The clients, the executor's queue and the datagrams under way keep their
\* types (DatagramClientImpl).
THEOREM TypeCorrect == Spec => []TypeOK
<1>1. AnswerInv => TypeOK
  BY DEF AnswerInv
<1> QED BY <1>1, AnswerInit, AnswerStep, PTL DEF Spec

\* Every client reports one outcome, and when it is that of an answer, one answer
\* from its destination made it; a client takes the late answer to a datagram
\* that was given up, but never the one another client still waits for
\* (DatagramClientImpl::handle_response(), which compares nodes only).
THEOREM AnswersAreNotStolen == Spec => []NoStolenAnswer
<1>1. AnswerInv => NoStolenAnswer
  <2> SUFFICES ASSUME AnswerInv PROVE NoStolenAnswer
    OBVIOUS
  <2>1. OneOutcome
    BY DEF AnswerInv, ResultOfState, OneOutcome, Reports
  <2> QED BY <2>1 DEF AnswerInv, TakenIsFree, NoStolenAnswer
<1> QED BY <1>1, AnswerInit, AnswerStep, PTL DEF Spec
-----------------------------------------------------------------------------
Entry == {"flow", "timer"} \X Clients
Elem(x, q) == \E i \in 1..Len(q) : q[i] = x
Distinct(q) == \A i, j \in 1..Len(q) : q[i] = q[j] => i = j

\* c waits for its turn in the list of another client; in one list only, once.
Waits(c) == \E h \in Clients : Elem(c, waitingClients[h])
WaitsOnce ==
    \A h, g \in Clients : \A i \in 1..Len(waitingClients[h]), j \in 1..Len(waitingClients[g]) :
        waitingClients[h][i] = waitingClients[g][j] => h = g /\ i = j

\* Where a client is in each state of its flow: in the executor's queue, with
\* its timer, or in the list of another client.
Unregistered(c) == c \notin sendPending /\ c \notin isSleeping
Untimed(c) == timer[c] = "idle" /\ ~Elem(TimerOf(c), runq)
TimedOrQueued(c) ==
    /\ timer[c] = "idle" => ~Elem(TimerOf(c), runq)
    /\ timer[c] = "active" => ~Elem(TimerOf(c), runq) /\ ~Elem(Flow(c), runq)
    /\ timer[c] = "expired" => ~Elem(Flow(c), runq)
Place(c) ==
    /\ state[c] = "terminated" =>
          /\ Untimed(c) /\ ~Elem(Flow(c), runq) /\ ~Waits(c) /\ Unregistered(c)
          /\ waitingClients[c] = << >>
    /\ state[c] = "start_send" =>
          Untimed(c) /\ ~(Waits(c) /\ Elem(Flow(c), runq)) /\ Unregistered(c) /\ c \in pending
    /\ state[c] = "timeout_waiting_for_dg_response" =>
          /\ TimedOrQueued(c) /\ ~Waits(c) /\ c \in pending
          /\ c \in sendPending /\ c \in isSleeping
    /\ state[c] = "datagram_finalize" =>
          /\ TimedOrQueued(c) /\ ~Waits(c) /\ c \in pending /\ Unregistered(c)
          /\ waitingClients[c] = << >>

Places == Distinct(runq) /\ WaitsOnce /\ \A c \in Clients : Place(c)

PlaceInv == OtherAsserts /\ (crashed = "no" => Places)

\* The queue without its first entry.
LEMMA TailElems ==
    ASSUME NEW S, NEW q \in Seq(S), q # << >>, Distinct(q)
    PROVE  /\ Distinct(Tail(q)) /\ Elem(Head(q), q)
           /\ \A x : Elem(x, Tail(q)) <=> Elem(x, q) /\ x # Head(q)
<1>1. /\ Tail(q) \in Seq(S) /\ Len(Tail(q)) = Len(q) - 1 /\ Len(q) \in Nat /\ Len(q) >= 1
      /\ \A i \in 1..Len(q) - 1 : Tail(q)[i] = q[i + 1]
      /\ Head(q) = q[1]
  OBVIOUS
<1>2. Distinct(Tail(q)) /\ Elem(Head(q), q)
  BY <1>1 DEF Distinct, Elem
<1>3. ASSUME NEW x, Elem(x, Tail(q)) PROVE Elem(x, q) /\ x # Head(q)
  BY <1>1, <1>3 DEF Distinct, Elem
<1>4. ASSUME NEW x, Elem(x, q), x # Head(q) PROVE Elem(x, Tail(q))
  <2>1. PICK i \in 1..Len(q) : q[i] = x
    BY <1>4 DEF Elem
  <2>2. i - 1 \in 1..Len(q) - 1 /\ Tail(q)[i - 1] = x
    BY <1>1, <1>4, <2>1
  <2> QED BY <1>1, <2>2 DEF Elem
<1> QED BY <1>2, <1>3, <1>4

\* The queue with an entry added at the end.
LEMMA AppendElems ==
    ASSUME NEW S, NEW q \in Seq(S), NEW e \in S, Distinct(q), ~Elem(e, q)
    PROVE  /\ Distinct(Append(q, e))
           /\ \A x : Elem(x, Append(q, e)) <=> Elem(x, q) \/ x = e
<1>1. /\ Len(Append(q, e)) = Len(q) + 1 /\ Len(q) \in Nat
      /\ \A i \in 1..Len(q) : Append(q, e)[i] = q[i]
      /\ Append(q, e)[Len(q) + 1] = e
  OBVIOUS
<1> DEFINE r == Append(q, e)
<1> HIDE DEF r
<1>2. Len(r) = Len(q) + 1 /\ (\A i \in 1..Len(q) : r[i] = q[i]) /\ r[Len(q) + 1] = e
  BY <1>1 DEF r
<1>3. Distinct(r)
  BY <1>1, <1>2 DEF Distinct, Elem
<1>4. ASSUME NEW x PROVE Elem(x, r) <=> Elem(x, q) \/ x = e
  <2>1. Elem(x, r) => Elem(x, q) \/ x = e
    BY <1>1, <1>2 DEF Elem
  <2>2. Elem(x, q) => Elem(x, r)
    BY <1>1, <1>2 DEF Elem
  <2>3. x = e => Elem(x, r)
    BY <1>1, <1>2 DEF Elem
  <2> QED BY <2>1, <2>2, <2>3
<1> QED BY <1>3, <1>4 DEF r

\* The entries of two clients, or of two kinds, are different.
LEMMA EntriesDiffer ==
    \A c, e \in Clients : /\ Flow(c) # TimerOf(e)
                          /\ (Flow(c) = Flow(e) => c = e) /\ (TimerOf(c) = TimerOf(e) => c = e)
                          /\ Flow(c) \in Entry /\ TimerOf(c) \in Entry
BY DEF Flow, TimerOf, Entry

\* The first waiting client goes from the list to the queue, the others
\* go with it.
LEMMA HandOverPlaces ==
    ASSUME TypeOK, WaitsOnce, NEW c \in Clients, NEW q \in Seq(Entry), Distinct(q),
           \A e \in Clients : Waits(e) => ~Elem(Flow(e), runq) /\ e # c,
           \A x : Elem(x, q) => Elem(x, runq),
           NEW after \in {"no", "trigger"}, HandOver(c, q, after)
    PROVE  /\ crashed' \in {"hand_off", after}
           /\ crashed' = "no" =>
                /\ Distinct(runq') /\ WaitsOnce' /\ waitingClients'[c] = << >>
                /\ \A e \in Clients : Waits(e)' => Waits(e)
                /\ \A e \in Clients : ~Waits(e) /\ e # c => waitingClients'[e] = waitingClients[e]
                /\ \A x : Elem(x, runq') =>
                      Elem(x, q) \/ \E w \in Clients : Waits(w) /\ ~Waits(w)' /\ x = Flow(w)
<1>1. CASE waitingClients[c] = << >>
  BY <1>1 DEF HandOver, Waits, WaitsOnce
<1>2. CASE waitingClients[c] # << >>
  <2> DEFINE ws == waitingClients[c]
             w == Head(ws)
  <2>1. ws \in Seq(Clients) /\ w = ws[1] /\ w \in Clients /\ Len(ws) \in Nat /\ Len(ws) >= 1
        /\ Tail(ws) \in Seq(Clients) /\ Len(Tail(ws)) = Len(ws) - 1
        /\ \A i \in 1..Len(ws) - 1 : Tail(ws)[i] = ws[i + 1]
    BY <1>2 DEF TypeOK
  <2>2. Waits(w)
    BY <2>1 DEF Waits, Elem
  <2>3. w # c /\ ~Elem(Flow(w), runq)
    BY <2>1, <2>2
  <2>4. ~InRunq(Flow(w))
    BY <2>3 DEF InRunq, Elem
  <2>5. /\ waitingClients' = [waitingClients EXCEPT ![w] = Tail(ws), ![c] = waitingClients[w]]
        /\ runq' = Append(q, Flow(w))
        /\ crashed' = IF waitingClients[w] # << >> THEN "hand_off" ELSE after
    BY <1>2, <2>4 DEF HandOver
  <2>6. ASSUME crashed' = "no"
        PROVE  /\ Distinct(runq') /\ WaitsOnce' /\ waitingClients'[c] = << >>
               /\ \A e \in Clients : Waits(e)' => Waits(e)
               /\ \A e \in Clients : ~Waits(e) /\ e # c => waitingClients'[e] = waitingClients[e]
               /\ \A x : Elem(x, runq') =>
                     Elem(x, q) \/ \E v \in Clients : Waits(v) /\ ~Waits(v)' /\ x = Flow(v)
    <3> HIDE DEF w, ws
    <3>1. waitingClients[w] = << >>
      BY <2>5, <2>6
    <3>2. /\ waitingClients \in [Clients -> Seq(Clients)]
          /\ waitingClients'[c] = << >> /\ waitingClients'[w] = Tail(ws)
          /\ \A h \in Clients : h # c /\ h # w => waitingClients'[h] = waitingClients[h]
      BY <2>1, <2>3, <2>5, <3>1 DEF TypeOK
    <3> DEFINE From(h, i, g, j) == /\ j \in 1..Len(waitingClients[g])
                                   /\ waitingClients'[h][i] = waitingClients[g][j]
                                   /\ h = w => g = c /\ j = i + 1
                                   /\ h # w => g = h /\ g # c /\ j = i
    <3>3. \A h \in Clients : \A i \in 1..Len(waitingClients'[h]) :
             \E g \in Clients : \E j \in Nat : From(h, i, g, j)
      <4> TAKE h \in Clients
      <4> TAKE i \in 1..Len(waitingClients'[h])
      <4>1. CASE h = w
        <5>1. Len(waitingClients'[h]) = Len(ws) - 1 /\ waitingClients'[h][i] = ws[i + 1]
          BY <2>1, <3>2, <4>1
        <5>2. i \in Nat /\ i + 1 \in 1..Len(ws)
          <6>1. i \in 1..Len(ws) - 1
            BY <5>1, Zenon
          <6>2. Len(ws) \in Nat
            BY <2>1
          <6> QED BY <6>1, <6>2
        <5>3. From(h, i, c, i + 1)
          BY <4>1, <5>1, <5>2 DEF ws
        <5> QED BY <5>2, <5>3
      <4>2. CASE h = c
        <5>1. Len(waitingClients'[h]) = 0
          BY <3>2, <4>2
        <5> QED BY <5>1
      <4>3. CASE h # w /\ h # c
        BY <3>2, <4>3
      <4> QED BY <4>1, <4>2, <4>3
    <3>4. \A h \in Clients : Len(waitingClients'[h]) \in Nat
      BY <2>1, <3>2 DEF ws
    <3>5. WaitsOnce'
      <4> SUFFICES ASSUME NEW h \in Clients, NEW g \in Clients,
                          NEW i \in 1..Len(waitingClients'[h]),
                          NEW j \in 1..Len(waitingClients'[g]),
                          waitingClients'[h][i] = waitingClients'[g][j]
                   PROVE  h = g /\ i = j
        BY DEF WaitsOnce
      <4>1. PICK h1 \in Clients, i1 \in Nat : From(h, i, h1, i1)
        BY <3>3
      <4>2. PICK g1 \in Clients, j1 \in Nat : From(g, j, g1, j1)
        BY <3>3
      <4>3. h1 = g1 /\ i1 = j1
        <5>1. /\ waitingClients[h1][i1] = waitingClients[g1][j1]
              /\ i1 \in 1..Len(waitingClients[h1]) /\ j1 \in 1..Len(waitingClients[g1])
          BY <4>1, <4>2
        <5> HIDE DEF From
        <5>2. \A k \in 1..Len(waitingClients[h1]), l \in 1..Len(waitingClients[g1]) :
                 waitingClients[h1][k] = waitingClients[g1][l] => h1 = g1 /\ k = l
          BY Zenon DEF WaitsOnce
        <5> QED BY <5>1, <5>2, Zenon
      <4>4. i \in Nat /\ j \in Nat
        BY <3>4
      <4> QED BY <4>1, <4>2, <4>3, <4>4
    <3>6. ASSUME NEW e \in Clients, Waits(e)' PROVE Waits(e) /\ e # w
      <4>1. PICK h \in Clients : \E i \in 1..Len(waitingClients'[h]) : waitingClients'[h][i] = e
        BY <3>6 DEF Waits, Elem
      <4>1a. PICK i \in 1..Len(waitingClients'[h]) : waitingClients'[h][i] = e
        BY <4>1
      <4>2. PICK g \in Clients, j \in Nat : From(h, i, g, j)
        BY <3>3
      <4>3. Waits(e)
        BY <4>1a, <4>2 DEF Waits, Elem
      <4>4. e # w
        <5>1. SUFFICES ASSUME e = w PROVE FALSE
          OBVIOUS
        <5>2. 1 \in 1..Len(waitingClients[c]) /\ waitingClients[c][1] = w
          BY <2>1 DEF ws
        <5>3. g = c /\ j = 1
          <6>1. waitingClients[g][j] = waitingClients[c][1] /\ j \in 1..Len(waitingClients[g])
            BY <4>1a, <4>2, <5>1, <5>2
          <6> HIDE DEF From
          <6> QED BY <5>2, <6>1 DEF WaitsOnce
        <5> QED BY <3>4, <4>2, <5>3
      <4> QED BY <4>3, <4>4
    <3>7. Distinct(runq') /\ \A x : Elem(x, runq') <=> Elem(x, q) \/ x = Flow(w)
      <4>1. ~Elem(Flow(w), q) /\ Flow(w) \in Entry
        BY <2>1, <2>3, EntriesDiffer
      <4> QED BY <2>5, <4>1, AppendElems
    <3> QED BY <2>1, <2>2, <3>2, <3>5, <3>6, <3>7
  <2> QED BY <2>5, <2>6
<1> QED BY <1>1, <1>2

\* A client keeps its place when a step only takes it out of a list, into the
\* queue.
LEMMA OtherPlace ==
    ASSUME NEW e \in Clients, Place(e),
           state'[e] = state[e], timer'[e] = timer[e],
           e \in sendPending' <=> e \in sendPending,
           e \in isSleeping' <=> e \in isSleeping,
           e \in pending' <=> e \in pending,
           Elem(TimerOf(e), runq') => Elem(TimerOf(e), runq),
           Elem(Flow(e), runq') => Elem(Flow(e), runq) \/ (Waits(e) /\ ~Waits(e)'),
           Waits(e)' => Waits(e),
           ~Waits(e) /\ Unregistered(e) /\ waitingClients[e] = << >> =>
               waitingClients'[e] = << >>
    PROVE  Place(e)'
BY DEF Place, Untimed, TimedOrQueued, Unregistered

\* While no assertion has failed every client has its place.
LEMMA PlaceFacts ==
    ASSUME AnswerInv, PlaceInv, crashed = "no"
    PROVE  /\ TypeOK /\ runq \in Seq(Entry) /\ Distinct(runq) /\ WaitsOnce
           /\ \A e \in Clients : Place(e)
BY DEF AnswerInv, PlaceInv, Places, TypeOK, Entry

\* The application starts a datagram on a client that is in no list.
LEMMA WritePlaces ==
    ASSUME AnswerInv, PlaceInv, NEW c \in Clients, NEW d \in Targets, WriteDatagram(c, d)
    PROVE  PlaceInv'
<1>1. /\ TypeOK /\ runq \in Seq(Entry) /\ Distinct(runq) /\ WaitsOnce
      /\ \A e \in Clients : Place(e)
  BY PlaceFacts DEF WriteDatagram
<1>2. /\ state[c] = "terminated" /\ state' = [state EXCEPT ![c] = "start_send"]
      /\ pending' = pending \cup {c} /\ runq' = Append(runq, Flow(c)) /\ crashed = "no"
      /\ UNCHANGED <<timer, sendPending, isSleeping, waitingClients, crashed>>
  BY DEF WriteDatagram
<1>3. Untimed(c) /\ ~Elem(Flow(c), runq) /\ ~Waits(c) /\ Unregistered(c)
  BY <1>1, <1>2 DEF Place
<1>4. Distinct(runq') /\ \A x : Elem(x, runq') <=> Elem(x, runq) \/ x = Flow(c)
  BY <1>1, <1>2, <1>3, EntriesDiffer, AppendElems
<1>5. WaitsOnce' /\ \A e : Waits(e)' <=> Waits(e)
  BY <1>1, <1>2 DEF WaitsOnce, Waits
<1>6. Place(c)'
  <2>1. state'[c] = "start_send" /\ ~Elem(TimerOf(c), runq')
    BY <1>1, <1>2, <1>3, <1>4, EntriesDiffer DEF TypeOK, Untimed
  <2> QED BY <1>2, <1>3, <1>5, <2>1 DEF Place, Untimed, Unregistered
<1>7. ASSUME NEW e \in Clients, e # c PROVE Place(e)'
  <2>1. state'[e] = state[e]
    BY <1>1, <1>2, <1>7 DEF TypeOK
  <2>2. /\ Elem(TimerOf(e), runq') => Elem(TimerOf(e), runq)
        /\ Elem(Flow(e), runq') => Elem(Flow(e), runq)
    BY <1>4, <1>7, EntriesDiffer
  <2> QED BY <1>1, <1>2, <1>5, <1>7, <2>1, <2>2, OtherPlace
<1> QED BY <1>2, <1>4, <1>5, <1>6, <1>7 DEF PlaceInv, Places, OtherAsserts

\* A client that cannot have the turn goes from the queue to the list of the
\* client that has it.
LEMMA WaitPlaces ==
    ASSUME AnswerInv, PlaceInv, NEW c \in Clients, WaitForTurn(c)
    PROVE  PlaceInv'
<1>1. /\ TypeOK /\ runq \in Seq(Entry) /\ Distinct(runq) /\ WaitsOnce
      /\ \A e \in Clients : Place(e)
  BY PlaceFacts DEF WaitForTurn
<1>2. /\ state[c] = "start_send" /\ crashed = "no" /\ runq # << >> /\ Head(runq) = Flow(c)
      /\ runq' = Tail(runq)
      /\ UNCHANGED <<state, timer, sendPending, isSleeping, pending, crashed>>
  BY DEF WaitForTurn
<1>3. PICK h \in Holders(c) : waitingClients' = [waitingClients EXCEPT ![h] = <<c>> \o @]
  BY DEF WaitForTurn
<1>4. /\ Distinct(runq') /\ Elem(Flow(c), runq)
      /\ \A x : Elem(x, runq') <=> Elem(x, runq) /\ x # Flow(c)
  BY <1>1, <1>2, TailElems
<1>5. Untimed(c) /\ ~Waits(c) /\ Unregistered(c) /\ c \in pending
  BY <1>1, <1>2, <1>4 DEF Place
<1>6. h \in Clients /\ h \in sendPending
  BY <1>1 DEF Holders, TypeOK
<1> DEFINE L == waitingClients[h]
           M == <<c>> \o L
<1>7. /\ L \in Seq(Clients) /\ Len(L) \in Nat /\ Len(M) = Len(L) + 1 /\ M[1] = c
      /\ \A i \in 1..Len(L) : M[i + 1] = L[i]
      /\ \A i \in 2..Len(M) : M[i] = L[i - 1]
  BY <1>1, <1>6 DEF TypeOK
<1>8. /\ waitingClients'[h] = M
      /\ \A g \in Clients : g # h => waitingClients'[g] = waitingClients[g]
  BY <1>1, <1>3, <1>6 DEF TypeOK
<1> HIDE DEF M
<1>9. \A g \in Clients : \A i \in 1..Len(waitingClients[g]) : waitingClients[g][i] # c
  BY <1>5 DEF Waits, Elem
<1>10. WaitsOnce'
  <2> SUFFICES ASSUME NEW f \in Clients, NEW g \in Clients,
                      NEW i \in 1..Len(waitingClients'[f]), NEW j \in 1..Len(waitingClients'[g]),
                      waitingClients'[f][i] = waitingClients'[g][j]
               PROVE  f = g /\ i = j
    BY DEF WaitsOnce
  <2>0. \A u, v \in Clients : \A k \in 1..Len(waitingClients[u]), l \in 1..Len(waitingClients[v]) :
           waitingClients[u][k] = waitingClients[v][l] => u = v /\ k = l
    BY <1>1 DEF WaitsOnce
  <2>1. CASE f # h /\ g # h
    BY <1>8, <2>0, <2>1
  <2>2. CASE f = h /\ g # h
    <3>1. CASE i = 1
      BY <1>7, <1>8, <1>9, <2>2, <3>1
    <3>2. CASE i # 1
      <4>1. i - 1 \in 1..Len(L) /\ waitingClients'[f][i] = L[i - 1]
        BY <1>7, <1>8, <2>2, <3>2
      <4> QED BY <1>6, <1>8, <2>0, <2>2, <4>1
    <3> QED BY <3>1, <3>2
  <2>3. CASE f # h /\ g = h
    <3>1. CASE j = 1
      BY <1>7, <1>8, <1>9, <2>3, <3>1
    <3>2. CASE j # 1
      <4>1. j - 1 \in 1..Len(L) /\ waitingClients'[g][j] = L[j - 1]
        BY <1>7, <1>8, <2>3, <3>2
      <4> QED BY <1>6, <1>8, <2>0, <2>3, <4>1
    <3> QED BY <3>1, <3>2
  <2>4. CASE f = h /\ g = h
    <3>1. \A k \in 2..Len(M) : k - 1 \in 1..Len(L) /\ M[k] = L[k - 1] /\ M[k] # c
      BY <1>6, <1>7, <1>9
    <3>2. \A k, l \in 2..Len(M) : M[k] = M[l] => k = l
      <4> SUFFICES ASSUME NEW k \in 2..Len(M), NEW l \in 2..Len(M), M[k] = M[l] PROVE k = l
        OBVIOUS
      <4>1. k - 1 \in 1..Len(L) /\ l - 1 \in 1..Len(L) /\ L[k - 1] = L[l - 1]
        BY <3>1
      <4>2. k - 1 = l - 1
        <5>1. \A u, v \in 1..Len(L) : L[u] = L[v] => u = v
          <6>1. \A k1 \in 1..Len(waitingClients[h]), l1 \in 1..Len(waitingClients[h]) :
                   waitingClients[h][k1] = waitingClients[h][l1] => h = h /\ k1 = l1
            BY <1>6, <2>0, Zenon
          <6> QED BY <6>1
        <5> HIDE DEF L
        <5> QED BY <4>1, <5>1
      <4> QED BY <1>7, <4>2
    <3>3. i \in 1..Len(M) /\ j \in 1..Len(M) /\ M[i] = M[j]
      BY <1>8, <2>4
    <3> QED BY <1>7, <2>4, <3>1, <3>2, <3>3
  <2> QED BY <2>1, <2>2, <2>3, <2>4
<1>11. \A e \in Clients : Waits(e)' => Waits(e) \/ e = c
  <2> SUFFICES ASSUME NEW e \in Clients, Waits(e)', e # c PROVE Waits(e)
    OBVIOUS
  <2>1. PICK g \in Clients : Elem(e, waitingClients'[g])
    BY DEF Waits
  <2>2. PICK i \in 1..Len(waitingClients'[g]) : waitingClients'[g][i] = e
    BY <2>1 DEF Elem
  <2>3. CASE g # h
    BY <1>8, <2>2, <2>3 DEF Waits, Elem
  <2>4. CASE g = h
    <3>1. i \in 1..Len(M) /\ M[i] = e /\ i # 1
      BY <1>7, <1>8, <2>2, <2>4
    <3>2. i - 1 \in 1..Len(L) /\ L[i - 1] = e
      BY <1>7, <3>1
    <3> QED BY <1>6, <3>2 DEF Waits, Elem
  <2> QED BY <2>3, <2>4
<1>12. Place(c)'
  BY <1>2, <1>4, <1>5 DEF Place, Untimed, Unregistered
<1>13. ASSUME NEW e \in Clients, e # c PROVE Place(e)'
  <2>1. Unregistered(e) => waitingClients'[e] = waitingClients[e]
    BY <1>6, <1>8 DEF Unregistered
  <2> QED BY <1>1, <1>2, <1>4, <1>11, <1>13, <2>1, OtherPlace
<1> QED BY <1>2, <1>4, <1>10, <1>12, <1>13 DEF PlaceInv, Places, OtherAsserts

\* A client with the turn sends: it leaves the queue for its timer.
LEMMA SendPlaces ==
    ASSUME AnswerInv, PlaceInv, NEW c \in Clients, DoSend(c)
    PROVE  PlaceInv'
<1>1. /\ TypeOK /\ runq \in Seq(Entry) /\ Distinct(runq) /\ WaitsOnce
      /\ \A e \in Clients : Place(e)
  BY PlaceFacts DEF DoSend
<1>2. /\ state[c] = "start_send" /\ crashed = "no" /\ runq # << >> /\ Head(runq) = Flow(c)
      /\ runq' = Tail(runq)
      /\ state' = [state EXCEPT ![c] = "timeout_waiting_for_dg_response"]
      /\ timer' = [timer EXCEPT ![c] = "active"]
      /\ sendPending' = sendPending \cup {c} /\ isSleeping' = isSleeping \cup {c}
      /\ crashed' = IF timer[c] = "idle" THEN "no" ELSE "start"
      /\ UNCHANGED <<pending, waitingClients>>
  BY DEF DoSend
<1>3. /\ Distinct(runq') /\ Elem(Flow(c), runq)
      /\ \A x : Elem(x, runq') <=> Elem(x, runq) /\ x # Flow(c)
  BY <1>1, <1>2, TailElems
<1>4. Untimed(c) /\ ~Waits(c) /\ c \in pending
  BY <1>1, <1>2, <1>3 DEF Place
<1>5. WaitsOnce' /\ \A e : Waits(e)' <=> Waits(e)
  BY <1>1, <1>2 DEF WaitsOnce, Waits
<1>6. /\ state'[c] = "timeout_waiting_for_dg_response" /\ timer'[c] = "active"
      /\ \A e \in Clients : e # c => state'[e] = state[e] /\ timer'[e] = timer[e]
  BY <1>1, <1>2 DEF TypeOK
<1>7. Place(c)'
  BY <1>2, <1>3, <1>4, <1>5, <1>6 DEF Place, Untimed, TimedOrQueued
<1>8. ASSUME NEW e \in Clients, e # c PROVE Place(e)'
  BY <1>1, <1>2, <1>3, <1>5, <1>6, <1>8, OtherPlace
<1>9. crashed' = "no"
  BY <1>2, <1>4 DEF Untimed
<1> QED BY <1>3, <1>5, <1>7, <1>8, <1>9 DEF PlaceInv, Places, OtherAsserts

\* A flow ends, with its timer at rest.
LEMMA FinalizePlaces ==
    ASSUME AnswerInv, PlaceInv, NEW c \in Clients, Finalize(c)
    PROVE  PlaceInv'
<1>1. /\ TypeOK /\ runq \in Seq(Entry) /\ Distinct(runq) /\ WaitsOnce
      /\ \A e \in Clients : Place(e)
  BY PlaceFacts DEF Finalize
<1>2. /\ state[c] = "datagram_finalize" /\ crashed = "no" /\ runq # << >>
      /\ Head(runq) = Flow(c) /\ runq' = Tail(runq)
      /\ state' = [state EXCEPT ![c] = "terminated"]
      /\ pending' = pending \ {c}
      /\ crashed' = IF c \in sendPending \/ c \notin pending THEN "finalize" ELSE "no"
      /\ UNCHANGED <<timer, sendPending, isSleeping, waitingClients>>
  BY DEF Finalize
<1>3. /\ Distinct(runq') /\ Elem(Flow(c), runq)
      /\ \A x : Elem(x, runq') <=> Elem(x, runq) /\ x # Flow(c)
  BY <1>1, <1>2, TailElems
<1>4. /\ TimedOrQueued(c) /\ ~Waits(c) /\ c \in pending /\ Unregistered(c)
      /\ waitingClients[c] = << >>
  BY <1>1, <1>2 DEF Place
<1>5. Untimed(c)
  BY <1>1, <1>3, <1>4 DEF TimedOrQueued, Untimed, TypeOK
<1>6. WaitsOnce' /\ \A e : Waits(e)' <=> Waits(e)
  BY <1>1, <1>2 DEF WaitsOnce, Waits
<1>7. /\ state'[c] = "terminated"
      /\ \A e \in Clients : e # c => state'[e] = state[e]
  BY <1>1, <1>2 DEF TypeOK
<1>8. Place(c)'
  BY <1>2, <1>3, <1>4, <1>5, <1>6, <1>7 DEF Place, Untimed, Unregistered
<1>9. ASSUME NEW e \in Clients, e # c PROVE Place(e)'
  BY <1>1, <1>2, <1>3, <1>6, <1>7, <1>9, OtherPlace
<1>10. crashed' = "no"
  BY <1>2, <1>4 DEF Unregistered
<1> QED BY <1>3, <1>6, <1>8, <1>9, <1>10 DEF PlaceInv, Places, OtherAsserts

\* An active timer is in no queue, so it is queued once when it has run down.
LEMMA ExpirePlaces ==
    ASSUME AnswerInv, PlaceInv, NEW c \in Clients, TimerExpires(c)
    PROVE  PlaceInv'
<1>1. /\ TypeOK /\ runq \in Seq(Entry) /\ Distinct(runq) /\ WaitsOnce
      /\ \A e \in Clients : Place(e)
  BY PlaceFacts DEF TimerExpires
<1>2. /\ timer[c] = "active" /\ timer' = [timer EXCEPT ![c] = "expired"]
      /\ crashed = "no" /\ runq' = Append(runq, TimerOf(c))
      /\ UNCHANGED <<state, sendPending, isSleeping, waitingClients, pending, crashed>>
  BY DEF TimerExpires
<1>3. state[c] \in {"timeout_waiting_for_dg_response", "datagram_finalize"} /\ TimedOrQueued(c)
  BY <1>1, <1>2 DEF Place, Untimed, TypeOK, States
<1>4. ~Elem(TimerOf(c), runq) /\ ~Elem(Flow(c), runq)
  BY <1>2, <1>3 DEF TimedOrQueued
<1>5. Distinct(runq') /\ \A x : Elem(x, runq') <=> Elem(x, runq) \/ x = TimerOf(c)
  BY <1>1, <1>2, <1>4, EntriesDiffer, AppendElems
<1>6. WaitsOnce' /\ \A e : Waits(e)' <=> Waits(e)
  BY <1>1, <1>2 DEF WaitsOnce, Waits
<1>7. timer'[c] = "expired" /\ \A e \in Clients : e # c => timer'[e] = timer[e]
  BY <1>1, <1>2 DEF TypeOK
<1>8. Place(c)'
  <2>1. ~Elem(Flow(c), runq')
    BY <1>4, <1>5, EntriesDiffer
  <2> QED BY <1>1, <1>2, <1>3, <1>6, <1>7, <2>1 DEF Place, TimedOrQueued, Unregistered
<1>9. ASSUME NEW e \in Clients, e # c PROVE Place(e)'
  <2>1. /\ Elem(TimerOf(e), runq') => Elem(TimerOf(e), runq)
        /\ Elem(Flow(e), runq') => Elem(Flow(e), runq)
    BY <1>5, <1>9, EntriesDiffer
  <2> QED BY <1>1, <1>2, <1>6, <1>7, <1>9, <2>1, OtherPlace
<1> QED BY <1>2, <1>5, <1>6, <1>8, <1>9 DEF PlaceInv, Places, OtherAsserts

\* A timer that runs was the only place of its client.
LEMMA RunPlaces ==
    ASSUME AnswerInv, PlaceInv, NEW c \in Clients, TimerRun(c)
    PROVE  PlaceInv'
<1>1. /\ TypeOK /\ runq \in Seq(Entry) /\ Distinct(runq) /\ WaitsOnce
      /\ \A e \in Clients : Place(e)
  BY PlaceFacts DEF TimerRun
<1>2. /\ crashed = "no" /\ runq # << >> /\ Head(runq) = TimerOf(c)
      /\ timer' = [timer EXCEPT ![c] = "idle"]
      /\ runq' = Append(Tail(runq), Flow(c))
      /\ crashed' = IF InRunq(Flow(c)) THEN "insert" ELSE "no"
      /\ UNCHANGED <<state, sendPending, isSleeping, waitingClients, pending>>
  BY DEF TimerRun
<1>3. /\ Distinct(Tail(runq)) /\ Elem(TimerOf(c), runq) /\ Tail(runq) \in Seq(Entry)
      /\ \A x : Elem(x, Tail(runq)) <=> Elem(x, runq) /\ x # TimerOf(c)
  BY <1>1, <1>2, TailElems
<1>4. /\ state[c] \in {"timeout_waiting_for_dg_response", "datagram_finalize"}
      /\ ~Elem(Flow(c), runq)
  BY <1>1, <1>3 DEF Place, Untimed, TimedOrQueued, TypeOK, States
<1>5. Distinct(runq') /\ \A x : Elem(x, runq') <=> Elem(x, Tail(runq)) \/ x = Flow(c)
  BY <1>2, <1>3, <1>4, EntriesDiffer, AppendElems
<1>6. WaitsOnce' /\ \A e : Waits(e)' <=> Waits(e)
  BY <1>1, <1>2 DEF WaitsOnce, Waits
<1>7. timer'[c] = "idle" /\ \A e \in Clients : e # c => timer'[e] = timer[e]
  BY <1>1, <1>2 DEF TypeOK
<1>8. Place(c)'
  <2>1. ~Elem(TimerOf(c), runq')
    BY <1>3, <1>5, EntriesDiffer
  <2> QED BY <1>1, <1>2, <1>4, <1>6, <1>7, <2>1 DEF Place, TimedOrQueued, Unregistered
<1>9. ASSUME NEW e \in Clients, e # c PROVE Place(e)'
  <2>1. /\ Elem(TimerOf(e), runq') => Elem(TimerOf(e), runq)
        /\ Elem(Flow(e), runq') => Elem(Flow(e), runq)
    BY <1>3, <1>5, <1>9, EntriesDiffer
  <2> QED BY <1>1, <1>2, <1>6, <1>7, <1>9, <2>1, OtherPlace
<1>10. crashed' = "no"
  BY <1>2, <1>4 DEF InRunq, Elem
<1> QED BY <1>5, <1>6, <1>8, <1>9, <1>10 DEF PlaceInv, Places, OtherAsserts

\* What the end of a wait does to the other clients: the first that waited is
\* queued, the others wait where it waited for them.
LEMMA StopOthers ==
    ASSUME AnswerInv, PlaceInv, crashed = "no", NEW c \in Clients, c \in sendPending,
           NEW q \in Seq(Entry), Distinct(q), \A x : Elem(x, q) => Elem(x, runq),
           NEW after \in {"no", "trigger"}, HandOver(c, q, after),
           sendPending' = sendPending \ {c}, isSleeping' = isSleeping \ {c},
           timer' = timer,
           \A e \in Clients : e # c => state'[e] = state[e] /\ (e \in pending' <=> e \in pending)
    PROVE  /\ crashed' \in {"hand_off", after}
           /\ crashed' = "no" =>
                /\ Distinct(runq') /\ WaitsOnce' /\ waitingClients'[c] = << >> /\ ~Waits(c)'
                /\ \A e \in Clients : e # c => Place(e)'
                /\ Elem(Flow(c), runq') => Elem(Flow(c), q)
                /\ Elem(TimerOf(c), runq') => Elem(TimerOf(c), q)
<1>1. /\ TypeOK /\ runq \in Seq(Entry) /\ Distinct(runq) /\ WaitsOnce
      /\ \A e \in Clients : Place(e)
  BY PlaceFacts
<1>2. \A e \in Clients : Waits(e) => state[e] = "start_send"
  BY <1>1 DEF Place, TypeOK, States
<1>3. state[c] = "timeout_waiting_for_dg_response" /\ ~Waits(c)
  BY <1>1, <1>2 DEF AnswerInv, PendingWaits
<1>4. \A e \in Clients : Waits(e) => ~Elem(Flow(e), runq) /\ e # c
  BY <1>1, <1>2, <1>3 DEF Place
<1>5. /\ crashed' \in {"hand_off", after}
      /\ crashed' = "no" =>
           /\ Distinct(runq') /\ WaitsOnce' /\ waitingClients'[c] = << >>
           /\ \A e \in Clients : Waits(e)' => Waits(e)
           /\ \A e \in Clients : ~Waits(e) /\ e # c => waitingClients'[e] = waitingClients[e]
           /\ \A x : Elem(x, runq') =>
                 Elem(x, q) \/ \E w \in Clients : Waits(w) /\ ~Waits(w)' /\ x = Flow(w)
  BY <1>1, <1>4, HandOverPlaces
<1>6. ASSUME crashed' = "no", NEW e \in Clients, e # c PROVE Place(e)'
  <2>1. /\ Elem(TimerOf(e), runq') => Elem(TimerOf(e), runq)
        /\ Elem(Flow(e), runq') => Elem(Flow(e), runq) \/ (Waits(e) /\ ~Waits(e)')
    BY <1>5, <1>6, EntriesDiffer
  <2> QED BY <1>1, <1>5, <1>6, <2>1, OtherPlace
<1>7. ASSUME crashed' = "no"
      PROVE  /\ Elem(Flow(c), runq') => Elem(Flow(c), q)
             /\ Elem(TimerOf(c), runq') => Elem(TimerOf(c), q)
             /\ ~Waits(c)'
  BY <1>3, <1>5, <1>7, EntriesDiffer
<1> QED BY <1>5, <1>6, <1>7

\* A client that times out has left its timer and the queue.
LEMMA TimeoutPlaces ==
    ASSUME AnswerInv, PlaceInv, NEW c \in Clients, TimeoutWaiting(c)
    PROVE  PlaceInv'
<1>1. crashed = "no"
  BY DEF TimeoutWaiting
<1>2. /\ TypeOK /\ runq \in Seq(Entry) /\ Distinct(runq) /\ WaitsOnce
      /\ \A e \in Clients : Place(e)
  BY <1>1, PlaceFacts
<1>3. /\ runq # << >> /\ Head(runq) = Flow(c)
      /\ state[c] = "timeout_waiting_for_dg_response"
      /\ state' = [state EXCEPT ![c] = "terminated"]
      /\ sendPending' = sendPending \ {c} /\ isSleeping' = isSleeping \ {c}
      /\ pending' = pending \ {c} /\ timer' = timer
      /\ HandOver(c, Tail(runq), "no")
  BY DEF TimeoutWaiting
<1>4. /\ Distinct(Tail(runq)) /\ Elem(Flow(c), runq) /\ Tail(runq) \in Seq(Entry)
      /\ \A x : Elem(x, Tail(runq)) <=> Elem(x, runq) /\ x # Flow(c)
  BY <1>2, <1>3, TailElems
<1>5. TimedOrQueued(c) /\ c \in sendPending
  BY <1>2, <1>3 DEF Place
<1>6. Untimed(c)
  BY <1>2, <1>4, <1>5 DEF TimedOrQueued, Untimed, TypeOK
<1>7. \A e \in Clients : e # c => state'[e] = state[e] /\ (e \in pending' <=> e \in pending)
  BY <1>2, <1>3 DEF TypeOK
<1>8. /\ crashed' \in {"hand_off", "no"}
      /\ crashed' = "no" =>
           /\ Distinct(runq') /\ WaitsOnce' /\ waitingClients'[c] = << >> /\ ~Waits(c)'
           /\ \A e \in Clients : e # c => Place(e)'
           /\ Elem(Flow(c), runq') => Elem(Flow(c), Tail(runq))
           /\ Elem(TimerOf(c), runq') => Elem(TimerOf(c), Tail(runq))
  BY <1>1, <1>3, <1>4, <1>5, <1>7, StopOthers
<1>9. ASSUME crashed' = "no" PROVE Place(c)'
  <2>1. state'[c] = "terminated" /\ Unregistered(c)'
    BY <1>2, <1>3 DEF TypeOK, Unregistered
  <2>2. Untimed(c)' /\ ~Elem(Flow(c), runq')
    BY <1>3, <1>4, <1>6, <1>8, <1>9 DEF Untimed
  <2> QED BY <1>8, <1>9, <2>1, <2>2 DEF Place
<1> QED BY <1>8, <1>9 DEF PlaceInv, Places, OtherAsserts

\* An answer or a reboot: the flow goes on when its timer has run.
LEMMA StopPlaces ==
    ASSUME AnswerInv, PlaceInv, crashed = "no", NEW c \in Clients, c \in sendPending,
           StopWaiting(c), pending' = pending
    PROVE  PlaceInv'
<1>1. /\ TypeOK /\ runq \in Seq(Entry) /\ Distinct(runq) /\ WaitsOnce
      /\ \A e \in Clients : Place(e)
  BY PlaceFacts
<1> DEFINE after == IF c \in isSleeping /\ timer[c] = "idle" THEN "trigger" ELSE "no"
<1>2. /\ state' = [state EXCEPT ![c] = "datagram_finalize"]
      /\ sendPending' = sendPending \ {c} /\ isSleeping' = isSleeping \ {c}
      /\ timer' = timer /\ after \in {"no", "trigger"}
      /\ HandOver(c, runq, after)
  BY DEF StopWaiting
<1> HIDE DEF after
<1>3. \A e \in Clients : e # c => state'[e] = state[e] /\ (e \in pending' <=> e \in pending)
  BY <1>1, <1>2 DEF TypeOK
<1>4. /\ crashed' \in {"hand_off", after}
      /\ crashed' = "no" =>
           /\ Distinct(runq') /\ WaitsOnce' /\ waitingClients'[c] = << >> /\ ~Waits(c)'
           /\ \A e \in Clients : e # c => Place(e)'
           /\ Elem(Flow(c), runq') => Elem(Flow(c), runq)
           /\ Elem(TimerOf(c), runq') => Elem(TimerOf(c), runq)
  BY <1>1, <1>2, <1>3, StopOthers
<1>5. TimedOrQueued(c) /\ c \in pending
  BY <1>1 DEF AnswerInv, PendingWaits, Place
<1>6. ASSUME crashed' = "no" PROVE Place(c)'
  <2>1. state'[c] = "datagram_finalize" /\ Unregistered(c)'
    BY <1>1, <1>2 DEF TypeOK, Unregistered
  <2>2. TimedOrQueued(c)'
    BY <1>2, <1>4, <1>5, <1>6 DEF TimedOrQueued
  <2> QED BY <1>4, <1>5, <1>6, <2>1, <2>2 DEF Place
<1> QED BY <1>2, <1>4, <1>6 DEF PlaceInv, Places, OtherAsserts

\* Every step keeps every client in its place, or fails one of the two
\* assertions that can fail.
LEMMA PlaceStep == AnswerInv /\ PlaceInv /\ [Next]_vars => PlaceInv'
<1> SUFFICES ASSUME AnswerInv, PlaceInv, [Next]_vars PROVE PlaceInv'
  OBVIOUS
<1>1. CASE UNCHANGED <<state, runq, timer, sendPending, isSleeping, waitingClients,
                       pending, crashed>>
  BY <1>1 DEF PlaceInv, Places, OtherAsserts, Distinct, WaitsOnce, Place, Untimed,
              TimedOrQueued, Unregistered, Waits, Elem
<1>2. CASE UNCHANGED vars \/ \E n \in net : Lose(n)
  BY <1>1, <1>2 DEF vars, Lose
<1>3. CASE \E c \in Clients, n \in net, r \in Answers : HandleResponse(c, n, r)
  BY <1>3, StopPlaces DEF HandleResponse
<1>4. CASE \E c \in Clients : HandleReboot(c)
  BY <1>4, StopPlaces DEF HandleReboot
<1>5. CASE \E c \in Clients, d \in Targets : WriteDatagram(c, d)
  BY <1>5, WritePlaces
<1>6. CASE Run \/ \E c \in Clients : TimerExpires(c)
  BY <1>6, WaitPlaces, SendPlaces, TimeoutPlaces, FinalizePlaces, RunPlaces, ExpirePlaces
     DEF Run
<1> QED BY <1>2, <1>3, <1>4, <1>5, <1>6 DEF Next

\* No client is anywhere before it is used.
LEMMA PlaceInit == Init => PlaceInv
<1> SUFFICES ASSUME Init PROVE PlaceInv
  OBVIOUS
<1>1. Len(runq) = 0 /\ \A h \in Clients : Len(waitingClients[h]) = 0
  BY DEF Init
<1>2. Distinct(runq) /\ \A x : ~Elem(x, runq)
  BY <1>1 DEF Distinct, Elem
<1>3. WaitsOnce /\ \A c \in Clients : ~Waits(c)
  BY <1>1 DEF WaitsOnce, Waits, Elem
<1>4. \A c \in Clients : Place(c)
  BY <1>2, <1>3 DEF Init, Place, Untimed, Unregistered
<1> QED BY <1>2, <1>3, <1>4 DEF Init, PlaceInv, Places, OtherAsserts

\* A client that has finished, by an answer, a reboot or a timeout, has left
\* nothing that could run it, wake it or keep others waiting; no flow is ever
\* queued twice and no active timer started (unregister_response_handler(),
\* datagram_finalize()).
THEOREM FinishedIsFree == Spec => []NothingLeftBehind
<1>1. PlaceInv => NothingLeftBehind
  <2> SUFFICES ASSUME PlaceInv PROVE NothingLeftBehind
    OBVIOUS
  <2>1. ASSUME NEW c \in Clients, state[c] = "terminated", crashed = "no"
        PROVE  /\ timer[c] = "idle" /\ ~InRunq(Flow(c)) /\ ~InRunq(TimerOf(c))
               /\ waitingClients[c] = << >> /\ c \notin sendPending \cup isSleeping
    BY <2>1 DEF PlaceInv, Places, Place, Untimed, Unregistered, InRunq, Elem
  <2> QED BY <2>1 DEF PlaceInv, NothingLeftBehind
<1> QED BY <1>1, AnswerInit, AnswerStep, PlaceInit, PlaceStep, PTL DEF Spec
=============================================================================

--------------------------- MODULE AddressedWrite ---------------------------
(***************************************************************************)
(* The flow that sends addressed messages to the CAN bus                   *)
(* (openlcb/IfCanImpl.hxx, AddressedCanMessageWriteFlow): it finds the     *)
(* alias of the destination in the remote cache, or asks the bus for it,   *)
(* first with an AME frame, then with Verify Node ID, and marks a node     *)
(* that does not answer.  The AliasDefListener picks up the answer, the    *)
(* RemoteAliasCacheUpdater and AMEGlobalQueryHandler (IfCan.cpp) change    *)
(* the same cache meanwhile.                                               *)
(*                                                                         *)
(* Listener and dispatcher are one step; the updater is a flow with its    *)
(* own queue (seen).  Each wait for a buffer, for the timer or for a       *)
(* source alias lets the others run.                                       *)
(***************************************************************************)
EXTENDS Naturals, Sequences

CONSTANTS
    Dsts,           \* node IDs of remote destinations
    Aliases,        \* positive numbers
    LocalAliases,   \* aliases of nodes of this interface
    NOT_RESPONDING,
    MaxMsgs,        \* bound: messages sent
    MaxFrames,      \* bound: frames the destinations send
    MaxSeen         \* bound: frames the updater may be behind

ASSUME WriteAssumption ==
    /\ Aliases \subseteq Nat \ {0} /\ LocalAliases \subseteq Nat \ {0}
    /\ Aliases \cap LocalAliases = {}
    /\ NOT_RESPONDING \in Nat \ (Aliases \cup LocalAliases \cup {0})
    /\ MaxMsgs \in Nat /\ MaxFrames \in Nat /\ MaxSeen \in Nat

VARIABLES
    state,      \* the flow's state
    dst,        \* nmsg()->dst.id, "none" if there is none
    dstAlias,   \* dstAlias_
    timer,      \* timer_, and whether it has notified the flow
    listening,  \* aliasListener_ is registered
    remote,     \* remote_aliases(): the alias by node, 0 when unknown
    seen,       \* frames queued for RemoteAliasCacheUpdater
    nodeAlias,  \* the alias each destination really has, 0 when it has none
    silent,     \* no announcement of dst was dispatched since the enquiry
    defined,    \* destinations with an AMD frame since they were last marked
    msgs, frames,
    crashed     \* the assertion of trigger() failed

flow == <<state, dst, dstAlias, timer, listening>>
bus == <<seen, nodeAlias, defined, frames>>
vars == <<flow, bus, remote, silent, msgs, crashed>>

Lookup == {"send_ame_frame", "send_verify_nodeid_global",
           "fill_verify_nodeid_global", "wait_looking_for_dst"}
States == Lookup \cup {"idle", "find_local_alias"}
Frame == [kind : {"AMD", "AMR"}, node : Dsts, alias : Aliases]

Init ==
    /\ state = "idle" /\ dst = "none" /\ dstAlias = 0
    /\ timer = "idle" /\ listening = FALSE
    /\ remote = [d \in Dsts |-> 0]
    /\ seen = << >>
    /\ nodeAlias = [d \in Dsts |-> 0]
    /\ silent = TRUE /\ defined = {}
    /\ msgs = 0 /\ frames = 0
    /\ crashed = FALSE
-----------------------------------------------------------------------------
\* AliasCache::add() for a node ID: the alias goes to d only.
AddRemote(d, a) ==
    [e \in Dsts |-> IF e = d THEN a
                    ELSE IF a # NOT_RESPONDING /\ remote[e] = a THEN 0
                    ELSE remote[e]]

\* find_remote_alias(): listen, and ask with an AME frame if the source node
\* has an alias, else with Verify Node ID at once.
FindRemoteAlias ==
    /\ listening' = TRUE /\ silent' = TRUE
    /\ state' \in {"send_ame_frame", "fill_verify_nodeid_global"}

\* send_to_hardware() for a node ID, with the alias a the caller supplied or
\* 0.  What the cache has counts more than what the caller says.
SendToNode(d, a) ==
    /\ ~crashed /\ state = "idle" /\ msgs < MaxMsgs
    /\ msgs' = msgs + 1
    /\ dst' = d
    /\ dstAlias' = IF remote[d] # 0 THEN remote[d] ELSE a
    /\ IF dstAlias' = NOT_RESPONDING THEN UNCHANGED <<state, listening, silent>>
       ELSE IF dstAlias' # 0
       THEN state' = "find_local_alias" /\ UNCHANGED <<listening, silent>>
       ELSE FindRemoteAlias
    /\ UNCHANGED <<bus, timer, remote, crashed>>

\* send_to_hardware() for an alias only: a node of our own gets the message
\* directly.
SendToAlias(a) ==
    /\ ~crashed /\ state = "idle" /\ msgs < MaxMsgs
    /\ msgs' = msgs + 1
    /\ dst' = "none"
    /\ IF a \in LocalAliases THEN dstAlias' = 0 /\ UNCHANGED state
       ELSE dstAlias' = a /\ state' = "find_local_alias"
    /\ UNCHANGED <<bus, timer, listening, remote, silent, crashed>>

\* send_ame_frame(): the frame buffer is there.
SendAmeFrame ==
    /\ ~crashed /\ state = "send_ame_frame"
    /\ state' = "send_verify_nodeid_global" /\ timer' = "active"
    /\ UNCHANGED <<bus, dst, dstAlias, listening, remote, silent, msgs, crashed>>

\* send_verify_nodeid_global() after the first sleep.
SendVerify ==
    /\ ~crashed /\ state = "send_verify_nodeid_global" /\ timer = "notified"
    /\ timer' = "idle"
    /\ state' = IF dstAlias # 0 THEN "find_local_alias"
                ELSE "fill_verify_nodeid_global"
    /\ UNCHANGED <<bus, dst, dstAlias, listening, remote, silent, msgs, crashed>>

\* Mutant: the flow waits without a timeout.
FillVerify_NoTimer ==
    /\ ~crashed /\ state = "fill_verify_nodeid_global"
    /\ state' = "wait_looking_for_dst"
    /\ UNCHANGED <<bus, timer, dst, dstAlias, listening, remote, silent, msgs,
                   crashed>>

\* fill_verify_nodeid_global(): the message buffer is there.
FillVerify ==
    /\ ~crashed /\ state = "fill_verify_nodeid_global"
    /\ state' = "wait_looking_for_dst" /\ timer' = "active"
    /\ UNCHANGED <<bus, dst, dstAlias, listening, remote, silent, msgs, crashed>>

\* wait_looking_for_dst(): nobody answered.
GiveUp ==
    /\ listening' = FALSE
    /\ remote' = AddRemote(dst, NOT_RESPONDING)
    /\ defined' = defined \ {dst}
    /\ state' = "idle"

\* Mutant: the answer that came in during the sleep is overlooked.
WaitLooking_NoCheck ==
    /\ ~crashed /\ state = "wait_looking_for_dst" /\ timer = "notified"
    /\ timer' = "idle"
    /\ GiveUp
    /\ UNCHANGED <<dst, dstAlias, seen, nodeAlias, frames, silent, msgs, crashed>>

\* wait_looking_for_dst() after the second sleep.
WaitLooking ==
    /\ ~crashed /\ state = "wait_looking_for_dst" /\ timer = "notified"
    /\ timer' = "idle"
    /\ IF dstAlias # 0
       THEN state' = "find_local_alias" /\ UNCHANGED <<listening, remote, defined>>
       ELSE GiveUp
    /\ UNCHANGED <<dst, dstAlias, seen, nodeAlias, frames, silent, msgs, crashed>>

\* find_local_alias() to send_finished(): the source alias is settled and the
\* frames go out.
SendFrames ==
    /\ ~crashed /\ state = "find_local_alias"
    /\ state' = "idle"
    /\ UNCHANGED <<bus, dst, dstAlias, timer, listening, remote, silent, msgs,
                   crashed>>

\* The timer runs down, or was triggered, and goes to the executor.
TimerExpires ==
    /\ ~crashed /\ timer \in {"active", "triggered"}
    /\ timer' = "expired"
    /\ UNCHANGED <<bus, state, dst, dstAlias, listening, remote, silent, msgs,
                   crashed>>

\* Timer::run(): isExpired_ is cleared and the flow is notified.
TimerRun ==
    /\ ~crashed /\ timer = "expired"
    /\ timer' = "notified"
    /\ UNCHANGED <<bus, state, dst, dstAlias, listening, remote, silent, msgs,
                   crashed>>
-----------------------------------------------------------------------------
(* The destinations and what their frames do. *)

\* The record of an announcement of d while its alias is looked for.
Heard(d) == silent' = (silent /\ ~(d = dst /\ state \in Lookup))

\* Mutant: the listener stays registered after the answer.
Listener_StaysRegistered(d, a) ==
    IF ~(listening /\ d = dst)
    THEN UNCHANGED <<dstAlias, timer, listening, remote, crashed>>
    ELSE /\ dstAlias' = a
         /\ remote' = AddRemote(d, a)
         /\ timer' = IF timer = "active" THEN "triggered" ELSE timer
         /\ crashed' = (timer \in {"idle", "notified"})
         /\ UNCHANGED listening

\* AliasDefListener::send() for an announcement of node d with alias a.
\* trigger() asserts that the timer is active if it is not expired.
Listener(d, a) ==
    IF ~(listening /\ d = dst)
    THEN UNCHANGED <<dstAlias, timer, listening, remote, crashed>>
    ELSE /\ dstAlias' = a
         /\ listening' = FALSE
         /\ remote' = AddRemote(d, a)
         /\ timer' = IF timer = "active" THEN "triggered" ELSE timer
         /\ crashed' = (timer \in {"idle", "notified"})

\* A destination has reserved an alias and announces it.
NewAlias(d, a) ==
    /\ ~crashed /\ frames < MaxFrames
    /\ \A e \in Dsts : nodeAlias[e] # a
    /\ nodeAlias[d] = 0
    /\ nodeAlias' = [nodeAlias EXCEPT ![d] = a]
    /\ frames' = frames + 1 /\ Len(seen) < MaxSeen
    /\ seen' = Append(seen, [kind |-> "AMD", node |-> d, alias |-> a])
    /\ defined' = defined \cup {d}
    /\ Listener(d, a) /\ Heard(d)
    /\ UNCHANGED <<state, dst, msgs>>

\* A destination answers an AME frame, ours or somebody else's.
SendAmd(d) ==
    /\ ~crashed /\ frames < MaxFrames /\ nodeAlias[d] # 0
    /\ frames' = frames + 1 /\ Len(seen) < MaxSeen
    /\ seen' = Append(seen, [kind |-> "AMD", node |-> d, alias |-> nodeAlias[d]])
    /\ defined' = defined \cup {d}
    /\ Listener(d, nodeAlias[d]) /\ Heard(d)
    /\ UNCHANGED <<state, dst, nodeAlias, msgs>>

\* Initialization Complete or Verified Node ID, which only the listener uses.
SendVerified(d) ==
    /\ ~crashed /\ frames < MaxFrames /\ nodeAlias[d] # 0
    /\ frames' = frames + 1
    /\ Listener(d, nodeAlias[d]) /\ Heard(d)
    /\ UNCHANGED <<state, dst, seen, nodeAlias, defined, msgs>>

\* A destination gives its alias up with AMR, or goes away without a word.
LoseAlias(d, amr) ==
    /\ ~crashed /\ frames < MaxFrames /\ nodeAlias[d] # 0
    /\ frames' = frames + 1 /\ Len(seen) < MaxSeen
    /\ seen' = IF amr THEN Append(seen, [kind |-> "AMR", node |-> d,
                                         alias |-> nodeAlias[d]]) ELSE seen
    /\ nodeAlias' = [nodeAlias EXCEPT ![d] = 0]
    /\ UNCHANGED <<flow, defined, remote, silent, msgs, crashed>>

\* Mutant: a node that the cache has an entry for is not added again.
Updated_OnlyUnknown(f) ==
    IF f.kind = "AMD" THEN IF remote[f.node] = 0 THEN AddRemote(f.node, f.alias)
                           ELSE remote
    ELSE [e \in Dsts |-> IF remote[e] = f.alias \/
                            (e = f.node /\ remote[e] # NOT_RESPONDING) THEN 0
                         ELSE remote[e]]

\* RemoteAliasCacheUpdater: what the cache becomes.  remove() of the alias
\* NOT_RESPONDING may only hit the mark of the node in the pool's first slot.
Updated(f) ==
    IF f.kind = "AMD" THEN AddRemote(f.node, f.alias)
    ELSE [e \in Dsts |-> IF remote[e] = f.alias \/
                            (e = f.node /\ remote[e] # NOT_RESPONDING) THEN 0
                         ELSE remote[e]]

\* Whether the mark of another node, e, goes with it: the frame's node was
\* marked too, and e has the slot that makes its mark plain NOT_RESPONDING.
MarkLost(f, e) == remote[f.node] = NOT_RESPONDING /\ remote[e] = NOT_RESPONDING

\* The updater flow comes to run for the next frame.
UpdateCache ==
    /\ ~crashed /\ seen # << >>
    /\ seen' = Tail(seen)
    /\ LET f == Head(seen) IN
       \/ remote' = Updated(f)
       \/ \E e \in Dsts : MarkLost(f, e) /\
             remote' = [Updated(f) EXCEPT ![e] = IF e = f.node /\ f.kind = "AMD"
                                                 THEN @ ELSE 0]
    /\ UNCHANGED <<flow, nodeAlias, defined, frames, silent, msgs, crashed>>

\* AMEGlobalQueryHandler::send(): a global enquiry empties the cache.
GlobalEnquiry ==
    /\ ~crashed /\ frames < MaxFrames
    /\ frames' = frames + 1
    /\ remote' = [d \in Dsts |-> 0]
    /\ UNCHANGED <<flow, seen, nodeAlias, defined, silent, msgs, crashed>>
-----------------------------------------------------------------------------
Write == \/ SendAmeFrame \/ SendVerify \/ FillVerify \/ WaitLooking \/ SendFrames
         \/ TimerExpires \/ TimerRun

Next ==
    \/ Write
    \/ \E d \in Dsts, a \in Aliases \cup {0} : SendToNode(d, a)
    \/ \E a \in Aliases \cup LocalAliases : SendToAlias(a)
    \/ \E d \in Dsts : \/ \E a \in Aliases : NewAlias(d, a)
                       \/ SendAmd(d) \/ SendVerified(d)
                       \/ \E amr \in BOOLEAN : LoseAlias(d, amr)
    \/ UpdateCache
    \/ GlobalEnquiry

Spec == Init /\ [][Next]_vars

\* The executor runs what is queued, and the timer runs down.
FairSpec == Spec /\ WF_vars(Write)
-----------------------------------------------------------------------------
\* Type correctness of the flow, the cache and the frames; what goes out has
\* an alias for its destination.
TypeOK ==
    /\ state \in States
    /\ dst \in Dsts \cup {"none"}
    /\ dstAlias \in Aliases \cup {0, NOT_RESPONDING}
    /\ state = "find_local_alias" => dstAlias \in Aliases
    /\ timer \in {"idle", "active", "triggered", "expired", "notified"}
    /\ listening \in BOOLEAN /\ silent \in BOOLEAN /\ crashed \in BOOLEAN
    /\ remote \in [Dsts -> Aliases \cup {0, NOT_RESPONDING}]
    /\ seen \in Seq(Frame)
    /\ nodeAlias \in [Dsts -> Aliases \cup {0}]
    /\ defined \subseteq Dsts
    /\ msgs \in 0..MaxMsgs /\ frames \in 0..MaxFrames

\* The handlers are registered exactly while the flow looks for an alias it
\* does not have: none is left behind to trigger the timer of a later message,
\* and none is missing while an answer may come.
ListensWhileLooking ==
    ~crashed => (listening <=> (state \in Lookup /\ dstAlias = 0))

\* A message is dropped, and its destination marked, only when no announcement
\* of the destination came in since the enquiry began.
DroppedOnlyInSilence ==
    [][state = "wait_looking_for_dst" /\ state' = "idle" => silent]_vars

\* A node that was marked as not responding and has since defined its alias is
\* reachable again as soon as the updater has seen the frame.
MarkIsLifted ==
    \A d \in Dsts : remote[d] = NOT_RESPONDING /\ d \in defined =>
        \E i \in 1..Len(seen) : seen[i].kind = "AMD" /\ seen[i].node = d

\* Every message leaves the flow: it is sent or dropped, whatever is lost.
EveryMessageLeaves == (state # "idle") ~> (state = "idle" \/ crashed)

\* "The timer must be active or expired at the time of call." (Timer.hxx,
\* trigger()): also when the listener hears the destination while the flow
\* waits for a buffer.
TriggerAssert == ~crashed
=============================================================================

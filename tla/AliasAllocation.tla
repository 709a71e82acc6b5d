--------------------------- MODULE AliasAllocation ---------------------------
(***************************************************************************)
(* Alias allocation and defence on one CAN bus: on every interface the     *)
(* AliasAllocator flow (openlcb/AliasAllocator.cpp), the flows of          *)
(* IfCan.cpp that answer CID frames, give up conflicting aliases and track *)
(* the aliases of the others, and the message write flows of               *)
(* IfCanImpl.hxx that take an alias for the interface's virtual node.      *)
(*                                                                         *)
(* A frame waits in out[n] until it wins the bus; then every other         *)
(* interface has it.  The allocator's ConflictHandler sees a frame when it *)
(* is dispatched, the other flows when they come to run (seen).  The local *)
(* cache is what AliasMap promises, with room for every alias.  Each       *)
(* interface has one virtual node, named like the interface.               *)
(***************************************************************************)
EXTENDS Integers, Sequences, FiniteSets

CONSTANTS
    Nodes,      \* interfaces on the bus
    Aliases,    \* positive numbers
    Flows,      \* message write flows of an interface (global, addressed)
    Reserve,    \* reserveUnusedAliases_, 0 or 1
    MaxMsgs,    \* bound: number of messages the applications send
    MaxSeen     \* bound: frames an interface may be behind the bus

ASSUME AllocationAssumption ==
    /\ Aliases \subseteq Nat \ {0}
    /\ "none" \notin Nodes /\ IsFiniteSet(Flows)
    /\ Reserve \in {0, 1}
    /\ MaxMsgs \in Nat /\ MaxSeen \in Nat \ {0}

VARIABLES
    state,      \* AliasAllocator: the state of the flow
    pend,       \* pending_alias()->alias, 0 when there is none
    cid,        \* cid_frame_sequence_
    conflict,   \* interfaces with conflict_detected_
    timer,      \* timer_, and whether it has notified the flow
    req,        \* requests in the allocator's queue
    local,      \* local_aliases(): "none", "reserved" or "assigned" by alias
    remote,     \* remote_aliases(): the node by alias, or "none"
    client,     \* CanMessageWriteFlow: the state of each write flow
    src,        \* srcAlias_
    out,        \* frames handed to the frame write flow
    seen,       \* frames dispatched to the handler flows
    timely,     \* frames are handled within the 200 ms an allocator waits
    msgs,       \* messages sent so far
    strayed,    \* interfaces that announced an alias they had lost (observation)
    crashed     \* an assertion of trigger() failed

alloc == <<state, pend, cid, conflict, timer, req>>
vars == <<alloc, local, remote, client, src, out, seen, timely, msgs, strayed, crashed>>

States == {"idle", "send_cid_frame", "handle_allocate_for_cid_frame",
           "wait_done", "send_rid_frame"}
ClientStates == {"terminated", "find_local_alias", "waiting",
                 "allocate_new_alias", "send_amd_frame",
                 "fill_can_frame_buffer"}
Frame == [kind : {"CID", "RID", "AMD", "AMR", "MSG"}, alias : Aliases,
          node : Nodes]

Fr(k, a, n) == [kind |-> k, alias |-> a, node |-> n]
Reserved(n) == {a \in Aliases : local[n][a] = "reserved"}
Assigned(n) == {a \in Aliases : local[n][a] = "assigned"}
Elems(s) == {s[i] : i \in 1..Len(s)}
Least(S) == CHOOSE a \in S : \A b \in S : a <= b

Init ==
    /\ state = [n \in Nodes |-> "idle"]
    /\ pend = [n \in Nodes |-> 0]
    /\ cid = [n \in Nodes |-> 0]
    /\ conflict = {}
    /\ timer = [n \in Nodes |-> "idle"]
    /\ req = [n \in Nodes |-> 0]
    /\ local = [n \in Nodes |-> [a \in Aliases |-> "none"]]
    /\ remote = [n \in Nodes |-> [a \in Aliases |-> "none"]]
    /\ client = [n \in Nodes |-> [f \in Flows |-> "terminated"]]
    /\ src = [n \in Nodes |-> [f \in Flows |-> 0]]
    /\ out = [n \in Nodes |-> << >>]
    /\ seen = [n \in Nodes |-> << >>]
    /\ timely \in BOOLEAN
    /\ msgs = 0
    /\ strayed = {}
    /\ crashed = FALSE
-----------------------------------------------------------------------------
(* The allocator. *)

\* get_new_seed(): the next alias of the sequence that neither cache knows.
\* The sequence does not return to an alias before it has tried the others.
NewSeeds(n) == {a \in Aliases : /\ local[n][a] = "none"
                                /\ remote[n][a] = "none"
                                /\ a # pend[n]}

\* entry(), also from handle_alias_conflict(): a new alias, from the start.
Begin(n) ==
    /\ \E a \in NewSeeds(n) : pend' = [pend EXCEPT ![n] = a]
    /\ cid' = [cid EXCEPT ![n] = 7]
    /\ conflict' = conflict \ {n}
    /\ state' = [state EXCEPT ![n] = "send_cid_frame"]

\* The allocator takes a request from its queue.
Entry(n) ==
    /\ ~crashed
    /\ state[n] = "idle" /\ req[n] > 0
    /\ req' = [req EXCEPT ![n] = @ - 1]
    /\ Begin(n)
    /\ UNCHANGED <<timer, local, remote, client, src, out, seen, timely, msgs, strayed, crashed>>

\* send_cid_frame()
SendCid(n) ==
    /\ ~crashed
    /\ state[n] = "send_cid_frame"
    /\ IF n \in conflict
       THEN Begin(n) /\ UNCHANGED out
       ELSE /\ out' = [out EXCEPT ![n] = Append(@, Fr("CID", pend[n], n))]
            /\ cid' = [cid EXCEPT ![n] = @ - 1]
            /\ state' = [state EXCEPT ![n] = "handle_allocate_for_cid_frame"]
            /\ UNCHANGED <<pend, conflict>>
    /\ UNCHANGED <<timer, req, local, remote, client, src, seen, timely, msgs, strayed, crashed>>

\* handle_allocate_for_cid_frame(): more CID frames before the wait.
CidsLeft(n) == cid[n] >= 4

\* The answers to the CID frames of n are in: what the 200 ms are for.
Answered(n) ==
    \A m \in Nodes \ {n} : \A f \in Elems(out[m]) \cup Elems(seen[m]) :
        f.alias # pend[n]

\* The timer runs down, or was triggered, and goes to the executor.
TimerExpires(n) ==
    /\ ~crashed
    /\ \/ timer[n] = "active" /\ (timely => Answered(n))
       \/ timer[n] = "triggered"
    /\ timer' = [timer EXCEPT ![n] = "expired"]
    /\ UNCHANGED <<state, pend, cid, conflict, req, local, remote, client, src,
                   out, seen, timely, msgs, strayed, crashed>>

\* Timer::run(): isExpired_ is cleared and the flow is notified.
TimerRun(n) ==
    /\ ~crashed
    /\ timer[n] = "expired"
    /\ timer' = [timer EXCEPT ![n] = "notified"]
    /\ UNCHANGED <<state, pend, cid, conflict, req, local, remote, client, src,
                   out, seen, timely, msgs, strayed, crashed>>

\* wait_done()
WaitDone(n) ==
    /\ ~crashed
    /\ state[n] = "wait_done" /\ timer[n] = "notified"
    /\ timer' = [timer EXCEPT ![n] = "idle"]
    /\ IF n \in conflict THEN Begin(n)
       ELSE /\ state' = [state EXCEPT ![n] = "send_rid_frame"]
            /\ UNCHANGED <<pend, cid, conflict>>
    /\ UNCHANGED <<req, local, remote, client, src, out, seen, timely, msgs, strayed, crashed>>

\* add_allocated_alias(): one waiting client is woken up.
WakeOne(n) ==
    IF \E f \in Flows : client[n][f] = "waiting"
    THEN \E f \in Flows : /\ client[n][f] = "waiting"
                          /\ client' = [client EXCEPT ![n][f] = "allocate_new_alias"]
    ELSE UNCHANGED client

\* Mutant: the conflict that came in while the frame was allocated is missed.
SendRid_NoCheck(n) ==
    /\ ~crashed
    /\ state[n] = "send_rid_frame"
    /\ out' = [out EXCEPT ![n] = Append(@, Fr("RID", pend[n], n))]
    /\ local' = [local EXCEPT ![n][pend[n]] = "reserved"]
    /\ WakeOne(n)
    /\ state' = [state EXCEPT ![n] = "idle"]
    /\ pend' = [pend EXCEPT ![n] = 0]
    /\ UNCHANGED <<cid, conflict, timer, req, remote, src, seen, timely, msgs, strayed, crashed>>

\* send_rid_frame()
SendRid(n) ==
    /\ ~crashed
    /\ state[n] = "send_rid_frame"
    /\ IF n \in conflict
       THEN Begin(n) /\ UNCHANGED <<local, client, out>>
       ELSE /\ out' = [out EXCEPT ![n] = Append(@, Fr("RID", pend[n], n))]
            /\ local' = [local EXCEPT ![n][pend[n]] = "reserved"]
            /\ WakeOne(n)
            /\ state' = [state EXCEPT ![n] = "idle"]
            /\ pend' = [pend EXCEPT ![n] = 0]
            /\ UNCHANGED <<cid, conflict>>
    /\ UNCHANGED <<timer, req, remote, src, seen, timely, msgs, strayed, crashed>>
-----------------------------------------------------------------------------
(* The bus and the flows that handle incoming frames. *)

\* ConflictHandler::send(): the interfaces that learn of a conflict from a
\* frame with alias a on the bus.
Alarmed(n, a) == {m \in Nodes \ ({n} \cup conflict) :
                     state[m] # "idle" /\ pend[m] = a}

\* The first frame of n wins the bus.  Everybody else has it dispatched; the
\* allocator of n goes on after a CID frame.
Transmit(n) ==
    /\ ~crashed
    /\ out[n] # << >>
    /\ \A m \in Nodes \ {n} : Len(seen[m]) < MaxSeen
    /\ LET f == Head(out[n])
           hit == Alarmed(n, f.alias)
           asleep == {m \in hit : state[m] = "wait_done"}
           sent == f.kind = "CID" /\ state[n] = "handle_allocate_for_cid_frame"
           last == sent /\ ~CidsLeft(n)
       IN  /\ out' = [out EXCEPT ![n] = Tail(@)]
           /\ seen' = [m \in Nodes |-> IF m = n THEN seen[m] ELSE Append(seen[m], f)]
           /\ conflict' = conflict \cup hit
           /\ timer' = [m \in Nodes |->
                 IF m \in asleep /\ timer[m] = "active" THEN "triggered"
                 ELSE IF m = n /\ last THEN "active" ELSE timer[m]]
           /\ state' = IF ~sent THEN state
                       ELSE [state EXCEPT ![n] = IF last THEN "wait_done"
                                                 ELSE "send_cid_frame"]
           /\ crashed' = \E m \in asleep : timer[m] = "notified"
    /\ UNCHANGED <<pend, cid, req, local, remote, client, src, timely, msgs, strayed>>

\* Mutant: an RID frame does not count as use of the alias.
Defend_IgnoreRid(m, f) ==
    IF local[m][f.alias] = "none" \/ f.kind = "RID" THEN UNCHANGED <<local, out>>
    ELSE IF f.kind = "CID"
    THEN /\ out' = [out EXCEPT ![m] = Append(@, Fr("RID", f.alias, m))]
         /\ UNCHANGED local
    ELSE /\ local' = [local EXCEPT ![m][f.alias] = "none"]
         /\ out' = IF local[m][f.alias] = "reserved" THEN out
                   ELSE [out EXCEPT ![m] = Append(@, Fr("AMR", f.alias, m))]

\* AliasConflictHandler: a CID frame for an alias of ours is answered, any
\* other use of it makes us give it up.
Defend(m, f) ==
    IF local[m][f.alias] = "none" THEN UNCHANGED <<local, out>>
    ELSE IF f.kind = "CID"
    THEN /\ out' = [out EXCEPT ![m] = Append(@, Fr("RID", f.alias, m))]
         /\ UNCHANGED local
    ELSE /\ local' = [local EXCEPT ![m][f.alias] = "none"]
         /\ out' = IF local[m][f.alias] = "reserved" THEN out
                   ELSE [out EXCEPT ![m] = Append(@, Fr("AMR", f.alias, m))]

\* RemoteAliasCacheUpdater: what the cache r becomes.
Updated(r, f) ==
    CASE f.kind = "AMD" -> [a \in Aliases |-> IF a = f.alias THEN f.node
                                              ELSE IF r[a] = f.node THEN "none"
                                              ELSE r[a]]
      [] f.kind = "AMR" -> [a \in Aliases |->
                               IF a = f.alias \/ r[a] = f.node THEN "none" ELSE r[a]]
      [] OTHER -> r

\* The handler flows of m come to run for the next frame.
HandleFrame(m) ==
    /\ ~crashed
    /\ seen[m] # << >>
    /\ seen' = [seen EXCEPT ![m] = Tail(@)]
    /\ Defend(m, Head(seen[m]))
    /\ remote' = [remote EXCEPT ![m] = Updated(@, Head(seen[m]))]
    /\ UNCHANGED <<alloc, client, src, timely, msgs, strayed, crashed>>
-----------------------------------------------------------------------------
(* The write flows. *)

\* The application sends a message from the virtual node of n.
SendMessage(n, f) ==
    /\ ~crashed
    /\ client[n][f] = "terminated" /\ msgs < MaxMsgs
    /\ msgs' = msgs + 1
    /\ client' = [client EXCEPT ![n][f] = "find_local_alias"]
    /\ UNCHANGED <<alloc, local, remote, src, out, seen, timely, strayed, crashed>>

\* find_local_alias(): the node has an alias.
UseAlias(n, f) ==
    /\ ~crashed
    /\ client[n][f] = "find_local_alias"
    /\ \E a \in Assigned(n) : src' = [src EXCEPT ![n][f] = a]
    /\ client' = [client EXCEPT ![n][f] = "fill_can_frame_buffer"]
    /\ UNCHANGED <<alloc, local, remote, out, seen, timely, msgs, strayed, crashed>>

\* allocate_new_alias(), get_allocated_alias(): with a reserved alias, which
\* becomes the node's alias instead of the one it may have got meanwhile.
TakeAlias(n, f) ==
    /\ ~crashed
    /\ \/ client[n][f] = "find_local_alias" /\ Assigned(n) = {}
       \/ client[n][f] = "allocate_new_alias"
    /\ Reserved(n) # {}
    /\ LET a == Least(Reserved(n)) IN
       /\ src' = [src EXCEPT ![n][f] = a]
       /\ local' = [local EXCEPT ![n] =
              [b \in Aliases |-> IF b = a THEN "assigned"
                                 ELSE IF b \in Assigned(n) THEN "none" ELSE @[b]]]
       /\ req' = IF Reserve = 1 /\ Reserved(n) = {a}
                 THEN [req EXCEPT ![n] = @ + 1] ELSE req
    /\ client' = [client EXCEPT ![n][f] = "send_amd_frame"]
    /\ UNCHANGED <<state, pend, cid, conflict, timer, remote, out, seen, timely,
                   msgs, strayed, crashed>>

\* Mutant: no request while the allocator is busy with another one.
AskForAlias_OneAtATime(n, f) ==
    /\ ~crashed
    /\ \/ client[n][f] = "find_local_alias" /\ Assigned(n) = {}
       \/ client[n][f] = "allocate_new_alias"
    /\ Reserved(n) = {}
    /\ req' = IF state[n] = "idle" THEN [req EXCEPT ![n] = @ + 1] ELSE req
    /\ client' = [client EXCEPT ![n][f] = "waiting"]
    /\ UNCHANGED <<state, pend, cid, conflict, timer, local, remote, src, out,
                   seen, timely, msgs, strayed, crashed>>

\* allocate_new_alias(), get_allocated_alias(): without one, ask and wait.
AskForAlias(n, f) ==
    /\ ~crashed
    /\ \/ client[n][f] = "find_local_alias" /\ Assigned(n) = {}
       \/ client[n][f] = "allocate_new_alias"
    /\ Reserved(n) = {}
    /\ req' = [req EXCEPT ![n] = @ + 1]
    /\ client' = [client EXCEPT ![n][f] = "waiting"]
    /\ UNCHANGED <<state, pend, cid, conflict, timer, local, remote, src, out,
                   seen, timely, msgs, strayed, crashed>>

\* send_amd_frame(), once there is a frame buffer.
SendAmd(n, f) ==
    /\ ~crashed
    /\ client[n][f] = "send_amd_frame"
    /\ out' = [out EXCEPT ![n] = Append(@, Fr("AMD", src[n][f], n))]
    /\ client' = [client EXCEPT ![n][f] = "fill_can_frame_buffer"]
    /\ strayed' = IF local[n][src[n][f]] = "assigned" THEN strayed ELSE strayed \cup {n}
    /\ UNCHANGED <<alloc, local, remote, src, seen, timely, msgs, crashed>>

\* fill_can_frame_buffer(), once there is another: the message, one frame.
FillFrame(n, f) ==
    /\ ~crashed
    /\ client[n][f] = "fill_can_frame_buffer"
    /\ out' = [out EXCEPT ![n] = Append(@, Fr("MSG", src[n][f], n))]
    /\ client' = [client EXCEPT ![n][f] = "terminated"]
    /\ UNCHANGED <<alloc, local, remote, src, seen, timely, msgs, strayed, crashed>>

\* Mutant: the AMR frame is not sent.
ReturnAlias_NoAmr(n) ==
    /\ ~crashed
    /\ \A f \in Flows : client[n][f] = "terminated"
    /\ \E a \in Assigned(n) :
          local' = [local EXCEPT ![n][a] = "reserved"]
    /\ UNCHANGED <<alloc, out, remote, client, src, seen, timely, msgs, strayed, crashed>>

\* IfCan::delete_local_node(), return_alias(): once the node sends no more.
ReturnAlias(n) ==
    /\ ~crashed
    /\ \A f \in Flows : client[n][f] = "terminated"
    /\ \E a \in Assigned(n) :
          /\ out' = [out EXCEPT ![n] = Append(@, Fr("AMR", a, n))]
          /\ local' = [local EXCEPT ![n][a] = "reserved"]
    /\ UNCHANGED <<alloc, remote, client, src, seen, timely, msgs, strayed, crashed>>
-----------------------------------------------------------------------------
Next ==
    \/ \E n \in Nodes : \/ Entry(n) \/ SendCid(n) \/ WaitDone(n) \/ SendRid(n)
                       \/ TimerExpires(n) \/ TimerRun(n)
                       \/ Transmit(n) \/ HandleFrame(n) \/ ReturnAlias(n)
    \/ \E n \in Nodes, f \in Flows :
          \/ SendMessage(n, f) \/ UseAlias(n, f) \/ TakeAlias(n, f)
          \/ AskForAlias(n, f) \/ SendAmd(n, f) \/ FillFrame(n, f)

Spec == Init /\ [][Next]_vars
-----------------------------------------------------------------------------
\* Type correctness of interfaces, caches and frames.
TypeOK ==
    /\ state \in [Nodes -> States]
    /\ pend \in [Nodes -> Aliases \cup {0}]
    /\ cid \in [Nodes -> {0, 3, 4, 5, 6, 7}]
    /\ conflict \subseteq Nodes
    /\ timer \in [Nodes -> {"idle", "active", "triggered", "expired", "notified"}]
    /\ req \in [Nodes -> Nat]
    /\ local \in [Nodes -> [Aliases -> {"none", "reserved", "assigned"}]]
    /\ remote \in [Nodes -> [Aliases -> Nodes \cup {"none"}]]
    /\ client \in [Nodes -> [Flows -> ClientStates]]
    /\ src \in [Nodes -> [Flows -> Aliases \cup {0}]]
    /\ out \in [Nodes -> Seq(Frame)] /\ seen \in [Nodes -> Seq(Frame)]
    /\ timely \in BOOLEAN
    /\ msgs \in 0..MaxMsgs /\ strayed \subseteq Nodes /\ crashed \in BOOLEAN

\* When frames are handled in time, no two interfaces hold the same alias,
\* reserved or in use.
UniqueAlias ==
    timely =>
    \A n, m \in Nodes : \A a \in Aliases :
        local[n][a] # "none" /\ local[m][a] # "none" => n = m

\* Frames of n with alias a that are still to be handled by m.
Coming(n, m, a) == \E f \in Elems(out[n]) \cup Elems(seen[m]) :
                      f.alias = a /\ f.node = n /\ f.kind # "CID"

\* When two interfaces hold the same alias after all, a frame that makes one
\* of them give it up is already on its way: no duplicate is stable.
DuplicateIsNoticed ==
    \A n, m \in Nodes : \A a \in Aliases :
        n # m /\ local[n][a] # "none" /\ local[m][a] # "none" =>
            Coming(n, m, a) \/ Coming(m, n, a)

\* A node that has no alias any more, because of a conflict or because it was
\* deleted, does not stay in a remote cache: the frame that takes it out is
\* under way.  Unless a write flow of the node announced an alias after it was
\* lost: nobody takes back that announcement.
StaleMappingIsCorrected ==
    \A m, n \in Nodes : \A a \in Aliases :
        remote[m][a] = n /\ Assigned(n) = {} /\ n \notin strayed =>
            \E f \in Elems(out[n]) \cup Elems(seen[m]) :
                f.node = n /\ f.kind = "AMR"

\* A flow announces an alias (AMD) that is still its node's own.
AnnouncesOwnAlias ==
    \A n \in Nodes, f \in Flows :
        client[n][f] = "send_amd_frame" => local[n][src[n][f]] = "assigned"

\* Every write flow that waits for an alias has a request under way that will
\* wake it: none is forgotten when one alias wakes one flow.
WaitingHasRequest ==
    \A n \in Nodes :
        Cardinality({f \in Flows : client[n][f] = "waiting"})
            <= req[n] + (IF state[n] = "idle" THEN 0 ELSE 1)

\* "This will request the timer callback to be issued immediately, which avoids
\* race condition between the trigger and the regular timeout call."
\* (AliasAllocator.cpp, ConflictHandler::send()): trigger() finds the timer
\* active or expired.
TriggerAssert == ~crashed
=============================================================================

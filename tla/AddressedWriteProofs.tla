------------------------ MODULE AddressedWriteProofs ------------------------
(***************************************************************************)
(* For any number of destinations, aliases, messages and frames: the       *)
(* listener is registered exactly while it is needed, and a message is     *)
(* dropped only when its destination was silent.                           *)
(*                                                                         *)
(* Both need what the flow knows of dstAlias_: while it looks, it is 0 or  *)
(* what the listener heard (LooksForAlias), and as long as it is 0 nothing *)
(* was heard (SilentSoFar).                                                *)
(***************************************************************************)
EXTENDS AddressedWrite, SequenceTheorems, TLAPS

\* While the flow looks for an alias it has none, or one it has heard.
LooksForAlias == state \in Lookup => dstAlias \in Aliases \cup {0}

\* The listener hears every announcement of the destination.
SilentSoFar == ~crashed /\ state \in Lookup /\ dstAlias = 0 => silent

LookInv == TypeOK /\ LooksForAlias /\ ListensWhileLooking /\ SilentSoFar

\* What AliasCache::add() leaves in the remote cache.
LEMMA AddRemoteType ==
    ASSUME TypeOK, NEW d, NEW a \in Aliases \cup {0, NOT_RESPONDING}
    PROVE  AddRemote(d, a) \in [Dsts -> Aliases \cup {0, NOT_RESPONDING}]
BY DEF TypeOK, AddRemote

\* The listener and the record of silence, for an announcement with a real
\* alias: the flow that looks for this destination has it now.
LEMMA ListenerKeeps ==
    ASSUME LookInv, ~crashed, NEW d \in Dsts, NEW a \in Aliases,
           Listener(d, a), Heard(d), UNCHANGED <<state, dst>>
    PROVE  /\ dstAlias' \in Aliases \cup {0, NOT_RESPONDING}
           /\ state' = "find_local_alias" => dstAlias' \in Aliases
           /\ timer' \in {"idle", "active", "triggered", "expired", "notified"}
           /\ listening' \in BOOLEAN /\ silent' \in BOOLEAN /\ crashed' \in BOOLEAN
           /\ remote' \in [Dsts -> Aliases \cup {0, NOT_RESPONDING}]
           /\ LooksForAlias' /\ ListensWhileLooking' /\ SilentSoFar'
<1>1. a # 0
  BY WriteAssumption DEF WriteAssumption
<1>2. CASE ~(listening /\ d = dst)
  <2>1. UNCHANGED <<dstAlias, timer, listening, remote, crashed>>
    BY <1>2 DEF Listener
  <2>2. silent' \in BOOLEAN
    BY DEF LookInv, TypeOK, Heard
  <2>3. SilentSoFar'
    BY <1>2, <2>1 DEF LookInv, SilentSoFar, ListensWhileLooking, Heard
  <2> QED BY <2>1, <2>2, <2>3 DEF LookInv, TypeOK, LooksForAlias, ListensWhileLooking
<1>3. CASE listening /\ d = dst
  <2>1. /\ dstAlias' = a /\ listening' = FALSE /\ remote' = AddRemote(d, a)
        /\ timer' = IF timer = "active" THEN "triggered" ELSE timer
        /\ crashed' = (timer \in {"idle", "notified"})
    BY <1>3 DEF Listener
  <2>2. silent' \in BOOLEAN
    BY DEF LookInv, TypeOK, Heard
  <2>3. remote' \in [Dsts -> Aliases \cup {0, NOT_RESPONDING}]
    BY <2>1, AddRemoteType DEF LookInv
  <2>4. state \in Lookup
    BY <1>3 DEF LookInv, ListensWhileLooking
  <2>5. crashed' \in BOOLEAN
    BY <2>1
  <2>6. timer' \in {"idle", "active", "triggered", "expired", "notified"}
    BY <2>1 DEF LookInv, TypeOK
  <2> QED BY <1>1, <2>1, <2>2, <2>3, <2>4, <2>5, <2>6
          DEF Lookup, LooksForAlias, ListensWhileLooking, SilentSoFar
<1> QED BY <1>2, <1>3

\* A frame that the updater will see.
LEMMA SeenType ==
    ASSUME TypeOK, NEW k \in {"AMD", "AMR"}, NEW d \in Dsts, NEW a \in Aliases
    PROVE  Append(seen, [kind |-> k, node |-> d, alias |-> a]) \in Seq(Frame)
<1>1. [kind |-> k, node |-> d, alias |-> a] \in Frame
  BY DEF Frame
<1> QED BY <1>1, AppendProperties DEF TypeOK

\* The invariant holds before any flow has started.
LEMMA LookInit == Init => LookInv
<1> SUFFICES ASSUME Init PROVE LookInv
  OBVIOUS
<1>1. seen \in Seq(Frame)
  BY EmptySeq DEF Init
<1>2. msgs \in 0..MaxMsgs /\ frames \in 0..MaxFrames
  BY WriteAssumption DEF WriteAssumption, Init
<1>3. /\ remote \in [Dsts -> Aliases \cup {0, NOT_RESPONDING}]
      /\ nodeAlias \in [Dsts -> Aliases \cup {0}]
  BY DEF Init
<1> QED BY <1>1, <1>2, <1>3
        DEF Init, LookInv, TypeOK, States, Lookup, LooksForAlias,
            ListensWhileLooking, SilentSoFar

\* The steps of the flow and its timer.
LEMMA WriteKeeps == LookInv /\ Write => LookInv'
<1> SUFFICES ASSUME LookInv, Write PROVE LookInv'
  OBVIOUS
<1> USE DEF LookInv, LooksForAlias, ListensWhileLooking, SilentSoFar, TypeOK,
            States, Lookup, bus
<1>1. CASE SendAmeFrame
  BY <1>1 DEF SendAmeFrame
<1>2. CASE SendVerify
  BY <1>2 DEF SendVerify
<1>3. CASE FillVerify
  BY <1>3 DEF FillVerify
<1>4. CASE WaitLooking
  <2>1. CASE dstAlias # 0
    BY <1>4, <2>1 DEF WaitLooking
  <2>2. CASE dstAlias = 0
    <3>1. GiveUp /\ UNCHANGED <<dst, dstAlias, seen, nodeAlias, frames, silent, msgs, crashed>>
      BY <1>4, <2>2 DEF WaitLooking
    <3>2. remote' \in [Dsts -> Aliases \cup {0, NOT_RESPONDING}]
      BY <3>1, AddRemoteType DEF GiveUp
    <3>3. defined' \subseteq Dsts
      BY <3>1 DEF GiveUp
    <3> QED BY <1>4, <3>1, <3>2, <3>3 DEF WaitLooking, GiveUp
  <2> QED BY <2>1, <2>2
<1>5. CASE SendFrames
  BY <1>5 DEF SendFrames
<1>6. CASE TimerExpires
  BY <1>6 DEF TimerExpires
<1>7. CASE TimerRun
  BY <1>7 DEF TimerRun
<1> QED BY <1>1, <1>2, <1>3, <1>4, <1>5, <1>6, <1>7 DEF Write

\* A message is handed to the flow.
LEMMA MessageKeeps ==
    LookInv /\ (\/ \E d \in Dsts, a \in Aliases \cup {0} : SendToNode(d, a)
                \/ \E a \in Aliases \cup LocalAliases : SendToAlias(a)) => LookInv'
<1> USE DEF LookInv, LooksForAlias, ListensWhileLooking, SilentSoFar, TypeOK,
            States, Lookup, bus
<1>1. ASSUME LookInv, NEW d \in Dsts, NEW a \in Aliases \cup {0}, SendToNode(d, a)
      PROVE  LookInv'
  <2>1. msgs' \in 0..MaxMsgs
    BY <1>1, WriteAssumption DEF WriteAssumption, SendToNode
  <2>2. dstAlias' \in Aliases \cup {0, NOT_RESPONDING}
    BY <1>1 DEF SendToNode
  <2>3. CASE dstAlias' = NOT_RESPONDING
    BY <1>1, <2>1, <2>2, <2>3 DEF SendToNode
  <2>4. CASE dstAlias' # NOT_RESPONDING /\ dstAlias' # 0
    BY <1>1, <2>1, <2>2, <2>4 DEF SendToNode
  <2>5. CASE dstAlias' = 0
    <3>1. FindRemoteAlias
      BY <1>1, <2>5, WriteAssumption DEF WriteAssumption, SendToNode
    <3> QED BY <1>1, <2>1, <2>2, <2>5, <3>1 DEF SendToNode, FindRemoteAlias
  <2> QED BY <2>3, <2>4, <2>5
<1>2. ASSUME LookInv, NEW a \in Aliases \cup LocalAliases, SendToAlias(a)
      PROVE  LookInv'
  <2>1. msgs' \in 0..MaxMsgs
    BY <1>2, WriteAssumption DEF WriteAssumption, SendToAlias
  <2> QED BY <1>2, <2>1 DEF SendToAlias
<1> QED BY <1>1, <1>2

\* Frames of the destinations come in.
LEMMA FrameKeeps ==
    ASSUME LookInv, NEW d \in Dsts,
           \/ \E a \in Aliases : NewAlias(d, a)
           \/ SendAmd(d) \/ SendVerified(d)
           \/ \E amr \in BOOLEAN : LoseAlias(d, amr)
    PROVE  LookInv'
<1>0. frames \in 0..MaxFrames /\ MaxFrames \in Nat
  BY WriteAssumption DEF WriteAssumption, LookInv, TypeOK
<1>1. ASSUME NEW a \in Aliases, NewAlias(d, a) PROVE LookInv'
  <2>1. /\ ~crashed /\ Listener(d, a) /\ Heard(d) /\ UNCHANGED <<state, dst, msgs>>
        /\ seen' = Append(seen, [kind |-> "AMD", node |-> d, alias |-> a])
        /\ nodeAlias' = [nodeAlias EXCEPT ![d] = a]
        /\ defined' = defined \cup {d}
    BY <1>1 DEF NewAlias
  <2>2. frames' \in 0..MaxFrames
    BY <1>0, <1>1 DEF NewAlias
  <2>3. seen' \in Seq(Frame)
    BY <2>1, SeenType DEF LookInv
  <2>4. nodeAlias' \in [Dsts -> Aliases \cup {0}]
    BY <2>1 DEF LookInv, TypeOK
  <2> QED BY <2>1, <2>2, <2>3, <2>4, ListenerKeeps DEF LookInv, TypeOK
<1>2. ASSUME SendAmd(d) PROVE LookInv'
  <2> DEFINE a == nodeAlias[d]
  <2>1. /\ ~crashed /\ Listener(d, a) /\ Heard(d)
        /\ UNCHANGED <<state, dst, nodeAlias, msgs>>
        /\ seen' = Append(seen, [kind |-> "AMD", node |-> d, alias |-> a])
        /\ defined' = defined \cup {d}
    BY <1>2 DEF SendAmd
  <2>2. a \in Aliases
    BY <1>2 DEF SendAmd, LookInv, TypeOK
  <2>3. frames' \in 0..MaxFrames
    BY <1>0, <1>2 DEF SendAmd
  <2> HIDE DEF a
  <2>4. seen' \in Seq(Frame)
    BY <2>1, <2>2, SeenType DEF LookInv
  <2> QED BY <2>1, <2>2, <2>3, <2>4, ListenerKeeps DEF LookInv, TypeOK
<1>3. ASSUME SendVerified(d) PROVE LookInv'
  <2> DEFINE a == nodeAlias[d]
  <2>1. /\ ~crashed /\ Listener(d, a) /\ Heard(d)
        /\ UNCHANGED <<state, dst, seen, nodeAlias, defined, msgs>>
    BY <1>3 DEF SendVerified
  <2>2. a \in Aliases
    BY <1>3 DEF SendVerified, LookInv, TypeOK
  <2>3. frames' \in 0..MaxFrames
    BY <1>0, <1>3 DEF SendVerified
  <2> HIDE DEF a
  <2> QED BY <2>1, <2>2, <2>3, ListenerKeeps DEF LookInv, TypeOK
<1>4. ASSUME NEW amr \in BOOLEAN, LoseAlias(d, amr) PROVE LookInv'
  <2>1. UNCHANGED <<state, dst, dstAlias, timer, listening, defined, remote,
                    silent, msgs, crashed>>
    BY <1>4 DEF LoseAlias, flow
  <2>2. nodeAlias[d] \in Aliases
    BY <1>4 DEF LoseAlias, LookInv, TypeOK
  <2>3. Append(seen, [kind |-> "AMR", node |-> d, alias |-> nodeAlias[d]]) \in Seq(Frame)
    BY <2>2, SeenType DEF LookInv
  <2>4. seen' \in Seq(Frame)
    BY <1>4, <2>3 DEF LoseAlias, LookInv, TypeOK
  <2>5. frames' \in 0..MaxFrames
    BY <1>0, <1>4 DEF LoseAlias
  <2>6. nodeAlias' \in [Dsts -> Aliases \cup {0}]
    BY <1>4 DEF LoseAlias, LookInv, TypeOK
  <2> QED BY <2>1, <2>4, <2>5, <2>6
          DEF LookInv, TypeOK, LooksForAlias, ListensWhileLooking, SilentSoFar
<1> QED BY <1>1, <1>2, <1>3, <1>4

\* The cache changes under the flow.
LEMMA CacheKeeps == LookInv /\ (UpdateCache \/ GlobalEnquiry) => LookInv'
<1>1. ASSUME LookInv, UpdateCache PROVE LookInv'
  <2> DEFINE f == Head(seen)
  <2>1. seen # << >> /\ seen \in Seq(Frame)
    BY <1>1 DEF UpdateCache, LookInv, TypeOK
  <2>2. f \in Frame /\ seen' \in Seq(Frame)
    BY <1>1, <2>1, HeadTailProperties DEF UpdateCache
  <2>3. f.alias \in Aliases
    BY <2>2 DEF Frame
  <2>4. \/ remote' = Updated(f)
        \/ \E e \in Dsts : remote' = [Updated(f) EXCEPT ![e] = IF e = f.node /\ f.kind = "AMD"
                                                 THEN @ ELSE 0]
    BY <1>1 DEF UpdateCache
  <2> HIDE DEF f
  <2>5. AddRemote(f.node, f.alias) \in [Dsts -> Aliases \cup {0, NOT_RESPONDING}]
    BY <1>1, <2>3, AddRemoteType DEF LookInv
  <2>6. Updated(f) \in [Dsts -> Aliases \cup {0, NOT_RESPONDING}]
    BY <1>1, <2>5 DEF Updated, LookInv, TypeOK
  <2>7. remote' \in [Dsts -> Aliases \cup {0, NOT_RESPONDING}]
    BY <2>4, <2>6
  <2> QED BY <1>1, <2>2, <2>7
          DEF UpdateCache, flow, LookInv, TypeOK, LooksForAlias,
              ListensWhileLooking, SilentSoFar
<1>2. ASSUME LookInv, GlobalEnquiry PROVE LookInv'
  <2>1. frames' \in 0..MaxFrames
    BY <1>2, WriteAssumption DEF WriteAssumption, GlobalEnquiry, LookInv, TypeOK
  <2> QED BY <1>2, <2>1
          DEF GlobalEnquiry, flow, LookInv, TypeOK, LooksForAlias,
              ListensWhileLooking, SilentSoFar
<1> QED BY <1>1, <1>2

\* Every step keeps it: one case for each state of the flow and for each frame.
LEMMA LookStep == LookInv /\ [Next]_vars => LookInv'
<1>1. LookInv /\ UNCHANGED vars => LookInv'
  BY DEF vars, flow, bus, LookInv, TypeOK, LooksForAlias, ListensWhileLooking,
         SilentSoFar
<1>2. ASSUME LookInv, Next PROVE LookInv'
  BY <1>2, WriteKeeps, MessageKeeps, FrameKeeps, CacheKeeps DEF Next
<1> QED BY <1>1, <1>2

\* The flow, its caches and its frames keep their types; what goes out has an
\* alias for its destination.
THEOREM TypeCorrect == Spec => []TypeOK
<1>1. LookInv => TypeOK
  BY DEF LookInv
<1> QED BY <1>1, LookInit, LookStep, PTL DEF Spec

\* The handlers of AliasDefListener are registered exactly while the flow
\* looks for an alias it does not have.
THEOREM ListenerIsBalanced == Spec => []ListensWhileLooking
<1>1. LookInv => ListensWhileLooking
  BY DEF LookInv
<1> QED BY <1>1, LookInit, LookStep, PTL DEF Spec

\* AddressedCanMessageWriteFlow drops a message and marks its destination only
\* when no announcement of the destination came in since the enquiry began.
THEOREM NoDropAfterAnswer == Spec => DroppedOnlyInSilence
<1> DEFINE Dropped == state = "wait_looking_for_dst" /\ state' = "idle"
<1>1. ASSUME LookInv, [Next]_vars, Dropped PROVE silent
  <2>1. state = "wait_looking_for_dst" /\ state' = "idle"
    BY <1>1
  <2>2. WaitLooking
    BY <1>1, <2>1
    DEF Next, Write, SendAmeFrame, SendVerify, FillVerify, SendFrames,
        TimerExpires, TimerRun, SendToNode, SendToAlias, NewAlias, SendAmd,
        SendVerified, LoseAlias, UpdateCache, GlobalEnquiry, vars, flow
  <2>3. ~crashed /\ dstAlias = 0
    BY <2>1, <2>2 DEF WaitLooking
  <2> QED BY <1>1, <2>1, <2>3 DEF LookInv, SilentSoFar, Lookup
<1>2. LookInv /\ [Next]_vars => [Dropped => silent]_vars
  BY <1>1
<1> QED BY <1>2, LookInit, LookStep, PTL DEF Spec, DroppedOnlyInSilence
-----------------------------------------------------------------------------
(***************************************************************************)
(* The mark NOT_RESPONDING.  Only the flow sets it, and it forgets what    *)
(* the destination had defined; the listener and the updater only replace  *)
(* it.  A frame that defines the alias of a marked node is therefore still *)
(* in the updater's queue.                                                 *)
(***************************************************************************)
DefinedIn(q, d) == \E i \in 1..Len(q) : q[i].kind = "AMD" /\ q[i].node = d

\* add() with a real alias marks nobody.
LEMMA AddMarksNobody ==
    ASSUME TypeOK, NEW d, NEW a \in Aliases, NEW e \in Dsts,
           AddRemote(d, a)[e] = NOT_RESPONDING
    PROVE  e # d /\ remote[e] = NOT_RESPONDING
BY WriteAssumption DEF WriteAssumption, AddRemote, TypeOK

\* One more frame in the queue of the updater.
LEMMA SeenGrows ==
    ASSUME TypeOK, NEW k \in {"AMD", "AMR"}, NEW d \in Dsts, NEW a \in Aliases,
           NEW q, q = Append(seen, [kind |-> k, node |-> d, alias |-> a])
    PROVE  /\ \A e : DefinedIn(seen, e) => DefinedIn(q, e)
           /\ k = "AMD" => DefinedIn(q, d)
<1> DEFINE f == [kind |-> k, node |-> d, alias |-> a]
<1>1. f \in Frame /\ f.kind = k /\ f.node = d /\ q = Append(seen, f)
  BY DEF Frame
<1> HIDE DEF f
<1>2. /\ Len(seen) \in Nat /\ Len(q) = Len(seen) + 1 /\ q[Len(seen) + 1] = f
      /\ \A i \in 1..Len(seen) : q[i] = seen[i]
  BY <1>1, AppendProperties DEF TypeOK
<1>3. \A i \in 1..Len(seen) : i \in 1..Len(q)
  BY <1>2
<1>4. Len(seen) + 1 \in 1..Len(q)
  BY <1>2
<1> QED BY <1>1, <1>2, <1>3, <1>4 DEF DefinedIn

\* An announcement that the listener may take (AliasDefListener::send) sets no mark.
LEMMA ListenerMarksNobody ==
    ASSUME TypeOK, NEW d \in Dsts, NEW a \in Aliases, Listener(d, a)
    PROVE  \A e \in Dsts : remote'[e] = NOT_RESPONDING => remote[e] = NOT_RESPONDING
<1>1. remote' = remote \/ remote' = AddRemote(d, a)
  BY DEF Listener
<1> QED BY <1>1, AddMarksNobody

\* What the updater has taken from its queue is no longer marked
\* (RemoteAliasCacheUpdater).
LEMMA UpdateLifts ==
    ASSUME LookInv, MarkIsLifted, UpdateCache
    PROVE  MarkIsLifted'
<1> DEFINE f == Head(seen)
           q == Tail(seen)
<1>1. TypeOK /\ seen # << >> /\ seen \in Seq(Frame)
  BY DEF UpdateCache, LookInv, TypeOK
<1>2. /\ f = seen[1] /\ f \in Frame /\ Len(seen) \in Nat \ {0} /\ Len(q) = Len(seen) - 1
      /\ \A i \in 1..Len(q) : q[i] = seen[i + 1]
  BY <1>1, HeadTailProperties
<1>3. /\ seen' = q /\ defined' = defined
      /\ \/ remote' = Updated(f)
         \/ \E e \in Dsts : remote' = [Updated(f) EXCEPT ![e] = IF e = f.node /\ f.kind = "AMD"
                                                  THEN @ ELSE 0]
  BY DEF UpdateCache
<1>4. f.alias \in Aliases /\ f.node \in Dsts /\ f.kind \in {"AMD", "AMR"}
  BY <1>2 DEF Frame
<1> HIDE DEF f, q
<1>5. Updated(f) = IF f.kind = "AMD" THEN AddRemote(f.node, f.alias)
                   ELSE [e \in Dsts |-> IF remote[e] = f.alias \/
                                           (e = f.node /\ remote[e] # NOT_RESPONDING) THEN 0
                                        ELSE remote[e]]
  BY DEF Updated
<1>6. ASSUME NEW d \in Dsts, Updated(f)[d] = NOT_RESPONDING
      PROVE  remote[d] = NOT_RESPONDING /\ ~(f.kind = "AMD" /\ f.node = d)
  <2>1. CASE f.kind = "AMD"
    <3>1. AddRemote(f.node, f.alias)[d] = NOT_RESPONDING
      BY <1>5, <1>6, <2>1
    <3> QED BY <1>1, <1>4, <3>1, AddMarksNobody
  <2>2. CASE f.kind # "AMD"
    BY <1>5, <1>6, <2>2, WriteAssumption DEF WriteAssumption
  <2> QED BY <2>1, <2>2
<1>7. DOMAIN Updated(f) = Dsts
  BY <1>5 DEF AddRemote
<1>8. \A d \in Dsts : remote'[d] = NOT_RESPONDING => Updated(f)[d] = NOT_RESPONDING
  <2>1. ASSUME NEW e \in Dsts, NEW d \in Dsts, remote'[d] = NOT_RESPONDING,
               remote' = [Updated(f) EXCEPT ![e] = IF e = f.node /\ f.kind = "AMD"
                                                   THEN @ ELSE 0]
        PROVE  Updated(f)[d] = NOT_RESPONDING
    BY <1>7, <2>1, WriteAssumption DEF WriteAssumption
  <2> QED BY <1>3, <2>1
<1>9. ASSUME NEW d \in Dsts, remote'[d] = NOT_RESPONDING, d \in defined'
      PROVE  \E i \in 1..Len(seen') : seen'[i].kind = "AMD" /\ seen'[i].node = d
  <2>1. remote[d] = NOT_RESPONDING /\ ~(f.kind = "AMD" /\ f.node = d)
    BY <1>6, <1>8, <1>9
  <2>2. PICK i \in 1..Len(seen) : seen[i].kind = "AMD" /\ seen[i].node = d
    BY <1>3, <1>9, <2>1 DEF MarkIsLifted
  <2>3. i # 1
    BY <1>2, <2>1, <2>2
  <2>4. i - 1 \in 1..Len(q) /\ (i - 1) + 1 = i
    BY <1>2, <2>3
  <2>5. q[i - 1] = seen[i]
    BY <1>2, <2>4
  <2> QED BY <1>3, <2>2, <2>4, <2>5
<1> QED BY <1>9 DEF MarkIsLifted

\* The steps that leave the cache, the queue and the record of definitions.
LEMMA MarkUntouched ==
    ASSUME MarkIsLifted, UNCHANGED <<remote, seen, defined>>
    PROVE  MarkIsLifted'
BY DEF MarkIsLifted

\* Frames of the destinations: what they define is queued for the updater.
LEMMA FrameLifts ==
    ASSUME LookInv, MarkIsLifted, NEW d \in Dsts,
           \/ \E a \in Aliases : NewAlias(d, a)
           \/ SendAmd(d) \/ SendVerified(d)
           \/ \E amr \in BOOLEAN : LoseAlias(d, amr)
    PROVE  MarkIsLifted'
<1>1. TypeOK
  BY DEF LookInv
<1>2. ASSUME NEW a \in Aliases, Listener(d, a), defined' = defined \cup {d},
             seen' = Append(seen, [kind |-> "AMD", node |-> d, alias |-> a])
      PROVE  MarkIsLifted'
  <2>1. \A e \in Dsts : remote'[e] = NOT_RESPONDING => remote[e] = NOT_RESPONDING
    BY <1>1, <1>2, ListenerMarksNobody
  <2>2. (\A e : DefinedIn(seen, e) => DefinedIn(seen', e)) /\ DefinedIn(seen', d)
    BY <1>1, <1>2, SeenGrows
  <2>3. \A e \in Dsts : remote[e] = NOT_RESPONDING /\ e \in defined => DefinedIn(seen, e)
    BY DEF MarkIsLifted, DefinedIn
  <2>4. \A e \in Dsts : remote'[e] = NOT_RESPONDING /\ e \in defined' => DefinedIn(seen', e)
    BY <1>2, <2>1, <2>2, <2>3
  <2> QED BY <2>4 DEF MarkIsLifted, DefinedIn
<1>3. ASSUME NEW a \in Aliases, NewAlias(d, a) PROVE MarkIsLifted'
  BY <1>2, <1>3 DEF NewAlias
<1>4. ASSUME SendAmd(d) PROVE MarkIsLifted'
  <2>1. \A a : a = nodeAlias[d] => a \in Aliases /\ Listener(d, a)
               /\ defined' = defined \cup {d}
               /\ seen' = Append(seen, [kind |-> "AMD", node |-> d, alias |-> a])
    BY <1>1, <1>4 DEF SendAmd, TypeOK
  <2> QED BY <1>2, <2>1
<1>5. ASSUME SendVerified(d) PROVE MarkIsLifted'
  <2>1. nodeAlias[d] \in Aliases /\ Listener(d, nodeAlias[d]) /\ UNCHANGED <<seen, defined>>
    BY <1>1, <1>5 DEF SendVerified, TypeOK
  <2>2. \A e \in Dsts : remote'[e] = NOT_RESPONDING => remote[e] = NOT_RESPONDING
    BY <1>1, <2>1, ListenerMarksNobody
  <2> QED BY <2>1, <2>2 DEF MarkIsLifted
<1>6. ASSUME NEW amr \in BOOLEAN, LoseAlias(d, amr) PROVE MarkIsLifted'
  <2>1. nodeAlias[d] \in Aliases /\ UNCHANGED <<remote, defined>>
    BY <1>1, <1>6 DEF LoseAlias, TypeOK
  <2>2. \A e : DefinedIn(seen, e) => DefinedIn(seen', e)
    <3>1. seen' = seen
          \/ \E a \in Aliases : seen' = Append(seen, [kind |-> "AMR", node |-> d, alias |-> a])
      BY <1>6, <2>1 DEF LoseAlias
    <3> QED BY <1>1, <3>1, SeenGrows
  <2> QED BY <2>1, <2>2 DEF MarkIsLifted, DefinedIn
<1> QED BY <1>3, <1>4, <1>5, <1>6

\* Every step keeps it.
LEMMA MarkStep == LookInv /\ MarkIsLifted /\ [Next]_vars => MarkIsLifted'
<1> SUFFICES ASSUME LookInv, MarkIsLifted, [Next]_vars PROVE MarkIsLifted'
  OBVIOUS
<1>1. CASE UNCHANGED vars
  BY <1>1, MarkUntouched DEF vars, bus
<1>2. CASE WaitLooking /\ GiveUp
  <2>1. /\ remote' = AddRemote(dst, NOT_RESPONDING)
        /\ defined' = defined \ {dst} /\ seen' = seen
    BY <1>2 DEF WaitLooking, GiveUp
  <2>2. \A e \in Dsts : e # dst => remote'[e] = remote[e]
    BY <2>1 DEF AddRemote
  <2> QED BY <2>1, <2>2 DEF MarkIsLifted
<1>3. CASE Write /\ ~(WaitLooking /\ GiveUp)
  <2>1. UNCHANGED <<remote, seen, defined>>
    BY <1>3 DEF Write, SendAmeFrame, SendVerify, FillVerify, WaitLooking, SendFrames,
                TimerExpires, TimerRun, bus
  <2> QED BY <2>1, MarkUntouched
<1>4. CASE \/ \E d \in Dsts, a \in Aliases \cup {0} : SendToNode(d, a)
           \/ \E a \in Aliases \cup LocalAliases : SendToAlias(a)
  <2>1. UNCHANGED <<remote, seen, defined>>
    BY <1>4 DEF SendToNode, SendToAlias, bus
  <2> QED BY <2>1, MarkUntouched
<1>5. ASSUME NEW d \in Dsts,
             \/ \E a \in Aliases : NewAlias(d, a)
             \/ SendAmd(d) \/ SendVerified(d)
             \/ \E amr \in BOOLEAN : LoseAlias(d, amr)
      PROVE  MarkIsLifted'
  BY <1>5, FrameLifts
<1>6. CASE UpdateCache
  BY <1>6, UpdateLifts
<1>7. CASE GlobalEnquiry
  <2>1. \A d \in Dsts : remote'[d] # NOT_RESPONDING
    BY <1>7, WriteAssumption DEF GlobalEnquiry, WriteAssumption
  <2> QED BY <2>1 DEF MarkIsLifted
<1> QED BY <1>1, <1>2, <1>3, <1>4, <1>5, <1>6, <1>7 DEF Next

\* A node that is still marked as not responding, after the flow that set the
\* mark has given up and for as long as it stays silent, is reachable again once
\* the updater has seen an AMD frame of it: no step sets the mark behind a frame
\* that was already taken (wait_looking_for_dst, RemoteAliasCacheUpdater).
THEOREM AmdLiftsTheMark == Spec => []MarkIsLifted
<1>1. Init => MarkIsLifted
  BY DEF Init, MarkIsLifted
<1> QED BY <1>1, LookInit, LookStep, MarkStep, PTL DEF Spec
=============================================================================

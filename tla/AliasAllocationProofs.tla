------------------------ MODULE AliasAllocationProofs ------------------------
(***************************************************************************)
(* What holds of AliasAllocation for any number of interfaces, aliases and *)
(* write flows, any messages and any delay: who may hold an alias, what    *)
(* ends a duplicate, what takes a lost alias out of the caches of the      *)
(* others, and that no write flow waits for nothing.                       *)
(***************************************************************************)
EXTENDS AliasAllocation, SequenceTheorems, FiniteSetTheorems, WellFoundedInduction, TLAPS

\* The allocator has not yet put a CID frame for its pending alias on the bus.
Quiet(n) == cid[n] = 7 \/ (cid[n] = 6 /\ state[n] = "handle_allocate_for_cid_frame")

\* The 200 ms are over.
Cleared(n) == \/ state[n] = "send_rid_frame"
              \/ state[n] = "wait_done" /\ timer[n] \in {"expired", "notified"}

\* The allocator is after alias a and has not seen anybody else use it.
Probing(n, a) == state[n] # "idle" /\ pend[n] = a /\ n \notin conflict

\* The state of each allocator.
AllocInv ==
    \A n \in Nodes :
        /\ state[n] = "idle" <=> pend[n] = 0
        /\ state[n] = "send_cid_frame" => cid[n] \in {4, 5, 6, 7}
        /\ state[n] = "handle_allocate_for_cid_frame" => cid[n] \in {3, 4, 5, 6}
        /\ state[n] \in {"wait_done", "send_rid_frame"} => cid[n] = 3
        /\ state[n] = "wait_done" <=> timer[n] # "idle"
        /\ timer[n] = "triggered" => n \in conflict

\* A write flow that is past find_local_alias() has an alias.
SrcInv ==
    \A n \in Nodes, f \in Flows :
        client[n][f] \in {"send_amd_frame", "fill_can_frame_buffer"} => src[n][f] \in Aliases

\* Frames name their sender; the only CID frame is the one the allocator waits
\* for.
OutInv ==
    \A n \in Nodes : \A i \in 1..Len(out[n]) :
        /\ out[n][i].node = n
        /\ out[n][i].kind = "CID" =>
              /\ state[n] = "handle_allocate_for_cid_frame" /\ out[n][i].alias = pend[n]
              /\ \A j \in 1..Len(out[n]) : out[n][j].kind = "CID" => i = j

\* Of two allocators after the same alias, the one that began later has not
\* sent anything, or one of them knows of the other.
OneProbes ==
    \A n, m \in Nodes : \A a \in Aliases :
        n # m /\ Probing(n, a) /\ Probing(m, a) => Quiet(n) \/ Quiet(m)

\* A frame with alias a that m has sent or has still to answer.
Pending(m, a) == \E f \in Elems(out[m]) \cup Elems(seen[m]) : f.alias = a

\* An alias that is being allocated is not held by the interface itself.
PendingIsFree ==
    \A n \in Nodes : \A a \in Aliases : pend[n] = a => local[n][a] = "none"

\* Who holds the alias an allocator is after has something to say, and the
\* allocator will hear it before it takes the alias.
HolderAnswers ==
    timely =>
    \A n, m \in Nodes : \A a \in Aliases :
        n # m /\ Probing(n, a) /\ ~Quiet(n) /\ local[m][a] # "none" =>
            ~Cleared(n) /\ Pending(m, a)

\* An interface does not hear its own frames.
HearsOthers ==
    \A n \in Nodes : /\ \A i \in 1..Len(seen[n]) : seen[n][i].node # n
                     /\ \A a \in Aliases : remote[n][a] # n

\* After place i of the frames s there is an AMR frame of n.
AmrAfter(s, i, n) ==
    \E j \in 1..Len(s) : i < j /\ s[j].kind = "AMR" /\ s[j].node = n

\* Every announcement of n in s is taken back by an AMR frame, in s or later
\* among the frames o that n has still to send.
TakenBack(s, n, o) ==
    \A i \in 1..Len(s) : s[i].kind = "AMD" /\ s[i].node = n =>
        AmrAfter(s, i, n) \/ AmrAfter(o, 0, n)

\* Every mapping to n in the cache r will be taken out.
TakenOut(r, s, n, o) ==
    \A a \in Aliases : r[a] = n => AmrAfter(s, 0, n) \/ AmrAfter(o, 0, n)

\* The announcements of a node without an alias end with an AMR frame.
AnnouncedLast ==
    \A n \in Nodes : Assigned(n) = {} /\ n \notin strayed =>
        /\ TakenBack(out[n], n, << >>)
        /\ \A m \in Nodes \ {n} : /\ TakenBack(seen[m], n, out[n])
                                  /\ TakenOut(remote[m], seen[m], n, out[n])

Inv == /\ TypeOK /\ AllocInv /\ SrcInv /\ OutInv /\ OneProbes /\ PendingIsFree
       /\ HolderAnswers /\ UniqueAlias /\ DuplicateIsNoticed /\ HearsOthers
       /\ AnnouncedLast /\ WaitingHasRequest
-----------------------------------------------------------------------------
(* Sequences of frames. *)

\* A set of numbers has a least one.
LEMMA LeastIs ==
    ASSUME NEW S, S \subseteq Nat, S # {}
    PROVE  Least(S) \in S
<1> DEFINE R == {ss \in Nat \X Nat : ss[1] < ss[2]}
<1>1. IsWellFoundedOn(R, Nat)
  BY NatLessThanWellFounded, Zenon DEF OpToRel
<1>2. \A a, b \in Nat : a < b => <<a, b>> \in R
  OBVIOUS
<1> HIDE DEF R
<1>3. PICK m \in S : \A n \in S : ~(<<n, m>> \in R)
  BY <1>1, WFMin, Zenon
<1>4. \A n \in S : m \in Nat /\ n \in Nat /\ ~(n < m)
  BY <1>2, <1>3, Zenon
<1>5. \A n \in S : m <= n
  BY <1>4
<1> QED BY <1>5 DEF Least

\* What Append does.
LEMMA AppendIs ==
    ASSUME NEW S, NEW s \in Seq(S), NEW x \in S
    PROVE  /\ Append(s, x) \in Seq(S) /\ Len(s) \in Nat /\ Len(Append(s, x)) = Len(s) + 1
           /\ \A i \in 1..Len(s) : Append(s, x)[i] = s[i]
           /\ Append(s, x)[Len(s) + 1] = x
           /\ Elems(Append(s, x)) = Elems(s) \cup {x}
<1>1. /\ Append(s, x) \in Seq(S) /\ Len(s) \in Nat /\ Len(Append(s, x)) = Len(s) + 1
      /\ \A i \in 1..Len(s) : Append(s, x)[i] = s[i]
      /\ Append(s, x)[Len(s) + 1] = x
  BY AppendProperties
<1> DEFINE t == Append(s, x)
<1> HIDE DEF t
<1>2. Elems(t) = Elems(s) \cup {x}
  <2>1. t[Len(s) + 1] = x /\ Len(t) = Len(s) + 1 /\ Len(s) \in Nat
        /\ \A i \in 1..Len(s) : t[i] = s[i]
    BY <1>1 DEF t
  <2>2. \A i \in 1..Len(t) : i \in 1..Len(s) \/ i = Len(s) + 1
    BY <2>1
  <2>3. Len(s) + 1 \in 1..Len(t) /\ \A i \in 1..Len(s) : i \in 1..Len(t)
    BY <2>1
  <2> QED BY <2>1, <2>2, <2>3 DEF Elems
<1> QED BY <1>1, <1>2 DEF t

\* What Head and Tail do.
LEMMA TailIs ==
    ASSUME NEW S, NEW s \in Seq(S), s # << >>
    PROVE  /\ Tail(s) \in Seq(S) /\ Len(s) \in Nat /\ Len(s) > 0 /\ Len(Tail(s)) = Len(s) - 1
           /\ Head(s) = s[1] /\ s[1] \in S
           /\ \A i \in 1..Len(Tail(s)) : i \in Nat /\ i + 1 \in 1..Len(s) /\ Tail(s)[i] = s[i + 1]
           /\ Elems(s) = {Head(s)} \cup Elems(Tail(s))
<1>1. /\ Tail(s) \in Seq(S) /\ Len(s) \in Nat /\ Len(s) > 0 /\ Len(Tail(s)) = Len(s) - 1
      /\ Head(s) = s[1] /\ s[1] \in S
      /\ \A i \in 1..Len(s) - 1 : Tail(s)[i] = s[i + 1]
  BY HeadTailProperties, EmptySeq
<1> DEFINE t == Tail(s)
<1>2. /\ t \in Seq(S) /\ Len(s) \in Nat /\ Len(s) > 0 /\ Len(t) = Len(s) - 1
      /\ Head(s) = s[1] /\ s[1] \in S
      /\ \A i \in 1..Len(s) - 1 : t[i] = s[i + 1]
  BY <1>1
<1> HIDE DEF t
<1>3. \A i \in 1..Len(t) : i \in Nat /\ i + 1 \in 1..Len(s) /\ t[i] = s[i + 1]
  BY <1>2
<1>4. Elems(s) = {Head(s)} \cup Elems(t)
  <2>1. \A i \in 1..Len(s) : i = 1 \/ (i - 1 \in 1..Len(t) /\ (i - 1) + 1 = i)
    BY <1>2
  <2>2. 1 \in 1..Len(s)
    BY <1>2
  <2>3. ASSUME NEW i \in 1..Len(s) PROVE s[i] = s[1] \/ s[i] \in Elems(t)
    <3>1. CASE i = 1
      BY <3>1
    <3>2. CASE i - 1 \in 1..Len(t) /\ (i - 1) + 1 = i
      <4>1. t[i - 1] = s[i]
        BY <1>3, <3>2
      <4> QED BY <3>2, <4>1 DEF Elems
    <3> QED BY <2>1, <3>1, <3>2
  <2>4. ASSUME NEW i \in 1..Len(t) PROVE t[i] \in Elems(s)
    BY <1>3 DEF Elems
  <2>5. Elems(s) \subseteq {Head(s)} \cup Elems(t)
    BY <1>2, <2>3 DEF Elems
  <2>6. {Head(s)} \cup Elems(t) \subseteq Elems(s)
    BY <1>2, <2>2, <2>4 DEF Elems
  <2> QED BY <2>5, <2>6
<1> QED BY <1>2, <1>3, <1>4 DEF t

\* A frame has its fields.
LEMMA FrIs ==
    ASSUME NEW k \in {"CID", "RID", "AMD", "AMR", "MSG"}, NEW a \in Aliases, NEW n \in Nodes
    PROVE  Fr(k, a, n) \in Frame /\ Fr(k, a, n).kind = k /\ Fr(k, a, n).alias = a
           /\ Fr(k, a, n).node = n
BY DEF Fr, Frame

\* n hands a frame to the frame write flow.
LEMMA PutIs ==
    ASSUME TypeOK, NEW n \in Nodes, NEW f \in Frame, out' = [out EXCEPT ![n] = Append(@, f)]
    PROVE  /\ out' \in [Nodes -> Seq(Frame)]
           /\ \A m \in Nodes \ {n} : out'[m] = out[m]
           /\ Len(out[n]) \in Nat /\ Len(out'[n]) = Len(out[n]) + 1
           /\ \A i \in 1..Len(out[n]) : out'[n][i] = out[n][i]
           /\ out'[n][Len(out[n]) + 1] = f
           /\ Elems(out'[n]) = Elems(out[n]) \cup {f}
<1>1. out \in [Nodes -> Seq(Frame)] /\ out[n] \in Seq(Frame)
  BY DEF TypeOK
<1>2. out'[n] = Append(out[n], f) /\ \A m \in Nodes \ {n} : out'[m] = out[m]
  BY <1>1
<1>3. Append(out[n], f) \in Seq(Frame)
  BY <1>1, AppendIs
<1>4. out' \in [Nodes -> Seq(Frame)]
  BY <1>1, <1>3
<1> QED BY <1>1, <1>2, <1>4, AppendIs

\* What a step that sends nothing to the bus may do to the frames of its node.
Grows ==
    /\ out' \in [Nodes -> Seq(Frame)]
    /\ \A m \in Nodes : /\ Elems(out[m]) \subseteq Elems(out'[m])
                        /\ Len(out[m]) \in Nat /\ Len(out'[m]) \in Nat
                        /\ Len(out[m]) <= Len(out'[m])
                        /\ \A i \in 1..Len(out[m]) : out'[m][i] = out[m][i]

\* Nothing is sent.
LEMMA SameGrows ==
    ASSUME TypeOK, out' = out
    PROVE  Grows
<1>1. \A m \in Nodes : Len(out[m]) \in Nat
  BY LenProperties DEF TypeOK
<1> QED BY <1>1 DEF Grows, TypeOK

\* One frame is sent.
LEMMA PutGrows ==
    ASSUME TypeOK, NEW n \in Nodes, NEW f \in Frame, out' = [out EXCEPT ![n] = Append(@, f)]
    PROVE  Grows
<1>1. \A m \in Nodes : Len(out[m]) \in Nat
  BY LenProperties DEF TypeOK
<1>2. /\ out' \in [Nodes -> Seq(Frame)] /\ \A m \in Nodes \ {n} : out'[m] = out[m]
      /\ Len(out[n]) \in Nat /\ Len(out'[n]) = Len(out[n]) + 1
      /\ \A i \in 1..Len(out[n]) : out'[n][i] = out[n][i]
      /\ Elems(out'[n]) = Elems(out[n]) \cup {f}
  BY PutIs
<1>3. ASSUME NEW m \in Nodes
      PROVE  /\ Elems(out[m]) \subseteq Elems(out'[m])
             /\ Len(out[m]) \in Nat /\ Len(out'[m]) \in Nat /\ Len(out[m]) <= Len(out'[m])
             /\ \A i \in 1..Len(out[m]) : out'[m][i] = out[m][i]
  <2>1. CASE m = n
    BY <1>2, <2>1
  <2>2. CASE m # n
    BY <1>1, <1>2, <2>2
  <2> QED BY <2>1, <2>2
<1> QED BY <1>2, <1>3 DEF Grows

\* The first frame of n wins the bus.
LEMMA TransmitIs ==
    ASSUME TypeOK, NEW n \in Nodes, Transmit(n)
    PROVE  LET f == out[n][1] IN
           /\ f \in Frame /\ f = Head(out[n]) /\ 1 \in 1..Len(out[n])
           /\ out' \in [Nodes -> Seq(Frame)] /\ seen' \in [Nodes -> Seq(Frame)]
           /\ \A m \in Nodes \ {n} : out'[m] = out[m]
           /\ \A i \in 1..Len(out'[n]) : /\ i \in Nat /\ i + 1 \in 1..Len(out[n])
                                         /\ out'[n][i] = out[n][i + 1]
           /\ Len(out[n]) \in Nat /\ Len(out'[n]) = Len(out[n]) - 1
           /\ Elems(out[n]) = Elems(out'[n]) \cup {f}
           /\ seen'[n] = seen[n]
           /\ \A m \in Nodes \ {n} :
                 /\ Len(seen[m]) \in Nat /\ Len(seen'[m]) = Len(seen[m]) + 1
                 /\ \A i \in 1..Len(seen[m]) : seen'[m][i] = seen[m][i]
                 /\ seen'[m][Len(seen[m]) + 1] = f
                 /\ Elems(seen'[m]) = Elems(seen[m]) \cup {f}
<1> DEFINE f == Head(out[n])
<1>1. /\ out \in [Nodes -> Seq(Frame)] /\ out[n] \in Seq(Frame) /\ out[n] # << >>
      /\ seen \in [Nodes -> Seq(Frame)] /\ \A m \in Nodes : seen[m] \in Seq(Frame)
      /\ out' = [out EXCEPT ![n] = Tail(@)]
      /\ seen' = [m \in Nodes |-> IF m = n THEN seen[m] ELSE Append(seen[m], f)]
  BY DEF TypeOK, Transmit
<1>2. /\ Tail(out[n]) \in Seq(Frame) /\ Len(out[n]) \in Nat /\ Len(out[n]) > 0
      /\ Len(Tail(out[n])) = Len(out[n]) - 1 /\ f = out[n][1] /\ out[n][1] \in Frame
      /\ \A i \in 1..Len(Tail(out[n])) : /\ i \in Nat /\ i + 1 \in 1..Len(out[n])
                                         /\ Tail(out[n])[i] = out[n][i + 1]
      /\ Elems(out[n]) = {f} \cup Elems(Tail(out[n]))
  BY <1>1, TailIs
<1>3. out'[n] = Tail(out[n]) /\ \A m \in Nodes \ {n} : out'[m] = out[m]
  BY <1>1
<1>4. out' \in [Nodes -> Seq(Frame)]
  BY <1>1, <1>2
<1>5. \A m \in Nodes \ {n} : seen'[m] = Append(seen[m], f)
  BY <1>1
<1>6. f \in Frame /\ seen'[n] = seen[n]
  BY <1>1, <1>2
<1> HIDE DEF f
<1>7. \A m \in Nodes \ {n} :
         /\ Append(seen[m], f) \in Seq(Frame)
         /\ Len(seen[m]) \in Nat /\ Len(seen'[m]) = Len(seen[m]) + 1
         /\ \A i \in 1..Len(seen[m]) : seen'[m][i] = seen[m][i]
         /\ seen'[m][Len(seen[m]) + 1] = f
         /\ Elems(seen'[m]) = Elems(seen[m]) \cup {f}
  BY <1>1, <1>5, <1>6, AppendIs
<1>8. seen' \in [Nodes -> Seq(Frame)]
  BY <1>1, <1>7
<1>9. 1 \in 1..Len(out[n])
  BY <1>2
<1> QED BY <1>2, <1>3, <1>4, <1>6, <1>7, <1>8, <1>9 DEF f

\* The handler flows take the next frame.
LEMMA HandleIs ==
    ASSUME TypeOK, NEW m \in Nodes, HandleFrame(m)
    PROVE  LET f == seen[m][1] IN
           /\ f \in Frame /\ f = Head(seen[m]) /\ 1 \in 1..Len(seen[m])
           /\ seen' \in [Nodes -> Seq(Frame)]
           /\ \A k \in Nodes \ {m} : seen'[k] = seen[k]
           /\ \A i \in 1..Len(seen'[m]) : /\ i \in Nat /\ i + 1 \in 1..Len(seen[m])
                                          /\ seen'[m][i] = seen[m][i + 1]
           /\ Len(seen[m]) \in Nat /\ Len(seen'[m]) = Len(seen[m]) - 1
           /\ Elems(seen[m]) = Elems(seen'[m]) \cup {f}
<1>1. /\ seen \in [Nodes -> Seq(Frame)] /\ seen[m] \in Seq(Frame) /\ seen[m] # << >>
      /\ seen' = [seen EXCEPT ![m] = Tail(@)]
  BY DEF TypeOK, HandleFrame
<1>2. /\ Tail(seen[m]) \in Seq(Frame) /\ Len(seen[m]) \in Nat /\ Len(seen[m]) > 0
      /\ Len(Tail(seen[m])) = Len(seen[m]) - 1 /\ Head(seen[m]) = seen[m][1]
      /\ seen[m][1] \in Frame
      /\ \A i \in 1..Len(Tail(seen[m])) : /\ i \in Nat /\ i + 1 \in 1..Len(seen[m])
                                          /\ Tail(seen[m])[i] = seen[m][i + 1]
      /\ Elems(seen[m]) = {Head(seen[m])} \cup Elems(Tail(seen[m]))
  BY <1>1, TailIs
<1>3. seen'[m] = Tail(seen[m]) /\ \A k \in Nodes \ {m} : seen'[k] = seen[k]
  BY <1>1
<1>4. seen' \in [Nodes -> Seq(Frame)]
  BY <1>1, <1>2
<1>5. 1 \in 1..Len(seen[m])
  BY <1>2
<1> QED BY <1>2, <1>3, <1>4, <1>5
-----------------------------------------------------------------------------
(* Types, and the state of the allocators. *)

\* get_new_seed() gives an alias that neither cache of the interface knows.
LEMMA BeginIs ==
    ASSUME TypeOK, NEW n \in Nodes, Begin(n)
    PROVE  \E a \in Aliases :
              /\ a \in Nat \ {0} /\ local[n][a] = "none"
              /\ pend' = [pend EXCEPT ![n] = a] /\ pend'[n] = a
              /\ cid'[n] = 7 /\ state'[n] = "send_cid_frame" /\ conflict' = conflict \ {n}
              /\ \A m \in Nodes \ {n} : /\ pend'[m] = pend[m] /\ cid'[m] = cid[m]
                                        /\ state'[m] = state[m]
              /\ pend' \in [Nodes -> Aliases \cup {0}]
              /\ cid' \in [Nodes -> {0, 3, 4, 5, 6, 7}]
              /\ state' \in [Nodes -> States]
<1>1. PICK a \in NewSeeds(n) : pend' = [pend EXCEPT ![n] = a]
  BY DEF Begin
<1>2. a \in Aliases /\ local[n][a] = "none" /\ a \in Nat \ {0}
  BY AllocationAssumption DEF NewSeeds
<1> QED BY <1>1, <1>2 DEF Begin, TypeOK, States

\* What the bus does to the allocators.
LEMMA TransmitAlloc ==
    ASSUME TypeOK, AllocInv, OutInv, NEW n \in Nodes, Transmit(n)
    PROVE  LET f == out[n][1]
               sent == f.kind = "CID"
               last == sent /\ ~CidsLeft(n)
           IN
           /\ UNCHANGED <<pend, cid>> /\ conflict' = conflict \cup Alarmed(n, f.alias)
           /\ sent => state[n] = "handle_allocate_for_cid_frame" /\ f.alias = pend[n]
           /\ \A m \in Nodes \ {n} : state'[m] = state[m]
           /\ state'[n] = (IF ~sent THEN state[n]
                           ELSE IF last THEN "wait_done" ELSE "send_cid_frame")
           /\ \A m \in Nodes \ {n} :
                 \/ timer'[m] = timer[m]
                 \/ timer'[m] = "triggered" /\ m \in conflict' /\ timer[m] = "active"
           /\ timer'[n] = (IF last THEN "active" ELSE timer[n])
           /\ state' \in [Nodes -> States]
           /\ timer' \in [Nodes -> {"idle", "active", "triggered", "expired", "notified"}]
           /\ conflict' \subseteq Nodes
<1> DEFINE f == out[n][1]
           hit == Alarmed(n, f.alias)
           asleep == {m \in hit : state[m] = "wait_done"}
           sent == f.kind = "CID" /\ state[n] = "handle_allocate_for_cid_frame"
           last == sent /\ ~CidsLeft(n)
<1>1. f = Head(out[n]) /\ 1 \in 1..Len(out[n])
  BY TransmitIs
<1>2. /\ UNCHANGED <<pend, cid>> /\ conflict' = conflict \cup hit
      /\ timer' = [m \in Nodes |->
                 IF m \in asleep /\ timer[m] = "active" THEN "triggered"
                 ELSE IF m = n /\ last THEN "active" ELSE timer[m]]
      /\ state' = (IF ~sent THEN state
                   ELSE [state EXCEPT ![n] = IF last THEN "wait_done" ELSE "send_cid_frame"])
  BY <1>1 DEF Transmit
<1>3. f.kind = "CID" => state[n] = "handle_allocate_for_cid_frame" /\ f.alias = pend[n]
  BY <1>1 DEF OutInv
<1>4. hit \subseteq Nodes \ {n} /\ n \notin asleep
  BY DEF Alarmed
<1>5. /\ state \in [Nodes -> States] /\ conflict \subseteq Nodes
      /\ timer \in [Nodes -> {"idle", "active", "triggered", "expired", "notified"}]
  BY DEF TypeOK
<1> HIDE DEF f, hit
<1>6. /\ \A m \in Nodes \ {n} : state'[m] = state[m]
      /\ state'[n] = (IF ~sent THEN state[n]
                      ELSE IF last THEN "wait_done" ELSE "send_cid_frame")
      /\ state' \in [Nodes -> States]
  BY <1>2, <1>5 DEF States
<1>7. /\ \A m \in Nodes \ {n} :
            \/ timer'[m] = timer[m]
            \/ timer'[m] = "triggered" /\ m \in hit /\ timer[m] = "active"
      /\ timer'[n] = (IF last THEN "active" ELSE timer[n])
      /\ timer' \in [Nodes -> {"idle", "active", "triggered", "expired", "notified"}]
  BY <1>2, <1>4, <1>5
<1>8. sent <=> f.kind = "CID"
  BY <1>3
<1>9. /\ \A m \in Nodes \ {n} :
            \/ timer'[m] = timer[m]
            \/ timer'[m] = "triggered" /\ m \in conflict' /\ timer[m] = "active"
      /\ conflict' \subseteq Nodes
  BY <1>2, <1>4, <1>5, <1>7
<1> QED BY <1>2, <1>3, <1>6, <1>7, <1>8, <1>9 DEF f, hit

\* The actions of the handler and write flows leave the allocators alone.
Aside == \/ \E n \in Nodes : HandleFrame(n) \/ ReturnAlias(n)
         \/ \E n \in Nodes, f \in Flows :
               \/ SendMessage(n, f) \/ UseAlias(n, f) \/ TakeAlias(n, f)
               \/ AskForAlias(n, f) \/ SendAmd(n, f) \/ FillFrame(n, f)

\* They change nothing that AllocInv speaks of.
LEMMA AsideIs ==
    ASSUME Aside
    PROVE  UNCHANGED <<state, pend, cid, conflict, timer>>
BY DEF Aside, alloc, HandleFrame, ReturnAlias, SendMessage, UseAlias, TakeAlias, AskForAlias,
       SendAmd, FillFrame

\* The state of the allocators is kept.
LEMMA AllocKeeps ==
    ASSUME TypeOK, AllocInv, OutInv, Next
    PROVE  AllocInv'
<1>1. CASE Aside
  <2>1. UNCHANGED <<state, pend, cid, conflict, timer>>
    BY <1>1, AsideIs
  <2> QED BY <2>1 DEF AllocInv
<1>2. ASSUME NEW n \in Nodes, Entry(n) PROVE AllocInv'
  <2>1. state[n] = "idle" /\ Begin(n) /\ timer' = timer /\ timer[n] = "idle"
    BY <1>2 DEF Entry, AllocInv
  <2> QED BY <2>1, BeginIs DEF AllocInv
<1>3. ASSUME NEW n \in Nodes, SendCid(n) PROVE AllocInv'
  <2>1. state[n] = "send_cid_frame" /\ timer' = timer /\ timer[n] = "idle"
    BY <1>3 DEF SendCid, AllocInv
  <2>2. CASE n \in conflict
    <3>1. Begin(n)
      BY <1>3, <2>2 DEF SendCid
    <3> QED BY <2>1, <3>1, BeginIs DEF AllocInv
  <2>3. CASE n \notin conflict
    <3>1. /\ cid' = [cid EXCEPT ![n] = @ - 1] /\ UNCHANGED <<pend, conflict>>
          /\ state' = [state EXCEPT ![n] = "handle_allocate_for_cid_frame"]
      BY <1>3, <2>3 DEF SendCid
    <3>2. cid[n] \in {4, 5, 6, 7} /\ cid[n] - 1 \in {3, 4, 5, 6} /\ pend[n] # 0
      BY <2>1 DEF AllocInv
    <3> QED BY <2>1, <3>1, <3>2 DEF AllocInv, TypeOK
  <2> QED BY <2>2, <2>3
<1>4. ASSUME NEW n \in Nodes, WaitDone(n) PROVE AllocInv'
  <2>1. state[n] = "wait_done" /\ timer' = [timer EXCEPT ![n] = "idle"] /\ cid[n] = 3
    BY <1>4 DEF WaitDone, AllocInv
  <2>2. CASE n \in conflict
    <3>1. Begin(n)
      BY <1>4, <2>2 DEF WaitDone
    <3> QED BY <2>1, <3>1, BeginIs DEF AllocInv, TypeOK
  <2>3. CASE n \notin conflict
    <3>1. UNCHANGED <<pend, cid, conflict>> /\ state' = [state EXCEPT ![n] = "send_rid_frame"]
      BY <1>4, <2>3 DEF WaitDone
    <3> QED BY <2>1, <3>1 DEF AllocInv, TypeOK
  <2> QED BY <2>2, <2>3
<1>5. ASSUME NEW n \in Nodes, SendRid(n) PROVE AllocInv'
  <2>1. state[n] = "send_rid_frame" /\ timer' = timer /\ timer[n] = "idle"
    BY <1>5 DEF SendRid, AllocInv
  <2>2. CASE n \in conflict
    <3>1. Begin(n)
      BY <1>5, <2>2 DEF SendRid
    <3> QED BY <2>1, <3>1, BeginIs DEF AllocInv
  <2>3. CASE n \notin conflict
    <3>1. /\ UNCHANGED <<cid, conflict>> /\ state' = [state EXCEPT ![n] = "idle"]
          /\ pend' = [pend EXCEPT ![n] = 0]
      BY <1>5, <2>3 DEF SendRid
    <3> QED BY <2>1, <3>1 DEF AllocInv, TypeOK
  <2> QED BY <2>2, <2>3
<1>6. ASSUME NEW n \in Nodes, TimerExpires(n) \/ TimerRun(n) PROVE AllocInv'
  <2>1. /\ UNCHANGED <<state, pend, cid, conflict>> /\ timer[n] # "idle"
        /\ \E t \in {"expired", "notified"} : timer' = [timer EXCEPT ![n] = t]
    BY <1>6 DEF TimerExpires, TimerRun
  <2> QED BY <2>1 DEF AllocInv, TypeOK
<1>7. ASSUME NEW n \in Nodes, Transmit(n) PROVE AllocInv'
  <2> DEFINE f == out[n][1]
             sent == f.kind = "CID"
             last == sent /\ ~CidsLeft(n)
  <2>1. /\ UNCHANGED <<pend, cid>> /\ conflict' = conflict \cup Alarmed(n, f.alias)
        /\ sent => state[n] = "handle_allocate_for_cid_frame"
        /\ \A m \in Nodes \ {n} : state'[m] = state[m]
        /\ state'[n] = (IF ~sent THEN state[n]
                        ELSE IF last THEN "wait_done" ELSE "send_cid_frame")
        /\ \A m \in Nodes \ {n} :
              \/ timer'[m] = timer[m]
              \/ timer'[m] = "triggered" /\ m \in conflict' /\ timer[m] = "active"
        /\ timer'[n] = (IF last THEN "active" ELSE timer[n])
    BY <1>7, TransmitAlloc
  <2>2. sent => cid[n] \in {3, 4, 5, 6} /\ (last <=> cid[n] = 3)
    BY <2>1 DEF AllocInv, CidsLeft
  <2> HIDE DEF f, sent, last
  <2>3. ASSUME NEW m \in Nodes
        PROVE  /\ state'[m] = "idle" <=> pend'[m] = 0
               /\ state'[m] = "send_cid_frame" => cid'[m] \in {4, 5, 6, 7}
               /\ state'[m] = "handle_allocate_for_cid_frame" => cid'[m] \in {3, 4, 5, 6}
               /\ state'[m] \in {"wait_done", "send_rid_frame"} => cid'[m] = 3
               /\ state'[m] = "wait_done" <=> timer'[m] # "idle"
               /\ timer'[m] = "triggered" => m \in conflict'
    <3>1. CASE m # n
      BY <2>1, <3>1 DEF AllocInv
    <3>2. CASE m = n /\ ~sent
      <4>1. last => sent
        BY DEF last
      <4> QED BY <2>1, <3>2, <4>1 DEF AllocInv
    <3>3. CASE m = n /\ sent
      BY <2>1, <2>2, <3>3 DEF AllocInv
    <3> QED BY <3>1, <3>2, <3>3
  <2> QED BY <2>3 DEF AllocInv
<1> QED BY <1>1, <1>2, <1>3, <1>4, <1>5, <1>6, <1>7 DEF Next, Aside
-----------------------------------------------------------------------------
(* The local aliases. *)

Locals == {"none", "reserved", "assigned"}

\* AliasConflictHandler: what m keeps, and what it answers.
LEMMA DefendIs ==
    ASSUME TypeOK, NEW m \in Nodes, NEW f \in Frame, Defend(m, f)
    PROVE  /\ Grows /\ local' \in [Nodes -> [Aliases -> Locals]]
           /\ \A k \in Nodes \ {m} : out'[k] = out[k] /\ local'[k] = local[k]
           /\ \A a \in Aliases : local'[m][a] # "none" => local'[m][a] = local[m][a]
           /\ \A a \in Aliases : a # f.alias => local'[m][a] = local[m][a]
           /\ f.kind # "CID" => local'[m][f.alias] = "none"
           /\ f.kind = "CID" => local' = local
           /\ f.kind = "CID" /\ local[m][f.alias] # "none" =>
                 \E g \in Elems(out'[m]) : g.alias = f.alias
           /\ \/ out'[m] = out[m]
              \/ /\ Len(out'[m]) = Len(out[m]) + 1
                 /\ out'[m][Len(out[m]) + 1].node = m
                 /\ out'[m][Len(out[m]) + 1].kind \in {"RID", "AMR"}
           /\ f.kind # "CID" /\ local[m][f.alias] = "assigned" =>
                 /\ Len(out'[m]) = Len(out[m]) + 1
                 /\ out'[m][Len(out[m]) + 1].kind = "AMR"
<1>1. /\ local \in [Nodes -> [Aliases -> Locals]] /\ f.alias \in Aliases /\ local[m] \in [Aliases -> Locals]
      /\ local[m][f.alias] \in Locals
  BY DEF TypeOK, Frame, Locals
<1>2. CASE local[m][f.alias] = "none"
  <2>1. out' = out /\ local' = local
    BY <1>2 DEF Defend
  <2>2. Grows
    BY <2>1, SameGrows
  <2> QED BY <1>1, <1>2, <2>1, <2>2
<1>3. CASE local[m][f.alias] # "none" /\ f.kind = "CID"
  <2> DEFINE g == Fr("RID", f.alias, m)
  <2>1. out' = [out EXCEPT ![m] = Append(@, g)] /\ local' = local
    BY <1>3 DEF Defend
  <2>2. g \in Frame /\ g.kind = "RID" /\ g.alias = f.alias /\ g.node = m
    BY <1>1, FrIs
  <2> HIDE DEF g
  <2>3. Grows
    BY <2>1, <2>2, PutGrows
  <2>4. /\ \A k \in Nodes \ {m} : out'[k] = out[k]
        /\ Len(out'[m]) = Len(out[m]) + 1 /\ out'[m][Len(out[m]) + 1] = g
        /\ Elems(out'[m]) = Elems(out[m]) \cup {g}
    BY <2>1, <2>2, PutIs
  <2> QED BY <1>1, <1>3, <2>1, <2>2, <2>3, <2>4
<1>4. CASE local[m][f.alias] # "none" /\ f.kind # "CID"
  <2>1. /\ local' = [local EXCEPT ![m][f.alias] = "none"]
        /\ out' = (IF local[m][f.alias] = "reserved" THEN out
                   ELSE [out EXCEPT ![m] = Append(@, Fr("AMR", f.alias, m))])
    BY <1>4 DEF Defend
  <2>2. /\ local' \in [Nodes -> [Aliases -> Locals]]
        /\ \A k \in Nodes \ {m} : local'[k] = local[k]
        /\ \A a \in Aliases : a # f.alias => local'[m][a] = local[m][a]
        /\ local'[m][f.alias] = "none"
    BY <1>1, <2>1 DEF Locals
  <2>3. CASE local[m][f.alias] = "reserved"
    <3>1. out' = out
      BY <2>1, <2>3
    <3>2. Grows
      BY <3>1, SameGrows
    <3> QED BY <1>4, <2>2, <2>3, <3>1, <3>2
  <2>4. CASE local[m][f.alias] # "reserved"
    <3> DEFINE g == Fr("AMR", f.alias, m)
    <3>1. out' = [out EXCEPT ![m] = Append(@, g)]
      BY <2>1, <2>4
    <3>2. g \in Frame /\ g.kind = "AMR" /\ g.alias = f.alias /\ g.node = m
      BY <1>1, FrIs
    <3> HIDE DEF g
    <3>3. Grows
      BY <3>1, <3>2, PutGrows
    <3>4. /\ \A k \in Nodes \ {m} : out'[k] = out[k]
          /\ Len(out'[m]) = Len(out[m]) + 1 /\ out'[m][Len(out[m]) + 1] = g
      BY <3>1, <3>2, PutIs
    <3> QED BY <1>4, <2>2, <3>2, <3>3, <3>4
  <2> QED BY <2>3, <2>4
<1> QED BY <1>2, <1>3, <1>4

\* get_allocated_alias() with a reserved alias.
LEMMA TakeIs ==
    ASSUME TypeOK, NEW n \in Nodes, NEW f \in Flows, TakeAlias(n, f)
    PROVE  \E a \in Aliases :
              /\ local[n][a] = "reserved" /\ local'[n][a] = "assigned"
              /\ src' = [src EXCEPT ![n][f] = a]
              /\ local' \in [Nodes -> [Aliases -> Locals]]
              /\ \A k \in Nodes \ {n} : local'[k] = local[k]
              /\ \A b \in Aliases : local'[n][b] # "none" => local[n][b] # "none"
<1> DEFINE a == Least(Reserved(n))
<1>1. Reserved(n) # {} /\ Reserved(n) \subseteq Nat /\ Reserved(n) \subseteq Aliases
  BY AllocationAssumption DEF TakeAlias, Reserved
<1>2. a \in Reserved(n)
  BY <1>1, LeastIs
<1>3. a \in Aliases /\ local[n][a] = "reserved"
  BY <1>2 DEF Reserved
<1>4. /\ src' = [src EXCEPT ![n][f] = a]
      /\ local' = [local EXCEPT ![n] =
              [b \in Aliases |-> IF b = a THEN "assigned"
                                 ELSE IF b \in Assigned(n) THEN "none" ELSE @[b]]]
  BY DEF TakeAlias
<1> HIDE DEF a
<1>5. local \in [Nodes -> [Aliases -> Locals]]
  BY DEF TypeOK, Locals
<1>6. /\ \A k \in Nodes \ {n} : local'[k] = local[k]
      /\ local'[n] = [b \in Aliases |-> IF b = a THEN "assigned"
                         ELSE IF b \in Assigned(n) THEN "none" ELSE local[n][b]]
  BY <1>4, <1>5
<1>7. local'[n] \in [Aliases -> Locals]
  BY <1>5, <1>6 DEF Locals
<1>8. local' \in [Nodes -> [Aliases -> Locals]]
  BY <1>4, <1>5, <1>6, <1>7
<1>9. \A b \in Aliases : local'[n][b] # "none" => local[n][b] # "none"
  BY <1>3, <1>6
<1> QED BY <1>3, <1>4, <1>6, <1>8, <1>9

\* return_alias().
LEMMA ReturnIs ==
    ASSUME TypeOK, NEW n \in Nodes, ReturnAlias(n)
    PROVE  \E a \in Aliases :
              /\ out' = [out EXCEPT ![n] = Append(@, Fr("AMR", a, n))]
              /\ local[n][a] = "assigned" /\ local'[n][a] = "reserved"
              /\ local' \in [Nodes -> [Aliases -> Locals]]
              /\ \A k \in Nodes \ {n} : local'[k] = local[k]
              /\ \A b \in Aliases : b # a => local'[n][b] = local[n][b]
<1>1. PICK a \in Assigned(n) : /\ out' = [out EXCEPT ![n] = Append(@, Fr("AMR", a, n))]
                               /\ local' = [local EXCEPT ![n][a] = "reserved"]
  BY DEF ReturnAlias
<1>2. a \in Aliases /\ local[n][a] = "assigned" /\ local \in [Nodes -> [Aliases -> Locals]]
  BY DEF Assigned, TypeOK, Locals
<1>3. /\ local' \in [Nodes -> [Aliases -> Locals]] /\ local'[n][a] = "reserved"
      /\ \A k \in Nodes \ {n} : local'[k] = local[k]
      /\ \A b \in Aliases : b # a => local'[n][b] = local[n][b]
  BY <1>1, <1>2 DEF Locals
<1> QED BY <1>1, <1>2, <1>3

\* send_rid_frame() without a conflict: the alias becomes the interface's own.
LEMMA RidIs ==
    ASSUME TypeOK, AllocInv, NEW n \in Nodes, SendRid(n), n \notin conflict
    PROVE  LET a == pend[n] IN
           /\ a \in Aliases /\ state[n] = "send_rid_frame"
           /\ out' = [out EXCEPT ![n] = Append(@, Fr("RID", a, n))]
           /\ local' \in [Nodes -> [Aliases -> Locals]]
           /\ local'[n][a] = "reserved" /\ \A b \in Aliases : b # a => local'[n][b] = local[n][b]
           /\ \A k \in Nodes \ {n} : local'[k] = local[k]
           /\ state' = [state EXCEPT ![n] = "idle"] /\ pend' = [pend EXCEPT ![n] = 0]
           /\ UNCHANGED <<cid, conflict>> /\ WakeOne(n)
<1>1. /\ state[n] = "send_rid_frame"
      /\ out' = [out EXCEPT ![n] = Append(@, Fr("RID", pend[n], n))]
      /\ local' = [local EXCEPT ![n][pend[n]] = "reserved"]
      /\ state' = [state EXCEPT ![n] = "idle"] /\ pend' = [pend EXCEPT ![n] = 0]
      /\ UNCHANGED <<cid, conflict>> /\ WakeOne(n)
  BY DEF SendRid
<1>2. pend[n] \in Aliases
  BY <1>1 DEF TypeOK, AllocInv
<1>3. local \in [Nodes -> [Aliases -> Locals]]
  BY DEF TypeOK, Locals
<1> QED BY <1>1, <1>2, <1>3 DEF Locals

\* What else an interface hands to the frame write flow.
LEMMA SendsIs ==
    ASSUME TypeOK, AllocInv, SrcInv, NEW n \in Nodes
    PROVE  /\ SendCid(n) /\ n \notin conflict =>
                 /\ Fr("CID", pend[n], n) \in Frame /\ state[n] = "send_cid_frame"
                 /\ out' = [out EXCEPT ![n] = Append(@, Fr("CID", pend[n], n))]
                 /\ state' = [state EXCEPT ![n] = "handle_allocate_for_cid_frame"]
                 /\ cid' = [cid EXCEPT ![n] = @ - 1] /\ UNCHANGED <<pend, conflict>>
           /\ \A f \in Flows :
                 /\ SendAmd(n, f) =>
                       /\ Fr("AMD", src[n][f], n) \in Frame /\ client[n][f] = "send_amd_frame"
                       /\ out' = [out EXCEPT ![n] = Append(@, Fr("AMD", src[n][f], n))]
                       /\ src[n][f] \in Aliases
                 /\ FillFrame(n, f) =>
                       /\ Fr("MSG", src[n][f], n) \in Frame
                       /\ out' = [out EXCEPT ![n] = Append(@, Fr("MSG", src[n][f], n))]
                       /\ src[n][f] \in Aliases
<1>1. SendCid(n) => state[n] = "send_cid_frame" /\ pend[n] \in Aliases
  BY DEF SendCid, TypeOK, AllocInv
<1>2. \A f \in Flows : client[n][f] \in {"send_amd_frame", "fill_can_frame_buffer"} =>
                           src[n][f] \in Aliases
  BY DEF SrcInv
<1>3. \A f \in Flows : SendAmd(n, f) => src[n][f] \in Aliases
  BY <1>2 DEF SendAmd
<1>4. \A f \in Flows : FillFrame(n, f) => src[n][f] \in Aliases
  BY <1>2 DEF FillFrame
<1> QED BY <1>1, <1>3, <1>4, FrIs DEF SendCid, SendAmd, FillFrame

\* Only Transmit() takes frames from the queue of an interface.
LEMMA OutGrows ==
    ASSUME TypeOK, AllocInv, SrcInv, Next, \A n \in Nodes : ~Transmit(n)
    PROVE  Grows
<1>1. ASSUME out' = out PROVE Grows
  BY <1>1, SameGrows
<1>2. ASSUME NEW n \in Nodes, NEW g \in Frame, out' = [out EXCEPT ![n] = Append(@, g)]
      PROVE  Grows
  BY <1>2, PutGrows
<1>3. ASSUME NEW n \in Nodes, Entry(n) \/ WaitDone(n) \/ TimerExpires(n) \/ TimerRun(n)
      PROVE  Grows
  BY <1>1, <1>3 DEF Entry, WaitDone, TimerExpires, TimerRun
<1>4. ASSUME NEW n \in Nodes, SendCid(n) PROVE Grows
  <2>1. CASE n \in conflict
    BY <1>1, <1>4, <2>1 DEF SendCid
  <2>2. CASE n \notin conflict
    BY <1>2, <1>4, <2>2, SendsIs
  <2> QED BY <2>1, <2>2
<1>5. ASSUME NEW n \in Nodes, SendRid(n) PROVE Grows
  <2>1. CASE n \in conflict
    BY <1>1, <1>5, <2>1 DEF SendRid
  <2>2. CASE n \notin conflict
    <3>1. pend[n] \in Aliases /\ out' = [out EXCEPT ![n] = Append(@, Fr("RID", pend[n], n))]
      BY <1>5, <2>2, RidIs
    <3>2. Fr("RID", pend[n], n) \in Frame
      BY <3>1, FrIs
    <3> QED BY <1>2, <3>1, <3>2
  <2> QED BY <2>1, <2>2
<1>6. ASSUME NEW m \in Nodes, HandleFrame(m) PROVE Grows
  <2>1. Head(seen[m]) \in Frame /\ Defend(m, Head(seen[m]))
    BY <1>6, HandleIs DEF HandleFrame
  <2> QED BY <2>1, DefendIs
<1>7. ASSUME NEW n \in Nodes, ReturnAlias(n) PROVE Grows
  <2>1. PICK a \in Aliases : out' = [out EXCEPT ![n] = Append(@, Fr("AMR", a, n))]
    BY <1>7, ReturnIs
  <2>2. Fr("AMR", a, n) \in Frame
    BY FrIs
  <2> QED BY <1>2, <2>1, <2>2
<1>8. ASSUME NEW n \in Nodes, NEW f \in Flows, SendAmd(n, f) \/ FillFrame(n, f) PROVE Grows
  BY <1>2, <1>8, SendsIs
<1>9. ASSUME NEW n \in Nodes, NEW f \in Flows,
             SendMessage(n, f) \/ UseAlias(n, f) \/ TakeAlias(n, f) \/ AskForAlias(n, f)
      PROVE  Grows
  BY <1>1, <1>9 DEF SendMessage, UseAlias, TakeAlias, AskForAlias
<1> QED BY <1>3, <1>4, <1>5, <1>6, <1>7, <1>8, <1>9 DEF Next

\* Only send_rid_frame() makes an alias the interface's own.
LEMMA LocalIs ==
    ASSUME TypeOK, AllocInv, Next
    PROVE  /\ local' \in [Nodes -> [Aliases -> Locals]]
           /\ \/ \E n \in Nodes : SendRid(n) /\ n \notin conflict
              \/ \A k \in Nodes : \A a \in Aliases :
                    local'[k][a] # "none" => local[k][a] # "none"
<1>1. local \in [Nodes -> [Aliases -> Locals]]
  BY DEF TypeOK, Locals
<1> DEFINE Goal == /\ local' \in [Nodes -> [Aliases -> Locals]]
                   /\ \A k \in Nodes : \A a \in Aliases :
                         local'[k][a] # "none" => local[k][a] # "none"
<1>2. ASSUME local' = local PROVE Goal
  BY <1>1, <1>2
<1>3. ASSUME NEW n \in Nodes, Entry(n) \/ WaitDone(n) \/ TimerExpires(n) \/ TimerRun(n)
                                \/ SendCid(n) \/ Transmit(n)
      PROVE  Goal
  <2>1. local' = local
    BY <1>3 DEF Entry, WaitDone, TimerExpires, TimerRun, SendCid, Transmit
  <2> QED BY <1>2, <2>1
<1>4. ASSUME NEW n \in Nodes, SendRid(n), n \in conflict PROVE Goal
  <2>1. local' = local
    BY <1>4 DEF SendRid
  <2> QED BY <1>2, <2>1
<1>5. ASSUME NEW n \in Nodes, SendRid(n), n \notin conflict
      PROVE  local' \in [Nodes -> [Aliases -> Locals]]
  BY <1>5, RidIs
<1>6. ASSUME NEW m \in Nodes, HandleFrame(m) PROVE Goal
  <2>1. Head(seen[m]) \in Frame /\ Defend(m, Head(seen[m]))
    BY <1>6, HandleIs DEF HandleFrame
  <2>2. /\ local' \in [Nodes -> [Aliases -> Locals]]
        /\ \A k \in Nodes \ {m} : local'[k] = local[k]
        /\ \A a \in Aliases : local'[m][a] # "none" => local'[m][a] = local[m][a]
    BY <2>1, DefendIs
  <2> QED BY <2>2
<1>7. ASSUME NEW n \in Nodes, ReturnAlias(n) PROVE Goal
  <2>1. PICK a \in Aliases :
           /\ local[n][a] = "assigned" /\ local' \in [Nodes -> [Aliases -> Locals]]
           /\ \A k \in Nodes \ {n} : local'[k] = local[k]
           /\ \A b \in Aliases : b # a => local'[n][b] = local[n][b]
    BY <1>7, ReturnIs
  <2> QED BY <2>1
<1>8. ASSUME NEW n \in Nodes, NEW f \in Flows, TakeAlias(n, f) PROVE Goal
  <2>1. /\ local' \in [Nodes -> [Aliases -> Locals]]
        /\ \A k \in Nodes \ {n} : local'[k] = local[k]
        /\ \A b \in Aliases : local'[n][b] # "none" => local[n][b] # "none"
    BY <1>8, TakeIs
  <2> QED BY <2>1
<1>9. ASSUME NEW n \in Nodes, NEW f \in Flows,
             SendMessage(n, f) \/ UseAlias(n, f) \/ AskForAlias(n, f) \/ SendAmd(n, f)
               \/ FillFrame(n, f)
      PROVE  Goal
  <2>1. local' = local
    BY <1>9 DEF SendMessage, UseAlias, AskForAlias, SendAmd, FillFrame
  <2> QED BY <1>2, <2>1
<1> QED BY <1>3, <1>4, <1>5, <1>6, <1>7, <1>8, <1>9 DEF Next

\* The flows, and the aliases they use.
LEMMA SrcKeeps ==
    ASSUME TypeOK, AllocInv, SrcInv, Next
    PROVE  /\ SrcInv' /\ client' \in [Nodes -> [Flows -> ClientStates]]
           /\ src' \in [Nodes -> [Flows -> Aliases \cup {0}]]
<1> DEFINE Goal == /\ SrcInv' /\ client' \in [Nodes -> [Flows -> ClientStates]]
                   /\ src' \in [Nodes -> [Flows -> Aliases \cup {0}]]
<1>1. /\ client \in [Nodes -> [Flows -> ClientStates]]
      /\ src \in [Nodes -> [Flows -> Aliases \cup {0}]]
  BY DEF TypeOK
<1>2. ASSUME UNCHANGED <<client, src>> PROVE Goal
  BY <1>1, <1>2 DEF SrcInv
<1>3. ASSUME NEW n \in Nodes, NEW f \in Flows, UNCHANGED src,
             NEW c \in ClientStates \ {"send_amd_frame"},
             c = "fill_can_frame_buffer" => src[n][f] \in Aliases,
             client' = [client EXCEPT ![n][f] = c]
      PROVE  Goal
  BY <1>1, <1>3 DEF SrcInv
<1>4. ASSUME NEW n \in Nodes, NEW f \in Flows, NEW a \in Aliases, NEW c \in ClientStates,
             src' = [src EXCEPT ![n][f] = a], client' = [client EXCEPT ![n][f] = c]
      PROVE  Goal
  BY <1>1, <1>4 DEF SrcInv
<1>5. ASSUME NEW n \in Nodes, Entry(n) \/ WaitDone(n) \/ TimerExpires(n) \/ TimerRun(n)
                                \/ SendCid(n) \/ Transmit(n) \/ HandleFrame(n) \/ ReturnAlias(n)
      PROVE  Goal
  <2>1. UNCHANGED <<client, src>>
    BY <1>5 DEF Entry, WaitDone, TimerExpires, TimerRun, SendCid, Transmit, HandleFrame,
                ReturnAlias
  <2> QED BY <1>2, <2>1
<1>6. ASSUME NEW n \in Nodes, SendRid(n) PROVE Goal
  <2>1. UNCHANGED src
    BY <1>6 DEF SendRid
  <2>2. \/ UNCHANGED client
        \/ \E f \in Flows : client' = [client EXCEPT ![n][f] = "allocate_new_alias"]
    BY <1>6 DEF SendRid, WakeOne
  <2>3. "allocate_new_alias" \in ClientStates \ {"send_amd_frame"}
    BY DEF ClientStates
  <2> QED BY <1>2, <1>3, <2>1, <2>2, <2>3
<1>7. ASSUME NEW n \in Nodes, NEW f \in Flows, SendMessage(n, f) PROVE Goal
  <2>1. UNCHANGED src /\ client' = [client EXCEPT ![n][f] = "find_local_alias"]
    BY <1>7 DEF SendMessage
  <2> QED BY <1>3, <2>1 DEF ClientStates
<1>8. ASSUME NEW n \in Nodes, NEW f \in Flows, UseAlias(n, f) PROVE Goal
  <2>1. \E a \in Aliases : src' = [src EXCEPT ![n][f] = a]
    BY <1>8 DEF UseAlias, Assigned
  <2>2. client' = [client EXCEPT ![n][f] = "fill_can_frame_buffer"]
    BY <1>8 DEF UseAlias
  <2> QED BY <1>4, <2>1, <2>2 DEF ClientStates
<1>9. ASSUME NEW n \in Nodes, NEW f \in Flows, TakeAlias(n, f) PROVE Goal
  <2>1. \E a \in Aliases : src' = [src EXCEPT ![n][f] = a]
    BY <1>9, TakeIs
  <2>2. client' = [client EXCEPT ![n][f] = "send_amd_frame"]
    BY <1>9 DEF TakeAlias
  <2> QED BY <1>4, <2>1, <2>2 DEF ClientStates
<1>10. ASSUME NEW n \in Nodes, NEW f \in Flows, AskForAlias(n, f) PROVE Goal
  <2>1. UNCHANGED src /\ client' = [client EXCEPT ![n][f] = "waiting"]
    BY <1>10 DEF AskForAlias
  <2> QED BY <1>3, <2>1 DEF ClientStates
<1>11. ASSUME NEW n \in Nodes, NEW f \in Flows, SendAmd(n, f) PROVE Goal
  <2>1. /\ UNCHANGED src /\ client' = [client EXCEPT ![n][f] = "fill_can_frame_buffer"]
        /\ src[n][f] \in Aliases
    BY <1>11, SendsIs DEF SendAmd
  <2> QED BY <1>3, <2>1 DEF ClientStates
<1>12. ASSUME NEW n \in Nodes, NEW f \in Flows, FillFrame(n, f) PROVE Goal
  <2>1. UNCHANGED src /\ client' = [client EXCEPT ![n][f] = "terminated"]
    BY <1>12 DEF FillFrame
  <2> QED BY <1>3, <2>1 DEF ClientStates
<1> QED BY <1>5, <1>6, <1>7, <1>8, <1>9, <1>10, <1>11, <1>12 DEF Next

\* RemoteAliasCacheUpdater: only an AMD frame of n brings n into the cache, an
\* AMR frame of n takes it out.
LEMMA UpdatedIs ==
    ASSUME NEW r \in [Aliases -> Nodes \cup {"none"}], NEW f \in Frame
    PROVE  /\ Updated(r, f) \in [Aliases -> Nodes \cup {"none"}]
           /\ \A a \in Aliases : \A n \in Nodes : Updated(r, f)[a] = n =>
                 \/ r[a] = n /\ ~(f.kind = "AMR" /\ f.node = n)
                 \/ f.kind = "AMD" /\ f.node = n
<1>1. "none" \notin Nodes /\ f.node \in Nodes
  BY AllocationAssumption DEF Frame
<1>2. CASE f.kind = "AMD"
  <2>1. Updated(r, f) = [a \in Aliases |-> IF a = f.alias THEN f.node
                                           ELSE IF r[a] = f.node THEN "none" ELSE r[a]]
    BY <1>2 DEF Updated
  <2> QED BY <1>1, <1>2, <2>1
<1>3. CASE f.kind = "AMR"
  <2>1. Updated(r, f) = [a \in Aliases |->
                            IF a = f.alias \/ r[a] = f.node THEN "none" ELSE r[a]]
    BY <1>3 DEF Updated
  <2> QED BY <1>1, <1>3, <2>1
<1>4. CASE f.kind # "AMD" /\ f.kind # "AMR"
  <2>1. Updated(r, f) = r
    BY <1>4 DEF Updated
  <2> QED BY <1>4, <2>1
<1> QED BY <1>2, <1>3, <1>4

\* Type correctness is kept.
LEMMA TypeKeeps ==
    ASSUME TypeOK, AllocInv, SrcInv, OutInv, Next
    PROVE  TypeOK'
<1> DEFINE AllocOK ==
              /\ state' \in [Nodes -> States]
              /\ pend' \in [Nodes -> Aliases \cup {0}]
              /\ cid' \in [Nodes -> {0, 3, 4, 5, 6, 7}]
              /\ conflict' \subseteq Nodes
              /\ timer' \in [Nodes -> {"idle", "active", "triggered", "expired", "notified"}]
           ReqOK == req' \in [Nodes -> Nat]
           RestOK == /\ remote' \in [Nodes -> [Aliases -> Nodes \cup {"none"}]]
                     /\ seen' \in [Nodes -> Seq(Frame)]
                     /\ timely' \in BOOLEAN /\ msgs' \in 0..MaxMsgs
                     /\ strayed' \subseteq Nodes /\ crashed' \in BOOLEAN
<1>1. /\ state \in [Nodes -> States] /\ pend \in [Nodes -> Aliases \cup {0}]
      /\ cid \in [Nodes -> {0, 3, 4, 5, 6, 7}] /\ conflict \subseteq Nodes
      /\ timer \in [Nodes -> {"idle", "active", "triggered", "expired", "notified"}]
      /\ req \in [Nodes -> Nat]
  BY DEF TypeOK
<1>2. /\ remote \in [Nodes -> [Aliases -> Nodes \cup {"none"}]] /\ seen \in [Nodes -> Seq(Frame)]
      /\ timely \in BOOLEAN /\ msgs \in 0..MaxMsgs /\ strayed \subseteq Nodes
      /\ crashed \in BOOLEAN
  BY DEF TypeOK
<1>3. SrcInv' /\ client' \in [Nodes -> [Flows -> ClientStates]]
      /\ src' \in [Nodes -> [Flows -> Aliases \cup {0}]]
  BY SrcKeeps
<1>4. local' \in [Nodes -> [Aliases -> {"none", "reserved", "assigned"}]]
  BY LocalIs DEF Locals
<1>5. out' \in [Nodes -> Seq(Frame)]
  <2>1. CASE \E n \in Nodes : Transmit(n)
    BY <2>1, TransmitIs
  <2>2. CASE \A n \in Nodes : ~Transmit(n)
    BY <2>2, OutGrows DEF Grows
  <2> QED BY <2>1, <2>2
<1>6. ASSUME UNCHANGED <<remote, seen, timely, msgs, strayed, crashed>> PROVE RestOK
  BY <1>2, <1>6
<1>7. ASSUME Aside PROVE AllocOK
  <2>1. UNCHANGED <<state, pend, cid, conflict, timer>>
    BY <1>7, AsideIs
  <2> QED BY <1>1, <2>1
<1>8. ASSUME NEW n \in Nodes, Begin(n) PROVE /\ state' \in [Nodes -> States]
                                             /\ pend' \in [Nodes -> Aliases \cup {0}]
                                             /\ cid' \in [Nodes -> {0, 3, 4, 5, 6, 7}]
                                             /\ conflict' \subseteq Nodes
  <2>1. conflict' = conflict \ {n}
    BY <1>8 DEF Begin
  <2> QED BY <1>1, <1>8, <2>1, BeginIs
<1> DEFINE Goal == AllocOK /\ ReqOK /\ RestOK
<1>9. ASSUME NEW n \in Nodes, Entry(n) PROVE Goal
  <2>1. /\ Begin(n) /\ req[n] > 0 /\ req' = [req EXCEPT ![n] = @ - 1] /\ timer' = timer
        /\ UNCHANGED <<remote, seen, timely, msgs, strayed, crashed>>
    BY <1>9 DEF Entry
  <2>2. req[n] - 1 \in Nat
    BY <1>1, <2>1
  <2>3. ReqOK
    BY <1>1, <2>1, <2>2
  <2>4. AllocOK
    BY <1>1, <1>8, <2>1
  <2> QED BY <1>6, <2>1, <2>3, <2>4
<1>10. ASSUME NEW n \in Nodes, SendCid(n) PROVE Goal
  <2>1. UNCHANGED <<timer, req, remote, seen, timely, msgs, strayed, crashed>>
    BY <1>10 DEF SendCid
  <2>2. CASE n \in conflict
    <3>1. Begin(n)
      BY <1>10, <2>2 DEF SendCid
    <3> QED BY <1>1, <1>6, <1>8, <2>1, <3>1
  <2>3. CASE n \notin conflict
    <3>1. /\ cid' = [cid EXCEPT ![n] = @ - 1] /\ UNCHANGED <<pend, conflict>>
          /\ state' = [state EXCEPT ![n] = "handle_allocate_for_cid_frame"]
      BY <1>10, <2>3 DEF SendCid
    <3>2. cid[n] \in {4, 5, 6, 7}
      BY <1>10 DEF SendCid, AllocInv
    <3>3. cid[n] - 1 \in {0, 3, 4, 5, 6, 7}
      BY <3>2
    <3>4. cid' \in [Nodes -> {0, 3, 4, 5, 6, 7}]
      BY <1>1, <3>1, <3>3
    <3>5. state' \in [Nodes -> States]
      BY <1>1, <3>1 DEF States
    <3> QED BY <1>1, <1>6, <2>1, <3>1, <3>4, <3>5
  <2> QED BY <2>2, <2>3
<1>11. ASSUME NEW n \in Nodes, WaitDone(n) PROVE Goal
  <2>1. /\ UNCHANGED <<req, remote, seen, timely, msgs, strayed, crashed>>
        /\ timer' = [timer EXCEPT ![n] = "idle"]
    BY <1>11 DEF WaitDone
  <2>2. timer' \in [Nodes -> {"idle", "active", "triggered", "expired", "notified"}]
    BY <1>1, <2>1
  <2>3. CASE n \in conflict
    <3>1. Begin(n)
      BY <1>11, <2>3 DEF WaitDone
    <3> QED BY <1>1, <1>6, <1>8, <2>1, <2>2, <3>1
  <2>4. CASE n \notin conflict
    <3>1. /\ UNCHANGED <<pend, cid, conflict>>
          /\ state' = [state EXCEPT ![n] = "send_rid_frame"]
      BY <1>11, <2>4 DEF WaitDone
    <3>2. state' \in [Nodes -> States]
      BY <1>1, <3>1 DEF States
    <3> QED BY <1>1, <1>6, <2>1, <2>2, <3>1, <3>2
  <2> QED BY <2>3, <2>4
<1>12. ASSUME NEW n \in Nodes, SendRid(n) PROVE Goal
  <2>1. UNCHANGED <<timer, req, remote, seen, timely, msgs, strayed, crashed>>
    BY <1>12 DEF SendRid
  <2>2. CASE n \in conflict
    <3>1. Begin(n)
      BY <1>12, <2>2 DEF SendRid
    <3> QED BY <1>1, <1>6, <1>8, <2>1, <3>1
  <2>3. CASE n \notin conflict
    <3>1. /\ UNCHANGED <<cid, conflict>> /\ pend' = [pend EXCEPT ![n] = 0]
          /\ state' = [state EXCEPT ![n] = "idle"]
      BY <1>12, <2>3 DEF SendRid
    <3>2. state' \in [Nodes -> States] /\ pend' \in [Nodes -> Aliases \cup {0}]
      BY <1>1, <3>1 DEF States
    <3> QED BY <1>1, <1>6, <2>1, <3>1, <3>2
  <2> QED BY <2>2, <2>3
<1>13. ASSUME NEW n \in Nodes, TimerExpires(n) \/ TimerRun(n) PROVE Goal
  <2>1. /\ UNCHANGED <<state, pend, cid, conflict, req, remote, seen, timely, msgs, strayed, crashed>>
        /\ \E t \in {"expired", "notified"} : timer' = [timer EXCEPT ![n] = t]
    BY <1>13 DEF TimerExpires, TimerRun
  <2>2. timer' \in [Nodes -> {"idle", "active", "triggered", "expired", "notified"}]
    BY <1>1, <2>1
  <2> QED BY <1>1, <1>6, <2>1, <2>2
<1>14. ASSUME NEW n \in Nodes, Transmit(n) PROVE Goal
  <2>1. UNCHANGED <<req, remote, timely, msgs, strayed>> /\ crashed' \in BOOLEAN
    BY <1>14 DEF Transmit
  <2>2. seen' \in [Nodes -> Seq(Frame)]
    BY <1>14, TransmitIs
  <2>3. /\ UNCHANGED <<pend, cid>> /\ state' \in [Nodes -> States]
        /\ timer' \in [Nodes -> {"idle", "active", "triggered", "expired", "notified"}]
        /\ conflict' \subseteq Nodes
    BY <1>14, TransmitAlloc
  <2> QED BY <1>1, <1>2, <2>1, <2>2, <2>3
<1>15. ASSUME NEW m \in Nodes, HandleFrame(m) PROVE Goal
  <2>1. /\ UNCHANGED <<req, timely, msgs, strayed, crashed>>
        /\ remote' = [remote EXCEPT ![m] = Updated(@, Head(seen[m]))]
    BY <1>15 DEF HandleFrame, alloc
  <2>2. seen' \in [Nodes -> Seq(Frame)] /\ Head(seen[m]) \in Frame
    BY <1>15, HandleIs
  <2>3. remote[m] \in [Aliases -> Nodes \cup {"none"}]
    BY <1>2
  <2>4. Updated(remote[m], Head(seen[m])) \in [Aliases -> Nodes \cup {"none"}]
    BY <2>2, <2>3, UpdatedIs
  <2>5. remote' \in [Nodes -> [Aliases -> Nodes \cup {"none"}]]
    BY <1>2, <2>1, <2>4
  <2> QED BY <1>1, <1>2, <1>7, <1>15, <2>1, <2>2, <2>5 DEF Aside
<1>16. ASSUME NEW n \in Nodes, ReturnAlias(n) PROVE Goal
  <2>1. UNCHANGED <<req, remote, seen, timely, msgs, strayed, crashed>>
    BY <1>16 DEF ReturnAlias, alloc
  <2> QED BY <1>1, <1>6, <1>7, <1>16, <2>1 DEF Aside
<1>17. ASSUME NEW n \in Nodes, NEW f \in Flows,
              \/ SendMessage(n, f) \/ UseAlias(n, f) \/ TakeAlias(n, f)
              \/ AskForAlias(n, f) \/ SendAmd(n, f) \/ FillFrame(n, f)
       PROVE  Goal
  <2>1. AllocOK
    BY <1>7, <1>17 DEF Aside
  <2>2. ReqOK
    <3>1. \/ req' = req
          \/ req' = [req EXCEPT ![n] = @ + 1]
      BY <1>17 DEF SendMessage, UseAlias, TakeAlias, AskForAlias, SendAmd, FillFrame, alloc
    <3> QED BY <1>1, <3>1
  <2>3. UNCHANGED <<remote, seen, timely, crashed>>
    BY <1>17 DEF SendMessage, UseAlias, TakeAlias, AskForAlias, SendAmd, FillFrame
  <2>4. msgs' = msgs \/ (msgs < MaxMsgs /\ msgs' = msgs + 1)
    BY <1>17 DEF SendMessage, UseAlias, TakeAlias, AskForAlias, SendAmd, FillFrame
  <2>5. strayed' = strayed \/ strayed' = strayed \cup {n}
    BY <1>17 DEF SendMessage, UseAlias, TakeAlias, AskForAlias, SendAmd, FillFrame
  <2>6. msgs' \in 0..MaxMsgs /\ strayed' \subseteq Nodes
    BY <1>2, <2>4, <2>5, AllocationAssumption
  <2> QED BY <1>2, <2>1, <2>2, <2>3, <2>6
<1>18. Goal
  BY <1>9, <1>10, <1>11, <1>12, <1>13, <1>14, <1>15, <1>16, <1>17 DEF Next
<1> QED BY <1>3, <1>4, <1>5, <1>18 DEF TypeOK

\* OutInv is kept for the frames of one interface.
OutOf(o, s, p, n) ==
    \A i \in 1..Len(o) :
        /\ o[i].node = n
        /\ o[i].kind = "CID" =>
              /\ s = "handle_allocate_for_cid_frame" /\ o[i].alias = p
              /\ \A j \in 1..Len(o) : o[j].kind = "CID" => i = j

\* Without a CID frame under way, the state of the allocator does not matter.
LEMMA OutQuiet ==
    ASSUME NEW o, NEW s, NEW p, NEW t, NEW q, NEW n, OutOf(o, s, p, n),
           s # "handle_allocate_for_cid_frame"
    PROVE  OutOf(o, t, q, n)
BY DEF OutOf

\* One more frame of n that is no CID frame.
LEMMA OutMore ==
    ASSUME NEW o \in Seq(Frame), NEW u \in Seq(Frame), NEW s, NEW p, NEW n,
           OutOf(o, s, p, n), Len(o) \in Nat, Len(u) = Len(o) + 1,
           \A i \in 1..Len(o) : u[i] = o[i],
           u[Len(o) + 1].node = n, u[Len(o) + 1].kind # "CID"
    PROVE  OutOf(u, s, p, n)
<1>1. \A i \in 1..Len(u) : i \in 1..Len(o) \/ i = Len(o) + 1
  OBVIOUS
<1>2. \A i \in 1..Len(u) : u[i].node = n
  BY <1>1 DEF OutOf
<1>3. \A i \in 1..Len(u) : u[i].kind = "CID" => i \in 1..Len(o) /\ u[i] = o[i]
  BY <1>1
<1> QED BY <1>2, <1>3 DEF OutOf

\* The frames under way.
LEMMA OutKeeps ==
    ASSUME TypeOK, AllocInv, SrcInv, OutInv, Next
    PROVE  OutInv'
<1>1. \A n \in Nodes : OutOf(out[n], state[n], pend[n], n)
  BY DEF OutInv, OutOf
<1>2. SUFFICES \A n \in Nodes : OutOf(out'[n], state'[n], pend'[n], n)
  BY DEF OutInv, OutOf
<1>3. \A n \in Nodes : out[n] \in Seq(Frame) /\ Len(out[n]) \in Nat
  BY LenProperties DEF TypeOK
<1> DEFINE Goal == \A n \in Nodes : OutOf(out'[n], state'[n], pend'[n], n)
<1>4. ASSUME NEW n \in Nodes, out' = out,
             \A m \in Nodes \ {n} : state'[m] = state[m] /\ pend'[m] = pend[m],
             \/ state'[n] = state[n] /\ pend'[n] = pend[n]
             \/ state[n] # "handle_allocate_for_cid_frame"
      PROVE  Goal
  <2>1. \A m \in Nodes \ {n} : OutOf(out'[m], state'[m], pend'[m], m)
    BY <1>1, <1>4, Zenon
  <2>2. OutOf(out'[n], state'[n], pend'[n], n)
    <3>1. CASE state'[n] = state[n] /\ pend'[n] = pend[n]
      BY <1>1, <1>4, <3>1, Zenon
    <3>2. CASE state[n] # "handle_allocate_for_cid_frame"
      BY <1>1, <1>4, <3>2, OutQuiet, Zenon
    <3> QED BY <1>4, <3>1, <3>2
  <2> QED BY <2>1, <2>2
<1>5. ASSUME NEW n \in Nodes, NEW g \in Frame, g.node = n, g.kind # "CID",
             out' = [out EXCEPT ![n] = Append(@, g)],
             \A m \in Nodes \ {n} : state'[m] = state[m] /\ pend'[m] = pend[m],
             \/ state'[n] = state[n] /\ pend'[n] = pend[n]
             \/ state[n] # "handle_allocate_for_cid_frame"
      PROVE  Goal
  <2> HIDE DEF Goal
  <2>0. out' = [out EXCEPT ![n] = Append(@, g)]
    BY <1>5
  <2>1. /\ out' \in [Nodes -> Seq(Frame)] /\ \A m \in Nodes \ {n} : out'[m] = out[m]
        /\ Len(out'[n]) = Len(out[n]) + 1
        /\ \A i \in 1..Len(out[n]) : out'[n][i] = out[n][i]
        /\ out'[n][Len(out[n]) + 1] = g
    BY <2>0, PutIs
  <2>2. \A m \in Nodes \ {n} : OutOf(out'[m], state'[m], pend'[m], m)
    BY <1>1, <1>5, <2>1, Zenon
  <2>3. OutOf(out[n], state'[n], pend'[n], n)
    <3>1. CASE state'[n] = state[n] /\ pend'[n] = pend[n]
      BY <1>1, <3>1, Zenon
    <3>2. CASE state[n] # "handle_allocate_for_cid_frame"
      BY <1>1, <3>2, OutQuiet, Zenon
    <3> QED BY <1>5, <3>1, <3>2
  <2>4. out'[n][Len(out[n]) + 1].node = n /\ out'[n][Len(out[n]) + 1].kind # "CID"
    BY <1>5, <2>1, Zenon
  <2>5. OutOf(out'[n], state'[n], pend'[n], n)
    BY <1>3, <2>1, <2>3, <2>4, OutMore
  <2> QED BY <2>2, <2>5 DEF Goal
<1> HIDE DEF Goal
<1>6. ASSUME NEW n \in Nodes, Begin(n), out' = out,
             state[n] # "handle_allocate_for_cid_frame"
      PROVE  Goal
  <2>1. \A m \in Nodes \ {n} : state'[m] = state[m] /\ pend'[m] = pend[m]
    BY <1>6, BeginIs
  <2> QED BY <1>4, <1>6, <2>1
<1>7. ASSUME NEW n \in Nodes, Entry(n) PROVE Goal
  BY <1>6, <1>7 DEF Entry
<1>8. ASSUME NEW n \in Nodes, SendCid(n) PROVE Goal
  <2>1. CASE n \in conflict
    BY <1>6, <1>8, <2>1 DEF SendCid
  <2>2. CASE n \notin conflict
    <3> DEFINE g == Fr("CID", pend[n], n)
    <3>1. /\ g \in Frame /\ state[n] = "send_cid_frame"
          /\ out' = [out EXCEPT ![n] = Append(@, g)]
          /\ state' = [state EXCEPT ![n] = "handle_allocate_for_cid_frame"]
          /\ pend' = pend
      BY <1>8, <2>2, SendsIs
    <3>2. g.node = n /\ g.alias = pend[n] /\ g.kind = "CID"
      BY DEF Fr
    <3> HIDE DEF g
    <3>3. /\ \A m \in Nodes \ {n} : out'[m] = out[m]
          /\ Len(out'[n]) = Len(out[n]) + 1
          /\ \A i \in 1..Len(out[n]) : out'[n][i] = out[n][i]
          /\ out'[n][Len(out[n]) + 1] = g
      BY <3>1, PutIs
    <3>4. \A m \in Nodes \ {n} : state'[m] = state[m]
      BY <3>1 DEF TypeOK
    <3>5. state'[n] = "handle_allocate_for_cid_frame"
      BY <3>1 DEF TypeOK
    <3>6. \A m \in Nodes \ {n} : OutOf(out'[m], state'[m], pend'[m], m)
      BY <1>1, <3>1, <3>3, <3>4, Zenon
    <3>7. \A i \in 1..Len(out[n]) : out[n][i].node = n /\ out[n][i].kind # "CID"
      BY <1>1, <3>1 DEF OutOf
    <3>8. \A i \in 1..Len(out'[n]) : i \in 1..Len(out[n]) \/ i = Len(out[n]) + 1
      BY <1>3, <3>3
    <3>9. \A i \in 1..Len(out'[n]) :
             out'[n][i].node = n /\ (out'[n][i].kind = "CID" => i = Len(out[n]) + 1)
      BY <3>2, <3>3, <3>7, <3>8
    <3>10. OutOf(out'[n], state'[n], pend'[n], n)
      BY <3>1, <3>2, <3>3, <3>5, <3>9 DEF OutOf
    <3> QED BY <3>6, <3>10 DEF Goal
  <2> QED BY <2>1, <2>2
<1>9. ASSUME NEW n \in Nodes, WaitDone(n) PROVE Goal
  <2>1. out' = out /\ state[n] # "handle_allocate_for_cid_frame"
    BY <1>9 DEF WaitDone
  <2>2. CASE n \in conflict
    BY <1>6, <1>9, <2>1, <2>2 DEF WaitDone
  <2>3. CASE n \notin conflict
    <3>1. pend' = pend /\ \A m \in Nodes \ {n} : state'[m] = state[m]
      BY <1>9, <2>3 DEF WaitDone, TypeOK
    <3> QED BY <1>4, <2>1, <3>1
  <2> QED BY <2>2, <2>3
<1>10. ASSUME NEW n \in Nodes, SendRid(n) PROVE Goal
  <2>1. CASE n \in conflict
    BY <1>6, <1>10, <2>1 DEF SendRid
  <2>2. CASE n \notin conflict
    <3>1. /\ pend[n] \in Aliases /\ state[n] = "send_rid_frame"
          /\ out' = [out EXCEPT ![n] = Append(@, Fr("RID", pend[n], n))]
          /\ state' = [state EXCEPT ![n] = "idle"] /\ pend' = [pend EXCEPT ![n] = 0]
      BY <1>10, <2>2, RidIs
    <3>2. \A m \in Nodes \ {n} : state'[m] = state[m] /\ pend'[m] = pend[m]
      BY <3>1 DEF TypeOK
    <3>3. LET g == Fr("RID", pend[n], n) IN g \in Frame /\ g.node = n /\ g.kind # "CID"
      BY <3>1, FrIs
    <3> QED BY <1>5, <3>1, <3>2, <3>3
  <2> QED BY <2>1, <2>2
<1>11. ASSUME NEW n \in Nodes, TimerExpires(n) \/ TimerRun(n) PROVE Goal
  <2>1. UNCHANGED <<out, state, pend>>
    BY <1>11 DEF TimerExpires, TimerRun
  <2> QED BY <1>4, <2>1
<1>12. ASSUME Aside PROVE UNCHANGED <<state, pend>>
  BY <1>12, AsideIs
<1>13. ASSUME NEW m \in Nodes, HandleFrame(m) PROVE Goal
  <2>1. UNCHANGED <<state, pend>>
    BY <1>12, <1>13 DEF Aside
  <2>2. Head(seen[m]) \in Frame /\ Defend(m, Head(seen[m]))
    BY <1>13, HandleIs DEF HandleFrame
  <2>3. /\ Grows /\ \A k \in Nodes \ {m} : out'[k] = out[k]
        /\ \/ out'[m] = out[m]
           \/ /\ Len(out'[m]) = Len(out[m]) + 1
              /\ out'[m][Len(out[m]) + 1].node = m
              /\ out'[m][Len(out[m]) + 1].kind \in {"RID", "AMR"}
    BY <2>2, DefendIs
  <2>4. \A k \in Nodes \ {m} : OutOf(out'[k], state'[k], pend'[k], k)
    BY <1>1, <2>1, <2>3, Zenon
  <2>5. OutOf(out'[m], state'[m], pend'[m], m)
    <3>1. CASE out'[m] = out[m]
      BY <1>1, <2>1, <3>1, Zenon
    <3>2. CASE /\ Len(out'[m]) = Len(out[m]) + 1
               /\ out'[m][Len(out[m]) + 1].node = m
               /\ out'[m][Len(out[m]) + 1].kind \in {"RID", "AMR"}
      <4>1. OutOf(out[m], state[m], pend[m], m) /\ out'[m] \in Seq(Frame)
            /\ \A i \in 1..Len(out[m]) : out'[m][i] = out[m][i]
        BY <1>1, <2>3 DEF Grows
      <4>2. out'[m][Len(out[m]) + 1].kind # "CID"
        BY <3>2
      <4>3. OutOf(out'[m], state[m], pend[m], m)
        BY <1>3, <3>2, <4>1, <4>2, OutMore
      <4> QED BY <2>1, <4>3, Zenon
    <3> QED BY <2>3, <3>1, <3>2
  <2> QED BY <2>4, <2>5 DEF Goal
<1>14. ASSUME NEW n \in Nodes, ReturnAlias(n) PROVE Goal
  <2>1. UNCHANGED <<state, pend>>
    BY <1>12, <1>14 DEF Aside
  <2>2. PICK a \in Aliases : out' = [out EXCEPT ![n] = Append(@, Fr("AMR", a, n))]
    BY <1>14, ReturnIs
  <2>3. LET g == Fr("AMR", a, n) IN g \in Frame /\ g.node = n /\ g.kind # "CID"
    BY FrIs
  <2> QED BY <1>5, <2>1, <2>2, <2>3
<1>15. ASSUME NEW n \in Nodes, NEW f \in Flows,
              SendMessage(n, f) \/ UseAlias(n, f) \/ TakeAlias(n, f) \/ AskForAlias(n, f)
       PROVE  Goal
  <2>1. UNCHANGED <<state, pend>>
    BY <1>12, <1>15 DEF Aside
  <2>2. out' = out
    BY <1>15 DEF SendMessage, UseAlias, TakeAlias, AskForAlias
  <2> QED BY <1>4, <2>1, <2>2
<1>16. ASSUME NEW n \in Nodes, NEW f \in Flows, SendAmd(n, f) \/ FillFrame(n, f) PROVE Goal
  <2>1. UNCHANGED <<state, pend>>
    BY <1>12, <1>16 DEF Aside
  <2>2. \E k \in {"AMD", "MSG"} : \E a \in Aliases : out' = [out EXCEPT ![n] = Append(@, Fr(k, a, n))]
    BY <1>16, SendsIs
  <2>3. PICK k \in {"AMD", "MSG"}, a \in Aliases : out' = [out EXCEPT ![n] = Append(@, Fr(k, a, n))]
    BY <2>2
  <2>4. LET g == Fr(k, a, n) IN g \in Frame /\ g.node = n /\ g.kind # "CID"
    BY <2>3, FrIs
  <2> QED BY <1>5, <2>1, <2>3, <2>4
<1>17. ASSUME NEW n \in Nodes, Transmit(n) PROVE Goal
  <2> DEFINE f == out[n][1]
             sent == f.kind = "CID"
             last == sent /\ ~CidsLeft(n)
  <2>1. /\ pend' = pend /\ \A m \in Nodes \ {n} : state'[m] = state[m]
        /\ state'[n] = (IF ~sent THEN state[n]
                        ELSE IF last THEN "wait_done" ELSE "send_cid_frame")
    BY <1>17, TransmitAlloc
  <2>2. /\ \A m \in Nodes \ {n} : out'[m] = out[m]
        /\ 1 \in 1..Len(out[n])
        /\ \A i \in 1..Len(out'[n]) : /\ i \in Nat /\ i + 1 \in 1..Len(out[n])
                                      /\ out'[n][i] = out[n][i + 1]
    BY <1>17, TransmitIs
  <2>3. \A m \in Nodes \ {n} : OutOf(out'[m], state'[m], pend'[m], m)
    BY <1>1, <2>1, <2>2, Zenon
  <2>4. OutOf(out'[n], state'[n], pend'[n], n)
    <3>1. CASE sent
      <4>1. \A i \in 1..Len(out[n]) : out[n][i].node = n /\ (out[n][i].kind = "CID" => i = 1)
        BY <1>1, <2>2, <3>1 DEF OutOf
      <4>2. \A i \in 1..Len(out'[n]) : i + 1 # 1
        BY <2>2
      <4>3. \A i \in 1..Len(out'[n]) : out'[n][i].node = n /\ out'[n][i].kind # "CID"
        BY <2>2, <4>1, <4>2
      <4> QED BY <4>3 DEF OutOf
    <3>2. CASE ~sent
      <4>1. state'[n] = state[n] /\ pend'[n] = pend[n]
        BY <2>1, <3>2
      <4>2. \A i, j \in 1..Len(out'[n]) : i + 1 = j + 1 => i = j
        BY <2>2
      <4>3. \A i \in 1..Len(out'[n]) :
               /\ out[n][i + 1].node = n
               /\ out[n][i + 1].kind = "CID" =>
                     /\ state[n] = "handle_allocate_for_cid_frame"
                     /\ out[n][i + 1].alias = pend[n]
                     /\ \A j \in 1..Len(out[n]) : out[n][j].kind = "CID" => i + 1 = j
        BY <1>1, <2>2 DEF OutOf
      <4>4. \A i \in 1..Len(out'[n]) :
               /\ out'[n][i].node = n
               /\ out'[n][i].kind = "CID" =>
                     /\ state[n] = "handle_allocate_for_cid_frame"
                     /\ out'[n][i].alias = pend[n]
                     /\ \A j \in 1..Len(out[n]) : out[n][j].kind = "CID" => i + 1 = j
        BY <2>2, <4>3
      <4>5. ASSUME NEW i \in 1..Len(out'[n]), NEW j \in 1..Len(out'[n]),
                   out'[n][i].kind = "CID", out'[n][j].kind = "CID"
            PROVE  i = j
        <5>1. j + 1 \in 1..Len(out[n]) /\ out[n][j + 1].kind = "CID"
          BY <2>2, <4>5
        <5>2. i + 1 = j + 1
          BY <4>4, <4>5, <5>1
        <5> QED BY <4>2, <5>2
      <4> QED BY <4>1, <4>4, <4>5 DEF OutOf
    <3> QED BY <3>1, <3>2
  <2> QED BY <2>3, <2>4 DEF Goal
<1>18. Goal
  BY <1>7, <1>8, <1>9, <1>10, <1>11, <1>13, <1>14, <1>15, <1>16, <1>17 DEF Next
<1> QED BY <1>18 DEF Goal
-----------------------------------------------------------------------------
(* Who holds an alias, and who is after it. *)

\* An interface comes to hold an alias only when its allocator is done with it.
LEMMA OwnsNew ==
    ASSUME TypeOK, AllocInv, Next, NEW k \in Nodes, NEW a \in Aliases,
           local[k][a] = "none", local'[k][a] # "none"
    PROVE  /\ SendRid(k) /\ k \notin conflict /\ pend[k] = a /\ state[k] = "send_rid_frame"
           /\ cid[k] = 3 /\ pend'[k] = 0
           /\ \A j \in Nodes \ {k} : local'[j] = local[j] /\ pend'[j] = pend[j]
           /\ \E g \in Elems(out'[k]) : g.alias = a /\ g.node = k /\ g.kind = "RID"
<1>1. PICK n \in Nodes : SendRid(n) /\ n \notin conflict
  BY LocalIs
<1>2. /\ pend[n] \in Aliases /\ state[n] = "send_rid_frame"
      /\ out' = [out EXCEPT ![n] = Append(@, Fr("RID", pend[n], n))]
      /\ \A b \in Aliases : b # pend[n] => local'[n][b] = local[n][b]
      /\ \A j \in Nodes \ {n} : local'[j] = local[j]
      /\ pend' = [pend EXCEPT ![n] = 0]
  BY <1>1, RidIs
<1>3. n = k
  BY <1>2
<1>4. pend[k] = a
  BY <1>2, <1>3
<1>5. /\ Fr("RID", a, k) \in Frame /\ Fr("RID", a, k).kind = "RID"
      /\ Fr("RID", a, k).alias = a /\ Fr("RID", a, k).node = k
  BY FrIs
<1>6. Fr("RID", a, k) \in Elems(out'[k])
  <2> DEFINE g == Fr("RID", a, k)
  <2>1. g \in Frame /\ out' = [out EXCEPT ![k] = Append(@, g)]
    BY <1>2, <1>3, <1>4, <1>5
  <2> HIDE DEF g
  <2>2. Elems(out'[k]) = Elems(out[k]) \cup {g}
    BY <2>1, PutIs
  <2> QED BY <2>2 DEF g
<1>7. pend'[k] = 0 /\ \A j \in Nodes \ {k} : pend'[j] = pend[j]
  BY <1>2, <1>3 DEF TypeOK
<1>8. cid[k] = 3
  BY <1>2, <1>3 DEF AllocInv
<1> QED BY <1>1, <1>2, <1>3, <1>4, <1>5, <1>6, <1>7, <1>8

\* get_new_seed() leaves the caches alone.
LEMMA PendIs ==
    ASSUME TypeOK, AllocInv, OutInv, Next, NEW n \in Nodes
    PROVE  pend'[n] \in {pend[n], 0} \/ (local' = local /\ local[n][pend'[n]] = "none")
<1> DEFINE Goal == pend'[n] \in {pend[n], 0} \/ (local' = local /\ local[n][pend'[n]] = "none")
<1>1. ASSUME NEW k \in Nodes, Begin(k), local' = local PROVE Goal
  BY <1>1, BeginIs
<1>2. ASSUME pend' = pend PROVE Goal
  BY <1>2
<1>3. ASSUME NEW k \in Nodes, Entry(k) PROVE Goal
  BY <1>1, <1>3 DEF Entry
<1>4. ASSUME NEW k \in Nodes, SendCid(k) PROVE Goal
  BY <1>1, <1>2, <1>4 DEF SendCid
<1>5. ASSUME NEW k \in Nodes, WaitDone(k) PROVE Goal
  BY <1>1, <1>2, <1>5 DEF WaitDone
<1>6. ASSUME NEW k \in Nodes, SendRid(k) PROVE Goal
  <2>1. CASE k \in conflict
    BY <1>1, <1>6, <2>1 DEF SendRid
  <2>2. CASE k \notin conflict
    <3>1. pend' = [pend EXCEPT ![k] = 0] /\ pend \in [Nodes -> Aliases \cup {0}]
      BY <1>6, <2>2, RidIs DEF TypeOK
    <3> QED BY <3>1
  <2> QED BY <2>1, <2>2
<1>7. ASSUME NEW k \in Nodes, TimerExpires(k) \/ TimerRun(k) PROVE Goal
  BY <1>2, <1>7 DEF TimerExpires, TimerRun
<1>8. ASSUME NEW k \in Nodes, Transmit(k) PROVE Goal
  BY <1>2, <1>8 DEF Transmit
<1>9. ASSUME Aside PROVE Goal
  BY <1>2, <1>9, AsideIs
<1> QED BY <1>3, <1>4, <1>5, <1>6, <1>7, <1>8, <1>9 DEF Next, Aside

\* What is being allocated is not held.
LEMMA PendingIsFreeKeeps ==
    ASSUME TypeOK, AllocInv, OutInv, PendingIsFree, Next
    PROVE  PendingIsFree'
<1>1. SUFFICES ASSUME NEW n \in Nodes, NEW a \in Aliases, pend'[n] = a, local'[n][a] # "none"
               PROVE  FALSE
  BY DEF PendingIsFree
<1>2. a # 0
  BY AllocationAssumption
<1>3. pend[n] = a
  BY <1>1, <1>2, PendIs
<1>4. local[n][a] = "none"
  BY <1>3 DEF PendingIsFree
<1>5. pend'[n] = 0
  BY <1>1, <1>4, OwnsNew
<1> QED BY <1>1, <1>2, <1>5

\* An allocator that is heard of goes on with the alias it has, and is done only
\* when its timer ran.
LEMMA ProbeIs ==
    ASSUME TypeOK, AllocInv, OutInv, Next, NEW n \in Nodes, NEW a \in Aliases,
           Probing(n, a)', ~Quiet(n)'
    PROVE  /\ Probing(n, a)
           /\ ~Quiet(n) \/ (Transmit(n) /\ out[n][1].kind = "CID")
           /\ Cleared(n)' => Cleared(n) \/ TimerExpires(n)
<1> DEFINE Goal == /\ Probing(n, a)
                   /\ ~Quiet(n) \/ (Transmit(n) /\ out[n][1].kind = "CID")
                   /\ Cleared(n)' => Cleared(n) \/ TimerExpires(n)
<1>1. /\ state'[n] # "idle" /\ pend'[n] = a /\ n \notin conflict' /\ cid'[n] # 7
      /\ ~(cid'[n] = 6 /\ state'[n] = "handle_allocate_for_cid_frame")
  BY DEF Probing, Quiet
<1>2. ASSUME state'[n] = state[n], pend'[n] = pend[n], cid'[n] = cid[n],
             n \in conflict => n \in conflict',
             timer'[n] = timer[n] \/ timer'[n] \notin {"expired", "notified"}
      PROVE  Goal
  BY <1>1, <1>2 DEF Probing, Quiet, Cleared
<1>3. ASSUME NEW k \in Nodes, Begin(k), k # n, timer'[n] = timer[n] PROVE Goal
  <2>1. /\ pend'[n] = pend[n] /\ cid'[n] = cid[n] /\ state'[n] = state[n]
        /\ conflict' = conflict \ {k}
    BY <1>3, BeginIs
  <2> QED BY <1>2, <1>3, <2>1
<1>4. ASSUME NEW k \in Nodes, Begin(k) PROVE k # n
  BY <1>1, <1>4, BeginIs
<1>5. ASSUME NEW k \in Nodes, Entry(k) PROVE Goal
  <2>1. Begin(k) /\ timer' = timer
    BY <1>5 DEF Entry
  <2> QED BY <1>3, <1>4, <2>1
<1>6. ASSUME NEW k \in Nodes, SendCid(k) PROVE Goal
  <2>1. timer' = timer /\ state[k] = "send_cid_frame"
    BY <1>6 DEF SendCid
  <2>2. CASE k \in conflict
    BY <1>3, <1>4, <1>6, <2>1, <2>2 DEF SendCid
  <2>3. CASE k \notin conflict
    <3>1. /\ state' = [state EXCEPT ![k] = "handle_allocate_for_cid_frame"]
          /\ cid' = [cid EXCEPT ![k] = @ - 1] /\ UNCHANGED <<pend, conflict>>
      BY <1>6, <2>3 DEF SendCid
    <3>2. CASE k # n
      <4>1. state'[n] = state[n] /\ cid'[n] = cid[n]
        BY <3>1, <3>2 DEF TypeOK
      <4> QED BY <1>2, <2>1, <3>1, <4>1
    <3>3. CASE k = n
      <4>1. state'[n] = "handle_allocate_for_cid_frame" /\ cid'[n] = cid[n] - 1
        BY <3>1, <3>3 DEF TypeOK
      <4>2. cid[n] \in {4, 5, 6, 7} /\ state[n] # "idle"
        BY <2>1, <3>3 DEF AllocInv
      <4>3. cid[n] # 7
        BY <1>1, <4>1, <4>2
      <4>4. ~Quiet(n) /\ ~Cleared(n)'
        BY <2>1, <3>3, <4>1, <4>3 DEF Quiet, Cleared
      <4>5. Probing(n, a)
        BY <1>1, <3>1, <4>2 DEF Probing
      <4> QED BY <4>4, <4>5
    <3> QED BY <3>2, <3>3
  <2> QED BY <2>2, <2>3
<1>7. ASSUME NEW k \in Nodes, WaitDone(k) PROVE Goal
  <2>1. /\ state[k] = "wait_done" /\ timer[k] = "notified"
        /\ timer' = [timer EXCEPT ![k] = "idle"]
    BY <1>7 DEF WaitDone
  <2>2. k # n => timer'[n] = timer[n]
    BY <2>1 DEF TypeOK
  <2>3. CASE k \in conflict
    BY <1>3, <1>4, <1>7, <2>2, <2>3 DEF WaitDone
  <2>4. CASE k \notin conflict
    <3>1. /\ state' = [state EXCEPT ![k] = "send_rid_frame"]
          /\ UNCHANGED <<pend, cid, conflict>>
      BY <1>7, <2>4 DEF WaitDone
    <3>2. CASE k # n
      <4>1. state'[n] = state[n]
        BY <3>1, <3>2 DEF TypeOK
      <4> QED BY <1>2, <2>2, <3>1, <3>2, <4>1
    <3>3. CASE k = n
      <4>1. Cleared(n) /\ ~Quiet(n) /\ Probing(n, a)
        BY <1>1, <2>1, <3>1, <3>3 DEF Cleared, Quiet, Probing
      <4> QED BY <4>1
    <3> QED BY <3>2, <3>3
  <2> QED BY <2>3, <2>4
<1>8. ASSUME NEW k \in Nodes, SendRid(k) PROVE Goal
  <2>1. timer' = timer
    BY <1>8 DEF SendRid
  <2>2. CASE k \in conflict
    BY <1>3, <1>4, <1>8, <2>1, <2>2 DEF SendRid
  <2>3. CASE k \notin conflict
    <3>1. /\ state' = [state EXCEPT ![k] = "idle"] /\ pend' = [pend EXCEPT ![k] = 0]
          /\ UNCHANGED <<cid, conflict>>
      BY <1>8, <2>3 DEF SendRid
    <3>2. k # n
      BY <1>1, <3>1 DEF TypeOK
    <3>3. state'[n] = state[n] /\ pend'[n] = pend[n]
      BY <3>1, <3>2 DEF TypeOK
    <3> QED BY <1>2, <2>1, <3>1, <3>3
  <2> QED BY <2>2, <2>3
<1>9. ASSUME NEW k \in Nodes, TimerExpires(k) PROVE Goal
  <2>1. UNCHANGED <<state, pend, cid, conflict>> /\ timer' = [timer EXCEPT ![k] = "expired"]
    BY <1>9 DEF TimerExpires
  <2>2. CASE k # n
    <3>1. timer'[n] = timer[n]
      BY <2>1, <2>2 DEF TypeOK
    <3> QED BY <1>2, <2>1, <3>1
  <2>3. CASE k = n
    BY <1>1, <1>9, <2>1, <2>3 DEF Probing, Quiet
  <2> QED BY <2>2, <2>3
<1>10. ASSUME NEW k \in Nodes, TimerRun(k) PROVE Goal
  <2>1. /\ UNCHANGED <<state, pend, cid, conflict>> /\ timer[k] = "expired"
        /\ timer' = [timer EXCEPT ![k] = "notified"]
    BY <1>10 DEF TimerRun
  <2>2. CASE k # n
    <3>1. timer'[n] = timer[n]
      BY <2>1, <2>2 DEF TypeOK
    <3> QED BY <1>2, <2>1, <3>1
  <2>3. CASE k = n
    <3>1. Cleared(n)' => Cleared(n)
      BY <2>1, <2>3 DEF Cleared
    <3>2. Probing(n, a) /\ ~Quiet(n)
      BY <1>1, <2>1 DEF Probing, Quiet
    <3> QED BY <3>1, <3>2
  <2> QED BY <2>2, <2>3
<1>11. ASSUME Aside PROVE Goal
  <2>1. UNCHANGED <<state, pend, cid, conflict, timer>>
    BY <1>11, AsideIs
  <2> QED BY <1>2, <2>1
<1>12. ASSUME NEW k \in Nodes, Transmit(k) PROVE Goal
  <2> DEFINE f == out[k][1]
             sent == f.kind = "CID"
             last == sent /\ ~CidsLeft(k)
  <2>1. /\ UNCHANGED <<pend, cid>> /\ conflict' = conflict \cup Alarmed(k, f.alias)
        /\ sent => state[k] = "handle_allocate_for_cid_frame"
        /\ \A m \in Nodes \ {k} : state'[m] = state[m]
        /\ state'[k] = (IF ~sent THEN state[k]
                        ELSE IF last THEN "wait_done" ELSE "send_cid_frame")
        /\ \A m \in Nodes \ {k} :
              \/ timer'[m] = timer[m]
              \/ timer'[m] = "triggered" /\ m \in conflict' /\ timer[m] = "active"
        /\ timer'[k] = (IF last THEN "active" ELSE timer[k])
    BY <1>12, TransmitAlloc
  <2>2. CASE k # n \/ ~sent
    <3>1. state'[n] = state[n]
      BY <2>1, <2>2
    <3>2. timer'[n] = timer[n] \/ timer'[n] = "triggered"
      BY <2>1, <2>2
    <3> QED BY <1>2, <2>1, <3>1, <3>2
  <2>3. CASE k = n /\ sent
    <3>1. state[n] = "handle_allocate_for_cid_frame" /\ n \notin conflict /\ pend[n] = a
      BY <1>1, <2>1, <2>3
    <3>2. timer[n] = "idle"
      BY <3>1 DEF AllocInv
    <3>3. timer'[n] \in {"active", "idle"}
      BY <2>1, <2>3, <3>2
    <3>4. state'[n] # "send_rid_frame"
      BY <2>1, <2>3
    <3>5. ~Cleared(n)'
      BY <3>3, <3>4 DEF Cleared
    <3>6. Probing(n, a)
      BY <3>1 DEF Probing
    <3> QED BY <1>12, <2>3, <3>5, <3>6
  <2> QED BY <2>2, <2>3
<1> HIDE DEF Goal
<1>13. Goal
  BY <1>5, <1>6, <1>7, <1>8, <1>9, <1>10, <1>11, <1>12 DEF Next, Aside
<1> QED BY <1>13 DEF Goal

\* A CID frame on the bus tells every other allocator that is after the alias.
LEMMA AlarmIs ==
    ASSUME TypeOK, AllocInv, OutInv, NEW n \in Nodes, Transmit(n), NEW m \in Nodes \ {n},
           NEW a \in Aliases, Probing(m, a), out[n][1].alias = a
    PROVE  ~Probing(m, a)'
<1>1. conflict' = conflict \cup Alarmed(n, out[n][1].alias)
  BY TransmitAlloc
<1>2. m \in Alarmed(n, a)
  BY DEF Probing, Alarmed
<1> QED BY <1>1, <1>2 DEF Probing

\* Two allocators after the same alias.
LEMMA OneProbesKeeps ==
    ASSUME TypeOK, AllocInv, OutInv, OneProbes, Next
    PROVE  OneProbes'
<1>1. SUFFICES ASSUME NEW n \in Nodes, NEW m \in Nodes, NEW a \in Aliases, n # m,
                      Probing(n, a)', Probing(m, a)', ~Quiet(n)', ~Quiet(m)'
               PROVE  FALSE
  BY DEF OneProbes
<1>2. Probing(n, a) /\ Probing(m, a)
  BY <1>1, ProbeIs
<1>3. Quiet(n) \/ Quiet(m)
  BY <1>1, <1>2 DEF OneProbes
<1>4. ASSUME NEW k \in Nodes, NEW j \in Nodes \ {k}, Transmit(k), out[k][1].kind = "CID",
             Probing(k, a), Probing(j, a), Probing(j, a)'
      PROVE  FALSE
  <2>1. out[k][1].alias = a
    BY <1>4, TransmitAlloc DEF Probing
  <2> QED BY <1>4, <2>1, AlarmIs
<1>5. CASE Quiet(n)
  <2>1. Transmit(n) /\ out[n][1].kind = "CID"
    BY <1>1, <1>5, ProbeIs
  <2> QED BY <1>1, <1>2, <1>4, <2>1
<1>6. CASE Quiet(m)
  <2>1. Transmit(m) /\ out[m][1].kind = "CID"
    BY <1>1, <1>6, ProbeIs
  <2> QED BY <1>1, <1>2, <1>4, <2>1
<1> QED BY <1>3, <1>5, <1>6

\* A frame under way from n to m is not lost, and m drops it only when it
\* handles it.
LEMMA FramesGo ==
    ASSUME TypeOK, AllocInv, SrcInv, Next, NEW n \in Nodes, NEW m \in Nodes, n # m, NEW f
    PROVE  /\ f \in Elems(out[n]) => \/ f \in Elems(out'[n])
                                     \/ Transmit(n) /\ f = out[n][1] /\ f \in Elems(seen'[m])
           /\ f \in Elems(seen[m]) => \/ f \in Elems(seen'[m])
                                      \/ HandleFrame(m) /\ f = Head(seen[m])
<1>1. f \in Elems(out[n]) => \/ f \in Elems(out'[n])
                             \/ Transmit(n) /\ f = out[n][1] /\ f \in Elems(seen'[m])
  <2>1. CASE \A k \in Nodes : ~Transmit(k)
    BY <2>1, OutGrows DEF Grows
  <2>2. ASSUME NEW k \in Nodes \ {n}, Transmit(k) PROVE out'[n] = out[n]
    BY <2>2, TransmitIs
  <2>3. CASE Transmit(n)
    <3>1. /\ Elems(out[n]) = Elems(out'[n]) \cup {out[n][1]}
          /\ Elems(seen'[m]) = Elems(seen[m]) \cup {out[n][1]}
      BY <2>3, TransmitIs
    <3> QED BY <2>3, <3>1
  <2> QED BY <2>1, <2>2, <2>3
<1>2. f \in Elems(seen[m]) => \/ f \in Elems(seen'[m])
                              \/ HandleFrame(m) /\ f = Head(seen[m])
  <2>1. ASSUME NEW k \in Nodes, Transmit(k) PROVE Elems(seen[m]) \subseteq Elems(seen'[m])
    <3>1. CASE k = m
      <4>1. seen'[m] = seen[m]
        BY <2>1, <3>1, TransmitIs
      <4> QED BY <4>1
    <3>2. CASE k # m
      <4>1. Elems(seen'[m]) = Elems(seen[m]) \cup {out[k][1]}
        BY <2>1, <3>2, TransmitIs
      <4> QED BY <4>1
    <3> QED BY <3>1, <3>2
  <2>2. CASE HandleFrame(m)
    <3>1. Elems(seen[m]) = Elems(seen'[m]) \cup {Head(seen[m])}
      BY <2>2, HandleIs
    <3> QED BY <2>2, <3>1
  <2>3. ASSUME NEW k \in Nodes \ {m}, HandleFrame(k) PROVE seen'[m] = seen[m]
    BY <2>3, HandleIs
  <2>4. ASSUME NEW k \in Nodes, \/ Entry(k) \/ SendCid(k) \/ WaitDone(k) \/ SendRid(k)
                                \/ TimerExpires(k) \/ TimerRun(k) \/ ReturnAlias(k)
        PROVE  seen' = seen
    BY <2>4 DEF Entry, SendCid, WaitDone, SendRid, TimerExpires, TimerRun, ReturnAlias
  <2>5. ASSUME NEW k \in Nodes, NEW g \in Flows,
               \/ SendMessage(k, g) \/ UseAlias(k, g) \/ TakeAlias(k, g)
               \/ AskForAlias(k, g) \/ SendAmd(k, g) \/ FillFrame(k, g)
        PROVE  seen' = seen
    BY <2>5 DEF SendMessage, UseAlias, TakeAlias, AskForAlias, SendAmd, FillFrame
  <2> QED BY <2>1, <2>2, <2>3, <2>4, <2>5 DEF Next
<1> QED BY <1>1, <1>2

\* The handler flows answer a CID frame for an alias of the interface, and give
\* the alias up for any other frame.
LEMMA HandlerAnswers ==
    ASSUME TypeOK, NEW m \in Nodes, HandleFrame(m), NEW a \in Aliases,
           Head(seen[m]).alias = a, local[m][a] # "none"
    PROVE  /\ Head(seen[m]).kind = "CID" => \E g \in Elems(out'[m]) : g.alias = a
           /\ Head(seen[m]).kind # "CID" => local'[m][a] = "none"
<1>1. Head(seen[m]) \in Frame /\ Defend(m, Head(seen[m]))
  BY HandleIs DEF HandleFrame
<1> QED BY <1>1, DefendIs

\* The delay is that of the interfaces, not of a step; who announced a lost alias
\* is not forgotten.
LEMMA ObservedStays ==
    ASSUME Next
    PROVE  timely' = timely /\ strayed \subseteq strayed'
<1>1. ASSUME NEW n \in Nodes, Entry(n) \/ SendCid(n) \/ WaitDone(n) \/ SendRid(n)
                                \/ TimerExpires(n) \/ TimerRun(n)
      PROVE  UNCHANGED <<timely, strayed>>
  BY <1>1 DEF Entry, SendCid, WaitDone, SendRid, TimerExpires, TimerRun
<1>2. ASSUME NEW n \in Nodes, Transmit(n) \/ HandleFrame(n) \/ ReturnAlias(n)
      PROVE  UNCHANGED <<timely, strayed>>
  BY <1>2 DEF Transmit, HandleFrame, ReturnAlias
<1>3. ASSUME NEW n \in Nodes, NEW f \in Flows, \/ SendMessage(n, f) \/ UseAlias(n, f)
                \/ TakeAlias(n, f) \/ AskForAlias(n, f) \/ FillFrame(n, f)
      PROVE  UNCHANGED <<timely, strayed>>
  BY <1>3 DEF SendMessage, UseAlias, TakeAlias, AskForAlias, FillFrame
<1>4. ASSUME NEW n \in Nodes, NEW f \in Flows, SendAmd(n, f)
      PROVE  timely' = timely /\ strayed \subseteq strayed'
  BY <1>4 DEF SendAmd
<1> QED BY <1>1, <1>2, <1>3, <1>4 DEF Next

\* Who holds the alias is heard.
LEMMA HolderKeeps ==
    ASSUME TypeOK, AllocInv, SrcInv, OutInv, OneProbes, HolderAnswers, Next
    PROVE  HolderAnswers'
<1>1. SUFFICES ASSUME timely', NEW n \in Nodes, NEW m \in Nodes, NEW a \in Aliases, n # m,
                      Probing(n, a)', ~Quiet(n)', local'[m][a] # "none"
               PROVE  ~Cleared(n)' /\ Pending(m, a)'
  BY DEF HolderAnswers
<1>2. Probing(n, a) /\ (~Quiet(n) \/ (Transmit(n) /\ out[n][1].kind = "CID"))
      /\ (Cleared(n)' => Cleared(n) \/ TimerExpires(n))
  BY <1>1, ProbeIs
<1>3. timely
  BY <1>1, ObservedStays
<1>4. local[m][a] # "none"
  <2>1. SUFFICES ASSUME local[m][a] = "none" PROVE FALSE
    OBVIOUS
  <2>2. /\ m \notin conflict /\ pend[m] = a /\ state[m] = "send_rid_frame" /\ cid[m] = 3
        /\ pend'[m] = 0
    BY <1>1, <2>1, OwnsNew
  <2>3. Probing(m, a) /\ ~Quiet(m)
    BY <2>2 DEF Probing, Quiet
  <2>4. Quiet(n)
    BY <1>1, <1>2, <2>3 DEF OneProbes
  <2>5. Transmit(n)
    BY <1>2, <2>4
  <2>6. pend' = pend
    BY <2>5 DEF Transmit
  <2>7. a # 0
    BY AllocationAssumption
  <2> QED BY <2>2, <2>6, <2>7
<1>5. pend[n] = a /\ n \notin conflict /\ n \notin conflict'
  BY <1>1, <1>2 DEF Probing
<1>6. CASE Quiet(n)
  <2>1. Transmit(n) /\ out[n][1].kind = "CID"
    BY <1>2, <1>6
  <2>2. state[n] = "handle_allocate_for_cid_frame" /\ out[n][1].alias = a
    BY <1>5, <2>1, TransmitAlloc
  <2>3. ~Cleared(n)
    BY <2>2 DEF Cleared
  <2>4. ~TimerExpires(n)
    BY <2>2 DEF TimerExpires, AllocInv
  <2>5. out[n][1] \in Elems(seen'[m])
    <3>1. Elems(seen'[m]) = Elems(seen[m]) \cup {out[n][1]}
      BY <1>1, <2>1, TransmitIs
    <3> QED BY <3>1
  <2>6. Pending(m, a)'
    BY <2>2, <2>5 DEF Pending
  <2> QED BY <1>2, <2>3, <2>4, <2>6
<1>7. CASE ~Quiet(n)
  <2>1. ~Cleared(n) /\ Pending(m, a)
    BY <1>1, <1>2, <1>3, <1>4, <1>7 DEF HolderAnswers
  <2>2. PICK f \in Elems(out[m]) \cup Elems(seen[m]) : f.alias = a
    BY <2>1 DEF Pending
  <2>3. ~TimerExpires(n)
    <3>1. ~Answered(n)
      BY <1>1, <1>5, <2>2 DEF Answered
    <3>2. timer[n] # "triggered"
      BY <1>5 DEF AllocInv
    <3> QED BY <1>3, <3>1, <3>2 DEF TimerExpires
  <2>4. Pending(m, a)'
    <3>1. CASE f \in Elems(out'[m]) \/ f \in Elems(seen'[m])
      BY <2>2, <3>1 DEF Pending
    <3>2. CASE Transmit(m) /\ f = out[m][1]
      <4>1. ~Probing(n, a)'
        BY <1>1, <1>2, <2>2, <3>2, AlarmIs
      <4> QED BY <1>1, <4>1
    <3>3. CASE HandleFrame(m) /\ f = Head(seen[m])
      <4>1. \E g \in Elems(out'[m]) : g.alias = a
        BY <1>1, <1>4, <2>2, <3>3, HandlerAnswers
      <4> QED BY <4>1 DEF Pending
    <3> QED BY <1>1, <2>2, <3>1, <3>2, <3>3, FramesGo
  <2> QED BY <1>2, <2>1, <2>3, <2>4
<1> QED BY <1>6, <1>7

\* An allocator that is done has no rival.
LEMMA UniqueKeeps ==
    ASSUME TypeOK, AllocInv, HolderAnswers, UniqueAlias, Next
    PROVE  UniqueAlias'
<1>1. SUFFICES ASSUME timely', NEW n \in Nodes, NEW m \in Nodes, NEW a \in Aliases, n # m,
                      local'[n][a] # "none", local'[m][a] # "none"
               PROVE  FALSE
  BY DEF UniqueAlias
<1>2. timely
  BY <1>1, ObservedStays
<1>3. local[n][a] = "none" \/ local[m][a] = "none"
  BY <1>1, <1>2 DEF UniqueAlias
<1>4. ASSUME NEW k \in Nodes, NEW j \in Nodes \ {k}, local[k][a] = "none",
             local'[k][a] # "none", local'[j][a] # "none"
      PROVE  FALSE
  <2>1. /\ k \notin conflict /\ pend[k] = a /\ state[k] = "send_rid_frame" /\ cid[k] = 3
        /\ local'[j] = local[j]
    BY <1>4, OwnsNew
  <2>2. Probing(k, a) /\ ~Quiet(k) /\ Cleared(k) /\ local[j][a] # "none"
    BY <1>4, <2>1 DEF Probing, Quiet, Cleared
  <2> QED BY <1>2, <2>2 DEF HolderAnswers
<1> QED BY <1>1, <1>3, <1>4

\* A duplicate comes into being with a frame that ends it.
LEMMA DuplicateKeeps ==
    ASSUME TypeOK, AllocInv, SrcInv, DuplicateIsNoticed, Next
    PROVE  DuplicateIsNoticed'
<1>1. SUFFICES ASSUME NEW n \in Nodes, NEW m \in Nodes, NEW a \in Aliases, n # m,
                      local'[n][a] # "none", local'[m][a] # "none"
               PROVE  Coming(n, m, a)' \/ Coming(m, n, a)'
  BY DEF DuplicateIsNoticed
<1>2. ASSUME NEW k \in Nodes, NEW j \in Nodes, local[k][a] = "none", local'[k][a] # "none"
      PROVE  Coming(k, j, a)'
  BY <1>2, OwnsNew DEF Coming
<1>3. ASSUME NEW k \in Nodes, NEW j \in Nodes, k # j, local[j][a] # "none",
             local'[j][a] # "none", Coming(k, j, a)
      PROVE  Coming(k, j, a)'
  <2>1. PICK f \in Elems(out[k]) \cup Elems(seen[j]) :
           f.alias = a /\ f.node = k /\ f.kind # "CID"
    BY <1>3 DEF Coming
  <2>2. CASE f \in Elems(out'[k]) \/ f \in Elems(seen'[j])
    BY <2>1, <2>2 DEF Coming
  <2>3. CASE HandleFrame(j) /\ f = Head(seen[j])
    BY <1>3, <2>1, <2>3, HandlerAnswers
  <2> QED BY <1>3, <2>1, <2>2, <2>3, FramesGo
<1>4. CASE local[n][a] = "none" \/ local[m][a] = "none"
  BY <1>1, <1>2, <1>4
<1>5. CASE local[n][a] # "none" /\ local[m][a] # "none"
  <2>1. Coming(n, m, a) \/ Coming(m, n, a)
    BY <1>1, <1>5 DEF DuplicateIsNoticed
  <2> QED BY <1>1, <1>3, <1>5, <2>1
<1> QED BY <1>4, <1>5
-----------------------------------------------------------------------------
(* The caches of the others. *)

\* Only the bus and the handler flows touch what an interface has heard.
LEMMA HeardStays ==
    ASSUME Next, \A k \in Nodes : ~Transmit(k) /\ ~HandleFrame(k)
    PROVE  UNCHANGED <<seen, remote>>
BY DEF Next, Entry, SendCid, WaitDone, SendRid, TimerExpires, TimerRun, ReturnAlias,
       SendMessage, UseAlias, TakeAlias, AskForAlias, SendAmd, FillFrame

\* What the handler flows make of the next frame.
LEMMA RemoteIs ==
    ASSUME TypeOK, NEW m \in Nodes, HandleFrame(m)
    PROVE  /\ \A k \in Nodes \ {m} : remote'[k] = remote[k]
           /\ \A a \in Aliases : \A n \in Nodes : remote'[m][a] = n =>
                 \/ remote[m][a] = n /\ ~(seen[m][1].kind = "AMR" /\ seen[m][1].node = n)
                 \/ seen[m][1].kind = "AMD" /\ seen[m][1].node = n
<1>1. seen[m][1] \in Frame /\ seen[m][1] = Head(seen[m])
  BY HandleIs
<1>2. /\ remote \in [Nodes -> [Aliases -> Nodes \cup {"none"}]]
      /\ remote' = [remote EXCEPT ![m] = Updated(@, Head(seen[m]))]
  BY DEF TypeOK, HandleFrame
<1>3. remote'[m] = Updated(remote[m], seen[m][1]) /\ \A k \in Nodes \ {m} : remote'[k] = remote[k]
  BY <1>1, <1>2
<1>4. remote[m] \in [Aliases -> Nodes \cup {"none"}]
  BY <1>2
<1> QED BY <1>1, <1>3, <1>4, UpdatedIs

\* An interface does not hear itself.
LEMMA HearsKeeps ==
    ASSUME TypeOK, OutInv, HearsOthers, Next
    PROVE  HearsOthers'
<1>1. SUFFICES ASSUME NEW n \in Nodes
               PROVE  /\ \A i \in 1..Len(seen'[n]) : seen'[n][i].node # n
                      /\ \A a \in Aliases : remote'[n][a] # n
  BY DEF HearsOthers
<1>2. /\ \A i \in 1..Len(seen[n]) : seen[n][i].node # n
      /\ \A a \in Aliases : remote[n][a] # n
  BY DEF HearsOthers
<1>3. ASSUME seen'[n] = seen[n], remote'[n] = remote[n]
      PROVE  /\ \A i \in 1..Len(seen'[n]) : seen'[n][i].node # n
             /\ \A a \in Aliases : remote'[n][a] # n
  BY <1>2, <1>3
<1>4. CASE \A k \in Nodes : ~Transmit(k) /\ ~HandleFrame(k)
  BY <1>3, <1>4, HeardStays
<1>5. CASE Transmit(n)
  BY <1>3, <1>5, TransmitIs DEF Transmit
<1>6. ASSUME NEW k \in Nodes \ {n}, Transmit(k)
      PROVE  /\ \A i \in 1..Len(seen'[n]) : seen'[n][i].node # n
             /\ \A a \in Aliases : remote'[n][a] # n
  <2>1. remote' = remote
    BY <1>6 DEF Transmit
  <2>2. /\ Len(seen[n]) \in Nat /\ Len(seen'[n]) = Len(seen[n]) + 1
        /\ \A i \in 1..Len(seen[n]) : seen'[n][i] = seen[n][i]
        /\ seen'[n][Len(seen[n]) + 1] = out[k][1] /\ 1 \in 1..Len(out[k])
    BY <1>6, TransmitIs
  <2>3. out[k][1].node = k
    BY <2>2 DEF OutInv
  <2>4. \A i \in 1..Len(seen'[n]) : i \in 1..Len(seen[n]) \/ i = Len(seen[n]) + 1
    BY <2>2
  <2> QED BY <1>2, <2>1, <2>2, <2>3, <2>4
<1>7. CASE HandleFrame(n)
  <2>1. /\ 1 \in 1..Len(seen[n])
        /\ \A i \in 1..Len(seen'[n]) : i + 1 \in 1..Len(seen[n]) /\ seen'[n][i] = seen[n][i + 1]
    BY <1>7, HandleIs
  <2>2. seen[n][1].node # n
    BY <1>2, <2>1
  <2> QED BY <1>2, <1>7, <2>1, <2>2, RemoteIs
<1>8. ASSUME NEW k \in Nodes \ {n}, HandleFrame(k)
      PROVE  /\ \A i \in 1..Len(seen'[n]) : seen'[n][i].node # n
             /\ \A a \in Aliases : remote'[n][a] # n
  BY <1>3, <1>8, HandleIs, RemoteIs
<1> QED BY <1>4, <1>5, <1>6, <1>7, <1>8

\* AMR frames when a sequence grows at its end.
LEMMA AfterMore ==
    ASSUME NEW s, NEW u, Len(s) \in Nat, Len(u) \in Nat, Len(s) <= Len(u),
           \A i \in 1..Len(s) : u[i] = s[i], NEW i, NEW n, AmrAfter(s, i, n)
    PROVE  AmrAfter(u, i, n)
<1>1. PICK j \in 1..Len(s) : i < j /\ s[j].kind = "AMR" /\ s[j].node = n
  BY DEF AmrAfter
<1>2. j \in 1..Len(u) /\ u[j] = s[j]
  OBVIOUS
<1> QED BY <1>1, <1>2 DEF AmrAfter

\* AMR frames when a sequence loses its first.
LEMMA AfterTail ==
    ASSUME NEW s, NEW t, Len(s) \in Nat, Len(t) = Len(s) - 1,
           \A i \in 1..Len(t) : t[i] = s[i + 1], NEW n
    PROVE  /\ \A i \in Nat : AmrAfter(s, i + 1, n) => AmrAfter(t, i, n)
           /\ AmrAfter(s, 0, n) =>
                 AmrAfter(t, 0, n) \/ (s[1].kind = "AMR" /\ s[1].node = n)
<1>1. ASSUME NEW i \in Nat, AmrAfter(s, i + 1, n) PROVE AmrAfter(t, i, n)
  <2>1. PICK j \in 1..Len(s) : i + 1 < j /\ s[j].kind = "AMR" /\ s[j].node = n
    BY <1>1 DEF AmrAfter
  <2>2. j - 1 \in 1..Len(t) /\ i < j - 1 /\ (j - 1) + 1 = j
    BY <2>1
  <2>3. t[j - 1] = s[j]
    BY <2>2
  <2> QED BY <2>1, <2>2, <2>3 DEF AmrAfter
<1>2. ASSUME AmrAfter(s, 0, n), ~(s[1].kind = "AMR" /\ s[1].node = n) PROVE AmrAfter(t, 0, n)
  <2>1. PICK j \in 1..Len(s) : 0 < j /\ s[j].kind = "AMR" /\ s[j].node = n
    BY <1>2 DEF AmrAfter
  <2>2. j # 1
    BY <1>2, <2>1
  <2>3. 0 + 1 < j
    BY <2>1, <2>2
  <2>4. AmrAfter(s, 0 + 1, n)
    BY <2>1, <2>3 DEF AmrAfter
  <2> QED BY <1>1, <2>4
<1> QED BY <1>1, <1>2

\* An interface gives its node's alias up only with an AMR frame.
LEMMA LosesLast ==
    ASSUME TypeOK, AllocInv, PendingIsFree, Next, NEW n \in Nodes,
           Assigned(n) # {}, Assigned(n)' = {}
    PROVE  /\ Len(out[n]) \in Nat /\ Len(out'[n]) = Len(out[n]) + 1
           /\ out'[n][Len(out[n]) + 1].kind = "AMR"
           /\ out'[n][Len(out[n]) + 1].node = n
<1> DEFINE Goal == /\ Len(out'[n]) = Len(out[n]) + 1
                   /\ out'[n][Len(out[n]) + 1].kind = "AMR"
                   /\ out'[n][Len(out[n]) + 1].node = n
<1>1. PICK b \in Aliases : local[n][b] = "assigned" /\ local'[n][b] # "assigned"
  BY DEF Assigned
<1>2. local'[n] # local[n]
  BY <1>1
<1>3. ASSUME NEW k \in Nodes, \/ Entry(k) \/ SendCid(k) \/ WaitDone(k)
                              \/ TimerExpires(k) \/ TimerRun(k) \/ Transmit(k)
      PROVE  Goal
  <2>1. local' = local
    BY <1>3 DEF Entry, SendCid, WaitDone, TimerExpires, TimerRun, Transmit
  <2> QED BY <1>2, <2>1
<1>4. ASSUME NEW k \in Nodes, NEW f \in Flows, \/ SendMessage(k, f) \/ UseAlias(k, f)
                 \/ AskForAlias(k, f) \/ SendAmd(k, f) \/ FillFrame(k, f)
      PROVE  Goal
  <2>1. local' = local
    BY <1>4 DEF SendMessage, UseAlias, AskForAlias, SendAmd, FillFrame
  <2> QED BY <1>2, <2>1
<1>5. ASSUME NEW k \in Nodes, SendRid(k) PROVE Goal
  <2>1. CASE k \in conflict
    <3>1. local' = local
      BY <1>5, <2>1 DEF SendRid
    <3> QED BY <1>2, <3>1
  <2>2. CASE k \notin conflict
    <3>1. /\ pend[k] \in Aliases /\ \A c \in Aliases : c # pend[k] => local'[k][c] = local[k][c]
          /\ \A j \in Nodes \ {k} : local'[j] = local[j]
      BY <1>5, <2>2, RidIs
    <3>2. local[k][pend[k]] = "none"
      BY <3>1 DEF PendingIsFree
    <3> QED BY <1>1, <3>1, <3>2
  <2> QED BY <2>1, <2>2
<1>6. ASSUME NEW k \in Nodes, NEW f \in Flows, TakeAlias(k, f) PROVE Goal
  <2>1. PICK a \in Aliases : local'[k][a] = "assigned" /\ \A j \in Nodes \ {k} : local'[j] = local[j]
    BY <1>6, TakeIs
  <2>2. k = n
    BY <1>2, <2>1
  <2> QED BY <2>1, <2>2 DEF Assigned
<1>7. ASSUME NEW k \in Nodes, ReturnAlias(k) PROVE Goal
  <2>1. PICK a \in Aliases : /\ out' = [out EXCEPT ![k] = Append(@, Fr("AMR", a, k))]
                             /\ \A j \in Nodes \ {k} : local'[j] = local[j]
    BY <1>7, ReturnIs
  <2>2. k = n
    BY <1>2, <2>1
  <2> DEFINE g == Fr("AMR", a, n)
  <2>3. g \in Frame /\ g.kind = "AMR" /\ g.node = n
    BY FrIs
  <2>4. out' = [out EXCEPT ![n] = Append(@, g)]
    BY <2>1, <2>2
  <2> HIDE DEF g
  <2>5. Len(out'[n]) = Len(out[n]) + 1 /\ out'[n][Len(out[n]) + 1] = g
    BY <2>3, <2>4, PutIs
  <2> QED BY <2>3, <2>5
<1>8. ASSUME NEW m \in Nodes, HandleFrame(m) PROVE Goal
  <2> DEFINE f == Head(seen[m])
  <2>1. f \in Frame /\ Defend(m, f)
    BY <1>8, HandleIs DEF HandleFrame
  <2> HIDE DEF f
  <2>2. /\ \A k \in Nodes \ {m} : local'[k] = local[k]
        /\ \A a \in Aliases : a # f.alias => local'[m][a] = local[m][a]
        /\ f.kind = "CID" => local' = local
        /\ \/ out'[m] = out[m]
           \/ /\ Len(out'[m]) = Len(out[m]) + 1
              /\ out'[m][Len(out[m]) + 1].node = m
              /\ out'[m][Len(out[m]) + 1].kind \in {"RID", "AMR"}
        /\ f.kind # "CID" /\ local[m][f.alias] = "assigned" =>
              /\ Len(out'[m]) = Len(out[m]) + 1
              /\ out'[m][Len(out[m]) + 1].kind = "AMR"
    BY <2>1, DefendIs
  <2>3. m = n /\ f.alias = b /\ f.kind # "CID"
    BY <1>1, <1>2, <2>2
  <2>4. Len(out'[n]) = Len(out[n]) + 1 /\ out'[n][Len(out[n]) + 1].kind = "AMR"
    BY <1>1, <2>2, <2>3
  <2>5. Len(out[n]) \in Nat
    BY LenProperties DEF TypeOK
  <2>6. out'[n] # out[n]
    BY <2>4, <2>5
  <2> QED BY <2>2, <2>3, <2>4, <2>6
<1>9. Len(out[n]) \in Nat
  BY LenProperties DEF TypeOK
<1> HIDE DEF Goal
<1>10. Goal
  BY <1>3, <1>4, <1>5, <1>6, <1>7, <1>8 DEF Next
<1> QED BY <1>9, <1>10 DEF Goal

\* What an interface adds to its frames is no announcement, but for
\* send_amd_frame().
LEMMA MoreIs ==
    ASSUME TypeOK, AllocInv, SrcInv, Next, NEW n \in Nodes, ~Transmit(n)
    PROVE  /\ Len(out[n]) \in Nat /\ Len(out'[n]) \in Nat /\ Len(out[n]) <= Len(out'[n])
           /\ \A i \in 1..Len(out[n]) : out'[n][i] = out[n][i]
           /\ \/ out'[n] = out[n]
              \/ /\ Len(out'[n]) = Len(out[n]) + 1
                 /\ out'[n][Len(out[n]) + 1].kind = "AMD" => \E f \in Flows : SendAmd(n, f)
<1> DEFINE Goal == \/ out'[n] = out[n]
                   \/ /\ Len(out'[n]) = Len(out[n]) + 1
                      /\ out'[n][Len(out[n]) + 1].kind = "AMD" => \E f \in Flows : SendAmd(n, f)
<1>1. Len(out[n]) \in Nat
  BY LenProperties DEF TypeOK
<1>2. ASSUME NEW k \in Nodes, Transmit(k) PROVE out'[n] = out[n]
  BY <1>2, TransmitIs
<1>3. /\ Len(out'[n]) \in Nat /\ Len(out[n]) <= Len(out'[n])
      /\ \A i \in 1..Len(out[n]) : out'[n][i] = out[n][i]
  <2>1. CASE \E k \in Nodes : Transmit(k)
    BY <1>1, <1>2, <2>1
  <2>2. CASE \A k \in Nodes : ~Transmit(k)
    BY <2>2, OutGrows DEF Grows
  <2> QED BY <2>1, <2>2
<1>4. ASSUME NEW k \in Nodes, NEW g \in Frame, out' = [out EXCEPT ![k] = Append(@, g)],
             g.kind = "AMD" => \E f \in Flows : SendAmd(k, f)
      PROVE  Goal
  <2>1. /\ \A m \in Nodes \ {k} : out'[m] = out[m]
        /\ Len(out'[k]) = Len(out[k]) + 1 /\ out'[k][Len(out[k]) + 1] = g
    BY <1>4, PutIs
  <2> QED BY <1>4, <2>1
<1>5. ASSUME out' = out PROVE Goal
  BY <1>5
<1> HIDE DEF Goal
<1>6. ASSUME NEW k \in Nodes, Entry(k) \/ WaitDone(k) \/ TimerExpires(k) \/ TimerRun(k)
      PROVE  Goal
  BY <1>5, <1>6 DEF Entry, WaitDone, TimerExpires, TimerRun
<1>7. ASSUME NEW k \in Nodes, SendCid(k) PROVE Goal
  <2>1. CASE k \in conflict
    BY <1>5, <1>7, <2>1 DEF SendCid
  <2>2. CASE k \notin conflict
    <3> DEFINE g == Fr("CID", pend[k], k)
    <3>1. g \in Frame /\ out' = [out EXCEPT ![k] = Append(@, g)]
      BY <1>7, <2>2, SendsIs
    <3>2. g.kind # "AMD"
      BY DEF Fr
    <3> HIDE DEF g
    <3> QED BY <1>4, <3>1, <3>2
  <2> QED BY <2>1, <2>2
<1>8. ASSUME NEW k \in Nodes, SendRid(k) PROVE Goal
  <2>1. CASE k \in conflict
    BY <1>5, <1>8, <2>1 DEF SendRid
  <2>2. CASE k \notin conflict
    <3> DEFINE g == Fr("RID", pend[k], k)
    <3>1. pend[k] \in Aliases /\ out' = [out EXCEPT ![k] = Append(@, g)]
      BY <1>8, <2>2, RidIs
    <3>2. g \in Frame /\ g.kind # "AMD"
      BY <3>1, FrIs
    <3> HIDE DEF g
    <3> QED BY <1>4, <3>1, <3>2
  <2> QED BY <2>1, <2>2
<1>9. ASSUME NEW k \in Nodes, ReturnAlias(k) PROVE Goal
  <2>1. PICK a \in Aliases : out' = [out EXCEPT ![k] = Append(@, Fr("AMR", a, k))]
    BY <1>9, ReturnIs
  <2> DEFINE g == Fr("AMR", a, k)
  <2>2. g \in Frame /\ g.kind # "AMD" /\ out' = [out EXCEPT ![k] = Append(@, g)]
    BY <2>1, FrIs
  <2> HIDE DEF g
  <2> QED BY <1>4, <2>2
<1>10. ASSUME NEW m \in Nodes, HandleFrame(m) PROVE Goal
  <2>1. Head(seen[m]) \in Frame /\ Defend(m, Head(seen[m]))
    BY <1>10, HandleIs DEF HandleFrame
  <2>2. /\ \A k \in Nodes \ {m} : out'[k] = out[k]
        /\ \/ out'[m] = out[m]
           \/ /\ Len(out'[m]) = Len(out[m]) + 1
              /\ out'[m][Len(out[m]) + 1].kind \in {"RID", "AMR"}
    BY <2>1, DefendIs
  <2> QED BY <2>2 DEF Goal
<1>11. ASSUME NEW k \in Nodes, NEW f \in Flows, SendAmd(k, f) PROVE Goal
  <2> DEFINE g == Fr("AMD", src[k][f], k)
  <2>1. g \in Frame /\ out' = [out EXCEPT ![k] = Append(@, g)]
    BY <1>11, SendsIs
  <2> HIDE DEF g
  <2> QED BY <1>4, <1>11, <2>1
<1>12. ASSUME NEW k \in Nodes, NEW f \in Flows, FillFrame(k, f) PROVE Goal
  <2> DEFINE g == Fr("MSG", src[k][f], k)
  <2>1. g \in Frame /\ out' = [out EXCEPT ![k] = Append(@, g)]
    BY <1>12, SendsIs
  <2>2. g.kind # "AMD"
    BY DEF Fr
  <2> HIDE DEF g
  <2> QED BY <1>4, <2>1, <2>2
<1>13. ASSUME NEW k \in Nodes, NEW f \in Flows,
              SendMessage(k, f) \/ UseAlias(k, f) \/ TakeAlias(k, f) \/ AskForAlias(k, f)
       PROVE  Goal
  BY <1>5, <1>13 DEF SendMessage, UseAlias, TakeAlias, AskForAlias
<1>14. ASSUME NEW k \in Nodes, Transmit(k) PROVE Goal
  BY <1>2, <1>14 DEF Goal
<1>15. Goal
  BY <1>6, <1>7, <1>8, <1>9, <1>10, <1>11, <1>12, <1>13, <1>14 DEF Next
<1> QED BY <1>1, <1>3, <1>15 DEF Goal

\* An announcement without an alias is noted.
LEMMA StrayedIs ==
    ASSUME TypeOK, SrcInv, Next, NEW n \in Nodes, n \notin strayed'
    PROVE  /\ n \notin strayed
           /\ Assigned(n) = {} => \A f \in Flows : ~SendAmd(n, f)
<1>1. n \notin strayed
  BY ObservedStays
<1>2. ASSUME NEW f \in Flows, SendAmd(n, f) PROVE Assigned(n) # {}
  <2>1. src[n][f] \in Aliases
    BY <1>2 DEF SendAmd, SrcInv
  <2>2. local[n][src[n][f]] = "assigned"
    BY <1>2 DEF SendAmd
  <2> QED BY <2>1, <2>2 DEF Assigned
<1> QED BY <1>1, <1>2

\* The announcements of a node without an alias are taken back.
LEMMA AnnouncedKeeps ==
    ASSUME TypeOK, AllocInv, SrcInv, OutInv, PendingIsFree, AnnouncedLast, Next
    PROVE  AnnouncedLast'
<1>1. SUFFICES ASSUME NEW n \in Nodes, Assigned(n)' = {}, n \notin strayed'
               PROVE  /\ TakenBack(out'[n], n, << >>)
                      /\ \A m \in Nodes \ {n} :
                            /\ TakenBack(seen'[m], n, out'[n])
                            /\ TakenOut(remote'[m], seen'[m], n, out'[n])
  BY DEF AnnouncedLast
<1> DEFINE Goal == /\ TakenBack(out'[n], n, << >>)
                   /\ \A m \in Nodes \ {n} :
                         /\ TakenBack(seen'[m], n, out'[n])
                         /\ TakenOut(remote'[m], seen'[m], n, out'[n])
<1>2. CASE Assigned(n) # {}
  <2>1. /\ Len(out[n]) \in Nat /\ Len(out'[n]) = Len(out[n]) + 1
        /\ out'[n][Len(out[n]) + 1].kind = "AMR" /\ out'[n][Len(out[n]) + 1].node = n
    BY <1>1, <1>2, LosesLast
  <2>2. Len(out[n]) + 1 \in 1..Len(out'[n])
    BY <2>1
  <2>3. \A i \in 1..Len(out'[n]) : out'[n][i].kind = "AMD" => i < Len(out[n]) + 1
    BY <2>1
  <2>4. TakenBack(out'[n], n, << >>)
    BY <2>1, <2>2, <2>3 DEF TakenBack, AmrAfter
  <2>5. AmrAfter(out'[n], 0, n)
    BY <2>1, <2>2 DEF AmrAfter
  <2> QED BY <2>4, <2>5 DEF TakenBack, TakenOut
<1>3. CASE Assigned(n) = {}
  <2>1. n \notin strayed /\ \A f \in Flows : ~SendAmd(n, f)
    BY <1>1, <1>3, StrayedIs
  <2>2. /\ TakenBack(out[n], n, << >>)
        /\ \A m \in Nodes \ {n} : /\ TakenBack(seen[m], n, out[n])
                                  /\ TakenOut(remote[m], seen[m], n, out[n])
    BY <1>3, <2>1 DEF AnnouncedLast
  <2>3. ~AmrAfter(<< >>, 0, n)
    BY DEF AmrAfter
  <2>4. CASE Transmit(n)
    <3> DEFINE f == out[n][1]
    <3>1. /\ 1 \in 1..Len(out[n]) /\ Len(out[n]) \in Nat /\ Len(out'[n]) = Len(out[n]) - 1
          /\ \A i \in 1..Len(out'[n]) : /\ i \in Nat /\ i + 1 \in 1..Len(out[n])
                                        /\ out'[n][i] = out[n][i + 1]
          /\ \A m \in Nodes \ {n} :
                /\ Len(seen[m]) \in Nat /\ Len(seen'[m]) = Len(seen[m]) + 1
                /\ \A i \in 1..Len(seen[m]) : seen'[m][i] = seen[m][i]
                /\ seen'[m][Len(seen[m]) + 1] = f
      BY <2>4, TransmitIs
    <3>2. f.node = n
      BY <3>1 DEF OutInv
    <3>3. remote' = remote
      BY <2>4 DEF Transmit
    <3> HIDE DEF f
    <3>4. /\ \A i \in Nat : AmrAfter(out[n], i + 1, n) => AmrAfter(out'[n], i, n)
          /\ AmrAfter(out[n], 0, n) => AmrAfter(out'[n], 0, n) \/ f.kind = "AMR"
      BY <3>1, AfterTail DEF f
    <3>5. TakenBack(out'[n], n, << >>)
      BY <2>2, <2>3, <3>1, <3>4 DEF TakenBack
    <3>6. f.kind = "AMD" => AmrAfter(out'[n], 0, n)
      <4>1. f.kind = "AMD" => AmrAfter(out[n], 1, n)
        BY <2>2, <2>3, <3>1, <3>2 DEF TakenBack, f
      <4>2. 0 \in Nat /\ 0 + 1 = 1
        OBVIOUS
      <4> QED BY <3>4, <4>1, <4>2
    <3>7. ASSUME NEW m \in Nodes \ {n}
          PROVE  /\ TakenBack(seen'[m], n, out'[n])
                 /\ TakenOut(remote'[m], seen'[m], n, out'[n])
      <4>1. /\ Len(seen[m]) \in Nat /\ Len(seen'[m]) = Len(seen[m]) + 1
            /\ \A i \in 1..Len(seen[m]) : seen'[m][i] = seen[m][i]
            /\ seen'[m][Len(seen[m]) + 1] = f
        BY <3>1
      <4>2. Len(seen[m]) + 1 \in 1..Len(seen'[m]) /\ Len(seen'[m]) \in Nat
            /\ Len(seen[m]) <= Len(seen'[m])
            /\ \A i \in 1..Len(seen'[m]) : i \in 1..Len(seen[m]) \/ i = Len(seen[m]) + 1
        BY <4>1
      <4>3. \A i \in Nat : AmrAfter(seen[m], i, n) => AmrAfter(seen'[m], i, n)
        BY <4>1, <4>2, AfterMore
      <4>4. ASSUME NEW i \in Nat, i <= Len(seen[m]), AmrAfter(out[n], 0, n)
            PROVE  AmrAfter(seen'[m], i, n) \/ AmrAfter(out'[n], 0, n)
        <5>1. CASE f.kind = "AMR"
          <6>1. i < Len(seen[m]) + 1
            BY <4>1, <4>4
          <6>2. AmrAfter(seen'[m], i, n)
            BY <3>2, <4>1, <4>2, <5>1, <6>1 DEF AmrAfter
          <6> QED BY <6>2
        <5>2. CASE f.kind # "AMR"
          BY <3>4, <4>4, <5>2
        <5> QED BY <5>1, <5>2
      <4>5. ASSUME NEW i \in 1..Len(seen'[m]), seen'[m][i].kind = "AMD", seen'[m][i].node = n
            PROVE  AmrAfter(seen'[m], i, n) \/ AmrAfter(out'[n], 0, n)
        <5>1. CASE i \in 1..Len(seen[m])
          <6>1. i \in Nat /\ i <= Len(seen[m])
            BY <4>1, <5>1
          <6>2. AmrAfter(seen[m], i, n) \/ AmrAfter(out[n], 0, n)
            BY <2>2, <4>1, <4>5, <5>1 DEF TakenBack
          <6> QED BY <4>3, <4>4, <6>1, <6>2
        <5>2. CASE i = Len(seen[m]) + 1
          BY <3>6, <4>1, <4>5, <5>2
        <5> QED BY <4>2, <5>1, <5>2
      <4>6. ASSUME NEW a \in Aliases, remote'[m][a] = n
            PROVE  AmrAfter(seen'[m], 0, n) \/ AmrAfter(out'[n], 0, n)
        <5>1. AmrAfter(seen[m], 0, n) \/ AmrAfter(out[n], 0, n)
          BY <2>2, <3>3, <4>6 DEF TakenOut
        <5>2. 0 \in Nat /\ 0 <= Len(seen[m])
          BY <4>1
        <5> QED BY <4>3, <4>4, <5>1, <5>2
      <4> QED BY <4>5, <4>6 DEF TakenBack, TakenOut
    <3> QED BY <3>5, <3>7
  <2>5. CASE ~Transmit(n)
    <3>1. /\ Len(out[n]) \in Nat /\ Len(out'[n]) \in Nat /\ Len(out[n]) <= Len(out'[n])
          /\ \A i \in 1..Len(out[n]) : out'[n][i] = out[n][i]
          /\ \/ out'[n] = out[n]
             \/ Len(out'[n]) = Len(out[n]) + 1 /\ out'[n][Len(out[n]) + 1].kind # "AMD"
      BY <2>1, <2>5, MoreIs
    <3>2. \A i : AmrAfter(out[n], i, n) => AmrAfter(out'[n], i, n)
      BY <3>1, AfterMore
    <3>3. TakenBack(out'[n], n, << >>)
      <4>1. ASSUME NEW i \in 1..Len(out'[n]), out'[n][i].kind = "AMD", out'[n][i].node = n
            PROVE  AmrAfter(out'[n], i, n)
        <5>1. i \in 1..Len(out[n])
          BY <3>1, <4>1
        <5>2. AmrAfter(out[n], i, n)
          BY <2>2, <2>3, <3>1, <4>1, <5>1 DEF TakenBack
        <5> QED BY <3>2, <5>2
      <4> QED BY <4>1 DEF TakenBack
    <3>4. ASSUME NEW m \in Nodes \ {n}
          PROVE  /\ TakenBack(seen'[m], n, out'[n])
                 /\ TakenOut(remote'[m], seen'[m], n, out'[n])
      <4>1. TakenBack(seen[m], n, out[n]) /\ TakenOut(remote[m], seen[m], n, out[n])
        BY <2>2
      <4>2. ASSUME seen'[m] = seen[m], remote'[m] = remote[m]
            PROVE  /\ TakenBack(seen'[m], n, out'[n])
                   /\ TakenOut(remote'[m], seen'[m], n, out'[n])
        BY <3>2, <4>1, <4>2 DEF TakenBack, TakenOut
      <4>3. CASE \A k \in Nodes : ~Transmit(k) /\ ~HandleFrame(k)
        BY <4>2, <4>3, HeardStays
      <4>4. CASE Transmit(m)
        BY <4>2, <4>4, TransmitIs DEF Transmit
      <4>5. ASSUME NEW k \in Nodes \ {n, m}, Transmit(k)
            PROVE  /\ TakenBack(seen'[m], n, out'[n])
                   /\ TakenOut(remote'[m], seen'[m], n, out'[n])
        <5>1. remote' = remote
          BY <4>5 DEF Transmit
        <5>2. /\ Len(seen[m]) \in Nat /\ Len(seen'[m]) = Len(seen[m]) + 1
              /\ \A i \in 1..Len(seen[m]) : seen'[m][i] = seen[m][i]
              /\ seen'[m][Len(seen[m]) + 1] = out[k][1] /\ 1 \in 1..Len(out[k])
          <6>1. k \in Nodes /\ m \in Nodes \ {k} /\ Transmit(k)
            BY <4>5
          <6>2. 1 \in 1..Len(out[k])
            BY <6>1, TransmitIs
          <6> QED BY <6>1, <6>2, TransmitIs
        <5>3. out[k][1].node # n
          BY <5>2 DEF OutInv
        <5>4. Len(seen'[m]) \in Nat /\ Len(seen[m]) <= Len(seen'[m])
          BY <5>2
        <5>5. \A i : AmrAfter(seen[m], i, n) => AmrAfter(seen'[m], i, n)
          BY <5>2, <5>4, AfterMore
        <5>6. \A i \in 1..Len(seen'[m]) : seen'[m][i].node = n =>
                 i \in 1..Len(seen[m]) /\ seen'[m][i] = seen[m][i]
          BY <5>2, <5>3
        <5> QED BY <3>2, <4>1, <5>1, <5>5, <5>6 DEF TakenBack, TakenOut
      <4>6. CASE HandleFrame(m)
        <5>1. /\ 1 \in 1..Len(seen[m]) /\ Len(seen[m]) \in Nat
              /\ Len(seen'[m]) = Len(seen[m]) - 1
              /\ \A i \in 1..Len(seen'[m]) : /\ i \in Nat /\ i + 1 \in 1..Len(seen[m])
                                             /\ seen'[m][i] = seen[m][i + 1]
          BY <4>6, HandleIs
        <5>2. /\ \A i \in Nat : AmrAfter(seen[m], i + 1, n) => AmrAfter(seen'[m], i, n)
              /\ AmrAfter(seen[m], 0, n) =>
                    \/ AmrAfter(seen'[m], 0, n)
                    \/ seen[m][1].kind = "AMR" /\ seen[m][1].node = n
          BY <5>1, AfterTail
        <5>3. TakenBack(seen'[m], n, out'[n])
          BY <3>2, <4>1, <5>1, <5>2 DEF TakenBack
        <5>4. ASSUME NEW a \in Aliases, remote'[m][a] = n
              PROVE  AmrAfter(seen'[m], 0, n) \/ AmrAfter(out'[n], 0, n)
          <6>1. \/ remote[m][a] = n /\ ~(seen[m][1].kind = "AMR" /\ seen[m][1].node = n)
                \/ seen[m][1].kind = "AMD" /\ seen[m][1].node = n
            BY <4>6, <5>4, RemoteIs
          <6>2. CASE remote[m][a] = n /\ ~(seen[m][1].kind = "AMR" /\ seen[m][1].node = n)
            BY <3>2, <4>1, <5>2, <6>2 DEF TakenOut
          <6>3. CASE seen[m][1].kind = "AMD" /\ seen[m][1].node = n
            <7>1. AmrAfter(seen[m], 1, n) \/ AmrAfter(out[n], 0, n)
              BY <4>1, <5>1, <6>3 DEF TakenBack
            <7>2. 0 \in Nat /\ 0 + 1 = 1
              OBVIOUS
            <7> QED BY <3>2, <5>2, <7>1, <7>2
          <6> QED BY <6>1, <6>2, <6>3
        <5> QED BY <5>3, <5>4 DEF TakenOut
      <4>7. ASSUME NEW k \in Nodes \ {m}, HandleFrame(k)
            PROVE  /\ TakenBack(seen'[m], n, out'[n])
                   /\ TakenOut(remote'[m], seen'[m], n, out'[n])
        BY <4>2, <4>7, HandleIs, RemoteIs
      <4> QED BY <2>5, <4>3, <4>4, <4>5, <4>6, <4>7
    <3> QED BY <3>3, <3>4
  <2> QED BY <2>4, <2>5
<1> QED BY <1>2, <1>3
-----------------------------------------------------------------------------
(* The write flows that wait. *)

\* The flows of n that wait, and the requests that will wake one each.
Waiting(n) == {f \in Flows : client[n][f] = "waiting"}
Load(n) == req[n] + (IF state[n] = "idle" THEN 0 ELSE 1)

\* How many wait, from one step to the next.
LEMMA WaitingIs ==
    ASSUME NEW W, NEW V, W \subseteq Flows, V \subseteq Flows
    PROVE  /\ Cardinality(W) \in Nat /\ Cardinality(V) \in Nat
           /\ V \subseteq W => Cardinality(V) <= Cardinality(W)
           /\ \A f \in Flows : V \subseteq W \cup {f} => Cardinality(V) <= Cardinality(W) + 1
           /\ \A f \in W : V = W \ {f} => Cardinality(V) = Cardinality(W) - 1
           /\ W = {} => Cardinality(W) = 0
<1>1. IsFiniteSet(Flows)
  BY AllocationAssumption
<1>2. IsFiniteSet(W) /\ IsFiniteSet(V)
  BY <1>1, FS_Subset
<1>3. Cardinality(W) \in Nat /\ Cardinality(V) \in Nat
  BY <1>2, FS_CardinalityType
<1>4. V \subseteq W => Cardinality(V) <= Cardinality(W)
  BY <1>2, FS_Subset
<1>5. ASSUME NEW f \in Flows, V \subseteq W \cup {f} PROVE Cardinality(V) <= Cardinality(W) + 1
  <2>1. /\ IsFiniteSet(W \cup {f})
        /\ Cardinality(W \cup {f}) = Cardinality(W) \/ Cardinality(W \cup {f}) = Cardinality(W) + 1
    BY <1>2, FS_AddElement
  <2>2. Cardinality(V) <= Cardinality(W \cup {f})
    BY <1>5, <2>1, FS_Subset
  <2> QED BY <1>3, <2>1, <2>2
<1>6. \A f \in W : V = W \ {f} => Cardinality(V) = Cardinality(W) - 1
  BY <1>2, FS_RemoveElement
<1>7. W = {} => Cardinality(W) = 0
  BY FS_EmptySet
<1> QED BY <1>3, <1>4, <1>5, <1>6, <1>7

\* Nobody who waits is forgotten.
LEMMA WaitingKeeps ==
    ASSUME TypeOK, AllocInv, OutInv, WaitingHasRequest, Next
    PROVE  WaitingHasRequest'
<1>1. SUFFICES ASSUME NEW n \in Nodes PROVE Cardinality(Waiting(n)') <= Load(n)'
  BY DEF WaitingHasRequest, Waiting, Load
<1>2. Cardinality(Waiting(n)) <= Load(n)
  BY DEF WaitingHasRequest, Waiting, Load
<1>3. /\ state \in [Nodes -> States] /\ req \in [Nodes -> Nat] /\ req[n] \in Nat
      /\ client \in [Nodes -> [Flows -> ClientStates]] /\ client[n] \in [Flows -> ClientStates]
  BY DEF TypeOK
<1>4. /\ Cardinality(Waiting(n)) \in Nat /\ Cardinality(Waiting(n)') \in Nat
      /\ Waiting(n)' \subseteq Waiting(n) => Cardinality(Waiting(n)') <= Cardinality(Waiting(n))
      /\ \A f \in Flows : Waiting(n)' \subseteq Waiting(n) \cup {f} =>
            Cardinality(Waiting(n)') <= Cardinality(Waiting(n)) + 1
      /\ \A f \in Waiting(n) : Waiting(n)' = Waiting(n) \ {f} =>
            Cardinality(Waiting(n)') = Cardinality(Waiting(n)) - 1
      /\ Waiting(n)' = {} => Cardinality(Waiting(n)') = 0
  <2>1. Waiting(n) \subseteq Flows /\ Waiting(n)' \subseteq Flows
    BY DEF Waiting
  <2>2. \A W, V : W \subseteq Flows /\ V \subseteq Flows =>
           /\ Cardinality(W) \in Nat /\ Cardinality(V) \in Nat
           /\ V \subseteq W => Cardinality(V) <= Cardinality(W)
           /\ \A f \in Flows : V \subseteq W \cup {f} => Cardinality(V) <= Cardinality(W) + 1
           /\ \A f \in W : V = W \ {f} => Cardinality(V) = Cardinality(W) - 1
           /\ V = {} => Cardinality(V) = 0
    BY WaitingIs
  <2> QED BY <2>1, <2>2
<1>5. Load(n) \in Nat
  BY <1>3 DEF Load
<1> DEFINE Goal == Cardinality(Waiting(n)') <= Load(n)'
<1>6. ASSUME Waiting(n)' \subseteq Waiting(n), Load(n)' \in Nat, Load(n)' >= Load(n) PROVE Goal
  BY <1>2, <1>4, <1>5, <1>6
<1>7. ASSUME client'[n] = client[n] PROVE Waiting(n)' = Waiting(n)
  BY <1>7 DEF Waiting
<1>8. ASSUME req'[n] = req[n], state'[n] = "idle" <=> state[n] = "idle" PROVE Load(n)' = Load(n)
  BY <1>8 DEF Load
<1> HIDE DEF Goal
<1>9. ASSUME client'[n] = client[n], req'[n] = req[n], state'[n] = "idle" <=> state[n] = "idle"
      PROVE  Goal
  BY <1>5, <1>6, <1>7, <1>8, <1>9
<1>10. ASSUME NEW k \in Nodes, Begin(k), state[k] # "idle"
       PROVE  state'[n] = "idle" <=> state[n] = "idle"
  <2>1. state'[k] = "send_cid_frame" /\ \A m \in Nodes \ {k} : state'[m] = state[m]
    BY <1>10, BeginIs
  <2> QED BY <1>10, <2>1
<1>11. ASSUME NEW k \in Nodes, Entry(k) PROVE Goal
  <2>1. /\ Begin(k) /\ state[k] = "idle" /\ req[k] > 0 /\ req' = [req EXCEPT ![k] = @ - 1]
        /\ client' = client
    BY <1>11 DEF Entry
  <2>2. state'[k] = "send_cid_frame" /\ \A m \in Nodes \ {k} : state'[m] = state[m]
    BY <2>1, BeginIs
  <2>3. CASE k = n
    <3>1. req'[n] = req[n] - 1
      BY <1>3, <2>1, <2>3
    <3>2. Load(n)' = Load(n)
      BY <1>3, <2>1, <2>2, <2>3, <3>1 DEF Load
    <3> QED BY <1>5, <1>6, <1>7, <2>1, <3>2
  <2>4. CASE k # n
    BY <1>3, <1>9, <2>1, <2>2, <2>4
  <2> QED BY <2>3, <2>4
<1>12. ASSUME NEW k \in Nodes, SendCid(k) PROVE Goal
  <2>1. UNCHANGED <<req, client>> /\ state[k] = "send_cid_frame"
    BY <1>12 DEF SendCid
  <2>2. state'[n] = "idle" <=> state[n] = "idle"
    <3>1. CASE k \in conflict
      BY <1>10, <1>12, <2>1, <3>1 DEF SendCid
    <3>2. CASE k \notin conflict
      <4>1. state' = [state EXCEPT ![k] = "handle_allocate_for_cid_frame"]
        BY <1>12, <3>2 DEF SendCid
      <4> QED BY <1>3, <2>1, <4>1
    <3> QED BY <3>1, <3>2
  <2> QED BY <1>9, <2>1, <2>2
<1>13. ASSUME NEW k \in Nodes, WaitDone(k) PROVE Goal
  <2>1. UNCHANGED <<req, client>> /\ state[k] = "wait_done"
    BY <1>13 DEF WaitDone
  <2>2. state'[n] = "idle" <=> state[n] = "idle"
    <3>1. CASE k \in conflict
      BY <1>10, <1>13, <2>1, <3>1 DEF WaitDone
    <3>2. CASE k \notin conflict
      <4>1. state' = [state EXCEPT ![k] = "send_rid_frame"]
        BY <1>13, <3>2 DEF WaitDone
      <4> QED BY <1>3, <2>1, <4>1
    <3> QED BY <3>1, <3>2
  <2> QED BY <1>9, <2>1, <2>2
<1>14. ASSUME NEW k \in Nodes, SendRid(k) PROVE Goal
  <2>1. req' = req /\ state[k] = "send_rid_frame"
    BY <1>14 DEF SendRid
  <2>2. CASE k \in conflict
    <3>1. Begin(k) /\ client' = client
      BY <1>14, <2>2 DEF SendRid
    <3>2. state'[n] = "idle" <=> state[n] = "idle"
      BY <1>10, <2>1, <3>1
    <3> QED BY <1>9, <2>1, <3>1, <3>2
  <2>3. CASE k \notin conflict
    <3>1. state' = [state EXCEPT ![k] = "idle"] /\ WakeOne(k)
      BY <1>14, <2>3 DEF SendRid
    <3>2. CASE k # n
      <4>1. client'[n] = client[n]
        BY <1>3, <3>1, <3>2 DEF WakeOne
      <4>2. state'[n] = state[n]
        BY <1>3, <3>1, <3>2
      <4> QED BY <1>9, <2>1, <4>1, <4>2
    <3>3. CASE k = n
      <4>1. Load(n) = req[n] + 1 /\ Load(n)' = req[n]
        BY <1>3, <2>1, <3>1, <3>3 DEF Load
      <4>2. CASE Waiting(n) = {}
        <5>1. client' = client
          BY <3>1, <3>3, <4>2 DEF WakeOne, Waiting
        <5>2. Waiting(n)' = {}
          BY <1>7, <4>2, <5>1
        <5> QED BY <1>3, <1>4, <4>1, <5>2 DEF Goal
      <4>3. CASE Waiting(n) # {}
        <5>1. PICK f \in Flows : /\ client[n][f] = "waiting"
                                 /\ client' = [client EXCEPT ![n][f] = "allocate_new_alias"]
          BY <3>1, <3>3, <4>3 DEF WakeOne, Waiting
        <5>2. client'[n] = [client[n] EXCEPT ![f] = "allocate_new_alias"]
          BY <1>3, <5>1
        <5>3. f \in Waiting(n) /\ Waiting(n)' = Waiting(n) \ {f}
          BY <1>3, <5>1, <5>2 DEF Waiting
        <5>4. Cardinality(Waiting(n)') = Cardinality(Waiting(n)) - 1
          BY <1>4, <5>3
        <5> QED BY <1>2, <1>3, <1>4, <4>1, <5>4 DEF Goal
      <4> QED BY <4>2, <4>3
    <3> QED BY <3>2, <3>3
  <2> QED BY <2>2, <2>3
<1>15. ASSUME NEW k \in Nodes, \/ TimerExpires(k) \/ TimerRun(k) \/ HandleFrame(k)
                               \/ ReturnAlias(k)
       PROVE  Goal
  <2>1. UNCHANGED <<req, state, client>>
    BY <1>15 DEF TimerExpires, TimerRun, HandleFrame, ReturnAlias, alloc
  <2> QED BY <1>9, <2>1
<1>16. ASSUME NEW k \in Nodes, Transmit(k) PROVE Goal
  <2> DEFINE sent == out[k][1].kind = "CID"
             last == sent /\ ~CidsLeft(k)
  <2>1. UNCHANGED <<req, client>>
    BY <1>16 DEF Transmit
  <2>2. /\ sent => state[k] = "handle_allocate_for_cid_frame"
        /\ \A m \in Nodes \ {k} : state'[m] = state[m]
        /\ state'[k] = (IF ~sent THEN state[k]
                        ELSE IF last THEN "wait_done" ELSE "send_cid_frame")
    BY <1>16, TransmitAlloc
  <2> HIDE DEF sent, last
  <2>3. state'[n] = "idle" <=> state[n] = "idle"
    BY <2>2
  <2> QED BY <1>9, <2>1, <2>3
<1>17. ASSUME NEW k \in Nodes, NEW f \in Flows, NEW c \in ClientStates \ {"waiting"},
              client' = [client EXCEPT ![k][f] = c], state' = state,
              req' = req \/ req' = [req EXCEPT ![k] = @ + 1]
       PROVE  Goal
  <2>1. Waiting(n)' \subseteq Waiting(n)
    BY <1>3, <1>17 DEF Waiting
  <2>2. Load(n)' \in Nat /\ Load(n)' >= Load(n)
    BY <1>3, <1>17 DEF Load
  <2> QED BY <1>6, <2>1, <2>2
<1>18. ASSUME NEW k \in Nodes, NEW f \in Flows, \/ SendMessage(k, f) \/ UseAlias(k, f)
                 \/ TakeAlias(k, f) \/ SendAmd(k, f) \/ FillFrame(k, f)
       PROVE  Goal
  <2>1. state' = state /\ (req' = req \/ req' = [req EXCEPT ![k] = @ + 1])
    BY <1>18 DEF SendMessage, UseAlias, TakeAlias, SendAmd, FillFrame, alloc
  <2>2. \E c \in ClientStates \ {"waiting"} : client' = [client EXCEPT ![k][f] = c]
    BY <1>18 DEF SendMessage, UseAlias, TakeAlias, SendAmd, FillFrame, ClientStates
  <2> QED BY <1>17, <2>1, <2>2
<1>19. ASSUME NEW k \in Nodes, NEW f \in Flows, AskForAlias(k, f) PROVE Goal
  <2>1. /\ state' = state /\ req' = [req EXCEPT ![k] = @ + 1]
        /\ client' = [client EXCEPT ![k][f] = "waiting"]
    BY <1>19 DEF AskForAlias
  <2>2. CASE k # n
    BY <1>3, <1>9, <2>1, <2>2
  <2>3. CASE k = n
    <3>1. Load(n)' = Load(n) + 1
      BY <1>3, <2>1, <2>3 DEF Load
    <3>2. Waiting(n)' \subseteq Waiting(n) \cup {f}
      BY <1>3, <2>1, <2>3 DEF Waiting
    <3>3. Cardinality(Waiting(n)') <= Cardinality(Waiting(n)) + 1
      BY <1>4, <3>2
    <3> QED BY <1>2, <1>4, <1>5, <3>1, <3>3 DEF Goal
  <2> QED BY <2>2, <2>3
<1>20. Goal
  BY <1>11, <1>12, <1>13, <1>14, <1>15, <1>16, <1>18, <1>19 DEF Next
<1> QED BY <1>20 DEF Goal
-----------------------------------------------------------------------------
(* The invariant. *)

\* At the start nobody has an alias.
LEMMA InitInv ==
    ASSUME Init
    PROVE  Inv
<1>1. TypeOK
  <2>1. << >> \in Seq(Frame)
    BY EmptySeq
  <2>2. out \in [Nodes -> Seq(Frame)] /\ seen \in [Nodes -> Seq(Frame)]
    BY <2>1 DEF Init
  <2>3. MaxMsgs \in Nat
    BY AllocationAssumption
  <2>4. msgs \in 0..MaxMsgs
    BY <2>3 DEF Init
  <2>5. /\ state \in [Nodes -> States] /\ pend \in [Nodes -> Aliases \cup {0}]
        /\ cid \in [Nodes -> {0, 3, 4, 5, 6, 7}] /\ conflict \subseteq Nodes
        /\ timer \in [Nodes -> {"idle", "active", "triggered", "expired", "notified"}]
        /\ req \in [Nodes -> Nat]
    BY DEF Init, States
  <2>6. /\ local \in [Nodes -> [Aliases -> {"none", "reserved", "assigned"}]]
        /\ remote \in [Nodes -> [Aliases -> Nodes \cup {"none"}]]
        /\ client \in [Nodes -> [Flows -> ClientStates]]
        /\ src \in [Nodes -> [Flows -> Aliases \cup {0}]]
        /\ timely \in BOOLEAN /\ strayed \subseteq Nodes /\ crashed \in BOOLEAN
    BY DEF Init, ClientStates
  <2> QED BY <2>2, <2>4, <2>5, <2>6 DEF TypeOK
<1>2. /\ \A n \in Nodes : Len(out[n]) = 0 /\ Len(seen[n]) = 0
      /\ \A n \in Nodes : state[n] = "idle" /\ pend[n] = 0 /\ cid[n] = 0 /\ timer[n] = "idle"
                          /\ req[n] = 0
      /\ \A n \in Nodes : \A a \in Aliases : local[n][a] = "none" /\ remote[n][a] = "none"
      /\ \A n \in Nodes : \A f \in Flows : client[n][f] = "terminated"
      /\ \A n \in Nodes : n # "none"
      /\ \A i \in 1..0 : FALSE
  BY AllocationAssumption DEF Init
<1>3. AllocInv /\ SrcInv /\ OutInv /\ OneProbes /\ PendingIsFree /\ HearsOthers
  BY <1>2 DEF AllocInv, SrcInv, OutInv, OneProbes, PendingIsFree, HearsOthers, Probing
<1>4. HolderAnswers /\ UniqueAlias /\ DuplicateIsNoticed
  BY <1>2 DEF HolderAnswers, UniqueAlias, DuplicateIsNoticed, Probing
<1>5. AnnouncedLast
  <2>1. ASSUME NEW n \in Nodes, NEW m \in Nodes
        PROVE  /\ TakenBack(out[n], n, << >>) /\ TakenBack(seen[m], n, out[n])
               /\ TakenOut(remote[m], seen[m], n, out[n])
    BY <1>2 DEF TakenBack, TakenOut
  <2> QED BY <2>1 DEF AnnouncedLast
<1>6. WaitingHasRequest
  <2>1. ASSUME NEW n \in Nodes
        PROVE  /\ {f \in Flows : client[n][f] = "waiting"} = {}
               /\ req[n] + (IF state[n] = "idle" THEN 0 ELSE 1) = 0
    BY <1>2
  <2>2. Cardinality({}) = 0
    BY FS_EmptySet
  <2> QED BY <2>1, <2>2 DEF WaitingHasRequest
<1> QED BY <1>1, <1>3, <1>4, <1>5, <1>6 DEF Inv

\* A step keeps it.
LEMMA NextInv ==
    ASSUME Inv, [Next]_vars
    PROVE  Inv'
<1> USE DEF Inv
<1>1. CASE Next
  <2>1. TypeOK' /\ SrcInv'
    BY <1>1, TypeKeeps, SrcKeeps
  <2>2. AllocInv' /\ OutInv'
    BY <1>1, AllocKeeps, OutKeeps
  <2>3. OneProbes' /\ PendingIsFree'
    BY <1>1, OneProbesKeeps, PendingIsFreeKeeps
  <2>4. HolderAnswers' /\ UniqueAlias'
    BY <1>1, HolderKeeps, UniqueKeeps
  <2>5. DuplicateIsNoticed' /\ HearsOthers'
    BY <1>1, DuplicateKeeps, HearsKeeps
  <2>6. AnnouncedLast' /\ WaitingHasRequest'
    BY <1>1, AnnouncedKeeps, WaitingKeeps
  <2> QED BY <2>1, <2>2, <2>3, <2>4, <2>5, <2>6
<1>2. CASE UNCHANGED vars
  <2>1. UNCHANGED <<state, pend, cid, conflict, timer, req, local, remote, client, src, out,
                    seen, timely, msgs, strayed, crashed>>
    BY <1>2 DEF vars, alloc
  <2>2. TypeOK' /\ AllocInv' /\ SrcInv' /\ OutInv'
    BY <2>1 DEF TypeOK, AllocInv, SrcInv, OutInv
  <2>3. \A n \in Nodes : \A a \in Aliases : /\ Probing(n, a)' <=> Probing(n, a)
                                            /\ Pending(n, a)' <=> Pending(n, a)
    BY <2>1 DEF Probing, Pending
  <2>4. \A n \in Nodes : /\ Quiet(n)' <=> Quiet(n)
                         /\ Cleared(n)' <=> Cleared(n)
                         /\ Assigned(n)' = Assigned(n)
    BY <2>1 DEF Quiet, Cleared, Assigned
  <2>5. OneProbes' /\ PendingIsFree' /\ HolderAnswers' /\ UniqueAlias'
    BY <2>1, <2>3, <2>4 DEF OneProbes, PendingIsFree, HolderAnswers, UniqueAlias
  <2>6. \A n, m \in Nodes : \A a \in Aliases : Coming(n, m, a)' <=> Coming(n, m, a)
    BY <2>1 DEF Coming
  <2>7. DuplicateIsNoticed' /\ HearsOthers'
    BY <2>1, <2>6 DEF DuplicateIsNoticed, HearsOthers
  <2>8. AnnouncedLast'
    BY <2>1, <2>4 DEF AnnouncedLast
  <2>9. WaitingHasRequest'
    BY <2>1 DEF WaitingHasRequest
  <2> QED BY <2>2, <2>5, <2>7, <2>8, <2>9
<1> QED BY <1>1, <1>2

\* The inductive invariant: what each allocator, its frames and its rivals are
\* up to.
THEOREM AllocationInvariant == Spec => []Inv
<1> QED BY InitInv, NextInv, PTL DEF Spec

\* Interfaces, caches and frames are well formed.
THEOREM TypeCorrect == Spec => []TypeOK
<1> QED BY AllocationInvariant, PTL DEF Inv

\* With frames handled in time no two interfaces hold the same alias: the CID
\* frames of AliasAllocator.cpp and the answers of AliasConflictHandler see to
\* it, whoever begins when.
THEOREM AliasIsUnique == Spec => []UniqueAlias
<1> QED BY AllocationInvariant, PTL DEF Inv

\* However late frames are handled, a duplicate alias is never stable: a frame
\* that makes one of the two give it up is on its way.
THEOREM DuplicatesAreNoticed == Spec => []DuplicateIsNoticed
<1> QED BY AllocationInvariant, PTL DEF Inv

\* A node without an alias does not stay in a remote cache, unless a write flow
\* announced an alias that was lost.
THEOREM StaleMappingsAreCorrected == Spec => []StaleMappingIsCorrected
<1>1. Inv => StaleMappingIsCorrected
  <2>1. SUFFICES ASSUME Inv, NEW m \in Nodes, NEW n \in Nodes, NEW a \in Aliases,
                        remote[m][a] = n, Assigned(n) = {}, n \notin strayed
                 PROVE  \E f \in Elems(out[n]) \cup Elems(seen[m]) :
                            f.node = n /\ f.kind = "AMR"
    BY DEF StaleMappingIsCorrected
  <2>2. m # n
    BY <2>1 DEF Inv, HearsOthers
  <2>3. AmrAfter(seen[m], 0, n) \/ AmrAfter(out[n], 0, n)
    BY <2>1, <2>2 DEF Inv, AnnouncedLast, TakenOut
  <2> QED BY <2>3 DEF AmrAfter, Elems
<1> QED BY <1>1, AllocationInvariant, PTL

\* No write flow waits for an alias without a request that will wake it.
THEOREM WaitingIsAnswered == Spec => []WaitingHasRequest
<1> QED BY AllocationInvariant, PTL DEF Inv
=============================================================================

-------------------------- MODULE AliasCacheProofs --------------------------
(***************************************************************************)
(* Theorems about the alias cache for every set of node IDs and aliases    *)
(* and every size of the pool: its lists and sorted sets stay consistent,  *)
(* and it implements the bounded LRU map of AliasMap.  The last section is *)
(* about the flow that walks over the pool by index,                       *)
(* AMEGlobalQueryHandler (module AmeResponder).                            *)
(***************************************************************************)
EXTENDS AliasCache, AmeResponder, FiniteSetTheorems, FunctionTheorems,
        SequenceTheorems, WellFoundedInduction, TLAPS
-----------------------------------------------------------------------------
\* The pointers next lead from p over the slots of u to NONE.
Chain(p, next, u) ==
    /\ Len(u) = 0 => p = NONE
    /\ Len(u) > 0 => p = u[1] /\ next[u[Len(u)]] = NONE
    /\ \A i \in 1..(Len(u) - 1) : next[u[i]] = u[i + 1]

\* A set of numbers that is not empty has a least member.
LEMMA LeastIndex ==
    ASSUME NEW T \in SUBSET Nat, T # {}
    PROVE  \E i \in T : \A j \in T : i <= j
<1> DEFINE Less == OpToRel(<, Nat)
<1>1. IsWellFoundedOn(Less, Nat)
  BY NatLessThanWellFounded
<1>2. \A i, j \in Nat : i < j => <<i, j>> \in Less
  BY DEF OpToRel
<1> HIDE DEF Less
<1>3. PICK i \in T : \A j \in T : <<j, i>> \notin Less
  BY <1>1, WFMin
<1>4. \A j \in T : i <= j
  <2> TAKE j \in T
  <2>1. i \in Nat /\ j \in Nat /\ ~(j < i)
    BY <1>2, <1>3
  <2> QED BY <2>1
<1> QED BY <1>4

\* The first m slots of u.
First(u, m) == [i \in 1..m |-> u[i]]

\* The beginnings of a sequence, each one element longer than the last.
LEMMA FirstIsSeq ==
    ASSUME NEW S, NEW u \in Seq(S), NEW m \in 0..Len(u)
    PROVE  /\ First(u, m) \in Seq(S) /\ Len(First(u, m)) = m
           /\ \A i \in 1..m : First(u, m)[i] = u[i]
           /\ First(u, Len(u)) = u
           /\ m < Len(u) => First(u, m + 1) = Append(First(u, m), u[m + 1])
<1>1. First(u, m) \in [1..m -> S]
  BY ElementOfSeq DEF First
<1>2. First(u, m) \in Seq(S) /\ Len(First(u, m)) = m
  BY <1>1, IsASeq
<1>3. First(u, Len(u)) = u
  BY DEF First
<1>4. ASSUME m < Len(u) PROVE First(u, m + 1) = Append(First(u, m), u[m + 1])
  <2> DEFINE v == First(u, m + 1) w == Append(First(u, m), u[m + 1])
  <2>1. v \in [1..(m + 1) -> S]
    BY <1>4, ElementOfSeq DEF First
  <2>2. v \in Seq(S) /\ Len(v) = m + 1
    BY <2>1, IsASeq
  <2>3. u[m + 1] \in S
    BY <1>4, ElementOfSeq
  <2>4. /\ w \in Seq(S) /\ Len(w) = m + 1
        /\ \A i \in 1..m : w[i] = First(u, m)[i] /\ w[m + 1] = u[m + 1]
    BY <1>2, <2>3, AppendProperties
  <2>5. \A i \in 1..(m + 1) : v[i] = w[i]
    BY <2>4, <1>4 DEF First
  <2> HIDE DEF v, w
  <2>6. v = w
    BY <2>2, <2>4, <2>5, SeqEqual
  <2> QED BY <2>6 DEF v, w
<1> QED BY <1>2, <1>3, <1>4 DEF First

\* Following the pointers of a chain that is short enough yields the chain:
\* the recursion and the beginnings of u agree at every index.
LEMMA FollowIsChain ==
    ASSUME NEW u \in Seq(Slots), NEW p, NEW next, NEW n \in Nat,
           Len(u) <= n, Chain(p, next, u)
    PROVE  Follow(next, p, n) = u
<1> DEFINE Step(F, k) ==
            IF k = 0 THEN IF p = NONE THEN << >> ELSE <<p>>
            ELSE LET w == F[k - 1] IN
                 IF Len(w) < k \/ next[w[k]] = NONE THEN w
                 ELSE Append(w, next[w[k]])
           G == [k \in 0..n |-> First(u, IF k < Len(u) THEN k + 1 ELSE Len(u))]
           F == CHOOSE H : H = [k \in 0..n |-> Step(H, k)]
<1>0. Len(u) \in Nat /\ \A i \in 1..Len(u) : u[i] \in Slots
  BY ElementOfSeq
<1>1. ASSUME NEW k \in 0..n PROVE G[k] = Step(G, k)
  <2>1. CASE k = 0
    <3>1. CASE Len(u) = 0
      <4>1. G[0] = First(u, Len(u)) /\ p = NONE
        BY <3>1 DEF Chain
      <4>2. First(u, Len(u)) = u
        BY <1>0, FirstIsSeq
      <4>3. u = << >>
        BY <3>1, Len(u) = 0 => u = << >>
      <4> QED BY <2>1, <3>1, <4>1, <4>2, <4>3
    <3>2. CASE Len(u) # 0
      <4>1. Len(u) > 0 /\ p = u[1]
        BY <1>0, <3>2 DEF Chain
      <4>0. G[0] = First(u, 1)
        <5>1. 0 \in 0..n /\ (IF 0 < Len(u) THEN 0 + 1 ELSE Len(u)) = 1
          BY <4>1
        <5> QED BY <5>1
      <4>2. /\ G[0] = First(u, 1) /\ First(u, 1) \in Seq(Slots)
            /\ Len(First(u, 1)) = 1 /\ First(u, 1)[1] = p
        <5>1. 1 \in 0..Len(u) /\ 1 \in 1..1
          BY <4>1
        <5>2. /\ First(u, 1) \in Seq(Slots) /\ Len(First(u, 1)) = 1
              /\ \A i \in 1..1 : First(u, 1)[i] = u[i]
          BY <5>1, FirstIsSeq
        <5> QED BY <4>0, <4>1, <5>1, <5>2
      <4>3. p # NONE /\ p \in Slots
        BY <4>1, <1>0 DEF Slots, NONE
      <4>4. First(u, 1) = <<p>>
        BY <4>2, <4>3, SeqEqual, <<p>> \in Seq(Slots), Len(<<p>>) = 1
      <4> QED BY <2>1, <4>2, <4>3, <4>4
    <3> QED BY <3>1, <3>2
  <2>2. CASE k # 0
    <3>0. k - 1 \in 0..n /\ k \in Nat /\ k >= 1
      BY <2>2
    <3> DEFINE w == G[k - 1]
    <3>1. CASE k < Len(u)
      <4>1. w = First(u, k)
        BY <3>0, <3>1
      <4>2. Len(w) = k /\ w[k] = u[k]
        BY <4>1, <3>0, <3>1, <1>0, FirstIsSeq
      <4>3. next[u[k]] = u[k + 1] /\ u[k + 1] # NONE
        BY <3>0, <3>1, <1>0 DEF Chain, Slots, NONE
      <4>4. G[k] = Append(w, u[k + 1])
        <5>1. G[k] = First(u, k + 1)
          BY <3>1
        <5>2. First(u, k + 1) = Append(First(u, k), u[k + 1])
          BY <3>0, <3>1, <1>0, FirstIsSeq
        <5> QED BY <4>1, <5>1, <5>2
      <4>5. ~(Len(w) < k \/ next[w[k]] = NONE) /\ Append(w, next[w[k]]) = G[k]
        <5> HIDE DEF G
        <5> QED BY <3>0, <4>2, <4>3, <4>4
      <4> HIDE DEF G
      <4> QED BY <2>2, <4>5
    <3>2. CASE k >= Len(u)
      <4>1. w = First(u, Len(u)) /\ G[k] = First(u, Len(u))
        BY <3>0, <3>2, <1>0
      <4>2. w = u /\ G[k] = u
        BY <4>1, <1>0, FirstIsSeq
      <4>3. ASSUME ~(Len(u) < k) PROVE next[u[k]] = NONE
        <5>1. k = Len(u) /\ Len(u) > 0
          BY <3>0, <3>2, <4>3, <1>0
        <5> QED BY <5>1 DEF Chain
      <4> QED BY <2>2, <4>2, <4>3
    <3> QED BY <3>1, <3>2, <3>0, <1>0
  <2> QED BY <2>1, <2>2
<1>2. G = [k \in 0..n |-> Step(G, k)]
  BY <1>1, Zenon
<1>3. F = [k \in 0..n |-> Step(F, k)]
  BY <1>2, Zenon
<1>4. Follow(next, p, n) = F[n]
  BY Zenon DEF Follow
<1>5. \A k \in 0..n : F[k] = G[k]
  <2> SUFFICES ASSUME {k \in 0..n : F[k] # G[k]} # {} PROVE FALSE
    OBVIOUS
  <2> HIDE DEF F, G
  <2>1. PICK k \in 0..n : F[k] # G[k] /\ \A j \in 0..n : F[j] # G[j] => k <= j
    <3>1. {k \in 0..n : F[k] # G[k]} \in SUBSET Nat
      OBVIOUS
    <3> QED BY <3>1, LeastIndex
  <2>2. Step(F, k) = Step(G, k)
    <3>1. CASE k = 0
      BY <3>1
    <3>2. CASE k # 0
      <4>1. k - 1 \in 0..n /\ ~(k <= k - 1)
        BY <3>2
      <4>2. F[k - 1] = G[k - 1]
        BY <4>1, <2>1
      <4> QED BY <4>2, <3>2
    <3> QED BY <3>1, <3>2
  <2>3. F[k] = Step(F, k)
    <3> HIDE DEF Step
    <3> QED BY <1>3
  <2> QED BY <1>1, <2>1, <2>2, <2>3
<1>6. G[n] = u
  BY <1>0, FirstIsSeq
<1> HIDE DEF F, G
<1> QED BY <1>4, <1>5, <1>6

\* The slots on a list, and that none is on it twice.
Ran(u) == {u[i] : i \in 1..Len(u)}
OneToOne(u) == \A i, j \in 1..Len(u) : u[i] = u[j] => i = j

\* A PoolIdx: a slot, or NONE.
PoolIdx == Slots \cup {NONE}

\* The fields of the cache.
CacheType ==
    [node : [Slots -> Ids \cup {0}], alias : [Slots -> Nat],
     newer : [Slots -> PoolIdx], older : [Slots -> PoolIdx],
     aliasMap : SUBSET Slots, idMap : SUBSET Slots,
     oldest : PoolIdx, newest : PoolIdx,
     freeList : PoolIdx]

\* The newer_ pointers and oldest run over u from its end to its start.
Back(k, u) ==
    /\ Len(u) = 0 => k.oldest = NONE
    /\ Len(u) > 0 => k.oldest = u[Len(u)] /\ k.newer[u[1]] = NONE
    /\ \A i \in 1..(Len(u) - 1) : k.newer[u[i + 1]] = u[i]

\* u is the LRU list from the newest entry to the oldest, f the free list;
\* they share out the pool, but for the slots in X, which add() is moving from
\* one to the other.
Lists(k, u, f, X) ==
    /\ u \in Seq(Slots) /\ f \in Seq(Slots)
    /\ OneToOne(u) /\ OneToOne(f)
    /\ Ran(u) \cap Ran(f) = {} /\ Ran(u) \cup Ran(f) = Slots \ X
    /\ Chain(k.newest, k.older, u) /\ Back(k, u)
    /\ Chain(k.freeList, k.older, f)

\* Both sorted sets hold the entries of the LRU list, whose keys differ.
Keys(k, u) ==
    /\ k.idMap = Ran(u) /\ k.aliasMap = Ran(u)
    /\ \A s, t \in Ran(u) : k.node[s] = k.node[t] \/ k.alias[s] = k.alias[t] => s = t
    /\ \A s \in Ran(u) : /\ k.node[s] \in Ids
                         /\ k.alias[s] \in Aliases \/ k.alias[s] = NOT_RESPONDING + s

\* What every operation keeps of the cache, with its two lists made explicit.
Sound(k, u, f, X) == k \in CacheType /\ Lists(k, u, f, X) /\ Keys(k, u)

\* u without its element at j, and with s as the first one.
Drop(u, j) == [i \in 1..(Len(u) - 1) |-> IF i < j THEN u[i] ELSE u[i + 1]]
Push(s, u) == [i \in 1..(Len(u) + 1) |-> IF i = 1 THEN s ELSE u[i - 1]]

\* The elements of a sequence.
LEMMA SeqFacts ==
    ASSUME NEW S, NEW u \in Seq(S)
    PROVE  /\ Len(u) \in Nat /\ \A i \in 1..Len(u) : u[i] \in S
           /\ Ran(u) \subseteq S
BY ElementOfSeq DEF Ran

\* Dropping an element of a sequence leaves a sequence.
LEMMA DropIsSeq ==
    ASSUME NEW S, NEW u \in Seq(S), NEW j \in 1..Len(u)
    PROVE  Drop(u, j) \in Seq(S)
<1>1. Len(u) - 1 \in Nat /\ \A i \in 1..Len(u) : u[i] \in S
  BY SeqFacts
<1>2. Drop(u, j) \in [1..(Len(u) - 1) -> S]
  BY <1>1 DEF Drop
<1> QED BY <1>1, <1>2, IsASeq

\* Pushing an element on a sequence makes a sequence.
LEMMA PushIsSeq ==
    ASSUME NEW S, NEW u \in Seq(S), NEW s \in S
    PROVE  Push(s, u) \in Seq(S)
<1>1. Len(u) + 1 \in Nat /\ \A i \in 1..Len(u) : u[i] \in S
  BY SeqFacts
<1>2. Push(s, u) \in [1..(Len(u) + 1) -> S]
  BY <1>1 DEF Push
<1> QED BY <1>1, <1>2, IsASeq

\* What is left when an element is dropped.
LEMMA DropFacts ==
    ASSUME NEW S, NEW u \in Seq(S), NEW j \in 1..Len(u)
    PROVE  /\ Len(Drop(u, j)) = Len(u) - 1
           /\ \A i \in 1..(Len(u) - 1) : Drop(u, j)[i] = IF i < j THEN u[i] ELSE u[i + 1]
           /\ OneToOne(u) => OneToOne(Drop(u, j)) /\ Ran(Drop(u, j)) = Ran(u) \ {u[j]}
<1>1. Len(u) \in Nat /\ Len(u) - 1 \in Nat /\ \A i \in 1..Len(u) : u[i] \in S
  BY SeqFacts
<1>2. Drop(u, j) \in [1..(Len(u) - 1) -> S]
  BY <1>1 DEF Drop
<1>3. Drop(u, j) \in Seq(S) /\ Len(Drop(u, j)) = Len(u) - 1
  BY <1>1, <1>2, IsASeq
<1>4. \A i \in 1..(Len(u) - 1) : Drop(u, j)[i] = IF i < j THEN u[i] ELSE u[i + 1]
  BY DEF Drop
<1> DEFINE v == Drop(u, j)
<1> HIDE DEF v
<1>5. ASSUME OneToOne(u) PROVE OneToOne(v)
  BY <1>1, <1>3, <1>4, <1>5 DEF OneToOne, v
<1>6. ASSUME OneToOne(u) PROVE Ran(v) = Ran(u) \ {u[j]}
  <2>1. ASSUME NEW i \in 1..Len(v) PROVE v[i] \in Ran(u) \ {u[j]}
    <3>1. i \in 1..(Len(u) - 1) /\ i \in 1..Len(u) /\ i + 1 \in 1..Len(u)
      BY <1>1, <1>3 DEF v
    <3> QED BY <1>1, <1>4, <1>6, <3>1 DEF v, Ran, OneToOne
  <2>2. ASSUME NEW i \in 1..Len(u), i # j PROVE u[i] \in Ran(v)
    <3>1. CASE i < j
      <4>1. i \in 1..Len(v) /\ v[i] = u[i]
        BY <1>1, <1>3, <1>4, <3>1 DEF v
      <4> QED BY <4>1 DEF Ran
    <3>2. CASE i > j
      <4>1. i - 1 \in 1..Len(v) /\ v[i - 1] = u[i]
        BY <1>1, <1>3, <1>4, <3>2 DEF v
      <4> QED BY <4>1 DEF Ran
    <3> QED BY <2>2, <3>1, <3>2
  <2> QED BY <2>1, <2>2 DEF Ran
<1> QED BY <1>3, <1>4, <1>5, <1>6 DEF v

\* What a pushed sequence consists of.
LEMMA PushFacts ==
    ASSUME NEW S, NEW u \in Seq(S), NEW s \in S
    PROVE  /\ Len(Push(s, u)) = Len(u) + 1 /\ Push(s, u)[1] = s
           /\ \A i \in 1..Len(u) : Push(s, u)[i + 1] = u[i]
           /\ Ran(Push(s, u)) = Ran(u) \cup {s}
           /\ OneToOne(u) /\ s \notin Ran(u) => OneToOne(Push(s, u))
<1>1. Len(u) \in Nat /\ \A i \in 1..Len(u) : u[i] \in S
  BY SeqFacts
<1> DEFINE v == Push(s, u)
<1>2. v \in [1..(Len(u) + 1) -> S]
  BY <1>1 DEF Push
<1>3. v \in Seq(S) /\ Len(v) = Len(u) + 1
  BY <1>1, <1>2, IsASeq
<1>4. v[1] = s /\ \A i \in 1..Len(u) : v[i + 1] = u[i]
  BY <1>1 DEF Push
<1> HIDE DEF v
<1>5. \A i \in 1..Len(v) : i = 1 \/ (i - 1 \in 1..Len(u) /\ v[i] = u[i - 1])
  BY <1>1, <1>3, <1>4
<1>6. Ran(v) = Ran(u) \cup {s}
  <2>1. 1 \in 1..Len(v) /\ \A i \in 1..Len(u) : i + 1 \in 1..Len(v)
    BY <1>1, <1>3
  <2>a. ASSUME NEW i \in 1..Len(v) PROVE v[i] \in Ran(u) \cup {s}
    <3>1. CASE i = 1
      BY <3>1, <1>4
    <3>2. CASE i - 1 \in 1..Len(u) /\ v[i] = u[i - 1]
      BY <3>2 DEF Ran
    <3> QED BY <3>1, <3>2, <1>5
  <2>2. Ran(v) \subseteq Ran(u) \cup {s}
    BY <2>a DEF Ran
  <2>3. Ran(u) \cup {s} \subseteq Ran(v)
    BY <1>4, <2>1 DEF Ran
  <2> QED BY <2>2, <2>3
<1>7. ASSUME OneToOne(u), s \notin Ran(u) PROVE OneToOne(v)
  <2> SUFFICES ASSUME NEW i \in 1..Len(v), NEW j \in 1..Len(v), v[i] = v[j] PROVE i = j
    BY DEF OneToOne
  <2>1. i \in Nat /\ j \in Nat
    BY <1>3, <1>1
  <2> QED BY <1>4, <1>5, <1>7, <2>1 DEF OneToOne, Ran
<1> QED BY <1>3, <1>4, <1>6, <1>7 DEF v

\* Slots are numbers, and NONE is not one.
LEMMA SlotFacts ==
    Slots \subseteq Nat /\ NONE \notin Slots /\ Entries \in Nat /\ Entries > 0
BY CacheAssumption DEF CacheAssumption, Slots, NONE

\* What remove() does to each field.
LEMMA UnlinkFields ==
    ASSUME NEW k \in CacheType, NEW s \in Slots
    PROVE  /\ \A x \in Slots : Unlink(k, s).node[x] = IF x = s THEN 0 ELSE k.node[x]
           /\ Unlink(k, s).alias = k.alias
           /\ Unlink(k, s).aliasMap = k.aliasMap \ {s}
           /\ Unlink(k, s).idMap = k.idMap \ {s}
           /\ Unlink(k, s).newest = IF k.newest = s THEN k.older[s] ELSE k.newest
           /\ Unlink(k, s).oldest = IF k.oldest = s THEN k.newer[s] ELSE k.oldest
           /\ Unlink(k, s).freeList = s
           /\ \A x \in Slots :
                 /\ Unlink(k, s).newer[x] = IF x = k.older[s] THEN k.newer[s] ELSE k.newer[x]
                 /\ Unlink(k, s).older[x] = IF x = s THEN k.freeList
                                            ELSE IF x = k.newer[s] THEN k.older[s] ELSE k.older[x]
<1> DEFINE nw == Store(k.newer, k.older[s], k.newer[s])
           ol == Store(k.older, k.newer[s], k.older[s])
           k1 == Unlink(k, s)
<1>1. /\ k.newer \in [Slots -> PoolIdx] /\ k.older \in [Slots -> PoolIdx]
      /\ k.newer[s] \in PoolIdx /\ k.older[s] \in PoolIdx
      /\ k.node \in [Slots -> Ids \cup {0}] /\ k.alias \in [Slots -> Nat]
      /\ k.freeList \in PoolIdx /\ k.newest \in PoolIdx /\ k.oldest \in PoolIdx
      /\ k.aliasMap \subseteq Slots /\ k.idMap \subseteq Slots
  BY DEF CacheType
<1>2. /\ nw \in [Slots -> PoolIdx]
      /\ \A x \in Slots : nw[x] = IF x = k.older[s] THEN k.newer[s] ELSE k.newer[x]
  BY <1>1, SlotFacts DEF Store, PoolIdx
<1>3. /\ ol \in [Slots -> PoolIdx]
      /\ \A x \in Slots : ol[x] = IF x = k.newer[s] THEN k.older[s] ELSE k.older[x]
  BY <1>1, SlotFacts DEF Store, PoolIdx
<1> HIDE DEF nw, ol
<1>4. /\ k1.node = [k.node EXCEPT ![s] = 0] /\ k1.alias = k.alias
      /\ k1.aliasMap = k.aliasMap \ {s} /\ k1.idMap = k.idMap \ {s}
      /\ k1.newest = (IF k.newest = s THEN k.older[s] ELSE k.newest)
      /\ k1.oldest = (IF k.oldest = s THEN k.newer[s] ELSE k.oldest)
      /\ k1.freeList = s
      /\ k1.newer = nw /\ k1.older = [ol EXCEPT ![s] = k.freeList]
  BY DEF CacheType, Unlink, nw, ol
<1> HIDE DEF k1
<1>7. \A x \in Slots :
         /\ k1.newer[x] = IF x = k.older[s] THEN k.newer[s] ELSE k.newer[x]
         /\ k1.older[x] = IF x = s THEN k.freeList
                          ELSE IF x = k.newer[s] THEN k.older[s] ELSE k.older[x]
  BY <1>2, <1>3, <1>4
<1>9. \A x \in Slots : k1.node[x] = IF x = s THEN 0 ELSE k.node[x]
  BY <1>1, <1>4
<1> HIDE DEF k1
<1> QED BY <1>4, <1>7, <1>9 DEF k1

\* remove() leaves every field of its type.
LEMMA UnlinkType ==
    ASSUME NEW k \in CacheType, NEW s \in Slots
    PROVE  Unlink(k, s) \in CacheType
<1> DEFINE nw == Store(k.newer, k.older[s], k.newer[s])
           ol == Store(k.older, k.newer[s], k.older[s])
           k1 == Unlink(k, s)
<1>1. /\ k.newer \in [Slots -> PoolIdx] /\ k.older \in [Slots -> PoolIdx]
      /\ k.newer[s] \in PoolIdx /\ k.older[s] \in PoolIdx
      /\ k.node \in [Slots -> Ids \cup {0}] /\ k.alias \in [Slots -> Nat]
      /\ k.freeList \in PoolIdx /\ k.newest \in PoolIdx /\ k.oldest \in PoolIdx
      /\ k.aliasMap \subseteq Slots /\ k.idMap \subseteq Slots
  BY DEF CacheType
<1>2. /\ nw \in [Slots -> PoolIdx]
      /\ \A x \in Slots : nw[x] = IF x = k.older[s] THEN k.newer[s] ELSE k.newer[x]
  BY <1>1, SlotFacts DEF Store, PoolIdx
<1>3. /\ ol \in [Slots -> PoolIdx]
      /\ \A x \in Slots : ol[x] = IF x = k.newer[s] THEN k.older[s] ELSE k.older[x]
  BY <1>1, SlotFacts DEF Store, PoolIdx
<1> HIDE DEF nw, ol
<1>4. /\ k1.node = [k.node EXCEPT ![s] = 0] /\ k1.alias = k.alias
      /\ k1.aliasMap = k.aliasMap \ {s} /\ k1.idMap = k.idMap \ {s}
      /\ k1.newest = (IF k.newest = s THEN k.older[s] ELSE k.newest)
      /\ k1.oldest = (IF k.oldest = s THEN k.newer[s] ELSE k.oldest)
      /\ k1.freeList = s
      /\ k1.newer = nw /\ k1.older = [ol EXCEPT ![s] = k.freeList]
  BY DEF CacheType, Unlink, nw, ol
<1>8. /\ DOMAIN k1 = {"node", "alias", "newer", "older", "aliasMap", "idMap", "oldest",
                      "newest", "freeList"}
      /\ k1 = [x \in DOMAIN k1 |-> k1[x]]
  BY DEF CacheType, Unlink
<1> HIDE DEF k1
<1>5. /\ k1.node \in [Slots -> Ids \cup {0}] /\ k1.alias \in [Slots -> Nat]
      /\ k1.newer \in [Slots -> PoolIdx] /\ k1.older \in [Slots -> PoolIdx]
      /\ k1.newest \in PoolIdx /\ k1.oldest \in PoolIdx /\ k1.freeList \in PoolIdx
      /\ k1.aliasMap \in SUBSET Slots /\ k1.idMap \in SUBSET Slots
  <2>1. s \in PoolIdx
    BY DEF PoolIdx
  <2> QED BY <1>1, <1>2, <1>3, <1>4, <2>1
<1>6. k1 \in CacheType
  BY <1>5, <1>8 DEF CacheType, PoolIdx
<1> QED BY <1>6 DEF k1

\* The neighbours of an entry of the LRU list.
LEMMA Neighbours ==
    ASSUME NEW k, NEW u, NEW f, NEW X, Lists(k, u, f, X), NEW j \in 1..Len(u)
    PROVE  /\ u[j] \in Slots /\ u[j] \notin Ran(f)
           /\ k.older[u[j]] = IF j = Len(u) THEN NONE ELSE u[j + 1]
           /\ k.newer[u[j]] = IF j = 1 THEN NONE ELSE u[j - 1]
           /\ k.newest = u[1] /\ k.oldest = u[Len(u)]
<1>1. Len(u) \in Nat /\ \A i \in 1..Len(u) : u[i] \in Slots
  BY SeqFacts DEF Lists
<1>2. j = 1 \/ (j - 1 \in 1..(Len(u) - 1) /\ (j - 1) + 1 = j)
  BY <1>1
<1>3. k.newer[u[j]] = IF j = 1 THEN NONE ELSE u[j - 1]
  BY <1>1, <1>2 DEF Lists, Back
<1>4. k.older[u[j]] = IF j = Len(u) THEN NONE ELSE u[j + 1]
  BY <1>1 DEF Lists, Chain
<1>5. u[j] \in Ran(u) /\ Ran(u) \cap Ran(f) = {}
  BY DEF Lists, Ran
<1>6. k.newest = u[1] /\ k.oldest = u[Len(u)]
  BY <1>1 DEF Lists, Chain, Back
<1> QED BY <1>1, <1>3, <1>4, <1>5, <1>6

\* remove() takes the entry out of the LRU list, wherever it is on it, and puts
\* it at the head of the free list.
LEMMA UnlinkKeepsLists ==
    ASSUME NEW k \in CacheType, NEW u, NEW f, Lists(k, u, f, {}), NEW j \in 1..Len(u),
           NEW s, s = u[j], NEW k1, k1 = Unlink(k, s),
           NEW v, v = Drop(u, j), NEW g, g = Push(s, f)
    PROVE  Lists(k1, v, g, {})
<1>1. /\ Len(u) \in Nat /\ (\A i \in 1..Len(u) : u[i] \in Slots)
      /\ Len(f) \in Nat /\ (\A i \in 1..Len(f) : f[i] \in Slots)
      /\ u \in Seq(Slots) /\ f \in Seq(Slots) /\ OneToOne(u) /\ OneToOne(f)
      /\ Ran(u) \cap Ran(f) = {} /\ Ran(u) \cup Ran(f) = Slots
  BY SeqFacts DEF Lists
<1>2. /\ s \in Slots /\ s \notin Ran(f) /\ s \in Ran(u)
      /\ k.older[s] = IF j = Len(u) THEN NONE ELSE u[j + 1]
      /\ k.newer[s] = IF j = 1 THEN NONE ELSE u[j - 1]
      /\ k.newest = u[1] /\ k.oldest = u[Len(u)]
  <2>1. s \in Ran(u)
    BY DEF Ran
  <2> QED BY <2>1, Neighbours
<1>s. s = u[j]
  OBVIOUS
<1>3. /\ v \in Seq(Slots) /\ Len(v) = Len(u) - 1
      /\ \A i \in 1..(Len(u) - 1) : v[i] = IF i < j THEN u[i] ELSE u[i + 1]
      /\ OneToOne(v) /\ Ran(v) = Ran(u) \ {s}
  <2>0. v \in Seq(Slots)
    BY <1>1, DropIsSeq
  <2>1. Len(v) = Len(u) - 1
    BY <1>1, DropFacts
  <2>2. \A i \in 1..(Len(u) - 1) : v[i] = IF i < j THEN u[i] ELSE u[i + 1]
    BY <1>1, DropFacts
  <2>3. OneToOne(v)
    BY <1>1, DropFacts
  <2>4. Ran(v) = Ran(u) \ {s}
    BY <1>1, <1>s, DropFacts
  <2> QED BY <2>0, <2>1, <2>2, <2>3, <2>4
<1>4. /\ g \in Seq(Slots) /\ Len(g) = Len(f) + 1 /\ g[1] = s
      /\ \A i \in 1..Len(f) : g[i + 1] = f[i]
      /\ Ran(g) = Ran(f) \cup {s} /\ OneToOne(g)
  <2>1. s \in Slots /\ f \in Seq(Slots) /\ OneToOne(f) /\ s \notin Ran(f)
    BY <1>1, <1>2
  <2>0. g \in Seq(Slots)
    BY <2>1, PushIsSeq
  <2>2. Len(g) = Len(f) + 1
    BY <2>1, PushFacts
  <2>3. g[1] = s
    BY <2>1, PushFacts
  <2>4. \A i \in 1..Len(f) : g[i + 1] = f[i]
    BY <2>1, PushFacts
  <2>5. Ran(g) = Ran(f) \cup {s}
    BY <2>1, PushFacts
  <2>6. OneToOne(g)
    BY <2>1, PushFacts
  <2> QED BY <2>0, <2>2, <2>3, <2>4, <2>5, <2>6
<1>5. /\ k1.newest = IF k.newest = s THEN k.older[s] ELSE k.newest
      /\ k1.oldest = IF k.oldest = s THEN k.newer[s] ELSE k.oldest
      /\ k1.freeList = s
      /\ \A x \in Slots :
            /\ k1.newer[x] = IF x = k.older[s] THEN k.newer[s] ELSE k.newer[x]
            /\ k1.older[x] = IF x = s THEN k.freeList
                             ELSE IF x = k.newer[s] THEN k.older[s] ELSE k.older[x]
  <2>0. s \in Slots
    BY <1>2
  <2>1. k1.newest = IF k.newest = s THEN k.older[s] ELSE k.newest
    BY <2>0, UnlinkFields
  <2>2. k1.oldest = IF k.oldest = s THEN k.newer[s] ELSE k.oldest
    BY <2>0, UnlinkFields
  <2>3. k1.freeList = s
    BY <2>0, UnlinkFields
  <2>4. ASSUME NEW x \in Slots
        PROVE  k1.newer[x] = IF x = k.older[s] THEN k.newer[s] ELSE k.newer[x]
    BY <2>0, UnlinkFields
  <2>5. ASSUME NEW x \in Slots
        PROVE  k1.older[x] = IF x = s THEN k.freeList
                             ELSE IF x = k.newer[s] THEN k.older[s] ELSE k.older[x]
    BY <2>0, UnlinkFields
  <2> QED BY <2>1, <2>2, <2>3, <2>4, <2>5
<1>6. /\ \A i \in 1..(Len(u) - 1) : k.older[u[i]] = u[i + 1]
      /\ \A i \in 1..(Len(u) - 1) : k.newer[u[i + 1]] = u[i]
      /\ k.older[u[Len(u)]] = NONE /\ k.newer[u[1]] = NONE
      /\ \A i \in 1..(Len(f) - 1) : k.older[f[i]] = f[i + 1]
      /\ Len(f) = 0 => k.freeList = NONE
      /\ Len(f) > 0 => k.freeList = f[1] /\ k.older[f[Len(f)]] = NONE
  BY <1>1 DEF Lists, Chain, Back
<1>7. \A a, b \in 1..Len(u) : u[a] = u[b] => a = b
  BY <1>1 DEF OneToOne
<1>13. \A i \in 1..Len(u) : /\ u[i] = k.older[s] <=> i = j + 1
                            /\ u[i] = k.newer[s] <=> i = j - 1
                            /\ u[i] = s <=> i = j
  <2> TAKE i \in 1..Len(u)
  <2>1. u[i] \in Slots /\ u[i] # NONE
    BY <1>1, SlotFacts
  <2>2. u[i] = k.older[s] <=> i = j + 1
    <3>1. CASE j = Len(u)
      BY <2>1, <3>1, <1>1, <1>2
    <3>2. CASE j # Len(u)
      <4>1. j + 1 \in 1..Len(u) /\ k.older[s] = u[j + 1]
        BY <3>2, <1>1, <1>2
      <4> QED BY <4>1, <1>7
    <3> QED BY <3>1, <3>2
  <2>3. u[i] = k.newer[s] <=> i = j - 1
    <3>1. CASE j = 1
      BY <2>1, <3>1, <1>1, <1>2
    <3>2. CASE j # 1
      <4>1. j - 1 \in 1..Len(u) /\ k.newer[s] = u[j - 1]
        BY <3>2, <1>1, <1>2
      <4> QED BY <4>1, <1>7
    <3> QED BY <3>1, <3>2
  <2> QED BY <2>2, <2>3, <1>7, <1>s
<1>14. Len(v) = 0 => j = 1 /\ Len(u) = 1
  <2> SUFFICES ASSUME Len(v) = 0 PROVE j = 1 /\ Len(u) = 1
    OBVIOUS
  <2>1. Len(v) = Len(u) - 1 /\ Len(u) \in Nat
    BY <1>1, <1>3
  <2>2. Len(u) = 1
    BY <2>1
  <2> QED BY <2>2
<1>8. Chain(k1.newest, k1.older, v)
  <2>1. Len(v) = 0 => k1.newest = NONE
    BY <1>14, <1>2, <1>5, <1>s
  <2>2. ASSUME Len(v) > 0 PROVE k1.newest = v[1]
    <3>1. CASE j = 1
      BY <2>2, <3>1, <1>1, <1>2, <1>3, <1>5, <1>s
    <3>2. CASE j # 1
      <4>1. k.newest # s
        BY <3>2, <1>1, <1>2, <1>7, <1>s
      <4> QED BY <2>2, <3>2, <4>1, <1>1, <1>2, <1>3, <1>5
    <3> QED BY <3>1, <3>2
  <2>3. ASSUME Len(v) > 0 PROVE k1.older[v[Len(v)]] = NONE
    <3>1. CASE j = Len(u)
      <4>1. v[Len(v)] = u[j - 1] /\ u[j - 1] \in Slots /\ u[j - 1] # s
        BY <2>3, <3>1, <1>1, <1>3, <1>7, <1>s
      <4> QED BY <2>3, <3>1, <4>1, <1>1, <1>2, <1>3, <1>5
    <3>2. CASE j # Len(u)
      <4>1. v[Len(v)] = u[Len(u)] /\ u[Len(u)] \in Slots /\ u[Len(u)] # s
        BY <2>3, <3>2, <1>1, <1>3, <1>7, <1>s
      <4>2. u[Len(u)] # k.newer[s]
        <5>1. Len(u) \in 1..Len(u) /\ ~(Len(u) = j - 1)
          BY <1>1
        <5> QED BY <5>1, <1>13
      <4> QED BY <4>1, <4>2, <1>5, <1>6
    <3> QED BY <3>1, <3>2
  <2>4. ASSUME NEW i \in 1..(Len(v) - 1) PROVE k1.older[v[i]] = v[i + 1]
    <3>1. CASE i < j - 1
      <4>1. /\ v[i] = u[i] /\ v[i + 1] = u[i + 1] /\ u[i] \in Slots
            /\ k.older[u[i]] = u[i + 1]
        <5>1. i \in 1..(Len(u) - 1) /\ i < j /\ i + 1 < j /\ i + 1 \in 1..(Len(u) - 1)
          BY <3>1, <1>1, <1>3
        <5> QED BY <5>1, <1>1, <1>3, <1>6
      <4>2. u[i] # s /\ u[i] # k.newer[s]
        <5>1. i \in 1..Len(u) /\ i # j /\ i # j - 1
          BY <3>1, <1>1, <1>3
        <5> QED BY <5>1, <1>13
      <4> QED BY <4>1, <4>2, <1>5
    <3>2. CASE i = j - 1
      <4>1. v[i] = u[i] /\ v[i + 1] = u[i + 2] /\ u[i] \in Slots
        <5>1. i < j /\ ~(i + 1 < j) /\ (i + 1) + 1 = i + 2 /\ i + 1 \in 1..(Len(u) - 1)
          BY <3>2, <1>1, <1>3
        <5> QED BY <5>1, <1>1, <1>3
      <4>2. u[i] # s /\ u[i] = k.newer[s] /\ k.older[s] = u[i + 2]
        BY <3>2, <1>1, <1>2, <1>3, <1>7, <1>s
      <4> QED BY <4>1, <4>2, <1>5
    <3>3. CASE i >= j
      <4>1. /\ v[i] = u[i + 1] /\ v[i + 1] = u[i + 2] /\ u[i + 1] \in Slots
            /\ k.older[u[i + 1]] = u[i + 2]
        <5>1. /\ i \in 1..(Len(u) - 1) /\ i + 1 \in 1..(Len(u) - 1) /\ i + 1 \in 1..Len(u)
              /\ (i + 1) + 1 = i + 2 /\ ~(i < j) /\ ~(i + 1 < j)
          BY <3>3, <1>1, <1>3
        <5>2. v[i] = u[i + 1] /\ v[i + 1] = u[i + 2]
          BY <5>1, <1>3
        <5>3. u[i + 1] \in Slots
          BY <5>1, <1>1
        <5>4. k.older[u[i + 1]] = u[i + 2]
          BY <5>1, <1>6
        <5> QED BY <5>2, <5>3, <5>4
      <4>2. u[i + 1] # s /\ u[i + 1] # k.newer[s]
        <5>1. i + 1 \in 1..Len(u) /\ i + 1 # j /\ i + 1 # j - 1
          BY <3>3, <1>1, <1>3
        <5> QED BY <5>1, <1>13
      <4> QED BY <4>1, <4>2, <1>5
    <3> QED BY <3>1, <3>2, <3>3, <1>1, <1>3
  <2> QED BY <2>1, <2>2, <2>3, <2>4 DEF Chain
<1>9. Back(k1, v)
  <2>1. Len(v) = 0 => k1.oldest = NONE
    BY <1>14, <1>2, <1>5, <1>s
  <2>2. ASSUME Len(v) > 0 PROVE k1.oldest = v[Len(v)]
    <3>1. CASE j = Len(u)
      <4>1. /\ ~(j = 1) /\ Len(v) = j - 1
            /\ j - 1 \in 1..(Len(u) - 1) /\ j - 1 < j
        BY <2>2, <3>1, <1>1, <1>3
      <4>2. k1.oldest = k.newer[s] /\ k.newer[s] = u[j - 1]
        BY <3>1, <4>1, <1>2, <1>5, <1>s
      <4>3. v[j - 1] = u[j - 1]
        BY <4>1, <1>3
      <4> QED BY <4>1, <4>2, <4>3
    <3>2. CASE j # Len(u)
      <4>1. k.oldest # s
        BY <3>2, <1>1, <1>2, <1>7, <1>s
      <4> QED BY <2>2, <3>2, <4>1, <1>1, <1>2, <1>3, <1>5
    <3> QED BY <3>1, <3>2
  <2>3. ASSUME Len(v) > 0 PROVE k1.newer[v[1]] = NONE
    <3>1. CASE j = 1
      BY <2>3, <3>1, <1>1, <1>2, <1>3, <1>5
    <3>2. CASE j # 1
      <4>1. v[1] = u[1] /\ u[1] \in Slots
        BY <2>3, <3>2, <1>1, <1>3
      <4>2. u[1] # k.older[s]
        <5>1. 1 \in 1..Len(u) /\ ~(1 = j + 1)
          BY <1>1
        <5> QED BY <5>1, <1>13
      <4> QED BY <4>1, <4>2, <1>5, <1>6
    <3> QED BY <3>1, <3>2
  <2>4. ASSUME NEW i \in 1..(Len(v) - 1) PROVE k1.newer[v[i + 1]] = v[i]
    <3>1. CASE i < j - 1
      <4>1. /\ v[i] = u[i] /\ v[i + 1] = u[i + 1] /\ u[i + 1] \in Slots
            /\ k.newer[u[i + 1]] = u[i]
        <5>1. /\ i \in 1..(Len(u) - 1) /\ i + 1 \in 1..(Len(u) - 1) /\ i + 1 \in 1..Len(u)
              /\ i < j /\ i + 1 < j
          BY <3>1, <1>1, <1>3
        <5>2. v[i] = u[i] /\ v[i + 1] = u[i + 1]
          BY <5>1, <1>3
        <5>3. u[i + 1] \in Slots
          BY <5>1, <1>1
        <5>4. k.newer[u[i + 1]] = u[i]
          BY <5>1, <1>6
        <5> QED BY <5>2, <5>3, <5>4
      <4>2. u[i + 1] # k.older[s]
        <5>1. i + 1 \in 1..Len(u) /\ i + 1 # j + 1
          BY <3>1, <1>1, <1>3
        <5> QED BY <5>1, <1>13
      <4> QED BY <4>1, <4>2, <1>5
    <3>2. CASE i = j - 1
      <4>1. v[i] = u[i] /\ v[i + 1] = u[i + 2] /\ u[i + 2] \in Slots
        <5>1. /\ i < j /\ ~(i + 1 < j) /\ (i + 1) + 1 = i + 2
              /\ i + 1 \in 1..(Len(u) - 1) /\ i + 2 \in 1..Len(u)
          BY <3>2, <1>1, <1>3
        <5> QED BY <5>1, <1>1, <1>3
      <4>2. u[i + 2] = k.older[s] /\ k.newer[s] = u[i]
        BY <3>2, <1>1, <1>2, <1>3
      <4> QED BY <4>1, <4>2, <1>5
    <3>3. CASE i >= j
      <4>1. /\ v[i] = u[i + 1] /\ v[i + 1] = u[i + 2] /\ u[i + 2] \in Slots
            /\ k.newer[u[i + 2]] = u[i + 1]
        <5>1. /\ i \in 1..(Len(u) - 1) /\ i + 1 \in 1..(Len(u) - 1) /\ i + 2 \in 1..Len(u)
              /\ (i + 1) + 1 = i + 2 /\ ~(i < j) /\ ~(i + 1 < j)
          BY <3>3, <1>1, <1>3
        <5>2. v[i] = u[i + 1] /\ v[i + 1] = u[i + 2]
          BY <5>1, <1>3
        <5>3. u[i + 2] \in Slots
          BY <5>1, <1>1
        <5>4. k.newer[u[i + 2]] = u[i + 1]
          BY <5>1, <1>6
        <5> QED BY <5>2, <5>3, <5>4
      <4>2. u[i + 2] # k.older[s]
        <5>1. i + 2 \in 1..Len(u) /\ i + 2 # j + 1
          BY <3>3, <1>1, <1>3
        <5> QED BY <5>1, <1>13
      <4> QED BY <4>1, <4>2, <1>5
    <3> QED BY <3>1, <3>2, <3>3, <1>1, <1>3
  <2> QED BY <2>1, <2>2, <2>3, <2>4 DEF Back
<1>10. Chain(k1.freeList, k1.older, g)
  <2>1. \A i \in 1..Len(f) : /\ f[i] \in Slots /\ f[i] # s /\ f[i] # k.newer[s]
                             /\ k1.older[f[i]] = k.older[f[i]]
    <3> TAKE i \in 1..Len(f)
    <3>1. f[i] \in Ran(f) /\ f[i] \notin Ran(u) /\ f[i] \in Slots
      BY <1>1 DEF Ran
    <3>2. k.newer[s] = NONE \/ k.newer[s] \in Ran(u)
      <4>1. j = 1 \/ j - 1 \in 1..Len(u)
        BY <1>1
      <4> QED BY <4>1, <1>2 DEF Ran
    <3> QED BY <3>1, <3>2, <1>2, <1>5, SlotFacts
  <2>2. ASSUME NEW i \in 1..(Len(g) - 1) PROVE k1.older[g[i]] = g[i + 1]
    <3>1. CASE i = 1
      <4>1. k.freeList = f[1] /\ g[2] = f[1]
        BY <3>1, <1>1, <1>4, <1>6
      <4> QED BY <3>1, <4>1, <1>2, <1>4, <1>5
    <3>2. CASE i # 1
      <4>1. /\ i - 1 \in 1..(Len(f) - 1) /\ i - 1 \in 1..Len(f) /\ i \in 1..Len(f)
            /\ (i - 1) + 1 = i
        BY <3>2, <1>1, <1>4
      <4>2. g[i] = f[i - 1] /\ g[i + 1] = f[i] /\ k.older[f[i - 1]] = f[i]
        BY <4>1, <1>4, <1>6
      <4> QED BY <4>1, <4>2, <2>1
    <3> QED BY <3>1, <3>2
  <2>3. k1.older[g[Len(g)]] = NONE
    <3>1. CASE Len(f) = 0
      BY <3>1, <1>2, <1>4, <1>5, <1>6
    <3>2. CASE Len(f) # 0
      <4>1. Len(f) \in 1..Len(f) /\ g[Len(g)] = f[Len(f)]
        BY <3>2, <1>1, <1>4
      <4> QED BY <4>1, <2>1, <1>1, <1>6
    <3> QED BY <3>1, <3>2
  <2>4. Len(g) > 0 /\ k1.freeList = g[1]
    BY <1>1, <1>4, <1>5
  <2> QED BY <2>2, <2>3, <2>4 DEF Chain
<1>11. Ran(v) \cap Ran(g) = {} /\ Ran(v) \cup Ran(g) = Slots \ {}
  BY <1>1, <1>2, <1>3, <1>4
<1> QED BY <1>3, <1>4, <1>8, <1>9, <1>10, <1>11 DEF Lists

\* remove() takes the entry out of both sorted sets.
LEMMA UnlinkKeepsKeys ==
    ASSUME NEW k \in CacheType, NEW u, NEW f, Lists(k, u, f, {}), Keys(k, u),
           NEW j \in 1..Len(u), NEW s, s = u[j], NEW k1, k1 = Unlink(k, s),
           NEW v, v = Drop(u, j)
    PROVE  Keys(k1, v)
<1>1. s \in Slots /\ u \in Seq(Slots) /\ OneToOne(u)
  BY Neighbours DEF Lists
<1>2. Ran(v) = Ran(u) \ {s} /\ Ran(u) \subseteq Slots
  BY <1>1, DropFacts, SeqFacts
<1>3. k1.idMap = k.idMap \ {s}
  BY <1>1, UnlinkFields
<1>4. k1.aliasMap = k.aliasMap \ {s}
  BY <1>1, UnlinkFields
<1>5. k1.alias = k.alias
  BY <1>1, UnlinkFields
<1>6. ASSUME NEW x \in Slots, x # s PROVE k1.node[x] = k.node[x]
  BY <1>1, <1>6, UnlinkFields
<1>7. \A x \in Ran(v) : x \in Ran(u) /\ k1.node[x] = k.node[x] /\ k1.alias[x] = k.alias[x]
  BY <1>2, <1>5, <1>6
<1>8. k1.idMap = Ran(v) /\ k1.aliasMap = Ran(v)
  BY <1>2, <1>3, <1>4 DEF Keys
<1>9. \A x, y \in Ran(v) : k1.node[x] = k1.node[y] \/ k1.alias[x] = k1.alias[y] => x = y
  BY <1>7 DEF Keys
<1>10. \A x \in Ran(v) : /\ k1.node[x] \in Ids
                         /\ k1.alias[x] \in Aliases \/ k1.alias[x] = NOT_RESPONDING + x
  BY <1>7 DEF Keys
<1> QED BY <1>8, <1>9, <1>10 DEF Keys

\* remove() keeps the pool sound: the entry changes over to the free list.
LEMMA UnlinkKeeps ==
    ASSUME NEW k, NEW u, NEW f, Sound(k, u, f, {}), NEW j \in 1..Len(u)
    PROVE  Sound(Unlink(k, u[j]), Drop(u, j), Push(u[j], f), {})
<1>1. k \in CacheType /\ Lists(k, u, f, {}) /\ Keys(k, u)
  BY DEF Sound
<1>2. u[j] \in Slots
  BY <1>1, Neighbours
<1>3. Unlink(k, u[j]) \in CacheType
  BY <1>1, <1>2, UnlinkType
<1>4. Lists(Unlink(k, u[j]), Drop(u, j), Push(u[j], f), {})
  BY <1>1, UnlinkKeepsLists
<1>5. Keys(Unlink(k, u[j]), Drop(u, j))
  BY <1>1, UnlinkKeepsKeys
<1> QED BY <1>3, <1>4, <1>5 DEF Sound

\* add() takes the first entry of the free list.
LEMMA PopKeeps ==
    ASSUME NEW k, NEW u, NEW f, Sound(k, u, f, {}), k.freeList # NONE,
           NEW s, s = k.freeList, NEW k1, k1 = [k EXCEPT !.freeList = k.older[s]],
           NEW g, g = Drop(f, 1)
    PROVE  s \in Slots /\ Sound(k1, u, g, {s})
<1>1. /\ Len(u) \in Nat /\ (\A i \in 1..Len(u) : u[i] \in Slots)
      /\ Len(f) \in Nat /\ (\A i \in 1..Len(f) : f[i] \in Slots)
      /\ u \in Seq(Slots) /\ f \in Seq(Slots) /\ OneToOne(u) /\ OneToOne(f)
      /\ Ran(u) \cap Ran(f) = {} /\ Ran(u) \cup Ran(f) = Slots
      /\ k \in CacheType
  BY SeqFacts DEF Sound, Lists
<1>2. /\ \A i \in 1..(Len(f) - 1) : k.older[f[i]] = f[i + 1]
      /\ Len(f) > 0 /\ k.freeList = f[1] /\ k.older[f[Len(f)]] = NONE
  BY <1>1 DEF Sound, Lists, Chain
<1>3. s = f[1] /\ 1 \in 1..Len(f) /\ s \in Slots /\ s \in Ran(f)
  <2>1. 1 \in 1..Len(f) /\ s = f[1]
    BY <1>1, <1>2
  <2> QED BY <2>1, <1>1 DEF Ran
<1>4. k.older[s] = IF Len(f) = 1 THEN NONE ELSE f[2]
  <2>1. CASE Len(f) = 1
    BY <2>1, <1>2, <1>3
  <2>2. CASE Len(f) # 1
    <3>1. PICK m \in Nat : m = Len(f)
      BY <1>1
    <3>2. m # 1 /\ m > 0
      BY <3>1, <2>2, <1>2
    <3>3. 1 \in 1..(m - 1)
      BY <3>2
    <3> QED BY <3>1, <3>3, <2>2, <1>2, <1>3
  <2> QED BY <2>1, <2>2
<1>5. /\ k1.newest = k.newest /\ k1.oldest = k.oldest
      /\ k1.newer = k.newer /\ k1.older = k.older
      /\ k1.node = k.node /\ k1.alias = k.alias
      /\ k1.idMap = k.idMap /\ k1.aliasMap = k.aliasMap
      /\ k1.freeList = k.older[s]
  BY <1>1 DEF CacheType
<1>6. k1 \in CacheType
  <2>1. k.older[s] \in PoolIdx
    BY <1>1, <1>3 DEF CacheType
  <2> QED BY <2>1, <1>1 DEF CacheType
<1>7. g \in Seq(Slots)
  BY <1>1, <1>3, DropIsSeq
<1>8. Len(g) = Len(f) - 1
  BY <1>1, <1>3, DropFacts
<1>9. \A i \in 1..(Len(f) - 1) : g[i] = f[i + 1]
  <2>1. f \in Seq(Slots) /\ 1 \in 1..Len(f)
    BY <1>1, <1>3
  <2>2. \A i \in 1..(Len(f) - 1) : g[i] = IF i < 1 THEN f[i] ELSE f[i + 1]
    BY <2>1, DropFacts
  <2> TAKE i \in 1..(Len(f) - 1)
  <2>3. ~(i < 1)
    OBVIOUS
  <2> QED BY <2>2, <2>3
<1>10. OneToOne(g)
  BY <1>1, <1>3, DropFacts
<1>11. Ran(g) = Ran(f) \ {s}
  BY <1>1, <1>3, DropFacts
<1>12. Chain(k1.freeList, k1.older, g)
  <2>m. PICK m \in Nat : m = Len(f)
    BY <1>1
  <2>1. Len(g) = 0 => k1.freeList = NONE
    BY <1>1, <1>4, <1>5, <1>8
  <2>2. ASSUME Len(g) > 0 PROVE k1.freeList = g[1]
    <3>1. 1 \in 1..(m - 1) /\ ~(m = 1)
      BY <2>2, <2>m, <1>8
    <3>2. g[1] = f[2]
      BY <3>1, <2>m, <1>9
    <3>3. k1.freeList = f[2]
      BY <3>1, <2>m, <1>4, <1>5
    <3> QED BY <3>2, <3>3
  <2>3. ASSUME Len(g) > 0 PROVE k1.older[g[Len(g)]] = NONE
    <3>1. m - 1 \in 1..(m - 1) /\ Len(g) = m - 1 /\ (m - 1) + 1 = m
      BY <2>3, <2>m, <1>8
    <3>2. g[m - 1] = f[m]
      BY <3>1, <2>m, <1>9
    <3> QED BY <3>1, <3>2, <2>m, <1>2, <1>5
  <2>4. ASSUME NEW i \in 1..(Len(g) - 1) PROVE k1.older[g[i]] = g[i + 1]
    <3>1. i + 1 \in 1..(Len(f) - 1) /\ i \in 1..(Len(f) - 1)
      BY <1>1, <1>8
    <3> QED BY <3>1, <1>2, <1>5, <1>9
  <2> QED BY <2>1, <2>2, <2>3, <2>4 DEF Chain
<1>13. Chain(k1.newest, k1.older, u) /\ Back(k1, u)
  BY <1>5 DEF Sound, Lists, Back
<1>14. Ran(u) \cap Ran(g) = {} /\ Ran(u) \cup Ran(g) = Slots \ {s}
  BY <1>1, <1>3, <1>11
<1>15. Lists(k1, u, g, {s})
  BY <1>1, <1>7, <1>10, <1>12, <1>13, <1>14 DEF Lists
<1>16. Keys(k1, u)
  BY <1>5 DEF Sound, Keys
<1> QED BY <1>3, <1>6, <1>15, <1>16 DEF Sound

\* add() evicts the oldest entry when the free list is empty.
LEMMA EvictKeeps ==
    ASSUME NEW k, NEW u, NEW f, Sound(k, u, f, {}), k.freeList = NONE,
           NEW k1, k1 = Evict(k), NEW s, s = k.oldest, NEW v, v = Drop(u, Len(u))
    PROVE  /\ s \in Slots /\ Len(u) \in 1..Len(u) /\ s = u[Len(u)]
           /\ Sound(k1, v, f, {s})
<1>1. /\ Len(u) \in Nat /\ (\A i \in 1..Len(u) : u[i] \in Slots)
      /\ Len(f) \in Nat /\ (\A i \in 1..Len(f) : f[i] \in Slots)
      /\ u \in Seq(Slots) /\ f \in Seq(Slots) /\ OneToOne(u) /\ OneToOne(f)
      /\ Ran(u) \cap Ran(f) = {} /\ Ran(u) \cup Ran(f) = Slots
      /\ k \in CacheType
  BY SeqFacts DEF Sound, Lists
<1>2. Len(f) = 0
  BY <1>1, SlotFacts DEF Sound, Lists, Chain
<1>3. Len(u) > 0
  <2> SUFFICES ASSUME Len(u) = 0 PROVE FALSE
    BY <1>1
  <2>1. Ran(u) = {} /\ Ran(f) = {}
    BY <1>2 DEF Ran
  <2>2. 0 \in Slots
    BY SlotFacts DEF Slots
  <2> QED BY <2>1, <2>2, <1>1
<1>n. PICK n \in Nat : n = Len(u) /\ n > 0
  BY <1>1, <1>3
<1>4. n \in 1..n /\ s = u[n] /\ s \in Slots /\ s \in Ran(u)
  <2>1. n \in 1..n
    BY <1>n, <1>1, <1>3
  <2>2. s = u[n]
    BY <1>n, <1>3 DEF Sound, Lists, Back
  <2> QED BY <1>n, <2>1, <2>2, <1>1 DEF Ran
<1>5. /\ k.newer[s] = IF n = 1 THEN NONE ELSE u[n - 1]
      /\ k.newest = u[1]
  <2>1. Lists(k, u, f, {})
    BY DEF Sound
  <2>2. k.newer[u[n]] = IF n = 1 THEN NONE ELSE u[n - 1]
    BY <1>n, <2>1, <1>4, Neighbours
  <2>3. k.newest = u[1]
    BY <1>n, <2>1, <1>4, Neighbours
  <2> QED BY <1>n, <2>2, <2>3, <1>4
<1>6. /\ k1.newest = IF k.newest = s THEN NONE ELSE k.newest
      /\ k1.oldest = k.newer[s] /\ k1.freeList = k.freeList
      /\ k1.newer = k.newer /\ k1.older = Store(k.older, k.newer[s], NONE)
      /\ k1.node = k.node /\ k1.alias = k.alias
      /\ k1.idMap = k.idMap \ {s} /\ k1.aliasMap = k.aliasMap \ {s}
  BY <1>n, <1>1 DEF CacheType, Evict
<1>7. /\ k1.older \in [Slots -> PoolIdx]
      /\ \A x \in Slots : k1.older[x] = IF x = k.newer[s] THEN NONE ELSE k.older[x]
  BY <1>n, <1>1, <1>4, <1>6, SlotFacts DEF CacheType, Store, PoolIdx
<1>8. k1 \in CacheType
  <2>1. /\ DOMAIN k1 = {"node", "alias", "newer", "older", "aliasMap", "idMap", "oldest",
                        "newest", "freeList"}
        /\ k1 = [x \in DOMAIN k1 |-> k1[x]]
    BY <1>n, <1>1 DEF CacheType, Evict
  <2>2. /\ k1.node \in [Slots -> Ids \cup {0}] /\ k1.alias \in [Slots -> Nat]
        /\ k1.newer \in [Slots -> PoolIdx] /\ k1.newest \in PoolIdx /\ k1.oldest \in PoolIdx
        /\ k1.freeList \in PoolIdx
        /\ k1.aliasMap \in SUBSET Slots /\ k1.idMap \in SUBSET Slots
    BY <1>n, <1>1, <1>4, <1>6 DEF CacheType, PoolIdx
  <2> QED BY <1>n, <2>1, <2>2, <1>7 DEF CacheType
<1>9. v \in Seq(Slots)
  BY <1>n, <1>1, <1>4, DropIsSeq
<1>10. Len(v) = n - 1
  BY <1>n, <1>1, <1>4, DropFacts
<1>11. \A i \in 1..(n - 1) : v[i] = u[i]
  <2>1. \A i \in 1..(n - 1) : v[i] = IF i < n THEN u[i] ELSE u[i + 1]
    BY <1>n, <1>1, <1>4, DropFacts
  <2>2. \A i \in 1..(n - 1) : i < n
    BY <1>n, <1>1
  <2> QED BY <2>1, <2>2
<1>12. OneToOne(v)
  BY <1>n, <1>1, <1>4, DropFacts
<1>13. Ran(v) = Ran(u) \ {s}
  <2>1. Len(u) \in 1..Len(u) /\ s = u[Len(u)]
    BY <1>n, <1>4
  <2>2. Ran(Drop(u, Len(u))) = Ran(u) \ {u[Len(u)]}
    BY <2>1, <1>1, DropFacts
  <2> QED BY <2>1, <2>2
<1>14. \A i \in 1..n : (u[i] = s <=> i = n) /\ (u[i] = k.newer[s] <=> i = n - 1)
  <2> TAKE i \in 1..n
  <2>1. u[i] = s <=> i = n
    BY <1>n, <1>1, <1>4 DEF OneToOne
  <2>2. u[i] = k.newer[s] <=> i = n - 1
    <3>1. CASE n = 1
      BY <1>n, <3>1, <1>1, <1>5, SlotFacts
    <3>2. CASE n # 1
      <4>0. n \in Nat /\ n > 0
        BY <1>n, <1>1, <1>3
      <4>1. n - 1 \in 1..n
        BY <3>2, <4>0
      <4>2. k.newer[s] = u[n - 1]
        BY <1>n, <3>2, <1>5
      <4> QED BY <1>n, <4>1, <4>2, <1>1 DEF OneToOne
    <3> QED BY <3>1, <3>2
  <2> QED BY <2>1, <2>2
<1>15. Chain(k1.newest, k1.older, v)
  <2>1. ASSUME Len(v) = 0 PROVE k1.newest = NONE
    <3>0. 0 = n - 1
      BY <1>n, <2>1, <1>10
    <3>1. n = 1
      BY <3>0
    <3> QED BY <1>n, <3>1, <1>4, <1>5, <1>6
  <2>2. ASSUME Len(v) > 0 PROVE k1.newest = v[1]
    <3>1. 1 \in 1..n /\ 1 # n /\ 1 \in 1..(n - 1)
      BY <1>n, <2>2, <1>1, <1>10
    <3> QED BY <1>n, <3>1, <1>5, <1>6, <1>11, <1>14
  <2>3. ASSUME Len(v) > 0 PROVE k1.older[v[Len(v)]] = NONE
    <3>1. n - 1 \in 1..n /\ n - 1 \in 1..(n - 1) /\ Len(v) = n - 1
      BY <1>n, <2>3, <1>1, <1>10
    <3>2. v[Len(v)] = u[n - 1] /\ u[n - 1] \in Slots /\ u[n - 1] = k.newer[s]
      BY <1>n, <3>1, <1>1, <1>11, <1>14
    <3> QED BY <1>n, <3>2, <1>7
  <2>4. ASSUME NEW i \in 1..(Len(v) - 1) PROVE k1.older[v[i]] = v[i + 1]
    <3>1. i \in 1..(n - 1) /\ i + 1 \in 1..(n - 1) /\ i \in 1..n /\ i # n - 1
      BY <1>n, <1>1, <1>10
    <3>2. v[i] = u[i] /\ v[i + 1] = u[i + 1] /\ u[i] \in Slots /\ u[i] # k.newer[s]
      BY <1>n, <3>1, <1>1, <1>11, <1>14
    <3>3. k.older[u[i]] = u[i + 1]
      BY <1>n, <3>1 DEF Sound, Lists, Chain
    <3> QED BY <1>n, <3>2, <3>3, <1>7
  <2> QED BY <2>1, <2>2, <2>3, <2>4 DEF Chain
<1>16. Back(k1, v)
  <2>1. ASSUME Len(v) = 0 PROVE k1.oldest = NONE
    <3>0. 0 = n - 1
      BY <1>n, <2>1, <1>10
    <3>1. n = 1
      BY <3>0
    <3> QED BY <1>n, <3>1, <1>5, <1>6
  <2>2. ASSUME Len(v) > 0 PROVE k1.oldest = v[Len(v)]
    <3>1. n - 1 \in 1..(n - 1) /\ Len(v) = n - 1 /\ n # 1
      BY <1>n, <2>2, <1>1, <1>10
    <3> QED BY <1>n, <3>1, <1>5, <1>6, <1>11
  <2>3. ASSUME Len(v) > 0 PROVE k1.newer[v[1]] = NONE
    <3>1. 1 \in 1..(n - 1)
      BY <1>n, <2>3, <1>1, <1>10
    <3>2. k.newer[u[1]] = NONE
      BY <1>n, <1>3 DEF Sound, Lists, Back
    <3> QED BY <1>n, <3>1, <3>2, <1>6, <1>11
  <2>4. ASSUME NEW i \in 1..(Len(v) - 1) PROVE k1.newer[v[i + 1]] = v[i]
    <3>1. i \in 1..(n - 1) /\ i + 1 \in 1..(n - 1)
      BY <1>n, <1>1, <1>10
    <3>2. k.newer[u[i + 1]] = u[i]
      BY <1>n, <3>1 DEF Sound, Lists, Back
    <3> QED BY <1>n, <3>1, <3>2, <1>6, <1>11
  <2> QED BY <2>1, <2>2, <2>3, <2>4 DEF Back
<1>17. Chain(k1.freeList, k1.older, f)
  BY <1>n, <1>2, <1>6 DEF Chain
<1>18. Ran(v) \cap Ran(f) = {} /\ Ran(v) \cup Ran(f) = Slots \ {s}
  BY <1>n, <1>1, <1>4, <1>13
<1>19. Lists(k1, v, f, {s})
  BY <1>n, <1>1, <1>9, <1>12, <1>15, <1>16, <1>17, <1>18 DEF Lists
<1>20. Keys(k1, v)
  <2>1. k1.idMap = Ran(v) /\ k1.aliasMap = Ran(v)
    BY <1>n, <1>6, <1>13 DEF Sound, Keys
  <2>2. \A x \in Ran(v) : x \in Ran(u) /\ k1.node[x] = k.node[x] /\ k1.alias[x] = k.alias[x]
    BY <1>n, <1>6, <1>13
  <2> QED BY <2>1, <2>2 DEF Sound, Keys
<1> QED BY <1>n, <1>4, <1>8, <1>19, <1>20 DEF Sound

\* add() puts the mapping into a slot that is in neither list, as the newest.
LEMMA LinkNames ==
    ASSUME NEW k \in CacheType, NEW s \in Slots, NEW id, NEW a,
           NEW k1, k1 = Link(k, s, id, a)
    PROVE  /\ k1.node[s] = id /\ k1.alias[s] = a
           /\ \A x \in Slots : x # s => k1.node[x] = k.node[x] /\ k1.alias[x] = k.alias[x]
<1>1. k1.node = [k.node EXCEPT ![s] = id] /\ k1.alias = [k.alias EXCEPT ![s] = a]
  BY DEF CacheType, Link
<1>2. /\ k.node \in [Slots -> Ids \cup {0}] /\ k.alias \in [Slots -> Nat]
  BY DEF CacheType
<1> QED BY <1>1, <1>2

\* The cache is sound again when the slot is linked, provided its keys are new.
LEMMA LinkKeeps ==
    ASSUME NEW k, NEW u, NEW f, NEW s \in Slots, Sound(k, u, f, {s}),
           NEW id \in Ids, NEW a, a \in Aliases \/ a = NOT_RESPONDING + s,
           \A x \in Ran(u) : k.node[x] # id /\ k.alias[x] # a,
           NEW k1, k1 = Link(k, s, id, a), NEW w, w = Push(s, u)
    PROVE  Sound(k1, w, f, {})
<1>1. /\ Len(u) \in Nat /\ (\A i \in 1..Len(u) : u[i] \in Slots)
      /\ u \in Seq(Slots) /\ f \in Seq(Slots) /\ OneToOne(u) /\ OneToOne(f)
      /\ Ran(u) \cap Ran(f) = {} /\ Ran(u) \cup Ran(f) = Slots \ {s}
      /\ k \in CacheType
  BY SeqFacts DEF Sound, Lists
<1>2. s \notin Ran(u) /\ s \notin Ran(f) /\ Ran(u) \subseteq Slots
  BY <1>1
<1>n. PICK n \in Nat : n = Len(u)
  BY <1>1
<1>3. a \in Nat /\ id \in Ids \cup {0}
  <2>1. a \in Aliases => a \in Nat
    BY CacheAssumption DEF CacheAssumption
  <2>2. NOT_RESPONDING + s \in Nat
    BY CacheAssumption, SlotFacts DEF CacheAssumption
  <2> QED BY <2>1, <2>2
<1>4. /\ k1.newest = s
      /\ k1.oldest = IF k.newest = NONE THEN s ELSE k.oldest
      /\ k1.freeList = k.freeList
      /\ k1.newer = [Store(k.newer, k.newest, s) EXCEPT ![s] = NONE]
      /\ k1.older = [k.older EXCEPT ![s] = k.newest]
      /\ k1.node = [k.node EXCEPT ![s] = id] /\ k1.alias = [k.alias EXCEPT ![s] = a]
      /\ k1.idMap = k.idMap \cup {s} /\ k1.aliasMap = k.aliasMap \cup {s}
  BY <1>1 DEF CacheType, Link
<1>5. /\ k1.newer \in [Slots -> PoolIdx]
      /\ \A x \in Slots :
            k1.newer[x] = IF x = s THEN NONE ELSE IF x = k.newest THEN s ELSE k.newer[x]
  <2> DEFINE h == Store(k.newer, k.newest, s)
  <2>1. k.newer \in [Slots -> PoolIdx] /\ k.newest \in PoolIdx /\ NONE \notin Slots
    BY <1>1, SlotFacts DEF CacheType
  <2>2. h \in [Slots -> PoolIdx]
    BY <2>1 DEF Store, PoolIdx
  <2>3. \A x \in Slots : h[x] = IF x = k.newest THEN s ELSE k.newer[x]
    BY <2>1 DEF Store, PoolIdx
  <2>4. k1.newer = [h EXCEPT ![s] = NONE]
    BY <1>4
  <2> HIDE DEF h
  <2>5. k1.newer \in [Slots -> PoolIdx]
    BY <2>2, <2>4 DEF PoolIdx
  <2>6. \A x \in Slots : k1.newer[x] = IF x = s THEN NONE ELSE h[x]
    BY <2>2, <2>4
  <2> QED BY <2>3, <2>5, <2>6
<1>6. /\ k1.older \in [Slots -> PoolIdx]
      /\ \A x \in Slots : k1.older[x] = IF x = s THEN k.newest ELSE k.older[x]
  BY <1>1, <1>4 DEF CacheType, PoolIdx
<1>7. /\ k1.node \in [Slots -> Ids \cup {0}]
      /\ \A x \in Slots : k1.node[x] = IF x = s THEN id ELSE k.node[x]
  BY <1>1, <1>3, <1>4 DEF CacheType
<1>8. /\ k1.alias \in [Slots -> Nat]
      /\ \A x \in Slots : k1.alias[x] = IF x = s THEN a ELSE k.alias[x]
  BY <1>1, <1>3, <1>4 DEF CacheType
<1>9. k1 \in CacheType
  <2>1. /\ DOMAIN k1 = {"node", "alias", "newer", "older", "aliasMap", "idMap", "oldest",
                        "newest", "freeList"}
        /\ k1 = [x \in DOMAIN k1 |-> k1[x]]
    BY <1>1 DEF CacheType, Link
  <2>2. /\ k1.newest \in PoolIdx /\ k1.oldest \in PoolIdx
        /\ k1.freeList \in PoolIdx
        /\ k1.aliasMap \in SUBSET Slots /\ k1.idMap \in SUBSET Slots
    BY <1>1, <1>4 DEF CacheType, PoolIdx
  <2> QED BY <2>1, <2>2, <1>5, <1>6, <1>7, <1>8 DEF CacheType
<1>10. w \in Seq(Slots)
  BY <1>1, PushIsSeq
<1>11. Len(w) = n + 1
  BY <1>1, <1>n, PushFacts
<1>12. w[1] = s
  BY <1>1, PushFacts
<1>13. \A i \in 1..n : w[i + 1] = u[i]
  BY <1>1, <1>n, PushFacts
<1>14. OneToOne(w)
  BY <1>1, <1>2, PushFacts
<1>15. Ran(w) = Ran(u) \cup {s}
  BY <1>1, PushFacts
<1>16. \A i \in 1..n : u[i] \in Slots /\ u[i] # s
  BY <1>1, <1>2, <1>n DEF Ran
<1>17. /\ n = 0 => k.newest = NONE /\ k.oldest = NONE
       /\ n > 0 => k.newest = u[1] /\ k.oldest = u[n] /\ k.older[u[n]] = NONE
  BY <1>n DEF Sound, Lists, Chain, Back
<1>18. Chain(k1.newest, k1.older, w)
  <2>1. Len(w) > 0 /\ k1.newest = w[1]
    BY <1>4, <1>11, <1>12
  <2>2. k1.older[w[Len(w)]] = NONE
    <3>1. CASE n = 0
      BY <3>1, <1>6, <1>11, <1>12, <1>17
    <3>2. CASE n > 0
      <4>1. n \in 1..n
        BY <3>2
      <4> QED BY <3>2, <4>1, <1>6, <1>11, <1>13, <1>16, <1>17
    <3> QED BY <3>1, <3>2
  <2>3. ASSUME NEW i \in 1..(Len(w) - 1) PROVE k1.older[w[i]] = w[i + 1]
    <3>1. i \in 1..n
      BY <1>11
    <3>2. CASE i = 1
      BY <3>1, <3>2, <1>6, <1>12, <1>13, <1>17
    <3>3. CASE i > 1
      <4>1. i - 1 \in 1..n /\ (i - 1) + 1 = i /\ i - 1 \in 1..(n - 1)
        BY <3>1, <3>3
      <4>2. k.older[u[i - 1]] = u[i]
        BY <4>1, <1>n DEF Sound, Lists, Chain
      <4>3. w[i] = u[i - 1]
        BY <4>1, <1>13
      <4> QED BY <3>1, <4>1, <4>2, <4>3, <1>6, <1>13, <1>16
    <3> QED BY <3>1, <3>2, <3>3
  <2> QED BY <2>1, <2>2, <2>3 DEF Chain
<1>19. Back(k1, w)
  <2>1. k1.oldest = w[Len(w)]
    <3>1. CASE n = 0
      BY <3>1, <1>4, <1>11, <1>12, <1>17
    <3>2. CASE n > 0
      <4>1. n \in 1..n /\ 1 \in 1..n /\ NONE \notin Slots
        BY <3>2, SlotFacts
      <4>2. k.newest # NONE
        BY <3>2, <4>1, <1>16, <1>17
      <4> QED BY <3>2, <4>1, <4>2, <1>4, <1>11, <1>13, <1>17
    <3> QED BY <3>1, <3>2
  <2>2. k1.newer[w[1]] = NONE
    BY <1>5, <1>12
  <2>3. ASSUME NEW i \in 1..(Len(w) - 1) PROVE k1.newer[w[i + 1]] = w[i]
    <3>1. i \in 1..n /\ w[i + 1] = u[i]
      BY <1>11, <1>13
    <3>2. CASE i = 1
      BY <3>1, <3>2, <1>5, <1>12, <1>16, <1>17
    <3>3. CASE i > 1
      <4>1. /\ i - 1 \in 1..n /\ (i - 1) + 1 = i /\ i - 1 \in 1..(n - 1) /\ 1 \in 1..n
            /\ n > 0
        BY <3>1, <3>3
      <4>2. k.newer[u[i]] = u[i - 1]
        BY <4>1, <1>n DEF Sound, Lists, Back
      <4>3. w[i] = u[i - 1]
        BY <4>1, <1>13
      <4>4. u[i] # k.newest
        BY <3>1, <3>3, <4>1, <1>1, <1>n, <1>17 DEF OneToOne
      <4> QED BY <3>1, <4>2, <4>3, <4>4, <1>5, <1>16
    <3> QED BY <3>1, <3>2, <3>3
  <2>4. ~(Len(w) = 0)
    BY <1>11
  <2> QED BY <2>1, <2>2, <2>3, <2>4 DEF Back
<1>20. Chain(k1.freeList, k1.older, f)
  <2>1. \A i \in 1..Len(f) : f[i] \in Slots /\ f[i] # s
    BY <1>1, <1>2, SeqFacts DEF Ran
  <2>2. Len(f) \in Nat
    BY <1>1
  <2> QED BY <2>1, <2>2, <1>4, <1>6 DEF Sound, Lists, Chain
<1>21. Ran(w) \cap Ran(f) = {} /\ Ran(w) \cup Ran(f) = Slots \ {}
  BY <1>1, <1>2, <1>15
<1>22. Lists(k1, w, f, {})
  BY <1>1, <1>10, <1>14, <1>18, <1>19, <1>20, <1>21 DEF Lists
<1>23. k1.node[s] = id /\ k1.alias[s] = a
  BY <1>7, <1>8
<1>24. \A x \in Ran(u) : k1.node[x] = k.node[x] /\ k1.alias[x] = k.alias[x]
  BY <1>2, <1>7, <1>8
<1>25. Keys(k1, w)
  <2>1. k1.idMap = Ran(w) /\ k1.aliasMap = Ran(w)
    BY <1>4, <1>15 DEF Sound, Keys
  <2>2. ASSUME NEW x \in Ran(w), NEW y \in Ran(w),
               k1.node[x] = k1.node[y] \/ k1.alias[x] = k1.alias[y]
        PROVE  x = y
    BY <2>2, <1>15, <1>23, <1>24 DEF Sound, Keys
  <2>3. \A x \in Ran(w) : /\ k1.node[x] \in Ids
                          /\ k1.alias[x] \in Aliases \/ k1.alias[x] = NOT_RESPONDING + x
    BY <1>15, <1>23, <1>24 DEF Sound, Keys
  <2> QED BY <2>1, <2>2, <2>3 DEF Keys
<1> QED BY <1>9, <1>22, <1>25 DEF Sound

\* touch() moves the entry to the newest end of the list.
LEMMA TouchKeeps ==
    ASSUME NEW k, NEW u, NEW f, Sound(k, u, f, {}), NEW j \in 1..Len(u),
           NEW s, s = u[j], NEW k1, k1 = TouchSlot(k, s),
           NEW w, w = Push(s, Drop(u, j))
    PROVE  Sound(k1, w, f, {})
<1>1. /\ Len(u) \in Nat /\ (\A i \in 1..Len(u) : u[i] \in Slots)
      /\ u \in Seq(Slots) /\ f \in Seq(Slots) /\ OneToOne(u) /\ OneToOne(f)
      /\ Ran(u) \cap Ran(f) = {} /\ Ran(u) \cup Ran(f) = Slots
      /\ k \in CacheType /\ Lists(k, u, f, {})
  BY SeqFacts DEF Sound, Lists
<1>n. PICK n \in Nat : n = Len(u) /\ j \in 1..n
  BY <1>1
<1>2. /\ s \in Slots /\ s \notin Ran(f) /\ s \in Ran(u) /\ s = u[j]
  <2>1. s \in Ran(u)
    BY DEF Ran
  <2>2. Ran(u) \cap Ran(f) = {} /\ Ran(u) \cup Ran(f) = Slots
    BY <1>1
  <2> QED BY <2>1, <2>2
<1>3. k.older[s] = IF j = n THEN NONE ELSE u[j + 1]
  BY <1>1, <1>n, Neighbours
<1>4. k.newer[s] = IF j = 1 THEN NONE ELSE u[j - 1]
  BY <1>1, <1>n, Neighbours
<1>5. k.newest = u[1] /\ k.oldest = u[n]
  <2>1. k.newest = u[1]
    BY <1>1, Neighbours
  <2>2. k.oldest = u[Len(u)]
    BY <1>1, Neighbours
  <2> QED BY <2>1, <2>2, <1>n
<1> DEFINE d == Drop(u, j)
<1>6. d \in Seq(Slots)
  BY <1>1, DropIsSeq
<1>7. Len(d) = n - 1
  BY <1>1, <1>n, DropFacts
<1>8. \A i \in 1..(n - 1) : d[i] = IF i < j THEN u[i] ELSE u[i + 1]
  BY <1>1, <1>n, DropFacts
<1>9. OneToOne(d)
  BY <1>1, DropFacts
<1>10. Ran(d) = Ran(u) \ {s}
  BY <1>1, DropFacts
<1> HIDE DEF d
<1>w. w = Push(s, d)
  BY DEF d
<1>11. w \in Seq(Slots)
  BY <1>2, <1>6, <1>w, PushIsSeq
<1>12. Len(w) = n
  <2>1. Len(w) = Len(d) + 1
    BY <1>2, <1>6, <1>w, PushFacts
  <2> QED BY <2>1, <1>7
<1>13. w[1] = s
  BY <1>2, <1>6, <1>w, PushFacts
<1>14. \A i \in 1..n : i > 1 => w[i] = IF i <= j THEN u[i - 1] ELSE u[i]
  <2> SUFFICES ASSUME NEW i \in 1..n, i > 1 PROVE w[i] = IF i <= j THEN u[i - 1] ELSE u[i]
    OBVIOUS
  <2>a. \A m \in 1..Len(d) : w[m + 1] = d[m]
    BY <1>2, <1>6, <1>w, PushFacts
  <2>1. \A m \in 1..(n - 1) : w[m + 1] = d[m]
    BY <2>a, <1>7
  <2>2. i - 1 \in 1..(n - 1) /\ (i - 1) + 1 = i /\ (i - 1 < j <=> i <= j)
    BY <1>n
  <2> QED BY <2>1, <2>2, <1>8
<1>15. OneToOne(w)
  BY <1>2, <1>6, <1>9, <1>10, <1>w, PushFacts
<1>16. Ran(w) = Ran(u)
  <2>1. Ran(w) = Ran(d) \cup {s}
    BY <1>2, <1>6, <1>w, PushFacts
  <2> QED BY <2>1, <1>2, <1>10
<1>17. \A i \in 1..n : u[i] \in Slots
  BY <1>1, <1>n
<1>18. \A i, m \in 1..n : u[i] = u[m] => i = m
  BY <1>1, <1>n DEF OneToOne
<1>19. CASE j = 1
  <2>1. s = k.newest
    BY <1>19, <1>2, <1>5
  <2>2. k1 = k
    BY <2>1 DEF TouchSlot
  <2>3. \A i \in 1..n : w[i] = u[i]
    <3> TAKE i \in 1..n
    <3>1. CASE i = 1
      BY <3>1, <1>2, <1>13, <1>19
    <3>2. CASE i > 1
      BY <3>2, <1>14, <1>19
    <3> QED BY <3>1, <3>2
  <2>4. w = u
    BY <2>3, <1>n, <1>1, <1>11, <1>12, SeqEqual
  <2> QED BY <2>2, <2>4
<1>20. CASE j > 1
  <2>0. n > 1 /\ 1 \in 1..n /\ j - 1 \in 1..n /\ n \in 1..n /\ n - 1 \in 1..n
    BY <1>n, <1>20
  <2>1. /\ s # k.newest /\ k.newest \in Slots /\ k.newer[s] \in Slots
        /\ k.newer[s] = u[j - 1] /\ k.newest = u[1]
    BY <1>n, <1>20, <2>0, <1>2, <1>4, <1>5, <1>17, <1>18
  <2>2. /\ k1.newest = s
        /\ k1.oldest = IF k.oldest = s THEN k.newer[s] ELSE k.oldest
        /\ k1.freeList = k.freeList
        /\ k1.newer = [Store(k.newer, k.older[s], k.newer[s]) EXCEPT
                           ![s] = NONE, ![k.newest] = s]
        /\ k1.older = [k.older EXCEPT ![k.newer[s]] = k.older[s], ![s] = k.newest]
        /\ k1.node = k.node /\ k1.alias = k.alias
        /\ k1.idMap = k.idMap /\ k1.aliasMap = k.aliasMap
    BY <2>1, <1>1 DEF CacheType, TouchSlot
  <2>a. /\ k.newer \in [Slots -> PoolIdx] /\ k.older \in [Slots -> PoolIdx]
        /\ k.older[s] \in PoolIdx /\ k.newer[s] \in PoolIdx /\ k.newest \in PoolIdx
        /\ s \in PoolIdx /\ NONE \in PoolIdx /\ NONE \notin Slots
    BY <1>1, <1>2, SlotFacts DEF CacheType, PoolIdx
  <2>3. /\ k1.newer \in [Slots -> PoolIdx]
        /\ \A x \in Slots :
              k1.newer[x] = IF x = k.newest THEN s ELSE IF x = s THEN NONE
                            ELSE IF x = k.older[s] THEN k.newer[s] ELSE k.newer[x]
    <3> DEFINE g == Store(k.newer, k.older[s], k.newer[s])
    <3>1. g \in [Slots -> PoolIdx]
      BY <2>a DEF Store
    <3>2. \A x \in Slots : g[x] = IF x = k.older[s] THEN k.newer[s] ELSE k.newer[x]
      BY <2>a DEF Store, PoolIdx
    <3>3. k1.newer = [g EXCEPT ![s] = NONE, ![k.newest] = s]
      BY <2>2
    <3> HIDE DEF g
    <3> DEFINE h == [g EXCEPT ![s] = NONE]
    <3>4. h \in [Slots -> PoolIdx] /\ \A x \in Slots : h[x] = IF x = s THEN NONE ELSE g[x]
      BY <3>1, <2>a, <1>2
    <3>5. k1.newer = [h EXCEPT ![k.newest] = s]
      BY <3>3
    <3> HIDE DEF h
    <3>6. k1.newer \in [Slots -> PoolIdx]
      BY <3>4, <3>5, <2>a, <2>1
    <3>7. \A x \in Slots : k1.newer[x] = IF x = k.newest THEN s ELSE h[x]
      BY <3>4, <3>5, <2>1
    <3> QED BY <3>2, <3>4, <3>6, <3>7
  <2>4. /\ k1.older \in [Slots -> PoolIdx]
        /\ \A x \in Slots :
              k1.older[x] = IF x = s THEN k.newest ELSE IF x = k.newer[s] THEN k.older[s]
                            ELSE k.older[x]
    <3> DEFINE h == [k.older EXCEPT ![k.newer[s]] = k.older[s]]
    <3>1. h \in [Slots -> PoolIdx]
          /\ \A x \in Slots : h[x] = IF x = k.newer[s] THEN k.older[s] ELSE k.older[x]
      BY <2>a, <2>1
    <3>2. k1.older = [h EXCEPT ![s] = k.newest]
      BY <2>2
    <3> HIDE DEF h
    <3>3. k1.older \in [Slots -> PoolIdx]
      BY <3>1, <3>2, <2>a, <1>2
    <3>4. \A x \in Slots : k1.older[x] = IF x = s THEN k.newest ELSE h[x]
      BY <3>1, <3>2, <1>2
    <3> QED BY <3>1, <3>3, <3>4
  <2>5. k1 \in CacheType
    <3>1. /\ DOMAIN k1 = {"node", "alias", "newer", "older", "aliasMap", "idMap", "oldest",
                          "newest", "freeList"}
          /\ k1 = [x \in DOMAIN k1 |-> k1[x]]
      BY <2>1, <1>1 DEF CacheType, TouchSlot
    <3>2. /\ k1.newest \in PoolIdx /\ k1.oldest \in PoolIdx
          /\ k1.freeList \in PoolIdx
          /\ k1.aliasMap \in SUBSET Slots /\ k1.idMap \in SUBSET Slots
          /\ k1.node \in [Slots -> Ids \cup {0}] /\ k1.alias \in [Slots -> Nat]
      BY <1>1, <1>2, <2>1, <2>2 DEF CacheType, PoolIdx
    <3> QED BY <3>1, <3>2, <2>3, <2>4 DEF CacheType
  <2>6. \A i \in 1..n : /\ u[i] = s <=> i = j
                        /\ u[i] = k.newer[s] <=> i = j - 1
                        /\ u[i] = k.newest <=> i = 1
                        /\ u[i] = k.older[s] <=> i = j + 1
    <3> TAKE i \in 1..n
    <3>1. /\ u[i] = s <=> i = j
          /\ u[i] = k.newer[s] <=> i = j - 1
          /\ u[i] = k.newest <=> i = 1
      BY <1>n, <1>2, <1>18, <2>0, <2>1
    <3>2. CASE j = n
      <4>1. u[i] # NONE /\ i # j + 1
        BY <3>2, <1>17, SlotFacts
      <4> QED BY <3>1, <3>2, <4>1, <1>3
    <3>3. CASE j < n
      <4>1. j + 1 \in 1..n /\ k.older[s] = u[j + 1]
        BY <3>3, <1>n, <1>3
      <4> QED BY <3>1, <4>1, <1>18
    <3> QED BY <3>2, <3>3, <1>n
  <2>7. \A i \in 1..(n - 1) : k.older[u[i]] = u[i + 1] /\ k.newer[u[i + 1]] = u[i]
    BY <1>n, <1>1 DEF Lists, Chain, Back
  <2>8. k.older[u[n]] = NONE
    BY <1>n, <2>0, <1>1 DEF Lists, Chain
  <2>9. Chain(k1.newest, k1.older, w)
    <3>1. Len(w) > 0 /\ k1.newest = w[1]
      BY <2>0, <2>2, <1>12, <1>13
    <3>2. k1.older[w[Len(w)]] = NONE
      <4>1. CASE j = n
        <5>1. w[n] = u[n - 1] /\ u[n - 1] = k.newer[s] /\ u[n - 1] # s
          BY <4>1, <2>0, <1>14, <2>6
        <5> QED BY <4>1, <5>1, <1>3, <1>12, <2>1, <2>4
      <4>2. CASE j < n
        <5>1. w[n] = u[n] /\ u[n] # k.newer[s] /\ u[n] # s
          BY <4>2, <2>0, <1>n, <1>14, <2>6
        <5> QED BY <5>1, <1>12, <1>17, <2>0, <2>4, <2>8
      <4> QED BY <4>1, <4>2, <1>n
    <3>3. ASSUME NEW i \in 1..(Len(w) - 1) PROVE k1.older[w[i]] = w[i + 1]
      <4>0. i \in 1..(n - 1) /\ i \in 1..n /\ i + 1 \in 1..n /\ i + 1 > 1 /\ (i + 1) - 1 = i
        BY <1>12
      <4>1. CASE i = 1
        BY <4>0, <4>1, <1>n, <1>2, <1>13, <1>14, <1>20, <2>1, <2>4
      <4>2. CASE i > 1 /\ i < j
        <5>1. i - 1 \in 1..n /\ i - 1 # j /\ i - 1 # j - 1 /\ i - 1 \in 1..(n - 1)
              /\ (i - 1) + 1 = i /\ i + 1 <= j
          BY <4>0, <4>2, <1>n
        <5>2. w[i] = u[i - 1] /\ w[i + 1] = u[i]
          BY <4>0, <4>2, <5>1, <1>14
        <5>3. u[i - 1] # s /\ u[i - 1] # k.newer[s] /\ u[i - 1] \in Slots
          BY <5>1, <2>6, <1>17
        <5>4. k.older[u[i - 1]] = u[i]
          BY <5>1, <2>7
        <5> QED BY <5>2, <5>3, <5>4, <2>4
      <4>3. CASE i = j
        <5>1. w[i] = u[j - 1] /\ w[i + 1] = u[j + 1] /\ j - 1 # j
          BY <4>0, <4>3, <1>n, <1>14, <1>20
        <5>2. w[i] = k.newer[s] /\ w[i] # s /\ k.older[s] = u[j + 1]
          BY <4>0, <4>3, <5>1, <1>3, <2>0, <2>1, <2>6
        <5> QED BY <5>1, <5>2, <2>1, <2>4
      <4>4. CASE i > j
        <5>0. i > 1 /\ i + 1 > 1 /\ ~(i <= j) /\ ~(i + 1 <= j) /\ i # j /\ i # j - 1
          BY <4>0, <4>4, <1>n, <1>20
        <5>1. w[i] = u[i] /\ w[i + 1] = u[i + 1]
          BY <4>0, <5>0, <1>14
        <5> QED BY <4>0, <5>0, <5>1, <1>17, <2>4, <2>6, <2>7
      <4>5. i \in Nat /\ j \in Nat /\ i >= 1
        BY <4>0, <1>n
      <4>6. i = 1 \/ (i > 1 /\ i < j) \/ i = j \/ i > j
        BY <4>5
      <4> QED BY <4>1, <4>2, <4>3, <4>4, <4>6
    <3>4. ~(Len(w) = 0)
      BY <3>1, <2>0, <1>12
    <3> QED BY <3>1, <3>2, <3>3, <3>4 DEF Chain
  <2>10. Back(k1, w)
    <3>1. k1.oldest = w[Len(w)]
      <4>1. CASE j = n
        BY <4>1, <2>0, <1>2, <1>5, <1>12, <1>14, <2>1, <2>2
      <4>2. CASE j < n
        <5>1. w[n] = u[n] /\ u[n] # s
          BY <4>2, <2>0, <1>n, <1>14, <2>6
        <5> QED BY <5>1, <1>5, <1>12, <2>2
      <4> QED BY <4>1, <4>2, <1>n
    <3>2. k1.newer[w[1]] = NONE
      BY <1>2, <1>13, <2>1, <2>3
    <3>3. ASSUME NEW i \in 1..(Len(w) - 1) PROVE k1.newer[w[i + 1]] = w[i]
      <4>0. i \in 1..(n - 1) /\ i \in 1..n /\ i + 1 \in 1..n /\ i + 1 > 1 /\ (i + 1) - 1 = i
        BY <1>12
      <4>1. CASE i = 1
        <5>1. w[2] = u[1]
          BY <4>0, <4>1, <1>n, <1>14, <1>20
        <5> QED BY <4>1, <5>1, <1>13, <2>1, <2>3
      <4>2. CASE i > 1 /\ i < j
        <5>1. /\ i - 1 \in 1..(n - 1) /\ (i - 1) + 1 = i /\ i + 1 <= j
              /\ i # j /\ i # j + 1 /\ i # 1
          BY <4>0, <4>2, <1>n
        <5>2. w[i] = u[i - 1] /\ w[i + 1] = u[i]
          BY <4>0, <4>2, <5>1, <1>14
        <5>3. u[i] # s /\ u[i] # k.newest /\ u[i] # k.older[s] /\ u[i] \in Slots
          BY <4>0, <5>1, <2>6, <1>17
        <5>4. k.newer[u[i]] = u[i - 1]
          BY <5>1, <2>7
        <5> QED BY <5>2, <5>3, <5>4, <2>3
      <4>3. CASE i = j
        <5>1. w[i] = u[j - 1] /\ w[i + 1] = u[j + 1] /\ j + 1 # j /\ j + 1 # 1
          BY <4>0, <4>3, <1>n, <1>14, <1>20
        <5>2. /\ u[j + 1] # s /\ u[j + 1] # k.newest
              /\ u[j + 1] = k.older[s] /\ u[j + 1] \in Slots
          BY <4>0, <4>3, <5>1, <1>17, <2>6
        <5> QED BY <5>1, <5>2, <2>1, <2>3
      <4>4. CASE i > j
        <5>0. /\ i > 1 /\ i + 1 > 1 /\ ~(i <= j) /\ ~(i + 1 <= j)
              /\ i + 1 # j /\ i + 1 # j + 1 /\ i + 1 # 1
          BY <4>0, <4>4, <1>n, <1>20
        <5>1. w[i] = u[i] /\ w[i + 1] = u[i + 1]
          BY <4>0, <5>0, <1>14
        <5>2. u[i + 1] # s /\ u[i + 1] # k.newest /\ u[i + 1] # k.older[s]
          BY <4>0, <5>0, <2>6
        <5>3. k1.newer[u[i + 1]] = k.newer[u[i + 1]]
          BY <4>0, <5>2, <1>17, <2>3
        <5> QED BY <4>0, <5>1, <5>3, <2>7
      <4>5. i \in Nat /\ j \in Nat /\ i >= 1
        BY <4>0, <1>n
      <4>6. i = 1 \/ (i > 1 /\ i < j) \/ i = j \/ i > j
        BY <4>5
      <4> QED BY <4>1, <4>2, <4>3, <4>4, <4>6
    <3>4. ~(Len(w) = 0)
      BY <3>1, <2>0, <1>12
    <3> QED BY <3>1, <3>2, <3>3, <3>4 DEF Back
  <2>11. Chain(k1.freeList, k1.older, f)
    <3>1. \A i \in 1..Len(f) : f[i] \in Slots /\ f[i] # s /\ f[i] # k.newer[s]
      <4> TAKE i \in 1..Len(f)
      <4>1. f[i] \in Ran(f) /\ f[i] \in Slots
        BY <1>1, SeqFacts DEF Ran
      <4>2. k.newer[s] \in Ran(u)
        BY <1>n, <2>0, <2>1 DEF Ran
      <4> QED BY <4>1, <4>2, <1>1, <1>2
    <3>2. PICK m \in Nat : m = Len(f)
      BY <1>1, SeqFacts
    <3>3. \A i \in 1..m : k1.older[f[i]] = k.older[f[i]]
      BY <3>1, <3>2, <2>4
    <3>4. /\ m = 0 => k.freeList = NONE
          /\ m > 0 => k.freeList = f[1] /\ k.older[f[m]] = NONE
          /\ \A i \in 1..(m - 1) : k.older[f[i]] = f[i + 1]
      BY <3>2, <1>1 DEF Lists, Chain
    <3>5. m > 0 => k1.freeList = f[1] /\ k1.older[f[m]] = NONE
      BY <3>3, <3>4, <2>2
    <3>6. \A i \in 1..(m - 1) : k1.older[f[i]] = f[i + 1]
      <4> TAKE i \in 1..(m - 1)
      <4>1. i \in 1..m
        BY <3>2
      <4> QED BY <4>1, <3>3, <3>4
    <3>7. m = 0 => k1.freeList = NONE
      BY <3>4, <2>2
    <3> QED BY <3>2, <3>5, <3>6, <3>7 DEF Chain
  <2>12. Lists(k1, w, f, {})
    BY <1>1, <1>11, <1>15, <1>16, <2>9, <2>10, <2>11 DEF Lists
  <2>13. Keys(k1, w)
    BY <1>16, <2>2 DEF Sound, Keys
  <2> QED BY <2>2, <2>5, <2>12, <2>13 DEF Sound
<1> QED BY <1>19, <1>20, <1>n

\* clear()
LEMMA ClearedIsSound ==
    ASSUME NEW nodes \in [Slots -> Ids \cup {0}], NEW aliases \in [Slots -> Nat]
    PROVE  \E f : Sound(Cleared(nodes, aliases), << >>, f, {})
<1> DEFINE k == Cleared(nodes, aliases)
           f == [i \in 1..Entries |-> Entries - i]
<1>1. f \in Seq(Slots) /\ Len(f) = Entries
  <2>1. f \in [1..Entries -> Slots]
    BY SlotFacts DEF Slots
  <2> QED BY <2>1, SlotFacts, IsASeq
<1>2. OneToOne(f)
  BY <1>1, SlotFacts DEF OneToOne
<1>3. Ran(f) = Slots
  <2>1. ASSUME NEW x \in Slots PROVE x \in Ran(f)
    <3>1. Entries - x \in 1..Entries /\ Entries - (Entries - x) = x
      BY SlotFacts DEF Slots
    <3>2. f[Entries - x] = x
      BY <3>1
    <3> QED BY <3>1, <3>2, <1>1 DEF Ran
  <2>2. Ran(f) \subseteq Slots
    BY <1>1, SeqFacts
  <2> QED BY <2>1, <2>2
<1>4. k \in CacheType
  BY SlotFacts DEF Cleared, CacheType, PoolIdx, Slots, NONE
<1>5. Chain(k.freeList, k.older, f)
  <2>1. Len(f) > 0 /\ k.freeList = f[1] /\ k.older[f[Len(f)]] = NONE
    BY <1>1, SlotFacts DEF Cleared, Slots, NONE
  <2>2. ASSUME NEW i \in 1..(Len(f) - 1) PROVE k.older[f[i]] = f[i + 1]
    <3>1. i \in 1..Entries /\ i + 1 \in 1..Entries /\ Entries - i \in Slots
          /\ Entries - i - 1 = Entries - (i + 1)
      BY <1>1, SlotFacts DEF Slots
    <3>2. f[i] = Entries - i /\ f[i + 1] = Entries - (i + 1)
      BY <3>1
    <3>3. \A x \in Slots : k.older[x] = x - 1
      BY DEF Cleared
    <3> HIDE DEF k, f
    <3>4. k.older[Entries - i] = Entries - i - 1
      BY <3>1, <3>3
    <3> QED BY <3>1, <3>2, <3>4
  <2>3. ~(Len(f) = 0)
    BY <1>1, SlotFacts
  <2> HIDE DEF k, f
  <2> QED BY <2>1, <2>2, <2>3 DEF Chain
<1> DEFINE u == << >>
<1>6. u \in Seq(Slots) /\ Len(u) = 0 /\ Ran(u) = {} /\ OneToOne(u)
  BY DEF Ran, OneToOne
<1>7. Chain(k.newest, k.older, u) /\ Back(k, u)
  BY <1>6 DEF Cleared, Chain, Back
<1>8. Keys(k, u)
  BY <1>6 DEF Cleared, Keys
<1> HIDE DEF k, f, u
<1>9. Lists(k, u, f, {})
  BY <1>1, <1>2, <1>3, <1>5, <1>6, <1>7 DEF Lists
<1> QED BY <1>4, <1>8, <1>9 DEF Sound, k, u

\* The mapping in a slot, and the list of mappings a list of slots stands for.
Mapped(k, s) == [id |-> k.node[s], alias |-> Resolve(k.alias[s])]
ListOf(k, u) == [i \in 1..Len(u) |-> Mapped(k, u[i])]

\* x comes before y on the list u.
Before(u, x, y) == \E i, j \in 1..Len(u) : i < j /\ u[i] = x /\ u[j] = y

\* v is u without the slots in G, in the same order and with the same keys.
Thinned(k, u, k1, v, G) ==
    /\ G \subseteq Ran(u) /\ Ran(v) = Ran(u) \ G
    /\ \A s \in Ran(v) : k1.node[s] = k.node[s] /\ k1.alias[s] = k.alias[s]
    /\ \A x, y \in Ran(v) : Before(v, x, y) <=> Before(u, x, y)

\* Leaving out the slots in G, and those in H after that.
LEMMA ThinnedTwice ==
    ASSUME NEW k, NEW u, NEW k1, NEW v, NEW k2, NEW w, NEW G, NEW H,
           Thinned(k, u, k1, v, G), Thinned(k1, v, k2, w, H)
    PROVE  Thinned(k, u, k2, w, G \cup H)
<1>1. Ran(v) = Ran(u) \ G /\ Ran(w) = Ran(v) \ H /\ G \subseteq Ran(u) /\ H \subseteq Ran(v)
  BY DEF Thinned
<1>2. Ran(w) \subseteq Ran(v) /\ Ran(w) = Ran(u) \ (G \cup H) /\ G \cup H \subseteq Ran(u)
  BY <1>1
<1>3. \A s \in Ran(w) : k2.node[s] = k.node[s] /\ k2.alias[s] = k.alias[s]
  BY <1>2 DEF Thinned
<1>4. \A x, y \in Ran(w) : Before(w, x, y) <=> Before(u, x, y)
  BY <1>2 DEF Thinned
<1> QED BY <1>2, <1>3, <1>4 DEF Thinned

\* Leaving out none.
LEMMA ThinnedNot ==
    ASSUME NEW k, NEW u PROVE Thinned(k, u, k, u, {})
BY DEF Thinned

\* Dropping an element keeps the order of the others.
LEMMA DropOrder ==
    ASSUME NEW S, NEW u \in Seq(S), OneToOne(u), NEW j \in 1..Len(u), NEW v, v = Drop(u, j)
    PROVE  \A x, y \in Ran(v) : Before(v, x, y) <=> Before(u, x, y)
<1>n. PICK n \in Nat : n = Len(u) /\ j \in 1..n
  BY SeqFacts
<1>1. Len(v) = Len(u) - 1
  BY DropFacts
<1>2. \A i \in 1..(Len(u) - 1) : v[i] = IF i < j THEN u[i] ELSE u[i + 1]
  BY DropFacts
<1>3. Ran(v) = Ran(u) \ {u[j]}
  BY DropFacts
<1>4. TAKE x, y \in Ran(v)
<1>5. ASSUME Before(v, x, y) PROVE Before(u, x, y)
  <2>1. PICK p, q \in 1..(n - 1) : p < q /\ v[p] = x /\ v[q] = y
    BY <1>1, <1>5, <1>n DEF Before
  <2> DEFINE P == IF p < j THEN p ELSE p + 1
             Q == IF q < j THEN q ELSE q + 1
  <2>2. P \in 1..n /\ Q \in 1..n /\ P < Q
    BY <1>n, <2>1
  <2>3. u[P] = x /\ u[Q] = y
    BY <1>2, <1>n, <2>1
  <2> HIDE DEF P, Q
  <2> QED BY <2>2, <2>3, <1>n DEF Before
<1>6. ASSUME Before(u, x, y) PROVE Before(v, x, y)
  <2>1. PICK p, q \in 1..n : p < q /\ u[p] = x /\ u[q] = y
    BY <1>6, <1>n DEF Before
  <2>2. p # j /\ q # j
    BY <1>3, <2>1
  <2> DEFINE P == IF p < j THEN p ELSE p - 1
             Q == IF q < j THEN q ELSE q - 1
  <2>3. P \in 1..(n - 1) /\ Q \in 1..(n - 1) /\ P < Q
    BY <1>n, <2>1, <2>2
  <2>4. (IF P < j THEN P ELSE P + 1) = p /\ (IF Q < j THEN Q ELSE Q + 1) = q
    BY <1>n, <2>1, <2>2
  <2>5. /\ (P < j => P = p) /\ (~(P < j) => P + 1 = p)
        /\ (Q < j => Q = q) /\ (~(Q < j) => Q + 1 = q)
    BY <1>n, <2>1, <2>2
  <2> HIDE DEF P, Q
  <2>6. v[P] = x /\ v[Q] = y
    BY <1>2, <1>n, <2>1, <2>3, <2>5
  <2> QED BY <1>1, <1>n, <2>3, <2>6 DEF Before
<1> QED BY <1>5, <1>6

\* A pushed element comes before the others, which keep their order.
LEMMA PushOrder ==
    ASSUME NEW S, NEW u \in Seq(S), NEW s \in S, s \notin Ran(u), NEW w, w = Push(s, u)
    PROVE  \A x, y \in Ran(w) : Before(w, x, y) <=>
               y \in Ran(u) /\ (x = s \/ Before(u, x, y))
<1>n. PICK n \in Nat : n = Len(u)
  BY SeqFacts
<1>1. Len(w) = Len(u) + 1
  BY PushFacts
<1>2. w[1] = s
  BY PushFacts
<1>3. \A i \in 1..Len(u) : w[i + 1] = u[i]
  BY PushFacts
<1>4. Ran(w) = Ran(u) \cup {s}
  BY PushFacts
<1>5. TAKE x, y \in Ran(w)
<1>6. ASSUME Before(w, x, y) PROVE y \in Ran(u) /\ (x = s \/ Before(u, x, y))
  <2>1. PICK p, q \in 1..(n + 1) : p < q /\ w[p] = x /\ w[q] = y
    BY <1>1, <1>6, <1>n DEF Before
  <2>2. q - 1 \in 1..n /\ (q - 1) + 1 = q
    BY <1>n, <2>1
  <2>3. u[q - 1] = y
    BY <1>3, <1>n, <2>1, <2>2
  <2>4. y \in Ran(u)
    BY <1>n, <2>2, <2>3 DEF Ran
  <2>5. CASE p = 1
    BY <1>2, <2>1, <2>4, <2>5
  <2>6. CASE p > 1
    <3>1. p - 1 \in 1..n /\ (p - 1) + 1 = p /\ p - 1 < q - 1
      BY <1>n, <2>1, <2>6
    <3>2. u[p - 1] = x
      BY <1>3, <1>n, <2>1, <3>1
    <3>3. Before(u, x, y)
      BY <1>n, <2>2, <2>3, <3>1, <3>2 DEF Before
    <3> QED BY <2>4, <3>3
  <2> QED BY <1>n, <2>1, <2>5, <2>6
<1>7. ASSUME y \in Ran(u), x = s PROVE Before(w, x, y)
  <2>1. PICK q \in 1..n : u[q] = y
    BY <1>7, <1>n DEF Ran
  <2>2. w[q + 1] = y /\ q + 1 \in 1..(n + 1) /\ 1 \in 1..(n + 1) /\ 1 < q + 1
    BY <1>3, <1>n, <2>1
  <2> QED BY <1>1, <1>2, <1>7, <1>n, <2>2 DEF Before
<1>8. ASSUME Before(u, x, y) PROVE Before(w, x, y)
  <2>1. PICK p, q \in 1..n : p < q /\ u[p] = x /\ u[q] = y
    BY <1>8, <1>n DEF Before
  <2>2. /\ w[p + 1] = x /\ w[q + 1] = y
        /\ p + 1 \in 1..(n + 1) /\ q + 1 \in 1..(n + 1) /\ p + 1 < q + 1
    BY <1>3, <1>n, <2>1
  <2> QED BY <1>1, <1>n, <2>2 DEF Before
<1> QED BY <1>6, <1>7, <1>8

\* Reading the LRU list of slots as the list of mappings.
LEMMA ListOfFacts ==
    ASSUME NEW k, NEW u, NEW f, NEW X, Sound(k, u, f, X)
    PROVE  /\ ListOf(k, u) \in Seq(Map!Mapping) /\ Len(ListOf(k, u)) = Len(u)
           /\ \A i \in 1..Len(u) : ListOf(k, u)[i] = Mapped(k, u[i])
           /\ \A s \in Ran(u) : Mapped(k, s) \in Map!Mapping
           /\ \A s, t \in Ran(u) : Mapped(k, s) = Mapped(k, t) => s = t
           /\ Map!Mappings(ListOf(k, u)) = {Mapped(k, s) : s \in Ran(u)}
<1>1. /\ u \in Seq(Slots) /\ Len(u) \in Nat /\ Keys(k, u) /\ Ran(u) \subseteq Slots
  BY SeqFacts DEF Sound, Lists
<1>2. \A s \in Ran(u) : Mapped(k, s) \in Map!Mapping
  <2> TAKE s \in Ran(u)
  <2>1. s \in Nat /\ k.node[s] \in Ids
        /\ (k.alias[s] \in Aliases \/ k.alias[s] = NOT_RESPONDING + s)
    BY <1>1, SlotFacts DEF Keys
  <2>2. Resolve(k.alias[s]) \in Aliases \cup {NOT_RESPONDING}
    BY <2>1, CacheAssumption DEF CacheAssumption, Resolve
  <2> QED BY <2>1, <2>2 DEF Mapped, Map!Mapping
<1>3. \A s, t \in Ran(u) : Mapped(k, s) = Mapped(k, t) => s = t
  <2> TAKE s, t \in Ran(u)
  <2>1. Mapped(k, s) = Mapped(k, t) => k.node[s] = k.node[t]
    BY DEF Mapped
  <2> QED BY <1>1, <2>1 DEF Keys
<1>4. \A i \in 1..Len(u) : u[i] \in Ran(u)
  BY DEF Ran
<1>5. ListOf(k, u) \in [1..Len(u) -> Map!Mapping]
  BY <1>2, <1>4 DEF ListOf
<1>6. ListOf(k, u) \in Seq(Map!Mapping) /\ Len(ListOf(k, u)) = Len(u)
  BY <1>1, <1>5, IsASeq
<1>7. \A i \in 1..Len(u) : ListOf(k, u)[i] = Mapped(k, u[i])
  BY DEF ListOf
<1>8. Map!Mappings(ListOf(k, u)) = {Mapped(k, s) : s \in Ran(u)}
  BY <1>6, <1>7 DEF Map!Mappings, Ran
<1> QED BY <1>2, <1>3, <1>6, <1>7, <1>8

\* The order of the mappings is the order of the slots.
LEMMA ListOrder ==
    ASSUME NEW k, NEW u, NEW f, NEW X, Sound(k, u, f, X),
           NEW s \in Ran(u), NEW t \in Ran(u)
    PROVE  Map!Ahead(ListOf(k, u), Mapped(k, s), Mapped(k, t)) <=> Before(u, s, t)
<1>1. Len(ListOf(k, u)) = Len(u)
  BY ListOfFacts
<1>2. \A i \in 1..Len(u) : ListOf(k, u)[i] = Mapped(k, u[i])
  BY ListOfFacts
<1>3. \A x, y \in Ran(u) : Mapped(k, x) = Mapped(k, y) => x = y
  BY ListOfFacts
<1>4. \A i \in 1..Len(u) : u[i] \in Ran(u)
  BY DEF Ran
<1>5. \A i \in 1..Len(u) : /\ ListOf(k, u)[i] = Mapped(k, s) <=> u[i] = s
                           /\ ListOf(k, u)[i] = Mapped(k, t) <=> u[i] = t
  BY <1>2, <1>3, <1>4
<1> QED BY <1>1, <1>5 DEF Map!Ahead, Before

\* The slots in G leave, those in F come first.
Rearranged(k, u, k1, w, F, G) ==
    /\ G \subseteq Ran(u) /\ Ran(w) = F \cup (Ran(u) \ G) /\ F \cap (Ran(u) \ G) = {}
    /\ \A s \in Ran(u) \ G : k1.node[s] = k.node[s] /\ k1.alias[s] = k.alias[s]
    /\ \A x, y \in Ran(w) :
          Before(w, x, y) <=> y \in Ran(u) \ G /\ (x \in F \/ Before(u, x, y))

\* Leaving slots out is a rearrangement with nothing new in front.
LEMMA ThinnedIsRearranged ==
    ASSUME NEW k, NEW u, NEW k1, NEW v, NEW G, Thinned(k, u, k1, v, G)
    PROVE  Rearranged(k, u, k1, v, {}, G)
<1>1. \A x, y \in Ran(v) : Before(v, x, y) <=> Before(u, x, y)
  BY DEF Thinned
<1>2. Ran(v) = Ran(u) \ G /\ G \subseteq Ran(u)
  BY DEF Thinned
<1>3. \A s \in Ran(u) \ G : k1.node[s] = k.node[s] /\ k1.alias[s] = k.alias[s]
  BY <1>2 DEF Thinned
<1> QED BY <1>1, <1>2, <1>3 DEF Rearranged

\* A slot pushed on the list that is left.
LEMMA PushRearranges ==
    ASSUME NEW k, NEW u, NEW k1, NEW v \in Seq(Slots), NEW G, Thinned(k, u, k1, v, G),
           NEW s \in Slots, s \notin Ran(v), NEW w, w = Push(s, v), NEW k2,
           \A x \in Ran(v) : k2.node[x] = k1.node[x] /\ k2.alias[x] = k1.alias[x]
    PROVE  Rearranged(k, u, k2, w, {s}, G)
<1>1. \A x, y \in Ran(v) : Before(v, x, y) <=> Before(u, x, y)
  BY DEF Thinned
<1>2. Ran(v) = Ran(u) \ G /\ G \subseteq Ran(u)
  BY DEF Thinned
<1>3. \A x \in Ran(u) \ G : k2.node[x] = k.node[x] /\ k2.alias[x] = k.alias[x]
  BY <1>2 DEF Thinned
<1>4. \A x, y \in Ran(w) : Before(w, x, y) <=> y \in Ran(v) /\ (x = s \/ Before(v, x, y))
  BY PushOrder
<1>5. Ran(w) = Ran(v) \cup {s}
  BY PushFacts
<1>6. ASSUME NEW x \in Ran(w), NEW y \in Ran(w)
      PROVE  Before(w, x, y) <=> y \in Ran(u) \ G /\ (x \in {s} \/ Before(u, x, y))
  <2>1. CASE x = s
    BY <2>1, <1>2, <1>4
  <2>2. CASE x # s
    <3>1. x \in Ran(v)
      BY <2>2, <1>5
    <3> QED BY <2>2, <3>1, <1>1, <1>2, <1>4
  <2> QED BY <2>1, <2>2
<1>7. Ran(w) = {s} \cup (Ran(u) \ G) /\ {s} \cap (Ran(u) \ G) = {}
  BY <1>2, <1>5
<1> QED BY <1>2, <1>3, <1>6, <1>7 DEF Rearranged

\* A rearrangement of the slots is a step of the abstract map on the mappings.
LEMMA RearrangedReorders ==
    ASSUME NEW k, NEW u, NEW f, Sound(k, u, f, {}),
           NEW k1, NEW w, NEW g, Sound(k1, w, g, {}),
           NEW F, NEW G, Rearranged(k, u, k1, w, F, G)
    PROVE  Map!Reordered(ListOf(k1, w), ListOf(k, u),
                         {Mapped(k1, s) : s \in F}, {Mapped(k, s) : s \in G})
<1> DEFINE new == ListOf(k1, w)
           old == ListOf(k, u)
           front == {Mapped(k1, s) : s \in F}
           gone == {Mapped(k, s) : s \in G}
           rest == Map!Mappings(old) \ gone
<1>1. /\ G \subseteq Ran(u) /\ Ran(w) = F \cup (Ran(u) \ G) /\ F \cap (Ran(u) \ G) = {}
      /\ \A s \in Ran(u) \ G : k1.node[s] = k.node[s] /\ k1.alias[s] = k.alias[s]
  BY DEF Rearranged
<1>2. \A x, y \in Ran(w) :
          Before(w, x, y) <=> y \in Ran(u) \ G /\ (x \in F \/ Before(u, x, y))
  BY DEF Rearranged
<1>3. new \in Seq(Map!Mapping)
  BY ListOfFacts
<1>4. Map!Mappings(new) = {Mapped(k1, s) : s \in Ran(w)}
  BY ListOfFacts
<1>5. Map!Mappings(old) = {Mapped(k, s) : s \in Ran(u)}
  BY ListOfFacts
<1>6. \A s, t \in Ran(u) : Mapped(k, s) = Mapped(k, t) => s = t
  BY ListOfFacts
<1>7. \A s, t \in Ran(w) : Mapped(k1, s) = Mapped(k1, t) => s = t
  BY ListOfFacts
<1>8. \A s \in Ran(u) \ G : Mapped(k1, s) = Mapped(k, s)
  BY <1>1 DEF Mapped
<1>9. rest = {Mapped(k1, s) : s \in Ran(u) \ G}
  <2>1. rest = {Mapped(k, s) : s \in Ran(u) \ G}
    BY <1>1, <1>5, <1>6
  <2> QED BY <2>1, <1>8
<1>10. front \cup rest = {Mapped(k1, s) : s \in Ran(w)}
  BY <1>1, <1>9
<1>11. ASSUME NEW x \in front \cup rest, NEW y \in front \cup rest
       PROVE  Map!Ahead(new, x, y) <=> y \in rest /\ (x \in front \/ Map!Ahead(old, x, y))
  <2>1. PICK s \in Ran(w), t \in Ran(w) : x = Mapped(k1, s) /\ y = Mapped(k1, t)
    BY <1>10
  <2>2. Map!Ahead(new, x, y) <=> Before(w, s, t)
    BY <2>1, ListOrder
  <2>3. y \in rest <=> t \in Ran(u) \ G
    BY <1>1, <1>7, <1>9, <2>1
  <2>4. x \in front <=> s \in F
    BY <1>1, <1>7, <2>1
  <2>5. ASSUME s \notin F, t \in Ran(u) \ G PROVE Map!Ahead(old, x, y) <=> Before(u, s, t)
    <3>1. s \in Ran(u) \ G
      BY <1>1, <2>5
    <3>2. x = Mapped(k, s) /\ y = Mapped(k, t)
      BY <1>8, <2>1, <2>5, <3>1
    <3> QED BY <2>5, <3>1, <3>2, ListOrder
  <2> HIDE DEF new, old, front, gone, rest
  <2> QED BY <1>2, <2>2, <2>3, <2>4, <2>5
<1>12. Map!Mappings(new) = front \cup rest
  BY <1>4, <1>10
<1> HIDE DEF new, old, front, gone
<1>13. Map!Reordered(new, old, front, gone)
  BY <1>3, <1>11, <1>12 DEF Map!Reordered
<1> QED BY <1>13 DEF new, old, front, gone

\* What the lookups in the sorted sets return.
LEMMA FindAliasFacts ==
    ASSUME NEW k, NEW u, NEW f, NEW X, Sound(k, u, f, X), NEW a, NEW s, s = FindAlias(k, a)
    PROVE  /\ s = NONE => \A x \in Ran(u) : k.alias[x] # a
           /\ s # NONE => s \in Ran(u) /\ k.alias[s] = a
<1>1. k.aliasMap = Ran(u)
  BY DEF Sound, Keys
<1>2. u \in Seq(Slots) /\ Ran(u) \subseteq Slots
  BY SeqFacts DEF Sound, Lists
<1>3. CASE \E x \in Ran(u) : k.alias[x] = a
  <2>1. s \in Ran(u) /\ k.alias[s] = a
    BY <1>1, <1>3 DEF FindAlias
  <2> QED BY <2>1, <1>2, SlotFacts
<1>4. CASE ~(\E x \in Ran(u) : k.alias[x] = a)
  BY <1>1, <1>4 DEF FindAlias
<1> QED BY <1>3, <1>4

\* The same of the lookup by node ID.
LEMMA FindIdFacts ==
    ASSUME NEW k, NEW u, NEW f, NEW X, Sound(k, u, f, X), NEW id, NEW s, s = FindId(k, id)
    PROVE  /\ s = NONE => \A x \in Ran(u) : k.node[x] # id
           /\ s # NONE => s \in Ran(u) /\ k.node[s] = id
<1>1. k.idMap = Ran(u)
  BY DEF Sound, Keys
<1>2. u \in Seq(Slots) /\ Ran(u) \subseteq Slots
  BY SeqFacts DEF Sound, Lists
<1>3. CASE \E x \in Ran(u) : k.node[x] = id
  <2>1. s \in Ran(u) /\ k.node[s] = id
    BY <1>1, <1>3 DEF FindId
  <2> QED BY <2>1, <1>2, SlotFacts
<1>4. CASE ~(\E x \in Ran(u) : k.node[x] = id)
  BY <1>1, <1>4 DEF FindId
<1> QED BY <1>3, <1>4

\* A call to remove() for the entry a lookup found, if it found one.
UnlinkFound(k, s) == IF s = NONE THEN k ELSE Unlink(k, s)
\* The slots a lookup found: none or one.
Found(s) == IF s = NONE THEN {} ELSE {s}

\* Removing a found entry keeps the cache sound, leaves that entry out of the
\* LRU list, and makes the free list non-empty.
LEMMA UnlinkThins ==
    ASSUME NEW k, NEW u, NEW f, Sound(k, u, f, {}), NEW s, s = NONE \/ s \in Ran(u),
           NEW k1, k1 = UnlinkFound(k, s)
    PROVE  \E v, g : /\ Sound(k1, v, g, {}) /\ Thinned(k, u, k1, v, Found(s))
                     /\ s # NONE => k1.freeList # NONE
<1>0. /\ u \in Seq(Slots) /\ OneToOne(u) /\ Ran(u) \subseteq Slots /\ k \in CacheType
  BY SeqFacts DEF Sound, Lists
<1>1. CASE s = NONE
  BY <1>1, ThinnedNot DEF UnlinkFound, Found
<1>2. CASE s \in Ran(u)
  <2>1. PICK j \in 1..Len(u) : s = u[j]
    BY <1>2 DEF Ran
  <2>2. s # NONE /\ s \in Slots
    BY <1>0, <1>2, SlotFacts
  <2>3. k1 = Unlink(k, s)
    BY <2>2 DEF UnlinkFound
  <2> DEFINE v == Drop(u, j)
             g == Push(s, f)
  <2>4. Sound(k1, v, g, {})
    BY <2>1, <2>3, UnlinkKeeps
  <2>5. Ran(v) = Ran(u) \ {s}
    BY <1>0, <2>1, DropFacts
  <2>6. \A x, y \in Ran(v) : Before(v, x, y) <=> Before(u, x, y)
    BY <1>0, DropOrder
  <2>7. \A x \in Slots : k1.node[x] = IF x = s THEN 0 ELSE k.node[x]
    BY <1>0, <2>2, <2>3, UnlinkFields
  <2>8. k1.alias = k.alias
    BY <1>0, <2>2, <2>3, UnlinkFields
  <2>9. k1.freeList = s
    BY <1>0, <2>2, <2>3, UnlinkFields
  <2>10. Found(s) = {s}
    BY <2>2 DEF Found
  <2> HIDE DEF v, g
  <2>11. \A x \in Ran(v) : k1.node[x] = k.node[x] /\ k1.alias[x] = k.alias[x]
    BY <1>0, <2>5, <2>7, <2>8
  <2>12. Thinned(k, u, k1, v, Found(s))
    BY <1>2, <2>5, <2>6, <2>10, <2>11 DEF Thinned
  <2> QED BY <2>2, <2>4, <2>9, <2>12
<1> QED BY <1>1, <1>2

\* A list with no slot twice is as long as the set of its slots.
LEMMA ListSize ==
    ASSUME NEW S, NEW u \in Seq(S), OneToOne(u)
    PROVE  IsFiniteSet(Ran(u)) /\ Cardinality(Ran(u)) = Len(u)
<1> DEFINE h == [i \in 1..Len(u) |-> u[i]]
<1>1. Len(u) \in Nat
  BY SeqFacts
<1>2. h \in Bijection(1..Len(u), Ran(u))
  <2> DEFINE D == 1..Len(u)
  <2> HIDE DEF D
  <2>0. h = [i \in D |-> u[i]] /\ Ran(u) = {u[i] : i \in D}
    BY DEF D, Ran
  <2>1. \A i, j \in D : u[i] = u[j] => i = j
    BY DEF OneToOne, D
  <2> HIDE DEF h
  <2>2. h \in [D -> Ran(u)] /\ \A i \in D : h[i] = u[i]
    BY <2>0
  <2>3. \A i, j \in D : h[i] = h[j] => i = j
    BY <2>1, <2>2
  <2>4. \A t \in Ran(u) : \E i \in D : h[i] = t
    BY <2>0, <2>2
  <2>5. h \in Bijection(D, Ran(u))
    BY <2>2, <2>3, <2>4, Fun_IsBij
  <2> QED BY <2>5 DEF D
<1>3. ExistsBijection(1..Len(u), Ran(u))
  BY <1>2 DEF ExistsBijection
<1>4. Cardinality(Ran(u)) = Len(u)
  BY <1>1, <1>3, FS_CountingElements
<1>5. IsFiniteSet(Ran(u))
  BY <1>1, <1>3, FS_NatBijection
<1> QED BY <1>4, <1>5

\* The size of the pool.
LEMMA SlotsSize == IsFiniteSet(Slots) /\ Cardinality(Slots) = Entries
<1>1. Entries \in Nat /\ 0 \in Int /\ Entries - 1 \in Int
  BY SlotFacts
<1>2. IsFiniteSet(0..(Entries - 1))
      /\ Cardinality(0..(Entries - 1)) =
             IF 0 > Entries - 1 THEN 0 ELSE (Entries - 1) - 0 + 1
  BY <1>1, FS_Interval
<1>3. Cardinality(0..(Entries - 1)) = Entries
  BY <1>1, <1>2, SlotFacts
<1> QED BY <1>2, <1>3 DEF Slots

\* The free list is empty exactly when the LRU list is full.
LEMMA FullMeansFull ==
    ASSUME NEW k, NEW u, NEW f, Sound(k, u, f, {})
    PROVE  /\ Len(u) \in Nat /\ Len(u) <= Entries /\ Len(f) \in Nat /\ Len(f) <= Entries
           /\ k.freeList = NONE <=> Len(u) = Entries
<1>1. /\ u \in Seq(Slots) /\ f \in Seq(Slots) /\ OneToOne(u) /\ OneToOne(f)
      /\ Ran(u) \cap Ran(f) = {} /\ Ran(u) \cup Ran(f) = Slots
      /\ Len(u) \in Nat /\ Len(f) \in Nat
  BY SeqFacts DEF Sound, Lists
<1>2. /\ Cardinality(Ran(u)) = Len(u) /\ Cardinality(Ran(f)) = Len(f)
      /\ IsFiniteSet(Ran(u)) /\ IsFiniteSet(Ran(f))
  BY <1>1, ListSize
<1>3. Cardinality(Ran(u)) + Cardinality(Ran(f)) = Entries
  <2>1. Cardinality(Ran(u) \cup Ran(f)) =
            Cardinality(Ran(u)) + Cardinality(Ran(f)) - Cardinality(Ran(u) \cap Ran(f))
    BY <1>2, FS_Union
  <2>2. Cardinality(Ran(u) \cap Ran(f)) = 0
    BY <1>1, FS_EmptySet
  <2>3. Cardinality(Ran(u) \cup Ran(f)) = Entries
    BY <1>1, SlotsSize
  <2> QED BY <2>1, <2>2, <2>3, <1>1, <1>2
<1>n. PICK n \in Nat, m \in Nat : n = Len(u) /\ m = Len(f) /\ n + m = Entries
  BY <1>1, <1>2, <1>3
<1>4. k.freeList = NONE <=> m = 0
  <2>1. CASE m = 0
    BY <1>n, <2>1 DEF Sound, Lists, Chain
  <2>2. CASE m > 0
    <3>1. k.freeList = f[1] /\ f[1] \in Slots
      BY <1>1, <1>n, <2>2, SeqFacts DEF Sound, Lists, Chain
    <3> QED BY <2>2, <3>1, SlotFacts
  <2> QED BY <1>n, <2>1, <2>2
<1> QED BY <1>n, <1>4, SlotFacts

\* The slots whose mapping a new one for id and alias a displaces.
Clash(k, u, id, a) ==
    {x \in Ran(u) : k.node[x] = id \/ (a # NOT_RESPONDING /\ k.alias[x] = a)}

\* What add() reports of the slots in G.
Reports(k, G) == {<<k.node[x], k.alias[x]>> : x \in G}

\* add() up to the entry it takes.
LEMMA AddDisplaces ==
    ASSUME NEW k, NEW u, NEW f, Sound(k, u, f, {}), NEW id, NEW a,
           NEW p, p = IF a = NOT_RESPONDING THEN NONE ELSE FindAlias(k, a),
           NEW k1, k1 = UnlinkFound(k, p), NEW q, q = FindId(k1, id),
           NEW k2, k2 = UnlinkFound(k1, q), NEW G, G = Clash(k, u, id, a)
    PROVE  /\ \E v, g : Sound(k2, v, g, {}) /\ Thinned(k, u, k2, v, G)
           /\ k2.freeList = NONE => G = {}
           /\ G = {} => k2 = k
           /\ Report(k, p) \cup Report(k1, q) = Reports(k, G)
<1>1. p = NONE \/ p \in Ran(u)
  BY FindAliasFacts
<1>2. Found(p) = {x \in Ran(u) : a # NOT_RESPONDING /\ k.alias[x] = a}
  <2>1. CASE a = NOT_RESPONDING
    BY <2>1 DEF Found
  <2>2. CASE a # NOT_RESPONDING
    <3>1. p = FindAlias(k, a)
      BY <2>2
    <3>2. CASE p = NONE
      BY <3>1, <3>2, FindAliasFacts DEF Found
    <3>3. CASE p # NONE
      <4>1. p \in Ran(u) /\ k.alias[p] = a
        BY <3>1, <3>3, FindAliasFacts
      <4>2. \A x \in Ran(u) : k.alias[x] = k.alias[p] => x = p
        BY <4>1 DEF Sound, Keys
      <4> QED BY <2>2, <3>3, <4>1, <4>2 DEF Found
    <3> QED BY <3>2, <3>3
  <2> QED BY <2>1, <2>2
<1>3. PICK v1, g1 : /\ Sound(k1, v1, g1, {}) /\ Thinned(k, u, k1, v1, Found(p))
                    /\ p # NONE => k1.freeList # NONE
  BY <1>1, UnlinkThins
<1>4. q = NONE => \A x \in Ran(v1) : k1.node[x] # id
  BY <1>3, FindIdFacts
<1>5. q # NONE => q \in Ran(v1) /\ k1.node[q] = id
  BY <1>3, FindIdFacts
<1>6. Ran(v1) = Ran(u) \ Found(p) /\ Found(p) \subseteq Ran(u)
  BY <1>3 DEF Thinned
<1>7. \A x \in Ran(v1) : k1.node[x] = k.node[x] /\ k1.alias[x] = k.alias[x]
  BY <1>3 DEF Thinned
<1>8. Found(q) = {x \in Ran(v1) : k.node[x] = id}
  <2>1. CASE q = NONE
    BY <2>1, <1>4, <1>7 DEF Found
  <2>2. CASE q # NONE
    <3>1. q \in Ran(v1) /\ k1.node[q] = id
      BY <1>5, <2>2
    <3>2. \A x \in Ran(v1) : k1.node[x] = k1.node[q] => x = q
      BY <1>3, <3>1 DEF Sound, Keys
    <3> QED BY <1>7, <2>2, <3>1, <3>2 DEF Found
  <2> QED BY <2>1, <2>2
<1>9. G = Found(p) \cup Found(q)
  BY <1>2, <1>6, <1>8 DEF Clash
<1>10. q = NONE \/ q \in Ran(v1)
  BY <1>5
<1>11. PICK v, g : /\ Sound(k2, v, g, {}) /\ Thinned(k1, v1, k2, v, Found(q))
                   /\ q # NONE => k2.freeList # NONE
  BY <1>3, <1>10, UnlinkThins
<1>12. Thinned(k, u, k2, v, G)
  BY <1>3, <1>9, <1>11, ThinnedTwice
<1>13. ASSUME k2.freeList = NONE PROVE G = {}
  <2>1. q = NONE /\ k2 = k1
    BY <1>11, <1>13 DEF UnlinkFound
  <2>2. p = NONE
    BY <2>1, <1>3, <1>13
  <2> QED BY <2>1, <2>2, <1>9 DEF Found
<1>17. ASSUME G = {} PROVE k2 = k
  BY <1>9, <1>17 DEF Found, UnlinkFound
<1>14. Report(k, p) = Reports(k, Found(p))
  BY DEF Report, Reports, Found
<1>15. Report(k1, q) = Reports(k, Found(q))
  <2>1. Report(k1, q) = Reports(k1, Found(q))
    BY DEF Report, Reports, Found
  <2>2. \A x \in Found(q) : k1.node[x] = k.node[x] /\ k1.alias[x] = k.alias[x]
    BY <1>7, <1>10 DEF Found
  <2> QED BY <2>1, <2>2 DEF Reports
<1>16. Report(k, p) \cup Report(k1, q) = Reports(k, G)
  BY <1>9, <1>14, <1>15 DEF Reports
<1> QED BY <1>11, <1>12, <1>13, <1>16, <1>17

\* The entry add() takes: the first free one, or the oldest one when none is.
LEMMA AddTakes ==
    ASSUME NEW k, NEW u, NEW f, Sound(k, u, f, {}),
           NEW s, s = IF k.freeList = NONE THEN k.oldest ELSE k.freeList,
           NEW k1, k1 = IF k.freeList = NONE THEN Evict(k)
                        ELSE [k EXCEPT !.freeList = k.older[s]],
           NEW G, G = IF k.freeList = NONE THEN {u[Len(u)]} ELSE {}
    PROVE  /\ s \in Slots
           /\ \E v, g : Sound(k1, v, g, {s}) /\ Thinned(k, u, k1, v, G)
           /\ (IF k.freeList = NONE THEN Report(k, s) ELSE {}) = Reports(k, G)
<1>0. /\ u \in Seq(Slots) /\ OneToOne(u) /\ Ran(u) \subseteq Slots /\ k \in CacheType
  BY SeqFacts DEF Sound, Lists
<1>1. CASE k.freeList # NONE
  <2> DEFINE g == Drop(f, 1)
  <2>1. s = k.freeList /\ k1 = [k EXCEPT !.freeList = k.older[s]] /\ G = {}
    BY <1>1
  <2>2. s \in Slots /\ Sound(k1, u, g, {s})
    BY <1>1, <2>1, PopKeeps
  <2>3. k1.node = k.node /\ k1.alias = k.alias
    BY <1>0, <2>1 DEF CacheType
  <2>4. Thinned(k, u, k1, u, {})
    BY <2>3 DEF Thinned
  <2> QED BY <1>1, <2>1, <2>2, <2>4 DEF Reports
<1>2. CASE k.freeList = NONE
  <2> DEFINE v == Drop(u, Len(u))
  <2>1. s = k.oldest /\ k1 = Evict(k) /\ G = {u[Len(u)]}
    BY <1>2
  <2>2. s \in Slots /\ Len(u) \in 1..Len(u) /\ s = u[Len(u)] /\ Sound(k1, v, f, {s})
    BY <1>2, <2>1, EvictKeeps
  <2>3. k1.node = k.node /\ k1.alias = k.alias
    BY <1>0, <2>1 DEF CacheType, Evict
  <2>4. Ran(v) = Ran(u) \ {s}
    BY <1>0, <2>2, DropFacts
  <2>5. \A x, y \in Ran(v) : Before(v, x, y) <=> Before(u, x, y)
    BY <1>0, <2>2, DropOrder
  <2>6. s \in Ran(u) /\ G = {s}
    BY <2>1, <2>2 DEF Ran
  <2> HIDE DEF v
  <2>7. Thinned(k, u, k1, v, G)
    BY <2>3, <2>4, <2>5, <2>6 DEF Thinned
  <2>8. s # NONE
    BY <2>2, SlotFacts
  <2>9. Report(k, s) = Reports(k, G)
    BY <2>6, <2>8 DEF Report, Reports
  <2> QED BY <1>2, <2>2, <2>7, <2>9
<1> QED BY <1>1, <1>2

\* add(): the cache is sound, the new mapping in front, and exactly the mappings
\* that clash with it are gone and reported, or the oldest one when none clashes
\* and every entry is in use.
LEMMA AddKeeps ==
    ASSUME NEW u, NEW f, Sound(c, u, f, {}), NEW id \in Ids,
           NEW a \in Aliases \cup {NOT_RESPONDING}, Add(id, a),
           NEW G, G = IF Clash(c, u, id, a) = {} /\ Len(u) = Entries THEN {u[Len(u)]}
                      ELSE Clash(c, u, id, a)
    PROVE  \E s, w, g : /\ Sound(c', w, g, {}) /\ Rearranged(c, u, c', w, {s}, G)
                        /\ Mapped(c', s) = [id |-> id, alias |-> a]
                        /\ told' = Reports(c, G)
<1> DEFINE p == IF a = NOT_RESPONDING THEN NONE ELSE FindAlias(c, a)
           k1 == UnlinkFound(c, p)
           q == FindId(k1, id)
           k2 == UnlinkFound(k1, q)
           full == k2.freeList = NONE
           s == IF full THEN k2.oldest ELSE k2.freeList
           k3 == IF full THEN Evict(k2) ELSE [k2 EXCEPT !.freeList = k2.older[s]]
           stored == IF a = NOT_RESPONDING THEN NOT_RESPONDING + s ELSE a
           C == Clash(c, u, id, a)
<1>1. c' = Link(k3, s, id, stored)
  BY DEF Add, UnlinkFound
<1>2. told' = Report(c, p) \cup Report(k1, q) \cup (IF full THEN Report(k2, s) ELSE {})
  BY DEF Add, UnlinkFound
<1> HIDE DEF p, k1, q, k2, s, k3, stored
<1>3. PICK v, g : Sound(k2, v, g, {}) /\ Thinned(c, u, k2, v, C)
  BY AddDisplaces DEF p, k1, q, k2
<1>4. (k2.freeList = NONE => C = {}) /\ (C = {} => k2 = c)
  BY AddDisplaces DEF p, k1, q, k2
<1>5. Report(c, p) \cup Report(k1, q) = Reports(c, C)
  BY AddDisplaces DEF p, k1, q, k2
<1>6. c.freeList = NONE <=> Len(u) = Entries
  BY FullMeansFull
<1>7. /\ s \in Slots
      /\ (IF full THEN Report(k2, s) ELSE {}) \cup Reports(c, C) = Reports(c, G)
      /\ \E v3, g3 : Sound(k3, v3, g3, {s}) /\ Thinned(c, u, k3, v3, G)
      /\ C \subseteq G
  <2>1. CASE full
    <3>1. k2 = c /\ C = {} /\ G = {u[Len(u)]}
      BY <1>4, <1>6, <2>1
    <3>2. s \in Slots /\ Report(k2, s) = Reports(c, G)
      BY <2>1, <3>1, AddTakes DEF s, k3
    <3>3. \E v3, g3 : Sound(k3, v3, g3, {s}) /\ Thinned(c, u, k3, v3, G)
      BY <2>1, <3>1, AddTakes DEF s, k3
    <3> QED BY <2>1, <3>1, <3>2, <3>3 DEF Reports
  <2>2. CASE ~full
    <3>1. PICK v3, g3 : Sound(k3, v3, g3, {s}) /\ Thinned(k2, v, k3, v3, {})
      BY <1>3, <2>2, AddTakes DEF s, k3
    <3>4. s \in Slots
      BY <1>3, <2>2, AddTakes DEF s, k3
    <3>2. Thinned(c, u, k3, v3, C \cup {})
      BY <1>3, <3>1, ThinnedTwice
    <3>3. G = C
      BY <1>4, <1>6, <2>2
    <3> QED BY <2>2, <3>1, <3>2, <3>3, <3>4
  <2> QED BY <2>1, <2>2
<1>8. told' = Reports(c, G) /\ s \in Slots
  BY <1>2, <1>5, <1>7
<1>9. PICK v3, g3 : Sound(k3, v3, g3, {s}) /\ Thinned(c, u, k3, v3, G)
  BY <1>7
<1>10. /\ Ran(v3) = Ran(u) \ G
       /\ \A x \in Ran(v3) : k3.node[x] = c.node[x] /\ k3.alias[x] = c.alias[x]
  BY <1>9 DEF Thinned
<1>11. v3 \in Seq(Slots) /\ s \notin Ran(v3) /\ Ran(v3) \subseteq Slots
  BY <1>9, SeqFacts DEF Sound, Lists
<1>12. stored \in Aliases \/ stored = NOT_RESPONDING + s
  BY DEF stored
<1>13. \A x \in Ran(v3) : k3.node[x] # id /\ k3.alias[x] # stored
  <2> TAKE x \in Ran(v3)
  <2>1. x \in Ran(u) /\ x \notin C /\ x # s /\ x \in Nat /\ s \in Nat
    BY <1>7, <1>10, <1>11, SlotFacts
  <2>2. c.node[x] # id /\ (a # NOT_RESPONDING => c.alias[x] # a)
    BY <2>1 DEF Clash
  <2>3. CASE a # NOT_RESPONDING
    BY <1>10, <2>2, <2>3 DEF stored
  <2>4. CASE a = NOT_RESPONDING
    <3>1. c.alias[x] \in Aliases \/ c.alias[x] = NOT_RESPONDING + x
      BY <2>1 DEF Sound, Keys
    <3>2. c.alias[x] # NOT_RESPONDING + s
      BY <2>1, <3>1, CacheAssumption DEF CacheAssumption
    <3> QED BY <1>10, <2>2, <2>4, <3>2 DEF stored
  <2> QED BY <2>3, <2>4
<1> DEFINE w == Push(s, v3)
<1>14. /\ Sound(c', w, g3, {})
       /\ c'.node[s] = id /\ c'.alias[s] = stored
       /\ \A x \in Ran(v3) : c'.node[x] = k3.node[x] /\ c'.alias[x] = k3.alias[x]
  <2>1. Sound(c', w, g3, {})
    BY <1>1, <1>8, <1>9, <1>12, <1>13, LinkKeeps
  <2>2. ASSUME NEW k4, k4 = Link(k3, s, id, stored)
        PROVE  /\ k4.node[s] = id /\ k4.alias[s] = stored
               /\ \A x \in Ran(v3) : k4.node[x] = k3.node[x] /\ k4.alias[x] = k3.alias[x]
    <3>1. k3 \in CacheType
      BY <1>9 DEF Sound
    <3>2. k4.node[s] = id /\ k4.alias[s] = stored
      BY <1>8, <2>2, <3>1, LinkNames
    <3>3. \A x \in Slots : x # s => k4.node[x] = k3.node[x] /\ k4.alias[x] = k3.alias[x]
      BY <1>8, <2>2, <3>1, LinkNames
    <3> QED BY <1>11, <3>2, <3>3
  <2> QED BY <1>1, <2>1, <2>2, Zenon
<1>15. Rearranged(c, u, c', w, {s}, G)
  BY <1>7, <1>9, <1>11, <1>14, PushRearranges
<1>16. Resolve(stored) = a
  <2>1. s \in Nat
    BY <1>7, SlotFacts
  <2>2. CASE a = NOT_RESPONDING
    BY <2>1, <2>2, CacheAssumption DEF CacheAssumption, stored, Resolve
  <2>3. CASE a # NOT_RESPONDING
    BY <2>3, CacheAssumption DEF CacheAssumption, stored, Resolve
  <2> QED BY <2>2, <2>3
<1>17. Mapped(c', s) = [id |-> id, alias |-> a]
  BY <1>14, <1>16 DEF Mapped
<1> HIDE DEF w
<1> QED BY <1>8, <1>14, <1>15, <1>17

\* touch() changes no key.
LEMMA TouchNames ==
    ASSUME NEW k \in CacheType, NEW s, NEW k1, k1 = TouchSlot(k, s)
    PROVE  k1.node = k.node /\ k1.alias = k.alias
BY DEF CacheType, TouchSlot

\* remove(alias)
LEMMA RemoveKeeps ==
    ASSUME NEW u, NEW f, Sound(c, u, f, {}), NEW a \in Aliases, Remove(a),
           NEW G, G = {x \in Ran(u) : c.alias[x] = a}
    PROVE  /\ told' = {}
           /\ \E w, g : Sound(c', w, g, {}) /\ Rearranged(c, u, c', w, {}, G)
<1> DEFINE p == FindAlias(c, a)
<1>1. c' = UnlinkFound(c, p) /\ told' = {}
  BY DEF Remove, RemoveFrom, UnlinkFound
<1> HIDE DEF p
<1>2. (p = NONE => \A x \in Ran(u) : c.alias[x] # a)
      /\ (p # NONE => p \in Ran(u) /\ c.alias[p] = a)
  BY FindAliasFacts DEF p
<1>3. Found(p) = G
  <2>1. CASE p = NONE
    BY <2>1, <1>2 DEF Found
  <2>2. CASE p # NONE
    <3>1. \A x \in Ran(u) : c.alias[x] = c.alias[p] => x = p
      BY <1>2, <2>2 DEF Sound, Keys
    <3> QED BY <1>2, <2>2, <3>1 DEF Found
  <2> QED BY <2>1, <2>2
<1>4. ASSUME NEW k1, k1 = UnlinkFound(c, p)
      PROVE  \E w, g : Sound(k1, w, g, {}) /\ Rearranged(c, u, k1, w, {}, G)
  <2>1. PICK w, g : Sound(k1, w, g, {}) /\ Thinned(c, u, k1, w, Found(p))
    BY <1>2, <1>4, UnlinkThins
  <2>2. Rearranged(c, u, k1, w, {}, G)
    BY <1>3, <2>1, ThinnedIsRearranged
  <2> QED BY <2>1, <2>2
<1> QED BY <1>1, <1>4, Zenon

\* touch() moves the slot to the front of the LRU list.
LEMMA TouchRearranges ==
    ASSUME NEW k, NEW u, NEW f, Sound(k, u, f, {}), NEW s \in Ran(u),
           NEW k1, k1 = TouchSlot(k, s)
    PROVE  \E w, g : Sound(k1, w, g, {}) /\ Rearranged(k, u, k1, w, {s}, {s})
<1>1. /\ u \in Seq(Slots) /\ OneToOne(u) /\ k \in CacheType /\ Ran(u) \subseteq Slots
  BY SeqFacts DEF Sound, Lists
<1>2. PICK j \in 1..Len(u) : s = u[j]
  BY DEF Ran
<1> DEFINE v == Drop(u, j)
<1>3. v \in Seq(Slots)
  BY <1>1, DropIsSeq
<1>4. Ran(v) = Ran(u) \ {s}
  BY <1>1, <1>2, DropFacts
<1>5. \A x, y \in Ran(v) : Before(v, x, y) <=> Before(u, x, y)
  BY <1>1, DropOrder
<1> DEFINE w == Push(s, v)
<1>6. Sound(k1, w, f, {})
  BY <1>2, TouchKeeps
<1>7. k1.node = k.node /\ k1.alias = k.alias
  BY <1>1, TouchNames
<1> HIDE DEF v
<1>8. Thinned(k, u, k1, v, {s})
  BY <1>4, <1>5, <1>7 DEF Thinned
<1>9. Rearranged(k, u, k1, w, {s}, {s})
  BY <1>1, <1>3, <1>4, <1>8, PushRearranges
<1> QED BY <1>6, <1>9

\* lookup(), by node ID and by alias.
LEMMA LookupKeeps ==
    ASSUME NEW u, NEW f, Sound(c, u, f, {}),
           (\E id \in Ids : LookupId(id)) \/ (\E a \in Aliases : LookupAlias(a))
    PROVE  \E s \in Ran(u) : /\ told' = Reports(c, {s})
                             /\ Mapped(c', s) = Mapped(c, s)
                             /\ \E w, g : Sound(c', w, g, {})
                                          /\ Rearranged(c, u, c', w, {s}, {s})
<1>0. Ran(u) \subseteq Slots /\ NONE \notin Slots
  BY SeqFacts, SlotFacts DEF Sound, Lists
<1>1. PICK s \in Ran(u) : c' = TouchSlot(c, s) /\ told' = Report(c, s)
  <2>1. ASSUME NEW id \in Ids, LookupId(id)
        PROVE  \E s \in Ran(u) : c' = TouchSlot(c, s) /\ told' = Report(c, s)
    <3>1. FindId(c, id) \in Ran(u)
      BY <2>1, FindIdFacts DEF LookupId
    <3> QED BY <2>1, <3>1 DEF LookupId
  <2>2. ASSUME NEW a \in Aliases, LookupAlias(a)
        PROVE  \E s \in Ran(u) : c' = TouchSlot(c, s) /\ told' = Report(c, s)
    <3>1. FindAlias(c, a) \in Ran(u)
      BY <2>2, FindAliasFacts DEF LookupAlias
    <3> QED BY <2>2, <3>1 DEF LookupAlias
  <2> QED BY <2>1, <2>2
<1>2. told' = Reports(c, {s})
  BY <1>0, <1>1 DEF Report, Reports
<1>3. \A k1 : k1 = TouchSlot(c, s) =>
          \E w, g : Sound(k1, w, g, {}) /\ Rearranged(c, u, k1, w, {s}, {s})
  BY TouchRearranges
<1>4. \E w, g : Sound(c', w, g, {}) /\ Rearranged(c, u, c', w, {s}, {s})
  BY <1>1, <1>3, Zenon
<1>5. Mapped(c', s) = Mapped(c, s)
  <2>1. c \in CacheType
    BY DEF Sound
  <2>2. c'.node = c.node /\ c'.alias = c.alias
    BY <1>1, <2>1, TouchNames
  <2> QED BY <2>2 DEF Mapped
<1> QED BY <1>2, <1>4, <1>5

\* The inductive invariant: some two lists account for the whole pool.
CacheInv == \E u, f : Sound(c, u, f, {})

\* The constructor calls clear() on the pool.
LEMMA InitSound == Init => \E f : Sound(c, << >>, f, {})
<1> SUFFICES ASSUME Init PROVE \E f : Sound(c, << >>, f, {})
  OBVIOUS
<1>1. /\ [s \in Slots |-> 0] \in [Slots -> Ids \cup {0}]
      /\ [s \in Slots |-> 0] \in [Slots -> Nat]
  OBVIOUS
<1>2. c = Cleared([s \in Slots |-> 0], [s \in Slots |-> 0])
  BY DEF Init
<1>3. \A n \in [Slots -> Ids \cup {0}], b \in [Slots -> Nat] :
          \E f : Sound(Cleared(n, b), << >>, f, {})
  BY ClearedIsSound
<1> QED BY <1>1, <1>2, <1>3, Zenon

\* clear() frees every entry.
LEMMA ClearKeeps ==
    ASSUME NEW u, NEW f, Sound(c, u, f, {}), Clear
    PROVE  told' = {} /\ \E g : Sound(c', << >>, g, {})
<1>1. c.node \in [Slots -> Ids \cup {0}] /\ c.alias \in [Slots -> Nat]
  BY DEF Sound, CacheType
<1>2. \A n \in [Slots -> Ids \cup {0}], b \in [Slots -> Nat] :
          \E g : Sound(Cleared(n, b), << >>, g, {})
  BY ClearedIsSound
<1>3. c' = Cleared(c.node, c.alias) /\ told' = {}
  BY DEF Clear
<1> QED BY <1>1, <1>2, <1>3, Zenon

\* No operation breaks the lists or the sorted sets.
LEMMA CacheInvInductive == CacheInv /\ [Next]_<<c, told>> => CacheInv'
<1> SUFFICES ASSUME CacheInv, [Next]_<<c, told>> PROVE \E w, g : Sound(c', w, g, {})
  BY DEF CacheInv
<1>1. PICK u, f : Sound(c, u, f, {})
  BY DEF CacheInv
<1>2. ASSUME NEW id \in Ids, NEW a \in Aliases \cup {NOT_RESPONDING}, Add(id, a)
      PROVE  \E w, g : Sound(c', w, g, {})
  BY <1>1, <1>2, AddKeeps
<1>3. ASSUME NEW a \in Aliases, Remove(a)
      PROVE  \E w, g : Sound(c', w, g, {})
  BY <1>1, <1>3, RemoveKeeps
<1>4. CASE (\E id \in Ids : LookupId(id)) \/ (\E a \in Aliases : LookupAlias(a))
  BY <1>1, <1>4, LookupKeeps
<1>5. CASE Clear
  BY <1>1, <1>5, ClearKeeps
<1>6. CASE UNCHANGED <<c, told>>
  BY <1>1, <1>6
<1> QED BY <1>2, <1>3, <1>4, <1>5, <1>6 DEF Next

\* The two lists are what for_each() and the free list visit, and the cache
\* passes check_consistency().
LEMMA SoundIsConsistent ==
    ASSUME NEW u, NEW f, Sound(c, u, f, {})
    PROVE  Used = u /\ Free = f /\ Consistent
<1>1. /\ u \in Seq(Slots) /\ f \in Seq(Slots) /\ OneToOne(u) /\ OneToOne(f)
      /\ Ran(u) \cap Ran(f) = {} /\ Ran(u) \cup Ran(f) = Slots
      /\ Chain(c.newest, c.older, u) /\ Back(c, u) /\ Chain(c.freeList, c.older, f)
      /\ c \in CacheType /\ Keys(c, u)
  BY DEF Sound, Lists
<1>2. /\ Len(u) \in Nat /\ Len(u) <= Entries /\ Len(f) \in Nat /\ Len(f) <= Entries
      /\ c.freeList = NONE <=> Len(u) = Entries
  BY FullMeansFull
<1>3. Used = u
  BY <1>1, <1>2, SlotFacts, FollowIsChain DEF Used
<1>4. Free = f
  BY <1>1, <1>2, SlotFacts, FollowIsChain DEF Free
<1>5. TypeOK
  BY <1>1 DEF CacheType, PoolIdx, TypeOK
<1>6. Len(u) = Cardinality(Ran(u)) /\ Len(f) = Cardinality(Ran(f))
  BY <1>1, ListSize
<1>7. \A s \in Ran(u) : FindId(c, c.node[s]) = s
  <2> TAKE s \in Ran(u)
  <2> DEFINE t == FindId(c, c.node[s])
  <2>1. t \in Ran(u) /\ c.node[t] = c.node[s]
    BY FindIdFacts
  <2> QED BY <1>1, <2>1 DEF Keys
<1>8. \A s \in Ran(u) : FindAlias(c, c.alias[s]) = s
  <2> TAKE s \in Ran(u)
  <2> DEFINE t == FindAlias(c, c.alias[s])
  <2>1. t \in Ran(u) /\ c.alias[t] = c.alias[s]
    BY FindAliasFacts
  <2> QED BY <1>1, <2>1 DEF Keys
<1>n. PICK n \in Nat : n = Len(u)
  BY <1>2
<1>9. u = << >> <=> n = 0
  BY <1>1, <1>n, EmptySeq
<1>10. c.oldest = IF u = << >> THEN NONE ELSE u[Len(u)]
  BY <1>1, <1>n, <1>9 DEF Back
<1>11. u # << >> => c.newer[c.newest] = NONE /\ c.older[c.oldest] = NONE
  <2> SUFFICES ASSUME n > 0 PROVE c.newer[c.newest] = NONE /\ c.older[c.oldest] = NONE
    BY <1>n, <1>9
  <2>1. c.newest = u[1] /\ c.older[u[n]] = NONE
    BY <1>1, <1>n DEF Chain
  <2>2. c.oldest = u[n] /\ c.newer[u[1]] = NONE
    BY <1>1, <1>n DEF Back
  <2> QED BY <2>1, <2>2
<1>12. \A i \in 1..(Len(u) - 1) : c.newer[u[i + 1]] = u[i]
  BY <1>1 DEF Back
<1>13. c.idMap = Ran(u) /\ c.aliasMap = Ran(u)
  BY <1>1 DEF Keys
<1>14. Ran(u) = {u[i] : i \in 1..Len(u)} /\ Ran(f) = {f[i] : i \in 1..Len(f)}
  BY DEF Ran
<1>15. Consistent
  <2> DEFINE Agree(used, free) ==
                 /\ TypeOK
                 /\ c.idMap = Ran(used) /\ c.aliasMap = Ran(used)
                 /\ Ran(used) \cap Ran(free) = {} /\ Ran(used) \cup Ran(free) = Slots
                 /\ Len(used) = Cardinality(Ran(used)) /\ Len(free) = Cardinality(Ran(free))
                 /\ c.freeList = NONE <=> Len(used) = Entries
                 /\ c.oldest = IF used = << >> THEN NONE ELSE used[Len(used)]
                 /\ used # << >> => c.newer[c.newest] = NONE /\ c.older[c.oldest] = NONE
                 /\ \A i \in 1..(Len(used) - 1) : c.newer[used[i + 1]] = used[i]
                 /\ \A s \in Ran(used) : /\ FindId(c, c.node[s]) = s
                                         /\ FindAlias(c, c.alias[s]) = s
  <2>1. Agree(u, f)
    BY <1>1, <1>2, <1>5, <1>6, <1>7, <1>8, <1>10, <1>11, <1>12, <1>13, Zenon
  <2>2. Consistent <=> Agree(Used, Free)
    BY Zenon DEF Consistent, Ran
  <2> HIDE DEF Agree
  <2> QED BY <1>3, <1>4, <2>1, <2>2
<1> QED BY <1>3, <1>4, <1>15

\* The fields of the pool and the list ends have their types in every state.
THEOREM CacheTypeCorrect == Spec => []TypeOK
<1>1. Init => CacheInv
  BY InitSound DEF CacheInv
<1>2. CacheInv => TypeOK
  BY SoundIsConsistent DEF CacheInv, Consistent
<1> QED BY <1>1, <1>2, CacheInvInductive, PTL DEF Spec

\* After any sequence of add(), remove(), lookup() and clear(), for a pool of any
\* size, check_consistency() passes: the used and the free entries share out the
\* pool, the LRU list is linked in both directions, and the two sorted sets find
\* every used entry by its key.
THEOREM ListsStayConsistent == Spec => []Consistent
<1>1. Init => CacheInv
  BY InitSound DEF CacheInv
<1>2. CacheInv => Consistent
  BY SoundIsConsistent DEF CacheInv
<1> QED BY <1>1, <1>2, CacheInvInductive, PTL DEF Spec

\* The abstract list of mappings, read from the LRU list of slots.
LEMMA LruIs ==
    ASSUME NEW u, NEW f, Sound(c, u, f, {}) PROVE lruOf = ListOf(c, u)
BY SoundIsConsistent DEF lruOf, ListOf, Mapped

\* The same after a step.
LEMMA LruIsNext ==
    ASSUME NEW w, NEW g, Sound(c', w, g, {}) PROVE lruOf' = ListOf(c', w)
<1>1. /\ w \in Seq(Slots) /\ Chain(c'.newest, c'.older, w)
  BY DEF Sound, Lists
<1>2. Len(w) <= Entries
  BY FullMeansFull
<1>3. Used' = w
  BY <1>1, <1>2, SlotFacts, FollowIsChain DEF Used
<1> QED BY <1>3 DEF lruOf, ListOf, Mapped

\* The mappings reported, read from the slots reported.
LEMMA ToldIsNext ==
    ASSUME NEW G, told' = Reports(c, G) PROVE toldOf' = {Mapped(c, s) : s \in G}
<1>1. toldOf' = {[id |-> t[1], alias |-> Resolve(t[2])] : t \in told'}
  BY DEF toldOf
<1>2. \A s : LET t == <<c.node[s], c.alias[s]>>
             IN  [id |-> t[1], alias |-> Resolve(t[2])] = Mapped(c, s)
  BY DEF Mapped
<1>3. told' = {<<c.node[s], c.alias[s]>> : s \in G}
  BY DEF Reports
<1> DEFINE R(t) == [id |-> t[1], alias |-> Resolve(t[2])]
           T(s) == <<c.node[s], c.alias[s]>>
<1>4. /\ toldOf' = {R(t) : t \in told'} /\ told' = {T(s) : s \in G}
      /\ \A s : R(T(s)) = Mapped(c, s)
  BY <1>1, <1>2, <1>3
<1> HIDE DEF R, T
<1> QED BY <1>4

\* A mapping is displaced in the abstract map when its slot is in the pool.
LEMMA ClashIsConflicting ==
    ASSUME NEW u, NEW f, Sound(c, u, f, {}), NEW id \in Ids,
           NEW a \in Aliases \cup {NOT_RESPONDING}
    PROVE  Map!Conflicting(ListOf(c, u), id, a) = {Mapped(c, s) : s \in Clash(c, u, id, a)}
<1>1. Map!Mappings(ListOf(c, u)) = {Mapped(c, s) : s \in Ran(u)}
  BY ListOfFacts
<1>2. ASSUME NEW s \in Ran(u)
      PROVE  /\ Mapped(c, s).id = c.node[s]
             /\ a # NOT_RESPONDING => (Mapped(c, s).alias = a <=> c.alias[s] = a)
  <2>1. s \in Nat
    BY SeqFacts, SlotFacts DEF Sound, Lists
  <2>2. c.alias[s] \in Aliases \/ c.alias[s] = NOT_RESPONDING + s
    BY DEF Sound, Keys
  <2>3. a # NOT_RESPONDING => (Resolve(c.alias[s]) = a <=> c.alias[s] = a)
    BY <2>1, <2>2, CacheAssumption DEF CacheAssumption, Resolve
  <2> QED BY <2>3 DEF Mapped
<1> QED BY <1>1, <1>2 DEF Map!Conflicting, Clash

\* add() is Add of the abstract map.
LEMMA AddImplements ==
    ASSUME NEW u, NEW f, Sound(c, u, f, {}), NEW id \in Ids,
           NEW a \in Aliases \cup {NOT_RESPONDING}, Add(id, a)
    PROVE  Map!Add(id, a)
<1> DEFINE G == IF Clash(c, u, id, a) = {} /\ Len(u) = Entries THEN {u[Len(u)]}
                ELSE Clash(c, u, id, a)
           gone == {Mapped(c, x) : x \in G}
           old == lruOf
           clash == Map!Conflicting(old, id, a)
<1>1. PICK s, w, g : /\ Sound(c', w, g, {}) /\ Rearranged(c, u, c', w, {s}, G)
                     /\ Mapped(c', s) = [id |-> id, alias |-> a]
                     /\ told' = Reports(c, G)
  <2>1. \A H : H = (IF Clash(c, u, id, a) = {} /\ Len(u) = Entries THEN {u[Len(u)]}
                    ELSE Clash(c, u, id, a)) =>
               \E s, w, g : /\ Sound(c', w, g, {}) /\ Rearranged(c, u, c', w, {s}, H)
                            /\ Mapped(c', s) = [id |-> id, alias |-> a]
                            /\ told' = Reports(c, H)
    BY AddKeeps
  <2>2. G = IF Clash(c, u, id, a) = {} /\ Len(u) = Entries THEN {u[Len(u)]}
            ELSE Clash(c, u, id, a)
    OBVIOUS
  <2> HIDE DEF G
  <2> QED BY <2>1, <2>2, Zenon
<1>2. lruOf = ListOf(c, u)
  BY LruIs
<1>3. lruOf' = ListOf(c', w)
  BY <1>1, LruIsNext
<1>4. toldOf' = gone
  BY <1>1, ToldIsNext
<1>5. clash = {Mapped(c, x) : x \in Clash(c, u, id, a)}
  BY <1>2, ClashIsConflicting
<1>6. (clash = {} <=> Clash(c, u, id, a) = {}) /\ Len(old) = Len(u)
  BY <1>2, <1>5, ListOfFacts
<1>7. ASSUME Len(u) = Entries PROVE old[Entries] = Mapped(c, u[Len(u)])
  <2>1. Entries \in 1..Len(u)
    BY <1>7, SlotFacts
  <2>2. \A i \in 1..Len(u) : ListOf(c, u)[i] = Mapped(c, u[i])
    BY ListOfFacts
  <2> QED BY <1>2, <1>7, <2>1, <2>2
<1>8. gone = IF clash = {} /\ Len(old) = Entries THEN {old[Entries]} ELSE clash
  BY <1>5, <1>6, <1>7
<1>9. \A k1 : Sound(k1, w, g, {}) /\ Rearranged(c, u, k1, w, {s}, G) =>
          Map!Reordered(ListOf(k1, w), ListOf(c, u), {Mapped(k1, x) : x \in {s}}, gone)
  BY RearrangedReorders
<1> HIDE DEF G, gone
<1>10. Map!Reordered(ListOf(c', w), ListOf(c, u), {Mapped(c', x) : x \in {s}}, gone)
  BY <1>1, <1>9, Zenon
<1>11. {Mapped(c', x) : x \in {s}} = {[id |-> id, alias |-> a]}
  BY <1>1
<1>12. Map!Reordered(lruOf', lruOf, {[id |-> id, alias |-> a]}, gone)
  BY <1>2, <1>3, <1>10, <1>11, Zenon
<1> QED BY <1>4, <1>8, <1>12 DEF Map!Add

\* remove() is Remove of the abstract map.
LEMMA RemoveImplements ==
    ASSUME NEW u, NEW f, Sound(c, u, f, {}), NEW a \in Aliases, Remove(a)
    PROVE  Map!Remove(a)
<1> DEFINE G == {x \in Ran(u) : c.alias[x] = a}
           old == lruOf
<1>1. told' = {} /\ \E w, g : Sound(c', w, g, {}) /\ Rearranged(c, u, c', w, {}, G)
  BY RemoveKeeps
<1>2. PICK w, g : Sound(c', w, g, {}) /\ Rearranged(c, u, c', w, {}, G)
  BY <1>1
<1>3. lruOf = ListOf(c, u)
  BY LruIs
<1>4. lruOf' = ListOf(c', w)
  BY <1>2, LruIsNext
<1>5. toldOf' = {}
  BY <1>1 DEF toldOf
<1>6. {m \in Map!Mappings(old) : m.alias = a} = {Mapped(c, x) : x \in G}
  <2>1. Map!Mappings(old) = {Mapped(c, s) : s \in Ran(u)}
    BY <1>3, ListOfFacts
  <2>2. ASSUME NEW s \in Ran(u) PROVE Mapped(c, s).alias = a <=> c.alias[s] = a
    <3>1. s \in Nat
      BY SeqFacts, SlotFacts DEF Sound, Lists
    <3>2. c.alias[s] \in Aliases \/ c.alias[s] = NOT_RESPONDING + s
      BY DEF Sound, Keys
    <3>3. Resolve(c.alias[s]) = a <=> c.alias[s] = a
      BY <3>1, <3>2, CacheAssumption DEF CacheAssumption, Resolve
    <3> QED BY <3>3 DEF Mapped
  <2> QED BY <2>1, <2>2
<1>7. \A k1 : Sound(k1, w, g, {}) /\ Rearranged(c, u, k1, w, {}, G) =>
          Map!Reordered(ListOf(k1, w), ListOf(c, u), {Mapped(k1, x) : x \in {}},
                        {Mapped(c, x) : x \in G})
  BY RearrangedReorders
<1> HIDE DEF G
<1>8. Map!Reordered(ListOf(c', w), ListOf(c, u), {Mapped(c', x) : x \in {}},
                    {Mapped(c, x) : x \in G})
  BY <1>2, <1>7, Zenon
<1>9. {Mapped(c', x) : x \in {}} = {}
  OBVIOUS
<1>10. Map!Reordered(lruOf', lruOf, {}, {m \in Map!Mappings(old) : m.alias = a})
  BY <1>3, <1>4, <1>6, <1>8, <1>9, Zenon
<1> QED BY <1>5, <1>10 DEF Map!Remove

\* A lookup that finds something is Touch of the abstract map.
LEMMA LookupImplements ==
    ASSUME NEW u, NEW f, Sound(c, u, f, {}),
           (\E id \in Ids : LookupId(id)) \/ (\E a \in Aliases : LookupAlias(a))
    PROVE  \E m \in Map!Mappings(lruOf) : Map!Touch(m)
<1>1. PICK s \in Ran(u) : /\ told' = Reports(c, {s})
                          /\ Mapped(c', s) = Mapped(c, s)
                          /\ \E w, g : Sound(c', w, g, {})
                                       /\ Rearranged(c, u, c', w, {s}, {s})
  BY LookupKeeps
<1>2. PICK w, g : Sound(c', w, g, {}) /\ Rearranged(c, u, c', w, {s}, {s})
  BY <1>1
<1>3. lruOf = ListOf(c, u)
  BY LruIs
<1>4. lruOf' = ListOf(c', w)
  BY <1>2, LruIsNext
<1>5. toldOf' = {Mapped(c, x) : x \in {s}}
  BY <1>1, ToldIsNext
<1> DEFINE m == Mapped(c, s)
<1>6. m \in Map!Mappings(lruOf)
  BY <1>3, ListOfFacts
<1>7. Mapped(c', s) = m
  BY <1>1
<1>8. \A k1 : Sound(k1, w, g, {}) /\ Rearranged(c, u, k1, w, {s}, {s}) =>
          Map!Reordered(ListOf(k1, w), ListOf(c, u), {Mapped(k1, x) : x \in {s}},
                        {Mapped(c, x) : x \in {s}})
  BY RearrangedReorders
<1>9. Map!Reordered(ListOf(c', w), ListOf(c, u), {Mapped(c', x) : x \in {s}},
                    {Mapped(c, x) : x \in {s}})
  BY <1>2, <1>8, Zenon
<1>10. {Mapped(c', x) : x \in {s}} = {m} /\ {Mapped(c, x) : x \in {s}} = {m}
  BY <1>7
<1> HIDE DEF m
<1>11. Map!Reordered(lruOf', lruOf, {m}, {m})
  BY <1>3, <1>4, <1>9, <1>10, Zenon
<1>12. Map!Touch(m)
  BY <1>5, <1>10, <1>11 DEF Map!Touch
<1> QED BY <1>6, <1>12

\* clear() is Clear of the abstract map.
LEMMA ClearImplements ==
    ASSUME NEW u, NEW f, Sound(c, u, f, {}), Clear
    PROVE  Map!Clear
<1>1. told' = {} /\ \E g : Sound(c', << >>, g, {})
  BY ClearKeeps
<1>2. lruOf' = ListOf(c', << >>)
  BY <1>1, LruIsNext
<1>3. ListOf(c', << >>) = << >>
  BY DEF ListOf
<1>4. toldOf' = {}
  BY <1>1 DEF toldOf
<1> QED BY <1>2, <1>3, <1>4 DEF Map!Clear

\* The pool starts as the empty map.
LEMMA InitImplements == Init => Map!Init
<1> SUFFICES ASSUME Init PROVE Map!Init
  OBVIOUS
<1>1. PICK f : Sound(c, << >>, f, {})
  BY InitSound
<1>2. lruOf = ListOf(c, << >>)
  BY <1>1, LruIs
<1>3. ListOf(c, << >>) = << >>
  BY DEF ListOf
<1>4. toldOf = {}
  BY DEF Init, toldOf
<1> QED BY <1>2, <1>3, <1>4 DEF Map!Init

\* Every step of the cache is a step of the abstract map, or changes nothing.
LEMMA StepImplements == CacheInv /\ [Next]_<<c, told>> => [Map!Next]_<<lruOf, toldOf>>
<1> SUFFICES ASSUME CacheInv, [Next]_<<c, told>> PROVE [Map!Next]_<<lruOf, toldOf>>
  OBVIOUS
<1>1. PICK u, f : Sound(c, u, f, {})
  BY DEF CacheInv
<1>2. ASSUME NEW id \in Ids, NEW a \in Aliases \cup {NOT_RESPONDING}, Add(id, a)
      PROVE  Map!Next
  <2>1. Map!Add(id, a)
    BY <1>1, <1>2, AddImplements
  <2> QED BY <2>1 DEF Map!Next
<1>3. ASSUME NEW a \in Aliases, Remove(a)
      PROVE  Map!Next
  <2>1. Map!Remove(a)
    BY <1>1, <1>3, RemoveImplements
  <2> QED BY <2>1 DEF Map!Next
<1>4. ASSUME (\E id \in Ids : LookupId(id)) \/ (\E a \in Aliases : LookupAlias(a))
      PROVE  Map!Next
  <2>1. \E m \in Map!Mappings(lruOf) : Map!Touch(m)
    BY <1>1, <1>4, LookupImplements
  <2> QED BY <2>1 DEF Map!Next
<1>5. ASSUME Clear PROVE Map!Next
  <2>1. Map!Clear
    BY <1>1, <1>5, ClearImplements
  <2> QED BY <2>1 DEF Map!Next
<1>6. CASE UNCHANGED <<c, told>>
  <2>1. c' = c /\ told' = told
    BY <1>6
  <2>2. Sound(c', u, f, {})
    BY <1>1, <2>1
  <2>3. lruOf = ListOf(c, u) /\ lruOf' = ListOf(c', u)
    BY <1>1, <2>2, LruIs, LruIsNext
  <2>4. toldOf' = toldOf
    BY <2>1 DEF toldOf
  <2> QED BY <2>1, <2>3, <2>4
<1> QED BY <1>2, <1>3, <1>4, <1>5, <1>6 DEF Next

\* The linked pool behaves as the bounded LRU map of AliasMap, for a pool of any
\* size: the entry that add() evicts is the least recently used one, a new mapping
\* displaces exactly the mappings that share its node ID or alias, and those are
\* what is reported.
THEOREM CacheImplementsMap == Spec => ImplementsMap
<1>1. Init => CacheInv
  BY InitSound DEF CacheInv
<1> QED BY <1>1, CacheInvInductive, InitImplements, StepImplements, PTL
        DEF Spec, ImplementsMap, Map!Spec
-----------------------------------------------------------------------------
\* The types the walk keeps.
WalkTyped ==
    /\ pool \in [Indexes -> Entry]
    /\ nextIndex \in 0..PoolSize
    /\ state \in {"terminated", "rerun", "fill_response", "find_next"}
    /\ needRerun \in BOOLEAN

\* An entry of a node has an alias, so retrieve() finds it.
UsedHasAlias == \A i \in Indexes : pool[i].node \in Nodes => pool[i].alias # 0

OwedIsThere == owed \subseteq Mappings

Ahead(k) == {pool[i] : i \in {j \in Indexes : j >= k}}

OwedIsAhead ==
    state \in {"fill_response", "find_next"} /\ ~needRerun => owed \subseteq Ahead(nextIndex)

FlagTells ==
    /\ state = "terminated" => ~needRerun /\ owed = {}
    /\ state = "rerun" => needRerun

\* The flow waits for a buffer at an entry of the pool.
StopsAtEntry == state = "fill_response" => nextIndex \in Indexes

WalkInv == /\ WalkTyped /\ UsedHasAlias /\ OwedIsThere
           /\ OwedIsAhead /\ FlagTells /\ StopsAtEntry

\* find_next() stops at the first entry that is left.
LEMMA FollowingIsFirst ==
    ASSUME NEW k \in Nat, Left(k) # {}
    PROVE  Following(k) \in Left(k) /\ \A j \in Left(k) : Following(k) <= j
<1>1. Left(k) \subseteq Nat
  BY ResponderAssumption DEF Left, Indexes, ResponderAssumption
<1>2. PICK i \in Left(k) : \A j \in Left(k) : i <= j
  BY <1>1, LeastIndex
<1> QED BY <1>2 DEF Following

\* What is owed at or after index k is at or after the next stop, and nothing
\* is owed when there is none.
LEMMA NothingSkipped ==
    ASSUME WalkInv, NEW k \in Nat, owed \subseteq Ahead(k)
    PROVE  /\ Left(k) # {} => Following(k) \in Indexes /\ owed \subseteq Ahead(Following(k))
           /\ Left(k) = {} => owed = {}
<1>1. ASSUME NEW m \in owed PROVE \E i \in Left(k) : pool[i] = m
  <2>1. PICK i \in Indexes : i >= k /\ pool[i] = m
    BY DEF Ahead
  <2>2. m.node \in Nodes
    BY DEF WalkInv, OwedIsThere, Mappings
  <2>3. i \in Left(k)
    BY <2>1, <2>2 DEF WalkInv, UsedHasAlias, Left, Retrieve
  <2> QED BY <2>1, <2>3
<1>2. ASSUME Left(k) # {} PROVE Following(k) \in Indexes /\ owed \subseteq Ahead(Following(k))
  <2>1. Following(k) \in Left(k) /\ \A j \in Left(k) : Following(k) <= j
    BY <1>2, FollowingIsFirst
  <2>2. Left(k) \subseteq Indexes /\ Indexes \subseteq Int
    BY DEF Left, Indexes
  <2>3. \A j \in Left(k) : j >= Following(k)
    BY <2>1, <2>2
  <2> QED BY <1>1, <2>1, <2>2, <2>3 DEF Ahead
<1> QED BY <1>1, <1>2

\* find_next() keeps the invariant when it goes on at index k and the rest of
\* the step leaves pool and owed alone.
LEMMA FindNextKeeps ==
    ASSUME WalkInv, NEW k \in 0..PoolSize, ~needRerun => owed \subseteq Ahead(k),
           FindNext(k), UNCHANGED <<pool, owed>>
    PROVE  WalkInv'
<1>0. PoolSize \in Nat /\ k \in Nat /\ 0 \in Nat /\ Indexes \subseteq 0..PoolSize
  BY ResponderAssumption DEF ResponderAssumption, Indexes
<1>1. owed \subseteq Ahead(0)
  BY <1>0 DEF WalkInv, OwedIsThere, Mappings, Ahead, Indexes
<1>2. UsedHasAlias' /\ OwedIsThere'
  BY DEF WalkInv, UsedHasAlias, OwedIsThere, Mappings
<1>3. Left(k) # {} => Following(k) \in Indexes
  BY <1>0, FollowingIsFirst DEF Left
<1>4. Left(0) # {} => Following(0) \in Indexes
  BY <1>0, FollowingIsFirst DEF Left
<1>5. WalkTyped'
  <2>1. pool' \in [Indexes -> Entry]
    BY DEF WalkInv, WalkTyped
  <2>2. nextIndex' \in 0..PoolSize
    <3>1. PoolSize \in 0..PoolSize
      BY <1>0
    <3>2. \/ Left(k) # {} /\ nextIndex' = Following(k)
          \/ Left(0) # {} /\ nextIndex' = Following(0)
          \/ nextIndex' = PoolSize
      BY Zenon DEF FindNext
    <3> QED BY <1>0, <1>3, <1>4, <3>1, <3>2, Zenon
  <2>3. state' \in {"terminated", "rerun", "fill_response", "find_next"}
    BY DEF FindNext
  <2>4. needRerun' \in BOOLEAN
    <3>1. needRerun' = needRerun \/ needRerun' = FALSE
      BY Zenon DEF FindNext
    <3> QED BY <3>1, Zenon DEF WalkInv, WalkTyped
  <2> QED BY <2>1, <2>2, <2>3, <2>4 DEF WalkTyped
<1>6. CASE Left(k) # {}
  <2>1. ~needRerun => owed \subseteq Ahead(Following(k))
    BY <1>0, <1>6, NothingSkipped
  <2> QED BY <1>2, <1>3, <1>5, <1>6, <2>1 DEF WalkInv, OwedIsAhead, FlagTells,
          StopsAtEntry, FindNext, Ahead
<1>7. CASE Left(k) = {} /\ ~needRerun
  <2>1. owed = {}
    BY <1>0, <1>7, NothingSkipped
  <2> QED BY <1>2, <1>5, <1>7, <2>1 DEF WalkInv, OwedIsAhead, FlagTells,
          StopsAtEntry, FindNext
<1>8. CASE Left(k) = {} /\ needRerun
  <2>1. CASE Left(0) # {}
    <3>1. owed \subseteq Ahead(Following(0))
      BY <1>0, <1>1, <2>1, NothingSkipped
    <3> QED BY <1>2, <1>4, <1>5, <1>8, <2>1, <3>1 DEF WalkInv, OwedIsAhead, FlagTells,
          StopsAtEntry, FindNext, Ahead
  <2>2. CASE Left(0) = {}
    <3>1. owed = {}
      BY <1>0, <1>1, <2>2, NothingSkipped
    <3> QED BY <1>2, <1>5, <1>8, <2>2, <3>1 DEF WalkInv, OwedIsAhead, FlagTells,
          StopsAtEntry, FindNext
  <2> QED BY <2>1, <2>2
<1> QED BY <1>6, <1>7, <1>8 DEF WalkInv, WalkTyped

\* The invariant holds at the start and every step keeps it.
LEMMA WalkInvInductive ==
    /\ ResponderInit => WalkInv
    /\ WalkInv /\ [ResponderNext]_responderVars => WalkInv'
<1>1. ASSUME ResponderInit PROVE WalkInv
  <2>1. [node |-> "none", alias |-> 0] \in Entry
    BY DEF Entry
  <2>2. pool \in [Indexes -> Entry] /\ \A i \in Indexes : pool[i].node = "none"
    BY <1>1, <2>1 DEF ResponderInit
  <2>3. nextIndex \in 0..PoolSize
    BY <1>1, ResponderAssumption DEF ResponderInit, ResponderAssumption
  <2>4. UsedHasAlias
    BY <2>2, ResponderAssumption DEF UsedHasAlias, ResponderAssumption
  <2>5. state = "terminated" /\ needRerun = FALSE /\ owed = {}
    BY <1>1 DEF ResponderInit
  <2> QED BY <2>2, <2>3, <2>4, <2>5
          DEF WalkInv, WalkTyped, OwedIsThere, OwedIsAhead, FlagTells, StopsAtEntry
<1>2. ASSUME WalkInv, [ResponderNext]_responderVars PROVE WalkInv'
  <2>1. CASE Rerun
    <3>1. PoolSize \in 0..PoolSize /\ needRerun
      BY <1>2, <2>1, ResponderAssumption DEF ResponderAssumption, Rerun, WalkInv, FlagTells
    <3> QED BY <1>2, <2>1, <3>1, FindNextKeeps DEF Rerun
  <2>2. CASE FillResponse /\ ~Retrieve(nextIndex)
    BY <1>2, <2>2, FindNextKeeps DEF FillResponse, WalkInv, WalkTyped, OwedIsAhead
  <2>3. CASE FillResponse /\ Retrieve(nextIndex)
    <3>1. /\ state = "fill_response" /\ state' = "find_next"
          /\ nextIndex' = nextIndex + 1 /\ owed' = owed \ {pool[nextIndex]}
          /\ pool' = pool /\ needRerun' = needRerun
      BY <2>3 DEF FillResponse
    <3>2. nextIndex + 1 \in 0..PoolSize
      BY <1>2, <3>1, ResponderAssumption
      DEF ResponderAssumption, WalkInv, WalkTyped, StopsAtEntry, Indexes
    <3>3. WalkTyped'
      BY <1>2, <3>1, <3>2 DEF WalkInv, WalkTyped
    <3>4. UsedHasAlias' /\ OwedIsThere' /\ FlagTells' /\ StopsAtEntry'
      BY <1>2, <3>1 DEF WalkInv, UsedHasAlias, OwedIsThere, FlagTells, Mappings, StopsAtEntry
    <3>5. ASSUME ~needRerun, NEW m \in owed' PROVE m \in Ahead(nextIndex + 1)
      <4>1. PICK i \in Indexes : i >= nextIndex /\ pool[i] = m
        BY <1>2, <3>1, <3>5 DEF WalkInv, OwedIsAhead, Ahead
      <4>2. i # nextIndex
        BY <3>1, <4>1
      <4>3. i >= nextIndex + 1
        BY <1>2, <4>1, <4>2 DEF WalkInv, WalkTyped, Indexes
      <4> QED BY <4>1, <4>3 DEF Ahead
    <3>6. OwedIsAhead'
      BY <3>1, <3>5 DEF OwedIsAhead, Ahead
    <3> QED BY <3>3, <3>4, <3>6 DEF WalkInv
  <2>4. CASE Continue
    BY <1>2, <2>4, FindNextKeeps DEF Continue, WalkInv, WalkTyped, OwedIsAhead
  <2>5. CASE Send
    BY <1>2, <2>5 DEF Send, WalkInv, WalkTyped, UsedHasAlias, OwedIsThere, OwedIsAhead,
       FlagTells, StopsAtEntry, Mappings
  <2>6. ASSUME NEW i \in Indexes, NEW n \in Nodes \cup {"reserved"}, NEW a \in LocalAliases,
               AddEntry(i, n, a)
        PROVE  WalkInv'
    <3>1. /\ pool[i].node = "none"
          /\ pool' = [pool EXCEPT ![i] = [node |-> n, alias |-> a]]
          /\ UNCHANGED <<state, nextIndex, needRerun, owed>>
      BY <2>6 DEF AddEntry, InUse
    <3>2. [node |-> n, alias |-> a] \in Entry /\ a # 0
      BY ResponderAssumption DEF ResponderAssumption, Entry
    <3>3. WalkTyped' /\ UsedHasAlias'
      BY <1>2, <3>1, <3>2 DEF WalkInv, WalkTyped, UsedHasAlias
    <3>4. \A m \in owed : \A j \in Indexes : pool[j] = m => pool'[j] = m
      BY <1>2, <3>1, ResponderAssumption
      DEF ResponderAssumption, WalkInv, WalkTyped, OwedIsThere, Mappings
    <3>5. OwedIsThere'
      BY <1>2, <3>1, <3>4 DEF WalkInv, OwedIsThere, Mappings
    <3>6. OwedIsAhead'
      BY <1>2, <3>1, <3>4 DEF WalkInv, OwedIsAhead, Ahead
    <3>7. FlagTells' /\ StopsAtEntry'
      BY <1>2, <3>1 DEF WalkInv, FlagTells, StopsAtEntry
    <3> QED BY <3>3, <3>5, <3>6, <3>7 DEF WalkInv
  <2>7. ASSUME NEW i \in Indexes, RemoveEntry(i) PROVE WalkInv'
    <3>1. /\ pool' = [pool EXCEPT ![i].node = "none"]
          /\ owed' = owed \ {pool[i]}
          /\ UNCHANGED <<state, nextIndex, needRerun>>
      BY <2>7 DEF RemoveEntry
    <3>2. /\ pool'[i] = [pool[i] EXCEPT !.node = "none"]
          /\ pool'[i] \in Entry /\ pool'[i].node = "none"
          /\ \A j \in Indexes \ {i} : pool'[j] = pool[j]
      BY <1>2, <3>1 DEF WalkInv, WalkTyped, Entry
    <3>3. WalkTyped'
      BY <1>2, <3>1, <3>2 DEF WalkInv, WalkTyped
    <3>4. UsedHasAlias'
      BY <1>2, <3>2, ResponderAssumption DEF ResponderAssumption, WalkInv, UsedHasAlias
    <3>5. \A m \in owed' : m \in owed /\ \A j \in Indexes : pool[j] = m => pool'[j] = m
      BY <3>1, <3>2
    <3>6. OwedIsThere'
      BY <1>2, <3>5 DEF WalkInv, OwedIsThere, Mappings
    <3>7. OwedIsAhead'
      BY <1>2, <3>1, <3>5 DEF WalkInv, OwedIsAhead, Ahead
    <3>8. FlagTells' /\ StopsAtEntry'
      BY <1>2, <3>1 DEF WalkInv, FlagTells, StopsAtEntry
    <3> QED BY <3>3, <3>4, <3>6, <3>7, <3>8 DEF WalkInv
  <2>8. CASE UNCHANGED responderVars
    BY <1>2, <2>8 DEF responderVars, WalkInv, WalkTyped, UsedHasAlias, OwedIsThere, OwedIsAhead,
       FlagTells, StopsAtEntry, Mappings, Ahead
  <2> QED BY <1>2, <2>1, <2>2, <2>3, <2>4, <2>5, <2>6, <2>7, <2>8 DEF ResponderNext, Flow
<1> QED BY <1>1, <1>2

\* When the flow of AMEGlobalQueryHandler ends, every mapping that was in the
\* cache at the last enquiry and still is there has been announced since.
THEOREM NoAliasForgotten == ResponderSpec => []EveryAliasAnnounced
<1>1. WalkInv => EveryAliasAnnounced
  BY DEF WalkInv, FlagTells, EveryAliasAnnounced
<1> QED BY <1>1, WalkInvInductive, PTL DEF ResponderSpec

Bounded == enquiries \in 0..MaxEnquiries /\ changes \in 0..MaxChanges

\* The pool, the flow and its index keep their types: the index never leaves
\* the pool and its end, and the flow waits for a frame buffer at an entry.
THEOREM ResponderTypeCorrect == ResponderSpec => []ResponderTypeOK
<1>1. WalkInv /\ Bounded => ResponderTypeOK
  BY DEF WalkInv, WalkTyped, StopsAtEntry, Bounded, ResponderTypeOK
<1>2. ResponderInit => Bounded
  BY ResponderAssumption DEF ResponderAssumption, ResponderInit, Bounded
<1>3. Bounded /\ [ResponderNext]_responderVars => Bounded'
  BY ResponderAssumption
  DEF ResponderAssumption, Bounded, ResponderNext, Flow, Rerun, FillResponse, Continue,
      Send, AddEntry, RemoveEntry, responderVars
<1> QED BY <1>1, <1>2, <1>3, WalkInvInductive, PTL DEF ResponderSpec
=============================================================================

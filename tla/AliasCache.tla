----------------------------- MODULE AliasCache -----------------------------
(***************************************************************************)
(* openlcb/AliasCache.{hxx,cpp}: the pool of Metadata entries threaded by  *)
(* a doubly linked LRU list and a free list, and the two sorted index sets *)
(* aliasMap and idMap.  Slots of the pool are 0..Entries-1; a PoolIdx is a *)
(* slot or NONE.  The sorted sets are sets of slots; find() looks up the   *)
(* slot whose Metadata has the key, which is what their comparators do.    *)
(***************************************************************************)
EXTENDS Integers, Sequences, FiniteSets

CONSTANTS
    Ids,            \* node IDs, not 0
    Aliases,        \* proper aliases, positive numbers
    NOT_RESPONDING, \* 0xF000: larger than any alias
    Entries         \* number of pool entries

ASSUME CacheAssumption ==
    /\ 0 \notin Ids
    /\ Aliases \subseteq Nat \ {0}
    /\ NOT_RESPONDING \in Nat
    /\ \A a \in Aliases : a < NOT_RESPONDING
    /\ Entries \in Nat \ {0}

Slots == 0..(Entries - 1)
NONE == -1

VARIABLES
    c,      \* the object: pool's fields by slot, the index sets, the list ends
    told    \* the mappings the last call found, or gave to removeCallback

\* resolve_notresponding()
Resolve(stored) == IF stored >= NOT_RESPONDING THEN NOT_RESPONDING ELSE stored

\* clear(): every entry goes to the free list; node ID and alias stay.
Cleared(nodes, aliases) ==
    [node     |-> nodes,
     alias    |-> aliases,
     newer    |-> [s \in Slots |-> NONE],
     older    |-> [s \in Slots |-> s - 1],
     aliasMap |-> {}, idMap |-> {},
     oldest   |-> NONE, newest |-> NONE,
     freeList |-> Entries - 1]

Init ==
    /\ c = Cleared([s \in Slots |-> 0], [s \in Slots |-> 0])
    /\ told = {}

\* aliasMap.find(), idMap.find(): NONE stands for end().
FindAlias(k, a) ==
    IF \E s \in k.aliasMap : k.alias[s] = a
    THEN CHOOSE s \in k.aliasMap : k.alias[s] = a ELSE NONE
FindId(k, id) ==
    IF \E s \in k.idMap : k.node[s] = id
    THEN CHOOSE s \in k.idMap : k.node[s] = id ELSE NONE

\* p->field = v when p points somewhere.
Store(f, p, v) == IF p = NONE THEN f ELSE [f EXCEPT ![p] = v]
-----------------------------------------------------------------------------
\* Mutant: remove() leaves newest where it was.
Unlink_KeepNewest(k, s) ==
    [k EXCEPT
        !.aliasMap = @ \ {s},
        !.idMap = @ \ {s},
        !.node = [@ EXCEPT ![s] = 0],
        !.newer = Store(@, k.older[s], k.newer[s]),
        !.older = [Store(@, k.newer[s], k.older[s]) EXCEPT ![s] = k.freeList],
        !.oldest = IF @ = s THEN k.newer[s] ELSE @,
        !.freeList = s]

\* remove(), of the entry in slot s: out of both sets and of the LRU list,
\* node ID zeroed, to the free list.  alias_ stays.
Unlink(k, s) ==
    [k EXCEPT
        !.aliasMap = @ \ {s},
        !.idMap = @ \ {s},
        !.node = [@ EXCEPT ![s] = 0],
        !.newer = Store(@, k.older[s], k.newer[s]),
        !.older = [Store(@, k.newer[s], k.older[s]) EXCEPT ![s] = k.freeList],
        !.newest = IF @ = s THEN k.older[s] ELSE @,
        !.oldest = IF @ = s THEN k.newer[s] ELSE @,
        !.freeList = s]

RemoveFrom(k, a) == IF FindAlias(k, a) = NONE THEN k ELSE Unlink(k, FindAlias(k, a))

\* What a call says of slot s.
Report(k, s) == IF s = NONE THEN {} ELSE {<<k.node[s], k.alias[s]>>}

\* add(), the eviction of the oldest entry when there is no free one.
Evict(k) ==
    LET s == k.oldest
        second == k.newer[s]
    IN  [k EXCEPT
            !.older = Store(@, second, NONE),
            !.newest = IF @ = s THEN NONE ELSE @,
            !.oldest = second,
            !.aliasMap = @ \ {s},
            !.idMap = @ \ {s}]

\* add(), the new mapping in slot s as the newest.
Link(k, s, id, a) ==
    [k EXCEPT
        !.node = [@ EXCEPT ![s] = id],
        !.alias = [@ EXCEPT ![s] = a],
        !.aliasMap = @ \cup {s},
        !.idMap = @ \cup {s},
        !.newer = [Store(@, k.newest, s) EXCEPT ![s] = NONE],
        !.older = [@ EXCEPT ![s] = k.newest],
        !.oldest = IF k.newest = NONE THEN s ELSE @,
        !.newest = s]

\* add(id, alias)
Add(id, a) ==
    LET byAlias == IF a = NOT_RESPONDING THEN NONE ELSE FindAlias(c, a)
        k1 == IF byAlias = NONE THEN c ELSE Unlink(c, byAlias)
        byId == FindId(k1, id)
        k2 == IF byId = NONE THEN k1 ELSE Unlink(k1, byId)
        full == k2.freeList = NONE
        s  == IF full THEN k2.oldest ELSE k2.freeList
        k3 == IF full THEN Evict(k2) ELSE [k2 EXCEPT !.freeList = k2.older[s]]
        stored == IF a = NOT_RESPONDING THEN NOT_RESPONDING + s ELSE a
    IN  /\ c' = Link(k3, s, id, stored)
        /\ told' = Report(c, byAlias) \cup Report(k1, byId)
                   \cup (IF full THEN Report(k2, s) ELSE {})

\* remove(alias)
Remove(a) ==
    /\ c' = RemoveFrom(c, a)
    /\ told' = {}

\* Mutant: touch() does not move the entry.
TouchSlot_Stays(k, s) == k

\* touch()
TouchSlot(k, s) ==
    IF s = k.newest THEN k
    ELSE [k EXCEPT
            !.oldest = IF @ = s THEN k.newer[s] ELSE @,
            !.newer = [Store(@, k.older[s], k.newer[s]) EXCEPT
                          ![s] = NONE, ![k.newest] = s],
            !.older = [@ EXCEPT ![k.newer[s]] = k.older[s], ![s] = k.newest],
            !.newest = s]

\* lookup(id) and lookup(alias) that find something; generate() calls the
\* second.  A lookup that finds nothing changes nothing.
LookupId(id) ==
    /\ FindId(c, id) # NONE
    /\ c' = TouchSlot(c, FindId(c, id))
    /\ told' = Report(c, FindId(c, id))
LookupAlias(a) ==
    /\ FindAlias(c, a) # NONE
    /\ c' = TouchSlot(c, FindAlias(c, a))
    /\ told' = Report(c, FindAlias(c, a))

\* clear()
Clear ==
    /\ c' = Cleared(c.node, c.alias)
    /\ told' = {}

Next ==
    \/ \E id \in Ids, a \in Aliases \cup {NOT_RESPONDING} : Add(id, a)
    \/ \E a \in Aliases : Remove(a)
    \/ \E id \in Ids : LookupId(id)
    \/ \E a \in Aliases : LookupAlias(a)
    \/ Clear

Spec == Init /\ [][Next]_<<c, told>>
-----------------------------------------------------------------------------
\* The slots met when the pointers next are followed from p, at most n.
Follow(next, p, n) ==
    LET step[k \in 0..n] ==
          IF k = 0 THEN IF p = NONE THEN << >> ELSE <<p>>
          ELSE LET w == step[k - 1] IN
               IF Len(w) < k \/ next[w[k]] = NONE THEN w
               ELSE Append(w, next[w[k]])
    IN  step[n]

\* for_each() visits the LRU list from the newest entry to the oldest.
Used == Follow(c.older, c.newest, Entries)
Free == Follow(c.older, c.freeList, Entries)

\* retrieve(entry): whether it returns true.
Retrieves(s) == c.alias[s] # 0

lruOf == LET u == Used IN
    [i \in 1..Len(u) |-> [id |-> c.node[u[i]], alias |-> Resolve(c.alias[u[i]])]]
toldOf == {[id |-> t[1], alias |-> Resolve(t[2])] : t \in told}

\* The abstract map the cache implements.
Map == INSTANCE AliasMap WITH lru <- lruOf, told <- toldOf

\* Every operation on the linked pool is an operation of the LRU map: the
\* entry evicted is the least recently used one, a new mapping displaces the
\* mappings that share its node ID or alias, and exactly those are reported.
ImplementsMap == Map!Spec
-----------------------------------------------------------------------------
\* Type correctness of the pool and of the list ends.
TypeOK ==
    /\ c.node \in [Slots -> Ids \cup {0}]
    /\ c.alias \in [Slots -> Nat]
    /\ c.newer \in [Slots -> Slots \cup {NONE}]
    /\ c.older \in [Slots -> Slots \cup {NONE}]
    /\ c.aliasMap \subseteq Slots /\ c.idMap \subseteq Slots
    /\ {c.oldest, c.newest, c.freeList} \subseteq Slots \cup {NONE}

\* What check_consistency() tests, with the types it takes for granted: used
\* and free entries share out the pool, the LRU list links exactly the used
\* ones in both directions, and both index sets find every used entry by its
\* key.
Consistent ==
    LET used == Used
        free == Free
        usedSet == {used[i] : i \in 1..Len(used)}
        freeSet == {free[i] : i \in 1..Len(free)}
    IN  /\ TypeOK
        /\ c.idMap = usedSet /\ c.aliasMap = usedSet
        /\ usedSet \cap freeSet = {} /\ usedSet \cup freeSet = Slots
        /\ Len(used) = Cardinality(usedSet) /\ Len(free) = Cardinality(freeSet)
        /\ c.freeList = NONE <=> Len(used) = Entries
        /\ c.oldest = IF used = << >> THEN NONE ELSE used[Len(used)]
        /\ used # << >> => c.newer[c.newest] = NONE /\ c.older[c.oldest] = NONE
        /\ \A i \in 1..(Len(used) - 1) : c.newer[used[i + 1]] = used[i]
        /\ \A s \in usedSet : /\ FindId(c, c.node[s]) = s
                              /\ FindAlias(c, c.alias[s]) = s

\* retrieve() returns "true if the entry is valid, and node and alias were
\* filled, otherwise false if the entry is not allocated" (AliasCache.hxx:161).
RetrieveOnlyAllocated == \A s \in Slots : Retrieves(s) => s \in c.idMap
=============================================================================

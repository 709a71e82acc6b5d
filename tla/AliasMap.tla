------------------------------ MODULE AliasMap ------------------------------
(***************************************************************************)
(* What AliasCache promises: a bounded map between node IDs and aliases,   *)
(* one-to-one except that any number of nodes may be "not responding",     *)
(* kept in the order of last use, the least recently used entry making     *)
(* room for a new one, and a report of every mapping that add() displaced. *)
(***************************************************************************)
EXTENDS Naturals, Sequences

CONSTANTS
    Ids,            \* node IDs, not 0
    Aliases,        \* proper aliases, not 0
    NOT_RESPONDING, \* the alias of a node that does not answer
    Entries         \* capacity

VARIABLES
    lru,            \* the mappings, most recently used first
    told            \* the mappings the last call found or displaced

Mapping == [id : Ids, alias : Aliases \cup {NOT_RESPONDING}]

Mappings(l) == {l[i] : i \in 1..Len(l)}

Init == lru = << >> /\ told = {}

\* Mapping x was used more recently than y.
Ahead(l, x, y) == \E i, j \in 1..Len(l) : i < j /\ l[i] = x /\ l[j] = y

\* The mappings in gone leave the list old, those in front enter it before
\* the others, which keep their order.
Reordered(new, old, front, gone) ==
    LET rest == Mappings(old) \ gone
    IN  /\ new \in Seq(Mapping)
        /\ Mappings(new) = front \cup rest
        /\ \A x, y \in front \cup rest :
              Ahead(new, x, y) <=> /\ y \in rest
                                   /\ x \in front \/ Ahead(old, x, y)

\* The mappings a new one for id and alias a displaces.
Conflicting(l, id, a) ==
    {m \in Mappings(l) : m.id = id \/ (a # NOT_RESPONDING /\ m.alias = a)}

\* The new mapping is the most recently used one.  When it displaces none
\* and the map is full, the least recently used mapping goes.
Add(id, a) ==
    LET old == lru
        new == lru'
        clash == Conflicting(old, id, a)
        gone == IF clash = {} /\ Len(old) = Entries THEN {old[Entries]} ELSE clash
    IN  /\ told' = gone
        /\ Reordered(new, old, {[id |-> id, alias |-> a]}, gone)

Remove(a) ==
    LET old == lru
        new == lru'
    IN  /\ told' = {}
        /\ Reordered(new, old, {}, {m \in Mappings(old) : m.alias = a})

\* A successful lookup makes the mapping the most recently used one.
Touch(m) ==
    LET old == lru
        new == lru'
    IN  /\ told' = {m}
        /\ Reordered(new, old, {m}, {m})

Clear == lru' = << >> /\ told' = {}

Next ==
    \/ \E id \in Ids, a \in Aliases \cup {NOT_RESPONDING} : Add(id, a)
    \/ \E a \in Aliases : Remove(a)
    \/ LET old == lru IN \E m \in Mappings(old) : Touch(m)
    \/ Clear

Spec == Init /\ [][Next]_<<lru, told>>
=============================================================================

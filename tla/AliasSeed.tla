------------------------------ MODULE AliasSeed ------------------------------
(***************************************************************************)
(* The sequence of aliases an AliasAllocator tries (AliasAllocator.cpp:    *)
(* reinit_seed(), next_seed(), get_new_seed()), for allocators whose node  *)
(* IDs may be close to each other.  AliasAllocation abstracts this         *)
(* sequence to any alias that is free.                                     *)
(*                                                                         *)
(* A 48-bit node ID is four digits of 12 bits, if_id_ >> 36 the first one. *)
(* seed_ is a bit field of 12 bits, so each shift keeps 12 bits of it.     *)
(***************************************************************************)
EXTENDS Naturals, Bitwise

CONSTANTS
    Allocators,     \* one per interface
    IdSets,         \* node IDs the allocators may have, [Allocators -> ID]
    Taken,          \* aliases the local or the remote cache knows
    MaxDraws        \* bound: aliases an allocator tries, by allocator

W == 4096

ASSUME SeedAssumption ==
    /\ Taken \subseteq 1..(W - 1)
    /\ MaxDraws \in [Allocators -> Nat]
    /\ IdSets \subseteq [Allocators -> [1..4 -> 0..(W - 1)]]

VARIABLES
    id,         \* if_id_
    seed,       \* seed_
    cand,       \* what get_new_seed() returned, 0 before that
    draws       \* how often next_seed() was called

vars == <<id, seed, cand, draws>>

\* 12 bits of the ID from 6 bits below digit k.
Across(d, k) == (d[k] * 64 + d[k + 1] \div 64) % W

\* reinit_seed(); the last term is the ID rotated by 6.
ReinitSeed(d) ==
    ((Across(d, 1) ^^ Across(d, 2)) ^^ Across(d, 3))
        ^^ ((d[1] \div 64) | ((d[4] * 64) % W))

\* Mutant: the offset may be even.
Offset_Even(d) == (2 * (((d[1] ^^ d[2]) ^^ d[3]) ^^ d[4])) % W

\* Mutant: the lowest digit, in which near IDs differ, is left out.
Offset_NoLowDigit(d) == (2 * ((d[1] ^^ d[2]) ^^ d[3]) + 1) % W

\* next_seed(): the distance to the next alias, odd.
Offset(d) == (2 * (((d[1] ^^ d[2]) ^^ d[3]) ^^ d[4]) + 1) % W

NextSeed(n) == (seed[n] + Offset(id[n])) % W

Init ==
    /\ id \in IdSets
    /\ seed = [n \in Allocators |-> ReinitSeed(id[n])]
    /\ cand = [n \in Allocators |-> 0]
    /\ draws = [n \in Allocators |-> 0]

\* One turn of the loop of get_new_seed(): an alias that is not usable is
\* passed over.
Tried(n) == IF seed[n] \in Taken THEN 0 ELSE seed[n]

\* get_new_seed() for another alias of this interface.
GetNewSeed(n) ==
    /\ draws[n] < MaxDraws[n]
    /\ cand' = [cand EXCEPT ![n] = Tried(n)]
    /\ seed' = [seed EXCEPT ![n] = NextSeed(n)]
    /\ draws' = [draws EXCEPT ![n] = @ + 1]
    /\ UNCHANGED id

\* Two allocators try the same alias at the same time: each sees the frames
\* of the other and draws again.
Conflict ==
    /\ \A n, m \in Allocators : cand[n] = cand[m]
    /\ \A n \in Allocators : cand[n] # 0 /\ draws[n] < MaxDraws[n]
    /\ cand' = [n \in Allocators |-> Tried(n)]
    /\ seed' = [n \in Allocators |-> NextSeed(n)]
    /\ draws' = [n \in Allocators |-> draws[n] + 1]
    /\ UNCHANGED id

Next == Conflict \/ \E n \in Allocators : GetNewSeed(n)

Spec == Init /\ [][Next]_vars
-----------------------------------------------------------------------------
\* "It is also guaranteed that we will generate every single possible alias
\* before generating a duplicate (the cycle length is always 2^12)."
\* (AliasAllocator.cpp, next_seed()): so an alias that is free is found.
NoEarlyRepeat ==
    \A n \in Allocators :
        /\ draws[n] \in 1..(W - 1) => seed[n] # ReinitSeed(id[n])
        /\ draws[n] = W => seed[n] = ReinitSeed(id[n])

\* The IDs d and e differ in their lowest 11 bits only.
SameBlock(d, e) ==
    /\ \A k \in 1..3 : d[k] = e[k]
    /\ d[4] \div 2048 = e[4] \div 2048

\* After a conflict, two allocators whose node IDs lie in one aligned block of
\* 2048 try different aliases (next_seed()): whatever the upper digits are and
\* wherever in the cycle they meet, the offsets differ.  The code's comment says
\* it of any IDs within 2048 of each other, which is not so: a carry into the next
\* digit can cancel the difference.
DifferentAfterConflict ==
    [][Conflict => \A n, m \in Allocators :
            n # m /\ SameBlock(id[n], id[m]) => cand'[n] # cand'[m] \/ cand'[n] = 0]_vars
=============================================================================

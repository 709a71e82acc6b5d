---------------------------- MODULE MCAliasSeed ----------------------------
(***************************************************************************)
(* Small instances of AliasSeed for TLC: pairs of node IDs of the range    *)
(* 05.01.01.0x.xx.xx.                                                      *)
(***************************************************************************)
EXTENDS AliasSeed, TLC

Id(k, l) == <<80, 257, k, l>>

Pair(k1, l1, k2, l2) == 1 :> Id(k1, l1) @@ 2 :> Id(k2, l2)

\* Pairs of one block of 2048, in its lower and upper half and with carries
\* through one, several and all of the lowest 11 bits.
InOneBlock ==
    {Pair(16, 0, 16, l) : l \in {1, 2, 1024, 2047}}
    \cup {Pair(16, 5, 16, 6), Pair(18, 1023, 18, 1024), Pair(18, 1365, 18, 682),
          Pair(17, 2048, 17, 4095), Pair(17, 2111, 17, 2112), Pair(4095, 4094, 4095, 4095)}

\* Pairs less than 2048 apart in different blocks.  Those of the second one have
\* the same offset, so that DifferentAfterConflict says nothing of it.
AcrossBlocks == {Pair(16, 2047, 16, 2048), Pair(17, 2111, 18, 60)}

NearIds == InOneBlock \cup AcrossBlocks

\* The first allocator goes all the way round.
OneRound == 1 :> W @@ 2 :> 2
=============================================================================

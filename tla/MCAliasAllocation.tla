------------------------- MODULE MCAliasAllocation -------------------------
(***************************************************************************)
(* Small instances of AliasAllocation for TLC.  Aliases are ordered, nodes *)
(* and flows are interchangeable.                                          *)
(***************************************************************************)
EXTENDS AliasAllocation, TLC

Sym == Permutations(Nodes) \cup Permutations(Flows)
=============================================================================

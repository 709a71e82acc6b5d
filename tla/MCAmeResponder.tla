--------------------------- MODULE MCAmeResponder ---------------------------
(***************************************************************************)
(* Small instances of AmeResponder for TLC.                                *)
(***************************************************************************)
EXTENDS AmeResponder, TLC

Sym == Permutations(Nodes)
=============================================================================

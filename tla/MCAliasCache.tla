---------------------------- MODULE MCAliasCache ----------------------------
(***************************************************************************)
(* Small instances of AliasCache for TLC.  Node IDs are only compared, so  *)
(* they are interchangeable; aliases are numbers.                          *)
(***************************************************************************)
EXTENDS AliasCache, TLC

Sym == Permutations(Ids)
=============================================================================

-------------------------- MODULE MCAddressedWrite --------------------------
(***************************************************************************)
(* Small instances of AddressedWrite for TLC.                              *)
(***************************************************************************)
EXTENDS AddressedWrite, TLC

Sym == Permutations(Dsts)
=============================================================================

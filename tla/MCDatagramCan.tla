---------------------------- MODULE MCDatagramCan ----------------------------
(***************************************************************************)
(* Small instances of DatagramCan for TLC: frames of two bytes, datagrams  *)
(* of at most six.                                                         *)
(***************************************************************************)
EXTENDS DatagramCan, TLC

Sym == Permutations(Senders)
=============================================================================

-------------------------- MODULE MCDatagramClient --------------------------
(***************************************************************************)
(* Small instances of DatagramClient for TLC.                              *)
(***************************************************************************)
EXTENDS DatagramClient
=============================================================================

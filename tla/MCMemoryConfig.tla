---------------------------- MODULE MCMemoryConfig ----------------------------
(* Instances of MemoryConfig for TLC.                                      *)
EXTENDS MemoryConfig

CONSTANTS na, nb

Request(cmd, src, dst, space, addr, size) ==
    [cmd |-> cmd, src |-> src, dst |-> dst, space |-> space, addr |-> addr,
     size |-> size]

\* Two nodes that ask each other: a part of a space and its end are read, a
\* read and a write take two datagrams, a command has no reply.
ExchangeRequests ==
    {Request("READ", na, nb, "rw", 0, 3), Request("READ", nb, na, "ro", 3, Whole),
     Request("WRITE", na, nb, "rw", 0, 3), Request("META", nb, na, "rw", 0, 0)}

\* Each node has one datagram client, or one of them a second one, which its
\* handler can answer with while its client asks.
ExchangePools == {[n \in Nodes |-> 1], [n \in Nodes |-> IF n = na THEN 2 ELSE 1]}
=============================================================================

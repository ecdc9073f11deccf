----------------------------- MODULE MCVirtioBlk -----------------------------
(* VirtioBlk with reads, writes of two values, one request of a type the   *)
(* device does not know, and one chain that is not contiguous.             *)
EXTENDS VirtioBlk

CONSTANTS x, a, b

MCRequests ==
  LET chain(op, v, linked) ==
        [op |-> op, sector |-> x, val |-> v, status |-> "sent", linked |-> linked]
  IN  {chain("IN", a, TRUE), chain("OUT", a, TRUE), chain("OUT", b, TRUE),
       chain("OTHER", a, TRUE), chain("IN", a, FALSE)}
=============================================================================

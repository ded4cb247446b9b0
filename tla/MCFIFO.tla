------------------------------- MODULE MCFIFO -------------------------------
(* Values of FIFO's constants for TLC. *)
EXTENDS FIFO

ZeroOrNobody == {Self, NoPid}
=============================================================================

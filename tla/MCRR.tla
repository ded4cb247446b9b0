-------------------------------- MODULE MCRR --------------------------------
(* Values of RR's constants for TLC. *)
EXTENDS RR

ZeroOrNobody == {Self, NoPid}
OnlyZero     == {Self}
=============================================================================

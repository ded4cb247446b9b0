-------------------------------- MODULE MCSJF -------------------------------
(* Values of SJF's constants for TLC. *)
EXTENDS SJF

OnlyZero == {Self}
=============================================================================

--------------------------- MODULE MCAioElevator ---------------------------
(* Values of the constants of AioElevator for TLC. *)
EXTENDS AioElevator, TLC

CONSTANTS r1, r2, r3, r4

Symmetric == Permutations(Requests)
=============================================================================

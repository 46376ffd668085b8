----------------------------- MODULE MCFatVolume -----------------------------
(***************************************************************************)
(* Small instances of FatVolume.                                           *)
(***************************************************************************)
EXTENDS FatVolume, TLC
Symmetric == Permutations(Files)
=============================================================================

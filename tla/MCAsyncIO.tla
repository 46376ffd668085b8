----------------------------- MODULE MCAsyncIO -----------------------------
(* Values of the constants of AsyncIO for TLC. *)
EXTENDS AsyncIO, TLC

CONSTANTS w1, w2, a1, d1, d2

\* All requests go to one disk, or a1 and w2 to another one.
OneBin == [r \in Requests |-> d1]
TwoBins == [r \in Requests |-> IF r \in {w2, a1} THEN d2 ELSE d1]
=============================================================================

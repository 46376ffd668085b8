----------------------------- MODULE MCLRUCache -----------------------------
(* Values of the constants of LRUCache for TLC. *)
EXTENDS LRUCache, TLC

CONSTANTS b1, b2, k1, k2, k3, u1, u2

\* k1 and k2 are the blocks of one cluster: a read of k1 reads k2 ahead.
ReadAheadOn == [k \in Blocks |-> IF k = k1 THEN k2 ELSE NoBlock]
ReadAheadOff == [k \in Blocks |-> NoBlock]

Symmetric == Permutations(Buffers) \cup Permutations(Users)
=============================================================================

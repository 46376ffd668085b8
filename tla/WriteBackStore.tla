-------------------------- MODULE WriteBackStore --------------------------
(***************************************************************************)
(* What the block cache (lru.c) promises: a store of blocks whose memory   *)
(* may be ahead of the disk but never behind it, and whose disk only ever  *)
(* takes the contents that the memory has at that time.  Buffers, the      *)
(* daemons and the requests do not appear.                                 *)
(***************************************************************************)
EXTENDS Naturals

CONSTANTS Blocks, Unspecified

VARIABLES
  mem,      \* the version of every block that a reader gets
  stable,   \* the version on disk
  writes    \* how many times the block was written

vars == <<mem, stable, writes>>

Init ==
  /\ mem = [k \in Blocks |-> 0]
  /\ stable = [k \in Blocks |-> 0]
  /\ writes = [k \in Blocks |-> 0]

\* The block is written, as a whole or, when it was specified, in part.
Write(k) ==
  /\ writes' = [writes EXCEPT ![k] = @ + 1]
  /\ \/ mem' = [mem EXCEPT ![k] = writes[k] + 1]
     \/ mem[k] = Unspecified /\ UNCHANGED mem
  /\ UNCHANGED stable

\* ReadLRU without fill: a write of the whole block is announced, and its old
\* contents are not read from the disk.
Announce(k) ==
  /\ mem[k] = stable[k]
  /\ mem' = [mem EXCEPT ![k] = Unspecified]
  /\ UNCHANGED <<stable, writes>>

Destage(k) ==
  /\ mem[k] # Unspecified
  /\ stable' = [stable EXCEPT ![k] = mem[k]]
  /\ UNCHANGED <<mem, writes>>

\* Most steps of the cache are none of the store; TLC tries the disjuncts in order.
Next == UNCHANGED vars \/ \E k \in Blocks : Write(k) \/ Announce(k) \/ Destage(k)
Spec == Init /\ [][Next]_vars
=============================================================================

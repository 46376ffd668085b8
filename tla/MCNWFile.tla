------------------------------ MODULE MCNWFile ------------------------------
(***************************************************************************)
(* Small instances of NWFile: two files of at most three clusters, records *)
(* of one and two units.                                                   *)
(***************************************************************************)
EXTENDS NWFile, TLC
CONSTANTS r1, r2, r3

OneUnitRecords == [r \in Records |-> 1]
MixedRecords == [r \in Records |-> IF r = r1 THEN 2 ELSE 1]

\* Inside a record, past its end, at the next cluster, past a hole, over several.
Extents2 == {<<0, 1>>, <<1, 1>>, <<2, 1>>, <<4, 1>>, <<1, 3>>}
Extents3 == {<<0, 1>>, <<1, 1>>, <<3, 2>>, <<6, 2>>, <<2, 3>>}

\* To nothing, to part of a cluster, to a cluster, and to one all but a bit.
Sizes2 == {<<0, FALSE>>, <<1, FALSE>>, <<2, TRUE>>, <<3, FALSE>>}
Sizes3 == {<<0, FALSE>>, <<1, FALSE>>, <<3, FALSE>>, <<3, TRUE>>, <<4, FALSE>>}

Symmetric == Permutations(Clusters) \union Permutations(Files)
=============================================================================

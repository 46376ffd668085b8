---------------------------- MODULE MCDirectory ----------------------------
\* Bounds for the directory file.
EXTENDS Directory, TLC

Symmetric == Permutations(Tasks)
=============================================================================

-------------------------- MODULE MCRepositoryStore --------------------------
(* Instances of RepositoryStore small enough for TLC.                        *)
EXTENDS RepositoryStore, TLC

CONSTANTS p1, p2, p3, c1, c2

\* Processes and contents are interchangeable.
Symm == Permutations(Proc) \cup Permutations(Content)
=============================================================================

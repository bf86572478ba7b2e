------------------------- MODULE MCRsyncReconciliation -------------------------
(* Two paths, two contents of one size: a token is told apart by its mtime     *)
(* only, and two trees of different versions may be the same tree.             *)
EXTENDS RsyncReconciliation, TLC

Symmetric == Permutations(Bytes)

\* The files of path 1 have namesakes at the root, the files of path 2.
Namesakes == [p \in Path |-> IF p = 1 /\ 2 \in Path THEN 2 ELSE None]

SameSize == [b \in Bytes |-> 1]
=============================================================================

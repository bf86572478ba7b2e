--------------------------- MODULE MCCollectionSync ---------------------------
(* Items 1 and 2 have files of their own, or one file when their ids differ in *)
(* case only; bad is a content no validator passes, and under ByName (without  *)
(* symmetry) y is one that passes as item 2 only.                              *)
EXTENDS CollectionSync, TLC

CONSTANTS x, y, bad

TwoGood == {x, y, bad}
Symmetric == Permutations({x, y})

OwnFile == [i \in Item |-> i]
OneFile == [i \in Item |-> 1]

BlindToNames == [i \in Item |-> {x, y}]
ByName == [i \in Item |-> IF i = 1 THEN {x} ELSE {x, y}]
=============================================================================

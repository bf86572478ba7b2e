-------------------------- MODULE MCDatasetPublication --------------------------
(* Two keys and two contents; the source lists both keys with one content, or    *)
(* the first key with the other.                                                 *)
EXTENDS DatasetPublication, TLC

CONSTANTS x, y

TwoKeys == {1, 2}

SomeListings ==
    {[k \in Key |-> x], [k \in Key |-> IF k = 1 THEN y ELSE Absent]}

Requests ==
    {[selector |-> "latest-all", before |-> 9, coherent |-> FALSE, freeze |-> FALSE],
     [selector |-> "latest-all", before |-> 1, coherent |-> TRUE, freeze |-> TRUE],
     [selector |-> "snapshot", before |-> 9, coherent |-> TRUE, freeze |-> FALSE]}
=============================================================================

-------------------------------- MODULE Datasets --------------------------------
(***************************************************************************)
(* What a dataset is made of: the vocabulary that resolution, export and     *)
(* publication share.                                                        *)
(***************************************************************************)
EXTENDS Naturals

CONSTANTS
    Key,       \* artifact keys, numbered in their sorted order from 1 on
    Content,   \* content ids
    None       \* nothing there

ASSUME KeyAssumption == Key \subseteq Nat \ {0}
ASSUME NothingAssumption == None \notin Content

\* Which content each member of a dataset has.
Manifest == UNION {[K -> Content] : K \in SUBSET Key}

\* Members are read, copied and compared in the order of their keys.
First(k, K) == k \in K /\ \A j \in K : k <= j
=============================================================================

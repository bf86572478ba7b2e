--------------------------- MODULE AtomicPublication ---------------------------
(***************************************************************************)
(* What an export promises whoever looks at its destination: there is        *)
(* nothing, or a complete dataset, or what somebody else put there and no    *)
(* export ever touches.                                                      *)
(***************************************************************************)
CONSTANTS Whole,    \* complete datasets
          Absent,   \* nothing is there
          Foreign   \* something that no export has put there

VARIABLE place

Init == place \in {Absent, Foreign}

Publish ==
    /\ place = Absent
    /\ place' \in Whole

Occupy ==
    /\ place = Absent
    /\ place' = Foreign

\* A machine that loses power may lose a name it had not yet written down.
Vanish ==
    /\ place \in Whole
    /\ place' = Absent

Next == Publish \/ Occupy \/ Vanish

Spec == Init /\ [][Next]_place

-----------------------------------------------------------------------------
\* Nobody ever sees a part of a dataset.
NeverPartial == place \in Whole \cup {Absent, Foreign}

\* What is there is never replaced by something else.
NeverReplaced == [][place' # place => Absent \in {place, place'}]_place
=============================================================================

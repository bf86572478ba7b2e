------------------------------ MODULE ContentStore ------------------------------
(***************************************************************************)
(* What BlobStore's contract promises whoever records metadata over it: a     *)
(* put makes content readable, metadata is committed only after that, and     *)
(* bytes are given up only when no row is left that knows them.  Failures may *)
(* leave bytes nobody knows, but no knowledge of bytes that are not there.    *)
(***************************************************************************)
CONSTANT Content

VARIABLES
    stored,   \* contents whose own bytes are readable
    known,    \* contents with a row
    named,    \* contents that evidence names
    lost      \* contents the disk has ever taken away

Init == stored = {} /\ known = {} /\ named = {} /\ lost = {}

Store(c) ==
    /\ stored' = stored \cup {c}
    /\ UNCHANGED <<known, named, lost>>

\* A transaction adds a row, evidence, or both.
Record(c) ==
    /\ c \in stored \cup lost
    /\ known' = known \cup {c}
    /\ named' \in {named, named \cup {c}}
    /\ UNCHANGED <<stored, lost>>

Forget(c) ==
    /\ c \in known \ named
    /\ known' = known \ {c}
    /\ UNCHANGED <<stored, named, lost>>

Delete(c) ==
    /\ c \in stored \ known
    /\ stored' = stored \ {c}
    /\ UNCHANGED <<known, named, lost>>

\* The disk, not the program.
Lose(c) ==
    /\ c \in stored
    /\ stored' = stored \ {c}
    /\ lost' = lost \cup {c}
    /\ UNCHANGED <<known, named>>

Next == \E c \in Content : Store(c) \/ Record(c) \/ Forget(c) \/ Delete(c) \/ Lose(c)

Spec == Init /\ [][Next]_<<stored, known, named, lost>>

-----------------------------------------------------------------------------
\* No committed reference to unavailable content.
NothingDangles == named \subseteq known /\ known \subseteq stored \cup lost

\* Evidence is for ever, and so are the bytes it names, as far as the program goes.
EvidenceIsKept ==
    [][named \subseteq named' /\ named \cap stored \subseteq stored' \cup lost']_<<stored, known, named, lost>>
=============================================================================

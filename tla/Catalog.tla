-------------------------------- MODULE Catalog --------------------------------
(***************************************************************************)
(* What a catalog's evidence about one source promises whoever reads it, in   *)
(* the terms of the in-memory catalog: rows are added, one transaction at a    *)
(* time, and none is ever changed, replaced or removed.                       *)
(***************************************************************************)
EXTENDS Naturals

CONSTANT Absent   \* what an absence says of its key

VARIABLES facts, snaps, datasets

Observations == {f \in facts : f.what # Absent}

Init == facts = {} /\ snaps = {} /\ datasets = {}

\* record_observation_bundle, record_absence: an id is used once, and what a run
\* has to say of a source it says before it seals that with a snapshot.
RecordState(f) ==
    /\ f \notin facts
    /\ \A s \in snaps : s.run # f.run
    /\ facts' = facts \cup {f}
    /\ UNCHANGED <<snaps, datasets>>

\* record_source_snapshot: all the observations of its run and no other.
RecordSnapshot(s) ==
    /\ s \notin snaps
    /\ s.bound = {f \in Observations : f.run = s.run}
    /\ snaps' = snaps \cup {s}
    /\ UNCHANGED <<facts, datasets>>

\* record_dataset: members are observations; what is there keeps its members.
RecordDataset(S) ==
    /\ S \subseteq Observations
    /\ datasets' = datasets \cup {S}
    /\ UNCHANGED <<facts, snaps>>

\* The rows are whatever the step adds.
Next ==
    \/ \E f \in facts' : RecordState(f)
    \/ \E s \in snaps' : RecordSnapshot(s)
    \/ \E S \in datasets' : RecordDataset(S)

Spec == Init /\ [][Next]_<<facts, snaps, datasets>>

-----------------------------------------------------------------------------
\* latest_state: the last of a key's observations and absences up to a time.
States(k, t) == {f \in facts : f.key = k /\ f.at <= t}

LatestStates(k, t) == {f \in States(k, t) : \A g \in States(k, t) : g.at <= f.at}

\* What a snapshot has bound is for ever all that its run has observed.
SnapshotsAreSealed ==
    \A s \in snaps : s.bound = {f \in Observations : f.run = s.run}
=============================================================================

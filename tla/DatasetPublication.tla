--------------------------- MODULE DatasetPublication ---------------------------
(***************************************************************************)
(* From the source to the file system: evidence is recorded, a dataset is    *)
(* resolved or frozen from it, and exported, perhaps again.                  *)
(***************************************************************************)
EXTENDS DatasetResolution, DatasetExport

vars == <<resolutionVars, exportVars>>

Init == ResolutionInit /\ ExportInit

\* export_dataset_manifest: each member with the content of its observation.
ManifestOf(S) ==
    [k \in {f.key : f \in S} |-> (CHOOSE f \in S : f.key = k).what]

\* Datasets at hand: the resolved one, and by their ids those that were frozen.
AtHand ==
    (IF query.phase = "resolved" THEN {query.members} ELSE {}) \cup datasets

\* Dataset.export.  Rows are only ever added, and an export reads those of its
\* members: a sync beside it would change nothing.  Bound: syncs come before.
ExportDataset ==
    /\ ~sync.on
    /\ \E S \in AtHand : Plan(ManifestOf(S))
    /\ UNCHANGED resolutionVars

Next ==
    \/ ResolutionNext /\ exports = 0 /\ UNCHANGED exportVars
    \/ ExportDataset
    \/ (ExportStep \/ World) /\ UNCHANGED resolutionVars

\* An export that has begun is not stopped by anything but a death: its steps
\* are those of one thread that waits for nobody.
Spec == Init /\ [][Next]_vars /\ WF_vars(ExportStep /\ UNCHANGED resolutionVars)

-----------------------------------------------------------------------------
TypeOK == ResolutionTypeOK /\ ExportTypeOK

\* Whatever an export of a dataset that must be coherent has published is part of
\* one inventory of the source, byte for byte.
PublishedIsEvidence ==
    place \in Directory /\ query.def.coherent =>
        \E r \in 1..runs : \A k \in DOMAIN place.files : place.files[k] = listed[r][k]

\* Every export ends, with nothing left of its staging directory.
ExportSettles == (step \in Busy) ~> (step \notin Busy /\ stage = None)
=============================================================================

----------------------------- MODULE DatasetExport -----------------------------
(***************************************************************************)
(* DatasetMaterializer.export: a manifest's members are copied out of the    *)
(* repository into a private staging directory beside the destination,       *)
(* verified, flushed and published with one exclusive rename, while blobs    *)
(* may be damaged, somebody else may take the destination, the process may   *)
(* die and the machine may lose power.                                       *)
(*                                                                           *)
(* A directory is the manifest in it and its member files.  The strategies    *)
(* differ in where a member's bytes come from, which is all that is kept of   *)
(* them.                                                                     *)
(***************************************************************************)
EXTENDS Datasets

CONSTANTS
    Wrong,       \* bytes of no content id
    Foreign,     \* a destination that no export has made
    MaxExports,  \* bound: exports to the destination
    MaxDamage,   \* bound: blobs the disk damages
    MaxDeaths    \* bound: deaths of the process and of the machine

ASSUME BytesAssumption ==
    /\ Wrong \notin Content \cup {None, Foreign}
    /\ {None, Foreign, Wrong} \cap Manifest = {}
ASSUME BoundAssumption == {MaxExports, MaxDamage, MaxDeaths} \subseteq Nat

File == Content \cup {Wrong}

\* A staging directory, or a published one.
Directory == [manifest : Manifest \cup {None},
              files : UNION {[K -> File] : K \in SUBSET Key}]

ASSUME PlaceAssumption == None # Foreign /\ {None, Foreign} \cap Directory = {}

VARIABLES
    blob,      \* objects/: "good", "bad" or "missing"
    place,     \* the destination
    stage,     \* the staging directory of the running export
    flushed,   \* whether the newest directory's files are on the disk
    step,      \* where the export is
    want,      \* its manifest
    exports, damage, deaths   \* what happened so far

disk       == <<blob, place, stage, flushed>>
export     == <<step, want>>
counts     == <<exports, damage, deaths>>
exportVars == <<disk, export, counts>>

Busy == {"mkdtemp", "populate", "manifest", "flush", "publish", "rmtree"}

ExportInit ==
    /\ blob = [c \in Content |-> "good"]
    /\ place \in {None, Foreign} /\ stage = None /\ flushed = TRUE
    /\ step = "idle" /\ want = None
    /\ exports = 0 /\ damage = 0 /\ deaths = 0

-----------------------------------------------------------------------------
\* plan: every content is there and the destination is not.
Plan(m) ==
    /\ step \notin Busy /\ exports < MaxExports
    /\ exports' = exports + 1
    /\ want' = m
    /\ step' = IF /\ \A k \in DOMAIN m : blob[m[k]] # "missing"
                  /\ place = None
               THEN "mkdtemp" ELSE "failed"
    /\ UNCHANGED <<disk, damage, deaths>>

MakeStaging ==
    /\ step = "mkdtemp"
    /\ \/ /\ stage' = [manifest |-> None, files |-> [k \in {} |-> Wrong]]
          /\ step' = "populate"
          /\ flushed' = FALSE
       \/ /\ step' = "failed"
          /\ UNCHANGED <<stage, flushed>>
    /\ UNCHANGED <<blob, place, want, counts>>

\* What reading a blob yields.
Read(c) == IF blob[c] = "good" THEN c ELSE Wrong

Uncopied == DOMAIN want \ DOMAIN stage.files

\* With symlinks, members of one content share one private copy of it.
Copied(c) == {stage.files[j] : j \in {i \in DOMAIN stage.files : want[i] = c}}

\* _populate, _copy: by copy, by clone or by a link to a copy.
Copy(k) ==
    /\ step = "populate" /\ First(k, Uncopied)
    /\ \E bytes \in Copied(want[k]) \cup
                    (IF blob[want[k]] = "missing" THEN {} ELSE {Read(want[k])}) :
          stage' = [stage EXCEPT
                      !.files = [j \in DOMAIN @ \cup {k} |-> IF j = k THEN bytes ELSE @[j]]]
    /\ UNCHANGED <<blob, place, flushed, export, counts>>

\* Mutant: what was copied is believed.
TrustCopies ==
    /\ step = "populate" /\ Uncopied = {}
    /\ step' = "manifest"
    /\ UNCHANGED <<disk, want, counts>>

\* DetachedDatasetManifest.verify, on the staged files.
Verify ==
    /\ step = "populate" /\ Uncopied = {}
    /\ step' = IF stage.files = want THEN "manifest" ELSE "rmtree"
    /\ UNCHANGED <<disk, want, counts>>

WriteManifest ==
    /\ step = "manifest"
    /\ step' = "flush"
    /\ stage' = [stage EXCEPT !.manifest = want]
    /\ UNCHANGED <<blob, place, flushed, want, counts>>

\* Mutant: the rename is thought to imply the flush.
SkipFlush ==
    /\ step = "flush"
    /\ step' = "publish"
    /\ UNCHANGED <<disk, want, counts>>

\* _flush_tree.
Flush ==
    /\ step = "flush"
    /\ step' = "publish"
    /\ flushed' = TRUE
    /\ UNCHANGED <<blob, place, stage, want, counts>>

\* _publish_directory: a rename that refuses an existing destination.
Publish ==
    /\ step = "publish" /\ place = None
    /\ place' = stage /\ stage' = None
    /\ step' = "done"
    /\ UNCHANGED <<blob, flushed, want, counts>>

\* Mutant: no finally.
RaiseAtOnce ==
    /\ step \in {"populate", "manifest", "flush", "publish"}
    /\ step' = "failed"
    /\ UNCHANGED <<disk, want, counts>>

\* A blob is gone, the file system cannot clone or rename exclusively or is
\* full, or the destination exists by now: an OSError, at any step.
Raise ==
    /\ step \in {"populate", "manifest", "flush", "publish"}
    /\ step' = "rmtree"
    /\ UNCHANGED <<disk, want, counts>>

\* finally: the staging directory goes.
RemoveStaging ==
    /\ step = "rmtree"
    /\ stage' = None
    /\ step' = "failed"
    /\ UNCHANGED <<blob, place, flushed, want, counts>>

-----------------------------------------------------------------------------
\* The world around it.  What it does before the first export is seen by the
\* second one; there it is left out.

\* The disk damages a blob.
Damage(c) ==
    /\ exports > 0 /\ damage < MaxDamage /\ blob[c] = "good"
    /\ \E b \in {"bad", "missing"} : blob' = [blob EXCEPT ![c] = b]
    /\ damage' = damage + 1
    /\ UNCHANGED <<place, stage, flushed, export, exports, deaths>>

\* Somebody else creates the destination.
Occupy ==
    /\ exports > 0 /\ place = None
    /\ place' = Foreign
    /\ UNCHANGED <<blob, stage, flushed, export, counts>>

\* The process dies; its staging directory keeps a name nobody uses again.
Die ==
    /\ step \in Busy /\ deaths < MaxDeaths
    /\ deaths' = deaths + 1
    /\ step' = "dead" /\ stage' = None
    /\ UNCHANGED <<blob, place, flushed, want, exports, damage>>

\* What a power failure leaves of a directory.
Survives(d) ==
    IF flushed THEN d
    ELSE [manifest |-> None, files |-> [k \in DOMAIN d.files |-> Wrong]]

\* The machine dies: what was not flushed is lost, and the destination's name may
\* be, as nobody flushes the directory it is in.
LosePower ==
    /\ exports > 0 /\ deaths < MaxDeaths
    /\ deaths' = deaths + 1
    /\ place' \in IF place \in {None, Foreign} THEN {place} ELSE {None, Survives(place)}
    /\ step' = "dead" /\ stage' = None /\ flushed' = TRUE
    /\ UNCHANGED <<blob, want, exports, damage>>

ExportStep ==
    \/ MakeStaging \/ (\E k \in Key : Copy(k)) \/ Verify \/ WriteManifest
    \/ Flush \/ Publish \/ Raise \/ RemoveStaging

World ==
    \/ \E c \in Content : Damage(c)
    \/ Occupy \/ Die \/ LosePower

ExportNext ==
    \/ \E m \in Manifest : Plan(m)
    \/ ExportStep
    \/ World

ExportSpec == ExportInit /\ [][ExportNext]_exportVars

-----------------------------------------------------------------------------
ExportTypeOK ==
    /\ blob \in [Content -> {"good", "bad", "missing"}]
    /\ place \in Directory \cup {None, Foreign}
    /\ stage \in Directory \cup {None}
    /\ flushed \in BOOLEAN
    /\ step \in Busy \cup {"idle", "done", "failed", "dead"}
    /\ want \in Manifest \cup {None}
    /\ exports \in 0..MaxExports /\ damage \in 0..MaxDamage
    /\ deaths \in 0..MaxDeaths

\* What the destination shows: a directory whose files are exactly those of the
\* manifest in it is that dataset, any other directory a part of one.
Shown ==
    IF place \in {None, Foreign} THEN place
    ELSE IF place.files = place.manifest THEN place.manifest
    ELSE Wrong

Atomic == INSTANCE AtomicPublication WITH
              Whole <- Manifest, Absent <- None, place <- Shown

\* Whatever is damaged, taken, refused, killed or cut off from power, and
\* whatever is retried, the destination only ever goes from nothing to a complete
\* dataset or to what somebody else put there.
ExportIsAtomic == Atomic!Spec
=============================================================================

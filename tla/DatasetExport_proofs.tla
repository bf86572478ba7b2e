------------------------- MODULE DatasetExport_proofs -------------------------
(***************************************************************************)
(* For every manifest, repository and destination, and however often blobs   *)
(* are damaged, the process dies or power is lost: the types of an export,    *)
(* and that a destination goes from nothing to a complete dataset only.       *)
(*                                                                           *)
(* ExportIsAtomic is a refinement.  Its steps need to know what a published    *)
(* directory is made of, so the invariant follows the staging directory        *)
(* through the steps of the export: nothing stands in the destination while    *)
(* there is work, what was verified stays what the manifest says, and what     *)
(* was flushed survives.                                                      *)
(***************************************************************************)
EXTENDS DatasetExport, TLAPS

\* An export at work has a manifest and a destination no export has filled.
WorkIsForNothing == step \in Busy => want \in Manifest /\ place \in {None, Foreign}

\* What the staging directory has become by each step.
StageFollowsSteps ==
    /\ step \in {"populate", "manifest", "flush", "publish"} => stage \in Directory
    /\ step \in {"manifest", "flush", "publish"} => stage.files = want
    /\ step \in {"flush", "publish"} => stage.manifest = want
    /\ step = "publish" => flushed

\* What an export has published is whole, and on the disk.
PublishedIsWhole ==
    place \in Directory =>
        flushed /\ place.manifest \in Manifest /\ place.files = place.manifest

ExportInv == ExportTypeOK /\ WorkIsForNothing /\ StageFollowsSteps /\ PublishedIsWhole

-----------------------------------------------------------------------------
\* Nothing and what is foreign are no directories.
LEMMA DirectoriesAreNamed ==
    /\ None \notin Directory /\ Foreign \notin Directory
    /\ None \notin Manifest /\ Foreign \notin Manifest
BY PlaceAssumption, BytesAssumption

\* An empty staging directory is a directory.
LEMMA EmptyIsDirectory == [manifest |-> None, files |-> [k \in {} |-> Wrong]] \in Directory
<1>1. [k \in {} |-> Wrong] \in [{} -> File]
    OBVIOUS
<1>2. [k \in {} |-> Wrong] \in UNION {[L -> File] : L \in SUBSET Key}
    BY <1>1
<1> QED BY <1>2 DEF Directory

\* What _copy writes for a member makes the staging directory a directory again,
\* whatever the blob holds.
LEMMA CopyKeepsDirectory ==
    ASSUME NEW d \in Directory, NEW k \in Key, NEW bytes \in File
    PROVE  [d EXCEPT !.files = [j \in DOMAIN @ \cup {k} |->
                                   IF j = k THEN bytes ELSE @[j]]] \in Directory
<1> DEFINE files == [j \in DOMAIN d.files \cup {k} |-> IF j = k THEN bytes ELSE d.files[j]]
<1>1. PICK K \in SUBSET Key : d.files \in [K -> File]
    BY DEF Directory
<1>2. files \in [K \cup {k} -> File]
    BY <1>1
<1>3. K \cup {k} \in SUBSET Key
    OBVIOUS
<1>4. files \in UNION {[L -> File] : L \in SUBSET Key}
    BY <1>2, <1>3
<1>5. [d EXCEPT !.files = files] \in Directory
    BY <1>4 DEF Directory
<1> QED BY <1>5

\* The bytes a copy may get, of a member of the manifest.
LEMMA CopiesAreFiles ==
    ASSUME stage \in Directory, want \in Manifest, NEW k \in DOMAIN want,
           NEW bytes \in Copied(want[k]) \cup
                         (IF blob[want[k]] = "missing" THEN {} ELSE {Read(want[k])})
    PROVE  k \in Key /\ bytes \in File
<1>1. PICK K \in SUBSET Key : want \in [K -> Content]
    BY DEF Manifest
<1>2. k \in Key /\ want[k] \in Content
    BY <1>1
<1>3. PICK L \in SUBSET Key : stage.files \in [L -> File]
    BY DEF Directory
<1>4. Copied(want[k]) \subseteq File
    BY <1>3 DEF Copied
<1>5. Read(want[k]) \in File
    BY <1>2 DEF Read, File
<1> QED BY <1>2, <1>4, <1>5

-----------------------------------------------------------------------------
LEMMA ExportInvInit == ExportInit => ExportInv
<1> SUFFICES ASSUME ExportInit PROVE ExportInv
    OBVIOUS
<1>1. ExportTypeOK
    BY BoundAssumption DEF ExportInit, ExportTypeOK, Busy
<1>2. WorkIsForNothing /\ StageFollowsSteps
    BY DEF ExportInit, WorkIsForNothing, StageFollowsSteps, Busy
<1>3. PublishedIsWhole
    BY DirectoriesAreNamed DEF ExportInit, PublishedIsWhole
<1> QED BY <1>1, <1>2, <1>3 DEF ExportInv

LEMMA TypesStay == ExportInv /\ [ExportNext]_exportVars => ExportTypeOK'
<1> SUFFICES ASSUME ExportInv, [ExportNext]_exportVars PROVE ExportTypeOK'
    OBVIOUS
<1> USE DEF ExportInv, ExportTypeOK, disk, export, counts, Busy
<1>1. ASSUME NEW m \in Manifest, Plan(m)
      PROVE  ExportTypeOK'
    BY <1>1, BoundAssumption DEF Plan
<1>2. CASE MakeStaging
    BY <1>2, EmptyIsDirectory DEF MakeStaging
<1>3. ASSUME NEW k \in Key, Copy(k)
      PROVE  ExportTypeOK'
    <2>1. stage \in Directory /\ want \in Manifest /\ k \in DOMAIN want
        BY <1>3 DEF Copy, First, Uncopied, StageFollowsSteps, WorkIsForNothing
    <2>2. PICK bytes \in Copied(want[k]) \cup
                         (IF blob[want[k]] = "missing" THEN {} ELSE {Read(want[k])}) :
             stage' = [stage EXCEPT
                         !.files = [j \in DOMAIN @ \cup {k} |-> IF j = k THEN bytes ELSE @[j]]]
        BY <1>3 DEF Copy
    <2>3. bytes \in File
        BY <2>1, CopiesAreFiles
    <2>4. stage' \in Directory
        BY <2>1, <2>2, <2>3, CopyKeepsDirectory
    <2> QED BY <1>3, <2>4 DEF Copy
<1>4. CASE Verify
    BY <1>4 DEF Verify
<1>5. CASE WriteManifest
    <2>1. stage \in Directory /\ want \in Manifest
        BY <1>5 DEF WriteManifest, StageFollowsSteps, WorkIsForNothing
    <2>2. [stage EXCEPT !.manifest = want] \in Directory
        BY <2>1 DEF Directory
    <2> QED BY <1>5, <2>2 DEF WriteManifest
<1>6. CASE Flush
    BY <1>6 DEF Flush
<1>7. CASE Publish
    BY <1>7 DEF Publish, StageFollowsSteps
<1>8. CASE Raise \/ RemoveStaging
    BY <1>8 DEF Raise, RemoveStaging
<1>9. ASSUME NEW c \in Content, Damage(c)
      PROVE  ExportTypeOK'
    BY <1>9, BoundAssumption DEF Damage
<1>10. CASE Occupy
    BY <1>10 DEF Occupy
<1>11. CASE Die
    BY <1>11, BoundAssumption DEF Die
<1>12. CASE LosePower
    <2>1. place' \in Directory \cup {None, Foreign}
        BY <1>12 DEF LosePower, Survives, PublishedIsWhole
    <2> QED BY <1>12, <2>1, BoundAssumption DEF LosePower
<1>13. CASE UNCHANGED exportVars
    BY <1>13 DEF exportVars
<1> QED
    BY <1>1, <1>2, <1>3, <1>4, <1>5, <1>6, <1>7, <1>8, <1>9, <1>10, <1>11, <1>12,
       <1>13
    DEF ExportNext, ExportStep, World

LEMMA WorkStays == ExportInv /\ [ExportNext]_exportVars => WorkIsForNothing'
<1> SUFFICES ASSUME ExportInv, [ExportNext]_exportVars PROVE WorkIsForNothing'
    OBVIOUS
<1> USE DEF ExportInv, WorkIsForNothing, disk, export, counts, Busy
<1>1. ASSUME NEW m \in Manifest, Plan(m)
      PROVE  WorkIsForNothing'
    BY <1>1 DEF Plan
<1>2. CASE MakeStaging
    BY <1>2 DEF MakeStaging
<1>3. ASSUME NEW k \in Key, Copy(k)
      PROVE  WorkIsForNothing'
    BY <1>3 DEF Copy
<1>4. CASE Verify \/ WriteManifest \/ Flush
    BY <1>4 DEF Verify, WriteManifest, Flush
<1>5. CASE Publish \/ Raise \/ RemoveStaging
    BY <1>5 DEF Publish, Raise, RemoveStaging
<1>6. CASE World
    BY <1>6 DEF World, Damage, Occupy, Die, LosePower
<1>7. CASE UNCHANGED exportVars
    BY <1>7 DEF exportVars
<1> QED
    BY <1>1, <1>2, <1>3, <1>4, <1>5, <1>6, <1>7 DEF ExportNext, ExportStep

LEMMA StageStays == ExportInv /\ [ExportNext]_exportVars => StageFollowsSteps'
<1> SUFFICES ASSUME ExportInv, [ExportNext]_exportVars PROVE StageFollowsSteps'
    OBVIOUS
<1> USE DEF ExportInv, StageFollowsSteps, disk, export, counts
<1>1. ASSUME NEW m \in Manifest, Plan(m)
      PROVE  StageFollowsSteps'
    BY <1>1 DEF Plan
<1>2. CASE MakeStaging
    BY <1>2, EmptyIsDirectory DEF MakeStaging
<1>3. ASSUME NEW k \in Key, Copy(k)
      PROVE  StageFollowsSteps'
    <2>1. stage \in Directory /\ want \in Manifest /\ k \in DOMAIN want
        BY <1>3 DEF Copy, First, Uncopied, WorkIsForNothing, Busy
    <2>2. PICK bytes \in Copied(want[k]) \cup
                         (IF blob[want[k]] = "missing" THEN {} ELSE {Read(want[k])}) :
             stage' = [stage EXCEPT
                         !.files = [j \in DOMAIN @ \cup {k} |-> IF j = k THEN bytes ELSE @[j]]]
        BY <1>3 DEF Copy
    <2>3. stage' \in Directory
        BY <2>1, <2>2, CopiesAreFiles, CopyKeepsDirectory
    <2> QED BY <1>3, <2>3 DEF Copy
<1>4. CASE Verify
    BY <1>4 DEF Verify
<1>5. CASE WriteManifest
    <2>1. stage \in Directory /\ want \in Manifest /\ stage.files = want
        BY <1>5 DEF WriteManifest, WorkIsForNothing, Busy
    <2>2. stage' = [stage EXCEPT !.manifest = want]
        BY <1>5 DEF WriteManifest
    <2>3. stage' \in Directory /\ stage'.manifest = want /\ stage'.files = want
        BY <2>1, <2>2 DEF Directory
    <2> QED BY <1>5, <2>3 DEF WriteManifest
<1>6. CASE Flush
    BY <1>6 DEF Flush
<1>7. CASE Publish \/ Raise \/ RemoveStaging
    BY <1>7 DEF Publish, Raise, RemoveStaging
<1>8. CASE World
    BY <1>8 DEF World, Damage, Occupy, Die, LosePower
<1>9. CASE UNCHANGED exportVars
    BY <1>9 DEF exportVars
<1> QED
    BY <1>1, <1>2, <1>3, <1>4, <1>5, <1>6, <1>7, <1>8, <1>9 DEF ExportNext, ExportStep

LEMMA PublishedStays == ExportInv /\ [ExportNext]_exportVars => PublishedIsWhole'
<1> SUFFICES ASSUME ExportInv, [ExportNext]_exportVars PROVE PublishedIsWhole'
    OBVIOUS
<1> USE DEF ExportInv, PublishedIsWhole, disk, export, counts
<1>1. ASSUME NEW m \in Manifest, Plan(m)
      PROVE  PublishedIsWhole'
    BY <1>1 DEF Plan
<1>2. CASE MakeStaging
    BY <1>2, DirectoriesAreNamed DEF MakeStaging, WorkIsForNothing, Busy
<1>3. ASSUME NEW k \in Key, Copy(k)
      PROVE  PublishedIsWhole'
    BY <1>3 DEF Copy
<1>4. CASE Verify \/ WriteManifest \/ Flush \/ Raise \/ RemoveStaging
    BY <1>4 DEF Verify, WriteManifest, Flush, Raise, RemoveStaging
<1>5. CASE Publish
    BY <1>5 DEF Publish, StageFollowsSteps, WorkIsForNothing, Busy
<1>6. ASSUME NEW c \in Content, Damage(c)
      PROVE  PublishedIsWhole'
    BY <1>6 DEF Damage
<1>7. CASE Occupy
    BY <1>7, DirectoriesAreNamed DEF Occupy
<1>8. CASE Die
    BY <1>8 DEF Die
<1>9. CASE LosePower
    BY <1>9, DirectoriesAreNamed DEF LosePower, Survives, ExportTypeOK
<1>10. CASE UNCHANGED exportVars
    BY <1>10 DEF exportVars
<1> QED
    BY <1>1, <1>2, <1>3, <1>4, <1>5, <1>6, <1>7, <1>8, <1>9, <1>10
    DEF ExportNext, ExportStep, World

\* The inductive invariant of an export.
THEOREM ExportInvariant == ExportSpec => []ExportInv
<1>1. ExportInv /\ [ExportNext]_exportVars => ExportInv'
    BY TypesStay, WorkStays, StageStays, PublishedStays DEF ExportInv
<1> QED BY ExportInvInit, <1>1, PTL DEF ExportSpec

\* An export's state is what its types say, for all manifests and contents.
THEOREM ExportTypes == ExportSpec => []ExportTypeOK
<1>1. ExportInv => ExportTypeOK
    BY DEF ExportInv
<1> QED BY ExportInvariant, <1>1, PTL

-----------------------------------------------------------------------------
\* What a destination shows starts as nothing or as something foreign.
LEMMA ShownInit == ExportInit => Atomic!Init
BY DEF ExportInit, Atomic!Init, Shown

\* Only publishing, an occupier and a power failure change what it shows.
LEMMA ShownStep == ExportInv /\ [ExportNext]_exportVars => [Atomic!Next]_Shown
<1> SUFFICES ASSUME ExportInv, [ExportNext]_exportVars PROVE [Atomic!Next]_Shown
    OBVIOUS
<1> USE DEF disk, export, counts
<1>1. ASSUME place' = place
      PROVE  Shown' = Shown
    BY <1>1 DEF Shown
<1>2. CASE Publish
    <2>1. /\ stage \in Directory /\ want \in Manifest
          /\ stage.files = want /\ stage.manifest = want
        BY <1>2 DEF ExportInv, StageFollowsSteps, WorkIsForNothing, Publish, Busy
    <2>2. place = None /\ place' = stage
        BY <1>2 DEF Publish
    <2>3. Shown = None /\ Shown' = want
        BY <2>1, <2>2, DirectoriesAreNamed DEF Shown
    <2> QED BY <2>1, <2>3 DEF Atomic!Next, Atomic!Publish
<1>3. CASE Occupy
    BY <1>3 DEF Occupy, Shown, Atomic!Next, Atomic!Occupy
<1>4. CASE LosePower
    <2>1. CASE place \in {None, Foreign}
        BY <1>1, <1>4, <2>1 DEF LosePower
    <2>2. CASE place \notin {None, Foreign}
        <3>1. place \in Directory
            BY <2>2 DEF ExportInv, ExportTypeOK
        <3>2. flushed /\ Shown \in Manifest
            BY <2>2, <3>1 DEF ExportInv, PublishedIsWhole, Shown
        <3>3. place' \in {None, place}
            BY <1>4, <2>2, <3>2 DEF LosePower, Survives
        <3>4. CASE place' = None
            <4>1. Shown' = None
                BY <3>4 DEF Shown
            <4> QED BY <3>2, <4>1 DEF Atomic!Next, Atomic!Vanish
        <3> QED BY <1>1, <3>3, <3>4
    <2> QED BY <2>1, <2>2
<1>5. CASE ~(Publish \/ Occupy \/ LosePower)
    <2>1. place' = place
        BY <1>5
        DEF ExportNext, ExportStep, World, exportVars, Plan, MakeStaging, Copy, Verify,
            WriteManifest, Flush, Raise, RemoveStaging, Damage, Die
    <2> QED BY <1>1, <2>1
<1> QED BY <1>2, <1>3, <1>4, <1>5

\* The export implements its abstract specification: whatever happens to blobs,
\* process, machine and destination, nobody finds a part of a dataset there.
THEOREM ExportAtomicity == ExportSpec => ExportIsAtomic
<1> QED BY ShownInit, ShownStep, ExportInvariant, PTL DEF ExportSpec, ExportIsAtomic, Atomic!Spec

\* What that means for whoever looks: never a part of a dataset, and never something
\* else in place of what was there.
THEOREM DestinationIsWhole ==
    ExportSpec => []Atomic!NeverPartial /\ Atomic!NeverReplaced
<1>1. ExportInv => Atomic!NeverPartial
    BY DEF ExportInv, ExportTypeOK, PublishedIsWhole, Shown, Atomic!NeverPartial
<1>2. [Atomic!Next]_Shown => [Shown' # Shown => None \in {Shown, Shown'}]_Shown
    BY DEF Atomic!Next, Atomic!Publish, Atomic!Occupy, Atomic!Vanish
<1> QED
    BY <1>1, <1>2, ShownStep, ExportInvariant, PTL DEF ExportSpec, Atomic!NeverReplaced
=============================================================================

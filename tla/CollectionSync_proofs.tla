------------------------- MODULE CollectionSync_proofs -------------------------
(***************************************************************************)
(* For any items, contents and bounds: an absence is recorded                *)
(* only of an item that was missing, and a baseline names only what has been *)
(* recorded.  With a file of its own for each item also: what is recorded is *)
(* the item's own answer, a quiet refresh ends in agreement with upstream,   *)
(* and no item the baseline knows lingers on.                                *)
(***************************************************************************)
EXTENDS CollectionSync, TLAPS

\* No two items share a file.
OwnFiles == \A i, j \in Item : Dest[i] = Dest[j] => i = j

\* A validator does not look at an item's name.
NameBlind == \A i, j \in Item : Valid[i] = Valid[j]

\* TypeOK in three parts: what there is outside, the catalog, and the sync.
OutsideOK ==
    /\ members \subseteq Item /\ page \in [Item -> Bytes \cup {None}]
    /\ edits \in 0..MaxEdits
    /\ cached \in [Item -> Bytes \cup {None, Waiting}]
    /\ files \in [Slot -> Bytes \cup {None}]
    /\ gone \subseteq Item /\ quiet \in BOOLEAN /\ loose \subseteq Item

CatalogOK ==
    /\ evidence \in [Bytes -> {None, "passed", "failed", "error"}]
    /\ latest \in [Item -> Bytes \cup {Unseen, Absent}]
    /\ DOMAIN trees \subseteq SUBSET Node
    /\ \A t \in DOMAIN trees : trees[t] \in [{e.path : e \in t} -> Item]
    /\ baseline \subseteq DOMAIN trees

SyncOK ==
    /\ phase \in Busy \cup {"idle", "succeeded", "failed"}
    /\ refresh \in BOOLEAN /\ syncs \in 0..MaxSyncs /\ faults \in 0..MaxFaults
    /\ complete \in BOOLEAN /\ listing \subseteq Item
    /\ pending \subseteq listing
    /\ answer \in [Item -> Bytes \cup {None, Waiting, Error}]
    /\ todo \subseteq listing /\ removed \subseteq Item
    /\ entries \subseteq Entry

\* What a sync works on belongs to its phase.
WorkFollowsPhase ==
    /\ phase # "recording" => todo = {} /\ removed = {}
    /\ phase \in {"idle", "listing", "fetching"} => entries = {}
    /\ phase = "snapshot" => Tree \in DOMAIN trees
    /\ complete \/ removed = {}

\* A listed item is to be recorded or has its entry; an item to be recorded as
\* removed is not listed.
WorkIsShared ==
    /\ removed \cap listing = {}
    /\ \A e \in entries : e.item \in listing \ todo
    /\ phase \in {"recording", "snapshot", "succeeded"} =>
           \A i \in listing \ todo : \E e \in entries : e.item = i

\* What upstream, its cached answer or a complete listing lacks did go away, and
\* an answer in bytes is the cache's too.
MissingIsGone ==
    /\ \A i \in Item : Here(i) \/ i \in gone
    /\ \A i \in Item : cached[i] = None => i \in gone
    /\ \A i \in Item : answer[i] = None => i \in gone
    /\ \A i \in Item : answer[i] \in Bytes => cached[i] = answer[i]
    /\ complete => \A i \in Item \ listing : i \in gone

\* A tree without unresolved entries, as a baseline is, names recorded items.
NamesAreRecorded ==
    /\ \A e \in entries : e.kind # "unresolved" => latest[e.item] # Unseen
    /\ \A t \in DOMAIN trees :
           (\A n \in t : n.kind # "unresolved") =>
               \A n \in t : latest[trees[t][n.path]] # Unseen
    /\ \A t \in baseline : \A n \in t : n.kind # "unresolved"

IInv == /\ TypeOK
        /\ WorkFollowsPhase
        /\ WorkIsShared
        /\ MissingIsGone
        /\ AbsenceIsTrue
        /\ NamesAreRecorded

\* Evidence of a pass is of a content that passes under any name.
EvidenceHolds ==
    \A b \in Bytes : evidence[b] = "passed" => \A i \in Item : b \in Valid[i]

\* A file that is still there holds the answer of its item.
FilesHoldAnswers ==
    \A i \in Item : answer[i] \in Bytes => files[Dest[i]] \in {answer[i], None}

\* Every entry says what its item was answered with.
EntriesTell ==
    \A e \in entries :
        /\ e.kind = "file" => answer[e.item] \in Bytes /\ e.content = answer[e.item]
                              /\ latest[e.item] = answer[e.item]
        /\ e.kind = "absent" => answer[e.item] = None /\ latest[e.item] = Absent

\* A refresh is answered with the page there is.
QuietAnswers ==
    refresh /\ quiet => \A i \in Item : answer[i] \in {Waiting, Error, page[i]}

\* The item id stored with a path is the one whose path it is.
NamesAreDests ==
    \A t \in DOMAIN trees : \A n \in t : Dest[trees[t][n.path]] = n.path

\* An item is present because the baseline has it or because it is loose, and
\* what a complete listing omits of the baseline is absent in time.
KnownOrLoose ==
    /\ \A i \in Item : latest[i] \in Bytes => i \in loose \cup Previous
    /\ phase \in {"recording", "snapshot"} /\ complete =>
           \A i \in Previous \ listing : i \in removed \/ latest[i] = Absent

JInv == /\ FilesHoldAnswers
        /\ EntriesTell
        /\ QuietAnswers
        /\ NamesAreDests
        /\ KnownOrLoose
        /\ phase = "succeeded" => Resolved
        /\ OnlyLooseLinger
-----------------------------------------------------------------------------
\* The baseline names items.
LEMMA PreviousAreItems ==
    ASSUME CatalogOK
    PROVE  Previous \subseteq Item
<1>1. ASSUME NEW t \in baseline, NEW n \in t PROVE trees[t][n.path] \in Item
    <2>1. trees[t] \in [{e.path : e \in t} -> Item]
        BY DEF CatalogOK
    <2> QED
        BY <2>1
<1> QED
    BY <1>1 DEF Previous

\* The entries of a tree have a path, a kind and a content.
LEMMA TreeIsStorable ==
    ASSUME SyncOK
    PROVE  /\ Tree \in SUBSET Node
           /\ {Dest[e.item] : e \in entries} = {n.path : n \in Tree}
<1> DEFINE node(e) == [path |-> Dest[e.item], kind |-> e.kind, content |-> e.content]
<1>1. ASSUME NEW e \in entries PROVE node(e) \in Node
    <2>1. e \in Entry
        BY DEF SyncOK
    <2>2. e.item \in Item /\ e.kind \in Kind /\ e.content \in Bytes \cup {None}
        BY <2>1 DEF Entry
    <2>3. Dest[e.item] \in Slot
        BY <2>2, DestAssumption
    <2> QED
        BY <2>2, <2>3 DEF Node
<1>2. Tree = {node(e) : e \in entries}
    BY DEF Tree
<1>3. \A e \in entries : node(e).path = Dest[e.item]
    OBVIOUS
<1> HIDE DEF node
<1>4. Tree \in SUBSET Node
    BY <1>1, <1>2
<1>5. {Dest[e.item] : e \in entries} = {n.path : n \in Tree}
    BY <1>2, <1>3
<1> QED
    BY <1>4, <1>5

\* A result's file holds bytes or is not there.
LEMMA FileIsBytes ==
    ASSUME OutsideOK, NEW i \in Item
    PROVE  File(i) \in Bytes \cup {None}
    BY DestAssumption DEF OutsideOK, File

\* What no status and no content may be mistaken for.
LEMMA NoneIsNoStatus ==
    /\ None \notin Bytes /\ Unseen \notin Bytes /\ Absent \notin Bytes
    /\ Waiting \notin Bytes /\ Error \notin Bytes
    /\ None # Waiting /\ None # Error /\ Absent # Unseen
    BY BytesAssumption, NoneAssumption DEF Unseen, Absent, Waiting, Error

\* Every step keeps the outside, its files and the histories in their kinds.
LEMMA OutsideStep ==
    ASSUME OutsideOK, CatalogOK, SyncOK, [Next]_vars
    PROVE  OutsideOK'
<1>1. ASSUME NEW i \in Item, Change(i)
      PROVE  OutsideOK'
    <2>1. edits' \in 0..MaxEdits
        BY <1>1, BoundAssumption DEF Change, OutsideOK
    <2>2. UNCHANGED <<cached, files, loose>> /\ quiet' = FALSE
        BY <1>1 DEF Change, local
    <2>3. members' \subseteq Item
        BY <1>1 DEF Change, OutsideOK
    <2>4. page' \in [Item -> Bytes \cup {None}]
        BY <1>1 DEF Change, OutsideOK
    <2>5. gone' \subseteq Item
        BY <1>1 DEF Change, OutsideOK
    <2> QED
        BY <2>1, <2>2, <2>3, <2>4, <2>5 DEF OutsideOK
<1>2. ASSUME NEW i \in Item, Fetch(i)
      PROVE  OutsideOK'
    BY <1>2, DestAssumption
    DEF Fetch, Answers, OutsideOK, remote, local, catalog, sync, work, history
<1>3. ASSUME NEW i \in Item, FetchFails(i)
      PROVE  OutsideOK'
    BY <1>3
    DEF FetchFails, OutsideOK, remote, local, catalog, sync, work, history
<1>4. ASSUME NEW i \in Item, Validate(i)
      PROVE  OutsideOK'
    BY <1>4
    DEF Validate, Recording, First, OutsideOK, remote, local, catalog, sync, work,
        history
<1>5. ASSUME NEW i \in Item, Observe(i)
      PROVE  OutsideOK'
    BY <1>5, PreviousAreItems
    DEF Observe, Enter, Recording, First, SyncOK, OutsideOK, remote, local, catalog,
        sync, work, history
<1>6. ASSUME NEW i \in Item, Unresolved(i)
      PROVE  OutsideOK'
    BY <1>6
    DEF Unresolved, DirectNegative, Enter, Recording, First, OutsideOK, remote, local, catalog, sync,
        work, history
<1>7. ASSUME NEW i \in Item, NotFound(i)
      PROVE  OutsideOK'
    BY <1>7
    DEF NotFound, DirectNegative, Enter, Recording, First, OutsideOK, remote, local, catalog, sync,
        work, history
<1>8. ASSUME NEW s \in Slot, LoseFile(s)
      PROVE  OutsideOK'
    BY <1>8, BoundAssumption
    DEF LoseFile, OutsideOK, remote, local, catalog, sync, work, history
<1>9. ASSUME NEW r \in BOOLEAN, Begin(r)
      PROVE  OutsideOK'
    BY <1>9
    DEF Begin, Forget, OutsideOK, remote, local, catalog, sync, work, history
<1>10. CASE Enumerate
    BY <1>10
    DEF Enumerate, OutsideOK, remote, local, catalog, sync, work, history
<1>11. CASE Reconcile
    BY <1>11
    DEF Reconcile, InventoryAbsences, OutsideOK, remote, local, catalog, sync, work, history
<1>12. CASE RecordRemoval
    BY <1>12
    DEF RecordRemoval, First, OutsideOK, remote, local, catalog, sync, work, history
<1>13. CASE RecordTree
    BY <1>13
    DEF RecordTree, OutsideOK, remote, local, catalog, sync, work, history
<1>14. CASE RecordSnapshot
    BY <1>14
    DEF RecordSnapshot, OutsideOK, remote, local, catalog, sync, work, history
<1>15. CASE Interrupt
    BY <1>15
    DEF Interrupt, Forget, OutsideOK, remote, local, catalog, sync, work, history
<1>16. CASE UNCHANGED vars
    BY <1>16 DEF OutsideOK, vars, remote, local, catalog, sync, work, history
<1> QED
    BY <1>1, <1>2, <1>3, <1>4, <1>5, <1>6, <1>7, <1>8, <1>9, <1>10, <1>11, <1>12,
        <1>13, <1>14, <1>15, <1>16 DEF Next

\* Every step keeps the catalog in its kind.
LEMMA CatalogStep ==
    ASSUME OutsideOK, CatalogOK, SyncOK, WorkFollowsPhase, [Next]_vars
    PROVE  CatalogOK'
<1>1. ASSUME NEW i \in Item, Change(i)
      PROVE  CatalogOK'
    BY <1>1
    DEF Change, CatalogOK, remote, local, catalog, sync, work, history
<1>2. ASSUME NEW i \in Item, Fetch(i)
      PROVE  CatalogOK'
    BY <1>2
    DEF Fetch, Answers, CatalogOK, remote, local, catalog, sync, work, history
<1>3. ASSUME NEW i \in Item, FetchFails(i)
      PROVE  CatalogOK'
    BY <1>3
    DEF FetchFails, CatalogOK, remote, local, catalog, sync, work, history
<1>4. ASSUME NEW i \in Item, Validate(i)
      PROVE  CatalogOK'
    BY <1>4, FileIsBytes
    DEF Validate, Recording, First, CatalogOK, remote, local, catalog, sync, work,
        history
<1>5. ASSUME NEW i \in Item, Observe(i)
      PROVE  CatalogOK'
    BY <1>5, FileIsBytes
    DEF Observe, Enter, Recording, First, CatalogOK, remote, local, catalog, sync,
        work, history
<1>6. ASSUME NEW i \in Item, Unresolved(i)
      PROVE  CatalogOK'
    BY <1>6
    DEF Unresolved, DirectNegative, Enter, Recording, First, CatalogOK, remote, local, catalog, sync,
        work, history
<1>7. ASSUME NEW i \in Item, NotFound(i)
      PROVE  CatalogOK'
    BY <1>7
    DEF NotFound, DirectNegative, Enter, Recording, First, CatalogOK, remote, local, catalog, sync,
        work, history
<1>8. ASSUME NEW s \in Slot, LoseFile(s)
      PROVE  CatalogOK'
    BY <1>8
    DEF LoseFile, CatalogOK, remote, local, catalog, sync, work, history
<1>9. ASSUME NEW r \in BOOLEAN, Begin(r)
      PROVE  CatalogOK'
    BY <1>9
    DEF Begin, Forget, CatalogOK, remote, local, catalog, sync, work, history
<1>10. CASE Enumerate
    BY <1>10
    DEF Enumerate, CatalogOK, remote, local, catalog, sync, work, history
<1>11. CASE Reconcile
    BY <1>11
    DEF Reconcile, InventoryAbsences, CatalogOK, remote, local, catalog, sync, work, history
<1>12. CASE RecordRemoval
    BY <1>12
    DEF RecordRemoval, First, CatalogOK, remote, local, catalog, sync, work, history
<1>13. CASE RecordTree
    <2>1. ASSUME NEW t \in DOMAIN trees'
          PROVE  trees'[t] \in [{n.path : n \in t} -> Item]
        <3>1. CASE t \in DOMAIN trees
            BY <1>13, <3>1 DEF RecordTree, CatalogOK
        <3>2. CASE t \notin DOMAIN trees
            <4>1. t = Tree
                BY <1>13, <3>2 DEF RecordTree
            <4>2. ASSUME NEW s \in {Dest[e.item] : e \in entries}
                  PROVE  (CHOOSE e \in entries : Dest[e.item] = s).item \in Item
                BY DEF SyncOK, Entry
            <4>3. trees'[t] = [s \in {Dest[e.item] : e \in entries} |->
                                  (CHOOSE e \in entries : Dest[e.item] = s).item]
                BY <1>13, <3>2, <4>1 DEF RecordTree
            <4>4. trees'[t] \in [{Dest[e.item] : e \in entries} -> Item]
                BY <4>2, <4>3
            <4> QED
                BY <4>1, <4>4, TreeIsStorable
        <3> QED
            BY <3>1, <3>2
    <2>2. DOMAIN trees' = DOMAIN trees \cup {Tree}
        BY <1>13 DEF RecordTree
    <2>3. UNCHANGED <<evidence, latest, baseline>>
        BY <1>13 DEF RecordTree
    <2> QED
        BY <2>1, <2>2, <2>3, TreeIsStorable DEF CatalogOK
<1>14. CASE RecordSnapshot
    BY <1>14
    DEF RecordSnapshot, WorkFollowsPhase, CatalogOK, remote, local, catalog, sync,
        work, history
<1>15. CASE Interrupt
    BY <1>15
    DEF Interrupt, Forget, CatalogOK, remote, local, catalog, sync, work, history
<1>16. CASE UNCHANGED vars
    BY <1>16 DEF CatalogOK, vars, remote, local, catalog, sync, work, history
<1> QED
    BY <1>1, <1>2, <1>3, <1>4, <1>5, <1>6, <1>7, <1>8, <1>9, <1>10, <1>11, <1>12,
        <1>13, <1>14, <1>15, <1>16 DEF Next

\* Every step keeps the sync in its kind.
LEMMA SyncStep ==
    ASSUME OutsideOK, CatalogOK, SyncOK, WorkFollowsPhase, [Next]_vars
    PROVE  SyncOK'
<1>1. ASSUME NEW i \in Item, Change(i)
      PROVE  SyncOK'
    BY <1>1
    DEF Change, SyncOK, Busy, remote, local, catalog, sync, work, history
<1>2. ASSUME NEW i \in Item, Fetch(i)
      PROVE  SyncOK'
    BY <1>2
    DEF Fetch, Answers, OutsideOK, SyncOK, Busy, remote, local, catalog, sync, work,
        history
<1>3. ASSUME NEW i \in Item, FetchFails(i)
      PROVE  SyncOK'
    BY <1>3, BoundAssumption
    DEF FetchFails, SyncOK, Busy, remote, local, catalog, sync, work, history
<1>4. ASSUME NEW i \in Item, Validate(i)
      PROVE  SyncOK'
    BY <1>4, BoundAssumption
    DEF Validate, Recording, First, SyncOK, Busy, remote, local, catalog, sync, work,
        history
<1>5. ASSUME NEW i \in Item, Observe(i)
      PROVE  SyncOK'
    <2>1. entries' \subseteq Entry
        BY <1>5, FileIsBytes DEF Observe, Enter, SyncOK, Entry, Kind
    <2> QED
        BY <1>5, <2>1 DEF Observe, Enter, SyncOK, Busy, sync
<1>6. ASSUME NEW i \in Item, Unresolved(i)
      PROVE  SyncOK'
    <2>1. entries' \subseteq Entry
        BY <1>6, FileIsBytes DEF Unresolved, DirectNegative, Enter, SyncOK, Entry, Kind
    <2> QED
        BY <1>6, <2>1 DEF Unresolved, DirectNegative, Enter, SyncOK, Busy, sync
<1>7. ASSUME NEW i \in Item, NotFound(i)
      PROVE  SyncOK'
    <2>1. entries' \subseteq Entry
        BY <1>7, FileIsBytes DEF NotFound, DirectNegative, Enter, SyncOK, Entry, Kind
    <2> QED
        BY <1>7, <2>1 DEF NotFound, DirectNegative, Enter, SyncOK, Busy, sync
<1>8. ASSUME NEW s \in Slot, LoseFile(s)
      PROVE  SyncOK'
    BY <1>8
    DEF LoseFile, SyncOK, Busy, remote, local, catalog, sync, work, history
<1>9. ASSUME NEW r \in BOOLEAN, Begin(r)
      PROVE  SyncOK'
    <2>1. syncs' \in 0..MaxSyncs /\ faults' \in 0..MaxFaults
        BY <1>9, BoundAssumption DEF Begin, SyncOK
    <2>2. phase' = "listing" /\ refresh' \in BOOLEAN
        BY <1>9 DEF Begin
    <2>3. Forget
        BY <1>9 DEF Begin
    <2> QED
        BY <2>1, <2>2, <2>3 DEF Forget, SyncOK, Busy
<1>10. CASE Enumerate
    <2>1. listing' \subseteq Item /\ complete' \in BOOLEAN /\ pending' \subseteq listing'
        BY <1>10 DEF Enumerate, OutsideOK
    <2>2. phase' = "fetching" /\ todo = {} /\ entries' = entries /\ todo' = todo
        BY <1>10 DEF Enumerate, WorkFollowsPhase
    <2> QED
        BY <1>10, <2>1, <2>2 DEF Enumerate, SyncOK, Busy, sync
<1>11. CASE Reconcile
    BY <1>11, PreviousAreItems
    DEF Reconcile, InventoryAbsences, SyncOK, Busy, remote, local, catalog, sync, work, history
<1>12. CASE RecordRemoval
    BY <1>12
    DEF RecordRemoval, First, SyncOK, Busy, remote, local, catalog, sync, work,
        history
<1>13. CASE RecordTree
    BY <1>13
    DEF RecordTree, SyncOK, Busy, remote, local, catalog, sync, work, history
<1>14. CASE RecordSnapshot
    BY <1>14
    DEF RecordSnapshot, SyncOK, Busy, remote, local, catalog, sync, work, history
<1>15. CASE Interrupt
    BY <1>15
    DEF Interrupt, Forget, SyncOK, Busy, remote, local, catalog, sync, work, history
<1>16. CASE UNCHANGED vars
    BY <1>16 DEF SyncOK, Busy, vars, remote, local, catalog, sync, work, history
<1> QED
    BY <1>1, <1>2, <1>3, <1>4, <1>5, <1>6, <1>7, <1>8, <1>9, <1>10, <1>11, <1>12,
        <1>13, <1>14, <1>15, <1>16 DEF Next

\* The sync's work stays with its phase.
LEMMA PhaseStep ==
    ASSUME OutsideOK, CatalogOK, SyncOK, WorkFollowsPhase, [Next]_vars
    PROVE  WorkFollowsPhase'
<1>1. ASSUME NEW i \in Item, Change(i)
      PROVE  WorkFollowsPhase'
    BY <1>1
    DEF Change, WorkFollowsPhase, Tree, Busy, remote, local, catalog, sync, work,
        history
<1>2. ASSUME NEW i \in Item, Fetch(i)
      PROVE  WorkFollowsPhase'
    BY <1>2
    DEF Fetch, Answers, WorkFollowsPhase, Tree, Busy, remote, local, catalog, sync,
        work, history
<1>3. ASSUME NEW i \in Item, FetchFails(i)
      PROVE  WorkFollowsPhase'
    BY <1>3
    DEF FetchFails, WorkFollowsPhase, Tree, Busy, remote, local, catalog, sync, work,
        history
<1>4. ASSUME NEW i \in Item, Validate(i)
      PROVE  WorkFollowsPhase'
    BY <1>4
    DEF Validate, Recording, First, WorkFollowsPhase, Tree, Busy, remote, local,
        catalog, sync, work, history
<1>5. ASSUME NEW i \in Item, Observe(i)
      PROVE  WorkFollowsPhase'
    BY <1>5
    DEF Observe, Enter, Recording, First, WorkFollowsPhase, Tree, Busy, remote,
        local, catalog, sync, work, history
<1>6. ASSUME NEW i \in Item, Unresolved(i)
      PROVE  WorkFollowsPhase'
    BY <1>6
    DEF Unresolved, DirectNegative, Enter, Recording, First, WorkFollowsPhase, Tree, Busy, remote,
        local, catalog, sync, work, history
<1>7. ASSUME NEW i \in Item, NotFound(i)
      PROVE  WorkFollowsPhase'
    BY <1>7
    DEF NotFound, DirectNegative, Enter, Recording, First, WorkFollowsPhase, Tree, Busy, remote,
        local, catalog, sync, work, history
<1>8. ASSUME NEW s \in Slot, LoseFile(s)
      PROVE  WorkFollowsPhase'
    BY <1>8
    DEF LoseFile, WorkFollowsPhase, Tree, Busy, remote, local, catalog, sync, work,
        history
<1>9. ASSUME NEW r \in BOOLEAN, Begin(r)
      PROVE  WorkFollowsPhase'
    BY <1>9
    DEF Begin, Forget, WorkFollowsPhase, Tree, Busy, remote, local, catalog, sync,
        work, history
<1>10. CASE Enumerate
    BY <1>10
    DEF Enumerate, WorkFollowsPhase, Tree, Busy, remote, local, catalog, sync, work,
        history
<1>11. CASE Reconcile
    BY <1>11
    DEF Reconcile, InventoryAbsences, WorkFollowsPhase, Tree, Busy, remote, local, catalog, sync, work,
        history
<1>12. CASE RecordRemoval
    BY <1>12
    DEF RecordRemoval, First, WorkFollowsPhase, Tree, Busy, remote, local, catalog,
        sync, work, history
<1>13. CASE RecordTree
    <2>1. phase' = "snapshot" /\ Tree' \in DOMAIN trees' /\ todo' = {} /\ removed' = {}
        BY <1>13 DEF RecordTree, Tree, work
    <2> QED
        BY <1>13, <2>1 DEF RecordTree, WorkFollowsPhase, work
<1>14. CASE RecordSnapshot
    BY <1>14
    DEF RecordSnapshot, WorkFollowsPhase, Tree, Busy, remote, local, catalog, sync,
        work, history
<1>15. CASE Interrupt
    BY <1>15
    DEF Interrupt, Forget, WorkFollowsPhase, Tree, Busy, remote, local, catalog,
        sync, work, history
<1>16. CASE UNCHANGED vars
    BY <1>16 DEF WorkFollowsPhase, Tree, Busy, vars, remote, local, catalog, sync,
        work, history
<1> QED
    BY <1>1, <1>2, <1>3, <1>4, <1>5, <1>6, <1>7, <1>8, <1>9, <1>10, <1>11, <1>12,
        <1>13, <1>14, <1>15, <1>16 DEF Next

\* Every listed item is worked on once.
LEMMA ShareStep ==
    ASSUME OutsideOK, CatalogOK, SyncOK, WorkFollowsPhase, WorkIsShared, [Next]_vars
    PROVE  WorkIsShared'
<1>1. ASSUME NEW i \in Item, Change(i)
      PROVE  WorkIsShared'
    BY <1>1
    DEF Change, WorkIsShared, WorkFollowsPhase, SyncOK, Busy, remote, local, catalog,
        sync, work, history
<1>2. ASSUME NEW i \in Item, Fetch(i)
      PROVE  WorkIsShared'
    BY <1>2
    DEF Fetch, Answers, WorkIsShared, WorkFollowsPhase, SyncOK, Busy, remote, local,
        catalog, sync, work, history
<1>3. ASSUME NEW i \in Item, FetchFails(i)
      PROVE  WorkIsShared'
    BY <1>3
    DEF FetchFails, WorkIsShared, WorkFollowsPhase, SyncOK, Busy, remote, local,
        catalog, sync, work, history
<1>4. ASSUME NEW i \in Item, Validate(i)
      PROVE  WorkIsShared'
    BY <1>4
    DEF Validate, Recording, First, WorkIsShared, WorkFollowsPhase, SyncOK, Busy,
        remote, local, catalog, sync, work, history
<1>5. ASSUME NEW i \in Item, Observe(i)
      PROVE  WorkIsShared'
    <2> DEFINE new == [item |-> i, kind |-> "file", content |-> File(i)]
    <2>1. entries' = entries \cup {new} /\ new.item = i
        BY <1>5 DEF Observe, Enter
    <2>2. i \in todo /\ todo' = todo \ {i} /\ phase' = phase /\ UNCHANGED <<listing, removed>>
        BY <1>5 DEF Observe, Enter, Recording, First
    <2> HIDE DEF new
    <2>3. \A e \in entries' : e.item \in listing' \ todo'
        BY <2>1, <2>2 DEF WorkIsShared, SyncOK
    <2>4. phase' \in {"recording", "snapshot", "succeeded"} =>
              \A j \in listing' \ todo' : \E e \in entries' : e.item = j
        BY <2>1, <2>2 DEF WorkIsShared
    <2> QED
        BY <2>2, <2>3, <2>4 DEF WorkIsShared
<1>6. ASSUME NEW i \in Item, Unresolved(i)
      PROVE  WorkIsShared'
    <2> DEFINE new == [item |-> i, kind |-> "unresolved", content |-> File(i)]
    <2>1. entries' = entries \cup {new} /\ new.item = i
        BY <1>6 DEF Unresolved, DirectNegative, Enter
    <2>2. i \in todo /\ todo' = todo \ {i} /\ phase' = phase /\ UNCHANGED <<listing, removed>>
        BY <1>6 DEF Unresolved, DirectNegative, Enter, Recording, First
    <2> HIDE DEF new
    <2>3. \A e \in entries' : e.item \in listing' \ todo'
        BY <2>1, <2>2 DEF WorkIsShared, SyncOK
    <2>4. phase' \in {"recording", "snapshot", "succeeded"} =>
              \A j \in listing' \ todo' : \E e \in entries' : e.item = j
        BY <2>1, <2>2 DEF WorkIsShared
    <2> QED
        BY <2>2, <2>3, <2>4 DEF WorkIsShared
<1>7. ASSUME NEW i \in Item, NotFound(i)
      PROVE  WorkIsShared'
    <2> DEFINE new == [item |-> i, kind |-> "absent", content |-> None]
    <2>1. entries' = entries \cup {new} /\ new.item = i
        BY <1>7 DEF NotFound, DirectNegative, Enter
    <2>2. i \in todo /\ todo' = todo \ {i} /\ phase' = phase /\ UNCHANGED <<listing, removed>>
        BY <1>7 DEF NotFound, DirectNegative, Enter, Recording, First
    <2> HIDE DEF new
    <2>3. \A e \in entries' : e.item \in listing' \ todo'
        BY <2>1, <2>2 DEF WorkIsShared, SyncOK
    <2>4. phase' \in {"recording", "snapshot", "succeeded"} =>
              \A j \in listing' \ todo' : \E e \in entries' : e.item = j
        BY <2>1, <2>2 DEF WorkIsShared
    <2> QED
        BY <2>2, <2>3, <2>4 DEF WorkIsShared
<1>8. ASSUME NEW s \in Slot, LoseFile(s)
      PROVE  WorkIsShared'
    BY <1>8
    DEF LoseFile, WorkIsShared, WorkFollowsPhase, SyncOK, Busy, remote, local,
        catalog, sync, work, history
<1>9. ASSUME NEW r \in BOOLEAN, Begin(r)
      PROVE  WorkIsShared'
    BY <1>9
    DEF Begin, Forget, WorkIsShared, WorkFollowsPhase, SyncOK, Busy, remote, local,
        catalog, sync, work, history
<1>10. CASE Enumerate
    BY <1>10
    DEF Enumerate, WorkIsShared, WorkFollowsPhase, SyncOK, Busy, remote, local,
        catalog, sync, work, history
<1>11. CASE Reconcile
    BY <1>11
    DEF Reconcile, InventoryAbsences, WorkIsShared, WorkFollowsPhase, SyncOK, Busy, remote, local,
        catalog, sync, work, history
<1>12. CASE RecordRemoval
    BY <1>12
    DEF RecordRemoval, First, WorkIsShared, WorkFollowsPhase, SyncOK, Busy, remote,
        local, catalog, sync, work, history
<1>13. CASE RecordTree
    BY <1>13
    DEF RecordTree, WorkIsShared, WorkFollowsPhase, SyncOK, Busy, remote, local,
        catalog, sync, work, history
<1>14. CASE RecordSnapshot
    BY <1>14
    DEF RecordSnapshot, WorkIsShared, WorkFollowsPhase, SyncOK, Busy, remote, local,
        catalog, sync, work, history
<1>15. CASE Interrupt
    BY <1>15
    DEF Interrupt, Forget, WorkIsShared, WorkFollowsPhase, SyncOK, Busy, remote,
        local, catalog, sync, work, history
<1>16. CASE UNCHANGED vars
    BY <1>16 DEF WorkIsShared, WorkFollowsPhase, SyncOK, Busy, vars, remote, local,
        catalog, sync, work, history
<1> QED
    BY <1>1, <1>2, <1>3, <1>4, <1>5, <1>6, <1>7, <1>8, <1>9, <1>10, <1>11, <1>12,
        <1>13, <1>14, <1>15, <1>16 DEF Next

\* What is missing went away.
LEMMA MissingStep ==
    ASSUME OutsideOK, CatalogOK, SyncOK, WorkFollowsPhase, WorkIsShared,
        MissingIsGone, [Next]_vars
    PROVE  MissingIsGone'
<1>1. ASSUME NEW i \in Item, Change(i)
      PROVE  MissingIsGone'
    <2>1. ASSUME NEW j \in Item PROVE Here(j)' \/ j \in gone'
        <3>1. CASE j = i
            BY <1>1, <3>1 DEF Change
        <3>2. CASE j # i
            <4>1. page'[j] = page[j] /\ (j \in members' <=> j \in members)
                BY <1>1, <3>2 DEF Change, OutsideOK
            <4> QED
                BY <1>1, <4>1 DEF Change, MissingIsGone, Here
        <3> QED
            BY <3>1, <3>2
    <2>2. gone \subseteq gone' /\ UNCHANGED <<cached, answer, complete, listing>>
        BY <1>1 DEF Change, local, work
    <2> QED
        BY <2>1, <2>2 DEF MissingIsGone
<1>2. ASSUME NEW i \in Item, Fetch(i)
      PROVE  MissingIsGone'
    <2>1. PICK a \in Answers(i) : /\ answer' = [answer EXCEPT ![i] = a]
                                  /\ cached' = [cached EXCEPT ![i] = a]
        BY <1>2 DEF Fetch
    <2>2. UNCHANGED <<members, page, gone, complete, listing>>
        BY <1>2 DEF Fetch, remote, history
    <2>3. a = None => i \in gone
        BY <2>1, NoneIsNoStatus DEF Answers, MissingIsGone, Here
    <2>4. \A j \in Item : /\ answer'[j] = IF j = i THEN a ELSE answer[j]
                          /\ cached'[j] = IF j = i THEN a ELSE cached[j]
        BY <2>1 DEF OutsideOK, SyncOK
    <2> QED
        BY <2>2, <2>3, <2>4 DEF MissingIsGone, Here
<1>3. ASSUME NEW i \in Item, FetchFails(i)
      PROVE  MissingIsGone'
    <2>1. \A j \in Item : answer'[j] = IF j = i THEN Error ELSE answer[j]
        BY <1>3 DEF FetchFails, SyncOK
    <2>2. UNCHANGED <<members, page, gone, cached, complete, listing>>
        BY <1>3 DEF FetchFails, remote, local, history
    <2> QED
        BY <2>1, <2>2, NoneIsNoStatus DEF MissingIsGone, Here
<1>4. ASSUME NEW i \in Item, Validate(i)
      PROVE  MissingIsGone'
    BY <1>4
    DEF Validate, Recording, First, MissingIsGone, WorkIsShared, SyncOK, Here,
        remote, local, catalog, sync, work, history
<1>5. ASSUME NEW i \in Item, Observe(i)
      PROVE  MissingIsGone'
    <2>1. answer[i] \in Bytes /\ i \in listing
        BY <1>5 DEF Observe, Recording, First, File, SyncOK
    <2>2. UNCHANGED <<members, page, cached, answer, complete, listing>>
        BY <1>5 DEF Observe, Enter, remote, local
    <2>3. gone' \in {gone, gone \ {i}} /\ (Here(i) \/ gone' = gone)
        BY <1>5 DEF Observe
    <2>4. cached[i] # None /\ answer[i] # None
        BY <2>1, NoneIsNoStatus DEF MissingIsGone
    <2> QED
        BY <2>1, <2>2, <2>3, <2>4 DEF MissingIsGone, Here
<1>6. ASSUME NEW i \in Item, Unresolved(i)
      PROVE  MissingIsGone'
    BY <1>6
    DEF Unresolved, DirectNegative, Enter, Recording, First, MissingIsGone, WorkIsShared, SyncOK,
        Here, remote, local, catalog, sync, work, history
<1>7. ASSUME NEW i \in Item, NotFound(i)
      PROVE  MissingIsGone'
    BY <1>7
    DEF NotFound, DirectNegative, Enter, Recording, First, MissingIsGone, WorkIsShared, SyncOK, Here,
        remote, local, catalog, sync, work, history
<1>8. ASSUME NEW s \in Slot, LoseFile(s)
      PROVE  MissingIsGone'
    BY <1>8
    DEF LoseFile, MissingIsGone, WorkIsShared, SyncOK, Here, remote, local, catalog,
        sync, work, history
<1>9. ASSUME NEW r \in BOOLEAN, Begin(r)
      PROVE  MissingIsGone'
    <2>1. complete' = FALSE /\ \A j \in Item : answer'[j] = Waiting
        BY <1>9 DEF Begin, Forget
    <2>2. UNCHANGED <<members, page, gone, cached>>
        BY <1>9 DEF Begin, remote, local, history
    <2> QED
        BY <2>1, <2>2, NoneIsNoStatus DEF MissingIsGone, Here
<1>10. CASE Enumerate
    BY <1>10
    DEF Enumerate, MissingIsGone, WorkIsShared, SyncOK, Here, remote, local, catalog,
        sync, work, history
<1>11. CASE Reconcile
    BY <1>11
    DEF Reconcile, InventoryAbsences, MissingIsGone, WorkIsShared, SyncOK, Here, remote, local, catalog,
        sync, work, history
<1>12. CASE RecordRemoval
    BY <1>12
    DEF RecordRemoval, First, MissingIsGone, WorkIsShared, SyncOK, Here, remote,
        local, catalog, sync, work, history
<1>13. CASE RecordTree
    BY <1>13
    DEF RecordTree, MissingIsGone, WorkIsShared, SyncOK, Here, remote, local,
        catalog, sync, work, history
<1>14. CASE RecordSnapshot
    BY <1>14
    DEF RecordSnapshot, MissingIsGone, WorkIsShared, SyncOK, Here, remote, local,
        catalog, sync, work, history
<1>15. CASE Interrupt
    <2>1. complete' = FALSE /\ \A i \in Item : answer'[i] = Waiting
        BY <1>15 DEF Interrupt, Forget
    <2>2. UNCHANGED <<members, page, gone, cached>>
        BY <1>15 DEF Interrupt, remote, local, history
    <2> QED
        BY <2>1, <2>2, NoneIsNoStatus DEF MissingIsGone, Here
<1>16. CASE UNCHANGED vars
    BY <1>16 DEF MissingIsGone, WorkIsShared, SyncOK, Here, vars, remote, local,
        catalog, sync, work, history
<1> QED
    BY <1>1, <1>2, <1>3, <1>4, <1>5, <1>6, <1>7, <1>8, <1>9, <1>10, <1>11, <1>12,
        <1>13, <1>14, <1>15, <1>16 DEF Next

\* What is recorded absent went away.
LEMMA AbsenceStep ==
    ASSUME OutsideOK, CatalogOK, SyncOK, WorkFollowsPhase, WorkIsShared,
        MissingIsGone, AbsenceIsTrue, [Next]_vars
    PROVE  AbsenceIsTrue'
<1>1. ASSUME NEW i \in Item, Change(i)
      PROVE  AbsenceIsTrue'
    BY <1>1
    DEF Change, AbsenceIsTrue, remote, local, catalog, sync, work, history
<1>2. ASSUME NEW i \in Item, Fetch(i)
      PROVE  AbsenceIsTrue'
    BY <1>2
    DEF Fetch, Answers, AbsenceIsTrue, remote, local, catalog, sync, work, history
<1>3. ASSUME NEW i \in Item, FetchFails(i)
      PROVE  AbsenceIsTrue'
    BY <1>3
    DEF FetchFails, AbsenceIsTrue, remote, local, catalog, sync, work, history
<1>4. ASSUME NEW i \in Item, Validate(i)
      PROVE  AbsenceIsTrue'
    BY <1>4
    DEF Validate, Recording, First, AbsenceIsTrue, remote, local, catalog, sync,
        work, history
<1>5. ASSUME NEW i \in Item, Observe(i)
      PROVE  AbsenceIsTrue'
    <2>1. File(i) \in Bytes
        BY <1>5, FileIsBytes DEF Observe
    <2>2. \A j \in Item : latest'[j] = IF j = i THEN File(i) ELSE latest[j]
        BY <1>5 DEF Observe, CatalogOK
    <2>3. gone \ {i} \subseteq gone'
        BY <1>5 DEF Observe
    <2> QED
        BY <2>1, <2>2, <2>3, NoneIsNoStatus DEF AbsenceIsTrue
<1>6. ASSUME NEW i \in Item, Unresolved(i)
      PROVE  AbsenceIsTrue'
    BY <1>6
    DEF Unresolved, DirectNegative, Enter, Recording, First, AbsenceIsTrue, remote, local, catalog,
        sync, work, history
<1>7. ASSUME NEW i \in Item, NotFound(i)
      PROVE  AbsenceIsTrue'
    <2>1. i \in gone
        BY <1>7 DEF NotFound, DirectNegative, MissingIsGone
    <2>2. gone' = gone /\ \A j \in Item : latest'[j] = IF j = i THEN Absent ELSE latest[j]
        BY <1>7 DEF NotFound, DirectNegative, CatalogOK
    <2> QED
        BY <2>1, <2>2 DEF AbsenceIsTrue
<1>8. ASSUME NEW s \in Slot, LoseFile(s)
      PROVE  AbsenceIsTrue'
    BY <1>8
    DEF LoseFile, AbsenceIsTrue, remote, local, catalog, sync, work, history
<1>9. ASSUME NEW r \in BOOLEAN, Begin(r)
      PROVE  AbsenceIsTrue'
    BY <1>9
    DEF Begin, Forget, AbsenceIsTrue, remote, local, catalog, sync, work, history
<1>10. CASE Enumerate
    BY <1>10
    DEF Enumerate, AbsenceIsTrue, remote, local, catalog, sync, work, history
<1>11. CASE Reconcile
    BY <1>11
    DEF Reconcile, InventoryAbsences, AbsenceIsTrue, remote, local, catalog, sync, work, history
<1>12. CASE RecordRemoval
    <2>1. PICK i \in Item : First(i, removed) /\ latest' = [latest EXCEPT ![i] = Absent]
        BY <1>12 DEF RecordRemoval
    <2>2. i \in gone
        BY <2>1 DEF First, MissingIsGone, WorkIsShared, WorkFollowsPhase
    <2>3. gone' = gone /\ \A j \in Item : latest'[j] = IF j = i THEN Absent ELSE latest[j]
        BY <1>12, <2>1 DEF RecordRemoval, CatalogOK, history
    <2> QED
        BY <2>2, <2>3 DEF AbsenceIsTrue
<1>13. CASE RecordTree
    BY <1>13
    DEF RecordTree, AbsenceIsTrue, remote, local, catalog, sync, work, history
<1>14. CASE RecordSnapshot
    BY <1>14
    DEF RecordSnapshot, AbsenceIsTrue, remote, local, catalog, sync, work, history
<1>15. CASE Interrupt
    BY <1>15
    DEF Interrupt, Forget, AbsenceIsTrue, remote, local, catalog, sync, work, history
<1>16. CASE UNCHANGED vars
    BY <1>16 DEF AbsenceIsTrue, vars, remote, local, catalog, sync, work, history
<1> QED
    BY <1>1, <1>2, <1>3, <1>4, <1>5, <1>6, <1>7, <1>8, <1>9, <1>10, <1>11, <1>12,
        <1>13, <1>14, <1>15, <1>16 DEF Next

\* Entries are of items.
LEMMA EntriesAreOfItems ==
    ASSUME SyncOK
    PROVE  \A e \in entries : e.item \in Item /\ e.kind \in Kind /\ e.content \in Bytes \cup {None}
    BY DEF SyncOK, Entry

\* The names stored with a tree are items.
LEMMA NamesAreItems ==
    ASSUME CatalogOK
    PROVE  \A t \in DOMAIN trees : \A n \in t : trees[t][n.path] \in Item
<1> SUFFICES ASSUME NEW t \in DOMAIN trees, NEW n \in t
             PROVE  trees[t][n.path] \in Item
    OBVIOUS
<1>1. trees[t] \in [{e.path : e \in t} -> Item]
    BY DEF CatalogOK
<1> QED
    BY <1>1

\* A tree names recorded items.
LEMMA NamesStep ==
    ASSUME OutsideOK, CatalogOK, SyncOK, WorkFollowsPhase, WorkIsShared,
        NamesAreRecorded, [Next]_vars
    PROVE  NamesAreRecorded'
<1>1. ASSUME NEW i \in Item, Change(i)
      PROVE  NamesAreRecorded'
    BY <1>1
    DEF Change, NamesAreRecorded, remote, local, catalog, sync, work, history
<1>2. ASSUME NEW i \in Item, Fetch(i)
      PROVE  NamesAreRecorded'
    BY <1>2
    DEF Fetch, Answers, NamesAreRecorded, remote, local, catalog, sync, work, history
<1>3. ASSUME NEW i \in Item, FetchFails(i)
      PROVE  NamesAreRecorded'
    BY <1>3
    DEF FetchFails, NamesAreRecorded, remote, local, catalog, sync, work, history
<1>4. ASSUME NEW i \in Item, Validate(i)
      PROVE  NamesAreRecorded'
    BY <1>4
    DEF Validate, Recording, First, NamesAreRecorded, remote, local, catalog, sync,
        work, history
<1>5. ASSUME NEW i \in Item, Observe(i)
      PROVE  NamesAreRecorded'
    <2> DEFINE new == [item |-> i, kind |-> "file", content |-> File(i)]
    <2>1. File(i) # Unseen
        BY <1>5, FileIsBytes, NoneIsNoStatus DEF Observe
    <2>2. latest' = [latest EXCEPT ![i] = File(i)]
        BY <1>5 DEF Observe
    <2>3. entries' = entries \cup {new} /\ new.item = i /\ UNCHANGED <<trees, baseline>>
        BY <1>5 DEF Observe, Enter
    <2> HIDE DEF new
    <2>4. \A j : j \in Item /\ latest[j] # Unseen => latest'[j] # Unseen
        BY <2>1, <2>2 DEF CatalogOK
    <2>5. \A e \in entries' : e.kind # "unresolved" => latest'[e.item] # Unseen
        BY <2>1, <2>2, <2>3, <2>4, EntriesAreOfItems DEF NamesAreRecorded, CatalogOK
    <2>6. \A t \in DOMAIN trees : \A n \in t : trees[t][n.path] \in Item
        BY NamesAreItems
    <2> QED
        BY <2>3, <2>4, <2>5, <2>6 DEF NamesAreRecorded
<1>6. ASSUME NEW i \in Item, Unresolved(i)
      PROVE  NamesAreRecorded'
    <2> DEFINE new == [item |-> i, kind |-> "unresolved", content |-> File(i)]
    <2>1. entries' = entries \cup {new} /\ new.kind = "unresolved"
        BY <1>6 DEF Unresolved, DirectNegative, Enter
    <2>2. UNCHANGED <<latest, trees, baseline>>
        BY <1>6 DEF Unresolved, DirectNegative, Enter
    <2> HIDE DEF new
    <2> QED
        BY <2>1, <2>2 DEF NamesAreRecorded
<1>7. ASSUME NEW i \in Item, NotFound(i)
      PROVE  NamesAreRecorded'
    <2> DEFINE new == [item |-> i, kind |-> "absent", content |-> None]
    <2>1. Absent # Unseen
        BY NoneIsNoStatus
    <2>2. latest' = [latest EXCEPT ![i] = Absent]
        BY <1>7 DEF NotFound, DirectNegative
    <2>3. entries' = entries \cup {new} /\ new.item = i /\ UNCHANGED <<trees, baseline>>
        BY <1>7 DEF NotFound, DirectNegative, Enter
    <2> HIDE DEF new
    <2>4. \A j : j \in Item /\ latest[j] # Unseen => latest'[j] # Unseen
        BY <2>1, <2>2 DEF CatalogOK
    <2>5. \A e \in entries' : e.kind # "unresolved" => latest'[e.item] # Unseen
        BY <2>1, <2>2, <2>3, <2>4, EntriesAreOfItems DEF NamesAreRecorded, CatalogOK
    <2>6. \A t \in DOMAIN trees : \A n \in t : trees[t][n.path] \in Item
        BY NamesAreItems
    <2> QED
        BY <2>3, <2>4, <2>5, <2>6 DEF NamesAreRecorded
<1>8. ASSUME NEW s \in Slot, LoseFile(s)
      PROVE  NamesAreRecorded'
    BY <1>8
    DEF LoseFile, NamesAreRecorded, remote, local, catalog, sync, work, history
<1>9. ASSUME NEW r \in BOOLEAN, Begin(r)
      PROVE  NamesAreRecorded'
    BY <1>9
    DEF Begin, Forget, NamesAreRecorded, remote, local, catalog, sync, work, history
<1>10. CASE Enumerate
    BY <1>10
    DEF Enumerate, NamesAreRecorded, remote, local, catalog, sync, work, history
<1>11. CASE Reconcile
    BY <1>11
    DEF Reconcile, InventoryAbsences, NamesAreRecorded, remote, local, catalog, sync, work, history
<1>12. CASE RecordRemoval
    <2>1. PICK i \in Item : latest' = [latest EXCEPT ![i] = Absent]
        BY <1>12 DEF RecordRemoval
    <2>2. \A j \in Item : latest[j] # Unseen => latest'[j] # Unseen
        BY <2>1, NoneIsNoStatus DEF CatalogOK
    <2>3. UNCHANGED <<entries, trees, baseline>>
        BY <1>12 DEF RecordRemoval
    <2> QED
        BY <2>2, <2>3, EntriesAreOfItems, NamesAreItems DEF NamesAreRecorded
<1>13. CASE RecordTree
    <2>1. UNCHANGED <<latest, entries, baseline>> /\ DOMAIN trees' = DOMAIN trees \cup {Tree}
        BY <1>13 DEF RecordTree, work
    <2>2. ASSUME NEW t \in DOMAIN trees', \A n \in t : n.kind # "unresolved", NEW n \in t
          PROVE  latest[trees'[t][n.path]] # Unseen
        <3>1. CASE t \in DOMAIN trees
            BY <1>13, <3>1, <2>2 DEF RecordTree, NamesAreRecorded
        <3>2. CASE t \notin DOMAIN trees
            <4> DEFINE named(s) == CHOOSE e \in entries : Dest[e.item] = s
            <4>1. t = Tree
                BY <2>1, <3>2
            <4>2. PICK d \in entries : n = [path |-> Dest[d.item], kind |-> d.kind,
                                            content |-> d.content]
                BY <4>1 DEF Tree
            <4>3. named(n.path) \in entries /\ Dest[named(n.path).item] = n.path
                BY <4>2
            <4>4. trees'[t][n.path] = named(n.path).item
                BY <1>13, <3>2, <4>1, <4>2 DEF RecordTree
            <4>5. named(n.path) = d
                BY <1>13, <4>2, <4>3 DEF RecordTree, OnePathEach
            <4>6. d.kind # "unresolved"
                BY <2>2, <4>2
            <4> QED
                BY <4>4, <4>5, <4>6 DEF NamesAreRecorded
        <3> QED
            BY <3>1, <3>2
    <2> QED
        BY <2>1, <2>2 DEF NamesAreRecorded
<1>14. CASE RecordSnapshot
    <2>1. UNCHANGED <<latest, entries, trees>>
        BY <1>14 DEF RecordSnapshot, work
    <2>2. baseline' \in {baseline, {Tree}} /\ (baseline' = baseline \/ Resolved)
        BY <1>14 DEF RecordSnapshot
    <2>3. Resolved => \A n \in Tree : n.kind # "unresolved"
        BY DEF Resolved, Tree
    <2> QED
        BY <2>1, <2>2, <2>3 DEF NamesAreRecorded
<1>15. CASE Interrupt
    BY <1>15
    DEF Interrupt, Forget, NamesAreRecorded, remote, local, catalog, sync, work,
        history
<1>16. CASE UNCHANGED vars
    BY <1>16 DEF NamesAreRecorded, vars, remote, local, catalog, sync, work, history
<1> QED
    BY <1>1, <1>2, <1>3, <1>4, <1>5, <1>6, <1>7, <1>8, <1>9, <1>10, <1>11, <1>12,
        <1>13, <1>14, <1>15, <1>16 DEF Next

\* The initial states are in the invariant.
LEMMA IInvInit == Init => IInv
<1> SUFFICES ASSUME Init PROVE IInv
    OBVIOUS
<1>1. OutsideOK
    BY BoundAssumption DEF Init, OutsideOK
<1>2. CatalogOK
    BY DEF Init, CatalogOK
<1>3. SyncOK
    <2>1. 0 \in 0..MaxSyncs /\ 0 \in 0..MaxFaults
        BY BoundAssumption
    <2>2. answer \in [Item -> Bytes \cup {None, Waiting, Error}]
        BY DEF Init
    <2> QED
        BY <2>1, <2>2 DEF Init, SyncOK
<1>4. WorkFollowsPhase /\ WorkIsShared
    BY DEF Init, WorkFollowsPhase, WorkIsShared
<1>5. MissingIsGone
    BY NoneIsNoStatus DEF Init, MissingIsGone
<1>6. AbsenceIsTrue /\ NamesAreRecorded
    BY NoneIsNoStatus DEF Init, AbsenceIsTrue, NamesAreRecorded
<1> QED
    BY <1>1, <1>2, <1>3, <1>4, <1>5, <1>6 DEF IInv, TypeOK, OutsideOK, CatalogOK,
        SyncOK

\* TypeOK is its three parts.
LEMMA TypeParts == TypeOK <=> OutsideOK /\ CatalogOK /\ SyncOK
    BY DEF TypeOK, OutsideOK, CatalogOK, SyncOK

\* The conjunction is inductive, for any items, contents and files.
THEOREM IInvHolds == Spec => []IInv
<1>1. TypeOK /\ WorkFollowsPhase /\ [Next]_vars => TypeOK'
    <2> SUFFICES ASSUME TypeOK, WorkFollowsPhase, [Next]_vars PROVE TypeOK'
        OBVIOUS
    <2>1. OutsideOK' /\ CatalogOK' /\ SyncOK'
        BY TypeParts, OutsideStep, CatalogStep, SyncStep
    <2> QED
        BY <2>1 DEF TypeOK, OutsideOK, CatalogOK, SyncOK
<1>2. IInv /\ [Next]_vars => IInv'
    BY <1>1, TypeParts, PhaseStep, ShareStep, MissingStep, AbsenceStep, NamesStep
    DEF IInv
<1> QED
    BY <1>2, IInvInit, PTL DEF Spec

\* Every variable keeps its kind in every reachable state.
THEOREM TypeCorrect == Spec => []TypeOK
    BY IInvHolds, PTL DEF IInv

\* Neither a partial enumeration, nor a failed request, nor a stale cache, nor a
\* crash makes the repository report an item absent that was never missing.
THEOREM AbsenceIsAlwaysTrue == Spec => []AbsenceIsTrue
    BY IInvHolds, PTL DEF IInv

\* A crash leaves no complete snapshot that names an unrecorded item.
THEOREM BaselineIsAlwaysRecorded == Spec => []BaselineIsRecorded
<1>1. IInv => BaselineIsRecorded
    <2> SUFFICES ASSUME IInv, NEW i \in Previous PROVE latest[i] # Unseen
        BY DEF BaselineIsRecorded
    <2>1. PICK t \in baseline : \E n \in t : i = trees[t][n.path]
        BY DEF Previous
    <2>2. t \in DOMAIN trees
        BY DEF IInv, TypeOK
    <2> QED
        BY <2>1, <2>2 DEF IInv, NamesAreRecorded
<1> QED
    BY <1>1, IInvHolds, PTL

\* Evidence of a pass is all an observation is recorded on.
LEMMA EvidenceStep ==
    ASSUME NameBlind, OutsideOK, CatalogOK, SyncOK, EvidenceHolds, ObservedIsValid,
        [Next]_vars
    PROVE  (EvidenceHolds /\ ObservedIsValid)'
<1>1. ASSUME NEW i \in Item, Change(i)
      PROVE  (EvidenceHolds /\ ObservedIsValid)'
    BY <1>1
    DEF Change, EvidenceHolds, ObservedIsValid, remote, local, catalog, sync, work,
        history
<1>2. ASSUME NEW i \in Item, Fetch(i)
      PROVE  (EvidenceHolds /\ ObservedIsValid)'
    BY <1>2
    DEF Fetch, Answers, EvidenceHolds, ObservedIsValid, remote, local, catalog, sync,
        work, history
<1>3. ASSUME NEW i \in Item, FetchFails(i)
      PROVE  (EvidenceHolds /\ ObservedIsValid)'
    BY <1>3
    DEF FetchFails, EvidenceHolds, ObservedIsValid, remote, local, catalog, sync,
        work, history
<1>4. ASSUME NEW i \in Item, Validate(i)
      PROVE  (EvidenceHolds /\ ObservedIsValid)'
    <2>1. File(i) \in Bytes
        BY <1>4, FileIsBytes DEF Validate
    <2>2. \A b \in Bytes : evidence'[b] = "passed" =>
              evidence[b] = "passed" \/ b \in Valid[i]
        BY <1>4, <2>1 DEF Validate, CatalogOK
    <2>3. latest' = latest
        BY <1>4 DEF Validate
    <2> QED
        BY <2>2, <2>3 DEF EvidenceHolds, ObservedIsValid, NameBlind
<1>5. ASSUME NEW i \in Item, Observe(i)
      PROVE  (EvidenceHolds /\ ObservedIsValid)'
    <2>1. File(i) \in Bytes /\ File(i) \in Valid[i]
        BY <1>5, FileIsBytes DEF Observe, EvidenceHolds
    <2>2. \A j \in Item : latest'[j] = IF j = i THEN File(i) ELSE latest[j]
        BY <1>5 DEF Observe, CatalogOK
    <2>3. evidence' = evidence
        BY <1>5 DEF Observe, Enter
    <2> QED
        BY <2>1, <2>2, <2>3 DEF EvidenceHolds, ObservedIsValid
<1>6. ASSUME NEW i \in Item, Unresolved(i)
      PROVE  (EvidenceHolds /\ ObservedIsValid)'
    BY <1>6
    DEF Unresolved, DirectNegative, Enter, Recording, First, EvidenceHolds, ObservedIsValid, remote,
        local, catalog, sync, work, history
<1>7. ASSUME NEW i \in Item, NotFound(i)
      PROVE  (EvidenceHolds /\ ObservedIsValid)'
    <2>1. \A j \in Item : latest'[j] \in {latest[j], Absent}
        BY <1>7 DEF NotFound, DirectNegative, CatalogOK
    <2>2. evidence' = evidence
        BY <1>7 DEF NotFound, DirectNegative, Enter
    <2> QED
        BY <2>1, <2>2, NoneIsNoStatus DEF EvidenceHolds, ObservedIsValid
<1>8. ASSUME NEW s \in Slot, LoseFile(s)
      PROVE  (EvidenceHolds /\ ObservedIsValid)'
    BY <1>8
    DEF LoseFile, EvidenceHolds, ObservedIsValid, remote, local, catalog, sync, work,
        history
<1>9. ASSUME NEW r \in BOOLEAN, Begin(r)
      PROVE  (EvidenceHolds /\ ObservedIsValid)'
    BY <1>9
    DEF Begin, Forget, EvidenceHolds, ObservedIsValid, remote, local, catalog, sync,
        work, history
<1>10. CASE Enumerate
    BY <1>10
    DEF Enumerate, EvidenceHolds, ObservedIsValid, remote, local, catalog, sync,
        work, history
<1>11. CASE Reconcile
    BY <1>11
    DEF Reconcile, InventoryAbsences, EvidenceHolds, ObservedIsValid, remote, local, catalog, sync,
        work, history
<1>12. CASE RecordRemoval
    <2>1. \A j \in Item : latest'[j] \in {latest[j], Absent}
        BY <1>12 DEF RecordRemoval, CatalogOK
    <2>2. evidence' = evidence
        BY <1>12 DEF RecordRemoval, Enter
    <2> QED
        BY <2>1, <2>2, NoneIsNoStatus DEF EvidenceHolds, ObservedIsValid
<1>13. CASE RecordTree
    BY <1>13
    DEF RecordTree, EvidenceHolds, ObservedIsValid, remote, local, catalog, sync,
        work, history
<1>14. CASE RecordSnapshot
    BY <1>14
    DEF RecordSnapshot, EvidenceHolds, ObservedIsValid, remote, local, catalog, sync,
        work, history
<1>15. CASE Interrupt
    BY <1>15
    DEF Interrupt, Forget, EvidenceHolds, ObservedIsValid, remote, local, catalog,
        sync, work, history
<1>16. CASE UNCHANGED vars
    BY <1>16 DEF EvidenceHolds, ObservedIsValid, vars, remote, local, catalog, sync,
        work, history
<1> QED
    BY <1>1, <1>2, <1>3, <1>4, <1>5, <1>6, <1>7, <1>8, <1>9, <1>10, <1>11, <1>12,
        <1>13, <1>14, <1>15, <1>16 DEF Next

\* If no validator looks at names, evidence from any earlier check keeps an item
\* that does not pass out of the repository's state.
THEOREM ObservedIsAlwaysValid == NameBlind /\ Spec => []ObservedIsValid
<1> SUFFICES ASSUME NameBlind PROVE Spec => []ObservedIsValid
    OBVIOUS
<1>1. Init => EvidenceHolds /\ ObservedIsValid
    BY NoneIsNoStatus, NoneAssumption DEF Init, EvidenceHolds, ObservedIsValid
<1>2. TypeOK /\ EvidenceHolds /\ ObservedIsValid /\ [Next]_vars
          => (EvidenceHolds /\ ObservedIsValid)'
    BY EvidenceStep, TypeParts
<1> QED
    BY <1>1, <1>2, TypeCorrect, PTL DEF Spec

\* An answer stays in its item's file, or the file goes.
LEMMA FilesStep ==
    ASSUME OwnFiles, OutsideOK, CatalogOK, SyncOK, WorkFollowsPhase, WorkIsShared,
        FilesHoldAnswers, [Next]_vars
    PROVE  FilesHoldAnswers'
<1>1. ASSUME NEW i \in Item, Change(i)
      PROVE  FilesHoldAnswers'
    BY <1>1
    DEF Change, FilesHoldAnswers, remote, local, catalog, sync, work, history
<1>2. ASSUME NEW i \in Item, Fetch(i)
      PROVE  FilesHoldAnswers'
    <2>1. PICK a \in Answers(i) :
              /\ answer' = [answer EXCEPT ![i] = a]
              /\ files' = IF a = None THEN files ELSE [files EXCEPT ![Dest[i]] = a]
        BY <1>2 DEF Fetch
    <2>2. ASSUME NEW j \in Item, answer'[j] \in Bytes
          PROVE  files'[Dest[j]] \in {answer'[j], None}
        <3>1. Dest[i] \in Slot /\ Dest[j] \in Slot
            BY DestAssumption
        <3>2. CASE j = i
            BY <2>1, <2>2, <3>1, <3>2, NoneIsNoStatus DEF OutsideOK, SyncOK
        <3>3. CASE j # i
            <4>1. answer'[j] = answer[j]
                BY <2>1, <3>3 DEF SyncOK
            <4>2. files'[Dest[j]] = files[Dest[j]]
                BY <2>1, <3>1, <3>3 DEF OutsideOK, OwnFiles
            <4> QED
                BY <2>2, <4>1, <4>2 DEF FilesHoldAnswers
        <3> QED
            BY <3>2, <3>3
    <2> QED
        BY <2>2 DEF FilesHoldAnswers
<1>3. ASSUME NEW i \in Item, FetchFails(i)
      PROVE  FilesHoldAnswers'
    <2>1. \A j \in Item : answer'[j] \in Bytes => answer'[j] = answer[j]
        BY <1>3, NoneIsNoStatus DEF FetchFails, SyncOK
    <2>2. files' = files
        BY <1>3 DEF FetchFails, local
    <2> QED
        BY <2>1, <2>2 DEF FilesHoldAnswers
<1>4. ASSUME NEW i \in Item, Validate(i)
      PROVE  FilesHoldAnswers'
    BY <1>4
    DEF Validate, Recording, First, FilesHoldAnswers, remote, local, catalog, sync,
        work, history
<1>5. ASSUME NEW i \in Item, Observe(i)
      PROVE  FilesHoldAnswers'
    BY <1>5
    DEF Observe, Enter, Recording, First, FilesHoldAnswers, remote, local, catalog,
        sync, work, history
<1>6. ASSUME NEW i \in Item, Unresolved(i)
      PROVE  FilesHoldAnswers'
    BY <1>6
    DEF Unresolved, DirectNegative, Enter, Recording, First, FilesHoldAnswers, remote, local,
        catalog, sync, work, history
<1>7. ASSUME NEW i \in Item, NotFound(i)
      PROVE  FilesHoldAnswers'
    BY <1>7
    DEF NotFound, DirectNegative, Enter, Recording, First, FilesHoldAnswers, remote, local, catalog,
        sync, work, history
<1>8. ASSUME NEW s \in Slot, LoseFile(s)
      PROVE  FilesHoldAnswers'
    <2>1. \A t \in Slot : files'[t] \in {files[t], None}
        BY <1>8 DEF LoseFile, OutsideOK
    <2>2. answer' = answer
        BY <1>8 DEF LoseFile, work
    <2> QED
        BY <2>1, <2>2, DestAssumption DEF FilesHoldAnswers
<1>9. ASSUME NEW r \in BOOLEAN, Begin(r)
      PROVE  FilesHoldAnswers'
    <2>1. \A j \in Item : answer'[j] \in Bytes => answer'[j] = answer[j]
        BY <1>9, NoneIsNoStatus DEF Begin, Forget, SyncOK
    <2>2. files' = files
        BY <1>9 DEF Begin, local
    <2> QED
        BY <2>1, <2>2 DEF FilesHoldAnswers
<1>10. CASE Enumerate
    BY <1>10
    DEF Enumerate, FilesHoldAnswers, remote, local, catalog, sync, work, history
<1>11. CASE Reconcile
    BY <1>11
    DEF Reconcile, InventoryAbsences, FilesHoldAnswers, remote, local, catalog, sync, work, history
<1>12. CASE RecordRemoval
    BY <1>12
    DEF RecordRemoval, First, FilesHoldAnswers, remote, local, catalog, sync, work,
        history
<1>13. CASE RecordTree
    BY <1>13
    DEF RecordTree, FilesHoldAnswers, remote, local, catalog, sync, work, history
<1>14. CASE RecordSnapshot
    BY <1>14
    DEF RecordSnapshot, FilesHoldAnswers, remote, local, catalog, sync, work, history
<1>15. CASE Interrupt
    <2>1. \A j \in Item : answer'[j] \in Bytes => answer'[j] = answer[j]
        BY <1>15, NoneIsNoStatus DEF Interrupt, Forget, SyncOK
    <2>2. files' = files
        BY <1>15 DEF Interrupt, local
    <2> QED
        BY <2>1, <2>2 DEF FilesHoldAnswers
<1>16. CASE UNCHANGED vars
    BY <1>16 DEF FilesHoldAnswers, vars, remote, local, catalog, sync, work, history
<1> QED
    BY <1>1, <1>2, <1>3, <1>4, <1>5, <1>6, <1>7, <1>8, <1>9, <1>10, <1>11, <1>12,
        <1>13, <1>14, <1>15, <1>16 DEF Next

\* An entry goes on saying what its item was answered with.
LEMMA EntriesStep ==
    ASSUME OwnFiles, OutsideOK, CatalogOK, SyncOK, WorkFollowsPhase, WorkIsShared,
        FilesHoldAnswers, EntriesTell, [Next]_vars
    PROVE  EntriesTell'
<1>1. ASSUME NEW i \in Item, Change(i)
      PROVE  EntriesTell'
    BY <1>1
    DEF Change, EntriesTell, remote, local, catalog, sync, work, history
<1>2. ASSUME NEW i \in Item, Fetch(i)
      PROVE  EntriesTell'
    <2>1. entries' = {}
        BY <1>2 DEF Fetch, WorkFollowsPhase
    <2> QED
        BY <2>1 DEF EntriesTell
<1>3. ASSUME NEW i \in Item, FetchFails(i)
      PROVE  EntriesTell'
    <2>1. entries' = {}
        BY <1>3 DEF FetchFails, WorkFollowsPhase
    <2> QED
        BY <2>1 DEF EntriesTell
<1>4. ASSUME NEW i \in Item, Validate(i)
      PROVE  EntriesTell'
    BY <1>4
    DEF Validate, Recording, First, EntriesTell, remote, local, catalog, sync, work,
        history
<1>5. ASSUME NEW i \in Item, Observe(i)
      PROVE  EntriesTell'
    <2> DEFINE new == [item |-> i, kind |-> "file", content |-> File(i)]
    <2>1. entries' = entries \cup {new} /\ answer' = answer
        BY <1>5 DEF Observe, Enter
    <2>2. new.item = i /\ new.kind = "file" /\ new.content = File(i)
        OBVIOUS
    <2>3. File(i) \in Bytes /\ File(i) = answer[i]
        BY <1>5, FileIsBytes DEF Observe, FilesHoldAnswers, File
    <2>4. \A j \in Item : latest'[j] = IF j = i THEN File(i) ELSE latest[j]
        BY <1>5 DEF Observe, CatalogOK
    <2>5. \A e \in entries : e.item \in Item /\ e.item # i
        BY <1>5, EntriesAreOfItems DEF Observe, Recording, First, WorkIsShared
    <2> HIDE DEF new
    <2> QED
        BY <2>1, <2>2, <2>3, <2>4, <2>5 DEF EntriesTell
<1>6. ASSUME NEW i \in Item, Unresolved(i)
      PROVE  EntriesTell'
    <2> DEFINE new == [item |-> i, kind |-> "unresolved", content |-> File(i)]
    <2>1. entries' = entries \cup {new} /\ answer' = answer /\ latest' = latest
        BY <1>6 DEF Unresolved, DirectNegative, Enter
    <2>2. new.kind = "unresolved"
        OBVIOUS
    <2> HIDE DEF new
    <2> QED
        BY <2>1, <2>2 DEF EntriesTell
<1>7. ASSUME NEW i \in Item, NotFound(i)
      PROVE  EntriesTell'
    <2> DEFINE new == [item |-> i, kind |-> "absent", content |-> None]
    <2>1. entries' = entries \cup {new} /\ answer' = answer
        BY <1>7 DEF NotFound, DirectNegative, Enter
    <2>2. new.item = i /\ new.kind = "absent" /\ new.content = None
        OBVIOUS
    <2>3. answer[i] = None
        BY <1>7, FileIsBytes DEF NotFound, DirectNegative, FilesHoldAnswers, File
    <2>4. \A j \in Item : latest'[j] = IF j = i THEN Absent ELSE latest[j]
        BY <1>7 DEF NotFound, DirectNegative, CatalogOK
    <2>5. \A e \in entries : e.item \in Item /\ e.item # i
        BY <1>7, EntriesAreOfItems DEF NotFound, DirectNegative, Recording, First, WorkIsShared
    <2> HIDE DEF new
    <2> QED
        BY <2>1, <2>2, <2>3, <2>4, <2>5 DEF EntriesTell
<1>8. ASSUME NEW s \in Slot, LoseFile(s)
      PROVE  EntriesTell'
    BY <1>8
    DEF LoseFile, EntriesTell, remote, local, catalog, sync, work, history
<1>9. ASSUME NEW r \in BOOLEAN, Begin(r)
      PROVE  EntriesTell'
    <2>1. entries' = {}
        BY <1>9 DEF Begin, Forget
    <2> QED
        BY <2>1 DEF EntriesTell
<1>10. CASE Enumerate
    BY <1>10
    DEF Enumerate, EntriesTell, remote, local, catalog, sync, work, history
<1>11. CASE Reconcile
    BY <1>11
    DEF Reconcile, InventoryAbsences, EntriesTell, remote, local, catalog, sync, work, history
<1>12. CASE RecordRemoval
    <2>1. PICK i \in removed : latest' = [latest EXCEPT ![i] = Absent]
        BY <1>12 DEF RecordRemoval, First
    <2>2. UNCHANGED <<entries, answer>>
        BY <1>12 DEF RecordRemoval
    <2>3. \A e \in entries : e.item \in Item /\ e.item # i
        BY EntriesAreOfItems DEF WorkIsShared
    <2>4. \A j \in Item : j # i => latest'[j] = latest[j]
        BY <2>1 DEF CatalogOK
    <2> QED
        BY <2>2, <2>3, <2>4 DEF EntriesTell
<1>13. CASE RecordTree
    BY <1>13
    DEF RecordTree, EntriesTell, remote, local, catalog, sync, work, history
<1>14. CASE RecordSnapshot
    BY <1>14
    DEF RecordSnapshot, EntriesTell, remote, local, catalog, sync, work, history
<1>15. CASE Interrupt
    <2>1. entries' = {}
        BY <1>15 DEF Interrupt, Forget
    <2> QED
        BY <2>1 DEF EntriesTell
<1>16. CASE UNCHANGED vars
    BY <1>16 DEF EntriesTell, vars, remote, local, catalog, sync, work, history
<1> QED
    BY <1>1, <1>2, <1>3, <1>4, <1>5, <1>6, <1>7, <1>8, <1>9, <1>10, <1>11, <1>12,
        <1>13, <1>14, <1>15, <1>16 DEF Next

\* While nothing changes, a refresh is answered with the page there is.
LEMMA QuietStep ==
    ASSUME OwnFiles, OutsideOK, CatalogOK, SyncOK, WorkFollowsPhase, WorkIsShared,
        QuietAnswers, [Next]_vars
    PROVE  QuietAnswers'
<1>1. ASSUME NEW i \in Item, Change(i)
      PROVE  QuietAnswers'
    BY <1>1
    DEF Change, QuietAnswers, remote, local, catalog, sync, work, history
<1>2. ASSUME NEW i \in Item, Fetch(i)
      PROVE  QuietAnswers'
    <2>1. PICK a \in Answers(i) : answer' = [answer EXCEPT ![i] = a]
        BY <1>2 DEF Fetch
    <2>2. refresh => a = page[i]
        BY <2>1 DEF Answers
    <2>3. UNCHANGED <<page, refresh, quiet>>
        BY <1>2 DEF Fetch, remote, sync, history
    <2> QED
        BY <2>1, <2>2, <2>3 DEF QuietAnswers, SyncOK
<1>3. ASSUME NEW i \in Item, FetchFails(i)
      PROVE  QuietAnswers'
    <2>1. \A j \in Item : answer'[j] \in {answer[j], Error}
        BY <1>3 DEF FetchFails, SyncOK
    <2>2. UNCHANGED <<page, refresh, quiet>>
        BY <1>3 DEF FetchFails, remote, sync, history
    <2> QED
        BY <2>1, <2>2 DEF QuietAnswers
<1>4. ASSUME NEW i \in Item, Validate(i)
      PROVE  QuietAnswers'
    BY <1>4
    DEF Validate, Recording, First, QuietAnswers, remote, local, catalog, sync, work,
        history
<1>5. ASSUME NEW i \in Item, Observe(i)
      PROVE  QuietAnswers'
    BY <1>5
    DEF Observe, Enter, Recording, First, QuietAnswers, remote, local, catalog, sync,
        work, history
<1>6. ASSUME NEW i \in Item, Unresolved(i)
      PROVE  QuietAnswers'
    BY <1>6
    DEF Unresolved, DirectNegative, Enter, Recording, First, QuietAnswers, remote, local, catalog,
        sync, work, history
<1>7. ASSUME NEW i \in Item, NotFound(i)
      PROVE  QuietAnswers'
    BY <1>7
    DEF NotFound, DirectNegative, Enter, Recording, First, QuietAnswers, remote, local, catalog,
        sync, work, history
<1>8. ASSUME NEW s \in Slot, LoseFile(s)
      PROVE  QuietAnswers'
    BY <1>8
    DEF LoseFile, QuietAnswers, remote, local, catalog, sync, work, history
<1>9. ASSUME NEW r \in BOOLEAN, Begin(r)
      PROVE  QuietAnswers'
    <2>1. \A j \in Item : answer'[j] = Waiting
        BY <1>9 DEF Begin, Forget
    <2> QED
        BY <2>1 DEF QuietAnswers
<1>10. CASE Enumerate
    BY <1>10
    DEF Enumerate, QuietAnswers, remote, local, catalog, sync, work, history
<1>11. CASE Reconcile
    BY <1>11
    DEF Reconcile, InventoryAbsences, QuietAnswers, remote, local, catalog, sync, work, history
<1>12. CASE RecordRemoval
    BY <1>12
    DEF RecordRemoval, First, QuietAnswers, remote, local, catalog, sync, work,
        history
<1>13. CASE RecordTree
    BY <1>13
    DEF RecordTree, QuietAnswers, remote, local, catalog, sync, work, history
<1>14. CASE RecordSnapshot
    BY <1>14
    DEF RecordSnapshot, QuietAnswers, remote, local, catalog, sync, work, history
<1>15. CASE Interrupt
    <2>1. \A j \in Item : answer'[j] = Waiting
        BY <1>15 DEF Interrupt, Forget
    <2> QED
        BY <2>1 DEF QuietAnswers
<1>16. CASE UNCHANGED vars
    BY <1>16 DEF QuietAnswers, vars, remote, local, catalog, sync, work, history
<1> QED
    BY <1>1, <1>2, <1>3, <1>4, <1>5, <1>6, <1>7, <1>8, <1>9, <1>10, <1>11, <1>12,
        <1>13, <1>14, <1>15, <1>16 DEF Next

\* The names stored with a tree are those of its paths.
LEMMA DestsStep ==
    ASSUME OwnFiles, OutsideOK, CatalogOK, SyncOK, WorkFollowsPhase, WorkIsShared,
        NamesAreDests, [Next]_vars
    PROVE  NamesAreDests'
<1>1. ASSUME NEW i \in Item, Change(i)
      PROVE  NamesAreDests'
    BY <1>1
    DEF Change, NamesAreDests, remote, local, catalog, sync, work, history
<1>2. ASSUME NEW i \in Item, Fetch(i)
      PROVE  NamesAreDests'
    BY <1>2
    DEF Fetch, Answers, NamesAreDests, remote, local, catalog, sync, work, history
<1>3. ASSUME NEW i \in Item, FetchFails(i)
      PROVE  NamesAreDests'
    BY <1>3
    DEF FetchFails, NamesAreDests, remote, local, catalog, sync, work, history
<1>4. ASSUME NEW i \in Item, Validate(i)
      PROVE  NamesAreDests'
    BY <1>4
    DEF Validate, Recording, First, NamesAreDests, remote, local, catalog, sync,
        work, history
<1>5. ASSUME NEW i \in Item, Observe(i)
      PROVE  NamesAreDests'
    BY <1>5
    DEF Observe, Enter, Recording, First, NamesAreDests, remote, local, catalog,
        sync, work, history
<1>6. ASSUME NEW i \in Item, Unresolved(i)
      PROVE  NamesAreDests'
    BY <1>6
    DEF Unresolved, DirectNegative, Enter, Recording, First, NamesAreDests, remote, local, catalog,
        sync, work, history
<1>7. ASSUME NEW i \in Item, NotFound(i)
      PROVE  NamesAreDests'
    BY <1>7
    DEF NotFound, DirectNegative, Enter, Recording, First, NamesAreDests, remote, local, catalog,
        sync, work, history
<1>8. ASSUME NEW s \in Slot, LoseFile(s)
      PROVE  NamesAreDests'
    BY <1>8
    DEF LoseFile, NamesAreDests, remote, local, catalog, sync, work, history
<1>9. ASSUME NEW r \in BOOLEAN, Begin(r)
      PROVE  NamesAreDests'
    BY <1>9
    DEF Begin, Forget, NamesAreDests, remote, local, catalog, sync, work, history
<1>10. CASE Enumerate
    BY <1>10
    DEF Enumerate, NamesAreDests, remote, local, catalog, sync, work, history
<1>11. CASE Reconcile
    BY <1>11
    DEF Reconcile, InventoryAbsences, NamesAreDests, remote, local, catalog, sync, work, history
<1>12. CASE RecordRemoval
    BY <1>12
    DEF RecordRemoval, First, NamesAreDests, remote, local, catalog, sync, work,
        history
<1>13. CASE RecordTree
    <2>1. DOMAIN trees' = DOMAIN trees \cup {Tree}
        BY <1>13 DEF RecordTree
    <2>2. ASSUME NEW t \in DOMAIN trees', NEW n \in t
          PROVE  Dest[trees'[t][n.path]] = n.path
        <3>1. CASE t \in DOMAIN trees
            BY <1>13, <3>1 DEF RecordTree, NamesAreDests
        <3>2. CASE t \notin DOMAIN trees
            <4> DEFINE named(s) == CHOOSE e \in entries : Dest[e.item] = s
            <4>1. t = Tree
                BY <2>1, <3>2
            <4>2. PICK d \in entries : n.path = Dest[d.item]
                BY <4>1 DEF Tree
            <4>3. Dest[named(n.path).item] = n.path
                BY <4>2
            <4>4. trees'[t][n.path] = named(n.path).item
                BY <1>13, <3>2, <4>1, <4>2 DEF RecordTree
            <4> QED
                BY <4>3, <4>4
        <3> QED
            BY <3>1, <3>2
    <2> QED
        BY <2>2 DEF NamesAreDests
<1>14. CASE RecordSnapshot
    BY <1>14
    DEF RecordSnapshot, NamesAreDests, remote, local, catalog, sync, work, history
<1>15. CASE Interrupt
    BY <1>15
    DEF Interrupt, Forget, NamesAreDests, remote, local, catalog, sync, work, history
<1>16. CASE UNCHANGED vars
    BY <1>16 DEF NamesAreDests, vars, remote, local, catalog, sync, work, history
<1> QED
    BY <1>1, <1>2, <1>3, <1>4, <1>5, <1>6, <1>7, <1>8, <1>9, <1>10, <1>11, <1>12,
        <1>13, <1>14, <1>15, <1>16 DEF Next

\* A stored tree keeps its names, so a baseline that stays has the same items.
LEMMA PreviousStays ==
    ASSUME CatalogOK, [Next]_vars, baseline' = baseline
    PROVE  Previous' = Previous
<1>1. \A t \in DOMAIN trees : trees'[t] = trees[t]
    <2>1. CASE RecordTree
        BY <2>1 DEF RecordTree
    <2>2. CASE trees' = trees
        BY <2>2
    <2> QED
        BY <2>1, <2>2 DEF Next, vars, catalog, Change, LoseFile, Begin, Enumerate,
            Fetch,
            FetchFails, Reconcile, InventoryAbsences, Validate, Observe, Unresolved, NotFound,
            DirectNegative, Enter,
            RecordRemoval, RecordSnapshot, Interrupt
<1>2. \A t \in baseline : trees'[t] = trees[t]
    BY <1>1 DEF CatalogOK
<1> QED
    BY <1>2 DEF Previous

\* A complete snapshot of resolved entries names every listed item.
LEMMA SnapshotNamesListing ==
    ASSUME OwnFiles, TypeOK, WorkFollowsPhase, WorkIsShared, NamesAreDests,
           phase = "snapshot", NEW i \in listing
    PROVE  \E n \in Tree : trees[Tree][n.path] = i
<1>1. PICK e \in entries : e.item = i
    BY DEF WorkFollowsPhase, WorkIsShared
<1> DEFINE n == [path |-> Dest[e.item], kind |-> e.kind, content |-> e.content]
<1>2. n \in Tree /\ n.path = Dest[i]
    BY <1>1 DEF Tree
<1> HIDE DEF n
<1>3. Tree \in DOMAIN trees
    BY DEF WorkFollowsPhase
<1>4. Dest[trees[Tree][n.path]] = Dest[i] /\ trees[Tree][n.path] \in Item /\ i \in Item
    BY <1>2, <1>3, NamesAreItems, TypeParts DEF NamesAreDests, SyncOK
<1> QED
    BY <1>2, <1>4 DEF OwnFiles

\* A present item is in the baseline or loose.
LEMMA KnownStep ==
    ASSUME OwnFiles, OutsideOK, CatalogOK, SyncOK, WorkFollowsPhase, WorkIsShared,
        NamesAreDests, KnownOrLoose, [Next]_vars
    PROVE  KnownOrLoose'
<1>1. ASSUME NEW i \in Item, Change(i)
      PROVE  KnownOrLoose'
    <2>1. Previous' = Previous
        BY PreviousStays, <1>1 DEF Change, catalog, history, work
    <2>2. UNCHANGED <<latest, loose>>
        BY <1>1 DEF Change, catalog, history, work
    <2>3. UNCHANGED <<phase, complete, listing, removed>>
        BY <1>1 DEF Change, catalog, history, work
    <2> QED
        BY <2>1, <2>2, <2>3 DEF KnownOrLoose
<1>2. ASSUME NEW i \in Item, Fetch(i)
      PROVE  KnownOrLoose'
    <2>1. Previous' = Previous
        BY PreviousStays, <1>2 DEF Fetch, catalog, history, work
    <2>2. UNCHANGED <<latest, loose>>
        BY <1>2 DEF Fetch, catalog, history, work
    <2>3. phase' \notin {"recording", "snapshot"}
        BY <1>2 DEF Fetch, catalog, history, work
    <2> QED
        BY <2>1, <2>2, <2>3 DEF KnownOrLoose
<1>3. ASSUME NEW i \in Item, FetchFails(i)
      PROVE  KnownOrLoose'
    <2>1. Previous' = Previous
        BY PreviousStays, <1>3 DEF FetchFails, catalog, history, work
    <2>2. UNCHANGED <<latest, loose>>
        BY <1>3 DEF FetchFails, catalog, history, work
    <2>3. phase' \notin {"recording", "snapshot"}
        BY <1>3 DEF FetchFails, catalog, history, work
    <2> QED
        BY <2>1, <2>2, <2>3 DEF KnownOrLoose
<1>4. ASSUME NEW i \in Item, Validate(i)
      PROVE  KnownOrLoose'
    <2>1. Previous' = Previous
        BY PreviousStays, <1>4 DEF Validate, catalog, history, work
    <2>2. UNCHANGED <<latest, loose>>
        BY <1>4 DEF Validate, catalog, history, work
    <2>3. UNCHANGED <<phase, complete, listing, removed>>
        BY <1>4 DEF Validate, catalog, history, work
    <2> QED
        BY <2>1, <2>2, <2>3 DEF KnownOrLoose
<1>5. ASSUME NEW i \in Item, Observe(i)
      PROVE  KnownOrLoose'
    <2>1. Previous' = Previous
        BY PreviousStays, <1>5 DEF Observe, Enter
    <2>2. \A j \in Item : j # i => latest'[j] = latest[j]
        BY <1>5 DEF Observe, CatalogOK
    <2>3. i \in loose' \cup Previous /\ loose \subseteq loose'
        BY <1>5 DEF Observe
    <2>4. UNCHANGED <<phase, complete, listing, removed>> /\ i \in listing
        BY <1>5 DEF Observe, Enter, Recording, First, SyncOK
    <2> QED
        BY <2>1, <2>2, <2>3, <2>4, PreviousAreItems DEF KnownOrLoose
<1>6. ASSUME NEW i \in Item, Unresolved(i)
      PROVE  KnownOrLoose'
    <2>1. Previous' = Previous
        BY PreviousStays, <1>6 DEF Unresolved, DirectNegative, Enter, catalog, history, work
    <2>2. UNCHANGED <<latest, loose>>
        BY <1>6 DEF Unresolved, DirectNegative, Enter, catalog, history, work
    <2>3. UNCHANGED <<phase, complete, listing, removed>>
        BY <1>6 DEF Unresolved, DirectNegative, Enter, catalog, history, work
    <2> QED
        BY <2>1, <2>2, <2>3 DEF KnownOrLoose
<1>7. ASSUME NEW i \in Item, NotFound(i)
      PROVE  KnownOrLoose'
    <2>1. Previous' = Previous
        BY PreviousStays, <1>7 DEF NotFound, DirectNegative, Enter
    <2>2. \A j \in Item : latest'[j] = IF j = i THEN Absent ELSE latest[j]
        BY <1>7 DEF NotFound, DirectNegative, CatalogOK
    <2>3. UNCHANGED <<phase, complete, listing, removed, loose>>
        BY <1>7 DEF NotFound, DirectNegative, Enter
    <2> QED
        BY <2>1, <2>2, <2>3, PreviousAreItems, NoneIsNoStatus DEF KnownOrLoose
<1>8. ASSUME NEW s \in Slot, LoseFile(s)
      PROVE  KnownOrLoose'
    <2>1. Previous' = Previous
        BY PreviousStays, <1>8 DEF LoseFile, catalog, history, work
    <2>2. UNCHANGED <<latest, loose>>
        BY <1>8 DEF LoseFile, catalog, history, work
    <2>3. UNCHANGED <<phase, complete, listing, removed>>
        BY <1>8 DEF LoseFile, catalog, history, work
    <2> QED
        BY <2>1, <2>2, <2>3 DEF KnownOrLoose
<1>9. ASSUME NEW r \in BOOLEAN, Begin(r)
      PROVE  KnownOrLoose'
    <2>1. Previous' = Previous
        BY PreviousStays, <1>9 DEF Begin, catalog, history, work
    <2>2. UNCHANGED <<latest, loose>>
        BY <1>9 DEF Begin, catalog, history, work
    <2>3. phase' \notin {"recording", "snapshot"}
        BY <1>9 DEF Begin, catalog, history, work
    <2> QED
        BY <2>1, <2>2, <2>3 DEF KnownOrLoose
<1>10. CASE Enumerate
    <2>1. Previous' = Previous
        BY PreviousStays, <1>10 DEF Enumerate, catalog, history, work
    <2>2. UNCHANGED <<latest, loose>>
        BY <1>10 DEF Enumerate, catalog, history, work
    <2>3. phase' \notin {"recording", "snapshot"}
        BY <1>10 DEF Enumerate, catalog, history, work
    <2> QED
        BY <2>1, <2>2, <2>3 DEF KnownOrLoose
<1>11. CASE Reconcile
    <2>1. Previous' = Previous
        BY PreviousStays, <1>11 DEF Reconcile, InventoryAbsences, catalog
    <2>2. UNCHANGED <<latest, loose, complete, listing>>
        BY <1>11 DEF Reconcile, InventoryAbsences, catalog, history
    <2>3. complete => removed' = Previous \ listing
        BY <1>11 DEF Reconcile, InventoryAbsences
    <2> QED
        BY <2>1, <2>2, <2>3 DEF KnownOrLoose
<1>12. CASE RecordRemoval
    <2>1. Previous' = Previous
        BY PreviousStays, <1>12 DEF RecordRemoval
    <2>2. PICK i \in Item : latest' = [latest EXCEPT ![i] = Absent] /\ removed' = removed \ {i}
        BY <1>12 DEF RecordRemoval
    <2>3. \A j \in Item : latest'[j] = IF j = i THEN Absent ELSE latest[j]
        BY <2>2 DEF CatalogOK
    <2>4. UNCHANGED <<phase, complete, listing, loose>>
        BY <1>12 DEF RecordRemoval, history
    <2> QED
        BY <2>1, <2>2, <2>3, <2>4, PreviousAreItems, NoneIsNoStatus DEF KnownOrLoose
<1>13. CASE RecordTree
    <2>1. Previous' = Previous
        BY PreviousStays, <1>13 DEF RecordTree
    <2>2. UNCHANGED <<latest, loose, complete, listing, removed>> /\ phase = "recording"
        BY <1>13 DEF RecordTree, history, work
    <2> QED
        BY <2>1, <2>2 DEF KnownOrLoose
<1>14. CASE RecordSnapshot
    <2>1. phase' \notin {"recording", "snapshot"} /\ latest' = latest
        BY <1>14 DEF RecordSnapshot
    <2>2. CASE baseline' = baseline /\ loose' = loose
        BY <2>1, <2>2, PreviousStays DEF KnownOrLoose
    <2>3. CASE complete /\ baseline' = {Tree} /\ loose' = loose \ listing
        <3>1. Previous' = {trees[Tree][n.path] : n \in Tree}
            BY <1>14, <2>3 DEF RecordSnapshot, Previous
        <3>2. phase = "snapshot" /\ removed = {}
            BY <1>14 DEF RecordSnapshot, WorkFollowsPhase
        <3>3. listing \subseteq Previous'
            BY <3>1, <3>2, SnapshotNamesListing, TypeParts
        <3>4. ASSUME NEW i \in Item, latest[i] \in Bytes PROVE i \in loose' \cup Previous'
            <4>1. CASE i \in listing
                BY <3>3, <4>1
            <4>2. CASE i \notin listing
                <5>1. i \notin Previous
                    BY <2>3, <3>2, <3>4, <4>2, NoneIsNoStatus DEF KnownOrLoose
                <5> QED
                    BY <2>3, <3>4, <4>2, <5>1 DEF KnownOrLoose
            <4> QED
                BY <4>1, <4>2
        <3> QED
            BY <2>1, <3>4 DEF KnownOrLoose
    <2> QED
        BY <1>14, <2>2, <2>3 DEF RecordSnapshot
<1>15. CASE Interrupt
    <2>1. Previous' = Previous
        BY PreviousStays, <1>15 DEF Interrupt, catalog, history, work
    <2>2. UNCHANGED <<latest, loose>>
        BY <1>15 DEF Interrupt, catalog, history, work
    <2>3. phase' \notin {"recording", "snapshot"}
        BY <1>15 DEF Interrupt, catalog, history, work
    <2> QED
        BY <2>1, <2>2, <2>3 DEF KnownOrLoose
<1>16. CASE UNCHANGED vars
    <2>1. Previous' = Previous
        BY PreviousStays, <1>16 DEF vars, catalog
    <2> QED
        BY <1>16, <2>1 DEF KnownOrLoose, vars, catalog, work, history
<1> QED
    BY <1>1, <1>2, <1>3, <1>4, <1>5, <1>6, <1>7, <1>8, <1>9, <1>10, <1>11, <1>12,
        <1>13, <1>14, <1>15, <1>16 DEF Next

\* A complete sync leaves only loose items it did not list.
LEMMA LooseStep ==
    ASSUME OwnFiles, OutsideOK, CatalogOK, SyncOK, WorkFollowsPhase, WorkIsShared,
        KnownOrLoose, OnlyLooseLinger,
           phase = "succeeded" => Resolved, [Next]_vars
    PROVE  (OnlyLooseLinger /\ (phase = "succeeded" => Resolved))'
<1>1. ASSUME NEW i \in Item, Change(i)
      PROVE  (OnlyLooseLinger /\ (phase = "succeeded" => Resolved))'
    BY <1>1
    DEF Change, OnlyLooseLinger, Resolved, remote, local, catalog, sync, work, history
<1>2. ASSUME NEW i \in Item, Fetch(i)
      PROVE  (OnlyLooseLinger /\ (phase = "succeeded" => Resolved))'
    <2>1. phase' # "succeeded"
        BY <1>2 DEF Fetch
    <2> QED
        BY <2>1 DEF OnlyLooseLinger
<1>3. ASSUME NEW i \in Item, FetchFails(i)
      PROVE  (OnlyLooseLinger /\ (phase = "succeeded" => Resolved))'
    <2>1. phase' # "succeeded"
        BY <1>3 DEF FetchFails
    <2> QED
        BY <2>1 DEF OnlyLooseLinger
<1>4. ASSUME NEW i \in Item, Validate(i)
      PROVE  (OnlyLooseLinger /\ (phase = "succeeded" => Resolved))'
    <2>1. phase' # "succeeded"
        BY <1>4 DEF Validate, Recording, work
    <2> QED
        BY <2>1 DEF OnlyLooseLinger
<1>5. ASSUME NEW i \in Item, Observe(i)
      PROVE  (OnlyLooseLinger /\ (phase = "succeeded" => Resolved))'
    <2>1. phase' # "succeeded"
        BY <1>5 DEF Observe, Enter, Recording
    <2> QED
        BY <2>1 DEF OnlyLooseLinger
<1>6. ASSUME NEW i \in Item, Unresolved(i)
      PROVE  (OnlyLooseLinger /\ (phase = "succeeded" => Resolved))'
    <2>1. phase' # "succeeded"
        BY <1>6 DEF Unresolved, DirectNegative, Enter, Recording
    <2> QED
        BY <2>1 DEF OnlyLooseLinger
<1>7. ASSUME NEW i \in Item, NotFound(i)
      PROVE  (OnlyLooseLinger /\ (phase = "succeeded" => Resolved))'
    <2>1. phase' # "succeeded"
        BY <1>7 DEF NotFound, DirectNegative, Enter, Recording
    <2> QED
        BY <2>1 DEF OnlyLooseLinger
<1>8. ASSUME NEW s \in Slot, LoseFile(s)
      PROVE  (OnlyLooseLinger /\ (phase = "succeeded" => Resolved))'
    BY <1>8
    DEF LoseFile, OnlyLooseLinger, Resolved, remote, local, catalog, sync, work,
        history
<1>9. ASSUME NEW r \in BOOLEAN, Begin(r)
      PROVE  (OnlyLooseLinger /\ (phase = "succeeded" => Resolved))'
    <2>1. phase' # "succeeded"
        BY <1>9 DEF Begin
    <2> QED
        BY <2>1 DEF OnlyLooseLinger
<1>10. CASE Enumerate
    <2>1. phase' # "succeeded"
        BY <1>10 DEF Enumerate
    <2> QED
        BY <2>1 DEF OnlyLooseLinger
<1>11. CASE Reconcile
    <2>1. phase' # "succeeded"
        BY <1>11 DEF Reconcile, InventoryAbsences
    <2> QED
        BY <2>1 DEF OnlyLooseLinger
<1>12. CASE RecordRemoval
    <2>1. phase' # "succeeded"
        BY <1>12 DEF RecordRemoval
    <2> QED
        BY <2>1 DEF OnlyLooseLinger
<1>13. CASE RecordTree
    <2>1. phase' # "succeeded"
        BY <1>13 DEF RecordTree
    <2> QED
        BY <2>1 DEF OnlyLooseLinger
<1>14. CASE RecordSnapshot
    <2>1. phase = "snapshot" /\ removed = {} /\ UNCHANGED <<latest, complete, listing, entries>>
        BY <1>14 DEF RecordSnapshot, WorkFollowsPhase, work
    <2>2. phase' = "succeeded" => Resolved'
        BY <1>14, <2>1 DEF RecordSnapshot, Resolved
    <2>3. loose \ listing \subseteq loose'
        BY <1>14 DEF RecordSnapshot
    <2>4. complete => \A i \in Item \ listing : latest[i] \in Bytes => i \in loose
        BY <2>1, NoneIsNoStatus DEF KnownOrLoose
    <2> QED
        BY <2>1, <2>2, <2>3, <2>4 DEF OnlyLooseLinger
<1>15. CASE Interrupt
    <2>1. phase' # "succeeded"
        BY <1>15 DEF Interrupt
    <2> QED
        BY <2>1 DEF OnlyLooseLinger
<1>16. CASE UNCHANGED vars
    BY <1>16 DEF OnlyLooseLinger, Resolved, vars, remote, local, catalog, sync, work,
        history
<1> QED
    BY <1>1, <1>2, <1>3, <1>4, <1>5, <1>6, <1>7, <1>8, <1>9, <1>10, <1>11, <1>12,
        <1>13, <1>14, <1>15, <1>16 DEF Next

\* If every item has a file of its own, the further invariants hold.
THEOREM JInvHolds == OwnFiles /\ Spec => []JInv
<1> SUFFICES ASSUME OwnFiles PROVE Spec => []JInv
    OBVIOUS
<1>1. Init => JInv
    <2> SUFFICES ASSUME Init PROVE JInv
        OBVIOUS
    <2>1. FilesHoldAnswers /\ EntriesTell /\ QuietAnswers
        BY NoneIsNoStatus DEF Init, FilesHoldAnswers, EntriesTell, QuietAnswers
    <2>2. NamesAreDests /\ KnownOrLoose
        BY NoneIsNoStatus DEF Init, NamesAreDests, KnownOrLoose
    <2>3. OnlyLooseLinger /\ (phase = "succeeded" => Resolved)
        BY DEF Init, OnlyLooseLinger
    <2> QED
        BY <2>1, <2>2, <2>3 DEF JInv
<1>2. IInv /\ JInv /\ [Next]_vars => JInv'
    <2> SUFFICES ASSUME IInv, JInv, [Next]_vars PROVE JInv'
        OBVIOUS
    <2>1. OutsideOK /\ CatalogOK /\ SyncOK /\ WorkFollowsPhase /\ WorkIsShared
        BY TypeParts DEF IInv
    <2>2. FilesHoldAnswers' /\ EntriesTell' /\ QuietAnswers'
        BY <2>1, FilesStep, EntriesStep, QuietStep DEF JInv
    <2>3. NamesAreDests' /\ KnownOrLoose'
        BY <2>1, DestsStep, KnownStep DEF JInv
    <2>4. (OnlyLooseLinger /\ (phase = "succeeded" => Resolved))'
        BY <2>1, LooseStep DEF JInv
    <2> QED
        BY <2>2, <2>3, <2>4 DEF JInv
<1> QED
    BY <1>1, <1>2, IInvHolds, PTL DEF Spec

\* With files of their own, items are recorded with the answers to their own
\* requests, whatever order the requests and their writes came in.
THEOREM AnswerIsAlwaysRecorded == OwnFiles /\ Spec => []AnswerIsRecorded
<1>1. JInv => AnswerIsRecorded
    BY DEF JInv, EntriesTell, AnswerIsRecorded
<1> QED
    BY <1>1, JInvHolds, PTL

\* With files of their own, a successful refresh of a quiet upstream agrees with it.
THEOREM QuietRefreshAlwaysAgrees == OwnFiles /\ Spec => []QuietRefreshAgrees
<1>1. IInv /\ JInv => QuietRefreshAgrees
    <2> SUFFICES ASSUME IInv, JInv, phase = "succeeded", refresh, quiet, NEW i \in listing
                 PROVE  latest[i] = IF page[i] = None THEN Absent ELSE page[i]
        BY DEF QuietRefreshAgrees
    <2>1. PICK e \in entries : e.item = i
        BY DEF IInv, WorkFollowsPhase, WorkIsShared
    <2>2. i \in Item /\ e.kind \in {"file", "absent"}
        BY <2>1, EntriesAreOfItems, TypeParts DEF IInv, JInv, Resolved, Kind, SyncOK
    <2>3. answer[i] \in {Waiting, Error, page[i]}
        BY <2>2 DEF JInv, QuietAnswers
    <2>4. \/ answer[i] \in Bytes /\ latest[i] = answer[i]
          \/ answer[i] = None /\ latest[i] = Absent
        BY <2>1, <2>2 DEF JInv, EntriesTell
    <2> QED
        BY <2>3, <2>4, NoneIsNoStatus
<1> QED
    BY <1>1, IInvHolds, JInvHolds, PTL

\* With files of their own, a complete sync leaves no item it did not list but
\* those that no complete snapshot has named since they were recorded.
THEOREM OnlyLooseAlwaysLinger == OwnFiles /\ Spec => []OnlyLooseLinger
<1>1. JInv => OnlyLooseLinger
    BY DEF JInv
<1> QED
    BY <1>1, JInvHolds, PTL
=============================================================================

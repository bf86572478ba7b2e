---------------------------- MODULE CollectionSync ----------------------------
(***************************************************************************)
(* One collection source, synchronised again and again: an enumerator of    *)
(* the application lists its members, each is fetched over HTTP into a file  *)
(* of its own, and the recording reads the files back, validates them,       *)
(* records observations and absences and ends with a tree and a snapshot.    *)
(*                                                                          *)
(* Successive syncs start at increasing times, so that latest_state is the   *)
(* state recorded last.  Bytes are the canonical form a response is written  *)
(* in, and one required validator stands for all that apply to an item.      *)
(***************************************************************************)
EXTENDS Naturals, FiniteSets

CONSTANTS
    Item,         \* item ids, numbered in their sorted order
    Slot,         \* files under the destination, which are also source paths
    Dest,         \* CollectionDefinition.bucket
    Bytes,        \* contents a response may have
    Valid,        \* the contents a validator passes under each item's name
    None,         \* no page, no file, no evidence
    MaxEdits,     \* bound: changes of the upstream, and files lost
    MaxSyncs,     \* bound: syncs; below the 200 snapshots a baseline is sought in
    MaxFaults     \* bound: requests that fail, validators that raise

ASSUME ItemAssumption == Item \subseteq Nat /\ IsFiniteSet(Item)
ASSUME DestAssumption == Dest \in [Item -> Slot]
ASSUME ValidAssumption == Valid \in [Item -> SUBSET Bytes]
ASSUME BytesAssumption ==
    {None, "unseen", "absent", "waiting", "error"} \cap Bytes = {}
ASSUME NoneAssumption ==
    None \notin {"unseen", "absent", "waiting", "error", "passed"}
ASSUME BoundAssumption ==
    {MaxEdits, MaxSyncs, MaxFaults} \subseteq Nat

VARIABLES
    members,    \* what a complete enumeration lists
    page,       \* what a request for an item is answered with; None is a 404
    edits,      \* changes so far
    cached,     \* the HTTP cache: the newest answer of each URL
    files,      \* the files under the destination
    evidence,   \* validations: the recorded status of each content
    latest,     \* latest_state of every item's artifact
    trees,      \* tree_entries: the item ids stored with each tree
    baseline,   \* tree of the newest complete snapshot, if there is one
    phase,      \* where the sync is
    refresh,    \* its refresh intent
    syncs,      \* syncs so far
    faults,     \* faults so far
    complete,   \* inventory.coverage.complete
    listing,    \* inventory.items
    pending,    \* items without a fetch result
    answer,     \* the fetch results
    todo,       \* items still to be recorded
    removed,    \* absences by membership still to be recorded
    entries,    \* state.tree_entries
    gone,       \* history: missing upstream since last recorded present
    quiet,      \* history: upstream has not changed since the sync began
    loose       \* history: recorded present by no complete sync since

remote  == <<members, page, edits>>
local   == <<cached, files>>
catalog == <<evidence, latest, trees, baseline>>
work    == <<complete, listing, pending, answer, todo, removed, entries>>
sync    == <<refresh, syncs, faults>>
history == <<gone, quiet, loose>>
vars    == <<remote, local, catalog, phase, sync, work, history>>

Unseen  == "unseen"
Absent  == "absent"
Waiting == "waiting"
Error   == "error"
Busy    == {"listing", "fetching", "recording", "snapshot"}
Kind    == {"file", "absent", "unresolved"}
Entry   == [item : Item, kind : Kind, content : Bytes \cup {None}]
Node    == [path : Slot, kind : Kind, content : Bytes \cup {None}]

Here(i) == i \in members /\ page[i] # None

\* Records are written in sorted order.
First(i, S) == i \in S /\ \A j \in S : i <= j

Forget ==
    /\ complete' = FALSE /\ listing' = {} /\ pending' = {}
    /\ answer' = [i \in Item |-> Waiting]
    /\ todo' = {} /\ removed' = {} /\ entries' = {}

Init ==
    /\ members \in SUBSET Item /\ page \in [Item -> Bytes \cup {None}]
    /\ edits = 0
    /\ cached = [i \in Item |-> Waiting]
    /\ files = [s \in Slot |-> None]
    /\ evidence = [b \in Bytes |-> None]
    /\ latest = [i \in Item |-> Unseen]
    /\ trees = [t \in {} |-> None] /\ baseline = {}
    /\ phase = "idle" /\ refresh = FALSE /\ syncs = 0 /\ faults = 0
    /\ complete = FALSE /\ listing = {} /\ pending = {}
    /\ answer = [i \in Item |-> Waiting]
    /\ todo = {} /\ removed = {} /\ entries = {}
    /\ gone = {i \in Item : ~Here(i)} /\ quiet = TRUE /\ loose = {}

-----------------------------------------------------------------------------
\* Outside the program: members come and go, pages change, files are deleted.

Change(i) ==
    /\ edits < MaxEdits /\ edits' = edits + 1
    /\ \/ /\ page' \in {[page EXCEPT ![i] = b] : b \in Bytes \cup {None}}
          /\ UNCHANGED members
       \/ /\ members' \in {members \cup {i}, members \ {i}}
          /\ UNCHANGED page
    /\ quiet' = FALSE
    /\ gone' = IF Here(i)' THEN gone ELSE gone \cup {i}
    /\ UNCHANGED <<local, catalog, phase, sync, work, loose>>

\* A file that goes while items are recorded is the same as one that went before,
\* or makes the recording raise (Interrupt).
LoseFile(s) ==
    /\ phase # "recording"
    /\ edits < MaxEdits /\ edits' = edits + 1
    /\ files[s] # None
    /\ files' = [files EXCEPT ![s] = None]
    /\ UNCHANGED <<members, page, cached, catalog, phase, sync, work, history>>

-----------------------------------------------------------------------------
\* CollectionSourceAdapter.acquire.

Begin(r) ==
    /\ phase \notin Busy /\ syncs < MaxSyncs
    /\ phase' = "listing" /\ refresh' = r /\ syncs' = syncs + 1
    /\ Forget
    /\ quiet' = TRUE
    /\ UNCHANGED <<remote, local, catalog, faults, gone, loose>>

\* The enumerator: all members, or some of them and it says so.
Enumerate ==
    /\ phase = "listing"
    /\ phase' = "fetching"
    /\ listing' \in SUBSET members
    /\ complete' \in {FALSE, listing' = members}
    /\ pending' = listing'
    /\ UNCHANGED <<remote, local, catalog, sync, answer, todo, removed, entries,
                   history>>

\* Mutant: a refresh is answered from the cache as well.
CacheFirst(i) == {page[i]} \cup (IF cached[i] = Waiting THEN {} ELSE {cached[i]})

\* HttpCache.get: a request that is no refresh may be answered from the cache.
Answers(i) ==
    {page[i]} \cup (IF refresh \/ cached[i] = Waiting THEN {} ELSE {cached[i]})

\* _fetch_items: the enumerator may list items in any order, so that under any
\* number of permits any order of the answers is possible.
\* _fetch_item: a page goes to the item's file, a 404 leaves the file alone.
Fetch(i) ==
    /\ phase = "fetching" /\ i \in pending
    /\ pending' = pending \ {i}
    /\ \E a \in Answers(i) :
          /\ answer' = [answer EXCEPT ![i] = a]
          /\ cached' = [cached EXCEPT ![i] = a]
          /\ files' = IF a = None THEN files ELSE [files EXCEPT ![Dest[i]] = a]
    /\ UNCHANGED <<remote, catalog, phase, sync, complete, listing, todo, removed,
                   entries, history>>

\* Retries are exhausted, or the response cannot be decoded or written.
FetchFails(i) ==
    /\ phase = "fetching" /\ i \in pending
    /\ faults < MaxFaults /\ faults' = faults + 1
    /\ pending' = pending \ {i}
    /\ answer' = [answer EXCEPT ![i] = Error]
    /\ UNCHANGED <<remote, local, catalog, phase, refresh, syncs, complete,
                   listing, todo, removed, entries, history>>

-----------------------------------------------------------------------------
\* record_collection_acquisition.

\* _previous_items: the item ids stored with the newest complete snapshot's tree.
Previous ==
    UNION {{trees[t][e.path] : e \in t} : t \in baseline}

\* AbsenceEvidence: an inventory that is complete and omits an item, ...
InventoryAbsences == IF complete THEN Previous \ listing ELSE {}

\* ... or a 404, which is the exact negative of one item.
DirectNegative(i) == answer[i] = None

\* Mutant: what a partial enumeration omits is taken for absent.
OmittedIsAbsent ==
    /\ phase = "fetching" /\ pending = {}
    /\ phase' = "recording"
    /\ todo' = listing
    /\ removed' = Previous \ listing
    /\ UNCHANGED <<remote, local, catalog, sync, complete, listing, pending,
                   answer, entries, history>>

\* Mutant: the loop is over the decisions, those of omitted items included.
DecisionsAreItems ==
    /\ phase = "fetching" /\ pending = {}
    /\ phase' = "recording"
    /\ todo' = listing \cup Previous
    /\ removed' = IF complete THEN Previous \ listing ELSE {}
    /\ UNCHANGED <<remote, local, catalog, sync, complete, listing, pending,
                   answer, entries, history>>

\* reconcile_inventory: only complete coverage makes an omission an absence.
Reconcile ==
    /\ phase = "fetching" /\ pending = {}
    /\ phase' = "recording"
    /\ todo' = listing
    /\ removed' = InventoryAbsences
    /\ UNCHANGED <<remote, local, catalog, sync, complete, listing, pending,
                   answer, entries, history>>

Recording(i) == phase = "recording" /\ First(i, todo)

\* Mutant: a file is there, whatever became of the request.
AnyFile(i) == files[Dest[i]]

\* The file an "ok" result was written to, as it is now.
File(i) == IF answer[i] \in Bytes THEN files[Dest[i]] ELSE None

\* _validate_one: a content without evidence is checked and the outcome kept,
\* that of a validator that raised included.
Validate(i) ==
    /\ Recording(i) /\ File(i) # None /\ evidence[File(i)] = None
    /\ \/ /\ evidence' = [evidence EXCEPT ![File(i)] =
                             IF File(i) \in Valid[i] THEN "passed" ELSE "failed"]
          /\ UNCHANGED faults
       \/ /\ faults < MaxFaults /\ faults' = faults + 1
          /\ evidence' = [evidence EXCEPT ![File(i)] = "error"]
    /\ UNCHANGED <<remote, local, latest, trees, baseline, phase, refresh, syncs,
                   work, history>>

Enter(i, k, c) ==
    /\ todo' = todo \ {i}
    /\ entries' = entries \cup {[item |-> i, kind |-> k, content |-> c]}
    /\ UNCHANGED <<remote, local, evidence, trees, baseline, phase, sync, complete,
                   listing, pending, answer, removed, quiet>>

\* Mutant: a validator that raised has not failed.
ObserveUnfailed(i) ==
    /\ Recording(i) /\ File(i) # None /\ evidence[File(i)] \in {"passed", "error"}
    /\ Enter(i, "file", File(i))
    /\ latest' = [latest EXCEPT ![i] = File(i)]
    /\ gone' = IF Here(i) THEN gone \ {i} ELSE gone
    /\ loose' = loose \cup ({i} \ Previous)

\* _record_validated_item: evidence of any earlier check of the bytes will do.
Observe(i) ==
    /\ Recording(i) /\ File(i) # None /\ evidence[File(i)] = "passed"
    /\ Enter(i, "file", File(i))
    /\ latest' = [latest EXCEPT ![i] = File(i)]
    /\ gone' = IF Here(i) THEN gone \ {i} ELSE gone
    /\ loose' = loose \cup ({i} \ Previous)

\* It was not fetched, its file has gone, or it did not pass.
Unresolved(i) ==
    /\ Recording(i) /\ ~DirectNegative(i)
    /\ File(i) # None => evidence[File(i)] \in {"failed", "error"}
    /\ Enter(i, "unresolved", File(i))
    /\ UNCHANGED <<latest, gone, loose>>

\* It is gone: an absence, recorded at once.
NotFound(i) ==
    /\ Recording(i) /\ DirectNegative(i)
    /\ Enter(i, "absent", None)
    /\ latest' = [latest EXCEPT ![i] = Absent]
    /\ UNCHANGED <<gone, loose>>

\* _record_membership_absences.
RecordRemoval ==
    /\ phase = "recording" /\ todo = {}
    /\ \E i \in Item :
          /\ First(i, removed)
          /\ removed' = removed \ {i}
          /\ latest' = [latest EXCEPT ![i] = Absent]
    /\ UNCHANGED <<remote, local, evidence, trees, baseline, phase, sync, complete,
                   listing, pending, answer, todo, entries, history>>

\* Tree entries have a path, and a tree no path twice.
Tree == {[path |-> Dest[e.item], kind |-> e.kind, content |-> e.content] :
            e \in entries}

OnePathEach == \A e, f \in entries : Dest[e.item] = Dest[f.item] => e = f

\* record_tree: equal entries are one tree, which keeps its first item ids.  A path
\* that is there twice violates the table's key: the write raises.
RecordTree ==
    /\ phase = "recording" /\ todo = {} /\ removed = {} /\ OnePathEach
    /\ phase' = "snapshot"
    /\ trees' = [t \in DOMAIN trees \cup {Tree} |->
                   IF t \in DOMAIN trees THEN trees[t]
                   ELSE [s \in {Dest[e.item] : e \in entries} |->
                            (CHOOSE e \in entries : Dest[e.item] = s).item]]
    /\ UNCHANGED <<remote, local, evidence, latest, baseline, sync, work, history>>

Resolved == \A e \in entries : e.kind # "unresolved"

\* Mutant: unresolved items do not make a snapshot incomplete.
CompleteUnresolved ==
    /\ phase = "snapshot"
    /\ phase' \in {"failed", IF Resolved THEN "succeeded" ELSE "failed"}
    /\ IF complete
       THEN baseline' = {Tree} /\ loose' = loose \ listing
       ELSE UNCHANGED <<baseline, loose>>
    /\ UNCHANGED <<remote, local, evidence, latest, trees, sync, work, gone, quiet>>

\* Mutant: neither does a partial enumeration.
CompletePartial ==
    /\ phase = "snapshot"
    /\ phase' \in {"failed", IF Resolved THEN "succeeded" ELSE "failed"}
    /\ IF Resolved
       THEN baseline' = {Tree} /\ loose' = IF complete THEN loose \ listing ELSE loose
       ELSE UNCHANGED <<baseline, loose>>
    /\ UNCHANGED <<remote, local, evidence, latest, trees, sync, work, gone, quiet>>

\* record_source_snapshot, and the status _record_collection returns, unless the
\* execution evidence that is written last makes it raise.
RecordSnapshot ==
    /\ phase = "snapshot"
    /\ phase' \in {"failed", IF Resolved THEN "succeeded" ELSE "failed"}
    /\ IF complete /\ Resolved
       THEN baseline' = {Tree} /\ loose' = loose \ listing
       ELSE UNCHANGED <<baseline, loose>>
    /\ UNCHANGED <<remote, local, evidence, latest, trees, sync, work, gone, quiet>>

\* The enumerator raises, the process dies, the sync is cancelled or a write
\* raises: what was committed stays, the rest is forgotten.
Interrupt ==
    /\ phase \in Busy
    /\ phase' = "failed" /\ Forget
    /\ UNCHANGED <<remote, local, catalog, sync, history>>

Next ==
    \/ \E i \in Item : Change(i) \/ Fetch(i) \/ FetchFails(i) \/ Validate(i)
                       \/ Observe(i) \/ Unresolved(i) \/ NotFound(i)
    \/ \E s \in Slot : LoseFile(s)
    \/ \E r \in BOOLEAN : Begin(r)
    \/ Enumerate \/ Reconcile \/ RecordRemoval \/ RecordTree \/ RecordSnapshot
    \/ Interrupt

Spec == Init /\ [][Next]_vars

-----------------------------------------------------------------------------
TypeOK ==
    /\ members \subseteq Item /\ page \in [Item -> Bytes \cup {None}]
    /\ edits \in 0..MaxEdits
    /\ cached \in [Item -> Bytes \cup {None, Waiting}]
    /\ files \in [Slot -> Bytes \cup {None}]
    /\ evidence \in [Bytes -> {None, "passed", "failed", "error"}]
    /\ latest \in [Item -> Bytes \cup {Unseen, Absent}]
    /\ DOMAIN trees \subseteq SUBSET Node
    /\ \A t \in DOMAIN trees : trees[t] \in [{e.path : e \in t} -> Item]
    /\ baseline \subseteq DOMAIN trees
    /\ phase \in Busy \cup {"idle", "succeeded", "failed"}
    /\ refresh \in BOOLEAN /\ syncs \in 0..MaxSyncs /\ faults \in 0..MaxFaults
    /\ complete \in BOOLEAN /\ listing \subseteq Item
    /\ pending \subseteq listing
    /\ answer \in [Item -> Bytes \cup {None, Waiting, Error}]
    /\ todo \subseteq listing /\ removed \subseteq Item
    /\ entries \subseteq Entry
    /\ gone \subseteq Item /\ quiet \in BOOLEAN /\ loose \subseteq Item

\* "Absence is evidence, not a default assumption": an item is reported absent
\* only if it really was unlisted or answered 404 at some moment since it was
\* last recorded present; no partial enumeration, failed request, stale cache or
\* crash between two transactions makes it absent.
AbsenceIsTrue == \A i \in Item : latest[i] = Absent => i \in gone

\* An item is recorded with what its own request was answered with in this very
\* sync, although the bytes travel through a file other requests may write to
\* and an earlier sync has left behind.
AnswerIsRecorded ==
    \A e \in entries :
        e.kind = "file" => e.content = answer[e.item]
                           /\ latest[e.item] = answer[e.item]

\* "Required validation failed" keeps an item out of the repository's state,
\* however old the evidence is that the check was replaced by.
ObservedIsValid == \A i \in Item : latest[i] \in Bytes => latest[i] \in Valid[i]

\* A successful refresh during which upstream did not change leaves every item it
\* listed as upstream has it, whatever the cache, the files, the evidence and the
\* baseline held before.
QuietRefreshAgrees ==
    phase = "succeeded" /\ refresh /\ quiet =>
        \A i \in listing :
            latest[i] = IF page[i] = None THEN Absent ELSE page[i]

\* After a successful complete sync, an item it did not list is present only if
\* no complete snapshot has named it since it was recorded: the baseline, with
\* item ids that belong to an older equal tree, loses no other.
OnlyLooseLinger ==
    phase = "succeeded" /\ complete =>
        \A i \in Item \ listing : latest[i] \in Bytes => i \in loose

\* A baseline names no item whose state has not been committed: a crash between
\* an item's transaction and the snapshot's leaves no complete snapshot behind.
BaselineIsRecorded == \A i \in Previous : latest[i] # Unseen
=============================================================================

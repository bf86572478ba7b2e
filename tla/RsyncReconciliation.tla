-------------------------- MODULE RsyncReconciliation --------------------------
(***************************************************************************)
(* One rsync source, synchronised again and again while its upstream        *)
(* changes: transfer into the local mirror, list the upstream, compare the  *)
(* listing with the newest usable snapshot, record observations, absences,  *)
(* a tree and a snapshot.                                                   *)
(*                                                                          *)
(* A path stands for the files of one directory, the unit of a scope; the   *)
(* empty scope is the whole source.  Upstream stamps every modification     *)
(* with a new mtime, so that a change token is as good as it can be.        *)
(***************************************************************************)
EXTENDS Naturals, Sequences, FiniteSets

CONSTANTS
    Path,         \* paths of the source, numbered in their sorted order
    Bytes,        \* contents a file may have
    SizeOf,       \* their sizes
    Scopes,       \* scopes it is synchronised with; {} is the whole source
    NameIn,       \* what a path's name inside its own directory means at the root
    None,         \* no file, no tree
    MaxEdits,     \* bound: modifications upstream
    MaxSyncs,     \* bound: syncs of the source
    MaxRefusals,  \* bound: slots the rate limiter refuses
    MaxStrays     \* bound: files an abandoned rsync still has in hand

ASSUME PathAssumption == Path \subseteq Nat /\ IsFiniteSet(Path)
ASSUME ScopeAssumption == Scopes \subseteq SUBSET Path
ASSUME NameAssumption == NameIn \in [Path -> Path \cup {None}]
ASSUME SizeAssumption == SizeOf \in [Bytes -> Nat]
ASSUME BytesAssumption == {None, "unseen", "absent"} \cap Bytes = {}
ASSUME NoneAssumption == None \notin [bytes : Bytes, mtime : Nat]
ASSUME BoundAssumption == {MaxEdits, MaxSyncs, MaxRefusals, MaxStrays} \subseteq Nat

VARIABLES
    upstream,   \* the remote files
    edits,      \* modifications so far, also upstream's clock
    mirror,     \* the files under local_root
    meta,       \* .mirror_meta.json: what each last update changed
    refusals,   \* refused slots so far
    stray,      \* files an rsync without a sync is about to write
    latest,     \* latest_state of every path's artifact
    trees,      \* tree_entries: the mtimes stored with each tree
    snaps,      \* source_snapshots, oldest first
    phase,      \* where the sync is
    scope,      \* its scope
    syncs,      \* syncs so far
    pending,    \* paths still to be transferred
    updated,    \* acquisition.updated_paths
    complete,   \* inventory.complete
    listing,    \* inventory.entries
    todo,       \* entries still to be recorded
    reuse,      \* content ids of the unchanged items, None for the others
    absents,    \* absences still to be recorded
    entries,    \* tree entries recorded by this sync
    gone,       \* history: missing upstream since last recorded present
    raced       \* history: versions recorded from a mirror that held another

remote  == <<upstream, edits>>
local   == <<mirror, meta, refusals, stray>>
catalog == <<latest, trees, snaps>>
work    == <<todo, reuse, absents, entries>>
found   == <<pending, updated, complete, listing>>
vars    == <<remote, local, catalog, phase, scope, syncs, work, found,
             gone, raced>>

File   == [bytes : Bytes, mtime : 0..MaxEdits]
Entry  == [path : Path, content : Bytes, size : Nat]
Unseen == "unseen"
Absent == "absent"
Busy   == {"transfer", "listed", "recording", "snapshot"}

Nothing == [p \in Path |-> None]

\* The sync's local variables go with it.
Forget ==
    /\ todo' = {} /\ reuse' = Nothing /\ absents' = {} /\ entries' = {}
    /\ pending' = {} /\ updated' = {} /\ complete' = FALSE
    /\ listing' = Nothing

InScope(S) == IF S = {} THEN Path ELSE S

\* Entries and absences are recorded in sorted order.
First(p, S) == \A q \in S : p <= q

Init ==
    /\ upstream \in [Path -> {None} \cup [bytes : Bytes, mtime : {0}]]
    /\ edits = 0
    /\ mirror = Nothing
    /\ meta = [own |-> {}, whole |-> {}]
    /\ refusals = 0
    /\ stray = {}
    /\ latest = [p \in Path |-> Unseen]
    /\ trees = <<>>
    /\ snaps = <<>>
    /\ phase = "idle" /\ scope = {} /\ syncs = 0
    /\ pending = {} /\ updated = {} /\ complete = FALSE
    /\ listing = Nothing
    /\ todo = {} /\ reuse = Nothing /\ absents = {} /\ entries = {}
    /\ gone = {p \in Path : upstream[p] = None}
    /\ raced = {}

-----------------------------------------------------------------------------
\* The upstream, outside the program: a file is written, touched or removed.

Modify(p) ==
    /\ edits < MaxEdits
    /\ edits' = edits + 1
    /\ \/ /\ \E b \in Bytes :
              upstream' = [upstream EXCEPT ![p] = [bytes |-> b, mtime |-> edits + 1]]
          /\ UNCHANGED gone
       \/ /\ upstream[p] # None
          /\ upstream' = [upstream EXCEPT ![p] = None]
          /\ gone' = gone \cup {p}
    /\ UNCHANGED <<local, catalog, phase, scope, syncs, work, found, raced>>

-----------------------------------------------------------------------------
\* RsyncSourceAdapter.acquire: transfer, then enumerate.

Begin(S) ==
    /\ phase \notin Busy
    /\ syncs < MaxSyncs
    /\ phase' = "transfer" /\ scope' = S /\ syncs' = syncs + 1
    /\ pending' = InScope(S) /\ complete' = FALSE
    /\ listing' = Nothing
    /\ UNCHANGED <<remote, local, catalog, work, updated, gone, raced>>

\* _updated_paths: rsync names a changed file relative to the directory it was
\* asked for, and the adapter drops which directory that was.
Reported(p) == IF scope = {} THEN {p} ELSE {NameIn[p]} \ {None}

\* rsync brings one path up to date; without --delete a file gone upstream stays.
Fetch(p) ==
    LET change == upstream[p] \notin {None, mirror[p]}
        names  == updated \cup (IF change THEN Reported(p) ELSE {})
    IN  /\ phase = "transfer" /\ p \in pending
        /\ pending' = pending \ {p}
        /\ updated' = names
        /\ mirror' = IF change THEN [mirror EXCEPT ![p] = upstream[p]] ELSE mirror
        /\ meta' = IF scope # {}
                   THEN [meta EXCEPT !.own = IF change THEN @ \cup {p} ELSE @ \ {p}]
                   ELSE [meta EXCEPT !.whole = IF pending' = {} THEN names ELSE @]
        /\ UNCHANGED <<remote, refusals, stray, catalog, phase, scope, syncs, work,
                       complete, listing, gone, raced>>

\* No rate slot: the whole update, or one requested path, is skipped, and
\* reports what its last run had updated.
Refuse ==
    /\ phase = "transfer" /\ pending # {} /\ refusals < MaxRefusals
    /\ refusals' = refusals + 1
    /\ \/ /\ scope = {} /\ pending = Path /\ pending' = {}
          /\ updated' = meta.whole
       \/ \E p \in pending :
            /\ scope # {} /\ pending' = pending \ {p}
            /\ updated' = updated \cup (IF p \in meta.own THEN Reported(p) ELSE {})
    /\ UNCHANGED <<remote, mirror, meta, stray, catalog, phase, scope, syncs,
                   work, complete, listing, gone, raced>>

\* An update failed or timed out: _record_rsync records nothing.
TransferFails ==
    /\ phase = "transfer" /\ pending # {}
    /\ phase' = "failed" /\ Forget
    /\ UNCHANGED <<remote, local, catalog, scope, syncs, gone, raced>>

\* The sync is cancelled while it awaits its rsync: the thread that runs the
\* subprocess, its attempts and retries, goes on without it.
Abandon(p) ==
    LET asked == IF scope = {} THEN pending ELSE {p}
    IN  /\ phase = "transfer" /\ p \in pending
        /\ stray' = stray \cup {<<q, upstream[q]>> : q \in
                        {r \in asked : upstream[r] \notin {None, mirror[r]}}}
        /\ Cardinality(stray') <= MaxStrays
        /\ phase' = "failed" /\ Forget
        /\ UNCHANGED <<remote, mirror, meta, refusals, catalog, scope, syncs, gone,
                       raced>>

\* It writes what it was sent, whatever has happened since, or fails.
StrayEnds ==
    /\ \E s \in stray :
          /\ stray' = stray \ {s}
          /\ mirror' \in {mirror, [mirror EXCEPT ![s[1]] = s[2]]}
    /\ UNCHANGED <<remote, meta, refusals, catalog, phase, scope, syncs, work,
                   found, gone, raced>>

Enumerate ==
    /\ phase = "transfer" /\ pending = {}
    /\ phase' = "listed" /\ complete' = TRUE
    /\ listing' = [p \in Path |-> IF p \in InScope(scope) THEN upstream[p] ELSE None]
    /\ UNCHANGED <<remote, local, catalog, scope, syncs, work, pending, updated,
                   gone, raced>>

\* Mutant: a listing that failed is taken for a listing of nothing.
FailureIsEmptyListing ==
    /\ phase = "transfer" /\ pending = {}
    /\ phase' = "listed" /\ complete' = TRUE
    /\ UNCHANGED <<remote, local, catalog, scope, syncs, work, pending, updated,
                   listing, gone, raced>>

\* rsync --list-only failed: only what the transfer reports to have changed, and
\* is there under that name, will be recorded.
EnumerateFails ==
    /\ phase = "transfer" /\ pending = {}
    /\ phase' = "recording"
    /\ todo' = {p \in updated : mirror[p] # None}
    /\ UNCHANGED <<remote, local, catalog, scope, syncs, reuse, absents, entries,
                   found, gone, raced>>

-----------------------------------------------------------------------------
\* reconcile_rsync_inventory.

\* _baseline_snapshot: the newest reconciled snapshot that covered the scope.
Baselines ==
    {i \in 1..Len(snaps) : /\ snaps[i].tree # None /\ snaps[i].reconciled
                           /\ snaps[i].complete \/ snaps[i].scope = scope}

Baseline == {i \in Baselines : \A j \in Baselines : j <= i}

\* _previous_items, as (entry, stored mtime).
Previous ==
    UNION {{[entry |-> e, mtime |-> trees[snaps[i].tree][e.path]] :
                e \in {f \in snaps[i].tree : f.path \in InScope(scope)}} :
           i \in Baseline}

\* Mutant: the token is the size alone.
SameSizeOnly(item) ==
    LET now == listing[item.entry.path]
    IN  now # None /\ item.entry.size = SizeOf[now.bytes]

\* ChangeToken.equivalent_to: same size and mtime, and both known.
SameToken(item) ==
    LET now == listing[item.entry.path]
    IN  /\ now # None /\ item.mtime # None
        /\ item.entry.size = SizeOf[now.bytes] /\ item.mtime = now.mtime

Listed == {p \in Path : listing[p] # None}

\* reconcile_inventory: what is unchanged, and what is absent.
Unchanged == {item \in Previous : SameToken(item)}
Missing   == {item.entry.path : item \in Previous} \ Listed

\* _incomplete_result: an enumerated file is not in the mirror.
Unusable ==
    /\ phase = "listed"
    /\ \E p \in Listed : mirror[p] = None
    /\ phase' = "failed"
    /\ snaps' = Append(snaps, [tree |-> None, complete |-> FALSE, scope |-> scope,
                               reconciled |-> FALSE])
    /\ Forget
    /\ UNCHANGED <<remote, local, latest, trees, scope, syncs, gone, raced>>

Reconcile ==
    /\ phase = "listed"
    /\ \A p \in Listed : mirror[p] # None
    /\ phase' = "recording"
    /\ todo' = Listed
    /\ reuse' = [p \in Path |->
                   IF \A item \in Unchanged : item.entry.path # p THEN None
                   ELSE (CHOOSE item \in Unchanged : item.entry.path = p).entry.content]
    /\ absents' = Missing
    /\ UNCHANGED <<remote, local, catalog, scope, syncs, entries, found, gone,
                   raced>>

\* The content an entry is recorded with: known bytes, or those in the mirror.
Content(p) == IF reuse[p] = None THEN mirror[p].bytes ELSE reuse[p]

\* _file_entry_result, and the loop of _record_incomplete_rsync.
RecordEntry ==
    /\ phase = "recording"
    /\ \E p \in todo :
          /\ First(p, todo)
          /\ todo' = todo \ {p}
          /\ latest' = [latest EXCEPT ![p] = Content(p)]
          /\ LET file == IF complete THEN listing[p] ELSE mirror[p]
             IN  entries' = entries \cup {[path |-> p, content |-> Content(p),
                                           size |-> SizeOf[file.bytes]]}
          /\ gone' = IF upstream[p] = None THEN gone ELSE gone \ {p}
          /\ raced' = IF complete /\ reuse[p] = None /\ mirror[p] # listing[p]
                      THEN raced \cup {<<p, listing[p].mtime>>} ELSE raced
    /\ UNCHANGED <<remote, local, trees, snaps, phase, scope, syncs, reuse,
                   absents, found>>

\* _record_absences.
RecordAbsence ==
    /\ phase = "recording" /\ todo = {}
    /\ \E p \in absents :
          /\ First(p, absents)
          /\ absents' = absents \ {p}
          /\ latest' = [latest EXCEPT ![p] = Absent]
    /\ UNCHANGED <<remote, local, trees, snaps, phase, scope, syncs, todo, reuse,
                   entries, found, gone, raced>>

\* Mutant: the tree is recorded before the absences, which are then left out.
TreeBeforeAbsences ==
    /\ phase = "recording" /\ todo = {}
    /\ phase' = "snapshot"
    /\ absents' = {}
    /\ trees' = [t \in DOMAIN trees \cup {entries} |->
                   IF t \in DOMAIN trees THEN trees[t]
                   ELSE [p \in {e.path : e \in entries} |->
                            IF complete THEN listing[p].mtime ELSE None]]
    /\ UNCHANGED <<remote, local, latest, snaps, scope, syncs, todo, reuse, entries,
                   found, gone, raced>>

\* record_tree: equal entries are one tree, which keeps its first mtimes.
RecordTree ==
    /\ phase = "recording" /\ todo = {} /\ absents = {}
    /\ phase' = "snapshot"
    /\ trees' = [t \in DOMAIN trees \cup {entries} |->
                   IF t \in DOMAIN trees THEN trees[t]
                   ELSE [p \in {e.path : e \in entries} |->
                            IF complete THEN listing[p].mtime ELSE None]]
    /\ UNCHANGED <<remote, local, latest, snaps, scope, syncs, work, found, gone,
                   raced>>

\* Mutant: the snapshot is committed without waiting for its tree.
SnapshotFirst ==
    /\ phase \in {"recording", "snapshot"} /\ todo = {} /\ absents = {}
    /\ phase' = "succeeded"
    /\ snaps' = Append(snaps, [tree |-> entries,
                               complete |-> complete /\ scope = {},
                               scope |-> scope, reconciled |-> complete])
    /\ updated' = {} /\ reuse' = Nothing /\ entries' = {}
    /\ UNCHANGED <<remote, local, latest, trees, scope, syncs, todo, absents,
                   pending, complete, listing, gone, raced>>

\* record_source_snapshot: the last transaction makes the result a baseline.
RecordSnapshot ==
    /\ phase = "snapshot"
    /\ phase' = "succeeded"
    /\ snaps' = Append(snaps, [tree |-> entries,
                               complete |-> complete /\ scope = {},
                               scope |-> scope, reconciled |-> complete])
    /\ updated' = {} /\ reuse' = Nothing /\ entries' = {}
    /\ UNCHANGED <<remote, local, latest, trees, scope, syncs, todo, absents,
                   pending, complete, listing, gone, raced>>

\* The process dies, the sync is cancelled or a write raises: what was
\* committed stays, the rest is forgotten.
Interrupt ==
    /\ phase \in Busy
    /\ phase' = "failed" /\ Forget
    /\ UNCHANGED <<remote, local, catalog, scope, syncs, gone, raced>>

Next ==
    \/ \E p \in Path : Modify(p) \/ Fetch(p) \/ Abandon(p)
    \/ \E S \in Scopes : Begin(S)
    \/ Refuse \/ TransferFails \/ StrayEnds \/ Enumerate \/ EnumerateFails
    \/ Unusable \/ Reconcile \/ RecordEntry \/ RecordAbsence
    \/ RecordTree \/ RecordSnapshot \/ Interrupt

Spec == Init /\ [][Next]_vars

-----------------------------------------------------------------------------
\* The catalog's shape: states, trees and snapshots only hold what they may.
TypeOK ==
    /\ upstream \in [Path -> File \cup {None}] /\ edits \in 0..MaxEdits
    /\ mirror \in [Path -> File \cup {None}]
    /\ meta \in [own : SUBSET Path, whole : SUBSET Path]
    /\ refusals \in 0..MaxRefusals
    /\ stray \subseteq Path \X File
    /\ latest \in [Path -> Bytes \cup {Unseen, Absent}]
    /\ DOMAIN trees \subseteq SUBSET Entry
    /\ \A t \in DOMAIN trees :
           trees[t] \in [{e.path : e \in t} -> 0..MaxEdits \cup {None}]
    /\ snaps \in Seq([tree : DOMAIN trees \cup {None}, complete : BOOLEAN,
                      scope : SUBSET Path, reconciled : BOOLEAN])
    /\ phase \in Busy \cup {"idle", "succeeded", "failed"}
    /\ scope \subseteq Path /\ syncs \in 0..MaxSyncs
    /\ pending \subseteq InScope(scope) /\ updated \subseteq Path
    /\ complete \in BOOLEAN
    /\ listing \in [Path -> File \cup {None}]
    /\ todo \subseteq Path /\ absents \subseteq InScope(scope)
    /\ reuse \in [Path -> Bytes \cup {None}]
    /\ entries \subseteq Entry
    /\ gone \subseteq Path /\ raced \subseteq Path \X (0..MaxEdits)

\* An artifact is reported absent only if its path really was missing upstream
\* at some moment since it was last recorded present: neither a partial
\* inventory, nor a scope, nor a crash between two transactions makes a file
\* absent that never went away.
AbsenceIsTrue == \A p \in Path : latest[p] = Absent => p \in gone

Stale(p) == listing[p] # None /\ latest[p] # listing[p].bytes

\* After a successful full or scoped reconciliation a listed file's recorded
\* content is the upstream's, unless that very version was once recorded from a
\* mirror that held another one (upstream changed between transfer and listing, or
\* an abandoned rsync wrote): the reuse of content by change token spreads no
\* damage to another path, and every later modification repairs it.
DamageIsLocal ==
    phase = "succeeded" /\ complete =>
        \A p \in Path : Stale(p) => <<p, listing[p].mtime>> \in raced

\* Before a complete listing is sealed with a snapshot, the catalog agrees with
\* it: the tree names what was listed in the scope and nothing else, the newest
\* state of each entry is the content the tree has for it, and whatever the
\* baseline knew of the scope and the listing lacks is absent by then.
ListingIsSettled ==
    phase = "snapshot" /\ complete =>
        /\ {e.path : e \in entries} = Listed /\ Listed \subseteq InScope(scope)
        /\ \A e \in entries : latest[e.path] = e.content
        /\ \A item \in Previous :
               item.entry.path \notin Listed => latest[item.entry.path] = Absent

\* ChangeToken: equal tokens are evidence of the same bytes, so a sync whose
\* mirror holds exactly the listed versions records the bytes of those versions.
FaithfulMirrorIsRecorded ==
    phase = "succeeded" /\ complete =>
        \A p \in Path : Stale(p) => mirror[p] # listing[p]

\* Reconciliation classifies as absent whatever the repository has as present
\* and a complete inventory of the scope no longer contains.
AbsentIsNoticed ==
    phase = "succeeded" /\ complete =>
        \A p \in InScope(scope) : listing[p] = None => latest[p] \in {Unseen, Absent}

\* "Partial synchronization records only what was examined": the tree of a sync
\* names no path outside of its scope.
OnlyExaminedIsRecorded ==
    phase = "succeeded" =>
        \A e \in snaps[Len(snaps)].tree : e.path \in InScope(scope)
=============================================================================

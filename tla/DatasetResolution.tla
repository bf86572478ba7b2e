--------------------------- MODULE DatasetResolution ---------------------------
(***************************************************************************)
(* One source's evidence, recorded by one sync run after another, and a      *)
(* dataset resolved from it, statement by statement, by another process that  *)
(* only reads (datasets.resolve) or by the one that holds the writer lease    *)
(* (datasets.freeze).                                                         *)
(*                                                                           *)
(* Times are the wall clock's: a run takes one when it acquires, all its      *)
(* facts bear it, and the next run's may be later, the same or earlier.       *)
(***************************************************************************)
EXTENDS Datasets, FiniteSets

CONSTANTS
    Absent,       \* what an absence says of its key
    MaxRuns,      \* bound: runs of the source
    Instant,      \* times of the clock
    Request,      \* dataset definitions, to be resolved or frozen
    Listings      \* inventories of the source a run may meet

Selector == {"latest-all", "snapshot"}

ASSUME AbsentAssumption == Absent \notin Content /\ Absent # None
ASSUME RunAssumption == MaxRuns \in Nat /\ Instant \subseteq Nat
ASSUME ListingAssumption == Listings \subseteq [Key -> Content \cup {Absent}]
ASSUME RequestAssumption ==
    Request \subseteq [selector : Selector, before : Nat, coherent : BOOLEAN,
                       freeze : BOOLEAN]

VARIABLES
    facts,     \* observations and absences
    snaps,     \* source_snapshots
    runs,      \* runs so far
    sync,      \* the run in progress
    query,     \* the resolution in progress
    datasets,  \* memberships that were frozen
    listed,    \* history: what upstream listed to each run
    steady,    \* history: the clock has gone forward from run to run
    held       \* history: what has been the last fact recorded of each key, up to
               \* the definition's time, since the resolution began

catalog        == <<facts, snaps, datasets>>
history        == <<listed, steady, held>>
resolutionVars == <<catalog, runs, sync, query, history>>

Run  == 1..MaxRuns
Fact == [key : Key, what : Content \cup {Absent}, run : Run, at : Instant]

\* A snapshot binds the observations of its run.
Snapshot == [run : Run, at : Instant, complete : BOOLEAN, bound : SUBSET Fact]

Phase == {"idle", "observation", "absence", "choose", "gather", "check", "record",
          "resolved", "failed"}

\* No row is mistaken for nothing.
ASSUME RowAssumption == None \notin Fact /\ None \notin Snapshot

NoSync  == [on |-> FALSE, at |-> 0, todo |-> {}, partial |-> FALSE]
NoQuery == [phase |-> "idle", def |-> None, keys |-> {}, seen |-> None,
            snap |-> None, members |-> {}]

ResolutionInit ==
    /\ facts = {} /\ snaps = {} /\ datasets = {}
    /\ runs = 0 /\ sync = NoSync /\ query = NoQuery
    /\ listed = [r \in Run |-> None] /\ steady = TRUE
    /\ held = [k \in Key |-> {}]

-----------------------------------------------------------------------------
\* The recording side, one transaction at a time.

Freezing == query.phase \notin {"idle", "resolved", "failed"} /\ query.def.freeze

\* The newest of some rows; where times are equal a hash decides.
Newest(S) == {f \in S : \A g \in S : g.at <= f.at}

OrNone(S) == IF S = {} THEN {None} ELSE S

\* Keys of the newest complete snapshot: what a reconciliation compares with.
Baselines ==
    {IF s = None THEN {} ELSE {f.key : f \in s.bound} :
        s \in OrNone(Newest({t \in snaps : t.complete}))}

\* A run begins: it takes the lease, the listing and the time.
StartSync ==
    /\ ~sync.on /\ ~Freezing /\ runs < MaxRuns
    /\ runs' = runs + 1
    /\ \E l \in Listings, t \in Instant, known \in Baselines :
          /\ listed' = [listed EXCEPT ![runs + 1] = l]
          /\ sync' = [on |-> TRUE, at |-> t, partial |-> FALSE,
                      todo |-> {k \in Key : l[k] # Absent} \cup known]
          /\ steady' = (steady /\ \A f \in facts \cup snaps : f.at < t)
    /\ UNCHANGED <<catalog, query, held>>

\* Observations are recorded first, in order, and then the absences.
Turn(k) ==
    LET here == {j \in sync.todo : listed[runs][j] # Absent}
    IN  First(k, IF here # {} THEN here ELSE sync.todo)

Recorded(k) == [key |-> k, what |-> listed[runs][k], run |-> runs, at |-> sync.at]

\* record_observation_bundle, record_absence.
RecordFact(k) ==
    /\ sync.on /\ Turn(k)
    /\ facts' = facts \cup {Recorded(k)}
    /\ sync' = [sync EXCEPT !.todo = @ \ {k}]
    /\ held' = [held EXCEPT ![k] =
                  IF query.phase = "idle" \/ sync.at > query.def.before THEN @
                  ELSE @ \cup {Recorded(k)}]
    /\ UNCHANGED <<snaps, datasets, runs, query, listed, steady>>

\* A listed item stays unresolved: it fails to be fetched or to validate.
SkipItem(k) ==
    /\ sync.on /\ Turn(k) /\ listed[runs][k] # Absent
    /\ sync' = [sync EXCEPT !.todo = @ \ {k}, !.partial = TRUE]
    /\ UNCHANGED <<catalog, runs, query, history>>

\* Mutant: the snapshot is written before the absences.
SnapshotFirst ==
    /\ sync.on /\ \A k \in sync.todo : listed[runs][k] = Absent
    /\ snaps' = snaps \cup {[run |-> runs, at |-> sync.at, complete |-> ~sync.partial,
                             bound |-> {f \in facts : f.run = runs /\ f.what # Absent}]}
    /\ sync' = IF sync.todo = {} THEN NoSync ELSE sync
    /\ UNCHANGED <<facts, datasets, runs, query, history>>

\* record_tree_snapshot, record_source_snapshot: the last write of a run.
RecordSnapshot ==
    /\ sync.on /\ sync.todo = {}
    /\ snaps' = snaps \cup {[run |-> runs, at |-> sync.at, complete |-> ~sync.partial,
                             bound |-> {f \in facts : f.run = runs /\ f.what # Absent}]}
    /\ sync' = NoSync
    /\ UNCHANGED <<facts, datasets, runs, query, history>>

\* The run is cancelled, raises or dies: what is recorded stays recorded.
Interrupt ==
    /\ sync.on
    /\ sync' = NoSync
    /\ UNCHANGED <<catalog, runs, query, history>>

-----------------------------------------------------------------------------
\* resolve_dataset.  Every read is a statement, and a transaction, of its own.

\* What was recorded last of a key, of the facts up to a time.
LastRecorded(k, t) ==
    LET upto == {f \in facts : f.key = k /\ f.at <= t}
    IN  OrNone({f \in upto : \A g \in upto : g.run <= f.run})

\* A definition is resolved: artifact_keys for LatestAll, nothing yet for a
\* snapshot.  A freeze needs the lease.
BeginQuery(d) ==
    /\ query.phase = "idle"
    /\ d.freeze => ~sync.on
    /\ query' = [NoQuery EXCEPT
                   !.phase = IF d.selector = "snapshot" THEN "choose" ELSE "observation",
                   !.def   = d,
                   !.keys  = IF d.selector = "snapshot" THEN {} ELSE {f.key : f \in facts}]
    /\ held' = [k \in Key |-> LastRecorded(k, d.before)]
    /\ UNCHANGED <<catalog, runs, sync, listed, steady>>

Presence(k) ==
    {f \in facts : f.key = k /\ f.what # Absent /\ f.at <= query.def.before}

Absence(k) ==
    {f \in facts : f.key = k /\ f.what = Absent /\ f.at <= query.def.before}

\* latest_state: the newest observation,
ReadObservation ==
    /\ query.phase = "observation"
    /\ \E k \in query.keys :
          /\ First(k, query.keys)
          /\ \E o \in OrNone(Newest(Presence(k))) :
                query' = [query EXCEPT !.phase = "absence", !.seen = o]
    /\ UNCHANGED <<catalog, runs, sync, history>>

\* Mutant: an absence does not hide an older observation.
ObservationWins ==
    /\ query.phase = "absence"
    /\ \E k \in query.keys :
          /\ First(k, query.keys)
          /\ query' = [query EXCEPT !.phase = "observation", !.keys = @ \ {k}, !.seen = None,
                          !.members = @ \cup ({query.seen} \ {None})]
    /\ UNCHANGED <<catalog, runs, sync, history>>

\* The later of what was seen and of an absence; where times are equal a hash decides.
Later(seen, a) == OrNone(Newest({seen, a} \ {None}))

\* Mutant: a key without a state becomes a member.
NoStateIsMember ==
    /\ query.phase = "absence"
    /\ \E k \in query.keys :
          /\ First(k, query.keys)
          /\ \E a \in OrNone(Newest(Absence(k))) :
                query' = [query EXCEPT !.phase = "observation", !.keys = @ \ {k}, !.seen = None,
                             !.members = @ \cup (IF a = None THEN {query.seen} ELSE {None})]
    /\ UNCHANGED <<catalog, runs, sync, history>>

\* then the newest absence; the later of the two is the state.
ReadAbsence ==
    /\ query.phase = "absence"
    /\ \E k \in query.keys :
          /\ First(k, query.keys)
          /\ \E a \in OrNone(Newest(Absence(k))) : \E s \in Later(query.seen, a) :
                query' = [query EXCEPT
                            !.phase = "observation", !.keys = @ \ {k}, !.seen = None,
                            !.members = @ \cup {f \in {s} \ {None} : f.what # Absent}]
    /\ UNCHANGED <<catalog, runs, sync, history>>

\* LatestAll: every key was looked at.
AllRead ==
    /\ query.phase = "observation" /\ query.keys = {}
    /\ query' = [query EXCEPT !.phase = "check"]
    /\ UNCHANGED <<catalog, runs, sync, history>>

\* Mutant: the newest snapshot, complete or not.
ChooseAny ==
    /\ query.phase = "choose"
    /\ LET chosen == Newest({s \in snaps : s.at <= query.def.before})
       IN  \/ \E s \in chosen : query' = [query EXCEPT !.phase = "gather", !.snap = s]
           \/ chosen = {} /\ query' = [query EXCEPT !.phase = "failed"]
    /\ UNCHANGED <<catalog, runs, sync, history>>

\* LatestCompleteSourceSnapshot.snapshot.
ChooseSnapshot ==
    /\ query.phase = "choose"
    /\ LET chosen == Newest({s \in snaps : s.complete /\ s.at <= query.def.before})
       IN  \/ \E s \in chosen : query' = [query EXCEPT !.phase = "gather", !.snap = s]
           \/ chosen = {} /\ query' = [query EXCEPT !.phase = "failed"]
    /\ UNCHANGED <<catalog, runs, sync, history>>

\* snapshot_observations: complete, bound, unambiguous membership.
Membership(s) == {f \in facts : f \in s.bound /\ f.run = s.run /\ f.at <= s.at}

Gather ==
    /\ query.phase = "gather"
    /\ query' = [query EXCEPT !.phase = "check", !.members = Membership(query.snap)]
    /\ UNCHANGED <<catalog, runs, sync, history>>

\* Mutant: any snapshot of the run will do.
AnySnapshotOf(f) == \E s \in snaps : s.run = f.run /\ f \in Membership(s)

\* _snapshot_check.
InCompleteSnapshot(f) ==
    \E s \in snaps : s.complete /\ s.run = f.run /\ f \in Membership(s)

\* DatasetConstraints.check with same_run and complete_snapshots; an empty
\* selection needs a snapshot to be complete.
Coherent(S) ==
    /\ \A f, g \in S : f.run = g.run
    /\ \A f \in S : InCompleteSnapshot(f)
    /\ S = {} => query.snap # None

Check ==
    /\ query.phase = "check"
    /\ query' = [query EXCEPT !.phase =
                   IF query.def.coherent /\ ~Coherent(query.members) THEN "failed"
                   ELSE IF query.def.freeze THEN "record" ELSE "resolved"]
    /\ UNCHANGED <<catalog, runs, sync, history>>

\* record_dataset: equal members are the same dataset.
RecordDataset ==
    /\ query.phase = "record"
    /\ query' = [query EXCEPT !.phase = "resolved"]
    /\ datasets' = datasets \cup {query.members}
    /\ UNCHANGED <<facts, snaps, runs, sync, history>>

Recording ==
    \/ StartSync \/ RecordSnapshot \/ Interrupt
    \/ \E k \in Key : RecordFact(k) \/ SkipItem(k)

Resolving ==
    \/ \E d \in Request : BeginQuery(d)
    \/ ReadObservation \/ ReadAbsence \/ AllRead \/ ChooseSnapshot \/ Gather
    \/ Check \/ RecordDataset

ResolutionNext == Recording \/ Resolving

ResolutionSpec == ResolutionInit /\ [][ResolutionNext]_resolutionVars

-----------------------------------------------------------------------------
ResolutionTypeOK ==
    /\ facts \subseteq Fact /\ snaps \subseteq Snapshot
    /\ datasets \subseteq SUBSET Fact
    /\ runs \in 0..MaxRuns
    /\ sync \in [on : BOOLEAN, at : Instant \cup {0}, todo : SUBSET Key, partial : BOOLEAN]
    /\ query \in [phase : Phase, def : Request \cup {None}, keys : SUBSET Key,
                  seen : facts \cup {None}, snap : snaps \cup {None},
                  members : SUBSET facts]
    /\ listed \in [Run -> Listings \cup {None}] /\ steady \in BOOLEAN
    /\ held \in [Key -> SUBSET (facts \cup {None})]

\* Whoever records and whoever freezes meanwhile, evidence is only ever added, each
\* row once, what a run says of the source comes before the snapshot that seals it,
\* and a dataset's members are observations the catalog has.
Evidence == INSTANCE Catalog
EvidenceOnlyGrows == Evidence!Spec

Resolved == query.phase = "resolved"

\* What upstream listed to a run, as members of a dataset.
Inventory(r) == {[key |-> k, what |-> listed[r][k]] : k \in {j \in Key : listed[r][j] # Absent}}

Named(S) == {[key |-> f.key, what |-> f.what] : f \in S}

\* A dataset resolved from the latest complete snapshot is that run's inventory,
\* no more and no less: not of the run before, of an interrupted or partial run or
\* of the one that records meanwhile.
SnapshotIsTheInventory ==
    Resolved /\ query.def.selector = "snapshot" =>
        Named(query.members) = Inventory(query.snap.run)

\* Members that must be of the same run and of complete snapshots come from one
\* inventory, each with the content that inventory had, and all of that inventory
\* was recorded: by no partial and by no interrupted run.
CoherentIsOneInventory ==
    Resolved /\ query.def.coherent =>
        \E r \in 1..runs :
            /\ Named(query.members) \subseteq Inventory(r)
            /\ Inventory(r) \subseteq Named({f \in facts : f.run = r})

\* As long as the clock goes forward, each member of a LatestAll was the last
\* thing recorded of its key, up to the definition's time, at some moment of the
\* resolution, and a key without a member had an absence or nothing then: reading
\* keys one by one, and each in two statements, invents no state.
EveryStateWasHeld ==
    Resolved /\ steady /\ query.def.selector = "latest-all" =>
        \A k \in Key :
            LET chosen == {f \in query.members : f.key = k}
            IN  \/ \E f \in chosen : chosen = {f} /\ f \in held[k]
                \/ chosen = {} /\ \E f \in held[k] : f = None \/ f.what = Absent
=============================================================================

----------------------- MODULE DatasetPublication_proofs -----------------------
(***************************************************************************)
(* For any keys, contents, inventories, requests, clocks and numbers of runs: *)
(* the types of recording and resolution, that a resolution from a snapshot,   *)
(* and one that must be coherent, is one inventory of the source, that         *)
(* evidence only grows, and that what is published of a coherent dataset is    *)
(* what one run was listed.                                                    *)
(*                                                                           *)
(* An inventory is spread over rows that are written one by one, so the        *)
(* invariant says at every moment what a run's rows tell of its listing: all   *)
(* they say was listed, and whatever a complete snapshot seals is all of it.   *)
(*                                                                           *)
(* A second invariant follows latest_state through its two reads: next to      *)
(* what was seen there is a row that was the last of its key then, and         *)
(* whatever is newer has been the last since.                                 *)
(***************************************************************************)
EXTENDS DatasetPublication, DatasetExport_proofs, WellFoundedInduction

\* Rows are of runs that have begun, and say what was listed to them.
RowsSayWhatWasListed ==
    /\ \A f \in facts : f.run \in 1..runs /\ f.what = listed[f.run][f.key]
    /\ \A s \in snaps : s.run \in 1..runs

\* The run in progress is the newest, has no snapshot and one time, and an item
\* it no longer has to do is recorded, or the run is partial.
RunInProgress ==
    sync.on =>
        /\ runs \in Run /\ sync.at \in Instant /\ listed[runs] \in Listings
        /\ \A s \in snaps : s.run # runs
        /\ \A f \in facts : f.run = runs => f.at = sync.at /\ f.key \notin sync.todo
        /\ ~sync.partial =>
               \A k \in Key \ sync.todo :
                   listed[runs][k] # Absent => Recorded(k) \in facts

\* A snapshot binds what its run has observed, at that run's time, and if it is
\* complete all that was listed.
SnapshotsSealRuns ==
    \A s \in snaps :
        /\ s.bound = {f \in facts : f.what # Absent /\ f.run = s.run}
        /\ \A f \in facts : f.run = s.run => f.at = s.at
        /\ s.complete =>
               \A k \in Key :
                   listed[s.run][k] # Absent => \E f \in facts : f.run = s.run /\ f.key = k

\* What a resolution has in hand at each of its steps.
QueryFollowsSteps ==
    /\ query.phase # "idle" => query.def \in Request
    /\ query.phase \in {"observation", "absence"} => query.def.selector # "snapshot"
    /\ query.snap # None => query.snap.complete
    /\ query.phase = "gather" => query.snap # None
    /\ query.phase \in {"check", "record", "resolved"} /\ query.def.selector = "snapshot" =>
           query.snap # None /\ query.members = query.snap.bound
    /\ query.phase \in {"record", "resolved"} /\ query.def.coherent => Coherent(query.members)

\* Members are observations, and what was frozen is what was resolved.
MembersAreObserved ==
    /\ \A f \in query.members : f.what # Absent
    /\ datasets # {} => Resolved /\ datasets = {query.members}

ResolutionInv ==
    /\ ResolutionTypeOK /\ RowsSayWhatWasListed /\ RunInProgress
    /\ SnapshotsSealRuns /\ QueryFollowsSteps /\ MembersAreObserved

-----------------------------------------------------------------------------
\* A key that is due is one that is left.
LEMMA TurnsAreLeft == ASSUME NEW k, Turn(k) PROVE k \in sync.todo
BY DEF Turn, First

\* What a run records is a row.
LEMMA RecordedIsFact ==
    ASSUME ResolutionTypeOK, RunInProgress, sync.on, NEW k \in Key
    PROVE  Recorded(k) \in Fact
<1>1. listed[runs] \in [Key -> Content \cup {Absent}]
    BY ListingAssumption DEF RunInProgress
<1> QED BY <1>1 DEF Recorded, Fact, RunInProgress

\* Whatever snapshot is the baseline, it names keys.
LEMMA BaselinesAreKeys ==
    ASSUME ResolutionTypeOK, NEW K \in Baselines PROVE K \subseteq Key
<1>1. PICK s \in OrNone(Newest({t \in snaps : t.complete})) :
          K = IF s = None THEN {} ELSE {f.key : f \in s.bound}
    BY DEF Baselines
<1>2. s = None \/ s \in Snapshot
    BY <1>1 DEF OrNone, Newest, ResolutionTypeOK
<1>3. s \in Snapshot => \A f \in s.bound : f.key \in Key
    BY DEF Snapshot, Fact
<1> QED BY <1>1, <1>2, <1>3

LEMMA ResolutionInvInit == ResolutionInit => ResolutionInv
<1> SUFFICES ASSUME ResolutionInit PROVE ResolutionInv
    OBVIOUS
<1> USE DEF ResolutionInit, NoSync, NoQuery
<1>1. ResolutionTypeOK
    BY RunAssumption DEF ResolutionTypeOK, Phase
<1>2. RowsSayWhatWasListed /\ RunInProgress /\ SnapshotsSealRuns
    BY DEF RowsSayWhatWasListed, RunInProgress, SnapshotsSealRuns
<1>3. QueryFollowsSteps /\ MembersAreObserved
    BY DEF QueryFollowsSteps, MembersAreObserved
<1> QED BY <1>1, <1>2, <1>3 DEF ResolutionInv

LEMMA ResolutionTypesStay ==
    ResolutionInv /\ [ResolutionNext]_resolutionVars => ResolutionTypeOK'
<1> SUFFICES ASSUME ResolutionInv, [ResolutionNext]_resolutionVars
             PROVE  ResolutionTypeOK'
    OBVIOUS
<1> USE DEF ResolutionInv, ResolutionTypeOK, catalog, history, Phase
<1>1. CASE StartSync
    <2>1. PICK l \in Listings, t \in Instant, known \in Baselines :
             /\ listed' = [listed EXCEPT ![runs + 1] = l]
             /\ sync' = [on |-> TRUE, at |-> t, partial |-> FALSE,
                         todo |-> {k \in Key : l[k] # Absent} \cup known]
             /\ steady' = (steady /\ \A f \in facts \cup snaps : f.at < t)
        BY <1>1 DEF StartSync
    <2>2. known \subseteq Key
        BY BaselinesAreKeys
    <2>3. runs' = runs + 1 /\ runs < MaxRuns /\ UNCHANGED <<facts, snaps, datasets, query, held>>
        BY <1>1 DEF StartSync
    <2>4. runs' \in 0..MaxRuns
        BY <2>3, RunAssumption
    <2>5. listed' \in [Run -> Listings \cup {None}] /\ steady' \in BOOLEAN
        BY <2>1
    <2>6. sync' \in [on : BOOLEAN, at : Instant \cup {0}, todo : SUBSET Key, partial : BOOLEAN]
        BY <2>1, <2>2
    <2> QED BY <2>3, <2>4, <2>5, <2>6
<1>2. ASSUME NEW k \in Key, RecordFact(k)
      PROVE  ResolutionTypeOK'
    <2>1. Recorded(k) \in Fact
        BY <1>2, RecordedIsFact DEF RecordFact
    <2>2. /\ facts' = facts \cup {Recorded(k)}
          /\ sync' = [sync EXCEPT !.todo = @ \ {k}]
          /\ UNCHANGED <<snaps, datasets, runs, query, listed, steady>>
        BY <1>2 DEF RecordFact
    <2>3. held' \in [Key -> SUBSET (facts' \cup {None})]
        BY <1>2, <2>2 DEF RecordFact
    <2>4. query \in [phase : Phase, def : Request \cup {None}, keys : SUBSET Key,
                     seen : facts' \cup {None}, snap : snaps \cup {None},
                     members : SUBSET facts']
        BY <2>2
    <2>5. sync' \in [on : BOOLEAN, at : Instant \cup {0}, todo : SUBSET Key, partial : BOOLEAN]
        BY <2>2
    <2> QED BY <2>1, <2>2, <2>3, <2>4, <2>5
<1>3. ASSUME NEW k \in Key, SkipItem(k)
      PROVE  ResolutionTypeOK'
    BY <1>3 DEF SkipItem
<1>4. CASE RecordSnapshot
    <2>1. [run |-> runs, at |-> sync.at, complete |-> ~sync.partial,
           bound |-> {f \in facts : f.run = runs /\ f.what # Absent}] \in Snapshot
        BY <1>4 DEF RecordSnapshot, RunInProgress, Snapshot
    <2>2. snaps \subseteq snaps' /\ snaps' \subseteq Snapshot
        BY <1>4, <2>1 DEF RecordSnapshot
    <2> QED BY <1>4, <2>2 DEF RecordSnapshot, NoSync
<1>5. CASE Interrupt
    BY <1>5 DEF Interrupt, NoSync
<1>6. ASSUME NEW d \in Request, BeginQuery(d)
      PROVE  ResolutionTypeOK'
    <2>1. {f.key : f \in facts} \subseteq Key
        BY DEF Fact
    <2>2. query' \in [phase : Phase, def : Request \cup {None}, keys : SUBSET Key,
                      seen : facts \cup {None}, snap : snaps \cup {None},
                      members : SUBSET facts]
        BY <1>6, <2>1 DEF BeginQuery, NoQuery
    <2>3. \A k : LastRecorded(k, d.before) \subseteq facts \cup {None}
        BY DEF LastRecorded, OrNone
    <2> QED BY <1>6, <2>2, <2>3 DEF BeginQuery
<1>7. CASE ReadObservation
    <2>1. PICK k, o :
              /\ o \in OrNone(Newest(Presence(k)))
              /\ query' = [query EXCEPT !.phase = "absence", !.seen = o]
        BY <1>7 DEF ReadObservation
    <2>2. o \in facts \cup {None}
        BY <2>1 DEF OrNone, Newest, Presence
    <2>3. query' \in [phase : Phase, def : Request \cup {None}, keys : SUBSET Key,
                      seen : facts \cup {None}, snap : snaps \cup {None},
                      members : SUBSET facts]
        BY <2>1, <2>2
    <2> QED BY <1>7, <2>3 DEF ReadObservation
<1>8. CASE ReadAbsence
    <2>1. PICK k, a, s :
              /\ a \in OrNone(Newest(Absence(k))) /\ s \in Later(query.seen, a)
              /\ query' = [query EXCEPT
                            !.phase = "observation", !.keys = @ \ {k}, !.seen = None,
                            !.members = @ \cup {f \in {s} \ {None} : f.what # Absent}]
        BY <1>8 DEF ReadAbsence
    <2>2. a \in facts \cup {None}
        BY <2>1 DEF OrNone, Newest, Absence
    <2>3. s \in facts \cup {None}
        BY <2>1, <2>2 DEF Later, OrNone, Newest
    <2>4. query.members \cup {f \in {s} \ {None} : f.what # Absent} \in SUBSET facts
        BY <2>3
    <2>5. query' \in [phase : Phase, def : Request \cup {None}, keys : SUBSET Key,
                      seen : facts \cup {None}, snap : snaps \cup {None},
                      members : SUBSET facts]
        BY <2>1, <2>4
    <2> QED BY <1>8, <2>5 DEF ReadAbsence
<1>9. CASE AllRead \/ Check
    BY <1>9 DEF AllRead, Check
<1>10. CASE ChooseSnapshot
    BY <1>10 DEF ChooseSnapshot, Newest
<1>11. CASE Gather
    <2>1. Membership(query.snap) \subseteq facts
        BY DEF Membership
    <2> QED BY <1>11, <2>1 DEF Gather
<1>12. CASE RecordDataset
    BY <1>12 DEF RecordDataset
<1>13. CASE UNCHANGED resolutionVars
    BY <1>13 DEF resolutionVars
<1> QED
    BY <1>1, <1>2, <1>3, <1>4, <1>5, <1>6, <1>7, <1>8, <1>9, <1>10, <1>11, <1>12,
       <1>13
    DEF ResolutionNext, Recording, Resolving

\* A resolution reads what is recorded and leaves it alone.
LEMMA ResolvingOnlyReads ==
    ASSUME Resolving \/ UNCHANGED resolutionVars
    PROVE  UNCHANGED <<facts, snaps, runs, sync, listed>>
BY DEF Resolving, BeginQuery, ReadObservation, ReadAbsence, AllRead, ChooseSnapshot,
       Gather, Check, RecordDataset, resolutionVars, catalog, history

LEMMA RowsStay ==
    ResolutionInv /\ [ResolutionNext]_resolutionVars => RowsSayWhatWasListed'
<1> SUFFICES ASSUME ResolutionInv, [ResolutionNext]_resolutionVars
             PROVE  RowsSayWhatWasListed'
    OBVIOUS
<1> USE DEF ResolutionInv, RowsSayWhatWasListed, catalog, history
<1>1. CASE StartSync
    <2>1. /\ \A r \in 1..runs : listed'[r] = listed[r] /\ r \in 1..runs'
          /\ UNCHANGED <<facts, snaps>>
        BY <1>1, RunAssumption DEF StartSync, ResolutionTypeOK, Run
    <2> QED BY <2>1
<1>2. ASSUME NEW k \in Key, RecordFact(k)
      PROVE  RowsSayWhatWasListed'
    <2>1. runs \in 1..runs
        BY <1>2 DEF RecordFact, RunInProgress, Run
    <2>2. facts' = facts \cup {Recorded(k)} /\ UNCHANGED <<snaps, runs, listed>>
        BY <1>2 DEF RecordFact
    <2> QED BY <2>1, <2>2 DEF Recorded
<1>3. ASSUME NEW k \in Key, SkipItem(k)
      PROVE  RowsSayWhatWasListed'
    BY <1>3 DEF SkipItem
<1>4. CASE RecordSnapshot
    <2>1. runs \in 1..runs
        BY <1>4 DEF RecordSnapshot, RunInProgress, Run
    <2> QED BY <1>4, <2>1 DEF RecordSnapshot
<1>5. CASE Interrupt
    BY <1>5 DEF Interrupt
<1>6. CASE Resolving \/ UNCHANGED resolutionVars
    BY <1>6, ResolvingOnlyReads
<1> QED BY <1>1, <1>2, <1>3, <1>4, <1>5, <1>6 DEF ResolutionNext, Recording

LEMMA RunStays == ResolutionInv /\ [ResolutionNext]_resolutionVars => RunInProgress'
<1> SUFFICES ASSUME ResolutionInv, [ResolutionNext]_resolutionVars PROVE RunInProgress'
    OBVIOUS
<1> USE DEF ResolutionInv, catalog, history
<1>1. CASE StartSync
    <2>1. PICK l \in Listings, t \in Instant, known \in Baselines :
             /\ listed' = [listed EXCEPT ![runs + 1] = l]
             /\ sync' = [on |-> TRUE, at |-> t, partial |-> FALSE,
                         todo |-> {k \in Key : l[k] # Absent} \cup known]
        BY <1>1 DEF StartSync
    <2>2. runs' = runs + 1 /\ runs < MaxRuns /\ UNCHANGED <<facts, snaps>>
        BY <1>1 DEF StartSync
    <2>3. runs' \in Run /\ listed'[runs'] = l
        BY <2>1, <2>2, RunAssumption DEF ResolutionTypeOK, Run
    <2>4. /\ \A s \in snaps' : s.run # runs'
          /\ \A f \in facts' : f.run # runs'
        BY <2>2 DEF RowsSayWhatWasListed, ResolutionTypeOK
    <2> QED BY <2>1, <2>3, <2>4 DEF RunInProgress
<1>2. ASSUME NEW k \in Key, RecordFact(k)
      PROVE  RunInProgress'
    <2>1. /\ sync.on /\ facts' = facts \cup {Recorded(k)}
          /\ sync' = [sync EXCEPT !.todo = @ \ {k}]
          /\ UNCHANGED <<snaps, runs, listed>>
        BY <1>2 DEF RecordFact
    <2>2. /\ sync'.todo = sync.todo \ {k} /\ sync'.on = sync.on
          /\ sync'.at = sync.at /\ sync'.partial = sync.partial
        BY <2>1 DEF ResolutionTypeOK
    <2>3. \A f \in facts' : f.run = runs => f.at = sync.at /\ f.key \notin sync.todo \ {k}
        BY <2>1 DEF RunInProgress, Recorded
    <2>4. \A j : Recorded(j)' = Recorded(j)
        BY <2>1, <2>2 DEF Recorded
    <2>5. ~sync.partial =>
               \A j \in Key \ (sync.todo \ {k}) :
                   listed[runs][j] # Absent => Recorded(j) \in facts'
        BY <2>1 DEF RunInProgress
    <2> QED BY <2>1, <2>2, <2>3, <2>4, <2>5 DEF RunInProgress
<1>3. ASSUME NEW k \in Key, SkipItem(k)
      PROVE  RunInProgress'
    <2>1. /\ sync'.on = sync.on /\ sync'.at = sync.at /\ sync'.partial
          /\ sync'.todo \subseteq sync.todo /\ UNCHANGED <<facts, snaps, runs, listed>>
        BY <1>3 DEF SkipItem, ResolutionTypeOK
    <2> QED BY <2>1 DEF RunInProgress
<1>4. CASE RecordSnapshot \/ Interrupt
    BY <1>4 DEF RecordSnapshot, Interrupt, NoSync, RunInProgress
<1>5. CASE Resolving \/ UNCHANGED resolutionVars
    BY <1>5, ResolvingOnlyReads DEF RunInProgress, Recorded
<1> QED BY <1>1, <1>2, <1>3, <1>4, <1>5 DEF ResolutionNext, Recording

LEMMA SnapshotsStay ==
    ResolutionInv /\ [ResolutionNext]_resolutionVars => SnapshotsSealRuns'
<1> SUFFICES ASSUME ResolutionInv, [ResolutionNext]_resolutionVars
             PROVE  SnapshotsSealRuns'
    OBVIOUS
<1> USE DEF ResolutionInv, catalog, history
<1>1. CASE StartSync
    <2>1. /\ \A r \in 1..runs : listed'[r] = listed[r]
          /\ UNCHANGED <<facts, snaps>>
        BY <1>1 DEF StartSync, ResolutionTypeOK, Run
    <2>2. \A s \in snaps : listed'[s.run] = listed[s.run]
        BY <2>1 DEF RowsSayWhatWasListed
    <2> QED BY <2>1, <2>2 DEF SnapshotsSealRuns
<1>2. ASSUME NEW k \in Key, RecordFact(k)
      PROVE  SnapshotsSealRuns'
    <2>1. facts' = facts \cup {Recorded(k)} /\ UNCHANGED <<snaps, listed>>
        BY <1>2 DEF RecordFact
    <2>2. \A s \in snaps : Recorded(k).run # s.run
        BY <1>2 DEF RecordFact, RunInProgress, Recorded
    <2> QED BY <2>1, <2>2 DEF SnapshotsSealRuns
<1>3. ASSUME NEW k \in Key, SkipItem(k)
      PROVE  SnapshotsSealRuns'
    BY <1>3 DEF SkipItem, SnapshotsSealRuns
<1>4. CASE RecordSnapshot
    <2> DEFINE s == [run |-> runs, at |-> sync.at, complete |-> ~sync.partial,
                     bound |-> {f \in facts : f.run = runs /\ f.what # Absent}]
    <2>1. /\ sync.on /\ sync.todo = {}
          /\ snaps' = snaps \cup {s} /\ UNCHANGED <<facts, listed>>
        BY <1>4 DEF RecordSnapshot
    <2>2. s.bound = {f \in facts : f.what # Absent /\ f.run = s.run}
        OBVIOUS
    <2>3. \A f \in facts : f.run = s.run => f.at = s.at
        BY <2>1 DEF RunInProgress
    <2>4. ASSUME s.complete, NEW k \in Key, listed[s.run][k] # Absent
          PROVE  \E f \in facts : f.run = s.run /\ f.key = k
        <3>1. Recorded(k) \in facts
            BY <2>1, <2>4 DEF RunInProgress
        <3>2. Recorded(k).run = s.run /\ Recorded(k).key = k
            BY DEF Recorded
        <3> QED BY <3>1, <3>2
    <2> HIDE DEF s
    <2> QED BY <2>1, <2>2, <2>3, <2>4 DEF SnapshotsSealRuns
<1>5. CASE Interrupt
    BY <1>5 DEF Interrupt, SnapshotsSealRuns
<1>6. CASE Resolving \/ UNCHANGED resolutionVars
    BY <1>6, ResolvingOnlyReads DEF SnapshotsSealRuns
<1> QED BY <1>1, <1>2, <1>3, <1>4, <1>5, <1>6 DEF ResolutionNext, Recording

\* Reading a snapshot's members finds what it binds.
LEMMA MembershipIsWhatIsBound ==
    ASSUME ResolutionTypeOK, SnapshotsSealRuns, NEW s \in snaps
    PROVE  Membership(s) = s.bound
<1>1. \A f \in facts : f.at \in Nat
    BY RunAssumption DEF ResolutionTypeOK, Fact
<1>2. s.bound \subseteq facts /\ \A f \in s.bound : f.run = s.run /\ f.at = s.at
    BY DEF SnapshotsSealRuns
<1>3. \A f \in s.bound : f \in Membership(s)
    BY <1>1, <1>2 DEF Membership
<1> QED BY <1>3 DEF Membership

\* Rows that are added take no member out of the snapshot it is in.
LEMMA CoherentStays ==
    ASSUME facts \subseteq facts', snaps \subseteq snaps',
           UNCHANGED <<query.members, query.snap>>, Coherent(query.members)
    PROVE  Coherent(query.members)'
<1>1. \A f : InCompleteSnapshot(f) => InCompleteSnapshot(f)'
    BY DEF InCompleteSnapshot, Membership
<1> QED BY <1>1 DEF Coherent

LEMMA RecordingOnlyAdds ==
    ASSUME Recording
    PROVE  facts \subseteq facts' /\ snaps \subseteq snaps' /\ UNCHANGED <<query, datasets>>
BY DEF Recording, StartSync, RecordFact, SkipItem, RecordSnapshot, Interrupt, catalog,
       history

LEMMA QueryStays == ResolutionInv /\ [ResolutionNext]_resolutionVars => QueryFollowsSteps'
<1> SUFFICES ASSUME ResolutionInv, [ResolutionNext]_resolutionVars
             PROVE  QueryFollowsSteps'
    OBVIOUS
<1> USE DEF ResolutionInv, QueryFollowsSteps
<1>1. CASE Recording
    BY <1>1, RecordingOnlyAdds, CoherentStays
<1>2. ASSUME NEW d \in Request, BeginQuery(d)
      PROVE  QueryFollowsSteps'
    BY <1>2 DEF BeginQuery, NoQuery
<1>3. CASE ReadObservation
    <2>1. /\ query.phase = "observation" /\ query'.phase = "absence"
          /\ UNCHANGED <<query.def, query.snap>>
        BY <1>3 DEF ReadObservation, ResolutionTypeOK
    <2> QED BY <2>1
<1>4. CASE ReadAbsence
    <2>1. /\ query.phase = "absence" /\ query'.phase = "observation"
          /\ UNCHANGED <<query.def, query.snap>>
        BY <1>4 DEF ReadAbsence, ResolutionTypeOK
    <2> QED BY <2>1
<1>5. CASE AllRead
    <2>1. /\ query.phase = "observation" /\ query'.phase = "check"
          /\ UNCHANGED <<query.def, query.snap>>
        BY <1>5 DEF AllRead, ResolutionTypeOK
    <2> QED BY <2>1
<1>6. CASE ChooseSnapshot
    <2>1. /\ query.phase = "choose" /\ query'.def = query.def
          /\ \/ query'.phase = "gather" /\ query'.snap \in snaps /\ query'.snap.complete
             \/ query'.phase = "failed" /\ query'.snap = query.snap
        BY <1>6 DEF ChooseSnapshot, Newest, ResolutionTypeOK
    <2>2. None \notin snaps
        BY RowAssumption DEF ResolutionTypeOK
    <2> QED BY <2>1, <2>2
<1>7. CASE Gather
    <2>1. /\ query.phase = "gather" /\ query'.phase = "check"
          /\ UNCHANGED <<query.def, query.snap>> /\ query'.members = Membership(query.snap)
        BY <1>7 DEF Gather, ResolutionTypeOK
    <2>2. query.snap \in snaps
        BY <2>1 DEF ResolutionTypeOK
    <2> QED BY <2>1, <2>2, MembershipIsWhatIsBound
<1>8. CASE Check
    <2>1. /\ query.phase = "check"
          /\ UNCHANGED <<query.def, query.snap, query.members>>
          /\ \/ query'.phase = "failed"
             \/ query'.phase \in {"record", "resolved"} /\
                    (query.def.coherent => Coherent(query.members))
        BY <1>8 DEF Check, ResolutionTypeOK
    <2>2. facts' = facts /\ snaps' = snaps
        BY <1>8 DEF Check, catalog
    <2> QED BY <2>1, <2>2, CoherentStays
<1>9. CASE RecordDataset
    <2>1. /\ query.phase = "record" /\ query'.phase = "resolved"
          /\ UNCHANGED <<query.def, query.snap, query.members, facts, snaps>>
        BY <1>9 DEF RecordDataset, ResolutionTypeOK
    <2> QED BY <2>1, CoherentStays
<1>10. CASE UNCHANGED resolutionVars
    BY <1>10, CoherentStays DEF resolutionVars, catalog
<1> QED
    BY <1>1, <1>2, <1>3, <1>4, <1>5, <1>6, <1>7, <1>8, <1>9, <1>10
    DEF ResolutionNext, Resolving

LEMMA MembersStay ==
    ResolutionInv /\ [ResolutionNext]_resolutionVars => MembersAreObserved'
<1> SUFFICES ASSUME ResolutionInv, [ResolutionNext]_resolutionVars
             PROVE  MembersAreObserved'
    OBVIOUS
<1> USE DEF ResolutionInv, MembersAreObserved, Resolved
<1>1. CASE Recording
    BY <1>1, RecordingOnlyAdds
<1>2. ASSUME NEW d \in Request, BeginQuery(d)
      PROVE  MembersAreObserved'
    BY <1>2 DEF BeginQuery, NoQuery, catalog
<1>3. CASE ReadObservation \/ AllRead \/ ChooseSnapshot
    <2>1. query.phase # "resolved" /\ UNCHANGED <<query.members, datasets>>
        BY <1>3 DEF ReadObservation, AllRead, ChooseSnapshot, catalog, ResolutionTypeOK
    <2> QED BY <2>1
<1>4. CASE ReadAbsence
    <2>1. PICK s :
              query'.members = query.members \cup {f \in {s} \ {None} : f.what # Absent}
        BY <1>4 DEF ReadAbsence, ResolutionTypeOK
    <2>2. query.phase # "resolved" /\ datasets' = datasets
        BY <1>4 DEF ReadAbsence, catalog
    <2> QED BY <2>1, <2>2
<1>5. CASE Gather
    <2>1. /\ query.phase = "gather" /\ query.snap \in snaps
          /\ query'.members = Membership(query.snap) /\ datasets' = datasets
        BY <1>5 DEF Gather, catalog, QueryFollowsSteps, ResolutionTypeOK
    <2>2. \A f \in query'.members : f.what # Absent
        BY <2>1, MembershipIsWhatIsBound DEF SnapshotsSealRuns
    <2> QED BY <2>1, <2>2
<1>6. CASE Check
    <2>1. query.phase # "resolved" /\ UNCHANGED <<query.members, datasets>>
        BY <1>6 DEF Check, catalog, ResolutionTypeOK
    <2> QED BY <2>1
<1>7. CASE RecordDataset
    <2>1. /\ query.phase = "record" /\ query'.phase = "resolved"
          /\ query'.members = query.members /\ datasets' = datasets \cup {query.members}
        BY <1>7 DEF RecordDataset, ResolutionTypeOK
    <2> QED BY <2>1
<1>8. CASE UNCHANGED resolutionVars
    BY <1>8 DEF resolutionVars, catalog
<1> QED
    BY <1>1, <1>2, <1>3, <1>4, <1>5, <1>6, <1>7, <1>8 DEF ResolutionNext, Resolving

\* The inductive invariant of recording and resolution.
THEOREM ResolutionInvariant == ResolutionSpec => []ResolutionInv
<1>1. ResolutionInv /\ [ResolutionNext]_resolutionVars => ResolutionInv'
    BY ResolutionTypesStay, RowsStay, RunStays, SnapshotsStay, QueryStays, MembersStay
    DEF ResolutionInv
<1> QED BY ResolutionInvInit, <1>1, PTL DEF ResolutionSpec

-----------------------------------------------------------------------------
\* All of what a run was listed is what its complete snapshot binds.
LEMMA CompleteIsInventory ==
    ASSUME ResolutionInv, NEW s \in snaps, s.complete
    PROVE  Named(s.bound) = Inventory(s.run)
<1> USE DEF ResolutionInv
<1>1. s.bound = {f \in facts : f.what # Absent /\ f.run = s.run}
    BY DEF SnapshotsSealRuns
<1>2. \A f \in facts : f.key \in Key /\ f.what = listed[f.run][f.key]
    BY DEF ResolutionTypeOK, Fact, RowsSayWhatWasListed
<1>3. \A f \in s.bound : [key |-> f.key, what |-> f.what] \in Inventory(s.run)
    BY <1>1, <1>2 DEF Inventory
<1>4. ASSUME NEW k \in Key, listed[s.run][k] # Absent
      PROVE  [key |-> k, what |-> listed[s.run][k]] \in Named(s.bound)
    <2>1. PICK f \in facts : f.run = s.run /\ f.key = k
        BY <1>4 DEF SnapshotsSealRuns
    <2>2. f \in s.bound /\ f.what = listed[s.run][k]
        BY <1>1, <1>2, <1>4, <2>1
    <2> QED BY <2>1, <2>2 DEF Named
<1> QED BY <1>3, <1>4 DEF Named, Inventory

LEMMA ResolvedSnapshotIsInventory == ResolutionInv => SnapshotIsTheInventory
<1> SUFFICES ASSUME ResolutionInv, Resolved, query.def.selector = "snapshot"
             PROVE  Named(query.members) = Inventory(query.snap.run)
    BY DEF SnapshotIsTheInventory
<1>1. query.snap # None /\ query.snap.complete /\ query.members = query.snap.bound
    BY DEF ResolutionInv, QueryFollowsSteps, Resolved
<1>2. query.snap \in snaps
    BY <1>1 DEF ResolutionInv, ResolutionTypeOK
<1> QED BY <1>1, <1>2, CompleteIsInventory

LEMMA CoherentMembersAreInventory == ResolutionInv => CoherentIsOneInventory
<1> SUFFICES ASSUME ResolutionInv, Resolved, query.def.coherent
             PROVE  \E r \in 1..runs :
                       /\ Named(query.members) \subseteq Inventory(r)
                       /\ Inventory(r) \subseteq Named({f \in facts : f.run = r})
    BY DEF CoherentIsOneInventory
<1>1. Coherent(query.members) /\ query.members \subseteq facts
    BY DEF ResolutionInv, QueryFollowsSteps, Resolved, ResolutionTypeOK
<1>2. PICK s \in snaps : s.complete /\ \A f \in query.members : f.run = s.run
    <2>1. CASE query.members = {}
        <3>1. query.snap # None
            BY <1>1, <2>1 DEF Coherent
        <3> QED BY <2>1, <3>1 DEF ResolutionInv, QueryFollowsSteps, ResolutionTypeOK
    <2>2. CASE query.members # {}
        <3>1. PICK g \in query.members : TRUE
            BY <2>2
        <3>2. PICK s \in snaps : s.complete /\ s.run = g.run
            BY <1>1, <3>1 DEF Coherent, InCompleteSnapshot
        <3>3. \A f \in query.members : f.run = s.run
            BY <1>1, <3>1, <3>2 DEF Coherent
        <3> QED BY <3>2, <3>3
    <2> QED BY <2>1, <2>2
<1>3. s.run \in 1..runs
    BY DEF ResolutionInv, RowsSayWhatWasListed
<1>4. Named(s.bound) = Inventory(s.run)
    BY <1>2, CompleteIsInventory
<1>5. s.bound = {f \in facts : f.what # Absent /\ f.run = s.run}
    BY DEF ResolutionInv, SnapshotsSealRuns
<1>6. query.members \subseteq s.bound
    BY <1>1, <1>2, <1>5 DEF ResolutionInv, MembersAreObserved
<1>7. Named(query.members) \subseteq Inventory(s.run)
    BY <1>4, <1>6 DEF Named
<1>8. Inventory(s.run) \subseteq Named({f \in facts : f.run = s.run})
    BY <1>4, <1>5 DEF Named
<1> QED BY <1>3, <1>7, <1>8

-----------------------------------------------------------------------------
LEMMA EvidenceInit == ResolutionInit => Evidence!Init
BY DEF ResolutionInit, Evidence!Init

\* Every transaction of a run and every freeze is one of the catalog's additions.
LEMMA EvidenceStep ==
    ResolutionInv /\ [ResolutionNext]_resolutionVars
        => [Evidence!Next]_<<facts, snaps, datasets>>
<1> SUFFICES ASSUME ResolutionInv, [ResolutionNext]_resolutionVars
             PROVE  [Evidence!Next]_<<facts, snaps, datasets>>
    OBVIOUS
<1> USE DEF ResolutionInv, catalog
<1>1. ASSUME NEW k \in Key, RecordFact(k)
      PROVE  Evidence!Next
    <2>1. k \in sync.todo
        BY <1>1, TurnsAreLeft DEF RecordFact
    <2>2. Recorded(k) \notin facts /\ \A s \in snaps : s.run # Recorded(k).run
        BY <1>1, <2>1 DEF RecordFact, RunInProgress, Recorded
    <2>3. /\ facts' = facts \cup {Recorded(k)}
          /\ UNCHANGED <<snaps, datasets>>
        BY <1>1 DEF RecordFact
    <2>4. Evidence!RecordState(Recorded(k)) /\ Recorded(k) \in facts'
        BY <2>2, <2>3 DEF Evidence!RecordState
    <2> QED BY <2>4 DEF Evidence!Next
<1>2. CASE RecordSnapshot
    <2> DEFINE s == [run |-> runs, at |-> sync.at, complete |-> ~sync.partial,
                     bound |-> {f \in facts : f.run = runs /\ f.what # Absent}]
    <2>1. /\ snaps' = snaps \cup {s} /\ UNCHANGED <<facts, datasets>>
        BY <1>2 DEF RecordSnapshot
    <2>2. s \notin snaps
        BY <1>2 DEF RecordSnapshot, RunInProgress
    <2>3. s.bound = {f \in Evidence!Observations : f.run = s.run}
        BY DEF Evidence!Observations
    <2>4. Evidence!RecordSnapshot(s) /\ s \in snaps'
        BY <2>1, <2>2, <2>3 DEF Evidence!RecordSnapshot
    <2> QED BY <2>4 DEF Evidence!Next
<1>3. CASE RecordDataset
    <2>1. /\ datasets' = datasets \cup {query.members} /\ UNCHANGED <<facts, snaps>>
        BY <1>3 DEF RecordDataset
    <2>2. query.members \subseteq Evidence!Observations
        BY DEF MembersAreObserved, ResolutionTypeOK, Evidence!Observations
    <2>3. Evidence!RecordDataset(query.members) /\ query.members \in datasets'
        BY <2>1, <2>2 DEF Evidence!RecordDataset
    <2> QED BY <2>3 DEF Evidence!Next
<1>4. CASE ~((\E k \in Key : RecordFact(k)) \/ RecordSnapshot \/ RecordDataset)
    BY <1>4
    DEF ResolutionNext, Recording, Resolving, StartSync, SkipItem, Interrupt, BeginQuery,
        ReadObservation, ReadAbsence, AllRead, ChooseSnapshot, Gather, Check,
        resolutionVars
<1> QED BY <1>1, <1>2, <1>3, <1>4

\* A snapshot's membership is for ever all that its run has observed, so that a
\* resolution may search the run for it at any later time.
THEOREM SnapshotsStaySealed == ResolutionSpec => []Evidence!SnapshotsAreSealed
<1>1. ResolutionInv => Evidence!SnapshotsAreSealed
    BY DEF ResolutionInv, SnapshotsSealRuns, Evidence!SnapshotsAreSealed, Evidence!Observations
<1> QED BY ResolutionInvariant, <1>1, PTL

\* Recording and resolving implement the catalog: evidence only grows.
THEOREM ResolutionImplementsCatalog == ResolutionSpec => EvidenceOnlyGrows
<1> QED
    BY EvidenceInit, EvidenceStep, ResolutionInvariant, PTL
    DEF ResolutionSpec, EvidenceOnlyGrows, Evidence!Spec

-----------------------------------------------------------------------------
\* Among rows up to some time there is a newest.
LEMMA NewestExists ==
    ASSUME NEW S, NEW t \in Nat, S # {}, \A f \in S : f.at \in Nat /\ f.at <= t
    PROVE  Newest(S) # {}
<1> DEFINE Age == {t - f.at : f \in S}
<1>1. Age \subseteq Nat /\ Age # {}
    OBVIOUS
<1>2. PICK m \in Age : \A n \in Age : ~(<<n, m>> \in OpToRel(<, Nat))
    BY <1>1, WFMin, NatLessThanWellFounded
<1>3. \A n \in Age : ~(n < m)
    BY <1>1, <1>2 DEF OpToRel
<1>4. PICK f \in S : m = t - f.at
    OBVIOUS
<1>5. ASSUME NEW g \in S
      PROVE  g.at <= f.at
    <2>1. ~(t - g.at < t - f.at)
        BY <1>3, <1>4
    <2>2. f.at \in Nat /\ g.at \in Nat
        OBVIOUS
    <2> HIDE DEF Age
    <2> QED BY <2>1, <2>2
<1> QED BY <1>5 DEF Newest

\* latest_state reads twice, an observation and an absence.  Whenever nothing is
\* recorded in between, the later of the two is what the catalog has as the state
\* of the key, whatever decides among equal times, and nothing is found only where
\* there is nothing: the in-memory catalog, that asks once, answers the same.
THEOREM TwoReadsAreOneState ==
    ASSUME ResolutionTypeOK, query.def \in Request, NEW k \in Key,
           NEW o \in OrNone(Newest(Presence(k))), NEW a \in OrNone(Newest(Absence(k))),
           NEW s \in Later(o, a)
    PROVE  s \in OrNone(Evidence!LatestStates(k, query.def.before))
<1> DEFINE t == query.def.before
           St == Evidence!States(k, t)
<1>1. t \in Nat /\ \A f \in facts : f.at \in Nat /\ f # None
    <2>1. t \in Nat
        BY RequestAssumption
    <2>2. facts \subseteq Fact
        BY DEF ResolutionTypeOK
    <2>3. \A f \in Fact : f.at \in Nat
        BY RunAssumption DEF Fact
    <2>4. None \notin Fact
        BY RowAssumption
    <2> QED BY <2>1, <2>2, <2>3, <2>4
<1>2. /\ Presence(k) = {f \in St : f.what # Absent}
      /\ Absence(k) = {f \in St : f.what = Absent}
      /\ St \subseteq facts /\ \A f \in St : f.at <= t
    BY DEF Presence, Absence, Evidence!States
<1>3. Evidence!LatestStates(k, t) = Newest(St)
    BY DEF Evidence!LatestStates, Newest
<1> HIDE DEF t, St
<1>4. CASE Presence(k) = {} /\ Absence(k) = {}
    <2>1. o = None /\ a = None /\ St = {}
        BY <1>2, <1>4 DEF OrNone, Newest
    <2>2. s = None /\ Newest(St) = {}
        BY <2>1 DEF Later, OrNone, Newest
    <2> QED BY <1>3, <2>2 DEF OrNone, t
<1>5. CASE Presence(k) # {} /\ Absence(k) = {}
    <2>1. a = None /\ o \in Newest(Presence(k)) /\ Presence(k) = St
        BY <1>1, <1>2, <1>5, NewestExists DEF OrNone, Newest
    <2>2. {o, a} \ {None} = {o} /\ o \in facts
        BY <1>1, <1>2, <2>1 DEF Newest
    <2>3. s = o
        BY <1>1, <2>2 DEF Later, OrNone, Newest
    <2> QED BY <1>3, <2>1, <2>3 DEF OrNone, t
<1>6. CASE Presence(k) = {} /\ Absence(k) # {}
    <2>1. o = None /\ a \in Newest(Absence(k)) /\ Absence(k) = St
        BY <1>1, <1>2, <1>6, NewestExists DEF OrNone, Newest
    <2>2. {o, a} \ {None} = {a} /\ a \in facts
        BY <1>1, <1>2, <2>1 DEF Newest
    <2>3. s = a
        BY <1>1, <2>2 DEF Later, OrNone, Newest
    <2> QED BY <1>3, <2>1, <2>3 DEF OrNone, t
<1>7. CASE Presence(k) # {} /\ Absence(k) # {}
    <2>1. o \in Newest(Presence(k)) /\ a \in Newest(Absence(k))
        BY <1>1, <1>2, <1>7, NewestExists DEF OrNone
    <2>2. o \in St /\ a \in St /\ {o, a} \ {None} = {o, a}
        BY <1>1, <1>2, <2>1 DEF Newest
    <2>3. s \in {o, a} /\ o.at <= s.at /\ a.at <= s.at
        <3>1. Newest({o, a}) # {}
            BY <1>1, <1>2, <2>2, NewestExists
        <3> QED BY <2>2, <3>1 DEF Later, OrNone, Newest
    <2>4. \A g \in St : g.at <= s.at
        BY <1>1, <1>2, <2>1, <2>2, <2>3 DEF Newest
    <2>5. s \in Newest(St)
        BY <2>2, <2>3, <2>4 DEF Newest
    <2> QED BY <1>3, <2>5 DEF OrNone, t
<1> QED BY <1>4, <1>5, <1>6, <1>7

-----------------------------------------------------------------------------
\* A run has one time and says one thing of a key; as long as the clock goes
\* forward, runs are in the order of their times.
RunsAreInTime ==
    /\ \A f, g \in facts :
           f.run = g.run => f.at = g.at /\ (f.key = g.key => f = g)
    /\ steady =>
           /\ \A f, g \in facts : f.run < g.run => f.at < g.at
           /\ sync.on => \A f \in facts : f.run # runs => f.at < sync.at

States(k) == {f \in facts : f.key = k /\ f.at <= query.def.before}

\* Whatever was recorded last of a key is among what has been.
LastIsHeld ==
    query.phase # "idle" =>
        \A k \in Key : LastRecorded(k, query.def.before) \subseteq held[k]

\* m was the last recorded of k when the observation was read: what is newer has
\* been the last since, what was seen is no newer, and m if m is an observation.
SeenNextTo(k, m) ==
    /\ m # None => m \in States(k)
    /\ \A f \in States(k) : m = None \/ f.run > m.run => f \in held[k]
    /\ query.seen # None =>
           /\ query.seen \in States(k) /\ query.seen.what # Absent
           /\ m # None /\ query.seen.run <= m.run
    /\ m # None /\ m.what # Absent => query.seen = m

SeenWasHeld ==
    query.phase = "absence" /\ steady =>
        \A k \in Key : First(k, query.keys) => \E m \in held[k] : SeenNextTo(k, m)

\* What was chosen of a key has been its state.
ChosenWasHeld(k) ==
    LET chosen == {f \in query.members : f.key = k}
    IN  \/ \E f \in chosen : chosen = {f} /\ f \in held[k]
        \/ chosen = {} /\ \E f \in held[k] : f = None \/ f.what = Absent

ChoicesWereHeld ==
    /\ query.phase \in {"choose", "gather"} => query.def.selector = "snapshot"
    /\ query.phase \in {"check", "record", "resolved"} /\ query.def.selector = "latest-all"
           => query.keys = {}
    /\ query.phase \in {"observation", "absence", "check", "record", "resolved"} /\ steady
           /\ query.def.selector = "latest-all"
           => /\ \A f \in query.members : f.key \notin query.keys
              /\ \A k \in Key \ query.keys : ChosenWasHeld(k)

HeldInv == RunsAreInTime /\ LastIsHeld /\ SeenWasHeld /\ ChoicesWereHeld

\* Among rows of runs up to some run there is one of the last.
LEMMA LastExists ==
    ASSUME NEW S, NEW n \in Nat, S # {}, \A f \in S : f.run \in Nat /\ f.run <= n
    PROVE  \E m \in S : \A g \in S : g.run <= m.run
<1> DEFINE Left == {n - f.run : f \in S}
<1>1. Left \subseteq Nat /\ Left # {}
    OBVIOUS
<1>2. PICK l \in Left : \A j \in Left : ~(<<j, l>> \in OpToRel(<, Nat))
    BY <1>1, WFMin, NatLessThanWellFounded
<1>3. \A j \in Left : ~(j < l)
    BY <1>1, <1>2 DEF OpToRel
<1>4. PICK f \in S : l = n - f.run
    OBVIOUS
<1>5. ASSUME NEW g \in S
      PROVE  g.run <= f.run
    <2>1. ~(n - g.run < n - f.run)
        BY <1>3, <1>4
    <2>2. f.run \in Nat /\ g.run \in Nat
        OBVIOUS
    <2> HIDE DEF Left
    <2> QED BY <2>1, <2>2
<1> QED BY <1>5

\* Rows' runs and times are numbers.
LEMMA RowsAreNumbered ==
    ASSUME ResolutionInv
    PROVE  \A f \in facts :
               /\ f.run \in Nat /\ f.run <= runs /\ f.at \in Nat /\ f # None
               /\ f.key \in Key
<1>1. facts \subseteq Fact /\ runs \in Nat
    BY RunAssumption DEF ResolutionInv, ResolutionTypeOK
<1>2. \A f \in Fact : f.run \in Nat /\ f.at \in Nat /\ f.key \in Key
    <2>1. Run \subseteq Nat
        BY RunAssumption DEF Run
    <2> QED BY <2>1, RunAssumption DEF Fact
<1>3. \A f \in facts : f.run <= runs
    BY <1>1 DEF ResolutionInv, RowsSayWhatWasListed
<1> QED BY <1>1, <1>2, <1>3, RowAssumption

LEMMA TimeStays ==
    ResolutionInv /\ RunsAreInTime /\ [ResolutionNext]_resolutionVars => RunsAreInTime'
<1> SUFFICES ASSUME ResolutionInv, RunsAreInTime, [ResolutionNext]_resolutionVars
             PROVE  RunsAreInTime'
    OBVIOUS
<1> USE DEF RunsAreInTime, catalog, history
<1>1. CASE StartSync
    <2>1. PICK t \in Instant :
             /\ sync'.at = t
             /\ steady' = (steady /\ \A f \in facts \cup snaps : f.at < t)
        BY <1>1 DEF StartSync
    <2>2. UNCHANGED facts
        BY <1>1 DEF StartSync
    <2> QED BY <2>1, <2>2
<1>2. ASSUME NEW k \in Key, RecordFact(k)
      PROVE  RunsAreInTime'
    <2> DEFINE r == Recorded(k)
    <2>1. /\ sync.on /\ facts' = facts \cup {r} /\ UNCHANGED <<runs, steady>>
          /\ sync'.on = sync.on /\ sync'.at = sync.at
        BY <1>2 DEF RecordFact, ResolutionInv, ResolutionTypeOK
    <2>2. r.run = runs /\ r.at = sync.at /\ r.key = k
        BY DEF Recorded
    <2>3. \A f \in facts : f.run = runs => f.at = sync.at /\ f.key # k
        BY <1>2, <2>1, TurnsAreLeft DEF RecordFact, ResolutionInv, RunInProgress
    <2>4. \A f \in facts : f.run \in Nat /\ f.run <= runs
        BY RowsAreNumbered
    <2>5. runs \in Nat
        BY RunAssumption DEF ResolutionInv, ResolutionTypeOK
    <2>6. ASSUME NEW f \in facts', NEW g \in facts'
          PROVE  f.run = g.run => f.at = g.at /\ (f.key = g.key => f = g)
        BY <2>1, <2>2, <2>3
    <2>7. ASSUME steady, NEW f \in facts', NEW g \in facts', f.run < g.run
          PROVE  f.at < g.at
        <3>1. f # r
            BY <2>1, <2>2, <2>4, <2>5, <2>7
        <3>2. CASE g = r
            BY <2>1, <2>2, <2>5, <2>7, <3>1, <3>2
        <3>3. CASE g # r
            BY <2>1, <2>7, <3>1, <3>3
        <3> QED BY <3>2, <3>3
    <2>8. ASSUME steady, NEW f \in facts', f.run # runs
          PROVE  f.at < sync.at
        BY <2>1, <2>2, <2>8
    <2> QED BY <2>1, <2>6, <2>7, <2>8
<1>3. ASSUME NEW k \in Key, SkipItem(k)
      PROVE  RunsAreInTime'
    BY <1>3 DEF SkipItem, ResolutionInv, ResolutionTypeOK
<1>4. CASE RecordSnapshot \/ Interrupt
    BY <1>4 DEF RecordSnapshot, Interrupt, NoSync
<1>5. CASE Resolving \/ UNCHANGED resolutionVars
    <2>1. steady' = steady
        BY <1>5 DEF Resolving, BeginQuery, ReadObservation, ReadAbsence, AllRead,
           ChooseSnapshot, Gather, Check, RecordDataset, resolutionVars
    <2> QED BY <1>5, <2>1, ResolvingOnlyReads
<1> QED BY <1>1, <1>2, <1>3, <1>4, <1>5 DEF ResolutionNext, Recording

\* Once a resolution has begun, what has been the last of a key only grows, and
\* whatever is recorded of it up to the definition's time is the last.
LEMMA HeldGrows ==
    ASSUME ResolutionInv, ResolutionNext \/ UNCHANGED resolutionVars, query.phase # "idle"
    PROVE  /\ \A k \in Key : held[k] \subseteq held'[k]
           /\ steady' => steady
           /\ query'.def = query.def
           /\ \A k \in Key : \A f \in States(k)' :
                  f \in States(k) \/ (f \in held'[k] /\ \A g \in States(k) : g.run < f.run)
           /\ \A k \in Key : States(k) \subseteq States(k)'
<1> USE DEF catalog, history
<1>1. ASSUME NEW j \in Key, RecordFact(j)
      PROVE  /\ \A k \in Key : held[k] \subseteq held'[k]
             /\ \A k \in Key : \A f \in States(k)' :
                    f \in States(k) \/ (f \in held'[k] /\ \A g \in States(k) : g.run < f.run)
    <2>1. /\ facts' = facts \cup {Recorded(j)} /\ query' = query
          /\ held' = [held EXCEPT ![j] =
                         IF sync.at > query.def.before THEN @ ELSE @ \cup {Recorded(j)}]
        BY <1>1 DEF RecordFact
    <2>2. Recorded(j).key = j /\ Recorded(j).at = sync.at /\ Recorded(j).run = runs
        BY DEF Recorded
    <2>3. ASSUME NEW g \in States(j)
          PROVE  g.run < runs
        <3>1. g.run # runs
            BY <1>1, TurnsAreLeft DEF States, RecordFact, ResolutionInv, RunInProgress
        <3>2. g.run \in Nat /\ g.run <= runs /\ runs \in Nat
            BY RowsAreNumbered, RunAssumption DEF States, ResolutionInv, ResolutionTypeOK
        <3> QED BY <3>1, <3>2
    <2>4. \A k \in Key : held[k] \subseteq held'[k]
        BY <2>1 DEF ResolutionInv, ResolutionTypeOK
    <2>5. ASSUME NEW k \in Key, NEW f \in States(k)', f \notin States(k)
          PROVE  f \in held'[k] /\ \A g \in States(k) : g.run < f.run
        <3>1. f = Recorded(j) /\ k = j /\ sync.at <= query.def.before
            BY <2>1, <2>2, <2>5 DEF States
        <3>2. sync.at \in Nat /\ query.def.before \in Nat
            BY <1>1, RunAssumption, RequestAssumption
            DEF RecordFact, ResolutionInv, RunInProgress, QueryFollowsSteps
        <3>3. f \in held'[k]
            BY <2>1, <3>1, <3>2 DEF ResolutionInv, ResolutionTypeOK
        <3>4. \A g \in States(k) : g.run < f.run
            BY <2>2, <2>3, <3>1
        <3> QED BY <3>3, <3>4
    <2> QED BY <2>4, <2>5
<1>2. CASE \E j \in Key : RecordFact(j)
    <2>1. UNCHANGED <<query, steady>> /\ facts \subseteq facts'
        BY <1>2 DEF RecordFact
    <2> QED BY <1>1, <1>2, <2>1 DEF States
<1>3. CASE ~ \E j \in Key : RecordFact(j)
    <2>1. CASE StartSync
        BY <2>1 DEF StartSync, States
    <2>2. CASE (\E j \in Key : SkipItem(j)) \/ RecordSnapshot \/ Interrupt
               \/ UNCHANGED resolutionVars
        <3>1. UNCHANGED <<facts, held, steady, query>>
            BY <2>2 DEF SkipItem, RecordSnapshot, Interrupt, resolutionVars
        <3> QED BY <3>1 DEF States
    <2>3. CASE Resolving
        <3>1. UNCHANGED <<facts, held, steady>>
            BY <2>3
            DEF Resolving, BeginQuery, ReadObservation, ReadAbsence, AllRead,
                ChooseSnapshot, Gather, Check, RecordDataset
        <3>2. query'.def = query.def
            BY <2>3
            DEF Resolving, BeginQuery, ReadObservation, ReadAbsence, AllRead,
                ChooseSnapshot, Gather, Check, RecordDataset, ResolutionInv,
                ResolutionTypeOK
        <3> QED BY <3>1, <3>2 DEF States
    <2> QED BY <1>3, <2>1, <2>2, <2>3 DEF ResolutionNext, Recording
<1> QED BY <1>2, <1>3

\* The last of a key, as a resolution would find it, or nothing where there is
\* nothing.
LEMMA LastIsLast ==
    ASSUME ResolutionInv, NEW k \in Key
    PROVE  \E m \in LastRecorded(k, query.def.before) :
              /\ m = None => States(k) = {}
              /\ m # None => m \in States(k) /\ \A g \in States(k) : g.run <= m.run
<1>1. LastRecorded(k, query.def.before) =
          OrNone({f \in States(k) : \A g \in States(k) : g.run <= f.run})
    BY DEF LastRecorded, States
<1>2. CASE States(k) = {}
    BY <1>1, <1>2 DEF OrNone
<1>3. CASE States(k) # {}
    <2>1. \A f \in States(k) : f.run \in Nat /\ f.run <= runs /\ f # None
        BY RowsAreNumbered DEF States
    <2>2. runs \in Nat
        BY RunAssumption DEF ResolutionInv, ResolutionTypeOK
    <2>3. PICK m \in States(k) : \A g \in States(k) : g.run <= m.run
        BY <1>3, <2>1, <2>2, LastExists
    <2>4. m \in LastRecorded(k, query.def.before)
        BY <1>1, <2>3 DEF OrNone
    <2> QED BY <2>1, <2>3, <2>4
<1> QED BY <1>2, <1>3

LEMMA LastStays ==
    ResolutionInv /\ ResolutionInv' /\ LastIsHeld /\ [ResolutionNext]_resolutionVars
        => LastIsHeld'
<1> SUFFICES ASSUME ResolutionInv, ResolutionInv', LastIsHeld,
                    [ResolutionNext]_resolutionVars
             PROVE  LastIsHeld'
    OBVIOUS
<1>1. ASSUME NEW d \in Request, BeginQuery(d)
      PROVE  LastIsHeld'
    <2>1. query'.def = d /\ facts' = facts /\ held' = [k \in Key |-> LastRecorded(k, d.before)]
        BY <1>1 DEF BeginQuery, NoQuery, catalog
    <2> QED BY <2>1 DEF LastIsHeld, LastRecorded
<1>2. CASE query.phase = "idle" /\ ~ \E d \in Request : BeginQuery(d)
    <2>1. query' = query
        BY <1>2, RecordingOnlyAdds
        DEF ResolutionNext, Resolving, ReadObservation, ReadAbsence, AllRead,
            ChooseSnapshot, Gather, Check, RecordDataset, resolutionVars
    <2> QED BY <1>2, <2>1 DEF LastIsHeld
<1>3. CASE query.phase # "idle"
    <2> SUFFICES ASSUME NEW k \in Key, NEW f \in LastRecorded(k, query.def.before)'
                 PROVE  f \in held'[k]
        BY DEF LastIsHeld
    <2>1. /\ held[k] \subseteq held'[k] /\ States(k) \subseteq States(k)'
          /\ \A g \in States(k)' : g \in States(k) \/ g \in held'[k]
        BY <1>3, HeldGrows
    <2>2. PICK m \in LastRecorded(k, query.def.before) :
              /\ m = None => States(k) = {}
              /\ m # None => m \in States(k)
        BY LastIsLast
    <2>3. m \in held[k]
        BY <1>3, <2>2 DEF LastIsHeld
    <2>4. CASE States(k)' = {}
        <3>1. f = None
            BY <2>4 DEF LastRecorded, OrNone, States
        <3>2. States(k) = {}
            BY <2>1, <2>4
        <3>3. m = None
            BY <2>2, <3>2
        <3> QED BY <2>1, <2>3, <3>1, <3>3
    <2>5. CASE States(k)' # {}
        <3> DEFINE last == {h \in States(k)' : \A g \in States(k)' : g.run <= h.run}
        <3>1. \A h \in States(k)' : h.run \in Nat /\ h.run <= runs'
            <4>1. \A h \in facts' : h.run \in Nat /\ h.run <= runs'
                BY RunAssumption
                DEF ResolutionInv, ResolutionTypeOK, Fact, Run, RowsSayWhatWasListed
            <4> QED BY <4>1 DEF States
        <3>2. runs' \in Nat
            BY RunAssumption DEF ResolutionInv, ResolutionTypeOK
        <3>3. last # {}
            BY <2>5, <3>1, <3>2, LastExists
        <3>4. f \in last
            BY <3>3 DEF LastRecorded, OrNone, States
        <3>5. CASE f \in States(k)
            <4>1. \A g \in States(k) : g.run <= f.run
                BY <2>1, <3>4
            <4>2. f \in LastRecorded(k, query.def.before)
                BY <3>5, <4>1 DEF LastRecorded, OrNone, States
            <4> QED BY <1>3, <2>1, <4>2 DEF LastIsHeld
        <3> QED BY <2>1, <3>4, <3>5
    <2> QED BY <2>4, <2>5
<1> QED BY <1>1, <1>2, <1>3

\* Two rows of a key are of different runs, and the later run's is the newer one.
LEMMA OrderOfStates ==
    ASSUME ResolutionInv, RunsAreInTime, steady, NEW k, NEW f \in States(k), NEW g \in States(k)
    PROVE  /\ f.run \in Nat /\ g.run \in Nat /\ f.at \in Nat /\ g.at \in Nat
           /\ f = g \/ f.at < g.at \/ g.at < f.at
           /\ f.at < g.at <=> f.run < g.run
<1>1. /\ f \in facts /\ g \in facts /\ f.key = g.key
      /\ f.run \in Nat /\ g.run \in Nat /\ f.at \in Nat /\ g.at \in Nat
    BY RowsAreNumbered DEF States
<1>2. f = g \/ f.run < g.run \/ g.run < f.run
    BY <1>1 DEF RunsAreInTime
<1>3. (f.run < g.run => f.at < g.at) /\ (g.run < f.run => g.at < f.at)
    BY <1>1 DEF RunsAreInTime
<1> QED BY <1>1, <1>2, <1>3

\* latest_state's two reads are of states of the key.
LEMMA ReadsAreStates ==
    ASSUME ResolutionInv, query.phase # "idle", NEW k \in Key
    PROVE  /\ Presence(k) = {f \in States(k) : f.what # Absent}
           /\ Absence(k) = {f \in States(k) : f.what = Absent}
           /\ query.def.before \in Nat
           /\ \A f \in States(k) : f.at \in Nat /\ f.at <= query.def.before /\ f # None
<1>1. query.def.before \in Nat
    BY RequestAssumption DEF ResolutionInv, QueryFollowsSteps
<1>2. \A f \in States(k) : f.at \in Nat /\ f # None /\ f.at <= query.def.before
    BY RowsAreNumbered DEF States
<1> QED BY <1>1, <1>2 DEF Presence, Absence, States

LEMMA SeenStays ==
    ResolutionInv /\ HeldInv /\ [ResolutionNext]_resolutionVars => SeenWasHeld'
<1> SUFFICES ASSUME ResolutionInv, HeldInv, [ResolutionNext]_resolutionVars,
                    query'.phase = "absence", steady',
                    NEW k \in Key, First(k, query'.keys)
             PROVE  \E m \in held'[k] : SeenNextTo(k, m)'
    BY DEF SeenWasHeld, First
<1>1. query.phase # "idle"
    BY DEF ResolutionNext, Recording, Resolving, StartSync, RecordFact, SkipItem,
       RecordSnapshot, Interrupt, BeginQuery, NoQuery, ReadObservation, ReadAbsence,
       AllRead, ChooseSnapshot, Gather, Check, RecordDataset, resolutionVars
<1>2. /\ \A j \in Key : held[j] \subseteq held'[j]
      /\ steady
      /\ \A j \in Key : \A f \in States(j)' : f \in States(j) \/ f \in held'[j]
      /\ \A j \in Key : States(j) \subseteq States(j)'
    BY <1>1, HeldGrows
<1>3. CASE ReadObservation
    <2>1. PICK j, o :
              /\ First(j, query.keys) /\ o \in OrNone(Newest(Presence(j)))
              /\ query' = [query EXCEPT !.phase = "absence", !.seen = o]
        BY <1>3 DEF ReadObservation
    <2>2. query'.keys = query.keys /\ query'.seen = o /\ query'.def = query.def
        BY <2>1 DEF ResolutionInv, ResolutionTypeOK
    <2>3. j = k
        BY <2>1, <2>2, KeyAssumption DEF First, ResolutionInv, ResolutionTypeOK
    <2>4. facts' = facts /\ held' = held
        BY <1>3 DEF ReadObservation, catalog, history
    <2>5. States(k)' = States(k)
        BY <2>2, <2>4 DEF States
    <2>6. PICK m \in LastRecorded(k, query.def.before) :
              /\ m = None => States(k) = {}
              /\ m # None => m \in States(k) /\ \A g \in States(k) : g.run <= m.run
        BY LastIsLast
    <2>7. m \in held'[k]
        BY <1>1, <2>4, <2>6 DEF HeldInv, LastIsHeld
    <2>8. ASSUME NEW f \in States(k), m = None \/ f.run > m.run
          PROVE  FALSE
        <3>1. m \in States(k) /\ f.run <= m.run
            BY <2>6, <2>8
        <3>2. f.run \in Nat /\ m.run \in Nat /\ m # None
            BY <3>1, RowsAreNumbered DEF States
        <3> QED BY <2>8, <3>1, <3>2
    <2>9. o # None => o \in States(k) /\ o.what # Absent /\ m # None /\ o.run <= m.run
        <3>1. o # None => o \in States(k) /\ o.what # Absent
            BY <1>1, <2>1, <2>3, ReadsAreStates DEF OrNone, Newest
        <3> QED BY <2>6, <3>1
    <2>10. ASSUME m # None, m.what # Absent
           PROVE  o = m
        <3>1. m \in Presence(k)
            BY <1>1, <2>6, <2>10, ReadsAreStates
        <3>2. Newest(Presence(k)) # {}
            BY <1>1, <3>1, NewestExists, ReadsAreStates
        <3>3. o \in Newest(Presence(k))
            BY <2>1, <2>3, <3>2 DEF OrNone
        <3>4. o \in States(k) /\ m \in States(k) /\ m.at <= o.at /\ o.run <= m.run
            BY <1>1, <2>6, <2>10, <3>1, <3>3, ReadsAreStates DEF Newest
        <3> QED BY <1>2, <3>4, OrderOfStates DEF HeldInv
    <2> QED BY <2>2, <2>5, <2>6, <2>7, <2>8, <2>9, <2>10 DEF SeenNextTo
<1>4. CASE ~ReadObservation
    <2>1. query' = query
        BY <1>1, <1>4, RecordingOnlyAdds
        DEF ResolutionNext, Resolving, BeginQuery, ReadAbsence, AllRead, ChooseSnapshot,
            Gather, Check, RecordDataset, resolutionVars, ResolutionInv, ResolutionTypeOK
    <2>2. PICK m \in held[k] : SeenNextTo(k, m)
        BY <1>2, <2>1 DEF HeldInv, SeenWasHeld
    <2>3. SeenNextTo(k, m)'
        BY <1>2, <2>1, <2>2 DEF SeenNextTo
    <2> QED BY <1>2, <2>2, <2>3
<1> QED BY <1>3, <1>4

\* The later of what was seen and the newest absence has been the key's state.
LEMMA LaterWasHeld ==
    ASSUME ResolutionInv, HeldInv, steady, query.phase = "absence",
           NEW k \in Key, First(k, query.keys),
           NEW a \in OrNone(Newest(Absence(k))), NEW s \in Later(query.seen, a)
    PROVE  /\ s # None /\ s.what # Absent => s \in held[k] /\ s.key = k
           /\ ~(s # None /\ s.what # Absent) =>
                  \E f \in held[k] : f = None \/ f.what = Absent
<1>1. PICK m \in held[k] : SeenNextTo(k, m)
    BY DEF HeldInv, SeenWasHeld
<1>2. a # None => a \in Absence(k) /\ \A g \in Absence(k) : g.at <= a.at
    BY DEF OrNone, Newest
<1>3. Absence(k) # {} => a # None
    BY NewestExists, ReadsAreStates DEF OrNone, Newest
<1>4. /\ Absence(k) = {f \in States(k) : f.what = Absent}
      /\ \A f \in States(k) : f # None /\ f.key = k
    BY ReadsAreStates DEF States
<1>5. ASSUME s # None, s.what # Absent
      PROVE  s = m
    <2>1. s = query.seen /\ (a # None => a.at <= s.at)
        BY <1>2, <1>4, <1>5 DEF Later, OrNone, Newest
    <2>2. s \in States(k) /\ m # None /\ m \in States(k) /\ s.run <= m.run
        BY <1>1, <1>5, <2>1 DEF SeenNextTo
    <2>3. CASE m.what # Absent
        BY <1>1, <2>1, <2>2, <2>3 DEF SeenNextTo
    <2>4. CASE m.what = Absent
        <3>1. m \in Absence(k) /\ a # None /\ m.at <= a.at /\ a.at <= s.at
            BY <1>2, <1>3, <1>4, <2>1, <2>2, <2>4
        <3>2. a \in States(k)
            BY <1>2, <1>4, <3>1
        <3>3. s # m
            BY <1>5, <2>4
        <3> QED BY <2>2, <3>1, <3>2, <3>3, OrderOfStates DEF HeldInv
    <2> QED BY <2>3, <2>4
<1>6. ASSUME m # None, m.what # Absent, ~(s # None /\ s.what # Absent)
      PROVE  a \in held[k] /\ a.what = Absent
    <2>1. query.seen = m /\ m \in States(k)
        BY <1>1, <1>6 DEF SeenNextTo
    <2>2. a # None
        <3>1. ASSUME a = None
              PROVE  FALSE
            <4>1. {query.seen, a} \ {None} = {m}
                BY <1>6, <2>1, <3>1
            <4>2. m.at \in Nat
                BY <2>1, ReadsAreStates
            <4>3. s = m
                BY <4>1, <4>2 DEF Later, OrNone, Newest
            <4> QED BY <1>6, <4>3
        <3> QED BY <3>1
    <2>3. a \in States(k) /\ a.what = Absent
        BY <1>2, <1>4, <2>2
    <2>4. m.at <= a.at
        <3>1. {query.seen, a} \ {None} = {m, a}
            BY <1>6, <2>1, <2>2
        <3>2. Newest({m, a}) # {}
            BY <2>1, <2>3, NewestExists, ReadsAreStates
        <3>3. s \in {m, a} /\ m.at <= s.at
            BY <3>1, <3>2 DEF Later, OrNone, Newest
        <3>4. s # m
            BY <1>6
        <3> QED BY <3>3, <3>4
    <2>5. m.run < a.run
        BY <1>6, <2>1, <2>3, <2>4, OrderOfStates DEF HeldInv
    <2>6. a.run > m.run
        BY <2>1, <2>3, <2>5, OrderOfStates DEF HeldInv
    <2> QED BY <1>1, <2>3, <2>6 DEF SeenNextTo
<1>7. s # None /\ s.what # Absent => s \in held[k] /\ s.key = k
    <2>1. s # None /\ s.what # Absent => s \in States(k)
        BY <1>1, <1>5 DEF SeenNextTo
    <2> QED BY <1>4, <1>5, <2>1
<1>8. ~(s # None /\ s.what # Absent) => \E f \in held[k] : f = None \/ f.what = Absent
    BY <1>6
<1> QED BY <1>7, <1>8

LEMMA ChoicesStay ==
    ResolutionInv /\ HeldInv /\ [ResolutionNext]_resolutionVars => ChoicesWereHeld'
<1> SUFFICES ASSUME ResolutionInv, HeldInv, [ResolutionNext]_resolutionVars
             PROVE  ChoicesWereHeld'
    OBVIOUS
<1> USE DEF HeldInv, ChoicesWereHeld
<1>1. ASSUME NEW d \in Request, BeginQuery(d)
      PROVE  ChoicesWereHeld'
    <2>1. /\ query'.phase = IF d.selector = "snapshot" THEN "choose" ELSE "observation"
          /\ query'.def = d /\ query'.members = {}
          /\ query'.keys = IF d.selector = "snapshot" THEN {} ELSE {f.key : f \in facts}
          /\ held' = [k \in Key |-> LastRecorded(k, d.before)]
        BY <1>1 DEF BeginQuery, NoQuery
    <2>2. ASSUME NEW k \in Key \ {f.key : f \in facts}
          PROVE  None \in LastRecorded(k, d.before)
        BY DEF LastRecorded, OrNone
    <2>3. ASSUME query'.phase = "observation", NEW k \in Key \ query'.keys
          PROVE  ChosenWasHeld(k)'
        <3>1. None \in held'[k]
            BY <2>1, <2>2, <2>3
        <3> QED BY <2>1, <3>1 DEF ChosenWasHeld
    <2> QED BY <2>1, <2>3
<1>2. CASE query.phase = "idle" /\ ~ \E d \in Request : BeginQuery(d)
    <2>1. query' = query
        BY <1>2, RecordingOnlyAdds
        DEF ResolutionNext, Resolving, ReadObservation, ReadAbsence, AllRead,
            ChooseSnapshot, Gather, Check, RecordDataset, resolutionVars
    <2> QED BY <1>2, <2>1
<1>3. CASE query.phase # "idle"
    <2>1. (\A j \in Key : held[j] \subseteq held'[j]) /\ (steady' => steady)
          /\ query'.def = query.def
        BY <1>3, HeldGrows
    <2>2. ASSUME NEW k \in Key, ChosenWasHeld(k),
                 \A f : f \in query'.members /\ f.key = k
                           <=> f \in query.members /\ f.key = k
          PROVE  ChosenWasHeld(k)'
        BY <2>1, <2>2 DEF ChosenWasHeld
    <2>3. CASE ReadAbsence
        <3>1. PICK k, a, s :
                  /\ k \in query.keys /\ First(k, query.keys)
                  /\ a \in OrNone(Newest(Absence(k))) /\ s \in Later(query.seen, a)
                  /\ query' = [query EXCEPT
                        !.phase = "observation", !.keys = @ \ {k}, !.seen = None,
                        !.members = @ \cup {f \in {s} \ {None} : f.what # Absent}]
            BY <2>3 DEF ReadAbsence
        <3>2. /\ query.phase = "absence" /\ query'.phase = "observation"
              /\ query'.keys = query.keys \ {k} /\ k \in Key
              /\ query'.members = query.members \cup {f \in {s} \ {None} : f.what # Absent}
            BY <2>3, <3>1 DEF ReadAbsence, ResolutionInv, ResolutionTypeOK
        <3> SUFFICES ASSUME steady', query'.def.selector = "latest-all"
                     PROVE  /\ \A f \in query'.members : f.key \notin query'.keys
                            /\ \A j \in Key \ query'.keys : ChosenWasHeld(j)'
            BY <3>2
        <3>3. /\ s # None /\ s.what # Absent => s \in held[k] /\ s.key = k
              /\ ~(s # None /\ s.what # Absent) =>
                     \E f \in held[k] : f = None \/ f.what = Absent
            BY <2>1, <3>1, <3>2, LaterWasHeld DEF HeldInv
        <3>4. /\ \A f \in query.members : f.key \notin query.keys
              /\ \A j \in Key \ query.keys : ChosenWasHeld(j)
            BY <2>1, <3>2
        <3>5. \A f \in query'.members : f.key \notin query'.keys
            BY <3>2, <3>3, <3>4
        <3>6. ASSUME NEW j \in Key \ query'.keys, j # k
              PROVE  ChosenWasHeld(j)'
            BY <2>2, <3>2, <3>3, <3>4, <3>6
        <3>7. ChosenWasHeld(k)'
            <4>1. CASE s # None /\ s.what # Absent
                <5>1. {f \in query'.members : f.key = k} = {s} /\ s \in held'[k]
                    BY <2>1, <3>1, <3>2, <3>3, <3>4, <4>1
                <5> QED BY <5>1 DEF ChosenWasHeld
            <4>2. CASE ~(s # None /\ s.what # Absent)
                <5>1. {f \in query'.members : f.key = k} = {}
                    BY <3>1, <3>2, <3>4, <4>2
                <5>2. \E f \in held'[k] : f = None \/ f.what = Absent
                    BY <2>1, <3>2, <3>3, <4>2
                <5> QED BY <5>1, <5>2 DEF ChosenWasHeld
            <4> QED BY <4>1, <4>2
        <3> QED BY <3>5, <3>6, <3>7
    <2>4. CASE Gather
        <3>1. query.phase = "gather" /\ query'.phase = "check"
            BY <2>4 DEF Gather, ResolutionInv, ResolutionTypeOK
        <3> QED BY <2>1, <3>1
    <2>5. CASE ChooseSnapshot
        <3>1. query.phase = "choose" /\ query'.phase \in {"gather", "failed"}
            BY <2>5 DEF ChooseSnapshot, ResolutionInv, ResolutionTypeOK
        <3> QED BY <2>1, <3>1
    <2>6. CASE ~(ReadAbsence \/ Gather \/ ChooseSnapshot)
        <3>1. /\ query'.members = query.members /\ query'.keys = query.keys
              /\ \/ query'.phase = query.phase
                 \/ query.phase = "observation" /\ query'.phase = "absence"
                 \/ query.phase = "observation" /\ query.keys = {} /\ query'.phase = "check"
                 \/ query.phase = "check" /\ query'.phase \in {"record", "resolved", "failed"}
                 \/ query.phase = "record" /\ query'.phase = "resolved"
            BY <1>3, <2>6, RecordingOnlyAdds
            DEF ResolutionNext, Resolving, BeginQuery, ReadObservation, AllRead, Check,
                RecordDataset, resolutionVars, ResolutionInv, ResolutionTypeOK
        <3>2. ASSUME NEW k \in Key, ChosenWasHeld(k)
              PROVE  ChosenWasHeld(k)'
            BY <2>2, <3>1, <3>2
        <3> QED BY <2>1, <3>1, <3>2
    <2> QED BY <2>3, <2>4, <2>5, <2>6
<1> QED BY <1>1, <1>2, <1>3

LEMMA HeldInvInit == ResolutionInit => HeldInv
<1> SUFFICES ASSUME ResolutionInit PROVE HeldInv
    OBVIOUS
<1> USE DEF ResolutionInit, NoSync, NoQuery
<1>1. RunsAreInTime /\ LastIsHeld
    BY DEF RunsAreInTime, LastIsHeld
<1>2. SeenWasHeld /\ ChoicesWereHeld
    BY DEF SeenWasHeld, ChoicesWereHeld
<1> QED BY <1>1, <1>2 DEF HeldInv

LEMMA HeldStays ==
    ResolutionInv /\ ResolutionInv' /\ HeldInv /\ [ResolutionNext]_resolutionVars
        => HeldInv'
BY TimeStays, LastStays, SeenStays, ChoicesStay DEF HeldInv

LEMMA ChosenStatesWereHeld == HeldInv => EveryStateWasHeld
<1> SUFFICES ASSUME HeldInv, Resolved, steady, query.def.selector = "latest-all",
                    NEW k \in Key
             PROVE  ChosenWasHeld(k)
    BY DEF EveryStateWasHeld, ChosenWasHeld
<1>1. query.keys = {}
    BY DEF HeldInv, ChoicesWereHeld, Resolved
<1> QED BY <1>1 DEF HeldInv, ChoicesWereHeld, Resolved

-----------------------------------------------------------------------------
\* The manifest of a dataset is one: every member has a content.
LEMMA ManifestsOfMembers ==
    ASSUME ResolutionInv, NEW S \in AtHand
    PROVE  S = query.members /\ ManifestOf(S) \in Manifest
<1>1. S = query.members
    BY DEF AtHand, ResolutionInv, MembersAreObserved
<1>2. \A f \in S : f.key \in Key /\ f.what \in Content
    BY <1>1 DEF ResolutionInv, ResolutionTypeOK, MembersAreObserved, Fact
<1> DEFINE K == {f.key : f \in S}
<1>3. K \in SUBSET Key
    BY <1>2
<1>4. \A k \in K : (CHOOSE f \in S : f.key = k).what \in Content
    BY <1>2
<1>5. ManifestOf(S) \in [K -> Content]
    BY <1>4 DEF ManifestOf
<1>6. ManifestOf(S) \in UNION {[L -> Content] : L \in SUBSET Key}
    BY <1>3, <1>5
<1> QED BY <1>1, <1>6 DEF Manifest

\* Each step of the composition is one of the parts' and leaves the other alone.
LEMMA StepsAreResolutions == [Next]_vars => [ResolutionNext]_resolutionVars
BY DEF Next, vars, ExportDataset

LEMMA StepsAreExports == ResolutionInv /\ [Next]_vars => [ExportNext]_exportVars
<1> SUFFICES ASSUME ResolutionInv, [Next]_vars PROVE [ExportNext]_exportVars
    OBVIOUS
<1>1. CASE ExportDataset
    <2>1. PICK S \in AtHand : Plan(ManifestOf(S))
        BY <1>1 DEF ExportDataset
    <2> QED BY <2>1, ManifestsOfMembers DEF ExportNext
<1>2. CASE (ExportStep \/ World) /\ UNCHANGED resolutionVars
    BY <1>2 DEF ExportNext
<1>3. CASE (ResolutionNext /\ exports = 0 /\ UNCHANGED exportVars) \/ UNCHANGED vars
    BY <1>3 DEF vars
<1> QED BY <1>1, <1>2, <1>3 DEF Next

\* There is nothing of an export before the first one, and from then on all of it
\* is of the dataset that was resolved.
PublicationInv ==
    /\ exports = 0 => step = "idle" /\ want = None /\ place \notin Directory
    /\ exports > 0 => Resolved /\ want = ManifestOf(query.members)
    /\ place \in Directory => place.files = ManifestOf(query.members)

LEMMA PublicationInvInit == Init => PublicationInv
<1> SUFFICES ASSUME Init PROVE PublicationInv
    OBVIOUS
<1>1. /\ exports = 0 /\ step = "idle" /\ want = None
      /\ place \in {None, Foreign}
    BY DEF Init, ExportInit
<1> QED BY <1>1, DirectoriesAreNamed DEF PublicationInv

LEMMA PublicationStays ==
    ResolutionInv /\ ExportInv /\ PublicationInv /\ [Next]_vars => PublicationInv'
<1> SUFFICES ASSUME ResolutionInv, ExportInv, PublicationInv, [Next]_vars
             PROVE  PublicationInv'
    OBVIOUS
<1> USE DEF PublicationInv, disk, export, counts
<1>1. exports \in Nat
    BY BoundAssumption DEF ExportInv, ExportTypeOK
<1>2. CASE (ResolutionNext /\ exports = 0 /\ UNCHANGED exportVars) \/ UNCHANGED vars
    BY <1>1, <1>2 DEF vars, exportVars, resolutionVars, Resolved
<1>3. CASE ExportDataset
    <2>1. PICK S \in AtHand : Plan(ManifestOf(S))
        BY <1>3 DEF ExportDataset
    <2>2. S = query.members /\ Resolved
        BY ManifestsOfMembers
        DEF AtHand, Resolved, ResolutionInv, MembersAreObserved
    <2>3. UNCHANGED <<query, place>> /\ exports' = exports + 1 /\ want' = ManifestOf(S)
        BY <1>3, <2>1 DEF ExportDataset, Plan, resolutionVars
    <2> QED BY <1>1, <2>2, <2>3 DEF Resolved
<1>4. CASE (ExportStep \/ World) /\ UNCHANGED resolutionVars
    <2>1. UNCHANGED query
        BY <1>4 DEF resolutionVars
    <2>2. UNCHANGED <<want, exports>>
        BY <1>4
        DEF ExportStep, World, MakeStaging, Copy, Verify, WriteManifest, Flush, Publish,
            Raise, RemoveStaging, Damage, Occupy, Die, LosePower
    <2>3. exports > 0
        <3>1. step # "idle" \/ exports > 0
            BY <1>4
            DEF ExportStep, World, MakeStaging, Copy, Verify, WriteManifest, Flush,
                Publish, Raise, RemoveStaging, Damage, Occupy, Die, LosePower, Busy
        <3> QED BY <1>1, <3>1
    <2>4. Resolved' /\ want' = ManifestOf(query.members)'
        BY <2>1, <2>2, <2>3 DEF Resolved
    <2>5. ASSUME place' \in Directory
          PROVE  place'.files = ManifestOf(query.members)'
        <3>1. CASE Publish
            BY <2>1, <2>3, <3>1 DEF Publish, ExportInv, StageFollowsSteps
        <3>2. CASE Occupy
            BY <2>5, <3>2, DirectoriesAreNamed DEF Occupy
        <3>3. CASE LosePower
            <4>1. place' = place
                BY <2>5, <3>3, DirectoriesAreNamed
                DEF LosePower, Survives, ExportInv, PublishedIsWhole, ExportTypeOK
            <4> QED BY <2>1, <2>5, <4>1
        <3>4. CASE ~(Publish \/ Occupy \/ LosePower)
            <4>1. place' = place
                BY <1>4, <3>4
                DEF ExportStep, World, MakeStaging, Copy, Verify, WriteManifest, Flush,
                    Raise, RemoveStaging, Damage, Die
            <4> QED BY <2>1, <2>5, <4>1
        <3> QED BY <3>1, <3>2, <3>3, <3>4
    <2> QED BY <1>1, <2>2, <2>3, <2>4, <2>5
<1> QED BY <1>2, <1>3, <1>4 DEF Next

\* The inductive invariant of the composition.
PublishingInv == ResolutionInv /\ HeldInv /\ ExportInv /\ PublicationInv

THEOREM PublishingInvariant == Spec => []PublishingInv
<1>1. Init => PublishingInv
    BY ResolutionInvInit, HeldInvInit, ExportInvInit, PublicationInvInit
    DEF Init, PublishingInv
<1>2. PublishingInv /\ [Next]_vars => PublishingInv'
    <2> SUFFICES ASSUME PublishingInv, [Next]_vars PROVE PublishingInv'
        OBVIOUS
    <2>1. ResolutionInv'
        BY StepsAreResolutions, ResolutionTypesStay, RowsStay, RunStays, SnapshotsStay,
           QueryStays, MembersStay
        DEF PublishingInv, ResolutionInv
    <2>2. HeldInv'
        BY <2>1, HeldStays, StepsAreResolutions DEF PublishingInv
    <2>3. ExportInv'
        BY StepsAreExports, TypesStay, WorkStays, StageStays, PublishedStays
        DEF PublishingInv, ExportInv
    <2>4. PublicationInv'
        BY PublicationStays DEF PublishingInv
    <2> QED BY <2>1, <2>2, <2>3, <2>4 DEF PublishingInv
<1> QED BY <1>1, <1>2, PTL DEF Spec

\* Rows, runs, resolutions and exports are what their types say.
THEOREM PublicationTypes == Spec => []TypeOK
<1>1. PublishingInv => TypeOK
    BY DEF PublishingInv, ResolutionInv, ExportInv, TypeOK
<1> QED BY PublishingInvariant, <1>1, PTL

\* A dataset of the latest complete snapshot is that run's inventory, whatever
\* else was recorded before, meanwhile and since.
THEOREM SnapshotResolution == Spec => []SnapshotIsTheInventory
<1>1. PublishingInv => SnapshotIsTheInventory
    BY ResolvedSnapshotIsInventory DEF PublishingInv
<1> QED BY PublishingInvariant, <1>1, PTL

\* A dataset that must be coherent is part of one inventory that was recorded whole.
THEOREM CoherentResolution == Spec => []CoherentIsOneInventory
<1>1. PublishingInv => CoherentIsOneInventory
    BY CoherentMembersAreInventory DEF PublishingInv
<1> QED BY PublishingInvariant, <1>1, PTL

\* As long as the clock goes forward, a dataset of the last states is made of states
\* there have been, however recording and reading interleave.
THEOREM EveryStateHasBeen == Spec => []EveryStateWasHeld
<1>1. PublishingInv => EveryStateWasHeld
    BY ChosenStatesWereHeld DEF PublishingInv
<1> QED BY PublishingInvariant, <1>1, PTL

\* Each file an export of a coherent dataset publishes is what one run was listed.
THEOREM PublicationIsEvidence == Spec => []PublishedIsEvidence
<1>1. PublishingInv => PublishedIsEvidence
    <2> SUFFICES ASSUME PublishingInv, place \in Directory, query.def.coherent
                 PROVE  \E r \in 1..runs :
                           \A k \in DOMAIN place.files : place.files[k] = listed[r][k]
        BY DEF PublishedIsEvidence
    <2>1. exports \in Nat /\ exports # 0
        BY BoundAssumption
        DEF PublishingInv, PublicationInv, ExportInv, ExportTypeOK
    <2>2. Resolved /\ place.files = ManifestOf(query.members)
        BY <2>1 DEF PublishingInv, PublicationInv
    <2>3. PICK r \in 1..runs : Named(query.members) \subseteq Inventory(r)
        BY <2>2, CoherentMembersAreInventory DEF PublishingInv, CoherentIsOneInventory
    <2>4. ASSUME NEW k \in DOMAIN place.files
          PROVE  place.files[k] = listed[r][k]
        <3> DEFINE f == CHOOSE g \in query.members : g.key = k
        <3>1. f \in query.members /\ f.key = k /\ place.files[k] = f.what
            BY <2>2, <2>4 DEF ManifestOf
        <3> HIDE DEF f
        <3>2. [key |-> f.key, what |-> f.what] \in Inventory(r)
            BY <2>3, <3>1 DEF Named
        <3>3. f.what = listed[r][f.key]
            BY <3>2 DEF Inventory
        <3> QED BY <3>1, <3>3
    <2> QED BY <2>4
<1> QED BY PublishingInvariant, <1>1, PTL

\* Next to exports, resolutions and freezes too, evidence only grows.
THEOREM PublishingKeepsEvidence == Spec => EvidenceOnlyGrows
<1>1. Init => Evidence!Init
    BY EvidenceInit DEF Init
<1>2. PublishingInv /\ [Next]_vars => [Evidence!Next]_<<facts, snaps, datasets>>
    BY EvidenceStep, StepsAreResolutions DEF PublishingInv
<1> QED
    BY <1>1, <1>2, PublishingInvariant, PTL DEF Spec, EvidenceOnlyGrows, Evidence!Spec

\* Whatever dataset is exported, frozen or resolved, from whatever evidence, its
\* destination goes from nothing to a complete dataset only.
THEOREM PublicationAtomicity == Spec => ExportIsAtomic
<1>1. Init => Atomic!Init
    BY ShownInit DEF Init
<1>2. PublishingInv /\ [Next]_vars => [Atomic!Next]_Shown
    BY ShownStep, StepsAreExports DEF PublishingInv
<1> QED
    BY <1>1, <1>2, PublishingInvariant, PTL DEF Spec, ExportIsAtomic, Atomic!Spec
=============================================================================

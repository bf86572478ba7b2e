----------------------- MODULE RsyncReconciliation_proofs -----------------------
(***************************************************************************)
(* For any set of paths, contents, scopes and bounds: an absence is recorded *)
(* only of a file that went away, and a wrong content only of a version that *)
(* was recorded from a mirror that held another one.                         *)
(***************************************************************************)
EXTENDS RsyncReconciliation, TLAPS

\* TypeOK in three parts: the files on both sides and how they were transferred,
\* the catalog, and what the sync is about to record.
FilesOK ==
    /\ upstream \in [Path -> File \cup {None}] /\ edits \in 0..MaxEdits
    /\ mirror \in [Path -> File \cup {None}]
    /\ meta \in [own : SUBSET Path, whole : SUBSET Path]
    /\ refusals \in 0..MaxRefusals
    /\ stray \subseteq Path \X File
    /\ phase \in Busy \cup {"idle", "succeeded", "failed"}
    /\ scope \subseteq Path /\ syncs \in 0..MaxSyncs
    /\ pending \subseteq InScope(scope) /\ updated \subseteq Path
    /\ complete \in BOOLEAN
    /\ listing \in [Path -> File \cup {None}]
    /\ raced \subseteq Path \X (0..MaxEdits)

Snapshot(T) == [tree : T \cup {None}, complete : BOOLEAN, scope : SUBSET Path,
                reconciled : BOOLEAN]

CatalogOK ==
    /\ latest \in [Path -> Bytes \cup {Unseen, Absent}]
    /\ DOMAIN trees \subseteq SUBSET Entry
    /\ \A t \in DOMAIN trees :
           trees[t] \in [{e.path : e \in t} -> 0..MaxEdits \cup {None}]
    /\ snaps \in Seq(Snapshot(DOMAIN trees))

TaskOK ==
    /\ todo \subseteq Path /\ absents \subseteq InScope(scope)
    /\ reuse \in [Path -> Bytes \cup {None}]
    /\ entries \subseteq Entry
    /\ gone \subseteq Path

\* What a sync works on belongs to its phase.
WorkFollowsPhase ==
    /\ phase # "recording" => todo = {} /\ absents = {}
    /\ phase \notin {"recording", "snapshot"} => entries = {} /\ reuse = Nothing
    /\ phase \in {"transfer", "idle", "failed"} => complete = FALSE
    /\ phase = "listed" => complete = TRUE
    /\ complete = FALSE => listing = Nothing
    /\ phase = "snapshot" => entries \in DOMAIN trees

\* Whatever is still to be recorded is in the mirror, and is present or absent
\* but not both.
WorkIsPossible ==
    /\ \A p \in todo : mirror[p] # None
    /\ complete => todo \subseteq Listed
    /\ absents \cap (todo \cup Listed) = {}
    /\ complete => \A e \in entries : listing[e.path] # None

\* What is missing upstream, or from a complete listing of the scope, or about
\* to be recorded absent, did go away.
MissingIsGone ==
    /\ \A p \in Path : upstream[p] = None => p \in gone
    /\ phase = "listed" => \A p \in InScope(scope) : listing[p] = None => p \in gone
    /\ absents \subseteq gone

\* An mtime names one version of a path for ever.
VersionsAreUnique ==
    /\ \A p \in Path : upstream[p] # None => upstream[p].mtime <= edits
    /\ \A p \in Path : listing[p] # None => listing[p].mtime <= edits
    /\ \A p \in Path : listing[p] # None /\ upstream[p] # None
                       /\ listing[p].mtime = upstream[p].mtime
                           => listing[p] = upstream[p]

\* A content recorded for a version of a path is that version's, or the version
\* was recorded from a mirror that held another one.
Backs(content, p, file) ==
    content = file.bytes \/ <<p, file.mtime>> \in raced

\* A token vouches for a content: wherever its version is, upstream or in the
\* listing, the content is that version's.
Vouches(content, p, m) ==
    /\ m <= edits
    /\ upstream[p] # None /\ upstream[p].mtime = m => Backs(content, p, upstream[p])
    /\ listing[p] # None /\ listing[p].mtime = m => Backs(content, p, listing[p])

\* A stored token vouches for the content stored with it.
TokensVouch ==
    \A t \in DOMAIN trees : \A e \in t :
        trees[t][e.path] # None => Vouches(e.content, e.path, trees[t][e.path])

\* What a complete sync has recorded so far, and what it is going to reuse, is
\* the listed content.
ListedIsRecorded ==
    /\ \A p \in Path : complete /\ reuse[p] # None
                           => listing[p] # None /\ Backs(reuse[p], p, listing[p])
    /\ complete => \A e \in entries : Backs(e.content, e.path, listing[e.path])
    /\ phase \in {"recording", "snapshot", "succeeded"} =>
           \A p \in Path \ todo : listing[p] # None => Backs(latest[p], p, listing[p])

IInv == /\ TypeOK
        /\ WorkFollowsPhase
        /\ WorkIsPossible
        /\ MissingIsGone
        /\ AbsenceIsTrue
        /\ VersionsAreUnique
        /\ TokensVouch
        /\ ListedIsRecorded
-----------------------------------------------------------------------------
\* An element of the right kind keeps a sequence of its kind.
LEMMA AppendIsSeq ==
    ASSUME NEW S, NEW s \in Seq(S), NEW x \in S
    PROVE  Append(s, x) \in Seq(S)
    OBVIOUS

\* A sequence over a set is one over every larger set.
LEMMA SeqGrows ==
    ASSUME NEW S, NEW T, S \subseteq T, NEW s \in Seq(S)
    PROVE  s \in Seq(T)
    OBVIOUS

\* An element of a sequence is of its kind.
LEMMA SeqAt ==
    ASSUME NEW S, NEW s \in Seq(S), NEW i \in 1..Len(s)
    PROVE  s[i] \in S
    OBVIOUS

\* The items of the baseline are entries of a stored tree, with the mtimes stored
\* with it, inside of the scope.
LEMMA PreviousIsStored ==
    ASSUME TypeOK, NEW item \in Previous
    PROVE  /\ item.entry \in Entry /\ item.entry.path \in InScope(scope)
           /\ \E t \in DOMAIN trees : item.entry \in t /\ item.mtime = trees[t][item.entry.path]
<1>1. PICK i \in Baseline :
          item \in {[entry |-> e, mtime |-> trees[snaps[i].tree][e.path]] :
                       e \in {f \in snaps[i].tree : f.path \in InScope(scope)}}
    BY DEF Previous
<1>2. PICK e \in snaps[i].tree :
          /\ e.path \in InScope(scope)
          /\ item = [entry |-> e, mtime |-> trees[snaps[i].tree][e.path]]
    BY <1>1
<1>3. i \in 1..Len(snaps) /\ snaps[i].tree # None
    BY DEF Baseline, Baselines
<1>4. snaps[i].tree \in DOMAIN trees
    <2>1. snaps[i] \in [tree : DOMAIN trees \cup {None}, complete : BOOLEAN,
                       scope : SUBSET Path, reconciled : BOOLEAN]
        BY <1>3, SeqAt DEF TypeOK
    <2> QED
        BY <1>3, <2>1
<1> QED
    BY <1>2, <1>4 DEF TypeOK

\* What Reconcile reuses is the content of an unchanged item.
LEMMA ReusedIsUnchanged ==
    ASSUME Reconcile, NEW p \in Path, reuse'[p] # None
    PROVE  \E item \in Unchanged : item.entry.path = p /\ reuse'[p] = item.entry.content
<1>1. reuse'[p] = IF \A item \in Unchanged : item.entry.path # p THEN None
                  ELSE (CHOOSE item \in Unchanged : item.entry.path = p).entry.content
    BY DEF Reconcile
<1>2. \E item \in Unchanged : item.entry.path = p
    BY <1>1
<1> QED
    BY <1>1, <1>2

\* A sync's local variables are filled, used and forgotten in the order of its
\* phases.
LEMMA WorkStep == WorkFollowsPhase /\ [Next]_vars => WorkFollowsPhase'
<1> SUFFICES ASSUME WorkFollowsPhase, [Next]_vars PROVE WorkFollowsPhase'
    OBVIOUS
<1> USE DEF WorkFollowsPhase, Busy, Forget, remote, local, catalog, work, found
<1>1. ASSUME NEW p \in Path, Modify(p) PROVE WorkFollowsPhase'
    BY <1>1 DEF Modify
<1>2. ASSUME NEW p \in Path, Fetch(p) PROVE WorkFollowsPhase'
    BY <1>2 DEF Fetch
<1>3. ASSUME NEW S \in Scopes, Begin(S) PROVE WorkFollowsPhase'
    BY <1>3 DEF Begin
<1>4. ASSUME Refuse PROVE WorkFollowsPhase'
    BY <1>4 DEF Refuse
<1>5. ASSUME TransferFails PROVE WorkFollowsPhase'
    BY <1>5 DEF TransferFails
<1>6. ASSUME Enumerate PROVE WorkFollowsPhase'
    BY <1>6 DEF Enumerate
<1>7. ASSUME EnumerateFails PROVE WorkFollowsPhase'
    BY <1>7 DEF EnumerateFails
<1>8. ASSUME Unusable PROVE WorkFollowsPhase'
    BY <1>8 DEF Unusable
<1>9. ASSUME Reconcile PROVE WorkFollowsPhase'
    BY <1>9 DEF Reconcile
<1>10. ASSUME RecordEntry PROVE WorkFollowsPhase'
    BY <1>10 DEF RecordEntry
<1>11. ASSUME RecordAbsence PROVE WorkFollowsPhase'
    BY <1>11 DEF RecordAbsence
<1>12. ASSUME RecordTree PROVE WorkFollowsPhase'
    BY <1>12 DEF RecordTree
<1>13. ASSUME RecordSnapshot PROVE WorkFollowsPhase'
    BY <1>13 DEF RecordSnapshot
<1>14. ASSUME Interrupt PROVE WorkFollowsPhase'
    BY <1>14 DEF Interrupt
<1>15. CASE UNCHANGED vars
    BY <1>15 DEF vars
<1>16. ASSUME NEW p \in Path, Abandon(p) PROVE WorkFollowsPhase'
    BY <1>16 DEF Abandon
<1>17. ASSUME StrayEnds PROVE WorkFollowsPhase'
    BY <1>17 DEF StrayEnds
<1> QED
    BY <1>1, <1>2, <1>3, <1>4, <1>5, <1>6, <1>7, <1>8, <1>9, <1>10, <1>11, <1>12,
        <1>13, <1>14, <1>15, <1>16, <1>17 DEF Next

\* A path is recorded absent only while it is known to have gone away, and is known
\* to be back only when its content is recorded.
LEMMA AbsenceStep ==
    TypeOK /\ WorkFollowsPhase /\ WorkIsPossible /\ MissingIsGone
        /\ AbsenceIsTrue /\ [Next]_vars
    => (MissingIsGone /\ AbsenceIsTrue)'
<1> SUFFICES ASSUME TypeOK /\ WorkFollowsPhase /\ WorkIsPossible
                    /\ MissingIsGone /\ AbsenceIsTrue, [Next]_vars
             PROVE  (MissingIsGone /\ AbsenceIsTrue)'
    OBVIOUS
<1> USE BytesAssumption, BoundAssumption, NoneAssumption DEF TypeOK,
    WorkFollowsPhase, WorkIsPossible, MissingIsGone, AbsenceIsTrue, Busy, Forget,
    Absent, Unseen, remote, local, catalog, work, found
<1>1. ASSUME NEW p \in Path, Modify(p) PROVE (MissingIsGone /\ AbsenceIsTrue)'
    BY <1>1 DEF Modify, File
<1>2. ASSUME NEW p \in Path, Fetch(p) PROVE (MissingIsGone /\ AbsenceIsTrue)'
    BY <1>2 DEF Fetch
<1>3. ASSUME NEW S \in Scopes, Begin(S) PROVE (MissingIsGone /\ AbsenceIsTrue)'
    BY <1>3 DEF Begin
<1>4. ASSUME Refuse PROVE (MissingIsGone /\ AbsenceIsTrue)'
    BY <1>4 DEF Refuse
<1>5. ASSUME TransferFails PROVE (MissingIsGone /\ AbsenceIsTrue)'
    BY <1>5 DEF TransferFails
<1>6. ASSUME Enumerate PROVE (MissingIsGone /\ AbsenceIsTrue)'
    BY <1>6 DEF Enumerate, InScope
<1>7. ASSUME EnumerateFails PROVE (MissingIsGone /\ AbsenceIsTrue)'
    BY <1>7 DEF EnumerateFails
<1>8. ASSUME Unusable PROVE (MissingIsGone /\ AbsenceIsTrue)'
    BY <1>8 DEF Unusable
<1>9. ASSUME Reconcile PROVE (MissingIsGone /\ AbsenceIsTrue)'
    BY <1>9 DEF Reconcile, Missing, Previous, Listed, InScope
<1>10. ASSUME RecordEntry PROVE (MissingIsGone /\ AbsenceIsTrue)'
    BY <1>10 DEF RecordEntry, Content, File
<1>11. ASSUME RecordAbsence PROVE (MissingIsGone /\ AbsenceIsTrue)'
    BY <1>11 DEF RecordAbsence
<1>12. ASSUME RecordTree PROVE (MissingIsGone /\ AbsenceIsTrue)'
    BY <1>12 DEF RecordTree
<1>13. ASSUME RecordSnapshot PROVE (MissingIsGone /\ AbsenceIsTrue)'
    BY <1>13 DEF RecordSnapshot
<1>14. ASSUME Interrupt PROVE (MissingIsGone /\ AbsenceIsTrue)'
    BY <1>14 DEF Interrupt
<1>15. CASE UNCHANGED vars
    BY <1>15 DEF vars
<1>16. ASSUME NEW p \in Path, Abandon(p) PROVE (MissingIsGone /\ AbsenceIsTrue)'
    BY <1>16 DEF Abandon
<1>17. ASSUME StrayEnds PROVE (MissingIsGone /\ AbsenceIsTrue)'
    BY <1>17 DEF StrayEnds
<1> QED
    BY <1>1, <1>2, <1>3, <1>4, <1>5, <1>6, <1>7, <1>8, <1>9, <1>10, <1>11, <1>12,
        <1>13, <1>14, <1>15, <1>16, <1>17 DEF Next

\* Transfers only add to the mirror, and nothing is transferred while recording.
LEMMA PossibleStep ==
    TypeOK /\ WorkFollowsPhase /\ WorkIsPossible /\ [Next]_vars
    => WorkIsPossible'
<1> SUFFICES ASSUME TypeOK /\ WorkFollowsPhase /\ WorkIsPossible, [Next]_vars
             PROVE  WorkIsPossible'
    OBVIOUS
<1> USE DEF TypeOK, WorkFollowsPhase, WorkIsPossible, Busy, Forget, Listed,
    Nothing, remote, local, catalog, work, found
<1>1. ASSUME NEW p \in Path, Modify(p) PROVE WorkIsPossible'
    BY <1>1 DEF Modify
<1>2. ASSUME NEW p \in Path, Fetch(p) PROVE WorkIsPossible'
    BY <1>2 DEF Fetch
<1>3. ASSUME NEW S \in Scopes, Begin(S) PROVE WorkIsPossible'
    BY <1>3 DEF Begin
<1>4. ASSUME Refuse PROVE WorkIsPossible'
    BY <1>4 DEF Refuse
<1>5. ASSUME TransferFails PROVE WorkIsPossible'
    BY <1>5 DEF TransferFails
<1>6. ASSUME Enumerate PROVE WorkIsPossible'
    BY <1>6 DEF Enumerate
<1>7. ASSUME EnumerateFails PROVE WorkIsPossible'
    BY <1>7 DEF EnumerateFails
<1>8. ASSUME Unusable PROVE WorkIsPossible'
    BY <1>8 DEF Unusable
<1>9. ASSUME Reconcile PROVE WorkIsPossible'
    BY <1>9 DEF Reconcile, Missing
<1>10. ASSUME RecordEntry PROVE WorkIsPossible'
    BY <1>10 DEF RecordEntry
<1>11. ASSUME RecordAbsence PROVE WorkIsPossible'
    BY <1>11 DEF RecordAbsence
<1>12. ASSUME RecordTree PROVE WorkIsPossible'
    BY <1>12 DEF RecordTree
<1>13. ASSUME RecordSnapshot PROVE WorkIsPossible'
    BY <1>13 DEF RecordSnapshot
<1>14. ASSUME Interrupt PROVE WorkIsPossible'
    BY <1>14 DEF Interrupt
<1>15. CASE UNCHANGED vars
    BY <1>15 DEF vars
<1>16. ASSUME NEW p \in Path, Abandon(p) PROVE WorkIsPossible'
    BY <1>16 DEF Abandon
<1>17. ASSUME StrayEnds PROVE WorkIsPossible'
    <2>1. PICK s \in Path \X File : mirror' \in {mirror, [mirror EXCEPT ![s[1]] = s[2]]}
        BY <1>17 DEF StrayEnds
    <2>2. s[2] # None
        BY NoneAssumption, BoundAssumption DEF File
    <2>3. \A p \in Path : mirror[p] # None => mirror'[p] # None
        BY <2>1, <2>2
    <2> QED
        BY <1>17, <2>3 DEF StrayEnds
<1> QED
    BY <1>1, <1>2, <1>3, <1>4, <1>5, <1>6, <1>7, <1>8, <1>9, <1>10, <1>11, <1>12,
        <1>13, <1>14, <1>15, <1>16, <1>17 DEF Next

\* Upstream's clock stamps every modification with an mtime of its own.
LEMMA VersionStep ==
    TypeOK /\ WorkFollowsPhase /\ VersionsAreUnique /\ [Next]_vars
    => VersionsAreUnique'
<1> SUFFICES ASSUME TypeOK /\ WorkFollowsPhase /\ VersionsAreUnique, [Next]_vars
             PROVE  VersionsAreUnique'
    OBVIOUS
<1> USE BoundAssumption DEF TypeOK, WorkFollowsPhase, VersionsAreUnique, File,
    Busy, Forget, Nothing, remote, local, catalog, work, found
<1>1. ASSUME NEW p \in Path, Modify(p) PROVE VersionsAreUnique'
    <2>1. \A q \in Path : upstream'[q] # None => upstream'[q] = upstream[q] \/ upstream'[q].mtime = edits + 1
        BY <1>1 DEF Modify
    <2>2. edits \in Nat /\ edits' = edits + 1 /\ listing' = listing
        BY <1>1 DEF Modify
    <2>3. \A q \in Path : upstream[q] # None => upstream[q].mtime \in Nat
        OBVIOUS
    <2>4. \A q \in Path : listing[q] # None => listing[q].mtime \in Nat
        OBVIOUS
    <2>5. ASSUME NEW q \in Path, upstream'[q] # None PROVE upstream'[q].mtime <= edits'
        BY <2>1, <2>2, <2>3, <2>5
    <2>6. ASSUME NEW q \in Path, listing[q] # None, upstream'[q] # None,
                 listing[q].mtime = upstream'[q].mtime
          PROVE  listing[q] = upstream'[q]
        <3>1. upstream'[q].mtime # edits + 1
            BY <2>2, <2>4, <2>6
        <3> QED
            BY <2>1, <2>6, <3>1
    <2> QED
        BY <2>2, <2>4, <2>5, <2>6
<1>2. ASSUME NEW p \in Path, Fetch(p) PROVE VersionsAreUnique'
    BY <1>2 DEF Fetch
<1>3. ASSUME NEW S \in Scopes, Begin(S) PROVE VersionsAreUnique'
    BY <1>3 DEF Begin
<1>4. ASSUME Refuse PROVE VersionsAreUnique'
    BY <1>4 DEF Refuse
<1>5. ASSUME TransferFails PROVE VersionsAreUnique'
    BY <1>5 DEF TransferFails
<1>6. ASSUME Enumerate PROVE VersionsAreUnique'
    BY <1>6 DEF Enumerate
<1>7. ASSUME EnumerateFails PROVE VersionsAreUnique'
    BY <1>7 DEF EnumerateFails
<1>8. ASSUME Unusable PROVE VersionsAreUnique'
    BY <1>8 DEF Unusable
<1>9. ASSUME Reconcile PROVE VersionsAreUnique'
    BY <1>9 DEF Reconcile
<1>10. ASSUME RecordEntry PROVE VersionsAreUnique'
    BY <1>10 DEF RecordEntry
<1>11. ASSUME RecordAbsence PROVE VersionsAreUnique'
    BY <1>11 DEF RecordAbsence
<1>12. ASSUME RecordTree PROVE VersionsAreUnique'
    BY <1>12 DEF RecordTree
<1>13. ASSUME RecordSnapshot PROVE VersionsAreUnique'
    BY <1>13 DEF RecordSnapshot
<1>14. ASSUME Interrupt PROVE VersionsAreUnique'
    BY <1>14 DEF Interrupt
<1>15. CASE UNCHANGED vars
    BY <1>15 DEF vars
<1>16. ASSUME NEW p \in Path, Abandon(p) PROVE VersionsAreUnique'
    BY <1>16 DEF Abandon
<1>17. ASSUME StrayEnds PROVE VersionsAreUnique'
    BY <1>17 DEF StrayEnds
<1> QED
    BY <1>1, <1>2, <1>3, <1>4, <1>5, <1>6, <1>7, <1>8, <1>9, <1>10, <1>11, <1>12,
        <1>13, <1>14, <1>15, <1>16, <1>17 DEF Next

\* The files on both sides, and what is known of them, stay files and paths.
LEMMA FilesStep == FilesOK /\ TaskOK /\ WorkIsPossible /\ [Next]_vars => FilesOK'
<1> SUFFICES ASSUME FilesOK, TaskOK, WorkIsPossible, [Next]_vars PROVE FilesOK'
    OBVIOUS
<1> USE BytesAssumption, BoundAssumption, NoneAssumption, ScopeAssumption,
    SizeAssumption, NameAssumption DEF FilesOK, Busy, Forget, InScope, File,
    Nothing, remote, local, catalog, work, found
<1>1. ASSUME NEW p \in Path, Modify(p) PROVE FilesOK'
    BY <1>1 DEF Modify
<1>2. ASSUME NEW p \in Path, Fetch(p) PROVE FilesOK'
    BY <1>2 DEF Fetch, Reported
<1>3. ASSUME NEW S \in Scopes, Begin(S) PROVE FilesOK'
    <2>1. S \subseteq Path /\ scope' = S /\ pending' = InScope(S)
        BY <1>3, ScopeAssumption DEF Begin
    <2>2. pending' \subseteq InScope(scope')
        BY <2>1
    <2>3. syncs' \in 0..MaxSyncs
        BY <1>3 DEF Begin
    <2> QED
        BY <1>3, <2>1, <2>2, <2>3 DEF Begin
<1>4. ASSUME Refuse PROVE FilesOK'
    BY <1>4 DEF Refuse, Reported
<1>5. ASSUME TransferFails PROVE FilesOK'
    BY <1>5 DEF TransferFails
<1>6. ASSUME Enumerate PROVE FilesOK'
    BY <1>6 DEF Enumerate
<1>7. ASSUME EnumerateFails PROVE FilesOK'
    BY <1>7 DEF EnumerateFails
<1>8. ASSUME Unusable PROVE FilesOK'
    BY <1>8 DEF Unusable
<1>9. ASSUME Reconcile PROVE FilesOK'
    BY <1>9 DEF Reconcile
<1>10. ASSUME RecordEntry PROVE FilesOK'
    <2>1. raced' \subseteq Path \X (0..MaxEdits)
        BY <1>10 DEF RecordEntry, TaskOK, WorkIsPossible, Listed
    <2> QED
        BY <1>10, <2>1 DEF RecordEntry
<1>11. ASSUME RecordAbsence PROVE FilesOK'
    BY <1>11 DEF RecordAbsence
<1>12. ASSUME RecordTree PROVE FilesOK'
    BY <1>12 DEF RecordTree
<1>13. ASSUME RecordSnapshot PROVE FilesOK'
    BY <1>13 DEF RecordSnapshot
<1>14. ASSUME Interrupt PROVE FilesOK'
    BY <1>14 DEF Interrupt
<1>15. CASE UNCHANGED vars
    BY <1>15 DEF vars
<1>16. ASSUME NEW p \in Path, Abandon(p) PROVE FilesOK'
    <2>1. \A q \in Path : upstream[q] # None => <<q, upstream[q]>> \in Path \X File
        OBVIOUS
    <2>2. stray' \subseteq Path \X File
        BY <1>16, <2>1 DEF Abandon
    <2> QED
        BY <1>16, <2>2 DEF Abandon
<1>17. ASSUME StrayEnds PROVE FilesOK'
    BY <1>17 DEF StrayEnds
<1> QED
    BY <1>1, <1>2, <1>3, <1>4, <1>5, <1>6, <1>7, <1>8, <1>9, <1>10, <1>11, <1>12,
        <1>13, <1>14, <1>15, <1>16, <1>17 DEF Next

\* The catalog is only extended by what the sync has established.
LEMMA CatalogStep ==
    TypeOK /\ WorkFollowsPhase /\ WorkIsPossible /\ [Next]_vars
    => CatalogOK'
<1> SUFFICES ASSUME TypeOK /\ WorkFollowsPhase /\ WorkIsPossible, [Next]_vars
             PROVE  CatalogOK'
    OBVIOUS
<1> USE BytesAssumption, BoundAssumption, NoneAssumption, ScopeAssumption,
    SizeAssumption, NameAssumption DEF TypeOK, CatalogOK, Snapshot,
    WorkFollowsPhase, WorkIsPossible, Busy, Forget, File, remote, local, catalog,
    work, found
<1>1. ASSUME NEW p \in Path, Modify(p) PROVE CatalogOK'
    BY <1>1 DEF Modify
<1>2. ASSUME NEW p \in Path, Fetch(p) PROVE CatalogOK'
    BY <1>2 DEF Fetch
<1>3. ASSUME NEW S \in Scopes, Begin(S) PROVE CatalogOK'
    BY <1>3 DEF Begin
<1>4. ASSUME Refuse PROVE CatalogOK'
    BY <1>4 DEF Refuse
<1>5. ASSUME TransferFails PROVE CatalogOK'
    BY <1>5 DEF TransferFails
<1>6. ASSUME Enumerate PROVE CatalogOK'
    BY <1>6 DEF Enumerate
<1>7. ASSUME EnumerateFails PROVE CatalogOK'
    BY <1>7 DEF EnumerateFails
<1>8. ASSUME Unusable PROVE CatalogOK'
    <2>1. [tree |-> None, complete |-> FALSE, scope |-> scope, reconciled |-> FALSE]
              \in Snapshot(DOMAIN trees)
        BY DEF Snapshot
    <2>2. snaps' \in Seq(Snapshot(DOMAIN trees))
        BY <1>8, <2>1, AppendIsSeq DEF Unusable, Snapshot
    <2> QED
        BY <1>8, <2>2 DEF Unusable, Snapshot
<1>9. ASSUME Reconcile PROVE CatalogOK'
    BY <1>9 DEF Reconcile
<1>10. ASSUME RecordEntry PROVE CatalogOK'
    BY <1>10 DEF RecordEntry, Content
<1>11. ASSUME RecordAbsence PROVE CatalogOK'
    BY <1>11 DEF RecordAbsence
<1>12. ASSUME RecordTree PROVE CatalogOK'
    <2>1. DOMAIN trees' = DOMAIN trees \cup {entries}
        BY <1>12 DEF RecordTree
    <2>2. ASSUME NEW t \in DOMAIN trees', t \in DOMAIN trees
          PROVE  trees'[t] \in [{e.path : e \in t} -> 0..MaxEdits \cup {None}]
        BY <1>12, <2>2 DEF RecordTree
    <2>3. ASSUME entries \notin DOMAIN trees
          PROVE  trees'[entries] \in [{e.path : e \in entries} -> 0..MaxEdits \cup {None}]
        <3>1. \A p \in {e.path : e \in entries} :
                  (IF complete THEN listing[p].mtime ELSE None) \in 0..MaxEdits \cup {None}
            BY DEF Entry
        <3> QED
            BY <1>12, <2>1, <2>3, <3>1 DEF RecordTree
    <2>4. Snapshot(DOMAIN trees) \subseteq Snapshot(DOMAIN trees')
        BY <2>1 DEF Snapshot
    <2>5. snaps' \in Seq(Snapshot(DOMAIN trees'))
        <3>1. snaps \in Seq(Snapshot(DOMAIN trees))
            OBVIOUS
        <3> HIDE DEF Snapshot, TypeOK
        <3>2. snaps \in Seq(Snapshot(DOMAIN trees'))
            BY <2>4, <3>1, SeqGrows
        <3> QED
            BY <1>12, <3>2 DEF RecordTree
    <2> QED
        <3>1. latest' = latest /\ DOMAIN trees' \subseteq SUBSET Entry
            BY <1>12, <2>1 DEF RecordTree
        <3>2. \A t \in DOMAIN trees' :
                  trees'[t] \in [{e.path : e \in t} -> 0..MaxEdits \cup {None}]
            BY <2>1, <2>2, <2>3
        <3> QED
            BY <2>5, <3>1, <3>2
<1>13. ASSUME RecordSnapshot PROVE CatalogOK'
    <2>1. [tree |-> entries, complete |-> complete /\ scope = {}, scope |-> scope,
           reconciled |-> complete] \in Snapshot(DOMAIN trees)
        BY <1>13 DEF Snapshot, RecordSnapshot
    <2>2. snaps' \in Seq(Snapshot(DOMAIN trees))
        BY <1>13, <2>1, AppendIsSeq DEF RecordSnapshot, Snapshot
    <2> QED
        BY <1>13, <2>2 DEF RecordSnapshot, Snapshot
<1>14. ASSUME Interrupt PROVE CatalogOK'
    BY <1>14 DEF Interrupt
<1>15. CASE UNCHANGED vars
    BY <1>15 DEF vars
<1>16. ASSUME NEW p \in Path, Abandon(p) PROVE CatalogOK'
    BY <1>16 DEF Abandon
<1>17. ASSUME StrayEnds PROVE CatalogOK'
    BY <1>17 DEF StrayEnds
<1> QED
    BY <1>1, <1>2, <1>3, <1>4, <1>5, <1>6, <1>7, <1>8, <1>9, <1>10, <1>11, <1>12,
        <1>13, <1>14, <1>15, <1>16, <1>17 DEF Next

\* What a sync works on are paths and entries.
LEMMA TaskStep ==
    TypeOK /\ WorkFollowsPhase /\ WorkIsPossible /\ [Next]_vars
    => TaskOK'
<1> SUFFICES ASSUME TypeOK /\ WorkFollowsPhase /\ WorkIsPossible, [Next]_vars
             PROVE  TaskOK'
    OBVIOUS
<1> USE BytesAssumption, BoundAssumption, NoneAssumption, ScopeAssumption,
    SizeAssumption, NameAssumption DEF TypeOK, TaskOK, WorkFollowsPhase,
    WorkIsPossible, Busy, Forget, InScope, Nothing, File, remote, local, catalog,
    work, found
<1>1. ASSUME NEW p \in Path, Modify(p) PROVE TaskOK'
    BY <1>1 DEF Modify
<1>2. ASSUME NEW p \in Path, Fetch(p) PROVE TaskOK'
    BY <1>2 DEF Fetch
<1>3. ASSUME NEW S \in Scopes, Begin(S) PROVE TaskOK'
    BY <1>3 DEF Begin
<1>4. ASSUME Refuse PROVE TaskOK'
    BY <1>4 DEF Refuse
<1>5. ASSUME TransferFails PROVE TaskOK'
    BY <1>5 DEF TransferFails
<1>6. ASSUME Enumerate PROVE TaskOK'
    BY <1>6 DEF Enumerate
<1>7. ASSUME EnumerateFails PROVE TaskOK'
    BY <1>7 DEF EnumerateFails
<1>8. ASSUME Unusable PROVE TaskOK'
    BY <1>8 DEF Unusable
<1>9. ASSUME Reconcile PROVE TaskOK'
    <2>1. \A item \in Previous : item.entry \in Entry /\ item.entry.path \in InScope(scope)
        BY PreviousIsStored
    <2>2. Missing \subseteq InScope(scope)
        BY <2>1 DEF Missing
    <2>3. ASSUME NEW p \in Path, reuse'[p] # None PROVE reuse'[p] \in Bytes
        BY <1>9, <2>1, <2>3, ReusedIsUnchanged DEF Entry, Unchanged
    <2>4. reuse' \in [Path -> Bytes \cup {None}]
        BY <1>9, <2>3 DEF Reconcile
    <2>5. todo' = Listed /\ absents' = Missing
        BY <1>9 DEF Reconcile
    <2>6. scope' = scope /\ entries' = entries /\ gone' = gone
        BY <1>9 DEF Reconcile
    <2>7. Listed \subseteq Path
        BY DEF Listed
    <2>8. todo' \subseteq Path /\ absents' \subseteq InScope(scope')
        BY <2>2, <2>5, <2>6, <2>7
    <2>9. entries' \subseteq Entry' /\ gone' \subseteq Path
        BY <2>6 DEF Entry, Listed
    <2> QED
        BY <2>4, <2>8, <2>9
<1>10. ASSUME RecordEntry PROVE TaskOK'
    BY <1>10 DEF RecordEntry, Content, Entry, Listed
<1>11. ASSUME RecordAbsence PROVE TaskOK'
    BY <1>11 DEF RecordAbsence
<1>12. ASSUME RecordTree PROVE TaskOK'
    BY <1>12 DEF RecordTree
<1>13. ASSUME RecordSnapshot PROVE TaskOK'
    BY <1>13 DEF RecordSnapshot
<1>14. ASSUME Interrupt PROVE TaskOK'
    BY <1>14 DEF Interrupt
<1>15. CASE UNCHANGED vars
    BY <1>15 DEF vars
<1>16. ASSUME NEW p \in Path, Abandon(p) PROVE TaskOK'
    BY <1>16 DEF Abandon
<1>17. ASSUME StrayEnds PROVE TaskOK'
    BY <1>17 DEF StrayEnds
<1> QED
    BY <1>1, <1>2, <1>3, <1>4, <1>5, <1>6, <1>7, <1>8, <1>9, <1>10, <1>11, <1>12,
        <1>13, <1>14, <1>15, <1>16, <1>17 DEF Next

\* What a token vouches for is not changed by any step: upstream's new versions have
\* new tokens, and a listing only copies upstream.
LEMMA VouchStep == TypeOK /\ WorkFollowsPhase /\ [Next]_vars =>
    \A p \in Path, content \in Bytes, m \in 0..MaxEdits :
        Vouches(content, p, m) => Vouches(content, p, m)'
<1> SUFFICES ASSUME TypeOK /\ WorkFollowsPhase, [Next]_vars, NEW q \in Path, NEW content \in Bytes,
                    NEW m \in 0..MaxEdits, Vouches(content, q, m)
             PROVE  Vouches(content, q, m)'
    OBVIOUS
<1> USE BytesAssumption, BoundAssumption, NoneAssumption DEF FilesOK, TypeOK,
    WorkFollowsPhase, Vouches, Backs, Busy, Forget, Nothing, File, remote, local,
    catalog, work, found
<1>1. ASSUME NEW p \in Path, Modify(p) PROVE Vouches(content, q, m)'
    <2>1. upstream'[q] # None => upstream'[q] = upstream[q] \/ upstream'[q].mtime = edits + 1
        BY <1>1 DEF Modify
    <2>2. edits \in Nat /\ edits' = edits + 1 /\ m <= edits /\ listing' = listing /\ raced' = raced
        BY <1>1 DEF Modify
    <2>3. m < edits + 1 /\ m <= edits'
        BY <2>2
    <2>4. upstream'[q] # None /\ upstream'[q].mtime = m => Backs(content, q, upstream'[q])
        <3>1. CASE upstream'[q] = upstream[q]
            BY <3>1
        <3>2. CASE upstream'[q].mtime = edits + 1
            <4>1. m # edits + 1
                BY <2>2, <2>3
            <4> QED
                BY <3>2, <4>1
        <3> QED
            BY <2>1, <3>1, <3>2
    <2> QED
        BY <2>2, <2>3, <2>4
<1>2. ASSUME NEW p \in Path, Fetch(p) PROVE Vouches(content, q, m)'
    BY <1>2 DEF Fetch
<1>3. ASSUME NEW S \in Scopes, Begin(S) PROVE Vouches(content, q, m)'
    BY <1>3 DEF Begin
<1>4. ASSUME Refuse PROVE Vouches(content, q, m)'
    BY <1>4 DEF Refuse
<1>5. ASSUME TransferFails PROVE Vouches(content, q, m)'
    BY <1>5 DEF TransferFails
<1>6. ASSUME Enumerate PROVE Vouches(content, q, m)'
    BY <1>6 DEF Enumerate, InScope
<1>7. ASSUME EnumerateFails PROVE Vouches(content, q, m)'
    BY <1>7 DEF EnumerateFails
<1>8. ASSUME Unusable PROVE Vouches(content, q, m)'
    BY <1>8 DEF Unusable
<1>9. ASSUME Reconcile PROVE Vouches(content, q, m)'
    BY <1>9 DEF Reconcile
<1>10. ASSUME RecordEntry PROVE Vouches(content, q, m)'
    BY <1>10 DEF RecordEntry
<1>11. ASSUME RecordAbsence PROVE Vouches(content, q, m)'
    BY <1>11 DEF RecordAbsence
<1>12. ASSUME RecordTree PROVE Vouches(content, q, m)'
    BY <1>12 DEF RecordTree
<1>13. ASSUME RecordSnapshot PROVE Vouches(content, q, m)'
    BY <1>13 DEF RecordSnapshot
<1>14. ASSUME Interrupt PROVE Vouches(content, q, m)'
    BY <1>14 DEF Interrupt
<1>15. CASE UNCHANGED vars
    BY <1>15 DEF vars
<1>16. ASSUME NEW p \in Path, Abandon(p) PROVE Vouches(content, q, m)'
    BY <1>16 DEF Abandon
<1>17. ASSUME StrayEnds PROVE Vouches(content, q, m)'
    BY <1>17 DEF StrayEnds
<1> QED
    BY <1>1, <1>2, <1>3, <1>4, <1>5, <1>6, <1>7, <1>8, <1>9, <1>10, <1>11, <1>12,
        <1>13, <1>14, <1>15, <1>16, <1>17 DEF Next

\* Content is taken from a mirror that holds the listed version, or from a token that
\* vouches for it.
LEMMA RecordedStep ==
    TypeOK /\ WorkFollowsPhase /\ WorkIsPossible /\ TokensVouch
        /\ ListedIsRecorded /\ [Next]_vars
    => ListedIsRecorded'
<1> SUFFICES ASSUME TypeOK /\ WorkFollowsPhase /\ WorkIsPossible /\ TokensVouch
                    /\ ListedIsRecorded, [Next]_vars
             PROVE  ListedIsRecorded'
    OBVIOUS
<1> USE BytesAssumption, BoundAssumption, NoneAssumption DEF TypeOK,
    WorkFollowsPhase, WorkIsPossible, ListedIsRecorded, Backs, Busy, Forget,
    Nothing, File, Entry, remote, local, catalog, work, found
<1>1. ASSUME NEW p \in Path, Modify(p) PROVE ListedIsRecorded'
    BY <1>1 DEF Modify
<1>2. ASSUME NEW p \in Path, Fetch(p) PROVE ListedIsRecorded'
    BY <1>2 DEF Fetch
<1>3. ASSUME NEW S \in Scopes, Begin(S) PROVE ListedIsRecorded'
    BY <1>3 DEF Begin
<1>4. ASSUME Refuse PROVE ListedIsRecorded'
    BY <1>4 DEF Refuse
<1>5. ASSUME TransferFails PROVE ListedIsRecorded'
    BY <1>5 DEF TransferFails
<1>6. ASSUME Enumerate PROVE ListedIsRecorded'
    BY <1>6 DEF Enumerate, InScope
<1>7. ASSUME EnumerateFails PROVE ListedIsRecorded'
    BY <1>7 DEF EnumerateFails
<1>8. ASSUME Unusable PROVE ListedIsRecorded'
    BY <1>8 DEF Unusable
<1>9. ASSUME Reconcile PROVE ListedIsRecorded'
    <2>1. ASSUME NEW p \in Path, reuse'[p] # None
          PROVE  listing[p] # None /\ Backs(reuse'[p], p, listing[p])
        <3>1. PICK item \in Unchanged : item.entry.path = p /\ reuse'[p] = item.entry.content
            BY <1>9, <2>1, ReusedIsUnchanged
        <3>2. PICK t \in DOMAIN trees : item.entry \in t /\ item.mtime = trees[t][p]
            BY <3>1, PreviousIsStored DEF Unchanged
        <3>3. item.mtime # None /\ listing[p] # None /\ listing[p].mtime = item.mtime
            BY <3>1 DEF Unchanged, SameToken
        <3> QED
            BY <3>1, <3>2, <3>3 DEF TokensVouch, Vouches
    <2> QED
        BY <1>9, <2>1 DEF Reconcile, Listed
<1>10. ASSUME RecordEntry PROVE ListedIsRecorded'
    <2>1. PICK p \in todo :
              /\ todo' = todo \ {p}
              /\ latest' = [latest EXCEPT ![p] = Content(p)]
              /\ \E s : entries' = entries \cup {[path |-> p, content |-> Content(p), size |-> s]}
              /\ raced' = IF complete /\ reuse[p] = None /\ mirror[p] # listing[p]
                          THEN raced \cup {<<p, listing[p].mtime>>} ELSE raced
        BY <1>10 DEF RecordEntry
    <2>2. complete' = complete /\ listing' = listing /\ reuse' = reuse
          /\ phase = "recording" /\ phase' = phase
        BY <1>10 DEF RecordEntry
    <2>3. raced \subseteq raced'
        BY <2>1
    <2>4. ASSUME complete
          PROVE  /\ listing[p] # None
                 /\ Content(p) = listing[p].bytes \/ <<p, listing[p].mtime>> \in raced'
        BY <2>1, <2>4 DEF Content, Listed
    <2>5. ASSUME complete, NEW e \in entries'
          PROVE  \/ e.content = listing[e.path].bytes
                 \/ <<e.path, listing[e.path].mtime>> \in raced'
        <3>1. CASE e \in entries
            BY <2>3, <2>5, <3>1
        <3>2. CASE e \notin entries
            <4>1. e.path = p /\ e.content = Content(p)
                BY <2>1, <2>5, <3>2
            <4> QED
                BY <2>4, <2>5, <4>1
        <3> QED
            BY <3>1, <3>2
    <2>6. ASSUME NEW q \in Path \ todo', listing[q] # None
          PROVE  \/ latest'[q] = listing[q].bytes
                 \/ <<q, listing[q].mtime>> \in raced'
        <3>1. complete
            BY <2>6
        <3> QED
            BY <2>1, <2>2, <2>3, <2>4, <2>6, <3>1
    <2> QED
        BY <2>2, <2>3, <2>5, <2>6
<1>11. ASSUME RecordAbsence PROVE ListedIsRecorded'
    <2>1. PICK p \in absents : latest' = [latest EXCEPT ![p] = Absent]
        BY <1>11 DEF RecordAbsence
    <2>2. p \in Path => listing[p] = None
        BY <2>1 DEF Listed
    <2>3. \A q \in Path : listing[q] # None => latest'[q] = latest[q]
        BY <2>1, <2>2
    <2> QED
        BY <1>11, <2>3 DEF RecordAbsence
<1>12. ASSUME RecordTree PROVE ListedIsRecorded'
    BY <1>12 DEF RecordTree
<1>13. ASSUME RecordSnapshot PROVE ListedIsRecorded'
    BY <1>13 DEF RecordSnapshot
<1>14. ASSUME Interrupt PROVE ListedIsRecorded'
    BY <1>14 DEF Interrupt
<1>15. CASE UNCHANGED vars
    BY <1>15 DEF vars
<1>16. ASSUME NEW p \in Path, Abandon(p) PROVE ListedIsRecorded'
    BY <1>16 DEF Abandon
<1>17. ASSUME StrayEnds PROVE ListedIsRecorded'
    BY <1>17 DEF StrayEnds
<1> QED
    BY <1>1, <1>2, <1>3, <1>4, <1>5, <1>6, <1>7, <1>8, <1>9, <1>10, <1>11, <1>12,
        <1>13, <1>14, <1>15, <1>16, <1>17 DEF Next
\* Only record_tree adds a tree.
LEMMA TreesAreRecorded == [Next]_vars => trees' = trees \/ RecordTree
<1> SUFFICES ASSUME [Next]_vars PROVE trees' = trees \/ RecordTree
    OBVIOUS
<1> USE DEF remote, local, catalog, work, found
<1>1. ASSUME NEW p \in Path, Modify(p) PROVE (trees' = trees \/ RecordTree)
    BY <1>1 DEF Modify
<1>2. ASSUME NEW p \in Path, Fetch(p) PROVE (trees' = trees \/ RecordTree)
    BY <1>2 DEF Fetch
<1>3. ASSUME NEW S \in Scopes, Begin(S) PROVE (trees' = trees \/ RecordTree)
    BY <1>3 DEF Begin
<1>4. ASSUME Refuse PROVE (trees' = trees \/ RecordTree)
    BY <1>4 DEF Refuse
<1>5. ASSUME TransferFails PROVE (trees' = trees \/ RecordTree)
    BY <1>5 DEF TransferFails
<1>6. ASSUME Enumerate PROVE (trees' = trees \/ RecordTree)
    BY <1>6 DEF Enumerate
<1>7. ASSUME EnumerateFails PROVE (trees' = trees \/ RecordTree)
    BY <1>7 DEF EnumerateFails
<1>8. ASSUME Unusable PROVE (trees' = trees \/ RecordTree)
    BY <1>8 DEF Unusable
<1>9. ASSUME Reconcile PROVE (trees' = trees \/ RecordTree)
    BY <1>9 DEF Reconcile
<1>10. ASSUME RecordEntry PROVE (trees' = trees \/ RecordTree)
    BY <1>10 DEF RecordEntry
<1>11. ASSUME RecordAbsence PROVE (trees' = trees \/ RecordTree)
    BY <1>11 DEF RecordAbsence
<1>12. ASSUME RecordTree PROVE (trees' = trees \/ RecordTree)
    BY <1>12 DEF RecordTree
<1>13. ASSUME RecordSnapshot PROVE (trees' = trees \/ RecordTree)
    BY <1>13 DEF RecordSnapshot
<1>14. ASSUME Interrupt PROVE (trees' = trees \/ RecordTree)
    BY <1>14 DEF Interrupt
<1>15. CASE UNCHANGED vars
    BY <1>15 DEF vars
<1>16. ASSUME NEW p \in Path, Abandon(p) PROVE (trees' = trees \/ RecordTree)
    BY <1>16 DEF Abandon
<1>17. ASSUME StrayEnds PROVE (trees' = trees \/ RecordTree)
    BY <1>17 DEF StrayEnds
<1> QED
    BY <1>1, <1>2, <1>3, <1>4, <1>5, <1>6, <1>7, <1>8, <1>9, <1>10, <1>11, <1>12,
        <1>13, <1>14, <1>15, <1>16, <1>17 DEF Next

\* A token is stored with the content recorded for the version it names.
LEMMA TokenStep ==
    TypeOK /\ WorkFollowsPhase /\ WorkIsPossible /\ VersionsAreUnique /\ TokensVouch
        /\ ListedIsRecorded /\ [Next]_vars => TokensVouch'
<1> SUFFICES ASSUME TypeOK, WorkFollowsPhase, WorkIsPossible, VersionsAreUnique,
                    TokensVouch, ListedIsRecorded, [Next]_vars,
                    NEW t \in DOMAIN trees', NEW e \in t, trees'[t][e.path] # None
             PROVE  Vouches(e.content, e.path, trees[t][e.path])'
    BY DEF TokensVouch
<1>1. CASE t \in DOMAIN trees
    <2>1. trees'[t] = trees[t]
        <3>1. CASE trees' = trees
            BY <3>1
        <3>2. CASE RecordTree
            BY <1>1, <3>2 DEF RecordTree
        <3> QED
            BY <3>1, <3>2, TreesAreRecorded
    <2>2. e \in Entry /\ trees[t][e.path] \in 0..MaxEdits
        <3>1. t \subseteq Entry /\ trees[t] \in [{f.path : f \in t} -> 0..MaxEdits \cup {None}]
            BY <1>1 DEF TypeOK
        <3>2. e.path \in {f.path : f \in t}
            OBVIOUS
        <3> QED
            BY <2>1, <3>1, <3>2
    <2>3. Vouches(e.content, e.path, trees[t][e.path])
        BY <1>1, <2>1 DEF TokensVouch
    <2>4. e.path \in Path /\ e.content \in Bytes
        BY <2>2 DEF Entry
    <2>5. Vouches(e.content, e.path, trees[t][e.path])'
        <3> DEFINE m == trees[t][e.path]
        <3> SUFFICES ASSUME NEW k \in 0..MaxEdits, k = m, Vouches(e.content, e.path, k)
                     PROVE  Vouches(e.content, e.path, k)'
            BY <2>1, <2>2, <2>3
        <3> QED
            BY <2>4, VouchStep
    <2> QED
        BY <2>5
<1>2. CASE t \notin DOMAIN trees
    <2>1. RecordTree /\ t = entries
        BY <1>2, TreesAreRecorded DEF RecordTree
    <2>2. complete /\ trees'[t][e.path] = listing[e.path].mtime
        BY <1>2, <2>1 DEF RecordTree
    <2>3. e.path \in Path /\ listing[e.path] # None
          /\ Backs(e.content, e.path, listing[e.path])
        BY <2>1, <2>2 DEF TypeOK, Entry, WorkIsPossible, ListedIsRecorded
    <2>4. UNCHANGED <<upstream, edits, listing, raced>>
        BY <2>1 DEF RecordTree, remote, found
    <2> QED
        BY <2>2, <2>3, <2>4 DEF Vouches, Backs, VersionsAreUnique
<1> QED
    BY <1>1, <1>2

\* The first state satisfies the inductive invariant.
LEMMA IInvInit == Init => IInv
<1> SUFFICES ASSUME Init PROVE IInv
    OBVIOUS
<1> USE BoundAssumption, BytesAssumption, NoneAssumption DEF Init
<1>1. TypeOK
    <2>1. DOMAIN trees = {} /\ snaps \in Seq([tree : DOMAIN trees \cup {None},
              complete : BOOLEAN, scope : SUBSET Path, reconciled : BOOLEAN])
        OBVIOUS
    <2>2. upstream \in [Path -> File \cup {None}]
        BY DEF File
    <2>3. FilesOK
        <3>1. 0 \in 0..MaxEdits /\ 0 \in 0..MaxSyncs /\ 0 \in 0..MaxRefusals
            OBVIOUS
        <3>2. Nothing \in [Path -> File \cup {None}]
            BY DEF Nothing
        <3>3. meta \in [own : SUBSET Path, whole : SUBSET Path]
            OBVIOUS
        <3>4. pending \subseteq InScope(scope) /\ scope \subseteq Path /\ updated \subseteq Path
            OBVIOUS
        <3>5. phase \in Busy \cup {"idle", "succeeded", "failed"}
            BY DEF Busy
        <3> QED
            BY <2>2, <3>1, <3>2, <3>3, <3>4, <3>5 DEF FilesOK
    <2>4. CatalogOK
        BY <2>1 DEF CatalogOK, Snapshot
    <2>5. TaskOK
        BY DEF TaskOK, Nothing
    <2> QED
        BY <2>3, <2>4, <2>5 DEF TypeOK, FilesOK, CatalogOK, TaskOK, Snapshot
<1>2. WorkFollowsPhase /\ WorkIsPossible
    BY DEF WorkFollowsPhase, WorkIsPossible, Listed
<1>3. MissingIsGone /\ AbsenceIsTrue
    BY DEF MissingIsGone, AbsenceIsTrue, Nothing, Absent, Unseen
<1>4. VersionsAreUnique
    BY DEF VersionsAreUnique, Nothing
<1>5. TokensVouch
    BY DEF TokensVouch
<1>6. ListedIsRecorded
    BY DEF ListedIsRecorded, Nothing
<1> QED
    BY <1>1, <1>2, <1>3, <1>4, <1>5, <1>6 DEF IInv

\* The conjunction of the invariants above is inductive, for every set of paths,
\* contents and scopes.
THEOREM IInvHolds == Spec => []IInv
<1>1. IInv /\ [Next]_vars => IInv'
    <2>1. TypeOK /\ WorkFollowsPhase /\ WorkIsPossible /\ [Next]_vars => TypeOK'
        BY FilesStep, CatalogStep, TaskStep DEF TypeOK, FilesOK, CatalogOK, TaskOK,
            Snapshot
    <2> QED
        BY <2>1, WorkStep, PossibleStep, AbsenceStep, VersionStep, TokenStep,
            RecordedStep
        DEF IInv
<1> QED
    BY <1>1, IInvInit, PTL DEF Spec

\* Catalog, trees and snapshots hold what they may in every reachable state.
THEOREM TypeCorrect == Spec => []TypeOK
    BY IInvHolds, PTL DEF IInv

\* Neither a failed listing, nor a scope, nor a crash between two transactions
\* makes the repository report a file absent that never went away.
THEOREM AbsenceIsAlwaysTrue == Spec => []AbsenceIsTrue
    BY IInvHolds, PTL DEF IInv

\* A wrong content stays with the version that was listed before the mirror held
\* it: no other path and no later version is ever recorded wrongly.
THEOREM DamageStaysLocal == Spec => []DamageIsLocal
<1>1. IInv => DamageIsLocal
    BY DEF IInv, DamageIsLocal, Stale, ListedIsRecorded, WorkFollowsPhase, Backs
<1> QED
    BY <1>1, IInvHolds, PTL

-----------------------------------------------------------------------------
(* What a snapshot seals.                                                   *)

EntryPaths == {e.path : e \in entries}

\* On the way to the snapshot every listed path is still to be recorded or has
\* its entry, what the baseline knew beyond the listing is still to be recorded
\* absent or is so, and neither undoes what the other has recorded.
SettlingGoesOn ==
    /\ \A p \in Path : listing[p] # None => p \in InScope(scope)
    /\ phase \in {"recording", "snapshot"} =>
        /\ \A e \in entries : latest[e.path] = e.content /\ e.path \notin todo \cup absents
        /\ complete => /\ Listed = todo \cup EntryPaths
                       /\ \A item \in Previous : item.entry.path \notin Listed =>
                              item.entry.path \in absents \/ latest[item.entry.path] = Absent

\* The baseline of a sync that is under way stays the same: snapshots are
\* committed at its end, and a new tree leaves the stored mtimes alone.
LEMMA PreviousStays ==
    ASSUME TypeOK, UNCHANGED <<snaps, scope>>, trees' = trees \/ RecordTree
    PROVE  Previous' = Previous
<1>1. Baseline' = Baseline
    BY DEF Baseline, Baselines
<1>2. \A i \in Baseline : snaps[i].tree \in DOMAIN trees
    <2>1. ASSUME NEW i \in Baseline PROVE snaps[i].tree \in DOMAIN trees
        <3>1. i \in 1..Len(snaps) /\ snaps[i].tree # None
            BY DEF Baseline, Baselines
        <3>2. snaps[i] \in [tree : DOMAIN trees \cup {None}, complete : BOOLEAN,
                            scope : SUBSET Path, reconciled : BOOLEAN]
            BY <3>1, SeqAt DEF TypeOK
        <3> QED
            BY <3>1, <3>2
    <2> QED
        BY <2>1
<1>3. \A t \in DOMAIN trees : trees'[t] = trees[t]
    BY DEF RecordTree
<1>4. \A i \in Baseline : trees'[snaps[i].tree] = trees[snaps[i].tree]
    BY <1>2, <1>3
<1> QED
    BY <1>1, <1>4 DEF Previous, InScope

\* Recording goes through the listing and the absences in turn.
LEMMA SettlingStep == IInv /\ SettlingGoesOn /\ [Next]_vars => SettlingGoesOn'
<1> SUFFICES ASSUME IInv, SettlingGoesOn, [Next]_vars PROVE SettlingGoesOn'
    OBVIOUS
<1>t. TypeOK /\ WorkFollowsPhase /\ WorkIsPossible
    BY DEF IInv
<1>p. UNCHANGED <<snaps, scope>> => Previous' = Previous
    BY <1>t, PreviousStays, TreesAreRecorded
<1>e. \A e \in entries : e.path \in Path
    BY <1>t DEF TypeOK, Entry
<1> USE <1>t DEF WorkFollowsPhase, SettlingGoesOn, EntryPaths, Busy, Forget, Listed, Nothing,
    remote, local, catalog, work, found
<1>1. ASSUME NEW p \in Path, Modify(p) PROVE SettlingGoesOn'
    BY <1>1, <1>p DEF Modify
<1>2. ASSUME NEW p \in Path, Fetch(p) PROVE SettlingGoesOn'
    BY <1>2, <1>p DEF Fetch
<1>3. ASSUME NEW S \in Scopes, Begin(S) PROVE SettlingGoesOn'
    BY <1>3 DEF Begin
<1>4. ASSUME Refuse PROVE SettlingGoesOn'
    BY <1>4, <1>p DEF Refuse
<1>5. ASSUME TransferFails PROVE SettlingGoesOn'
    BY <1>5 DEF TransferFails
<1>6. ASSUME Enumerate PROVE SettlingGoesOn'
    BY <1>6 DEF Enumerate
<1>7. ASSUME EnumerateFails PROVE SettlingGoesOn'
    BY <1>7 DEF EnumerateFails
<1>8. ASSUME Unusable PROVE SettlingGoesOn'
    BY <1>8 DEF Unusable
<1>9. ASSUME Reconcile PROVE SettlingGoesOn'
    BY <1>9, <1>p DEF Reconcile, Missing
<1>10. ASSUME RecordEntry PROVE SettlingGoesOn'
    <2>1. PICK p \in todo :
              /\ todo' = todo \ {p} /\ latest' = [latest EXCEPT ![p] = Content(p)]
              /\ \E n \in Nat : entries' = entries \cup {[path |-> p, content |-> Content(p), size |-> n]}
        <3>1. PICK p \in todo :
              /\ todo' = todo \ {p} /\ latest' = [latest EXCEPT ![p] = Content(p)]
              /\ LET file == IF complete THEN listing[p] ELSE mirror[p]
                 IN  entries' = entries \cup {[path |-> p, content |-> Content(p),
                                               size |-> SizeOf[file.bytes]]}
            BY <1>10 DEF RecordEntry
        <3>2. complete => listing[p] \in File
            BY <3>1 DEF WorkIsPossible, TypeOK
        <3>3. mirror[p] \in File
            BY <3>1 DEF WorkIsPossible, TypeOK
        <3>4. SizeOf[(IF complete THEN listing[p] ELSE mirror[p]).bytes] \in Nat
            BY <3>2, <3>3, SizeAssumption DEF File
        <3> QED
            BY <3>1, <3>4
    <2>2. PICK n \in Nat : entries' = entries \cup {[path |-> p, content |-> Content(p), size |-> n]}
        BY <2>1
    <2>3. p \in Path /\ latest \in [Path -> Bytes \cup {Unseen, Absent}]
        BY <2>1 DEF TypeOK
    <2>4. phase = "recording" /\ UNCHANGED <<phase, snaps, scope, complete, listing, absents, trees>>
        BY <1>10 DEF RecordEntry
    <2>5. p \notin absents /\ (complete => p \in Listed)
        BY <2>1 DEF WorkIsPossible
    <2>6. \A e \in entries' : latest'[e.path] = e.content /\ e.path \notin todo' \cup absents'
        <3>1. ASSUME NEW e \in entries PROVE latest'[e.path] = e.content /\ e.path \notin todo' \cup absents'
            BY <3>1, <1>e, <2>1, <2>3, <2>4
        <3>2. latest'[p] = Content(p) /\ p \notin todo' \cup absents'
            BY <2>1, <2>3, <2>4, <2>5
        <3> QED
            BY <3>1, <3>2, <2>2
    <2>7. EntryPaths' = EntryPaths \cup {p}
        <3> DEFINE r == [path |-> p, content |-> Content(p), size |-> n]
        <3>1. r.path = p /\ entries' = entries \cup {r}
            BY <2>2
        <3> HIDE DEF r
        <3> QED
            BY <3>1
    <2>8. complete => Listed' = todo' \cup EntryPaths'
        <3>1. complete => Listed = todo \cup EntryPaths
            BY <2>4
        <3>2. Listed' = Listed /\ todo' = todo \ {p} /\ p \in todo
            BY <2>1, <2>4
        <3> HIDE DEF Listed, EntryPaths, SettlingGoesOn, WorkFollowsPhase
        <3> QED
            BY <3>1, <3>2, <2>4, <2>7
    <2>9. ASSUME complete, NEW item \in Previous, item.entry.path \notin Listed
          PROVE  item.entry.path \in absents' \/ latest'[item.entry.path] = Absent
        <3>1. item.entry.path \in Path
            BY PreviousIsStored DEF Entry
        <3> QED
            BY <3>1, <2>9, <2>1, <2>3, <2>4, <2>5
    <2> QED
        BY <2>4, <2>6, <2>8, <2>9, <1>p DEF InScope
<1>11. ASSUME RecordAbsence PROVE SettlingGoesOn'
    <2>1. PICK p \in absents : absents' = absents \ {p} /\ latest' = [latest EXCEPT ![p] = Absent]
        BY <1>11 DEF RecordAbsence
    <2>2. latest \in [Path -> Bytes \cup {Unseen, Absent}]
        BY DEF TypeOK
    <2>3. phase = "recording"
          /\ UNCHANGED <<phase, snaps, scope, complete, listing, todo, entries, trees>>
        BY <1>11 DEF RecordAbsence
    <2>4. \A e \in entries : latest'[e.path] = e.content /\ e.path \notin todo' \cup absents'
        BY <1>e, <2>1, <2>2, <2>3
    <2>5. ASSUME complete, NEW item \in Previous, item.entry.path \notin Listed
          PROVE  item.entry.path \in absents' \/ latest'[item.entry.path] = Absent
        <3>1. item.entry.path \in Path
            BY PreviousIsStored DEF Entry
        <3> QED
            BY <3>1, <2>5, <2>1, <2>2, <2>3
    <2> QED
        BY <2>3, <2>4, <2>5, <1>p DEF InScope
<1>12. ASSUME RecordTree PROVE SettlingGoesOn'
    BY <1>12, <1>p DEF RecordTree
<1>13. ASSUME RecordSnapshot PROVE SettlingGoesOn'
    BY <1>13 DEF RecordSnapshot
<1>14. ASSUME Interrupt PROVE SettlingGoesOn'
    BY <1>14 DEF Interrupt
<1>15. CASE UNCHANGED vars
    BY <1>15, <1>p DEF vars
<1>16. ASSUME NEW p \in Path, Abandon(p) PROVE SettlingGoesOn'
    BY <1>16 DEF Abandon
<1>17. ASSUME StrayEnds PROVE SettlingGoesOn'
    BY <1>17, <1>p DEF StrayEnds
<1> QED
    BY <1>1, <1>2, <1>3, <1>4, <1>5, <1>6, <1>7, <1>8, <1>9, <1>10, <1>11, <1>12,
        <1>13, <1>14, <1>15, <1>16, <1>17 DEF Next

\* A snapshot of a complete listing seals a catalog that says what was listed:
\* nothing outside of the scope, nothing left out, and no item of the baseline
\* lingers, whatever the mirror does meanwhile and whatever syncs came before.
THEOREM ListingIsAlwaysSettled == Spec => []ListingIsSettled
<1>1. Init => SettlingGoesOn
    BY DEF Init, SettlingGoesOn, Nothing
<1>2. IInv /\ SettlingGoesOn /\ [Next]_vars => SettlingGoesOn'
    BY SettlingStep
<1>3. IInv /\ SettlingGoesOn => ListingIsSettled
    BY DEF IInv, WorkFollowsPhase, SettlingGoesOn, ListingIsSettled, EntryPaths, Listed
<1> QED
    BY <1>1, <1>2, <1>3, IInvHolds, PTL DEF Spec
=============================================================================

----------------------- MODULE RepositoryStore_proofs -----------------------
(***************************************************************************)
(* Inductive invariant of RepositoryStore, for any number of processes,     *)
(* contents and reference tables, and the safety properties that follow.    *)
(***************************************************************************)
EXTENDS RepositoryStore, TLAPS

\* Every phase but an audit is run by the process that has the lease.
OwnersHoldLease == \A p \in Proc : pc[p] \notin {"idle", "audit"} => lease = p

\* Until the layout is complete, the only activity is the process creating it.
CreationIsAlone ==
    /\ layout # "ready" => \A p \in Proc : pc[p] \in {"idle", "creating"}
    /\ layout = "absent" => \A p \in Proc : pc[p] = "idle"
    /\ \A p \in Proc : pc[p] = "creating" => layout # "ready"

\* A content staged for a metadata transaction has its bytes in place.
StagedHasBytes ==
    \A p \in Proc : pc[p] = "staged" =>
        item[p] \in Content /\ (blob[item[p]] = "intact" \/ item[p] \in damaged)

\* What a cleanup still has to visit, also while it is between a row and a file.
SweepTargets ==
    \A p \in Proc :
        /\ pc[p] \in {"sweep", "unlink"} => \A task \in todo[p] : task[2] \notin Roots
        /\ pc[p] = "unlink" => item[p] \in Content /\ item[p] \notin Roots \cup rows

\* An audit visits rows that are still there: its read lock keeps them.
AuditVisitsRows ==
    \A p \in Proc : pc[p] = "audit" => \A task \in todo[p] : task[2] \in rows

IInv ==
    /\ TypeOK
    /\ OwnersHoldLease
    /\ CreationIsAlone
    /\ BytesBeforeMetadata
    /\ StagedHasBytes
    /\ SweepTargets
    /\ AuditVisitsRows
    /\ AuditAccusesOnlyTheDisk

-----------------------------------------------------------------------------
\* A new reference keeps the table a set of pairs.
LEMMA AddReference ==
    ASSUME refs \subseteq RefTable \X Content, NEW t \in RefTable, NEW c \in Content
    PROVE  refs \cup {<<t, c>>} \subseteq RefTable \X Content
OBVIOUS

\* Every assignment of the actions stays within the declared sets.
LEMMA TypeStep == TypeOK /\ StagedHasBytes /\ [Next]_vars => TypeOK'
<1> SUFFICES ASSUME TypeOK, StagedHasBytes, [Next]_vars PROVE TypeOK'
    OBVIOUS
<1> USE NoProcAssumption, NoContentAssumption, RefTableAssumption
    DEF TypeOK, Layouts, BlobStates, Phases, Task, disk, local
<1>1. ASSUME NEW p \in Proc, CreateRoot(p) PROVE TypeOK'
    BY <1>1 DEF CreateRoot
<1>2. ASSUME NEW p \in Proc, CreateStep(p) PROVE TypeOK'
    BY <1>2 DEF CreateStep
<1>3. ASSUME NEW p \in Proc, OpenWriter(p) PROVE TypeOK'
    BY <1>3 DEF OpenWriter
<1>4. ASSUME NEW p \in Proc, CloseWriter(p) PROVE TypeOK'
    BY <1>4 DEF CloseWriter, Leave
<1>5. ASSUME NEW p \in Proc, NEW c \in Content, Put(p, c) PROVE TypeOK'
    BY <1>5 DEF Put
<1>6. ASSUME NEW p \in Proc, NEW c \in Content, PutChangingSource(p, c) PROVE TypeOK'
    BY <1>6 DEF PutChangingSource
<1>7. ASSUME NEW p \in Proc, NEW c \in Content, ObserveContent(p, c) PROVE TypeOK'
    <2>1. refs' \subseteq RefTable \X Content
        BY <1>7, AddReference DEF ObserveContent
    <2> QED
        BY <1>7, <2>1 DEF ObserveContent
<1>8. ASSUME NEW p \in Proc, NEW t \in RefTable, NEW c \in Content, RecordEvidence(p, t, c) PROVE TypeOK'
    <2>1. refs' \subseteq RefTable \X Content
        BY <1>8, AddReference DEF RecordEvidence
    <2> QED
        BY <1>8, <2>1 DEF RecordEvidence
<1>9. ASSUME NEW p \in Proc, RegisterContent(p) PROVE TypeOK'
    BY <1>9 DEF RegisterContent, StagedHasBytes
<1>10. ASSUME NEW p \in Proc, IngestContent(p) PROVE TypeOK'
    <2>1. item[p] \in Content
        BY <1>10 DEF IngestContent, StagedHasBytes
    <2>2. refs' \subseteq RefTable \X Content
        BY <1>10, <2>1, AddReference DEF IngestContent
    <2> QED
        BY <1>10, <2>1, <2>2 DEF IngestContent
<1>11. ASSUME NEW p \in Proc, CommitFails(p) PROVE TypeOK'
    BY <1>11 DEF CommitFails
<1>12. ASSUME NEW p \in Proc, CleanupOpen(p) PROVE TypeOK'
    BY <1>12 DEF CleanupOpen
<1>13. ASSUME NEW p \in Proc, CleanupPlan(p) PROVE TypeOK'
    BY <1>13 DEF CleanupPlan, Candidates
<1>14. ASSUME NEW p \in Proc, CleanupRefuses(p) PROVE TypeOK'
    BY <1>14 DEF CleanupRefuses, Leave
<1>15. ASSUME NEW p \in Proc, SweepRow(p) PROVE TypeOK'
    BY <1>15 DEF SweepRow
<1>16. ASSUME NEW p \in Proc, SweepBlob(p) PROVE TypeOK'
    BY <1>16 DEF SweepBlob
<1>17. ASSUME NEW p \in Proc, CleanupFails(p) PROVE TypeOK'
    BY <1>17 DEF CleanupFails, Leave
<1>18. ASSUME NEW p \in Proc, CleanupDone(p) PROVE TypeOK'
    BY <1>18 DEF CleanupDone, Leave
<1>19. ASSUME NEW p \in Proc, AuditOpen(p) PROVE TypeOK'
    BY <1>19 DEF AuditOpen
<1>20. ASSUME NEW p \in Proc, AuditContent(p) PROVE TypeOK'
    BY <1>20 DEF AuditContent
<1>21. ASSUME NEW p \in Proc, AuditDone(p) PROVE TypeOK'
    BY <1>21 DEF AuditDone, Leave
<1>22. ASSUME NEW p \in Proc, Crash(p) PROVE TypeOK'
    BY <1>22 DEF Crash, Leave
<1>23. ASSUME NEW c \in Content, Damage(c) PROVE TypeOK'
    BY <1>23 DEF Damage
<1>24. ASSUME NEW c \in Content, Age(c) PROVE TypeOK'
    BY <1>24 DEF Age
<1>25. ASSUME AgeDatabase PROVE TypeOK'
    BY <1>25 DEF AgeDatabase
<1>26. CASE UNCHANGED vars
    BY <1>26 DEF vars
<1>q. QED
    BY <1>1, <1>2, <1>3, <1>4, <1>5, <1>6, <1>7, <1>8, <1>9, <1>10, <1>11, <1>12,
        <1>13, <1>14, <1>15, <1>16, <1>17, <1>18, <1>19, <1>20, <1>21, <1>22,
        <1>23, <1>24, <1>25, <1>26 DEF Next, Opens, Writes, Cleans, Audits

\* Nobody enters a writing or cleaning phase while another process has the lease.
LEMMA OwnersStep == IInv /\ [Next]_vars => OwnersHoldLease'
<1> SUFFICES ASSUME IInv, [Next]_vars PROVE OwnersHoldLease'
    OBVIOUS
<1> USE NoProcAssumption, NoContentAssumption, RefTableAssumption DEF IInv, TypeOK,
    OwnersHoldLease, CreationIsAlone, disk, local
<1>1. ASSUME NEW p \in Proc, Opens(p) PROVE OwnersHoldLease'
    <2>1. ASSUME CreateRoot(p) PROVE OwnersHoldLease'
        BY <2>1 DEF CreateRoot
    <2>2. ASSUME CreateStep(p) PROVE OwnersHoldLease'
        BY <2>2 DEF CreateStep
    <2>3. ASSUME OpenWriter(p) PROVE OwnersHoldLease'
        BY <2>3 DEF OpenWriter
    <2>4. ASSUME CloseWriter(p) PROVE OwnersHoldLease'
        BY <2>4 DEF CloseWriter, Leave
    <2> QED
        BY <1>1, <2>1, <2>2, <2>3, <2>4 DEF Opens
<1>2. ASSUME NEW p \in Proc, Writes(p) PROVE OwnersHoldLease'
    <2>1. ASSUME NEW c \in Content, Put(p, c) PROVE OwnersHoldLease'
        BY <2>1 DEF Put
    <2>2. ASSUME NEW c \in Content, PutChangingSource(p, c) PROVE OwnersHoldLease'
        BY <2>2 DEF PutChangingSource
    <2>3. ASSUME NEW c \in Content, ObserveContent(p, c) PROVE OwnersHoldLease'
        BY <2>3 DEF ObserveContent
    <2>4. ASSUME NEW t \in RefTable, NEW c \in Content, RecordEvidence(p, t, c) PROVE OwnersHoldLease'
        BY <2>4 DEF RecordEvidence
    <2>5. ASSUME RegisterContent(p) PROVE OwnersHoldLease'
        BY <2>5 DEF RegisterContent
    <2>6. ASSUME IngestContent(p) PROVE OwnersHoldLease'
        BY <2>6 DEF IngestContent
    <2>7. ASSUME CommitFails(p) PROVE OwnersHoldLease'
        BY <2>7 DEF CommitFails
    <2> QED
        BY <1>2, <2>1, <2>2, <2>3, <2>4, <2>5, <2>6, <2>7 DEF Writes
<1>3. ASSUME NEW p \in Proc, Cleans(p) PROVE OwnersHoldLease'
    <2>1. ASSUME CleanupOpen(p) PROVE OwnersHoldLease'
        BY <2>1 DEF CleanupOpen
    <2>2. ASSUME CleanupPlan(p) PROVE OwnersHoldLease'
        BY <2>2 DEF CleanupPlan
    <2>3. ASSUME CleanupRefuses(p) PROVE OwnersHoldLease'
        BY <2>3 DEF CleanupRefuses, Leave
    <2>4. ASSUME SweepRow(p) PROVE OwnersHoldLease'
        BY <2>4 DEF SweepRow
    <2>5. ASSUME SweepBlob(p) PROVE OwnersHoldLease'
        BY <2>5 DEF SweepBlob
    <2>6. ASSUME CleanupFails(p) PROVE OwnersHoldLease'
        BY <2>6 DEF CleanupFails, Leave
    <2>7. ASSUME CleanupDone(p) PROVE OwnersHoldLease'
        BY <2>7 DEF CleanupDone, Leave
    <2> QED
        BY <1>3, <2>1, <2>2, <2>3, <2>4, <2>5, <2>6, <2>7 DEF Cleans
<1>4. ASSUME NEW p \in Proc, Audits(p) PROVE OwnersHoldLease'
    <2>1. ASSUME AuditOpen(p) PROVE OwnersHoldLease'
        BY <2>1 DEF AuditOpen
    <2>2. ASSUME AuditContent(p) PROVE OwnersHoldLease'
        BY <2>2 DEF AuditContent
    <2>3. ASSUME AuditDone(p) PROVE OwnersHoldLease'
        BY <2>3 DEF AuditDone, Leave
    <2> QED
        BY <1>4, <2>1, <2>2, <2>3 DEF Audits
<1>5. ASSUME NEW p \in Proc, Crash(p) PROVE OwnersHoldLease'
    BY <1>5 DEF Crash, Leave
<1>6. ASSUME NEW c \in Content, Damage(c) PROVE OwnersHoldLease'
    BY <1>6 DEF Damage
<1>7. ASSUME NEW c \in Content, Age(c) PROVE OwnersHoldLease'
    BY <1>7 DEF Age
<1>8. ASSUME AgeDatabase PROVE OwnersHoldLease'
    BY <1>8 DEF AgeDatabase
<1>9. CASE UNCHANGED vars
    BY <1>9 DEF vars
<1> QED
    BY <1>1, <1>2, <1>3, <1>4, <1>5, <1>6, <1>7, <1>8, <1>9 DEF Next

\* Opening requires the complete layout, and creation requires that nothing exists.
LEMMA CreationStep == IInv /\ [Next]_vars => CreationIsAlone'
<1> SUFFICES ASSUME IInv, [Next]_vars PROVE CreationIsAlone'
    OBVIOUS
<1> USE NoProcAssumption, NoContentAssumption, RefTableAssumption DEF IInv, TypeOK,
    OwnersHoldLease, CreationIsAlone, disk, local
<1>1. ASSUME NEW p \in Proc, Opens(p) PROVE CreationIsAlone'
    <2>1. ASSUME CreateRoot(p) PROVE CreationIsAlone'
        BY <2>1 DEF CreateRoot
    <2>2. ASSUME CreateStep(p) PROVE CreationIsAlone'
        BY <2>2 DEF CreateStep
    <2>3. ASSUME OpenWriter(p) PROVE CreationIsAlone'
        BY <2>3 DEF OpenWriter
    <2>4. ASSUME CloseWriter(p) PROVE CreationIsAlone'
        BY <2>4 DEF CloseWriter, Leave
    <2> QED
        BY <1>1, <2>1, <2>2, <2>3, <2>4 DEF Opens
<1>2. ASSUME NEW p \in Proc, Writes(p) PROVE CreationIsAlone'
    <2>1. ASSUME NEW c \in Content, Put(p, c) PROVE CreationIsAlone'
        BY <2>1 DEF Put
    <2>2. ASSUME NEW c \in Content, PutChangingSource(p, c) PROVE CreationIsAlone'
        BY <2>2 DEF PutChangingSource
    <2>3. ASSUME NEW c \in Content, ObserveContent(p, c) PROVE CreationIsAlone'
        BY <2>3 DEF ObserveContent
    <2>4. ASSUME NEW t \in RefTable, NEW c \in Content, RecordEvidence(p, t, c) PROVE CreationIsAlone'
        BY <2>4 DEF RecordEvidence
    <2>5. ASSUME RegisterContent(p) PROVE CreationIsAlone'
        BY <2>5 DEF RegisterContent
    <2>6. ASSUME IngestContent(p) PROVE CreationIsAlone'
        BY <2>6 DEF IngestContent
    <2>7. ASSUME CommitFails(p) PROVE CreationIsAlone'
        BY <2>7 DEF CommitFails
    <2> QED
        BY <1>2, <2>1, <2>2, <2>3, <2>4, <2>5, <2>6, <2>7 DEF Writes
<1>3. ASSUME NEW p \in Proc, Cleans(p) PROVE CreationIsAlone'
    <2>1. ASSUME CleanupOpen(p) PROVE CreationIsAlone'
        BY <2>1 DEF CleanupOpen
    <2>2. ASSUME CleanupPlan(p) PROVE CreationIsAlone'
        BY <2>2 DEF CleanupPlan
    <2>3. ASSUME CleanupRefuses(p) PROVE CreationIsAlone'
        BY <2>3 DEF CleanupRefuses, Leave
    <2>4. ASSUME SweepRow(p) PROVE CreationIsAlone'
        BY <2>4 DEF SweepRow
    <2>5. ASSUME SweepBlob(p) PROVE CreationIsAlone'
        BY <2>5 DEF SweepBlob
    <2>6. ASSUME CleanupFails(p) PROVE CreationIsAlone'
        BY <2>6 DEF CleanupFails, Leave
    <2>7. ASSUME CleanupDone(p) PROVE CreationIsAlone'
        BY <2>7 DEF CleanupDone, Leave
    <2> QED
        BY <1>3, <2>1, <2>2, <2>3, <2>4, <2>5, <2>6, <2>7 DEF Cleans
<1>4. ASSUME NEW p \in Proc, Audits(p) PROVE CreationIsAlone'
    <2>1. ASSUME AuditOpen(p) PROVE CreationIsAlone'
        BY <2>1 DEF AuditOpen
    <2>2. ASSUME AuditContent(p) PROVE CreationIsAlone'
        BY <2>2 DEF AuditContent
    <2>3. ASSUME AuditDone(p) PROVE CreationIsAlone'
        BY <2>3 DEF AuditDone, Leave
    <2> QED
        BY <1>4, <2>1, <2>2, <2>3 DEF Audits
<1>5. ASSUME NEW p \in Proc, Crash(p) PROVE CreationIsAlone'
    BY <1>5 DEF Crash, Leave
<1>6. ASSUME NEW c \in Content, Damage(c) PROVE CreationIsAlone'
    BY <1>6 DEF Damage
<1>7. ASSUME NEW c \in Content, Age(c) PROVE CreationIsAlone'
    BY <1>7 DEF Age
<1>8. ASSUME AgeDatabase PROVE CreationIsAlone'
    BY <1>8 DEF AgeDatabase
<1>9. CASE UNCHANGED vars
    BY <1>9 DEF vars
<1> QED
    BY <1>1, <1>2, <1>3, <1>4, <1>5, <1>6, <1>7, <1>8, <1>9 DEF Next

\* Rows are added for staged bytes and removed before their file.
LEMMA BytesStep == IInv /\ [Next]_vars => BytesBeforeMetadata'
<1> SUFFICES ASSUME IInv, [Next]_vars PROVE BytesBeforeMetadata'
    OBVIOUS
<1> USE NoProcAssumption, NoContentAssumption, RefTableAssumption DEF IInv, TypeOK,
    OwnersHoldLease, BytesBeforeMetadata, StagedHasBytes, SweepTargets, Roots,
    disk, local
<1>1. ASSUME NEW p \in Proc, Opens(p) PROVE BytesBeforeMetadata'
    <2>1. ASSUME CreateRoot(p) PROVE BytesBeforeMetadata'
        BY <2>1 DEF CreateRoot
    <2>2. ASSUME CreateStep(p) PROVE BytesBeforeMetadata'
        BY <2>2 DEF CreateStep
    <2>3. ASSUME OpenWriter(p) PROVE BytesBeforeMetadata'
        BY <2>3 DEF OpenWriter
    <2>4. ASSUME CloseWriter(p) PROVE BytesBeforeMetadata'
        BY <2>4 DEF CloseWriter, Leave
    <2> QED
        BY <1>1, <2>1, <2>2, <2>3, <2>4 DEF Opens
<1>2. ASSUME NEW p \in Proc, Writes(p) PROVE BytesBeforeMetadata'
    <2>1. ASSUME NEW c \in Content, Put(p, c) PROVE BytesBeforeMetadata'
        BY <2>1 DEF Put
    <2>2. ASSUME NEW c \in Content, PutChangingSource(p, c) PROVE BytesBeforeMetadata'
        BY <2>2 DEF PutChangingSource
    <2>3. ASSUME NEW c \in Content, ObserveContent(p, c) PROVE BytesBeforeMetadata'
        BY <2>3 DEF ObserveContent
    <2>4. ASSUME NEW t \in RefTable, NEW c \in Content, RecordEvidence(p, t, c) PROVE BytesBeforeMetadata'
        BY <2>4 DEF RecordEvidence
    <2>5. ASSUME RegisterContent(p) PROVE BytesBeforeMetadata'
        BY <2>5 DEF RegisterContent
    <2>6. ASSUME IngestContent(p) PROVE BytesBeforeMetadata'
        BY <2>6 DEF IngestContent
    <2>7. ASSUME CommitFails(p) PROVE BytesBeforeMetadata'
        BY <2>7 DEF CommitFails
    <2> QED
        BY <1>2, <2>1, <2>2, <2>3, <2>4, <2>5, <2>6, <2>7 DEF Writes
<1>3. ASSUME NEW p \in Proc, Cleans(p) PROVE BytesBeforeMetadata'
    <2>1. ASSUME CleanupOpen(p) PROVE BytesBeforeMetadata'
        BY <2>1 DEF CleanupOpen
    <2>2. ASSUME CleanupPlan(p) PROVE BytesBeforeMetadata'
        BY <2>2 DEF CleanupPlan
    <2>3. ASSUME CleanupRefuses(p) PROVE BytesBeforeMetadata'
        BY <2>3 DEF CleanupRefuses, Leave
    <2>4. ASSUME SweepRow(p) PROVE BytesBeforeMetadata'
        BY <2>4 DEF SweepRow
    <2>5. ASSUME SweepBlob(p) PROVE BytesBeforeMetadata'
        BY <2>5 DEF SweepBlob
    <2>6. ASSUME CleanupFails(p) PROVE BytesBeforeMetadata'
        BY <2>6 DEF CleanupFails, Leave
    <2>7. ASSUME CleanupDone(p) PROVE BytesBeforeMetadata'
        BY <2>7 DEF CleanupDone, Leave
    <2> QED
        BY <1>3, <2>1, <2>2, <2>3, <2>4, <2>5, <2>6, <2>7 DEF Cleans
<1>4. ASSUME NEW p \in Proc, Audits(p) PROVE BytesBeforeMetadata'
    <2>1. ASSUME AuditOpen(p) PROVE BytesBeforeMetadata'
        BY <2>1 DEF AuditOpen
    <2>2. ASSUME AuditContent(p) PROVE BytesBeforeMetadata'
        BY <2>2 DEF AuditContent
    <2>3. ASSUME AuditDone(p) PROVE BytesBeforeMetadata'
        BY <2>3 DEF AuditDone, Leave
    <2> QED
        BY <1>4, <2>1, <2>2, <2>3 DEF Audits
<1>5. ASSUME NEW p \in Proc, Crash(p) PROVE BytesBeforeMetadata'
    BY <1>5 DEF Crash, Leave
<1>6. ASSUME NEW c \in Content, Damage(c) PROVE BytesBeforeMetadata'
    BY <1>6 DEF Damage
<1>7. ASSUME NEW c \in Content, Age(c) PROVE BytesBeforeMetadata'
    BY <1>7 DEF Age
<1>8. ASSUME AgeDatabase PROVE BytesBeforeMetadata'
    BY <1>8 DEF AgeDatabase
<1>9. CASE UNCHANGED vars
    BY <1>9 DEF vars
<1> QED
    BY <1>1, <1>2, <1>3, <1>4, <1>5, <1>6, <1>7, <1>8, <1>9 DEF Next

\* While a content is staged, only the lease holder could remove its file.
LEMMA StagedStep == IInv /\ [Next]_vars => StagedHasBytes'
<1> SUFFICES ASSUME IInv, [Next]_vars PROVE StagedHasBytes'
    OBVIOUS
<1> USE NoProcAssumption, NoContentAssumption, RefTableAssumption DEF IInv, TypeOK,
    OwnersHoldLease, StagedHasBytes, disk, local
<1>1. ASSUME NEW p \in Proc, Opens(p) PROVE StagedHasBytes'
    <2>1. ASSUME CreateRoot(p) PROVE StagedHasBytes'
        BY <2>1 DEF CreateRoot
    <2>2. ASSUME CreateStep(p) PROVE StagedHasBytes'
        BY <2>2 DEF CreateStep
    <2>3. ASSUME OpenWriter(p) PROVE StagedHasBytes'
        BY <2>3 DEF OpenWriter
    <2>4. ASSUME CloseWriter(p) PROVE StagedHasBytes'
        BY <2>4 DEF CloseWriter, Leave
    <2> QED
        BY <1>1, <2>1, <2>2, <2>3, <2>4 DEF Opens
<1>2. ASSUME NEW p \in Proc, Writes(p) PROVE StagedHasBytes'
    <2>1. ASSUME NEW c \in Content, Put(p, c) PROVE StagedHasBytes'
        BY <2>1 DEF Put
    <2>2. ASSUME NEW c \in Content, PutChangingSource(p, c) PROVE StagedHasBytes'
        BY <2>2 DEF PutChangingSource
    <2>3. ASSUME NEW c \in Content, ObserveContent(p, c) PROVE StagedHasBytes'
        BY <2>3 DEF ObserveContent
    <2>4. ASSUME NEW t \in RefTable, NEW c \in Content, RecordEvidence(p, t, c) PROVE StagedHasBytes'
        BY <2>4 DEF RecordEvidence
    <2>5. ASSUME RegisterContent(p) PROVE StagedHasBytes'
        BY <2>5 DEF RegisterContent
    <2>6. ASSUME IngestContent(p) PROVE StagedHasBytes'
        BY <2>6 DEF IngestContent
    <2>7. ASSUME CommitFails(p) PROVE StagedHasBytes'
        BY <2>7 DEF CommitFails
    <2> QED
        BY <1>2, <2>1, <2>2, <2>3, <2>4, <2>5, <2>6, <2>7 DEF Writes
<1>3. ASSUME NEW p \in Proc, Cleans(p) PROVE StagedHasBytes'
    <2>1. ASSUME CleanupOpen(p) PROVE StagedHasBytes'
        BY <2>1 DEF CleanupOpen
    <2>2. ASSUME CleanupPlan(p) PROVE StagedHasBytes'
        BY <2>2 DEF CleanupPlan
    <2>3. ASSUME CleanupRefuses(p) PROVE StagedHasBytes'
        BY <2>3 DEF CleanupRefuses, Leave
    <2>4. ASSUME SweepRow(p) PROVE StagedHasBytes'
        BY <2>4 DEF SweepRow
    <2>5. ASSUME SweepBlob(p) PROVE StagedHasBytes'
        BY <2>5 DEF SweepBlob
    <2>6. ASSUME CleanupFails(p) PROVE StagedHasBytes'
        BY <2>6 DEF CleanupFails, Leave
    <2>7. ASSUME CleanupDone(p) PROVE StagedHasBytes'
        BY <2>7 DEF CleanupDone, Leave
    <2> QED
        BY <1>3, <2>1, <2>2, <2>3, <2>4, <2>5, <2>6, <2>7 DEF Cleans
<1>4. ASSUME NEW p \in Proc, Audits(p) PROVE StagedHasBytes'
    <2>1. ASSUME AuditOpen(p) PROVE StagedHasBytes'
        BY <2>1 DEF AuditOpen
    <2>2. ASSUME AuditContent(p) PROVE StagedHasBytes'
        BY <2>2 DEF AuditContent
    <2>3. ASSUME AuditDone(p) PROVE StagedHasBytes'
        BY <2>3 DEF AuditDone, Leave
    <2> QED
        BY <1>4, <2>1, <2>2, <2>3 DEF Audits
<1>5. ASSUME NEW p \in Proc, Crash(p) PROVE StagedHasBytes'
    BY <1>5 DEF Crash, Leave
<1>6. ASSUME NEW c \in Content, Damage(c) PROVE StagedHasBytes'
    BY <1>6 DEF Damage
<1>7. ASSUME NEW c \in Content, Age(c) PROVE StagedHasBytes'
    BY <1>7 DEF Age
<1>8. ASSUME AgeDatabase PROVE StagedHasBytes'
    BY <1>8 DEF AgeDatabase
<1>9. CASE UNCHANGED vars
    BY <1>9 DEF vars
<1> QED
    BY <1>1, <1>2, <1>3, <1>4, <1>5, <1>6, <1>7, <1>8, <1>9 DEF Next

\* While a cleanup runs, only a lease holder could add a reference.
LEMMA SweepStep == IInv /\ [Next]_vars => SweepTargets'
<1> SUFFICES ASSUME IInv, [Next]_vars PROVE SweepTargets'
    OBVIOUS
<1> USE NoProcAssumption, NoContentAssumption, RefTableAssumption DEF IInv, TypeOK,
    OwnersHoldLease, SweepTargets, Roots, disk, local
<1>1. ASSUME NEW p \in Proc, Opens(p) PROVE SweepTargets'
    <2>1. ASSUME CreateRoot(p) PROVE SweepTargets'
        BY <2>1 DEF CreateRoot
    <2>2. ASSUME CreateStep(p) PROVE SweepTargets'
        BY <2>2 DEF CreateStep
    <2>3. ASSUME OpenWriter(p) PROVE SweepTargets'
        BY <2>3 DEF OpenWriter
    <2>4. ASSUME CloseWriter(p) PROVE SweepTargets'
        BY <2>4 DEF CloseWriter, Leave
    <2> QED
        BY <1>1, <2>1, <2>2, <2>3, <2>4 DEF Opens
<1>2. ASSUME NEW p \in Proc, Writes(p) PROVE SweepTargets'
    <2>1. ASSUME NEW c \in Content, Put(p, c) PROVE SweepTargets'
        BY <2>1 DEF Put
    <2>2. ASSUME NEW c \in Content, PutChangingSource(p, c) PROVE SweepTargets'
        BY <2>2 DEF PutChangingSource
    <2>3. ASSUME NEW c \in Content, ObserveContent(p, c) PROVE SweepTargets'
        BY <2>3 DEF ObserveContent
    <2>4. ASSUME NEW t \in RefTable, NEW c \in Content, RecordEvidence(p, t, c) PROVE SweepTargets'
        BY <2>4 DEF RecordEvidence
    <2>5. ASSUME RegisterContent(p) PROVE SweepTargets'
        BY <2>5 DEF RegisterContent
    <2>6. ASSUME IngestContent(p) PROVE SweepTargets'
        BY <2>6 DEF IngestContent
    <2>7. ASSUME CommitFails(p) PROVE SweepTargets'
        BY <2>7 DEF CommitFails
    <2> QED
        BY <1>2, <2>1, <2>2, <2>3, <2>4, <2>5, <2>6, <2>7 DEF Writes
<1>3. ASSUME NEW p \in Proc, Cleans(p) PROVE SweepTargets'
    <2>1. ASSUME CleanupOpen(p) PROVE SweepTargets'
        BY <2>1 DEF CleanupOpen
    <2>2. ASSUME CleanupPlan(p) PROVE SweepTargets'
        BY <2>2 DEF CleanupPlan, Candidates
    <2>3. ASSUME CleanupRefuses(p) PROVE SweepTargets'
        BY <2>3 DEF CleanupRefuses, Leave
    <2>4. ASSUME SweepRow(p) PROVE SweepTargets'
        <3>1. PICK task \in todo[p] :
                 /\ rows' = rows \ {task[2]}
                 /\ task[2] \in rows => task[2] \notin Roots
                 /\ todo' = [todo EXCEPT ![p] = @ \ {task}]
                 /\ IF task[1] = "blob"
                    THEN /\ pc' = [pc EXCEPT ![p] = "unlink"]
                         /\ item' = [item EXCEPT ![p] = task[2]]
                    ELSE UNCHANGED <<pc, item>>
            BY <2>4 DEF SweepRow
        <3>2. refs' = refs /\ pc[p] = "sweep" /\ lease = p
            BY <2>4 DEF SweepRow
        <3>3. task[2] \in Content /\ task[2] \notin Roots
            <4>1. todo[p] \subseteq Task /\ task \in todo[p]
                BY <3>1
            <4>2. task \in Task
                BY <4>1
            <4>3. task[2] \in Content
                BY <4>2 DEF Task
            <4> QED
                BY <3>2, <4>1, <4>3
        <3>4. ASSUME NEW q \in Proc, q # p PROVE pc'[q] \notin {"sweep", "unlink"}
            BY <3>1, <3>2, <3>4
        <3>5. \A t \in todo'[p] : t[2] \notin Roots'
            BY <3>1, <3>2
        <3>6. pc'[p] = "unlink" => item'[p] \in Content /\ item'[p] \notin Roots' \cup rows'
            BY <3>1, <3>2, <3>3
        <3> QED
            BY <3>4, <3>5, <3>6
    <2>5. ASSUME SweepBlob(p) PROVE SweepTargets'
        BY <2>5 DEF SweepBlob
    <2>6. ASSUME CleanupFails(p) PROVE SweepTargets'
        BY <2>6 DEF CleanupFails, Leave
    <2>7. ASSUME CleanupDone(p) PROVE SweepTargets'
        BY <2>7 DEF CleanupDone, Leave
    <2> QED
        BY <1>3, <2>1, <2>2, <2>3, <2>4, <2>5, <2>6, <2>7 DEF Cleans
<1>4. ASSUME NEW p \in Proc, Audits(p) PROVE SweepTargets'
    <2>1. ASSUME AuditOpen(p) PROVE SweepTargets'
        BY <2>1 DEF AuditOpen
    <2>2. ASSUME AuditContent(p) PROVE SweepTargets'
        <3>1. refs' = refs /\ rows' = rows /\ pc' = pc /\ item' = item
            BY <2>2 DEF AuditContent
        <3>2. ASSUME NEW q \in Proc PROVE todo'[q] \subseteq todo[q]
            BY <2>2 DEF AuditContent
        <3> QED
            BY <3>1, <3>2
    <2>3. ASSUME AuditDone(p) PROVE SweepTargets'
        BY <2>3 DEF AuditDone, Leave
    <2> QED
        BY <1>4, <2>1, <2>2, <2>3 DEF Audits
<1>5. ASSUME NEW p \in Proc, Crash(p) PROVE SweepTargets'
    BY <1>5 DEF Crash, Leave
<1>6. ASSUME NEW c \in Content, Damage(c) PROVE SweepTargets'
    BY <1>6 DEF Damage
<1>7. ASSUME NEW c \in Content, Age(c) PROVE SweepTargets'
    BY <1>7 DEF Age
<1>8. ASSUME AgeDatabase PROVE SweepTargets'
    BY <1>8 DEF AgeDatabase
<1>9. CASE UNCHANGED vars
    BY <1>9 DEF vars
<1> QED
    BY <1>1, <1>2, <1>3, <1>4, <1>5, <1>6, <1>7, <1>8, <1>9 DEF Next

\* While an audit reads, no commit removes a row.
LEMMA VisitsStep == IInv /\ [Next]_vars => AuditVisitsRows'
<1> SUFFICES ASSUME IInv, [Next]_vars PROVE AuditVisitsRows'
    OBVIOUS
<1> USE NoProcAssumption, NoContentAssumption, RefTableAssumption DEF IInv, TypeOK,
    AuditVisitsRows, CanCommit, disk, local
<1>1. ASSUME NEW p \in Proc, Opens(p) PROVE AuditVisitsRows'
    <2>1. ASSUME CreateRoot(p) PROVE AuditVisitsRows'
        BY <2>1 DEF CreateRoot
    <2>2. ASSUME CreateStep(p) PROVE AuditVisitsRows'
        BY <2>2 DEF CreateStep
    <2>3. ASSUME OpenWriter(p) PROVE AuditVisitsRows'
        BY <2>3 DEF OpenWriter
    <2>4. ASSUME CloseWriter(p) PROVE AuditVisitsRows'
        BY <2>4 DEF CloseWriter, Leave
    <2> QED
        BY <1>1, <2>1, <2>2, <2>3, <2>4 DEF Opens
<1>2. ASSUME NEW p \in Proc, Writes(p) PROVE AuditVisitsRows'
    <2>1. ASSUME NEW c \in Content, Put(p, c) PROVE AuditVisitsRows'
        BY <2>1 DEF Put
    <2>2. ASSUME NEW c \in Content, PutChangingSource(p, c) PROVE AuditVisitsRows'
        BY <2>2 DEF PutChangingSource
    <2>3. ASSUME NEW c \in Content, ObserveContent(p, c) PROVE AuditVisitsRows'
        BY <2>3 DEF ObserveContent
    <2>4. ASSUME NEW t \in RefTable, NEW c \in Content, RecordEvidence(p, t, c) PROVE AuditVisitsRows'
        BY <2>4 DEF RecordEvidence
    <2>5. ASSUME RegisterContent(p) PROVE AuditVisitsRows'
        BY <2>5 DEF RegisterContent
    <2>6. ASSUME IngestContent(p) PROVE AuditVisitsRows'
        BY <2>6 DEF IngestContent
    <2>7. ASSUME CommitFails(p) PROVE AuditVisitsRows'
        BY <2>7 DEF CommitFails
    <2> QED
        BY <1>2, <2>1, <2>2, <2>3, <2>4, <2>5, <2>6, <2>7 DEF Writes
<1>3. ASSUME NEW p \in Proc, Cleans(p) PROVE AuditVisitsRows'
    <2>1. ASSUME CleanupOpen(p) PROVE AuditVisitsRows'
        BY <2>1 DEF CleanupOpen
    <2>2. ASSUME CleanupPlan(p) PROVE AuditVisitsRows'
        BY <2>2 DEF CleanupPlan
    <2>3. ASSUME CleanupRefuses(p) PROVE AuditVisitsRows'
        BY <2>3 DEF CleanupRefuses, Leave
    <2>4. ASSUME SweepRow(p) PROVE AuditVisitsRows'
        BY <2>4 DEF SweepRow
    <2>5. ASSUME SweepBlob(p) PROVE AuditVisitsRows'
        BY <2>5 DEF SweepBlob
    <2>6. ASSUME CleanupFails(p) PROVE AuditVisitsRows'
        BY <2>6 DEF CleanupFails, Leave
    <2>7. ASSUME CleanupDone(p) PROVE AuditVisitsRows'
        BY <2>7 DEF CleanupDone, Leave
    <2> QED
        BY <1>3, <2>1, <2>2, <2>3, <2>4, <2>5, <2>6, <2>7 DEF Cleans
<1>4. ASSUME NEW p \in Proc, Audits(p) PROVE AuditVisitsRows'
    <2>1. ASSUME AuditOpen(p) PROVE AuditVisitsRows'
        BY <2>1 DEF AuditOpen
    <2>2. ASSUME AuditContent(p) PROVE AuditVisitsRows'
        BY <2>2 DEF AuditContent
    <2>3. ASSUME AuditDone(p) PROVE AuditVisitsRows'
        BY <2>3 DEF AuditDone, Leave
    <2> QED
        BY <1>4, <2>1, <2>2, <2>3 DEF Audits
<1>5. ASSUME NEW p \in Proc, Crash(p) PROVE AuditVisitsRows'
    BY <1>5 DEF Crash, Leave
<1>6. ASSUME NEW c \in Content, Damage(c) PROVE AuditVisitsRows'
    BY <1>6 DEF Damage
<1>7. ASSUME NEW c \in Content, Age(c) PROVE AuditVisitsRows'
    BY <1>7 DEF Age
<1>8. ASSUME AgeDatabase PROVE AuditVisitsRows'
    BY <1>8 DEF AgeDatabase
<1>9. CASE UNCHANGED vars
    BY <1>9 DEF vars
<1> QED
    BY <1>1, <1>2, <1>3, <1>4, <1>5, <1>6, <1>7, <1>8, <1>9 DEF Next

\* An audited row is still there, so its bytes are there unless the disk lost them.
LEMMA AccusedStep == IInv /\ [Next]_vars => AuditAccusesOnlyTheDisk'
<1> SUFFICES ASSUME IInv, [Next]_vars PROVE AuditAccusesOnlyTheDisk'
    OBVIOUS
<1> USE NoProcAssumption, NoContentAssumption, RefTableAssumption DEF IInv, TypeOK,
    BytesBeforeMetadata, AuditVisitsRows, AuditAccusesOnlyTheDisk, disk, local
<1>1. ASSUME NEW p \in Proc, Opens(p) PROVE AuditAccusesOnlyTheDisk'
    <2>1. ASSUME CreateRoot(p) PROVE AuditAccusesOnlyTheDisk'
        BY <2>1 DEF CreateRoot
    <2>2. ASSUME CreateStep(p) PROVE AuditAccusesOnlyTheDisk'
        BY <2>2 DEF CreateStep
    <2>3. ASSUME OpenWriter(p) PROVE AuditAccusesOnlyTheDisk'
        BY <2>3 DEF OpenWriter
    <2>4. ASSUME CloseWriter(p) PROVE AuditAccusesOnlyTheDisk'
        BY <2>4 DEF CloseWriter, Leave
    <2> QED
        BY <1>1, <2>1, <2>2, <2>3, <2>4 DEF Opens
<1>2. ASSUME NEW p \in Proc, Writes(p) PROVE AuditAccusesOnlyTheDisk'
    <2>1. ASSUME NEW c \in Content, Put(p, c) PROVE AuditAccusesOnlyTheDisk'
        BY <2>1 DEF Put
    <2>2. ASSUME NEW c \in Content, PutChangingSource(p, c) PROVE AuditAccusesOnlyTheDisk'
        BY <2>2 DEF PutChangingSource
    <2>3. ASSUME NEW c \in Content, ObserveContent(p, c) PROVE AuditAccusesOnlyTheDisk'
        BY <2>3 DEF ObserveContent
    <2>4. ASSUME NEW t \in RefTable, NEW c \in Content, RecordEvidence(p, t, c) PROVE AuditAccusesOnlyTheDisk'
        BY <2>4 DEF RecordEvidence
    <2>5. ASSUME RegisterContent(p) PROVE AuditAccusesOnlyTheDisk'
        BY <2>5 DEF RegisterContent
    <2>6. ASSUME IngestContent(p) PROVE AuditAccusesOnlyTheDisk'
        BY <2>6 DEF IngestContent
    <2>7. ASSUME CommitFails(p) PROVE AuditAccusesOnlyTheDisk'
        BY <2>7 DEF CommitFails
    <2> QED
        BY <1>2, <2>1, <2>2, <2>3, <2>4, <2>5, <2>6, <2>7 DEF Writes
<1>3. ASSUME NEW p \in Proc, Cleans(p) PROVE AuditAccusesOnlyTheDisk'
    <2>1. ASSUME CleanupOpen(p) PROVE AuditAccusesOnlyTheDisk'
        BY <2>1 DEF CleanupOpen
    <2>2. ASSUME CleanupPlan(p) PROVE AuditAccusesOnlyTheDisk'
        BY <2>2 DEF CleanupPlan
    <2>3. ASSUME CleanupRefuses(p) PROVE AuditAccusesOnlyTheDisk'
        BY <2>3 DEF CleanupRefuses, Leave
    <2>4. ASSUME SweepRow(p) PROVE AuditAccusesOnlyTheDisk'
        BY <2>4 DEF SweepRow
    <2>5. ASSUME SweepBlob(p) PROVE AuditAccusesOnlyTheDisk'
        BY <2>5 DEF SweepBlob
    <2>6. ASSUME CleanupFails(p) PROVE AuditAccusesOnlyTheDisk'
        BY <2>6 DEF CleanupFails, Leave
    <2>7. ASSUME CleanupDone(p) PROVE AuditAccusesOnlyTheDisk'
        BY <2>7 DEF CleanupDone, Leave
    <2> QED
        BY <1>3, <2>1, <2>2, <2>3, <2>4, <2>5, <2>6, <2>7 DEF Cleans
<1>4. ASSUME NEW p \in Proc, Audits(p) PROVE AuditAccusesOnlyTheDisk'
    <2>1. ASSUME AuditOpen(p) PROVE AuditAccusesOnlyTheDisk'
        BY <2>1 DEF AuditOpen
    <2>2. ASSUME AuditContent(p) PROVE AuditAccusesOnlyTheDisk'
        BY <2>2 DEF AuditContent
    <2>3. ASSUME AuditDone(p) PROVE AuditAccusesOnlyTheDisk'
        BY <2>3 DEF AuditDone, Leave
    <2> QED
        BY <1>4, <2>1, <2>2, <2>3 DEF Audits
<1>5. ASSUME NEW p \in Proc, Crash(p) PROVE AuditAccusesOnlyTheDisk'
    BY <1>5 DEF Crash, Leave
<1>6. ASSUME NEW c \in Content, Damage(c) PROVE AuditAccusesOnlyTheDisk'
    BY <1>6 DEF Damage
<1>7. ASSUME NEW c \in Content, Age(c) PROVE AuditAccusesOnlyTheDisk'
    BY <1>7 DEF Age
<1>8. ASSUME AgeDatabase PROVE AuditAccusesOnlyTheDisk'
    BY <1>8 DEF AgeDatabase
<1>9. CASE UNCHANGED vars
    BY <1>9 DEF vars
<1> QED
    BY <1>1, <1>2, <1>3, <1>4, <1>5, <1>6, <1>7, <1>8, <1>9 DEF Next

-----------------------------------------------------------------------------
\* The empty repository satisfies the invariant.
LEMMA InitHolds == Init => IInv
BY NoProcAssumption, NoContentAssumption
   DEF Init, IInv, TypeOK, Layouts, BlobStates, Phases, Task, OwnersHoldLease,
       CreationIsAlone, BytesBeforeMetadata, StagedHasBytes, SweepTargets,
       AuditVisitsRows, AuditAccusesOnlyTheDisk, Roots

\* The conjuncts of the invariant hold of every reachable state together.
THEOREM IInvHolds == Spec => []IInv
<1>1. Init => IInv
    BY InitHolds
<1>2. IInv /\ [Next]_vars => IInv'
    <2> SUFFICES ASSUME IInv, [Next]_vars PROVE IInv'
        OBVIOUS
    <2>1. TypeOK /\ StagedHasBytes
        BY DEF IInv
    <2>2. TypeOK'
        BY <2>1, TypeStep
    <2> QED
        BY <2>2, OwnersStep, CreationStep, BytesStep, StagedStep, SweepStep,
           VisitsStep, AccusedStep DEF IInv
<1> QED
    BY <1>1, <1>2, PTL DEF Spec

\* Type correctness of the durable state and of every process.
THEOREM TypeCorrect == Spec => []TypeOK
<1>1. IInv => TypeOK
    BY DEF IInv
<1> QED
    BY <1>1, IInvHolds, PTL

\* Any number of openers, writers and cleaners: at most one of them owns the
\* repository, and it is the one whose lock the kernel granted.
THEOREM LeaseIsExclusive == Spec => []OneOwner
<1>1. IInv => OneOwner
    BY DEF IInv, OwnersHoldLease, OneOwner, Holding
<1> QED
    BY <1>1, IInvHolds, PTL

\* Committed metadata never outruns the bytes, and no cleanup removes bytes a
\* row names: for any number of contents, tables and processes.
THEOREM CommittedContentIsStored == Spec => []BytesBeforeMetadata
<1>1. IInv => BytesBeforeMetadata
    BY DEF IInv
<1> QED
    BY <1>1, IInvHolds, PTL

\* What a cleanup decided to delete stays unreferenced until it is deleted.
THEOREM CleanupDecidesOnce == Spec => []PlanStaysValid
<1>1. IInv => PlanStaysValid
    BY DEF IInv, SweepTargets, PlanStaysValid
<1> QED
    BY <1>1, IInvHolds, PTL

\* A read-only audit concurrent with a writer or a cleaner raises no false alarm.
THEOREM AuditIsSound == Spec => []AuditAccusesOnlyTheDisk
<1>1. IInv => AuditAccusesOnlyTheDisk
    BY DEF IInv
<1> QED
    BY <1>1, IInvHolds, PTL

-----------------------------------------------------------------------------
(* The repository implements its blob store's contract.                     *)

Intact == {c \in Content : blob[c] = "intact"}
Kept   == <<Intact, rows, Roots, damaged>>

\* What leaves rows, references and files alone is a stutter of the contract.
LEMMA QuietStep == UNCHANGED <<rows, refs, blob, damaged>> => UNCHANGED Kept
BY DEF Kept, Intact, Roots

\* A file that turns intact is a put, one that was not and will not be is nothing.
LEMMA FileStep ==
    ASSUME TypeOK, NEW c \in Content, NEW s \in BlobStates, UNCHANGED <<rows, refs, damaged>>,
           blob' = [blob EXCEPT ![c] = s],
           s = "intact" \/ blob[c] # "intact" \/ c \notin rows
    PROVE  [Contract!Next]_Kept
<1>1. rows' = rows /\ Roots' = Roots /\ damaged' = damaged
    BY DEF Roots
<1>2. CASE s = "intact"
    <2>1. Intact' = Intact \cup {c}
        BY <1>2 DEF Intact, TypeOK
    <2> QED
        BY <1>1, <2>1 DEF Contract!Next, Contract!Store, Kept, Intact
<1>3. CASE s # "intact" /\ blob[c] # "intact"
    <2>1. Intact' = Intact
        BY <1>3 DEF Intact, TypeOK
    <2> QED
        BY <1>1, <2>1 DEF Kept
<1>4. CASE s # "intact" /\ blob[c] = "intact" /\ c \notin rows
    <2>1. Intact' = Intact \ {c} /\ c \in Intact \ rows
        BY <1>4 DEF Intact, TypeOK
    <2> QED
        BY <1>1, <2>1 DEF Contract!Next, Contract!Delete, Kept, Intact
<1> QED
    BY <1>2, <1>3, <1>4

\* A transaction that adds a row or a reference to content whose bytes are there.
LEMMA RecordStep ==
    ASSUME TypeOK, NEW c \in Content, UNCHANGED <<blob, damaged>>,
           blob[c] = "intact" \/ c \in damaged, rows' = rows \cup {c},
           refs' = refs \/ \E t \in RefTable : refs' = refs \cup {<<t, c>>}
    PROVE  [Contract!Next]_Kept
<1>1. Intact' = Intact /\ damaged' = damaged
    BY DEF Intact
<1>2. Roots' \in {Roots, Roots \cup {c}}
    <2>1. CASE refs' = refs
        BY <2>1 DEF Roots
    <2>2. ASSUME NEW t \in RefTable, refs' = refs \cup {<<t, c>>} PROVE Roots' = Roots \cup {c}
        BY <2>2 DEF Roots
    <2> QED
        BY <2>1, <2>2
<1>3. c \in Intact \cup damaged
    BY DEF Intact
<1> QED
    BY <1>1, <1>2, <1>3 DEF Contract!Next, Contract!Record, Kept, Intact

\* Every step is one of the contract's, or nothing the contract sees.
LEMMA ContractStep == IInv /\ [Next]_vars => [Contract!Next]_Kept
<1> SUFFICES ASSUME IInv, [Next]_vars PROVE [Contract!Next]_Kept
    OBVIOUS
<1>t. TypeOK
    BY DEF IInv
<1>b. \A c \in rows : c \in Content /\ (blob[c] = "intact" \/ c \in damaged)
    BY DEF IInv, TypeOK, BytesBeforeMetadata
<1>1. ASSUME NEW p \in Proc, Opens(p) PROVE UNCHANGED <<rows, refs, blob, damaged>>
    BY <1>1 DEF Opens, CreateRoot, CreateStep, OpenWriter, CloseWriter, disk
<1>2. ASSUME NEW p \in Proc, Writes(p) PROVE [Contract!Next]_Kept
    <2>1. ASSUME NEW c \in Content, Put(p, c) PROVE [Contract!Next]_Kept
        BY <2>1, <1>t, FileStep DEF Put, BlobStates
    <2>2. ASSUME NEW c \in Content, PutChangingSource(p, c) PROVE [Contract!Next]_Kept
        BY <2>2, <1>t, FileStep DEF PutChangingSource, BlobStates
    <2>3. ASSUME NEW c \in Content, ObserveContent(p, c) PROVE [Contract!Next]_Kept
        BY <2>3, <1>t, <1>b, RecordStep, RefTableAssumption DEF ObserveContent
    <2>4. ASSUME NEW t \in RefTable, NEW c \in Content, RecordEvidence(p, t, c)
          PROVE  [Contract!Next]_Kept
        BY <2>4, <1>t, <1>b, RecordStep DEF RecordEvidence
    <2>5. ASSUME pc[p] = "staged"
          PROVE  item[p] \in Content /\ (blob[item[p]] = "intact" \/ item[p] \in damaged)
        BY <2>5 DEF IInv, StagedHasBytes
    <2>6. ASSUME RegisterContent(p) PROVE [Contract!Next]_Kept
        BY <2>6, <2>5, <1>t, RecordStep DEF RegisterContent
    <2>7. ASSUME IngestContent(p) PROVE [Contract!Next]_Kept
        BY <2>7, <2>5, <1>t, RecordStep, RefTableAssumption DEF IngestContent
    <2>8. ASSUME CommitFails(p) PROVE UNCHANGED <<rows, refs, blob, damaged>>
        BY <2>8 DEF CommitFails, disk
    <2> QED
        BY <1>2, <2>1, <2>2, <2>3, <2>4, <2>6, <2>7, <2>8, QuietStep DEF Writes
<1>3. ASSUME NEW p \in Proc, Cleans(p) PROVE [Contract!Next]_Kept
    <2>1. ASSUME SweepRow(p) PROVE [Contract!Next]_Kept
        <3>1. PICK c \in Content : rows' = rows \ {c} /\ (c \in rows => c \notin Roots)
            BY <2>1, <1>t DEF SweepRow, TypeOK, Task
        <3>2. Intact' = Intact /\ Roots' = Roots /\ damaged' = damaged
            BY <2>1 DEF SweepRow, Intact, Roots
        <3>3. CASE c \in rows
            BY <3>1, <3>2, <3>3 DEF Contract!Next, Contract!Forget, Kept, Intact
        <3>4. CASE c \notin rows
            BY <3>1, <3>2, <3>4 DEF Kept
        <3> QED
            BY <3>3, <3>4
    <2>2. ASSUME SweepBlob(p) PROVE [Contract!Next]_Kept
        <3>1. item[p] \in Content /\ item[p] \notin rows
            BY <2>2 DEF SweepBlob, IInv, SweepTargets
        <3> QED
            BY <2>2, <3>1, <1>t, FileStep DEF SweepBlob, BlobStates
    <2>3. ASSUME CleanupOpen(p) \/ CleanupPlan(p) \/ CleanupRefuses(p) \/ CleanupFails(p)
                     \/ CleanupDone(p)
          PROVE  UNCHANGED <<rows, refs, blob, damaged>>
        BY <2>3 DEF CleanupOpen, CleanupPlan, CleanupRefuses, CleanupFails, CleanupDone, disk
    <2> QED
        BY <1>3, <2>1, <2>2, <2>3, QuietStep DEF Cleans
<1>4. ASSUME NEW p \in Proc, Audits(p) PROVE UNCHANGED <<rows, refs, blob, damaged>>
    BY <1>4 DEF Audits, AuditOpen, AuditContent, AuditDone, disk
<1>5. ASSUME NEW p \in Proc, Crash(p) PROVE UNCHANGED <<rows, refs, blob, damaged>>
    BY <1>5 DEF Crash, disk
<1>6. ASSUME NEW c \in Content, Damage(c) PROVE [Contract!Next]_Kept
    <2>1. Intact' = Intact \ {c} /\ c \in Intact
        BY <1>6, <1>t DEF Damage, Intact, TypeOK
    <2>2. rows' = rows /\ Roots' = Roots /\ damaged' = damaged \cup {c}
        BY <1>6 DEF Damage, Roots
    <2> QED
        BY <2>1, <2>2 DEF Contract!Next, Contract!Lose, Kept, Intact
<1>7. ASSUME NEW c \in Content, Age(c) PROVE UNCHANGED <<rows, refs, blob, damaged>>
    BY <1>7 DEF Age
<1>8. ASSUME AgeDatabase PROVE UNCHANGED <<rows, refs, blob, damaged>>
    BY <1>8 DEF AgeDatabase
<1>9. ASSUME UNCHANGED vars PROVE UNCHANGED <<rows, refs, blob, damaged>>
    BY <1>9 DEF vars, disk
<1> QED
    BY <1>1, <1>2, <1>3, <1>4, <1>5, <1>6, <1>7, <1>8, <1>9, QuietStep DEF Next

\* The repository, with all its processes, crashes and audits, is a blob store
\* that keeps its contract: nothing committed ever refers to content that is not
\* there, and what cleanup deletes is neither known nor named.
THEOREM StoreKeepsContract == Spec => ContractIsKept
<1>1. Init => Contract!Init
    BY DEF Init, Contract!Init, Roots
<1>2. IInv /\ [Next]_vars => [Contract!Next]_Kept
    BY ContractStep
<1> QED
    BY <1>1, <1>2, IInvHolds, PTL DEF Spec, ContractIsKept, Contract!Spec, Kept, Intact

\* What the contract is worth to whoever relies on it and on nothing else of the
\* store: no reference dangles, and evidence is never taken back.
THEOREM ContractProtectsEvidence ==
    ContractIsKept => []Contract!NothingDangles /\ Contract!EvidenceIsKept
<1>1. Contract!Init => Contract!NothingDangles
    BY DEF Contract!Init, Contract!NothingDangles
<1>2. Contract!NothingDangles /\ [Contract!Next]_Kept => Contract!NothingDangles'
    BY DEF Contract!NothingDangles, Contract!Next, Contract!Store, Contract!Record,
           Contract!Forget, Contract!Delete, Contract!Lose, Kept, Intact
<1>3. Contract!NothingDangles /\ [Contract!Next]_Kept
        => [/\ Roots \subseteq Roots'
            /\ Roots \cap Intact \subseteq Intact' \cup damaged']_Kept
    BY DEF Contract!NothingDangles, Contract!Next, Contract!Store, Contract!Record,
           Contract!Forget, Contract!Delete, Contract!Lose, Kept, Intact
<1> QED
    BY <1>1, <1>2, <1>3, PTL
    DEF ContractIsKept, Contract!Spec, Contract!EvidenceIsKept, Kept, Intact

\* Evidence is permanent: no cleanup, failed transaction or crash takes back a
\* reference, and the bytes it names disappear by the disk's doing alone.
THEOREM EvidenceIsPermanent == Spec => []Contract!NothingDangles /\ Contract!EvidenceIsKept
BY StoreKeepsContract, ContractProtectsEvidence
=============================================================================

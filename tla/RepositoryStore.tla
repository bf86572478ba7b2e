--------------------------- MODULE RepositoryStore ---------------------------
(***************************************************************************)
(* The durable half of an efloud repository: the writer lease, the SQLite   *)
(* content rows with everything that references them, the content-addressed *)
(* blobs, and the processes that create, write, clean and audit it.         *)
(*                                                                          *)
(* A process is one holder of a Repository or RepositoryMaintenance object. *)
(* Every metadata transaction is one step (SQLite commits atomically), a    *)
(* blob write or unlink is another, and a crash can fall between any two.   *)
(***************************************************************************)
EXTENDS FiniteSets, Naturals

CONSTANTS
    Proc,        \* processes that open the repository
    Content,     \* content identities
    RefTable,    \* metadata tables that reference content
    NoProc,      \* nobody holds the lease
    NoContent,   \* no content in hand
    MaxDamage    \* bound: how many contents the disk may lose or corrupt

ASSUME NoProcAssumption == NoProc \notin Proc
ASSUME NoContentAssumption == NoContent \notin Content
ASSUME RefTableAssumption == "observations" \in RefTable
ASSUME MaxDamageAssumption == MaxDamage \in Nat

VARIABLES
    layout,      \* how far the root directory has been initialised
    lease,       \* holder of .writer.lock
    rows,        \* content_objects
    refs,        \* rows of other tables that name a content
    blob,        \* state of objects/sha256/xx/<digest>
    aged,        \* blobs whose mtime is at least one grace period old
    dbAged,      \* metadata.sqlite has not been written for a grace period
    damaged,     \* contents the disk has ever lost or corrupted (history)
    pc,          \* what each process is doing
    item,        \* the content it has in hand
    todo,        \* cleanup candidates or audit rows still to visit
    accused      \* contents the running audit reports missing or corrupt

disk  == <<layout, rows, refs, blob, aged, dbAged, damaged>>
local == <<item, todo, accused>>
vars  == <<disk, lease, pc, local>>

Layouts    == {"absent", "root", "tables", "versioned", "ready"}
BlobStates == {"absent", "intact", "corrupt"}
Phases     == {"idle", "creating", "writer", "staged", "planning", "sweep",
               "unlink", "audit"}
\* A cleanup candidate either has a file or is a row whose file is gone.
Task       == {"blob", "row"} \X Content

\* The phases in which a process owns the repository through its lease.
Holding(p) == pc[p] \in {"writer", "staged", "planning", "sweep", "unlink"}

\* Contents some metadata row names.  Dataset members and provenance edges
\* reach content only through observations, which are never deleted.
Roots == {c \in Content : \E t \in RefTable : <<t, c>> \in refs}

\* Mutant: the audit reads without keeping a transaction open.
CommitsAnyway == TRUE

\* An audit keeps a shared SQLite lock, so no other connection can commit a
\* change while it reads; the other side gets "database is locked".
CanCommit == \A q \in Proc : pc[q] # "audit"

-----------------------------------------------------------------------------
Init ==
    /\ layout = "absent"
    /\ lease = NoProc
    /\ rows = {}
    /\ refs = {}
    /\ blob = [c \in Content |-> "absent"]
    /\ aged = {}
    /\ dbAged = FALSE
    /\ damaged = {}
    /\ pc = [p \in Proc |-> "idle"]
    /\ item = [p \in Proc |-> NoContent]
    /\ todo = [p \in Proc |-> {}]
    /\ accused = [p \in Proc |-> {}]

\* p forgets what it was doing and gives up the lease if it has it.
Leave(p) ==
    /\ pc' = [pc EXCEPT ![p] = "idle"]
    /\ item' = [item EXCEPT ![p] = NoContent]
    /\ todo' = [todo EXCEPT ![p] = {}]
    /\ accused' = [accused EXCEPT ![p] = {}]
    /\ lease' = IF lease = p THEN NoProc ELSE lease

-----------------------------------------------------------------------------
(* Creating and opening.                                                    *)

\* Repository.create refuses an existing root, makes it and takes the lease.
CreateRoot(p) ==
    /\ pc[p] = "idle"
    /\ layout = "absent"
    /\ layout' = "root"
    /\ lease' = p
    /\ pc' = [pc EXCEPT ![p] = "creating"]
    /\ UNCHANGED <<rows, refs, blob, aged, dbAged, damaged, local>>

\* executescript commits the CREATE TABLEs before the version is stamped, and
\* the objects directory is made last.
CreateStep(p) ==
    /\ pc[p] = "creating"
    /\ \/ layout = "root" /\ layout' = "tables"
       \/ layout = "tables" /\ layout' = "versioned"
       \/ layout = "versioned" /\ layout' = "ready"
    /\ pc' = IF layout' = "ready" THEN [pc EXCEPT ![p] = "writer"] ELSE pc
    /\ UNCHANGED <<lease, rows, refs, blob, aged, dbAged, damaged, local>>

\* Mutant: an opener that does not ask for the lease.
OpenWithoutLease(p) ==
    /\ pc[p] = "idle" /\ layout = "ready"
    /\ lease' = p
    /\ pc' = [pc EXCEPT ![p] = "writer"]
    /\ UNCHANGED <<disk, local>>

\* Repository.open(mode="rw"): the root must already be a complete repository
\* and the non-blocking flock must succeed.
OpenWriter(p) ==
    /\ pc[p] = "idle"
    /\ layout = "ready"
    /\ lease = NoProc
    /\ lease' = p
    /\ pc' = [pc EXCEPT ![p] = "writer"]
    /\ UNCHANGED <<disk, local>>

CloseWriter(p) ==
    /\ pc[p] = "writer"
    /\ Leave(p)
    /\ UNCHANGED disk

-----------------------------------------------------------------------------
(* Writing: bytes first, then one metadata transaction.                     *)

\* Mutant: an existing file is trusted without being verified.
PutUnverified(p, c) ==
    /\ pc[p] = "writer"
    /\ blob' = IF blob[c] = "absent" THEN [blob EXCEPT ![c] = "intact"] ELSE blob
    /\ aged' = IF blob[c] = "absent" THEN aged \ {c} ELSE aged
    /\ pc' = [pc EXCEPT ![p] = "staged"]
    /\ item' = [item EXCEPT ![p] = c]
    /\ UNCHANGED <<layout, lease, rows, refs, dbAged, damaged, todo, accused>>

\* put_bytes / put_path: an existing file is kept, a missing one is written and
\* linked into place; either way it must then verify.  A corrupt file makes the
\* call raise, which changes nothing.
Put(p, c) ==
    /\ pc[p] = "writer"
    /\ blob[c] # "corrupt"
    /\ blob' = [blob EXCEPT ![c] = "intact"]
    /\ aged' = IF blob[c] = "absent" THEN aged \ {c} ELSE aged
    /\ pc' = [pc EXCEPT ![p] = "staged"]
    /\ item' = [item EXCEPT ![p] = c]
    /\ UNCHANGED <<layout, lease, rows, refs, dbAged, damaged, todo, accused>>

\* put_path digests the source file, then reads it again to copy it.  If the
\* file changed in between, other bytes are linked under c's name; the
\* verification raises but leaves them there.
PutChangingSource(p, c) ==
    /\ pc[p] = "writer"
    /\ blob[c] = "absent"
    /\ blob' = [blob EXCEPT ![c] = "corrupt"]
    /\ aged' = aged \ {c}
    /\ UNCHANGED <<layout, lease, rows, refs, dbAged, damaged, pc, local>>

\* record_content: the row alone (content staged for validation).
RegisterContent(p) ==
    /\ pc[p] = "staged"
    /\ CanCommit
    /\ rows' = rows \cup {item[p]}
    /\ dbAged' = FALSE
    /\ pc' = [pc EXCEPT ![p] = "writer"]
    /\ item' = [item EXCEPT ![p] = NoContent]
    /\ UNCHANGED <<layout, lease, refs, blob, aged, damaged, todo, accused>>

\* record_observation_bundle: row and observation in one transaction.
IngestContent(p) ==
    /\ pc[p] = "staged"
    /\ CanCommit
    /\ rows' = rows \cup {item[p]}
    /\ refs' = refs \cup {<<"observations", item[p]>>}
    /\ dbAged' = FALSE
    /\ pc' = [pc EXCEPT ![p] = "writer"]
    /\ item' = [item EXCEPT ![p] = NoContent]
    /\ UNCHANGED <<layout, lease, blob, aged, damaged, todo, accused>>

\* Mutant: the failed bundle stays scheduled although its content is released.
CommitFailsHalfway(p) ==
    /\ pc[p] = "staged" /\ ~CanCommit
    /\ item' = [item EXCEPT ![p] = NoContent]
    /\ UNCHANGED <<disk, lease, pc, todo, accused>>

\* The transaction raises and rolls back (an audit outlasted the busy timeout).
CommitFails(p) ==
    /\ pc[p] = "staged"
    /\ ~CanCommit
    /\ pc' = [pc EXCEPT ![p] = "writer"]
    /\ item' = [item EXCEPT ![p] = NoContent]
    /\ UNCHANGED <<disk, lease, todo, accused>>

\* observe_content: no bytes are written, so the row and the file must be there.
ObserveContent(p, c) ==
    /\ pc[p] = "writer"
    /\ CanCommit
    /\ c \in rows
    /\ blob[c] # "absent"
    /\ refs' = refs \cup {<<"observations", c>>}
    /\ dbAged' = FALSE
    /\ UNCHANGED <<layout, lease, rows, blob, aged, damaged, pc, local>>

\* record_validation, record_materialization, record_tree: a row that names an
\* existing content row (the foreign key), whatever became of its file.
RecordEvidence(p, t, c) ==
    /\ pc[p] = "writer"
    /\ CanCommit
    /\ c \in rows
    /\ refs' = refs \cup {<<t, c>>}
    /\ dbAged' = FALSE
    /\ UNCHANGED <<layout, lease, rows, blob, aged, damaged, pc, local>>

-----------------------------------------------------------------------------
(* Cleanup under the lease.                                                 *)

\* Mutant: cleanup runs next to a writer.
CleanupWithoutLease(p) ==
    /\ pc[p] = "idle" /\ layout = "ready"
    /\ pc' = [pc EXCEPT ![p] = "planning"]
    /\ UNCHANGED <<disk, lease, local>>

\* RepositoryMaintenance.plan_cleanup and cleanup open under the lease.
CleanupOpen(p) ==
    /\ pc[p] = "idle"
    /\ layout = "ready"
    /\ lease = NoProc
    /\ lease' = p
    /\ pc' = [pc EXCEPT ![p] = "planning"]
    /\ UNCHANGED <<disk, local>>

\* A referenced content without a row or with a missing or corrupt file.
Blockers == {c \in Roots : c \notin rows \/ blob[c] # "intact"}

Candidates ==
    LET files == {c \in aged : blob[c] # "absent" /\ c \notin Roots}
        gone  == {c \in rows \ Roots : blob[c] = "absent"}
    IN  ({"blob"} \X files) \cup (IF dbAged THEN {"row"} \X gone ELSE {})

CleanupPlan(p) ==
    /\ pc[p] = "planning"
    /\ Blockers = {}
    /\ todo' = [todo EXCEPT ![p] = Candidates]
    /\ pc' = [pc EXCEPT ![p] = "sweep"]
    /\ UNCHANGED <<disk, lease, item, accused>>

\* The audit of reachable content refuses, or the call was a dry run.
CleanupRefuses(p) ==
    /\ pc[p] = "planning"
    /\ Leave(p)
    /\ UNCHANGED disk

\* Mutant: the file goes before the row.
SweepFileFirst(p) ==
    /\ pc[p] = "sweep"
    /\ \E task \in todo[p] :
          /\ task[1] = "blob" /\ blob[task[2]] # "absent"
          /\ blob' = [blob EXCEPT ![task[2]] = "absent"]
          /\ aged' = aged \ {task[2]}
    /\ UNCHANGED <<layout, lease, rows, refs, dbAged, damaged, pc, local>>

\* DELETE FROM content_objects, one transaction per candidate.  Deleting no row
\* commits nothing, so an audit does not hold it up.
SweepRow(p) ==
    /\ pc[p] = "sweep"
    /\ \E task \in todo[p] : LET c == task[2] IN
          /\ c \in rows => CanCommit /\ c \notin Roots
          /\ rows' = rows \ {c}
          /\ dbAged' = (dbAged /\ c \notin rows)
          /\ todo' = [todo EXCEPT ![p] = @ \ {task}]
          /\ IF task[1] = "blob"
             THEN /\ pc' = [pc EXCEPT ![p] = "unlink"]
                  /\ item' = [item EXCEPT ![p] = c]
             ELSE UNCHANGED <<pc, item>>
    /\ UNCHANGED <<layout, lease, refs, blob, aged, damaged, accused>>

SweepBlob(p) ==
    /\ pc[p] = "unlink"
    /\ blob[item[p]] # "absent"
    /\ blob' = [blob EXCEPT ![item[p]] = "absent"]
    /\ aged' = aged \ {item[p]}
    /\ pc' = [pc EXCEPT ![p] = "sweep"]
    /\ item' = [item EXCEPT ![p] = NoContent]
    /\ UNCHANGED <<layout, lease, rows, refs, dbAged, damaged, todo, accused>>

\* A locked database, a foreign key or a vanished file ends the whole cleanup.
CleanupFails(p) ==
    /\ \/ /\ pc[p] = "sweep"
          /\ \E task \in todo[p] :
                task[2] \in rows /\ ~(CanCommit /\ task[2] \notin Roots)
       \/ pc[p] = "unlink" /\ blob[item[p]] = "absent"
    /\ Leave(p)
    /\ UNCHANGED disk

CleanupDone(p) ==
    /\ pc[p] = "sweep"
    /\ todo[p] = {}
    /\ Leave(p)
    /\ UNCHANGED disk

-----------------------------------------------------------------------------
(* Audit: no lease, one SQLite read transaction, files looked at one by one. *)

AuditOpen(p) ==
    /\ pc[p] = "idle"
    /\ layout = "ready"
    /\ pc' = [pc EXCEPT ![p] = "audit"]
    /\ todo' = [todo EXCEPT ![p] = {"row"} \X rows]
    /\ UNCHANGED <<disk, lease, item, accused>>

AuditContent(p) ==
    /\ pc[p] = "audit"
    /\ \E task \in todo[p] : LET c == task[2] IN
          /\ todo' = [todo EXCEPT ![p] = @ \ {task}]
          /\ accused' = IF blob[c] = "intact" THEN accused
                        ELSE [accused EXCEPT ![p] = @ \cup {c}]
    /\ UNCHANGED <<disk, lease, pc, item>>

AuditDone(p) ==
    /\ pc[p] = "audit"
    /\ todo[p] = {}
    /\ Leave(p)
    /\ UNCHANGED disk

-----------------------------------------------------------------------------
(* The environment.                                                         *)

\* The process dies, or an exception unwinds it: the OS drops lease and locks.
Crash(p) ==
    /\ pc[p] # "idle"
    /\ Leave(p)
    /\ UNCHANGED disk

Damage(c) ==
    /\ blob[c] = "intact"
    /\ Cardinality(damaged) < MaxDamage
    /\ \E s \in {"absent", "corrupt"} : blob' = [blob EXCEPT ![c] = s]
    /\ aged' = IF blob'[c] = "absent" THEN aged \ {c} ELSE aged
    /\ damaged' = damaged \cup {c}
    /\ UNCHANGED <<layout, lease, rows, refs, dbAged, pc, local>>

\* A grace period passes without another write of the file.
Age(c) ==
    /\ blob[c] # "absent"
    /\ aged' = aged \cup {c}
    /\ UNCHANGED <<layout, lease, rows, refs, blob, dbAged, damaged, pc, local>>

AgeDatabase ==
    /\ layout = "ready"
    /\ dbAged' = TRUE
    /\ UNCHANGED <<layout, lease, rows, refs, blob, aged, damaged, pc, local>>

-----------------------------------------------------------------------------
Opens(p) == CreateRoot(p) \/ CreateStep(p) \/ OpenWriter(p) \/ CloseWriter(p)

Writes(p) ==
    \/ \E c \in Content : Put(p, c) \/ PutChangingSource(p, c) \/ ObserveContent(p, c)
    \/ \E t \in RefTable \ {"observations"}, c \in Content : RecordEvidence(p, t, c)
    \/ RegisterContent(p) \/ IngestContent(p) \/ CommitFails(p)

Cleans(p) ==
    \/ CleanupOpen(p) \/ CleanupPlan(p) \/ CleanupRefuses(p)
    \/ SweepRow(p) \/ SweepBlob(p) \/ CleanupFails(p) \/ CleanupDone(p)

Audits(p) == AuditOpen(p) \/ AuditContent(p) \/ AuditDone(p)

Next ==
    \/ \E p \in Proc : Opens(p) \/ Writes(p) \/ Cleans(p) \/ Audits(p) \/ Crash(p)
    \/ \E c \in Content : Damage(c) \/ Age(c)
    \/ AgeDatabase

Spec == Init /\ [][Next]_vars

-----------------------------------------------------------------------------
(* Properties.                                                              *)

TypeOK ==
    /\ layout \in Layouts
    /\ lease \in Proc \cup {NoProc}
    /\ rows \subseteq Content
    /\ refs \subseteq RefTable \X Content
    /\ blob \in [Content -> BlobStates]
    /\ aged \subseteq Content
    /\ dbAged \in BOOLEAN
    /\ damaged \subseteq Content
    /\ pc \in [Proc -> Phases]
    /\ item \in [Proc -> Content \cup {NoContent}]
    /\ todo \in [Proc -> SUBSET Task]
    /\ accused \in [Proc -> SUBSET Content]

\* The lease: whoever writes or cleans holds it, so no two processes ever do.
OneOwner ==
    /\ \A p \in Proc : Holding(p) => lease = p
    /\ \A p, q \in Proc : Holding(p) /\ Holding(q) => p = q

\* Whatever interleaving of ingests, failed commits, cleanups and crashes led
\* here, committed metadata names a content row, and the row's bytes are in the
\* store unless the disk itself lost them.
BytesBeforeMetadata ==
    /\ Roots \subseteq rows
    /\ \A c \in rows : blob[c] = "intact" \/ c \in damaged

\* From the moment a cleanup has computed its candidates until it has dealt
\* with the last of them, none of them becomes referenced: the deletions never
\* race a writer that starts to use the content again.
PlanStaysValid ==
    \A p \in Proc :
        /\ pc[p] = "sweep" => \A task \in todo[p] : task[2] \notin Roots
        /\ pc[p] = "unlink" => item[p] \notin Roots \cup rows

\* An audit never reports a missing or corrupt blob that an efloud process
\* removed or replaced: what it accuses, the disk damaged.
AuditAccusesOnlyTheDisk == \A p \in Proc : accused[p] \subseteq damaged

\* The repository keeps the contract of its blob store, through every interleaving
\* of processes and every crash: evidence and the bytes it names are for ever, a
\* content is recorded only while its bytes are there, and a cleanup, which gives
\* up the row before the file, gives up nothing that has come back into use.
Contract == INSTANCE ContentStore WITH
                stored <- {c \in Content : blob[c] = "intact"},
                known <- rows, named <- Roots, lost <- damaged
ContractIsKept == Contract!Spec

\* BlobStore's contract that a put "may safely be repeated for the same bytes":
\* the store never holds, under a content's name, bytes that make every later
\* put of that content fail, unless the disk corrupted them.
PutIsRepeatable == \A c \in Content : blob[c] = "corrupt" => c \in damaged

\* A repository is created or opened explicitly: a root that exists and that no
\* process is initialising any more can be opened.
CreatedIsOpenable ==
    layout \in Layouts \ {"absent", "ready"} => \E p \in Proc : pc[p] = "creating"
=============================================================================

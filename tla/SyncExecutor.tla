----------------------------- MODULE SyncExecutor -----------------------------
(***************************************************************************)
(* SyncExecutor.execute: one plan run as waves of asyncio tasks behind a    *)
(* semaphore, each recording its result through the one writer, next to     *)
(* audits that lock the database, an outer cancellation, a crash of the     *)
(* process, a closed handle and a later recovery.                           *)
(*                                                                          *)
(* Code between two awaits holds the event loop: while an operation is      *)
(* "recording" or "closing", or the executor is anywhere but in gather, no  *)
(* other coroutine runs.  Every SQLite transaction in between is a step of  *)
(* its own, because another process may lock the database or this one die.  *)
(***************************************************************************)
EXTENDS FiniteSets, Naturals

CONSTANTS
    Op,              \* operations of the plan
    Plan,            \* dependency functions the planner may hand over
    MaxConcurrency,  \* plan.request.max_concurrency
    MaxLocks         \* bound: how many audits lock the database

ASSUME PlanAssumption == \A d \in Plan : DOMAIN d = Op
ASSUME ConcurrencyAssumption == MaxConcurrency \in Nat \ {0}
ASSUME LocksAssumption == MaxLocks \in Nat

VARIABLES
    deps,       \* operation.dependencies of the plan in hand
    run,        \* the run's row
    row,        \* the operations' rows
    published,  \* how much of its evidence an operation has committed
    main,       \* where SyncExecutor.execute is
    wave,       \* operations of the current iteration
    task,       \* where each operation's coroutine is
    verdict,    \* the status it is about to write
    cancelReq,  \* the caller cancelled execute while it was in gather
    locked,     \* an audit's read transaction is open
    locks       \* audits so far

rows  == <<run, row, published>>
db    == <<locked, locks>>
coro  == <<task, verdict>>
vars  == <<deps, rows, main, wave, coro, cancelReq, db>>

RunTerminal == {"succeeded", "partial", "failed", "cancelled"}
OpTerminal  == {"succeeded", "failed", "cancelled"}
Mains == {"idle", "waves", "blocking", "gathering", "aborting", "cancelling",
          "returned", "raised", "closed", "dead"}
Tasks == {"planned", "queued", "acquiring", "recording", "closing", "returned",
          "raised", "cancelled", "lost"}

\* A commit succeeds unless an audit outlasts the busy timeout or the handle
\* has given up its lease.
CanWrite == ~locked /\ main \notin {"closed", "dead"}

Holders  == {o \in Op : task[o] \in {"recording", "closing"}}
LoopFree == Holders = {} /\ main \in {"gathering", "returned", "raised", "closed"}

\* Mutant: a permit is not given back by an operation that returns.
ActiveLeaks ==
    {o \in wave : task[o] \in {"acquiring", "recording", "closing", "returned"}}

\* Permits of the wave's semaphore that are taken.
Active == {o \in wave : task[o] \in {"acquiring", "recording", "closing"}}

\* Mutant: only a recorded failure blocks, so what a block blocked runs.
OnlyFailed(o) == {d \in deps[o] : verdict[d] = "failed"}

Unsuccessful(o) == {d \in deps[o] : verdict[d] # "succeeded"}
Ready == {o \in Op : task[o] = "planned" /\
                     \A d \in deps[o] : d \in Op /\ task[d] = "returned"}

-----------------------------------------------------------------------------
Init ==
    /\ deps \in Plan
    /\ run = "none"
    /\ row = [o \in Op |-> "none"]
    /\ published = [o \in Op |-> "nothing"]
    /\ main = "idle"
    /\ wave = {}
    /\ task = [o \in Op |-> "planned"]
    /\ verdict = [o \in Op |-> "none"]
    /\ cancelReq = FALSE
    /\ locked = FALSE
    /\ locks = 0

-----------------------------------------------------------------------------
(* The executor's own coroutine.                                            *)

StartRun ==
    /\ main = "idle"
    /\ CanWrite
    /\ run' = "running"
    /\ main' = "waves"
    /\ UNCHANGED <<deps, row, published, wave, coro, cancelReq, db>>

\* Dependencies outside the plan, or none of the pending operations is ready.
RejectPlan ==
    /\ main = "waves"
    /\ \/ \E o \in Op : ~(deps[o] \subseteq Op)
       \/ Ready = {} /\ \E o \in Op : task[o] = "planned"
    /\ main' = "aborting"
    /\ UNCHANGED <<deps, rows, wave, coro, cancelReq, db>>

FormWave ==
    /\ main = "waves"
    /\ \A o \in Op : deps[o] \subseteq Op
    /\ Ready # {}
    /\ wave' = Ready
    /\ main' = "blocking"
    /\ UNCHANGED <<deps, rows, coro, cancelReq, db>>

\* _blocked_operation: the row is started, then closed as cancelled.
Block(o) ==
    /\ main = "blocking"
    /\ Holders = {}
    /\ o \in wave
    /\ task[o] = "planned"
    /\ Unsuccessful(o) # {}
    /\ IF CanWrite
       THEN /\ row' = [row EXCEPT ![o] = "running"]
            /\ task' = [task EXCEPT ![o] = "closing"]
            /\ verdict' = [verdict EXCEPT ![o] = "blocked"]
            /\ UNCHANGED main
       ELSE main' = "aborting" /\ UNCHANGED <<row, coro>>
    /\ UNCHANGED <<deps, run, published, wave, cancelReq, db>>

\* Everything left in the wave becomes a task of one gather.
Dispatch ==
    /\ main = "blocking"
    /\ Holders = {}
    /\ LET open == {o \in wave : task[o] = "planned"} IN
          /\ \A o \in open : Unsuccessful(o) = {}
          /\ task' = [o \in Op |-> IF o \in open THEN "queued" ELSE task[o]]
          /\ main' = IF open = {} THEN "waves" ELSE "gathering"
    /\ UNCHANGED <<deps, rows, wave, verdict, cancelReq, db>>

\* gather has every result; a cancellation every child ignored surfaces now.
Gathered ==
    /\ main = "gathering"
    /\ LoopFree
    /\ \A o \in wave : task[o] = "returned"
    /\ main' = IF cancelReq THEN "cancelling" ELSE "waves"
    /\ UNCHANGED <<deps, rows, wave, coro, cancelReq, db>>

\* The first child that raises ends gather at once; its siblings run on.
GatherRaises ==
    /\ main = "gathering"
    /\ LoopFree
    /\ \E o \in wave :
          \/ task[o] = "raised" /\ main' = "aborting"
          \/ task[o] = "cancelled" /\ main' = "cancelling"
    /\ UNCHANGED <<deps, rows, wave, coro, cancelReq, db>>

HandlerStatus == IF main = "cancelling" THEN "cancelled" ELSE "failed"

\* execute's except branches: close every row that is still running, ...
HandlerCloses(o) ==
    /\ main \in {"aborting", "cancelling"}
    /\ CanWrite
    /\ row[o] = "running"
    /\ row' = [row EXCEPT ![o] = HandlerStatus]
    /\ UNCHANGED <<deps, run, published, main, wave, coro, cancelReq, db>>

\* ... then the run, and raise again.
HandlerEnds ==
    /\ main \in {"aborting", "cancelling"}
    /\ CanWrite
    /\ \A o \in Op : row[o] # "running"
    /\ run' = HandlerStatus
    /\ main' = "raised"
    /\ UNCHANGED <<deps, row, published, wave, coro, cancelReq, db>>

\* Mutant: the partial outcome is forgotten.
AllOrNothing == IF \E o \in Op : verdict[o] = "succeeded" THEN "succeeded" ELSE "failed"

RunStatus ==
    LET failed    == \E o \in Op : verdict[o] \in {"failed", "blocked"}
        succeeded == \E o \in Op : verdict[o] = "succeeded"
    IN  IF failed THEN (IF succeeded THEN "partial" ELSE "failed") ELSE "succeeded"

FinishRun ==
    /\ main = "waves"
    /\ \A o \in Op : task[o] # "planned" /\ row[o] # "running"
    /\ CanWrite
    /\ run' = RunStatus
    /\ main' = "returned"
    /\ UNCHANGED <<deps, row, published, wave, coro, cancelReq, db>>

\* finish_run rejects running operations, and any write meets a locked
\* database; nothing handles an exception raised here.
WriteRaises ==
    /\ \/ main \in {"aborting", "cancelling"} /\ ~CanWrite
       \/ /\ main = "waves"
          /\ \A o \in Op : task[o] # "planned"
          /\ ~CanWrite \/ \E o \in Op : row[o] = "running"
    /\ main' = "raised"
    /\ UNCHANGED <<deps, rows, wave, coro, cancelReq, db>>

-----------------------------------------------------------------------------
(* One operation: _execute_operation under the semaphore.                   *)

\* Mutant: one permit too many.
StartOneTooMany(o) ==
    /\ LoopFree /\ task[o] = "queued"
    /\ Cardinality(Active) <= MaxConcurrency
    /\ IF CanWrite /\ run = "running"
       THEN /\ row' = [row EXCEPT ![o] = "running"]
            /\ task' = [task EXCEPT ![o] = "acquiring"]
       ELSE task' = [task EXCEPT ![o] = "raised"] /\ UNCHANGED row
    /\ UNCHANGED <<deps, run, published, main, wave, verdict, cancelReq, db>>

\* Mutant: start_operation does not look at the status of the run.
StartInEndedRun(o) ==
    /\ LoopFree /\ task[o] = "queued"
    /\ Cardinality(Active) < MaxConcurrency
    /\ IF CanWrite
       THEN /\ row' = [row EXCEPT ![o] = "running"]
            /\ task' = [task EXCEPT ![o] = "acquiring"]
       ELSE task' = [task EXCEPT ![o] = "raised"] /\ UNCHANGED row
    /\ UNCHANGED <<deps, run, published, main, wave, verdict, cancelReq, db>>

\* A task that gets a permit inserts its row, if the run is still running, and
\* awaits its adapter.
StartOperation(o) ==
    /\ LoopFree
    /\ task[o] = "queued"
    /\ Cardinality(Active) < MaxConcurrency
    /\ IF CanWrite /\ run = "running"
       THEN /\ row' = [row EXCEPT ![o] = "running"]
            /\ task' = [task EXCEPT ![o] = "acquiring"]
       ELSE task' = [task EXCEPT ![o] = "raised"] /\ UNCHANGED row
    /\ UNCHANGED <<deps, run, published, main, wave, verdict, cancelReq, db>>

\* A task cancelled while it waits for the semaphore has no row.
CancelQueued(o) ==
    /\ LoopFree
    /\ cancelReq
    /\ task[o] = "queued"
    /\ task' = [task EXCEPT ![o] = "cancelled"]
    /\ UNCHANGED <<deps, rows, main, wave, verdict, cancelReq, db>>

\* The adapter or derived task hands its result to the recording code, ...
AdapterReturns(o) ==
    /\ LoopFree
    /\ task[o] = "acquiring"
    /\ task' = [task EXCEPT ![o] = "recording"]
    /\ UNCHANGED <<deps, rows, main, wave, verdict, cancelReq, db>>

\* ... or raises: an error, or the cancellation the caller asked for.
AdapterRaises(o) ==
    /\ LoopFree
    /\ task[o] = "acquiring"
    /\ task' = [task EXCEPT ![o] = "closing"]
    /\ \E s \in {"failed"} \cup (IF cancelReq THEN {"cancelled"} ELSE {}) :
          verdict' = [verdict EXCEPT ![o] = s]
    /\ UNCHANGED <<deps, rows, main, wave, cancelReq, db>>

\* A transaction of record_source_acquisition or run_derived_operation: first
\* observations, at last the snapshot or execution evidence.
Record(o) ==
    /\ task[o] = "recording"
    /\ CanWrite
    /\ \/ /\ published[o] = "nothing"
          /\ published' = [published EXCEPT ![o] = "partly"]
          /\ UNCHANGED coro
       \/ /\ published[o] = "partly"
          /\ published' = [published EXCEPT ![o] = "wholly"]
          /\ task' = [task EXCEPT ![o] = "closing"]
          /\ \E s \in {"succeeded", "failed"} : verdict' = [verdict EXCEPT ![o] = s]
    /\ UNCHANGED <<deps, run, row, main, wave, cancelReq, db>>

\* Required validation rejects the content, or a step of the recording raises.
RecordFails(o) ==
    /\ task[o] = "recording"
    /\ task' = [task EXCEPT ![o] = "closing"]
    /\ verdict' = [verdict EXCEPT ![o] = "failed"]
    /\ UNCHANGED <<deps, rows, main, wave, cancelReq, db>>

\* Mutant: the result's word for a blocked operation goes into its row.
ResultStatus(o) == verdict[o]

RowStatus(o) == IF verdict[o] = "blocked" THEN "cancelled" ELSE verdict[o]

\* Mutant: whatever an adapter raises leaves the operation once it is recorded.
CloseReraises(o) ==
    /\ task[o] = "closing" /\ CanWrite /\ row[o] = "running"
    /\ row' = [row EXCEPT ![o] = RowStatus(o)]
    /\ task' = [task EXCEPT ![o] = IF verdict[o] = "failed" THEN "raised"
                                   ELSE "returned"]
    /\ UNCHANGED <<deps, run, published, main, wave, verdict, cancelReq, db>>

\* finish_operation, after which the coroutine returns or re-raises.
CloseOperation(o) ==
    /\ task[o] = "closing"
    /\ CanWrite
    /\ row[o] = "running"
    /\ row' = [row EXCEPT ![o] = RowStatus(o)]
    /\ task' = [task EXCEPT ![o] = IF verdict[o] = "cancelled" THEN "cancelled"
                                   ELSE "returned"]
    /\ UNCHANGED <<deps, run, published, main, wave, verdict, cancelReq, db>>

\* finish_operation raises: out of the wave, or out of execute for a blocked one.
CloseRaises(o) ==
    /\ task[o] = "closing"
    /\ ~CanWrite \/ row[o] # "running"
    /\ task' = [task EXCEPT ![o] = "raised"]
    /\ main' = IF verdict[o] = "blocked" THEN "aborting" ELSE main
    /\ UNCHANGED <<deps, rows, wave, verdict, cancelReq, db>>

-----------------------------------------------------------------------------
(* The environment.                                                         *)

CancelSync ==
    /\ main = "gathering"
    /\ LoopFree
    /\ ~cancelReq
    /\ cancelReq' = TRUE
    /\ UNCHANGED <<deps, rows, main, wave, coro, db>>

\* The caller closes the repository; orphaned coroutines may still be there.
CloseHandle ==
    /\ main \in {"returned", "raised"}
    /\ LoopFree
    /\ main' = "closed"
    /\ UNCHANGED <<deps, rows, wave, coro, cancelReq, db>>

Crash ==
    /\ main # "dead"
    /\ main' = "dead"
    /\ task' = [o \in Op |-> "lost"]
    /\ UNCHANGED <<deps, rows, wave, verdict, cancelReq, db>>

\* Mutant: recovery fails whatever has not succeeded.
RecoverTooMuch ==
    /\ main \in {"closed", "dead"} /\ ~locked
    /\ row' = [o \in Op |-> IF row[o] \in {"running", "cancelled"} THEN "failed" ELSE row[o]]
    /\ run' = IF run = "running" THEN "failed" ELSE run
    /\ UNCHANGED <<deps, published, main, wave, coro, cancelReq, db>>

\* RepositoryMaintenance.recover takes the lease: nobody has the root open.
Recover ==
    /\ main \in {"closed", "dead"}
    /\ ~locked
    /\ row' = [o \in Op |-> IF row[o] = "running" THEN "failed" ELSE row[o]]
    /\ run' = IF run = "running" THEN "failed" ELSE run
    /\ UNCHANGED <<deps, published, main, wave, coro, cancelReq, db>>

Lock ==
    /\ ~locked
    /\ locks < MaxLocks
    /\ locked' = TRUE
    /\ locks' = locks + 1
    /\ UNCHANGED <<deps, rows, main, wave, coro, cancelReq>>

Unlock ==
    /\ locked
    /\ locked' = FALSE
    /\ UNCHANGED <<deps, rows, main, wave, coro, cancelReq, locks>>

-----------------------------------------------------------------------------
Main ==
    \/ StartRun \/ RejectPlan \/ FormWave \/ Dispatch \/ Gathered \/ GatherRaises
    \/ HandlerEnds \/ FinishRun \/ WriteRaises
    \/ \E o \in Op : Block(o) \/ HandlerCloses(o)

Step(o) ==
    \/ StartOperation(o) \/ CancelQueued(o)
    \/ Record(o) \/ RecordFails(o) \/ CloseOperation(o) \/ CloseRaises(o)

Adapter(o) == AdapterReturns(o) \/ AdapterRaises(o)

Environment == CancelSync \/ CloseHandle \/ Crash \/ Recover \/ Lock \/ Unlock

Next == Main \/ (\E o \in Op : Step(o) \/ Adapter(o)) \/ Environment

Spec == Init /\ [][Next]_vars

\* The event loop runs whatever is ready, adapters end (they have timeouts),
\* audits end and an abandoned run is recovered; nothing makes a caller sync,
\* cancel, close or crash.
Fairness ==
    /\ WF_vars(Main /\ main # "idle")
    /\ \A o \in Op : WF_vars(Step(o)) /\ WF_vars(Adapter(o))
    /\ WF_vars(Unlock)
    /\ WF_vars(Recover)

FairSpec == Spec /\ Fairness

-----------------------------------------------------------------------------
(* Properties.                                                              *)

TypeOK ==
    /\ deps \in Plan
    /\ run \in RunTerminal \cup {"none", "running"}
    /\ row \in [Op -> OpTerminal \cup {"none", "running"}]
    /\ published \in [Op -> {"nothing", "partly", "wholly"}]
    /\ main \in Mains
    /\ wave \subseteq Op
    /\ task \in [Op -> Tasks]
    /\ verdict \in [Op -> OpTerminal \cup {"none", "blocked"}]
    /\ cancelReq \in BOOLEAN
    /\ locked \in BOOLEAN
    /\ locks \in 0 .. MaxLocks

\* Waves: whatever an operation acquires or publishes, it does after every
\* operation it depends on has been recorded as succeeded, and that never
\* changes again.
DependenciesFirst ==
    \A o \in Op :
        task[o] \in {"acquiring", "recording"} \/ published[o] # "nothing"
            => \A d \in deps[o] : row[d] = "succeeded"

\* The outcome a run reports is the one its rows tell: "succeeded" hides no
\* operation that failed, was blocked or never ran, "partial" has both kinds,
\* and an operation that succeeded has published all its evidence.
StatusTellsTheTruth ==
    /\ run = "succeeded" => \A o \in Op : row[o] = "succeeded"
    /\ run = "partial" => /\ \E o \in Op : row[o] = "succeeded"
                          /\ \E o \in Op : row[o] \in {"failed", "cancelled"}
    /\ \A o \in Op : row[o] = "succeeded" => published[o] = "wholly"

\* The semaphore: also when operations raise or are orphaned by a sibling, no
\* more adapters work at a time than the request allows.
ConcurrencyIsBounded ==
    Cardinality({o \in Op : task[o] = "acquiring"}) <= MaxConcurrency

\* A run that ended by itself is history: no coroutine left over from it, no
\* recovery and no late adapter adds evidence to it.
EndedRunsAreHistory ==
    [][(run \in {"succeeded", "partial"}) => UNCHANGED rows]_vars

\* The run and operation rows follow the lifecycle the repository promises.
Lifecycle == INSTANCE RunLifecycle
LifecycleSpec == Lifecycle!Spec

\* A sync neither hangs in a wave nor leaves its run running for ever, unless
\* its caller keeps a handle it failed on open.
SyncSettles ==
    (run = "running") ~> (run \in RunTerminal \/ main = "raised")

\* Until an audit has locked the database or the caller has cancelled the sync,
\* operations are isolated: nothing comes out of one, whatever becomes of its
\* adapter or its recording, and an operation at work has its executor waiting
\* and its own row open.
OnlyAuditsDisturb ==
    locks = 0 /\ ~cancelReq =>
        \A o \in Op :
            /\ task[o] \notin {"raised", "cancelled"}
            /\ task[o] \in {"acquiring", "recording"} =>
                   main = "gathering" /\ row[o] = "running"

\* "adapter/task extensions are isolated sibling failure domains": as long as
\* nobody cancels the sync and nothing raises but operations that have failed,
\* an operation whose adapter is at work stays running.
SiblingsAreIsolated ==
    ~cancelReq /\ (\A q \in Op : task[q] = "raised" => verdict[q] = "failed")
        => \A o \in Op : task[o] = "acquiring" => row[o] = "running"
=============================================================================

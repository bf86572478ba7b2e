------------------------------ MODULE PlannedSync ------------------------------
(***************************************************************************)
(* Engine.sync: the executor runs the plan that the planner has made of the   *)
(* engine's configuration, and its collections and derived tasks read their   *)
(* inputs from the catalog when they start, before they are awaited.          *)
(***************************************************************************)
EXTENDS SyncExecutor, Planning

CONSTANT Configurations   \* what an engine may be configured with and asked for

VARIABLE config

\* Bound: the operations of the instance's plans are the same.
ASSUME ConfigurationAssumption ==
    \A c \in Configurations : Accepts(c) => Operations(c) = Op /\ PlanOf(c) \in Plan

\* A plan's operations are a tuple; what a collection or a task reads is no task.
ASSUME InputAssumption ==
    /\ IsFiniteSet(Op)
    /\ \A c \in Configurations : \A o \in Op : InputSources(c, o) \cap c.tasks = {}

PlannedInit ==
    /\ config \in Configurations
    /\ Accepts(config)
    /\ Init
    /\ deps = PlanOf(config)

PlannedNext == Next /\ UNCHANGED config

PlannedSpec == PlannedInit /\ [][PlannedNext]_<<vars, config>> /\ Fairness

-----------------------------------------------------------------------------
\* Operations that have read their inputs and have not yet recorded all of what
\* they made of them.
Reading == {o \in Op : task[o] \in {"acquiring", "recording"}}

\* What a collection or a derived task has read when it starts is still what the
\* catalog has when its result is recorded: none of the run's operations, not
\* even one a failure has orphaned, publishes for one of its input sources in
\* between.
InputsStayCurrent ==
    [][\A o \in Reading : \A s \in InputSources(config, o) \cap Op :
           published'[s] = published[s]]_<<vars, config>>

\* The executor rejects a plan only if a selected input has no operation or the
\* inputs go round in a circle: nothing else that is configured, left out of the
\* request or fails can make a started run end without its operations.
SoundPlansRun == [][RejectPlan => ~Sound(config)]_<<vars, config>>
=============================================================================

------------------------------- MODULE Planning -------------------------------
(***************************************************************************)
(* SyncPlanner.plan: from what an engine is configured with and a request to *)
(* the operations of a plan and what each of them waits for.  A source's and  *)
(* its operation's name are the same, and no task has a source's name.        *)
(*                                                                           *)
(* A configuration is a record of                                            *)
(*   sources      the configured sources,                                    *)
(*   adapted      those an adapter is registered for,                        *)
(*   collections  those that are collections,                                *)
(*   defined      the collections with a CollectionDefinition,               *)
(*   tasks        the derived tasks,                                         *)
(*   inputs       input_source_ids of collections and tasks,                 *)
(*   asked        request.source_ids, or AllSources,                         *)
(*   derived      request.include_derived.                                   *)
(***************************************************************************)
CONSTANT AllSources   \* request.source_ids is None

Selected(c) == IF c.asked = AllSources THEN c.sources ELSE c.asked

\* Sources that get an operation.
PlannedSources(c) ==
    {s \in Selected(c) \cap c.adapted : s \in c.collections => s \in c.defined}

PlannedTasks(c) == IF c.derived THEN c.tasks ELSE {}

Operations(c) == PlannedSources(c) \cup PlannedTasks(c)

\* What an operation reads: the last state of everything these sources have.
InputSources(c, o) == IF o \in c.defined \cup c.tasks THEN c.inputs[o] ELSE {}

\* Mutant: sources the request does not name are waited for as well.
AllInputs(c, o) == InputSources(c, o)

\* Mutant: only sources the request names are waited for.
NamedInputs(c, o) == IF c.asked = AllSources THEN {} ELSE InputSources(c, o) \cap c.asked

\* _planned_dependency_keys.
Dependencies(c, o) == InputSources(c, o) \cap Selected(c)

PlanOf(c) == [o \in Operations(c) |-> Dependencies(c, o)]

\* Unknown sources are refused, and so is an operation that waits for itself.
Accepts(c) ==
    /\ Selected(c) \subseteq c.sources
    /\ \A o \in Operations(c) : o \notin Dependencies(c, o)

\* Every selected input has an operation, and inputs can be put in an order.
Sound(c) ==
    /\ \A o \in Operations(c) :
          InputSources(c, o) \cap Selected(c) \subseteq Operations(c)
    /\ \E before \in SUBSET (Operations(c) \X Operations(c)) :
          /\ \A o, p, q \in Operations(c) :
                /\ <<o, o>> \notin before
                /\ <<o, p>> \in before /\ <<p, q>> \in before => <<o, q>> \in before
          /\ \A o \in Operations(c) :
                \A s \in InputSources(c, o) \cap Operations(c) : <<s, o>> \in before
=============================================================================

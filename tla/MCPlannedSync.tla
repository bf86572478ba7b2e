----------------------------- MODULE MCPlannedSync -----------------------------
(* Two sources and one derived task, planned from configurations in which      *)
(* inputs are none, a chain, shared, not requested, without an adapter, without *)
(* a definition, circular, or a collection's own.                              *)
EXTENDS PlannedSync, TLC

CONSTANTS a, b, x, t

Configured(inputsOfA, inputsOfB, inputsOfT, adapted, asked) ==
    [sources |-> {a, b, x}, adapted |-> adapted, collections |-> {a, b, x},
     defined |-> {a, b},
     tasks |-> {t}, inputs |-> a :> inputsOfA @@ b :> inputsOfB @@ t :> inputsOfT,
     asked |-> asked, derived |-> TRUE]

SomeConfigurations ==
    {Configured({}, {}, {}, {a, b}, AllSources),
     Configured({}, {a}, {b}, {a, b}, AllSources),
     Configured({}, {}, {a, b}, {a, b}, AllSources),
     Configured({}, {}, {a, x}, {a, b, x}, {a, b}),
     Configured({}, {}, {x}, {a, b}, AllSources),
     Configured({}, {}, {x}, {a, b, x}, AllSources),
     Configured({b}, {a}, {}, {a, b}, AllSources),
     Configured({a}, {}, {}, {a, b}, AllSources)}

Plans == {PlanOf(c) : c \in {d \in SomeConfigurations : Accepts(d)}}
=============================================================================

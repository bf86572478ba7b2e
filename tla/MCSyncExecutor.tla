---------------------------- MODULE MCSyncExecutor ----------------------------
(* Plans of three operations: independent, a chain, a fan-in, a dependency on *)
(* an operation the planner dropped, and a cycle.                             *)
EXTENDS SyncExecutor, TLC

CONSTANTS a, b, c, Dropped

Plans ==
    {a :> {} @@ b :> {} @@ c :> {},
     a :> {} @@ b :> {a} @@ c :> {b},
     a :> {} @@ b :> {} @@ c :> {a, b},
     a :> {} @@ b :> {} @@ c :> {Dropped},
     a :> {} @@ b :> {c} @@ c :> {b}}
=============================================================================

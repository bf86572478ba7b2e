----------------------------- MODULE RunLifecycle -----------------------------
(***************************************************************************)
(* What the repository promises about the lifecycle rows of one run,        *)
(* whoever drives it: the transition table of the runs and operations       *)
(* tables together with recovery.                                           *)
(***************************************************************************)
CONSTANTS Op      \* operations of the run

VARIABLES
    run,          \* status of the run's row, "none" before it is inserted
    row           \* status of each operation's row

RunTerminal == {"succeeded", "partial", "failed", "cancelled"}
OpTerminal  == {"succeeded", "failed", "cancelled"}

TypeOK ==
    /\ run \in RunTerminal \cup {"none", "running"}
    /\ row \in [Op -> OpTerminal \cup {"none", "running"}]

Init ==
    /\ run = "none"
    /\ row = [o \in Op |-> "none"]

StartRun ==
    /\ run = "none"
    /\ run' = "running"
    /\ UNCHANGED row

\* Operations start only in a running run, once each (the id is a primary key).
StartOperation(o) ==
    /\ run = "running"
    /\ row[o] = "none"
    /\ row' = [row EXCEPT ![o] = "running"]
    /\ UNCHANGED run

FinishOperation(o, s) ==
    /\ row[o] = "running"
    /\ row' = [row EXCEPT ![o] = s]
    /\ UNCHANGED run

FinishRun(s) ==
    /\ run = "running"
    /\ \A o \in Op : row[o] # "running"
    /\ run' = s
    /\ UNCHANGED row

\* RepositoryMaintenance.recover: one transaction over every running row.
Recover ==
    /\ row' = [o \in Op |-> IF row[o] = "running" THEN "failed" ELSE row[o]]
    /\ run' = IF run = "running" THEN "failed" ELSE run

Next ==
    \/ StartRun
    \/ \E o \in Op : StartOperation(o) \/ \E s \in OpTerminal : FinishOperation(o, s)
    \/ \E s \in RunTerminal : FinishRun(s)
    \/ Recover

Spec == Init /\ [][Next]_<<run, row>>

-----------------------------------------------------------------------------
\* Operations exist only in a run, and a run that has ended has none running.
EndedRunsAreQuiet ==
    /\ run = "none" => \A o \in Op : row[o] = "none"
    /\ run \in RunTerminal => \A o \in Op : row[o] # "running"

\* Terminal states are final: no transition, no recovery and no new operation
\* changes an ended run, and an ended operation keeps its status.
TerminalIsFinal ==
    [][ /\ run \in RunTerminal => run' = run /\ row' = row
        /\ \A o \in Op : row[o] \in OpTerminal => row'[o] = row[o] ]_<<run, row>>
=============================================================================

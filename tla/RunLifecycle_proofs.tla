------------------------- MODULE RunLifecycle_proofs -------------------------
(* What the abstract lifecycle guarantees, for any set of operations.        *)
EXTENDS RunLifecycle, TLAPS

\* Nothing starts outside a running run, and a run does not end around a running
\* operation.
THEOREM EndedRunsAreQuietHolds == Spec => []EndedRunsAreQuiet
<1>1. Init => EndedRunsAreQuiet
    BY DEF Init, EndedRunsAreQuiet, RunTerminal
<1>2. TypeOK /\ EndedRunsAreQuiet /\ [Next]_<<run, row>> => EndedRunsAreQuiet'
    BY DEF TypeOK, EndedRunsAreQuiet, RunTerminal, OpTerminal, Next, StartRun,
           StartOperation, FinishOperation, FinishRun, Recover
<1>3. Init => TypeOK
    BY DEF Init, TypeOK
<1>4. TypeOK /\ [Next]_<<run, row>> => TypeOK'
    BY DEF TypeOK, RunTerminal, OpTerminal, Next, StartRun, StartOperation,
           FinishOperation, FinishRun, Recover
<1> QED
    BY <1>1, <1>2, <1>3, <1>4, PTL DEF Spec

\* Neither a transition nor a recovery touches what has ended.
THEOREM TerminalIsFinalHolds == Spec => TerminalIsFinal
<1>1. Init => TypeOK
    BY DEF Init, TypeOK
<1>2. TypeOK /\ [Next]_<<run, row>> => TypeOK'
    BY DEF TypeOK, RunTerminal, OpTerminal, Next, StartRun, StartOperation,
           FinishOperation, FinishRun, Recover
<1> DEFINE Kept ==
        /\ run \in RunTerminal => run' = run /\ row' = row
        /\ \A o \in Op : row[o] \in OpTerminal => row'[o] = row[o]
<1>3. TypeOK /\ EndedRunsAreQuiet /\ [Next]_<<run, row>> => [Kept]_<<run, row>>
    <2> SUFFICES ASSUME TypeOK, EndedRunsAreQuiet, [Next]_<<run, row>> PROVE Kept
        OBVIOUS
    <2> USE DEF TypeOK, EndedRunsAreQuiet, RunTerminal, OpTerminal
    <2>1. ASSUME StartRun PROVE Kept
        BY <2>1 DEF StartRun
    <2>2. ASSUME NEW o \in Op, StartOperation(o) PROVE Kept
        BY <2>2 DEF StartOperation
    <2>3. ASSUME NEW o \in Op, NEW s \in OpTerminal, FinishOperation(o, s) PROVE Kept
        BY <2>3 DEF FinishOperation
    <2>4. ASSUME NEW s \in RunTerminal, FinishRun(s) PROVE Kept
        BY <2>4 DEF FinishRun
    <2>5. ASSUME Recover PROVE Kept
        <3>1. run \in RunTerminal => row' = [o \in Op |-> row[o]]
            BY <2>5 DEF Recover
        <3> QED
            BY <2>5, <3>1 DEF Recover
    <2>6. CASE UNCHANGED <<run, row>>
        BY <2>6
    <2> QED
        BY <2>1, <2>2, <2>3, <2>4, <2>5, <2>6 DEF Next
<1> QED
    BY <1>1, <1>2, <1>3, EndedRunsAreQuietHolds, PTL DEF Spec, TerminalIsFinal
=============================================================================

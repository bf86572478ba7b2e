------------------------- MODULE SyncExecutor_proofs -------------------------
(***************************************************************************)
(* For any set of operations, any plans and any bounds: the executor follows *)
(* the run lifecycle, respects dependencies and permits, and reports a run's *)
(* outcome as its rows tell it.                                              *)
(*                                                                           *)
(* For all configurations and requests: a planned sync is one of the         *)
(* executor's, inputs that were read stay current until what was made of      *)
(* them is recorded, and a plan whose inputs are all planned and can be put   *)
(* in an order is never rejected.  The last is about plans of any size: among *)
(* the operations that have not run, one comes first in the order, and that   *)
(* one is ready.                                                             *)
(***************************************************************************)
EXTENDS PlannedSync, FiniteSetTheorems, WellFoundedInduction, TLAPS

\* How far a coroutine has come shows in its row, and what it is about to write
\* is a status; success is only written over complete evidence.
RowsFollow ==
    /\ main = "idle" => run = "none"
    /\ main \in {"waves", "blocking", "gathering", "aborting", "cancelling"} =>
           run = "running"
    /\ \A o \in Op :
        /\ task[o] \in {"planned", "queued"} => row[o] = "none"
        /\ task[o] = "closing" => verdict[o] # "none"
        /\ task[o] = "closing" /\ verdict[o] = "succeeded" => published[o] = "wholly"
        /\ task[o] = "returned" =>
               verdict[o] \in {"succeeded", "failed", "blocked"} /\ row[o] = RowStatus(o)

\* Where the executor is bounds where the coroutines can be.
WavesAreClosed ==
    /\ main \in {"idle", "waves"} => \A o \in Op : task[o] \in {"planned", "returned"}
    /\ main = "blocking" => \A o \in Op :
           /\ task[o] \in {"planned", "returned", "closing"}
           /\ task[o] = "closing" => verdict[o] = "blocked"
           /\ \A q \in Op : task[o] = "closing" /\ task[q] = "closing" => o = q
           /\ o \in wave /\ task[o] = "planned" =>
                  \A d \in deps[o] : d \in Op /\ task[d] = "returned"
    /\ \A o \in Op : task[o] = "closing" /\ verdict[o] = "blocked" => main = "blocking"
    /\ main = "gathering" => \A o \in Op \ wave : task[o] \in {"planned", "returned"}

\* DependenciesFirst, from the moment an operation is dispatched.
DispatchedAfterDependencies ==
    \A o \in Op :
        task[o] \in {"queued", "acquiring", "recording"} \/ published[o] # "nothing"
            => \A d \in deps[o] : d \in Op /\ row[d] = "succeeded"

\* A run that ended by itself leaves no coroutine that could still write.
EndedIsOver ==
    run \in {"succeeded", "partial"} =>
        /\ main \in {"returned", "closed", "dead"}
        /\ \A o \in Op : task[o] \in {"returned", "lost"} /\ row[o] # "running"

IInv == /\ TypeOK
        /\ RowsFollow
        /\ WavesAreClosed
        /\ DispatchedAfterDependencies
        /\ StatusTellsTheTruth
        /\ EndedIsOver

-----------------------------------------------------------------------------
\* Every assignment of the actions stays within the declared sets.
LEMMA TypeStep == TypeOK /\ RowsFollow /\ [Next]_vars => TypeOK'
<1> SUFFICES ASSUME TypeOK /\ RowsFollow, [Next]_vars PROVE TypeOK'
    OBVIOUS
<1> USE LocksAssumption DEF TypeOK, RunTerminal, OpTerminal, Mains, Tasks,
    RowsFollow, rows, db, coro
<1>1. ASSUME StartRun PROVE TypeOK'
    BY <1>1 DEF StartRun
<1>2. ASSUME RejectPlan PROVE TypeOK'
    BY <1>2 DEF RejectPlan
<1>3. ASSUME FormWave PROVE TypeOK'
    BY <1>3 DEF FormWave, Ready
<1>4. ASSUME Dispatch PROVE TypeOK'
    BY <1>4 DEF Dispatch, Holders, Unsuccessful
<1>5. ASSUME Gathered PROVE TypeOK'
    BY <1>5 DEF Gathered, LoopFree
<1>6. ASSUME GatherRaises PROVE TypeOK'
    BY <1>6 DEF GatherRaises, LoopFree
<1>7. ASSUME HandlerEnds PROVE TypeOK'
    BY <1>7 DEF HandlerEnds, HandlerStatus
<1>8. ASSUME FinishRun PROVE TypeOK'
    BY <1>8 DEF FinishRun, RunStatus
<1>9. ASSUME WriteRaises PROVE TypeOK'
    BY <1>9 DEF WriteRaises
<1>10. ASSUME NEW o \in Op, Block(o) PROVE TypeOK'
    BY <1>10 DEF Block, Holders
<1>11. ASSUME NEW o \in Op, HandlerCloses(o) PROVE TypeOK'
    BY <1>11 DEF HandlerCloses, HandlerStatus
<1>12. ASSUME NEW o \in Op, StartOperation(o) PROVE TypeOK'
    BY <1>12 DEF StartOperation
<1>13. ASSUME NEW o \in Op, CancelQueued(o) PROVE TypeOK'
    BY <1>13 DEF CancelQueued
<1>14. ASSUME NEW o \in Op, Record(o) PROVE TypeOK'
    BY <1>14 DEF Record
<1>15. ASSUME NEW o \in Op, RecordFails(o) PROVE TypeOK'
    BY <1>15 DEF RecordFails
<1>16. ASSUME NEW o \in Op, CloseOperation(o) PROVE TypeOK'
    BY <1>16 DEF CloseOperation, RowStatus
<1>17. ASSUME NEW o \in Op, CloseRaises(o) PROVE TypeOK'
    BY <1>17 DEF CloseRaises
<1>18. ASSUME NEW o \in Op, AdapterReturns(o) PROVE TypeOK'
    BY <1>18 DEF AdapterReturns
<1>19. ASSUME NEW o \in Op, AdapterRaises(o) PROVE TypeOK'
    BY <1>19 DEF AdapterRaises
<1>20. ASSUME CancelSync PROVE TypeOK'
    BY <1>20 DEF CancelSync
<1>21. ASSUME CloseHandle PROVE TypeOK'
    BY <1>21 DEF CloseHandle
<1>22. ASSUME Crash PROVE TypeOK'
    BY <1>22 DEF Crash
<1>23. ASSUME Recover PROVE TypeOK'
    BY <1>23 DEF Recover
<1>24. ASSUME Lock PROVE TypeOK'
    BY <1>24 DEF Lock
<1>25. ASSUME Unlock PROVE TypeOK'
    BY <1>25 DEF Unlock
<1>26. CASE UNCHANGED vars
    BY <1>26 DEF vars
<1> QED
    BY <1>1, <1>2, <1>3, <1>4, <1>5, <1>6, <1>7, <1>8, <1>9, <1>10, <1>11, <1>12,
        <1>13, <1>14, <1>15, <1>16, <1>17, <1>18, <1>19, <1>20, <1>21, <1>22,
        <1>23, <1>24, <1>25, <1>26 DEF Next, Main, Step, Adapter, Environment

\* Coroutines and rows move together, whoever closes the row.
LEMMA RowsStep ==
    TypeOK /\ RowsFollow /\ WavesAreClosed /\ [Next]_vars
    => RowsFollow'
<1> SUFFICES ASSUME TypeOK /\ RowsFollow /\ WavesAreClosed, [Next]_vars
             PROVE  RowsFollow'
    OBVIOUS
<1> USE DEF TypeOK, RunTerminal, OpTerminal, Mains, Tasks, RowsFollow,
    WavesAreClosed, RowStatus, rows, db, coro
<1>1. ASSUME StartRun PROVE RowsFollow'
    BY <1>1 DEF StartRun
<1>2. ASSUME RejectPlan PROVE RowsFollow'
    BY <1>2 DEF RejectPlan
<1>3. ASSUME FormWave PROVE RowsFollow'
    BY <1>3 DEF FormWave, Ready
<1>4. ASSUME Dispatch PROVE RowsFollow'
    BY <1>4 DEF Dispatch, Holders, Unsuccessful
<1>5. ASSUME Gathered PROVE RowsFollow'
    BY <1>5 DEF Gathered, LoopFree
<1>6. ASSUME GatherRaises PROVE RowsFollow'
    BY <1>6 DEF GatherRaises, LoopFree
<1>7. ASSUME HandlerEnds PROVE RowsFollow'
    BY <1>7 DEF HandlerEnds, HandlerStatus
<1>8. ASSUME FinishRun PROVE RowsFollow'
    BY <1>8 DEF FinishRun, RunStatus
<1>9. ASSUME WriteRaises PROVE RowsFollow'
    BY <1>9 DEF WriteRaises
<1>10. ASSUME NEW o \in Op, Block(o) PROVE RowsFollow'
    BY <1>10 DEF Block, Holders
<1>11. ASSUME NEW o \in Op, HandlerCloses(o) PROVE RowsFollow'
    BY <1>11 DEF HandlerCloses, HandlerStatus
<1>12. ASSUME NEW o \in Op, StartOperation(o) PROVE RowsFollow'
    BY <1>12 DEF StartOperation
<1>13. ASSUME NEW o \in Op, CancelQueued(o) PROVE RowsFollow'
    BY <1>13 DEF CancelQueued
<1>14. ASSUME NEW o \in Op, Record(o) PROVE RowsFollow'
    BY <1>14 DEF Record
<1>15. ASSUME NEW o \in Op, RecordFails(o) PROVE RowsFollow'
    BY <1>15 DEF RecordFails
<1>16. ASSUME NEW o \in Op, CloseOperation(o) PROVE RowsFollow'
    BY <1>16 DEF CloseOperation, RowStatus
<1>17. ASSUME NEW o \in Op, CloseRaises(o) PROVE RowsFollow'
    BY <1>17 DEF CloseRaises
<1>18. ASSUME NEW o \in Op, AdapterReturns(o) PROVE RowsFollow'
    BY <1>18 DEF AdapterReturns
<1>19. ASSUME NEW o \in Op, AdapterRaises(o) PROVE RowsFollow'
    BY <1>19 DEF AdapterRaises
<1>20. ASSUME CancelSync PROVE RowsFollow'
    BY <1>20 DEF CancelSync
<1>21. ASSUME CloseHandle PROVE RowsFollow'
    BY <1>21 DEF CloseHandle
<1>22. ASSUME Crash PROVE RowsFollow'
    BY <1>22 DEF Crash
<1>23. ASSUME Recover PROVE RowsFollow'
    BY <1>23 DEF Recover
<1>24. ASSUME Lock PROVE RowsFollow'
    BY <1>24 DEF Lock
<1>25. ASSUME Unlock PROVE RowsFollow'
    BY <1>25 DEF Unlock
<1>26. CASE UNCHANGED vars
    BY <1>26 DEF vars
<1> QED
    BY <1>1, <1>2, <1>3, <1>4, <1>5, <1>6, <1>7, <1>8, <1>9, <1>10, <1>11, <1>12,
        <1>13, <1>14, <1>15, <1>16, <1>17, <1>18, <1>19, <1>20, <1>21, <1>22,
        <1>23, <1>24, <1>25, <1>26 DEF Next, Main, Step, Adapter, Environment

\* The executor leaves a wave behind only when all of it has returned.
LEMMA WavesStep == TypeOK /\ WavesAreClosed /\ [Next]_vars => WavesAreClosed'
<1> SUFFICES ASSUME TypeOK /\ WavesAreClosed, [Next]_vars PROVE WavesAreClosed'
    OBVIOUS
<1> USE DEF TypeOK, RunTerminal, OpTerminal, Mains, Tasks, WavesAreClosed,
    LoopFree, Holders, rows, db, coro
<1>1. ASSUME StartRun PROVE WavesAreClosed'
    BY <1>1 DEF StartRun
<1>2. ASSUME RejectPlan PROVE WavesAreClosed'
    BY <1>2 DEF RejectPlan
<1>3. ASSUME FormWave PROVE WavesAreClosed'
    BY <1>3 DEF FormWave, Ready
<1>4. ASSUME Dispatch PROVE WavesAreClosed'
    BY <1>4 DEF Dispatch, Holders, Unsuccessful
<1>5. ASSUME Gathered PROVE WavesAreClosed'
    BY <1>5 DEF Gathered, LoopFree
<1>6. ASSUME GatherRaises PROVE WavesAreClosed'
    BY <1>6 DEF GatherRaises, LoopFree
<1>7. ASSUME HandlerEnds PROVE WavesAreClosed'
    BY <1>7 DEF HandlerEnds, HandlerStatus
<1>8. ASSUME FinishRun PROVE WavesAreClosed'
    BY <1>8 DEF FinishRun, RunStatus
<1>9. ASSUME WriteRaises PROVE WavesAreClosed'
    BY <1>9 DEF WriteRaises
<1>10. ASSUME NEW o \in Op, Block(o) PROVE WavesAreClosed'
    BY <1>10 DEF Block, Holders
<1>11. ASSUME NEW o \in Op, HandlerCloses(o) PROVE WavesAreClosed'
    BY <1>11 DEF HandlerCloses, HandlerStatus
<1>12. ASSUME NEW o \in Op, StartOperation(o) PROVE WavesAreClosed'
    BY <1>12 DEF StartOperation
<1>13. ASSUME NEW o \in Op, CancelQueued(o) PROVE WavesAreClosed'
    BY <1>13 DEF CancelQueued
<1>14. ASSUME NEW o \in Op, Record(o) PROVE WavesAreClosed'
    BY <1>14 DEF Record
<1>15. ASSUME NEW o \in Op, RecordFails(o) PROVE WavesAreClosed'
    BY <1>15 DEF RecordFails
<1>16. ASSUME NEW o \in Op, CloseOperation(o) PROVE WavesAreClosed'
    BY <1>16 DEF CloseOperation, RowStatus
<1>17. ASSUME NEW o \in Op, CloseRaises(o) PROVE WavesAreClosed'
    BY <1>17 DEF CloseRaises
<1>18. ASSUME NEW o \in Op, AdapterReturns(o) PROVE WavesAreClosed'
    BY <1>18 DEF AdapterReturns
<1>19. ASSUME NEW o \in Op, AdapterRaises(o) PROVE WavesAreClosed'
    BY <1>19 DEF AdapterRaises
<1>20. ASSUME CancelSync PROVE WavesAreClosed'
    BY <1>20 DEF CancelSync
<1>21. ASSUME CloseHandle PROVE WavesAreClosed'
    BY <1>21 DEF CloseHandle
<1>22. ASSUME Crash PROVE WavesAreClosed'
    BY <1>22 DEF Crash
<1>23. ASSUME Recover PROVE WavesAreClosed'
    BY <1>23 DEF Recover
<1>24. ASSUME Lock PROVE WavesAreClosed'
    BY <1>24 DEF Lock
<1>25. ASSUME Unlock PROVE WavesAreClosed'
    BY <1>25 DEF Unlock
<1>26. CASE UNCHANGED vars
    BY <1>26 DEF vars
<1> QED
    BY <1>1, <1>2, <1>3, <1>4, <1>5, <1>6, <1>7, <1>8, <1>9, <1>10, <1>11, <1>12,
        <1>13, <1>14, <1>15, <1>16, <1>17, <1>18, <1>19, <1>20, <1>21, <1>22,
        <1>23, <1>24, <1>25, <1>26 DEF Next, Main, Step, Adapter, Environment

\* A wave is dispatched over recorded successes, and those are final.
LEMMA DispatchStep == IInv /\ [Next]_vars => DispatchedAfterDependencies'
<1> SUFFICES ASSUME IInv, [Next]_vars PROVE DispatchedAfterDependencies'
    OBVIOUS
<1> USE DEF IInv, TypeOK, RunTerminal, OpTerminal, Mains, Tasks, RowsFollow,
    WavesAreClosed, DispatchedAfterDependencies, RowStatus, rows, db, coro
<1>1. ASSUME StartRun PROVE DispatchedAfterDependencies'
    BY <1>1 DEF StartRun
<1>2. ASSUME RejectPlan PROVE DispatchedAfterDependencies'
    BY <1>2 DEF RejectPlan
<1>3. ASSUME FormWave PROVE DispatchedAfterDependencies'
    BY <1>3 DEF FormWave, Ready
<1>4. ASSUME Dispatch PROVE DispatchedAfterDependencies'
    BY <1>4 DEF Dispatch, Holders, Unsuccessful
<1>5. ASSUME Gathered PROVE DispatchedAfterDependencies'
    BY <1>5 DEF Gathered, LoopFree
<1>6. ASSUME GatherRaises PROVE DispatchedAfterDependencies'
    BY <1>6 DEF GatherRaises, LoopFree
<1>7. ASSUME HandlerEnds PROVE DispatchedAfterDependencies'
    BY <1>7 DEF HandlerEnds, HandlerStatus
<1>8. ASSUME FinishRun PROVE DispatchedAfterDependencies'
    BY <1>8 DEF FinishRun, RunStatus
<1>9. ASSUME WriteRaises PROVE DispatchedAfterDependencies'
    BY <1>9 DEF WriteRaises
<1>10. ASSUME NEW o \in Op, Block(o) PROVE DispatchedAfterDependencies'
    BY <1>10 DEF Block, Holders
<1>11. ASSUME NEW o \in Op, HandlerCloses(o) PROVE DispatchedAfterDependencies'
    BY <1>11 DEF HandlerCloses, HandlerStatus
<1>12. ASSUME NEW o \in Op, StartOperation(o) PROVE DispatchedAfterDependencies'
    BY <1>12 DEF StartOperation
<1>13. ASSUME NEW o \in Op, CancelQueued(o) PROVE DispatchedAfterDependencies'
    BY <1>13 DEF CancelQueued
<1>14. ASSUME NEW o \in Op, Record(o) PROVE DispatchedAfterDependencies'
    BY <1>14 DEF Record
<1>15. ASSUME NEW o \in Op, RecordFails(o) PROVE DispatchedAfterDependencies'
    BY <1>15 DEF RecordFails
<1>16. ASSUME NEW o \in Op, CloseOperation(o) PROVE DispatchedAfterDependencies'
    BY <1>16 DEF CloseOperation, RowStatus
<1>17. ASSUME NEW o \in Op, CloseRaises(o) PROVE DispatchedAfterDependencies'
    BY <1>17 DEF CloseRaises
<1>18. ASSUME NEW o \in Op, AdapterReturns(o) PROVE DispatchedAfterDependencies'
    BY <1>18 DEF AdapterReturns
<1>19. ASSUME NEW o \in Op, AdapterRaises(o) PROVE DispatchedAfterDependencies'
    BY <1>19 DEF AdapterRaises
<1>20. ASSUME CancelSync PROVE DispatchedAfterDependencies'
    BY <1>20 DEF CancelSync
<1>21. ASSUME CloseHandle PROVE DispatchedAfterDependencies'
    BY <1>21 DEF CloseHandle
<1>22. ASSUME Crash PROVE DispatchedAfterDependencies'
    BY <1>22 DEF Crash
<1>23. ASSUME Recover PROVE DispatchedAfterDependencies'
    BY <1>23 DEF Recover
<1>24. ASSUME Lock PROVE DispatchedAfterDependencies'
    BY <1>24 DEF Lock
<1>25. ASSUME Unlock PROVE DispatchedAfterDependencies'
    BY <1>25 DEF Unlock
<1>26. CASE UNCHANGED vars
    BY <1>26 DEF vars
<1> QED
    BY <1>1, <1>2, <1>3, <1>4, <1>5, <1>6, <1>7, <1>8, <1>9, <1>10, <1>11, <1>12,
        <1>13, <1>14, <1>15, <1>16, <1>17, <1>18, <1>19, <1>20, <1>21, <1>22,
        <1>23, <1>24, <1>25, <1>26 DEF Next, Main, Step, Adapter, Environment

\* The verdicts a run's status is computed from are the rows.
LEMMA StatusStep == IInv /\ [Next]_vars => StatusTellsTheTruth'
<1> SUFFICES ASSUME IInv, [Next]_vars PROVE StatusTellsTheTruth'
    OBVIOUS
<1> USE DEF IInv, TypeOK, RunTerminal, OpTerminal, Mains, Tasks, RowsFollow,
    WavesAreClosed, StatusTellsTheTruth, RowStatus, rows, db, coro
<1>1. ASSUME StartRun PROVE StatusTellsTheTruth'
    BY <1>1 DEF StartRun
<1>2. ASSUME RejectPlan PROVE StatusTellsTheTruth'
    BY <1>2 DEF RejectPlan
<1>3. ASSUME FormWave PROVE StatusTellsTheTruth'
    BY <1>3 DEF FormWave, Ready
<1>4. ASSUME Dispatch PROVE StatusTellsTheTruth'
    BY <1>4 DEF Dispatch, Holders, Unsuccessful
<1>5. ASSUME Gathered PROVE StatusTellsTheTruth'
    BY <1>5 DEF Gathered, LoopFree
<1>6. ASSUME GatherRaises PROVE StatusTellsTheTruth'
    BY <1>6 DEF GatherRaises, LoopFree
<1>7. ASSUME HandlerEnds PROVE StatusTellsTheTruth'
    BY <1>7 DEF HandlerEnds, HandlerStatus
<1>8. ASSUME FinishRun PROVE StatusTellsTheTruth'
    BY <1>8 DEF FinishRun, RunStatus
<1>9. ASSUME WriteRaises PROVE StatusTellsTheTruth'
    BY <1>9 DEF WriteRaises
<1>10. ASSUME NEW o \in Op, Block(o) PROVE StatusTellsTheTruth'
    BY <1>10 DEF Block, Holders
<1>11. ASSUME NEW o \in Op, HandlerCloses(o) PROVE StatusTellsTheTruth'
    BY <1>11 DEF HandlerCloses, HandlerStatus
<1>12. ASSUME NEW o \in Op, StartOperation(o) PROVE StatusTellsTheTruth'
    BY <1>12 DEF StartOperation
<1>13. ASSUME NEW o \in Op, CancelQueued(o) PROVE StatusTellsTheTruth'
    BY <1>13 DEF CancelQueued
<1>14. ASSUME NEW o \in Op, Record(o) PROVE StatusTellsTheTruth'
    BY <1>14 DEF Record
<1>15. ASSUME NEW o \in Op, RecordFails(o) PROVE StatusTellsTheTruth'
    BY <1>15 DEF RecordFails
<1>16. ASSUME NEW o \in Op, CloseOperation(o) PROVE StatusTellsTheTruth'
    BY <1>16 DEF CloseOperation, RowStatus
<1>17. ASSUME NEW o \in Op, CloseRaises(o) PROVE StatusTellsTheTruth'
    BY <1>17 DEF CloseRaises
<1>18. ASSUME NEW o \in Op, AdapterReturns(o) PROVE StatusTellsTheTruth'
    BY <1>18 DEF AdapterReturns
<1>19. ASSUME NEW o \in Op, AdapterRaises(o) PROVE StatusTellsTheTruth'
    BY <1>19 DEF AdapterRaises
<1>20. ASSUME CancelSync PROVE StatusTellsTheTruth'
    BY <1>20 DEF CancelSync
<1>21. ASSUME CloseHandle PROVE StatusTellsTheTruth'
    BY <1>21 DEF CloseHandle
<1>22. ASSUME Crash PROVE StatusTellsTheTruth'
    BY <1>22 DEF Crash
<1>23. ASSUME Recover PROVE StatusTellsTheTruth'
    BY <1>23 DEF Recover
<1>24. ASSUME Lock PROVE StatusTellsTheTruth'
    BY <1>24 DEF Lock
<1>25. ASSUME Unlock PROVE StatusTellsTheTruth'
    BY <1>25 DEF Unlock
<1>26. CASE UNCHANGED vars
    BY <1>26 DEF vars
<1> QED
    BY <1>1, <1>2, <1>3, <1>4, <1>5, <1>6, <1>7, <1>8, <1>9, <1>10, <1>11, <1>12,
        <1>13, <1>14, <1>15, <1>16, <1>17, <1>18, <1>19, <1>20, <1>21, <1>22,
        <1>23, <1>24, <1>25, <1>26 DEF Next, Main, Step, Adapter, Environment

\* The run ends by itself only after gather has collected every coroutine.
LEMMA EndedStep == IInv /\ [Next]_vars => EndedIsOver'
<1> SUFFICES ASSUME IInv, [Next]_vars PROVE EndedIsOver'
    OBVIOUS
<1> USE DEF IInv, TypeOK, RunTerminal, OpTerminal, Mains, Tasks, RowsFollow,
    WavesAreClosed, EndedIsOver, RowStatus, rows, db, coro
<1>1. ASSUME StartRun PROVE EndedIsOver'
    BY <1>1 DEF StartRun
<1>2. ASSUME RejectPlan PROVE EndedIsOver'
    BY <1>2 DEF RejectPlan
<1>3. ASSUME FormWave PROVE EndedIsOver'
    BY <1>3 DEF FormWave, Ready
<1>4. ASSUME Dispatch PROVE EndedIsOver'
    BY <1>4 DEF Dispatch, Holders, Unsuccessful
<1>5. ASSUME Gathered PROVE EndedIsOver'
    BY <1>5 DEF Gathered, LoopFree
<1>6. ASSUME GatherRaises PROVE EndedIsOver'
    BY <1>6 DEF GatherRaises, LoopFree
<1>7. ASSUME HandlerEnds PROVE EndedIsOver'
    BY <1>7 DEF HandlerEnds, HandlerStatus
<1>8. ASSUME FinishRun PROVE EndedIsOver'
    BY <1>8 DEF FinishRun, RunStatus
<1>9. ASSUME WriteRaises PROVE EndedIsOver'
    BY <1>9 DEF WriteRaises
<1>10. ASSUME NEW o \in Op, Block(o) PROVE EndedIsOver'
    BY <1>10 DEF Block, Holders
<1>11. ASSUME NEW o \in Op, HandlerCloses(o) PROVE EndedIsOver'
    BY <1>11 DEF HandlerCloses, HandlerStatus
<1>12. ASSUME NEW o \in Op, StartOperation(o) PROVE EndedIsOver'
    BY <1>12 DEF StartOperation
<1>13. ASSUME NEW o \in Op, CancelQueued(o) PROVE EndedIsOver'
    BY <1>13 DEF CancelQueued
<1>14. ASSUME NEW o \in Op, Record(o) PROVE EndedIsOver'
    BY <1>14 DEF Record
<1>15. ASSUME NEW o \in Op, RecordFails(o) PROVE EndedIsOver'
    BY <1>15 DEF RecordFails
<1>16. ASSUME NEW o \in Op, CloseOperation(o) PROVE EndedIsOver'
    BY <1>16 DEF CloseOperation, RowStatus
<1>17. ASSUME NEW o \in Op, CloseRaises(o) PROVE EndedIsOver'
    BY <1>17 DEF CloseRaises
<1>18. ASSUME NEW o \in Op, AdapterReturns(o) PROVE EndedIsOver'
    BY <1>18 DEF AdapterReturns
<1>19. ASSUME NEW o \in Op, AdapterRaises(o) PROVE EndedIsOver'
    BY <1>19 DEF AdapterRaises
<1>20. ASSUME CancelSync PROVE EndedIsOver'
    BY <1>20 DEF CancelSync
<1>21. ASSUME CloseHandle PROVE EndedIsOver'
    BY <1>21 DEF CloseHandle
<1>22. ASSUME Crash PROVE EndedIsOver'
    BY <1>22 DEF Crash
<1>23. ASSUME Recover PROVE EndedIsOver'
    BY <1>23 DEF Recover
<1>24. ASSUME Lock PROVE EndedIsOver'
    BY <1>24 DEF Lock
<1>25. ASSUME Unlock PROVE EndedIsOver'
    BY <1>25 DEF Unlock
<1>26. CASE UNCHANGED vars
    BY <1>26 DEF vars
<1> QED
    BY <1>1, <1>2, <1>3, <1>4, <1>5, <1>6, <1>7, <1>8, <1>9, <1>10, <1>11, <1>12,
        <1>13, <1>14, <1>15, <1>16, <1>17, <1>18, <1>19, <1>20, <1>21, <1>22,
        <1>23, <1>24, <1>25, <1>26 DEF Next, Main, Step, Adapter, Environment

-----------------------------------------------------------------------------
\* Nothing has started: the invariant holds.
LEMMA InitHolds == Init => IInv
<1> SUFFICES ASSUME Init PROVE IInv
    OBVIOUS
<1>1. TypeOK
    <2>1. locks \in 0 .. MaxLocks
        BY LocksAssumption DEF Init
    <2> QED
        BY <2>1 DEF Init, TypeOK, RunTerminal, OpTerminal, Mains, Tasks
<1>2. RowsFollow /\ WavesAreClosed
    BY DEF Init, RowsFollow, WavesAreClosed
<1>3. DispatchedAfterDependencies /\ StatusTellsTheTruth /\ EndedIsOver
    BY DEF Init, DispatchedAfterDependencies, StatusTellsTheTruth, EndedIsOver
<1> QED
    BY <1>1, <1>2, <1>3 DEF IInv

\* The conjuncts of the invariant hold of every reachable state together.
THEOREM IInvHolds == Spec => []IInv
<1>1. IInv /\ [Next]_vars => IInv'
    <2>1. IInv => TypeOK /\ RowsFollow /\ WavesAreClosed
        BY DEF IInv
    <2> QED
        BY <2>1, TypeStep, RowsStep, WavesStep, DispatchStep, StatusStep, EndedStep
        DEF IInv
<1> QED
    BY <1>1, InitHolds, PTL DEF Spec

\* Type correctness of the rows, the coroutines and the executor.
THEOREM TypeCorrect == Spec => []TypeOK
<1>1. IInv => TypeOK
    BY DEF IInv
<1> QED
    BY <1>1, IInvHolds, PTL

\* For any plan, nothing is acquired or published before its dependencies have
\* been recorded as succeeded.
THEOREM DependenciesComeFirst == Spec => []DependenciesFirst
<1>1. IInv => DependenciesFirst
    BY DEF IInv, DispatchedAfterDependencies, DependenciesFirst
<1> QED
    BY <1>1, IInvHolds, PTL

\* For any plan, locks, cancellations and crashes, a run's status and its
\* operations' rows tell the same story.
THEOREM StatusIsTrue == Spec => []StatusTellsTheTruth
<1>1. IInv => StatusTellsTheTruth
    BY DEF IInv
<1> QED
    BY <1>1, IInvHolds, PTL

\* Once a run has ended by itself no later step, of an orphan or of recovery,
\* touches its rows or evidence.
THEOREM EndedRunsStay == Spec => EndedRunsAreHistory
<1>1. IInv /\ [Next]_vars => [(run \in {"succeeded", "partial"}) => UNCHANGED rows]_vars
    <2> SUFFICES ASSUME IInv, [Next]_vars, run \in {"succeeded", "partial"}
                 PROVE  UNCHANGED rows
        OBVIOUS
    <2> USE DEF IInv, EndedIsOver, TypeOK, RowsFollow, rows, db, coro
    <2>1. ASSUME Main PROVE UNCHANGED rows
        BY <2>1 DEF Main, StartRun, RejectPlan, FormWave, Dispatch, Gathered,
           GatherRaises, HandlerEnds, FinishRun, WriteRaises, Block, HandlerCloses
    <2>2. ASSUME NEW o \in Op, Step(o) PROVE UNCHANGED rows
        BY <2>2 DEF Step, StartOperation, CancelQueued, Record, RecordFails,
           CloseOperation, CloseRaises
    <2>3. ASSUME NEW o \in Op, Adapter(o) PROVE UNCHANGED rows
        BY <2>3 DEF Adapter, AdapterReturns, AdapterRaises
    <2>4. ASSUME Recover PROVE UNCHANGED rows
        <3>1. row' = [o \in Op |-> row[o]]
            BY <2>4 DEF Recover
        <3> QED
            BY <2>4, <3>1 DEF Recover
    <2>5. ASSUME Environment, ~Recover PROVE UNCHANGED rows
        BY <2>5 DEF Environment, CancelSync, CloseHandle, Crash, Lock, Unlock
    <2>6. CASE UNCHANGED vars
        BY <2>6 DEF vars
    <2> QED
        BY <2>1, <2>2, <2>3, <2>4, <2>5, <2>6 DEF Next
<1> QED
    BY <1>1, IInvHolds, PTL DEF Spec, EndedRunsAreHistory

-----------------------------------------------------------------------------
\* Whoever was dispatched is of the wave in hand, whose semaphore has no more than
\* its permits taken: the wave is not formed anew over what an error orphans.
PermitsAreTaken ==
    /\ \A o \in Op : task[o] \in {"queued", "acquiring", "recording"} => o \in wave
    /\ IsFiniteSet(Active) /\ Cardinality(Active) <= MaxConcurrency

\* A part of what is active is as finite, and no larger.
LEMMA FewerAreBounded ==
    ASSUME PermitsAreTaken, NEW S, S \subseteq Active
    PROVE  IsFiniteSet(S) /\ Cardinality(S) <= MaxConcurrency
<1>1. IsFiniteSet(S) /\ Cardinality(S) <= Cardinality(Active)
    BY FS_Subset DEF PermitsAreTaken
<1>2. Cardinality(S) \in Nat /\ Cardinality(Active) \in Nat
    BY <1>1, FS_CardinalityType DEF PermitsAreTaken
<1> QED BY <1>1, <1>2, ConcurrencyAssumption DEF PermitsAreTaken

\* Only StartOperation and Block make an operation active, and Block finds none.
LEMMA PermitsStep ==
    TypeOK /\ WavesAreClosed /\ PermitsAreTaken /\ [Next]_vars => PermitsAreTaken'
<1> SUFFICES ASSUME TypeOK, WavesAreClosed, PermitsAreTaken, [Next]_vars
             PROVE  PermitsAreTaken'
    OBVIOUS
<1> USE DEF TypeOK, rows, db, coro
<1>1. ASSUME NEW o \in Op, StartOperation(o)
      PROVE  PermitsAreTaken'
    <2>1. /\ o \in wave /\ o \notin Active /\ Cardinality(Active) < MaxConcurrency
          /\ Active' \subseteq Active \cup {o}
          /\ \A q \in Op : task'[q] \in {"queued", "acquiring", "recording"} => q \in wave'
        BY <1>1 DEF StartOperation, PermitsAreTaken, Active
    <2>2. /\ IsFiniteSet(Active \cup {o})
          /\ Cardinality(Active \cup {o}) = Cardinality(Active) + 1
        BY <2>1, FS_AddElement DEF PermitsAreTaken
    <2>3. IsFiniteSet(Active') /\ Cardinality(Active') <= Cardinality(Active \cup {o})
        BY <2>1, <2>2, FS_Subset
    <2>4. Cardinality(Active) \in Nat /\ Cardinality(Active') \in Nat
        BY <2>3, FS_CardinalityType DEF PermitsAreTaken
    <2>5. Cardinality(Active') <= MaxConcurrency
        BY <2>1, <2>2, <2>3, <2>4, ConcurrencyAssumption
    <2> QED BY <2>1, <2>3, <2>5 DEF PermitsAreTaken
<1>2. ASSUME NEW o \in Op, Block(o)
      PROVE  PermitsAreTaken'
    <2>1. /\ Active' \subseteq {o}
          /\ \A q \in Op : task'[q] \in {"queued", "acquiring", "recording"} => q \in wave'
        BY <1>2 DEF Block, WavesAreClosed, Holders, Active
    <2>2. IsFiniteSet({o}) /\ Cardinality({o}) = 1
        BY FS_Singleton
    <2>3. IsFiniteSet(Active') /\ Cardinality(Active') <= 1
        BY <2>1, <2>2, FS_Subset
    <2>4. Cardinality(Active') \in Nat
        BY <2>3, FS_CardinalityType
    <2> QED BY <2>1, <2>3, <2>4, ConcurrencyAssumption DEF PermitsAreTaken
<1>3. ASSUME /\ Active' \subseteq Active
             /\ \A q \in Op : task'[q] \in {"queued", "acquiring", "recording"} => q \in wave'
      PROVE  PermitsAreTaken'
    BY <1>3, FewerAreBounded DEF PermitsAreTaken
<1>4. CASE FormWave
    <2>1. \A o \in Op : task[o] \in {"planned", "returned"}
        BY <1>4 DEF FormWave, WavesAreClosed
    <2>2. \A o \in wave' : o \in Op /\ task[o] = "planned"
        BY <1>4 DEF FormWave, Ready
    <2> QED BY <1>3, <1>4, <2>1, <2>2 DEF FormWave, Active
<1>5. CASE Dispatch
    BY <1>3, <1>5 DEF Dispatch, Active, PermitsAreTaken
<1>6. CASE StartRun \/ RejectPlan \/ Gathered \/ GatherRaises \/ HandlerEnds
           \/ FinishRun \/ WriteRaises
    BY <1>3, <1>6 DEF StartRun, RejectPlan, Gathered, GatherRaises, HandlerEnds,
       FinishRun, WriteRaises, Active, PermitsAreTaken
<1>7. ASSUME NEW o \in Op, HandlerCloses(o)
      PROVE  PermitsAreTaken'
    BY <1>3, <1>7 DEF HandlerCloses, Active, PermitsAreTaken
<1>8. ASSUME NEW o \in Op, CancelQueued(o) \/ Adapter(o)
      PROVE  PermitsAreTaken'
    BY <1>3, <1>8 DEF CancelQueued, Adapter, AdapterReturns, AdapterRaises, Active,
       PermitsAreTaken
<1>9. ASSUME NEW o \in Op, Record(o) \/ RecordFails(o)
      PROVE  PermitsAreTaken'
    BY <1>3, <1>9 DEF Record, RecordFails, Active, PermitsAreTaken
<1>10. ASSUME NEW o \in Op, CloseOperation(o) \/ CloseRaises(o)
       PROVE  PermitsAreTaken'
    BY <1>3, <1>10 DEF CloseOperation, CloseRaises, Active, PermitsAreTaken
<1>11. CASE Environment \/ UNCHANGED vars
    BY <1>3, <1>11 DEF Environment, CancelSync, CloseHandle, Crash, Recover, Lock,
       Unlock, vars, Active, PermitsAreTaken
<1> QED
    BY <1>1, <1>2, <1>4, <1>5, <1>6, <1>7, <1>8, <1>9, <1>10, <1>11
    DEF Next, Main, Step

LEMMA PermitsInit == Init => PermitsAreTaken
<1> SUFFICES ASSUME Init PROVE PermitsAreTaken
    OBVIOUS
<1>1. Active = {}
    BY DEF Init, Active
<1>2. IsFiniteSet({}) /\ Cardinality({}) = 0
    BY FS_EmptySet
<1> QED BY <1>1, <1>2, ConcurrencyAssumption DEF Init, PermitsAreTaken

THEOREM PermitsHold == Spec => []PermitsAreTaken
<1>1. IInv /\ PermitsAreTaken /\ [Next]_vars => PermitsAreTaken'
    BY PermitsStep DEF IInv
<1> QED
    BY <1>1, PermitsInit, IInvHolds, PTL DEF Spec

\* However many operations a wave has, and whatever a failure orphans, no more
\* adapters work at a time than the request allows.
THEOREM ConcurrencyStaysBounded == Spec => []ConcurrencyIsBounded
<1>1. TypeOK /\ PermitsAreTaken => ConcurrencyIsBounded
    <2> SUFFICES ASSUME TypeOK, PermitsAreTaken PROVE ConcurrencyIsBounded
        OBVIOUS
    <2>1. {o \in Op : task[o] = "acquiring"} \subseteq Active
        BY DEF PermitsAreTaken, Active
    <2> QED BY <2>1, FewerAreBounded DEF ConcurrencyIsBounded
<1> QED
    BY <1>1, PermitsHold, TypeCorrect, PTL

-----------------------------------------------------------------------------
(* Isolation.                                                               *)

\* Without audits and cancellations an operation that has been dispatched has
\* its executor behind it, and from its start to its end its row is open.
CalmIsOrderly ==
    locks = 0 /\ ~cancelReq =>
        /\ ~locked /\ main # "cancelling"
        /\ \A o \in Op :
            /\ task[o] \notin {"raised", "cancelled"}
            /\ task[o] \in {"queued", "acquiring", "recording"} => main = "gathering"
            /\ task[o] = "closing" =>
                   main \in {"gathering", "blocking"} /\ verdict[o] # "cancelled"
            /\ task[o] \in {"acquiring", "recording", "closing"} => row[o] = "running"

\* Only a locked database or a cancellation makes a step raise.
LEMMA CalmStep == IInv /\ CalmIsOrderly /\ [Next]_vars => CalmIsOrderly'
<1> SUFFICES ASSUME IInv, CalmIsOrderly, [Next]_vars PROVE CalmIsOrderly'
    OBVIOUS
<1> USE DEF IInv, TypeOK, RunTerminal, OpTerminal, Mains, Tasks, RowsFollow,
    WavesAreClosed, CalmIsOrderly, CanWrite, rows, db, coro
<1>1. ASSUME StartRun PROVE CalmIsOrderly'
    BY <1>1 DEF StartRun
<1>2. ASSUME RejectPlan PROVE CalmIsOrderly'
    BY <1>2 DEF RejectPlan
<1>3. ASSUME FormWave PROVE CalmIsOrderly'
    BY <1>3 DEF FormWave
<1>4. ASSUME Dispatch PROVE CalmIsOrderly'
    BY <1>4 DEF Dispatch, Holders
<1>5. ASSUME Gathered PROVE CalmIsOrderly'
    BY <1>5 DEF Gathered
<1>6. ASSUME GatherRaises PROVE CalmIsOrderly'
    BY <1>6 DEF GatherRaises
<1>7. ASSUME HandlerEnds PROVE CalmIsOrderly'
    BY <1>7 DEF HandlerEnds
<1>8. ASSUME FinishRun PROVE CalmIsOrderly'
    BY <1>8 DEF FinishRun
<1>9. ASSUME WriteRaises PROVE CalmIsOrderly'
    BY <1>9 DEF WriteRaises
<1>10. ASSUME NEW o \in Op, Block(o) PROVE CalmIsOrderly'
    BY <1>10 DEF Block, Holders
<1>11. ASSUME NEW o \in Op, HandlerCloses(o) PROVE CalmIsOrderly'
    BY <1>11 DEF HandlerCloses
<1>12. ASSUME NEW o \in Op, StartOperation(o) PROVE CalmIsOrderly'
    BY <1>12 DEF StartOperation
<1>13. ASSUME NEW o \in Op, CancelQueued(o) PROVE CalmIsOrderly'
    BY <1>13 DEF CancelQueued
<1>14. ASSUME NEW o \in Op, Record(o) PROVE CalmIsOrderly'
    BY <1>14 DEF Record
<1>15. ASSUME NEW o \in Op, RecordFails(o) PROVE CalmIsOrderly'
    BY <1>15 DEF RecordFails
<1>16. ASSUME NEW o \in Op, CloseOperation(o) PROVE CalmIsOrderly'
    BY <1>16 DEF CloseOperation
<1>17. ASSUME NEW o \in Op, CloseRaises(o) PROVE CalmIsOrderly'
    BY <1>17 DEF CloseRaises
<1>18. ASSUME NEW o \in Op, AdapterReturns(o) PROVE CalmIsOrderly'
    BY <1>18 DEF AdapterReturns
<1>19. ASSUME NEW o \in Op, AdapterRaises(o) PROVE CalmIsOrderly'
    BY <1>19 DEF AdapterRaises
<1>20. ASSUME CancelSync PROVE CalmIsOrderly'
    BY <1>20 DEF CancelSync
<1>21. ASSUME CloseHandle PROVE CalmIsOrderly'
    BY <1>21 DEF CloseHandle
<1>22. ASSUME Crash PROVE CalmIsOrderly'
    BY <1>22 DEF Crash
<1>23. ASSUME Recover PROVE CalmIsOrderly'
    BY <1>23 DEF Recover
<1>24. ASSUME Lock PROVE CalmIsOrderly'
    BY <1>24, LocksAssumption DEF Lock
<1>25. ASSUME Unlock PROVE CalmIsOrderly'
    BY <1>25 DEF Unlock
<1>26. CASE UNCHANGED vars
    BY <1>26 DEF vars
<1> QED
    BY <1>1, <1>2, <1>3, <1>4, <1>5, <1>6, <1>7, <1>8, <1>9, <1>10, <1>11, <1>12,
        <1>13, <1>14, <1>15, <1>16, <1>17, <1>18, <1>19, <1>20, <1>21, <1>22,
        <1>23, <1>24, <1>25, <1>26 DEF Next, Main, Step, Adapter, Environment

\* Audits and cancellations are the only ways in which one operation's trouble
\* becomes another's: whatever adapters, validators and recordings do, at any
\* concurrency and in any plan, siblings go on and close their own rows.
THEOREM IsolationHoldsUntilDisturbed == Spec => []OnlyAuditsDisturb
<1>1. Init => CalmIsOrderly
    BY DEF Init, CalmIsOrderly
<1>2. IInv /\ CalmIsOrderly /\ [Next]_vars => CalmIsOrderly'
    BY CalmStep
<1>3. CalmIsOrderly => OnlyAuditsDisturb
    BY DEF CalmIsOrderly, OnlyAuditsDisturb
<1> QED
    BY <1>1, <1>2, <1>3, IInvHolds, PTL DEF Spec

-----------------------------------------------------------------------------
\* Each step of the executor is a lifecycle transition or leaves the rows alone.
LEMMA StepImplements ==
    IInv /\ [Next]_vars => [Lifecycle!Next]_<<run, row>>
<1> SUFFICES ASSUME IInv, [Next]_vars PROVE Lifecycle!Next \/ UNCHANGED <<run, row>>
    OBVIOUS
<1> USE DEF IInv, TypeOK, RowsFollow, rows, db, coro, RunTerminal, OpTerminal,
        Lifecycle!RunTerminal, Lifecycle!OpTerminal, Lifecycle!Next
<1>1. ASSUME StartRun PROVE Lifecycle!Next
    BY <1>1 DEF StartRun, Lifecycle!StartRun
<1>2. ASSUME RejectPlan \/ FormWave \/ Dispatch \/ Gathered \/ GatherRaises \/ WriteRaises
      PROVE  UNCHANGED <<run, row>>
    BY <1>2 DEF RejectPlan, FormWave, Dispatch, Gathered, GatherRaises, WriteRaises
<1>3. ASSUME HandlerEnds PROVE Lifecycle!Next
    <2>1. run = "running" /\ run' = HandlerStatus
        BY <1>3 DEF HandlerEnds
    <2> QED
        BY <1>3, <2>1 DEF HandlerEnds, HandlerStatus, Lifecycle!FinishRun
<1>4. ASSUME FinishRun PROVE Lifecycle!Next
    BY <1>4 DEF FinishRun, RunStatus, Lifecycle!FinishRun
<1>5. ASSUME NEW o \in Op, Block(o) \/ StartOperation(o)
      PROVE  Lifecycle!Next \/ UNCHANGED <<run, row>>
    BY <1>5 DEF Block, StartOperation, Lifecycle!StartOperation
<1>6. ASSUME NEW o \in Op, HandlerCloses(o) PROVE Lifecycle!Next
    BY <1>6 DEF HandlerCloses, HandlerStatus, Lifecycle!FinishOperation
<1>7. ASSUME NEW o \in Op, CloseOperation(o) PROVE Lifecycle!Next
    BY <1>7 DEF CloseOperation, RowStatus, Lifecycle!FinishOperation
<1>8. ASSUME NEW o \in Op, Adapter(o) \/ CancelQueued(o) \/ Record(o) \/ RecordFails(o)
                              \/ CloseRaises(o)
      PROVE  UNCHANGED <<run, row>>
    BY <1>8 DEF Adapter, AdapterReturns, AdapterRaises, CancelQueued, Record,
       RecordFails, CloseRaises
<1>9. ASSUME Recover PROVE Lifecycle!Next
    BY <1>9 DEF Recover, Lifecycle!Recover
<1>10. ASSUME Environment, ~Recover PROVE UNCHANGED <<run, row>>
    BY <1>10 DEF Environment, CancelSync, CloseHandle, Crash, Lock, Unlock
<1>11. CASE UNCHANGED vars
    BY <1>11 DEF vars
<1> QED
    BY <1>1, <1>2, <1>3, <1>4, <1>5, <1>6, <1>7, <1>8, <1>9, <1>10, <1>11
    DEF Next, Main, Step

\* The executor, with everything that can interrupt it, implements the abstract
\* lifecycle of runs and operations.
THEOREM ImplementsLifecycle == Spec => LifecycleSpec
<1>1. Init => Lifecycle!Init
    BY DEF Init, Lifecycle!Init
<1> QED
    BY <1>1, StepImplements, IInvHolds, PTL DEF Spec, LifecycleSpec, Lifecycle!Spec

-----------------------------------------------------------------------------
(* Syncs that are planned. *)

\* The plan in hand is the configuration's.
PlanIsConfigured ==
    config \in Configurations /\ Accepts(config) /\ deps = PlanOf(config)

PlannedInv == IInv /\ PlanIsConfigured

\* The dependencies of an operation are those of its inputs that are selected.
LEMMA DependenciesAreInputs ==
    ASSUME PlanIsConfigured, NEW o \in Op
    PROVE  /\ Operations(config) = Op
           /\ deps[o] = InputSources(config, o) \cap Selected(config)
BY ConfigurationAssumption DEF PlanIsConfigured, PlanOf, Dependencies

\* No action changes the plan.
LEMMA PlanStays == [Next]_vars => deps' = deps
BY DEF Next, Main, Step, Adapter, Environment, StartRun, RejectPlan, FormWave, Dispatch,
       Gathered, GatherRaises, HandlerEnds, FinishRun, WriteRaises, Block, HandlerCloses,
       StartOperation, CancelQueued, Record, RecordFails, CloseOperation, CloseRaises,
       AdapterReturns, AdapterRaises, CancelSync, CloseHandle, Crash, Recover, Lock,
       Unlock, vars

THEOREM PlannedInvariant == PlannedSpec => []PlannedInv
<1>1. PlannedInit => PlannedInv
    BY InitHolds DEF PlannedInit, PlannedInv, PlanIsConfigured
<1>2. PlannedInv /\ [PlannedNext]_<<vars, config>> => PlannedInv'
    <2> SUFFICES ASSUME PlannedInv, [PlannedNext]_<<vars, config>> PROVE PlannedInv'
        OBVIOUS
    <2>1. [Next]_vars /\ config' = config
        BY DEF PlannedNext
    <2>2. IInv'
        BY <2>1, TypeStep, RowsStep, WavesStep, DispatchStep, StatusStep, EndedStep
        DEF PlannedInv, IInv
    <2>3. PlanIsConfigured'
        BY <2>1, PlanStays DEF PlannedInv, PlanIsConfigured
    <2> QED BY <2>2, <2>3 DEF PlannedInv
<1> QED BY <1>1, <1>2, PTL DEF PlannedSpec

\* What is proved of the executor holds of every sync that is planned.
THEOREM PlannedSyncsAreExecutions == PlannedSpec => Spec
<1>1. PlannedInit => Init
    BY DEF PlannedInit
<1>2. [PlannedNext]_<<vars, config>> => [Next]_vars
    BY DEF PlannedNext
<1> QED BY <1>1, <1>2, PTL DEF PlannedSpec, Spec

THEOREM PlannedSyncsAreSafe ==
    PlannedSpec => /\ [](TypeOK /\ DependenciesFirst /\ StatusTellsTheTruth)
                   /\ []ConcurrencyIsBounded
                   /\ EndedRunsAreHistory /\ LifecycleSpec
<1> QED
    BY PlannedSyncsAreExecutions, TypeCorrect, DependenciesComeFirst, StatusIsTrue,
       ConcurrencyStaysBounded, EndedRunsStay, ImplementsLifecycle, PTL

-----------------------------------------------------------------------------
\* Whoever reads a source's last state reads all that its operation records in the
\* run: that operation has succeeded, and only then is the input read.
THEOREM InputsAreCurrent == PlannedSpec => InputsStayCurrent
<1>1. ASSUME PlannedInv, [PlannedNext]_<<vars, config>>,
             NEW o \in Reading, NEW s \in InputSources(config, o) \cap Op
      PROVE  published'[s] = published[s]
    <2> USE DEF PlannedInv
    <2>1. o \in Op /\ task[o] \in {"acquiring", "recording"}
        BY <1>1 DEF Reading
    <2>2. s \in Selected(config)
        <3>1. s \in PlannedSources(config) \cup PlannedTasks(config)
            BY <1>1, <2>1, DependenciesAreInputs DEF Operations
        <3>2. s \notin PlannedTasks(config)
            BY <1>1, <2>1, InputAssumption DEF PlannedTasks, PlanIsConfigured
        <3> QED BY <3>1, <3>2 DEF PlannedSources
    <2>3. s \in deps[o]
        BY <1>1, <2>1, <2>2, DependenciesAreInputs
    <2>4. row[s] = "succeeded"
        BY <1>1, <2>1, <2>3 DEF IInv, DispatchedAfterDependencies
    <2>5. published[s] = "wholly"
        BY <1>1, <2>4 DEF IInv, StatusTellsTheTruth
    <2>6. CASE \E q \in Op : Record(q)
        <3>1. PICK q \in Op : Record(q)
            BY <2>6
        <3>2. q # s
            BY <2>5, <3>1 DEF Record
        <3> QED BY <1>1, <3>1, <3>2 DEF Record, IInv, TypeOK
    <2>7. CASE ~ \E q \in Op : Record(q)
        <3>1. published' = published
            BY <1>1, <2>7
            DEF PlannedNext, Next, Main, Step, Adapter, Environment, StartRun, RejectPlan,
                FormWave, Dispatch, Gathered, GatherRaises, HandlerEnds, FinishRun,
                WriteRaises, Block, HandlerCloses, StartOperation, CancelQueued,
                RecordFails, CloseOperation, CloseRaises, AdapterReturns, AdapterRaises,
                CancelSync, CloseHandle, Crash, Recover, Lock, Unlock, vars, rows
        <3> QED BY <3>1
    <2> QED BY <2>6, <2>7
<1>2. PlannedInv /\ [PlannedNext]_<<vars, config>>
        => [\A o \in Reading : \A s \in InputSources(config, o) \cap Op :
               published'[s] = published[s]]_<<vars, config>>
    BY <1>1
<1> QED BY <1>2, PlannedInvariant, PTL DEF PlannedSpec, InputsStayCurrent

-----------------------------------------------------------------------------
\* Some of finitely many operations come first in an order.
LEMMA SomeComeFirst ==
    ASSUME NEW before, NEW T \in SUBSET Op, T # {},
           \A p \in Op : <<p, p>> \notin before,
           \A o, p, q \in Op :
               <<o, p>> \in before /\ <<p, q>> \in before => <<o, q>> \in before
    PROVE  \E m \in T : \A p \in T : <<p, m>> \notin before
<1> DEFINE Earlier(p) == {q \in T : <<q, p>> \in before}
           All == {Earlier(p) : p \in T}
<1>1. IsWellFoundedOn(StrictSubsetOrdering(Op), FiniteSubsetsOf(Op))
    BY FS_StrictSubsetOrderingWellFounded
<1>2. All \subseteq FiniteSubsetsOf(Op) /\ All # {}
    <2>1. FiniteSubsetsOf(Op) = SUBSET Op
        BY InputAssumption, FS_FiniteSubsetsOfFinite
    <2>2. \A p \in T : Earlier(p) \in SUBSET Op
        OBVIOUS
    <2> HIDE DEF Earlier
    <2> QED BY <2>1, <2>2
<1>3. PICK E \in All : \A F \in All : <<F, E>> \notin StrictSubsetOrdering(Op)
    BY <1>1, <1>2, WFMin
<1>4. PICK m \in T : E = Earlier(m)
    OBVIOUS
<1>5. ASSUME NEW p \in T, <<p, m>> \in before
      PROVE  FALSE
    <2>1. Earlier(p) \subseteq Earlier(m)
        BY <1>5
    <2>2. p \in Earlier(m) /\ p \notin Earlier(p)
        BY <1>5
    <2>3. <<Earlier(p), E>> \in StrictSubsetOrdering(Op)
        BY <1>4, <2>1, <2>2 DEF StrictSubsetOrdering
    <2> QED BY <1>3, <2>3
<1> QED BY <1>5

\* A plan of any size whose inputs are all planned and in some order is not
\* rejected.
THEOREM SoundPlansAreRun == PlannedSpec => SoundPlansRun
<1>1. ASSUME PlannedInv, RejectPlan, Sound(config)
      PROVE  FALSE
    <2> USE DEF PlannedInv
    <2>1. \A o \in Op : deps[o] \subseteq InputSources(config, o) \cap Op
        BY <1>1, DependenciesAreInputs DEF Sound
    <2>2. /\ Ready = {} /\ \E o \in Op : task[o] = "planned"
          /\ \A o \in Op : task[o] \in {"planned", "returned"}
        BY <1>1, <2>1 DEF RejectPlan, IInv, WavesAreClosed
    <2>3. PICK before :
             /\ \A o, p, q \in Op :
                    /\ <<o, o>> \notin before
                    /\ <<o, p>> \in before /\ <<p, q>> \in before => <<o, q>> \in before
             /\ \A o \in Op : \A s \in InputSources(config, o) \cap Op : <<s, o>> \in before
        BY <1>1, DependenciesAreInputs, <2>2 DEF Sound
    <2> DEFINE T == {o \in Op : task[o] = "planned"}
    <2>4. PICK m \in T : \A p \in T : <<p, m>> \notin before
        <3>1. T \in SUBSET Op /\ T # {}
            BY <2>2
        <3>2. /\ \A p \in Op : <<p, p>> \notin before
              /\ \A o, p, q \in Op :
                    <<o, p>> \in before /\ <<p, q>> \in before => <<o, q>> \in before
            BY <2>3
        <3> HIDE DEF T
        <3> QED BY <3>1, <3>2, SomeComeFirst
    <2>5. \A d \in deps[m] : d \in Op /\ task[d] = "returned"
        BY <2>1, <2>2, <2>3, <2>4
    <2> QED BY <2>2, <2>4, <2>5 DEF Ready
<1>2. PlannedInv /\ [PlannedNext]_<<vars, config>>
        => [RejectPlan => ~Sound(config)]_<<vars, config>>
    BY <1>1
<1> QED BY <1>2, PlannedInvariant, PTL DEF PlannedSpec, SoundPlansRun
=============================================================================

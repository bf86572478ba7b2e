------------------------ MODULE RsyncTransport_proofs ------------------------
(***************************************************************************)
(* For any files, paths, number of attempts and size of pipes: the types of  *)
(* a transport, that a success has mirrored what upstream had, and that it    *)
(* reports what it has installed.                                            *)
(*                                                                           *)
(* Both need to know, at every moment of a transfer, where each file is:      *)
(* still to be received, staged, or in the mirror in a version upstream had   *)
(* since the call began; and where its name is: in the pipe or in the         *)
(* reader's buffer.                                                          *)
(***************************************************************************)
EXTENDS RsyncTransport, FiniteSetTheorems, TLAPS

\* A thread belongs to a call that runs or was cancelled.
ThreadsHaveCalls ==
    /\ attempt > 0 => call \in {"running", "cancelled"}
    /\ call = "discovering" => left \subseteq Buckets
    /\ IsFiniteSet(out)

\* What a child's state tells of the files.
ChildrenEnd ==
    /\ child \in {"none", "starting"} => fault = "none" /\ Staged = {} /\ installed = {}
    /\ child = "failing" => fault # "none"
    /\ child = "exited" /\ fault = "none" => todo = {} /\ Staged = {}

\* The names of what was received are in the pipe or in the buffer.
NamesAreKept ==
    fault = "none" =>
        /\ out \cup stdout \subseteq Staged \cup installed \cup {Garbled}
        /\ Staged \cup installed \subseteq out \cup stdout \cup Wide

\* A file is in the mirror as upstream had it, or upstream was without it.
Good(f) == mirror[f] \in held[f] \/ Gone \in held[f]

UpstreamIsHeld == call \notin Ended => \A f \in File : remote[f] \in held[f]

\* Where the files of the current path are.
TransferIsAccounted ==
    call = "running" =>
        /\ \A f \in Staged : staged[f] \in held[f]
        /\ fault = "missing" => \A f \in Covers[current] : Gone \in held[f]
        /\ child \in {"receiving", "exited"} /\ fault = "none" =>
               \A f \in Covers[current] : f \in todo \/ f \in Staged \/ Good(f)

\* Paths that have succeeded are mirrored, also before the call has.
SuccessIsMirrored ==
    call \in {"discovering", "next", "running", "succeeded"} =>
        \A r \in Request : result[r] = "success" /\ r \notin Buckets \ Canonical =>
            \A f \in Covers[r] : Good(f)

TransportInv ==
    /\ TypeOK /\ ThreadsHaveCalls /\ ChildrenEnd /\ NamesAreKept
    /\ UpstreamIsHeld /\ TransferIsAccounted /\ SuccessIsMirrored

-----------------------------------------------------------------------------
\* A pipe that takes one more name, and one that gives a name away.
LEMMA PipeGrows ==
    ASSUME NEW S, IsFiniteSet(S), NEW x
    PROVE  Cardinality(S \cup {x}) \in Nat /\ Cardinality(S \cup {x}) <= Cardinality(S) + 1
<1>1. /\ Cardinality(S) \in Nat
      /\ IsFiniteSet(S \cup {x}) /\ Cardinality(S \cup {x}) \in {Cardinality(S), Cardinality(S) + 1}
    BY FS_AddElement, FS_CardinalityType
<1> QED BY <1>1

LEMMA PipeShrinks ==
    ASSUME NEW S, IsFiniteSet(S), NEW x
    PROVE  Cardinality(S \ {x}) \in Nat /\ Cardinality(S \ {x}) <= Cardinality(S)
<1>1. IsFiniteSet(S \ {x}) /\ Cardinality(S \ {x}) \in {Cardinality(S) - 1, Cardinality(S)}
    BY FS_RemoveElement
<1>2. Cardinality(S) \in Nat /\ Cardinality(S \ {x}) \in Nat
    BY <1>1, FS_CardinalityType
<1> QED BY <1>1, <1>2

\* Types.  What is in the pipe of names is as much as was written and not yet read.
LEMMA TypeStep ==
    ASSUME TypeOK, ThreadsHaveCalls, [Next]_vars
    PROVE  TypeOK'
<1> USE RequestAssumption, NameAssumption, SizeAssumption
    DEF TypeOK, ThreadsHaveCalls, Version, Name, Calls, Ended, Faults, Alive, Children,
        NothingStaged, vars, callVars, childVars, threadVars, counts
<1>1. ASSUME NEW f \in File, Modify(f) PROVE TypeOK'
    BY <1>1 DEF Modify
<1>2. ASSUME NEW paths \in SUBSET (Request \ {Whole}), Acquire(paths) PROVE TypeOK'
    BY <1>2 DEF Acquire, Asked, Prefilters
<1>3. CASE Discover
    BY <1>3 DEF Discover, Asked, Exists
<1>4. CASE DiscoverFails
    BY <1>4 DEF DiscoverFails
<1>5. ASSUME NEW r \in Request, Refuse(r) PROVE TypeOK'
    BY <1>5 DEF Refuse
<1>6. ASSUME NEW r \in Request, Start(r) PROVE TypeOK'
    BY <1>6, FS_EmptySet DEF Start, NewChild
<1>7. CASE Raise
    BY <1>7 DEF Raise, NoResults
<1>8. CASE Return
    BY <1>8 DEF Return
<1>9. CASE Cancel
    BY <1>9 DEF Cancel, NoResults
<1>10. CASE List
    BY <1>10 DEF List, Exists
<1>11. ASSUME NEW f \in File, Receive(f) PROVE TypeOK'
    <2>1. Cardinality(out) \in Nat
        BY FS_CardinalityType
    <2>2. /\ Cardinality(out \cup {f}) \in Nat
          /\ Cardinality(out \cup {f}) <= Cardinality(out) + 1
        BY PipeGrows
    <2>3. CASE remote[f] = Gone
        BY <1>11, <2>3 DEF Receive
    <2>4. CASE remote[f] # Gone
        <3>1. out' = out \cup {f} /\ Cardinality(out) < PipeSize
            BY <1>11, <2>4 DEF Receive
        <3>2. Cardinality(out') <= PipeSize
            BY <2>1, <2>2, <3>1
        <3> QED BY <1>11, <2>4, <3>1, <3>2 DEF Receive
    <2> QED BY <2>3, <2>4
<1>12. ASSUME NEW f \in File, Install(f) PROVE TypeOK'
    BY <1>12 DEF Install
<1>13. CASE Notice
    BY <1>13 DEF Notice
<1>14. CASE Break
    BY <1>14 DEF Break
<1>15. CASE Exit
    BY <1>15 DEF Exit
<1>16. CASE ReadOut
    <2>1. PICK f \in out : /\ out' = out \ {f}
                          /\ stdout' \subseteq stdout \cup {f, Garbled}
        BY <1>16 DEF ReadOut
    <2>2. Cardinality(out') \in Nat /\ Cardinality(out') <= Cardinality(out)
        BY <2>1, PipeShrinks
    <2>3. Cardinality(out) \in Nat
        BY FS_CardinalityType
    <2> QED BY <1>16, <2>1, <2>2, <2>3 DEF ReadOut
<1>17. CASE ReadErr
    BY <1>17 DEF ReadErr
<1>18. CASE Retry
    BY <1>18 DEF Retry, Joined, Transient, NewChild
<1>19. CASE Conclude
    BY <1>19 DEF Conclude, Joined, Transient, MissingShard, NewChild, NoResults
<1>20. CASE UNCHANGED vars
    BY <1>20
<1> QED BY <1>1, <1>2, <1>3, <1>4, <1>5, <1>6, <1>7, <1>8, <1>9, <1>10, <1>11, <1>12,
          <1>13, <1>14, <1>15, <1>16, <1>17, <1>18, <1>19, <1>20 DEF Next, Coroutine,
          Rsync, Waiter

\* A thread begins with a call that runs, which may only be cancelled under it.
LEMMA ThreadsStep ==
    ASSUME TypeOK, ThreadsHaveCalls, [Next]_vars
    PROVE  ThreadsHaveCalls'
<1> USE RequestAssumption, SizeAssumption
    DEF TypeOK, ThreadsHaveCalls, Calls, Ended, Children,
        vars, callVars, childVars, threadVars, counts
<1>1. CASE (\E f \in File : Modify(f)) \/ DiscoverFails
          \/ (\E r \in Request : Refuse(r)) \/ Raise \/ Return \/ Cancel
     BY <1>1 DEF Modify, DiscoverFails, Refuse, Raise, NoResults, Return, Cancel
<1>2. ASSUME NEW paths \in SUBSET (Request \ {Whole}), Acquire(paths) PROVE ThreadsHaveCalls'
    <2>1. ~ Prefilters({})
        <3>1. Cardinality({}) = 0
            BY FS_EmptySet
        <3> QED BY <3>1 DEF Prefilters
    <2>2. CASE paths = {}
        BY <1>2, <2>1, <2>2 DEF Acquire
    <2>3. CASE paths # {}
        BY <1>2, <2>3 DEF Acquire, Asked, Prefilters
    <2> QED BY <2>2, <2>3
<1>3. CASE Discover
    BY <1>3 DEF Discover, Asked, Exists
<1>4. ASSUME NEW r \in Request, Start(r) PROVE ThreadsHaveCalls'
    BY <1>4, FS_EmptySet DEF Start, NewChild
<1>5. CASE List \/ (\E f \in File : Install(f)) \/ Notice \/ Break \/ Exit \/ ReadErr
     BY <1>5 DEF List, Exists, Install, Notice, Break, Exit, ReadErr
<1>6. ASSUME NEW f \in File, Receive(f) PROVE ThreadsHaveCalls'
    BY <1>6, FS_AddElement DEF Receive
<1>7. CASE ReadOut
    BY <1>7, FS_RemoveElement DEF ReadOut
<1>8. CASE Retry
    BY <1>8, FS_EmptySet DEF Retry, NewChild
<1>9. CASE Conclude
    BY <1>9, FS_EmptySet DEF Conclude, NewChild
<1>10. CASE UNCHANGED vars
    BY <1>10
<1> QED BY <1>1, <1>2, <1>3, <1>4, <1>5, <1>6, <1>7, <1>8, <1>9, <1>10 DEF Next,
          Coroutine, Rsync, Waiter

\* A child without a fault ends when all it has received is in the mirror.
LEMMA ChildrenStep ==
    ASSUME TypeOK, ThreadsHaveCalls, ChildrenEnd, [Next]_vars
    PROVE  ChildrenEnd'
<1> USE NameAssumption
    DEF TypeOK, ThreadsHaveCalls, ChildrenEnd, Staged, NothingStaged, Alive,
        vars, callVars, childVars, threadVars, counts
<1>1. CASE (\E f \in File : Modify(f))
          \/ (\E paths \in SUBSET (Request \ {Whole}) : Acquire(paths)) \/ Discover
          \/ DiscoverFails \/ (\E r \in Request : Refuse(r)) \/ Raise \/ Return
          \/ Cancel
     BY <1>1 DEF Modify, Acquire, Asked, Prefilters, Discover, Exists, DiscoverFails,
          Refuse, Raise, NoResults, Return, Cancel
<1>2. ASSUME NEW r \in Request, Start(r) PROVE ChildrenEnd'
    BY <1>2 DEF Start, NewChild
<1>3. CASE List
    BY <1>3 DEF List, Exists
<1>4. ASSUME NEW f \in File, Receive(f) PROVE ChildrenEnd'
    BY <1>4 DEF Receive
<1>5. ASSUME NEW f \in File, Install(f) PROVE ChildrenEnd'
    BY <1>5 DEF Install
<1>6. CASE Notice \/ ReadOut \/ ReadErr
     BY <1>6 DEF Notice, ReadOut, ReadErr
<1>7. CASE Break
    BY <1>7 DEF Break
<1>8. CASE Exit
    BY <1>8 DEF Exit
<1>9. CASE Retry
    BY <1>9 DEF Retry, Joined, Transient, NewChild
<1>10. CASE Conclude
    BY <1>10 DEF Conclude, Joined, Transient, MissingShard, NewChild, NoResults
<1>11. CASE UNCHANGED vars
    BY <1>11
<1> QED BY <1>1, <1>2, <1>3, <1>4, <1>5, <1>6, <1>7, <1>8, <1>9, <1>10, <1>11 DEF Next,
          Coroutine, Rsync, Waiter

\* Names are written before files are installed, and are read into the buffer.
LEMMA NamesStep ==
    ASSUME TypeOK, ThreadsHaveCalls, ChildrenEnd, NamesAreKept, [Next]_vars
    PROVE  NamesAreKept'
<1> USE NameAssumption
    DEF TypeOK, ChildrenEnd, NamesAreKept, Staged, NothingStaged, Alive,
        vars, callVars, childVars, threadVars, counts
<1>1. CASE (\E f \in File : Modify(f))
          \/ (\E paths \in SUBSET (Request \ {Whole}) : Acquire(paths)) \/ Discover
          \/ DiscoverFails \/ (\E r \in Request : Refuse(r)) \/ Raise \/ Return
          \/ Cancel
     BY <1>1 DEF Modify, Acquire, Asked, Prefilters, Discover, Exists, DiscoverFails,
          Refuse, Raise, NoResults, Return, Cancel
<1>2. ASSUME NEW r \in Request, Start(r) PROVE NamesAreKept'
    BY <1>2 DEF Start, NewChild
<1>3. CASE List
    BY <1>3 DEF List, Exists
<1>4. ASSUME NEW f \in File, Receive(f) PROVE NamesAreKept'
    BY <1>4 DEF Receive
<1>5. ASSUME NEW f \in File, Install(f) PROVE NamesAreKept'
    BY <1>5 DEF Install
<1>6. CASE Notice \/ ReadErr
     BY <1>6 DEF Notice, ReadErr
<1>7. CASE Break
    BY <1>7 DEF Break
<1>8. CASE Exit
    BY <1>8 DEF Exit
<1>9. CASE ReadOut
    BY <1>9 DEF ReadOut
<1>10. CASE Retry
    BY <1>10 DEF Retry, Joined, Transient, NewChild
<1>11. CASE Conclude
    BY <1>11 DEF Conclude, Joined, Transient, MissingShard, NewChild, NoResults
<1>12. CASE UNCHANGED vars
    BY <1>12
<1> QED BY <1>1, <1>2, <1>3, <1>4, <1>5, <1>6, <1>7, <1>8, <1>9, <1>10, <1>11, <1>12 DEF
          Next, Coroutine, Rsync, Waiter

\* What upstream changes to during a call is noted.
LEMMA HeldStep ==
    ASSUME TypeOK, ThreadsHaveCalls, UpstreamIsHeld, [Next]_vars
    PROVE  UpstreamIsHeld'
<1> USE DEF TypeOK, ThreadsHaveCalls, UpstreamIsHeld, Ended, Calls, Children, Alive,
        vars, callVars, childVars, threadVars, counts
<1>1. ASSUME NEW f \in File, Modify(f) PROVE UpstreamIsHeld'
    BY <1>1 DEF Modify
<1>2. ASSUME NEW paths \in SUBSET (Request \ {Whole}), Acquire(paths) PROVE UpstreamIsHeld'
    BY <1>2 DEF Acquire, Asked, Prefilters
<1>3. CASE Discover \/ DiscoverFails \/ (\E r \in Request : Refuse(r))
          \/ (\E r \in Request : Start(r)) \/ Raise \/ Return \/ Cancel
     BY <1>3 DEF Discover, Asked, Exists, DiscoverFails, Refuse, Start, NewChild, Raise,
          NoResults, Return, Cancel
<1>4. CASE List \/ (\E f \in File : Receive(f)) \/ (\E f \in File : Install(f))
          \/ Notice \/ Break \/ Exit
     BY <1>4 DEF List, Exists, Receive, Install, Notice, Break, Exit
<1>5. CASE ReadOut \/ ReadErr \/ Retry \/ Conclude
     BY <1>5 DEF ReadOut, ReadErr, Retry, Joined, Transient, NewChild, Conclude,
          MissingShard, NoResults
<1>6. CASE UNCHANGED vars
    BY <1>6
<1> QED BY <1>1, <1>2, <1>3, <1>4, <1>5, <1>6 DEF Next, Coroutine, Rsync, Waiter

\* A file of the current path is to be received, staged or in the mirror.
LEMMA TransferStep ==
    ASSUME TypeOK, ThreadsHaveCalls, ChildrenEnd,
           UpstreamIsHeld, TransferIsAccounted, [Next]_vars
    PROVE  TransferIsAccounted'
<1> USE RequestAssumption, NameAssumption
    DEF TypeOK, ThreadsHaveCalls, ChildrenEnd, UpstreamIsHeld, TransferIsAccounted, Good, Staged,
        NothingStaged, Ended, Calls, Children, Alive,
        vars, callVars, childVars, threadVars, counts
<1>1. ASSUME NEW f \in File, Modify(f) PROVE TransferIsAccounted'
    BY <1>1 DEF Modify
<1>2. ASSUME NEW paths \in SUBSET (Request \ {Whole}), Acquire(paths) PROVE TransferIsAccounted'
    BY <1>2 DEF Acquire, Asked, Prefilters
<1>3. CASE Discover \/ DiscoverFails \/ (\E r \in Request : Refuse(r)) \/ Raise
          \/ Return \/ Cancel
     BY <1>3 DEF Discover, Asked, Exists, DiscoverFails, Refuse, Raise, NoResults,
          Return, Cancel
<1>4. ASSUME NEW r \in Request, Start(r) PROVE TransferIsAccounted'
    BY <1>4 DEF Start, NewChild
<1>5. CASE List
    BY <1>5 DEF List, Exists
<1>6. ASSUME NEW f \in File, Receive(f) PROVE TransferIsAccounted'
    BY <1>6 DEF Receive
<1>7. ASSUME NEW f \in File, Install(f) PROVE TransferIsAccounted'
    BY <1>7 DEF Install
<1>8. CASE Notice \/ ReadOut \/ ReadErr
     BY <1>8 DEF Notice, ReadOut, ReadErr
<1>9. CASE Break
    BY <1>9 DEF Break
<1>10. CASE Exit
    BY <1>10 DEF Exit
<1>11. CASE Retry
    BY <1>11 DEF Retry, Joined, Transient, NewChild
<1>12. CASE Conclude
    BY <1>12 DEF Conclude, Joined, Transient, MissingShard, NewChild, NoResults
<1>13. CASE UNCHANGED vars
    BY <1>13
<1> QED BY <1>1, <1>2, <1>3, <1>4, <1>5, <1>6, <1>7, <1>8, <1>9, <1>10, <1>11, <1>12,
          <1>13 DEF Next, Coroutine, Rsync, Waiter

\* A path succeeds when its files are mirrored or were found missing.
LEMMA SuccessStep ==
    ASSUME TypeOK, ThreadsHaveCalls, ChildrenEnd,
           UpstreamIsHeld, TransferIsAccounted, SuccessIsMirrored, [Next]_vars
    PROVE  SuccessIsMirrored'
<1> USE RequestAssumption, NameAssumption
    DEF TypeOK, ThreadsHaveCalls, ChildrenEnd, UpstreamIsHeld, TransferIsAccounted,
        SuccessIsMirrored, Good, Staged, Ended, Calls, Children, Alive,
        vars, callVars, childVars, threadVars, counts
<1>1. ASSUME NEW f \in File, Modify(f) PROVE SuccessIsMirrored'
    BY <1>1 DEF Modify
<1>2. ASSUME NEW paths \in SUBSET (Request \ {Whole}), Acquire(paths) PROVE SuccessIsMirrored'
    BY <1>2 DEF Acquire, Asked, Prefilters
<1>3. CASE Discover
    BY <1>3 DEF Discover, Asked, Exists
<1>4. CASE DiscoverFails \/ Raise \/ Return \/ Cancel
     BY <1>4 DEF DiscoverFails, Raise, NoResults, Return, Cancel
<1>5. ASSUME NEW r \in Request, Refuse(r) PROVE SuccessIsMirrored'
    BY <1>5 DEF Refuse
<1>6. ASSUME NEW r \in Request, Start(r) PROVE SuccessIsMirrored'
    BY <1>6 DEF Start, NewChild
<1>7. CASE List \/ (\E f \in File : Receive(f)) \/ Notice \/ Break \/ Exit
     BY <1>7 DEF List, Exists, Receive, Notice, Break, Exit
<1>8. ASSUME NEW f \in File, Install(f) PROVE SuccessIsMirrored'
    BY <1>8 DEF Install
<1>9. CASE ReadOut \/ ReadErr
     BY <1>9 DEF ReadOut, ReadErr
<1>10. CASE Retry
    BY <1>10 DEF Retry, Joined, Transient, NewChild
<1>11. CASE Conclude
    BY <1>11 DEF Conclude, Joined, Transient, MissingShard, NewChild, NoResults
<1>12. CASE UNCHANGED vars
    BY <1>12
<1> QED BY <1>1, <1>2, <1>3, <1>4, <1>5, <1>6, <1>7, <1>8, <1>9, <1>10, <1>11, <1>12 DEF
          Next, Coroutine, Rsync, Waiter

-----------------------------------------------------------------------------
THEOREM TransportInvariant == Spec => []TransportInv
<1>1. Init => TransportInv
    <2> SUFFICES ASSUME Init PROVE TransportInv
        OBVIOUS
    <2>1. IsFiniteSet({}) /\ Cardinality({}) = 0
        BY FS_EmptySet
    <2>2. TypeOK
        BY <2>1, RequestAssumption, SizeAssumption
        DEF Init, TypeOK, Version, Name, Calls, Ended, Faults, Alive, Children, NothingStaged
    <2>3. ThreadsHaveCalls /\ ChildrenEnd /\ NamesAreKept
        BY <2>1 DEF Init, ThreadsHaveCalls, ChildrenEnd, NamesAreKept, Staged, NothingStaged
    <2>4. UpstreamIsHeld /\ TransferIsAccounted /\ SuccessIsMirrored
        BY DEF Init, UpstreamIsHeld, TransferIsAccounted, SuccessIsMirrored, Ended
    <2> QED BY <2>2, <2>3, <2>4 DEF TransportInv
<1>2. TransportInv /\ [Next]_vars => TransportInv'
    <2> SUFFICES ASSUME TransportInv, [Next]_vars PROVE TransportInv'
        OBVIOUS
    <2> QED BY TypeStep, ThreadsStep, ChildrenStep, NamesStep, HeldStep, TransferStep, SuccessStep
            DEF TransportInv
<1> QED BY <1>1, <1>2, PTL DEF Spec

\* Nothing a transfer keeps ever leaves its type: no attempt too many, no pipe over
\* its size, no thread without a call.
THEOREM TransportTypes == Spec => []TypeOK
<1>1. TransportInv => TypeOK
    BY DEF TransportInv
<1> QED BY <1>1, TransportInvariant, PTL

\* An acquisition that succeeds has mirrored its successful paths.
THEOREM SuccessHasMirrored == Spec => []MirroredOnSuccess
<1>1. TransportInv => MirroredOnSuccess
    BY DEF TransportInv, SuccessIsMirrored, MirroredOnSuccess, Good
<1> QED BY <1>1, TransportInvariant, PTL

\* A transfer that ends well reports what it has installed.
THEOREM SuccessHasReported == Spec => ReportsEverything
<1>1. ASSUME TransportInv, [Next]_vars, NEW r \in Request,
             attempt > 0, fault = "none", result[r] = "none", result'[r] = "success"
      PROVE  /\ installed \ Wide \subseteq report'[r]
             /\ report'[r] \subseteq installed \cup {Garbled}
    <2> USE DEF TransportInv
    <2>1. Conclude
        BY <1>1
        DEF Next, Coroutine, Rsync, Waiter, Modify, Acquire, Discover, DiscoverFails, Refuse, Start,
            Raise, Return, Cancel, NoResults, List, Receive, Install, Notice, Break, Exit, ReadOut,
            ReadErr, Retry, NewChild, TypeOK, ThreadsHaveCalls,
            vars, callVars, childVars, threadVars, counts
    <2>2. r = current /\ report'[r] = stdout
        BY <1>1, <2>1 DEF Conclude, NoResults, TypeOK
    <2>3. out = {} /\ Staged = {}
        BY <1>1, <2>1 DEF Conclude, Joined, ChildrenEnd
    <2> QED BY <1>1, <2>2, <2>3 DEF NamesAreKept
<1>2. TransportInv /\ [Next]_vars
        => [\A r \in Request :
               attempt > 0 /\ fault = "none" /\ result[r] = "none" /\ result'[r] = "success"
               => /\ installed \ Wide \subseteq report'[r]
                  /\ report'[r] \subseteq installed \cup {Garbled}]_vars
    BY <1>1
<1> QED BY <1>2, TransportInvariant, PTL DEF Spec, ReportsEverything
-----------------------------------------------------------------------------
(* That a call comes to its end needs fairness, but what carries it does not:  *)
(* every step brings it nearer, and as long as it has not ended there is a step *)
(* that one of the threads, the coroutine or rsync can take.                   *)

\* What a tuple of eight must do to fall, written out.
LEMMA LexFalls ==
    ASSUME NEW a1, NEW a2, NEW a3, NEW a4, NEW a5, NEW a6, NEW a7, NEW a8,
           NEW b1, NEW b2, NEW b3, NEW b4, NEW b5, NEW b6, NEW b7, NEW b8,
           \/ a1 < b1
           \/ a1 = b1 /\ a2 < b2
           \/ a1 = b1 /\ a2 = b2 /\ a3 < b3
           \/ a1 = b1 /\ a2 = b2 /\ a3 = b3 /\ a4 < b4
           \/ a1 = b1 /\ a2 = b2 /\ a3 = b3 /\ a4 = b4 /\ a5 < b5
           \/ a1 = b1 /\ a2 = b2 /\ a3 = b3 /\ a4 = b4 /\ a5 = b5 /\ a6 < b6
           \/ a1 = b1 /\ a2 = b2 /\ a3 = b3 /\ a4 = b4 /\ a5 = b5 /\ a6 = b6 /\ a7 < b7
           \/ a1 = b1 /\ a2 = b2 /\ a3 = b3 /\ a4 = b4 /\ a5 = b5 /\ a6 = b6 /\ a7 = b7
              /\ a8 < b8
    PROVE  LexLess(<<a1, a2, a3, a4, a5, a6, a7, a8>>, <<b1, b2, b3, b4, b5, b6, b7, b8>>)
<1> DEFINE a == <<a1, a2, a3, a4, a5, a6, a7, a8>>
           b == <<b1, b2, b3, b4, b5, b6, b7, b8>>
<1>1. DOMAIN a = 1..8
    OBVIOUS
<1>2. ASSUME NEW i \in 1..8, a[i] < b[i], \A j \in 1..8 : j < i => a[j] = b[j]
      PROVE  LexLess(a, b)
    <2>1. \A j \in 1..(i - 1) : j \in 1..8 /\ j < i
        OBVIOUS
    <2> QED BY <1>1, <1>2, <2>1 DEF LexLess
<1>3. CASE a1 < b1
    BY <1>2, <1>3
<1>4. CASE a1 = b1 /\ a2 < b2
    BY <1>2, <1>4
<1>5. CASE a1 = b1 /\ a2 = b2 /\ a3 < b3
    BY <1>2, <1>5
<1>6. CASE a1 = b1 /\ a2 = b2 /\ a3 = b3 /\ a4 < b4
    BY <1>2, <1>6
<1>7. CASE a1 = b1 /\ a2 = b2 /\ a3 = b3 /\ a4 = b4 /\ a5 < b5
    BY <1>2, <1>7
<1>8. CASE a1 = b1 /\ a2 = b2 /\ a3 = b3 /\ a4 = b4 /\ a5 = b5 /\ a6 < b6
    BY <1>2, <1>8
<1>9. CASE a1 = b1 /\ a2 = b2 /\ a3 = b3 /\ a4 = b4 /\ a5 = b5 /\ a6 = b6 /\ a7 < b7
    BY <1>2, <1>9
<1>10. CASE a1 = b1 /\ a2 = b2 /\ a3 = b3 /\ a4 = b4 /\ a5 = b5 /\ a6 = b6 /\ a7 = b7
            /\ a8 < b8
    BY <1>2, <1>10
<1> QED BY <1>3, <1>4, <1>5, <1>6, <1>7, <1>8, <1>9, <1>10

\* The same of what remains of a call, measure by measure.
LEMMA RemainingFalls ==
    ASSUME \/ CallStage' < CallStage
           \/ CallStage' = CallStage
              /\ \/ PathsLeft' < PathsLeft
                 \/ PathsLeft' = PathsLeft
                    /\ \/ AttemptsLeft' < AttemptsLeft
                       \/ AttemptsLeft' = AttemptsLeft
                          /\ \/ ChildStage' < ChildStage
                             \/ ChildStage' = ChildStage
                                /\ \/ Cardinality(todo') < Cardinality(todo)
                                   \/ Cardinality(todo') = Cardinality(todo)
                                      /\ \/ Cardinality(Staged') < Cardinality(Staged)
                                         \/ Cardinality(Staged') = Cardinality(Staged)
                                            /\ \/ MaxNotices - notices' < MaxNotices - notices
                                               \/ /\ MaxNotices - notices' = MaxNotices - notices
                                                  /\ Cardinality(out') + err'
                                                         < Cardinality(out) + err
    PROVE  LexLess(Remaining', Remaining)
<1> QED BY LexFalls DEF Remaining

\* A set that loses an element has one less.
LEMMA OneLess ==
    ASSUME NEW S, IsFiniteSet(S), NEW x \in S
    PROVE  Cardinality(S) \in Nat /\ Cardinality(S \ {x}) \in Nat
           /\ Cardinality(S \ {x}) < Cardinality(S)
<1>1. IsFiniteSet(S \ {x}) /\ Cardinality(S \ {x}) = Cardinality(S) - 1
    BY FS_RemoveElement
<1>2. Cardinality(S) \in Nat /\ Cardinality(S \ {x}) \in Nat
    BY <1>1, FS_CardinalityType
<1> QED BY <1>1, <1>2

\* What is counted is finite.
LEMMA Countable ==
    ASSUME TypeOK
    PROVE  /\ IsFiniteSet(left) /\ IsFiniteSet(todo) /\ IsFiniteSet(Staged)
           /\ Cardinality(left) \in Nat /\ Cardinality(todo) \in Nat
           /\ Cardinality(Staged) \in Nat
<1>1. left \subseteq Request /\ todo \subseteq File /\ Staged \subseteq File
    BY DEF TypeOK, Staged
<1> QED BY <1>1, FS_Subset, FS_CardinalityType, FiniteAssumption

\* The steps of a call are nearer to its end: an outer measure falls, or none of the
\* outer ones has changed and an inner one falls.
LEMMA StepsRunDown ==
    ASSUME TransportInv, ~AtRest, [Next]_vars, vars' # vars
    PROVE  \/ LexLess(Remaining', Remaining)
           \/ remote' # remote /\ Remaining' = Remaining
<1> USE DEF TransportInv, CallStage, PathsLeft, AttemptsLeft, ChildStage
<1>0. /\ IsFiniteSet(left) /\ IsFiniteSet(todo) /\ IsFiniteSet(Staged) /\ IsFiniteSet(out)
      /\ Cardinality(left) \in Nat /\ Cardinality(todo) \in Nat
      /\ Cardinality(Staged) \in Nat /\ Cardinality(out) \in Nat
    BY Countable, FS_CardinalityType DEF ThreadsHaveCalls
<1>1. ASSUME NEW f \in File, Modify(f)
      PROVE  remote' # remote /\ Remaining' = Remaining
    <2>1. remote' # remote
        BY <1>1 DEF Modify, TypeOK
    <2>2. Remaining' = Remaining
        BY <1>1 DEF Modify, Remaining, Staged, Ended, callVars, threadVars, childVars
    <2> QED BY <2>1, <2>2
<1>2. ASSUME NEW paths \in SUBSET (Request \ {Whole}), Acquire(paths) PROVE FALSE
    BY <1>2 DEF Acquire, AtRest
<1>3. CASE Discover \/ DiscoverFails \/ Raise \/ Return \/ Cancel
    <2>1. CallStage' < CallStage
        BY <1>3 DEF Discover, DiscoverFails, Raise, Return, Cancel, NoResults, Ended
    <2> QED BY <2>1, RemainingFalls
<1>4. ASSUME NEW r \in Request, Refuse(r) \/ Start(r)
      PROVE  LexLess(Remaining', Remaining)
    <2>1. r \in left /\ left' = left \ {r} /\ call = "next" /\ call' \in {"next", "running"}
        BY <1>4 DEF Refuse, Start
    <2>2. /\ Cardinality(left') \in Nat /\ Cardinality(left') < Cardinality(left)
        BY <1>0, <2>1, OneLess
    <2>3. CallStage' = CallStage /\ PathsLeft' < PathsLeft
        BY <1>0, <2>1, <2>2 DEF Ended
    <2> QED BY <2>3, RemainingFalls
<1>5. CASE List \/ Break \/ Exit
    <2>1. CallStage' = CallStage /\ PathsLeft' = PathsLeft /\ AttemptsLeft' = AttemptsLeft
        BY <1>5 DEF List, Break, Exit, callVars
    <2>2. ChildStage' < ChildStage
        BY <1>5 DEF List, Break, Exit, Alive
    <2> QED BY <2>1, <2>2, RemainingFalls
<1>6. ASSUME NEW f \in File, Receive(f)
      PROVE  LexLess(Remaining', Remaining)
    <2>1. /\ CallStage' = CallStage /\ PathsLeft' = PathsLeft /\ AttemptsLeft' = AttemptsLeft
          /\ ChildStage' = ChildStage
        BY <1>6 DEF Receive, callVars
    <2>2. Cardinality(todo') < Cardinality(todo)
        BY <1>0, <1>6, OneLess DEF Receive
    <2> QED BY <2>1, <2>2, RemainingFalls
<1>7. ASSUME NEW f \in File, Install(f)
      PROVE  LexLess(Remaining', Remaining)
    <2>1. /\ CallStage' = CallStage /\ PathsLeft' = PathsLeft /\ AttemptsLeft' = AttemptsLeft
          /\ ChildStage' = ChildStage /\ Cardinality(todo') = Cardinality(todo)
        BY <1>7 DEF Install, callVars
    <2>2. f \in Staged /\ Staged' = Staged \ {f}
        BY <1>7 DEF Install, Staged, TypeOK
    <2>3. Cardinality(Staged') < Cardinality(Staged)
        BY <1>0, <2>2, OneLess
    <2> QED BY <2>1, <2>3, RemainingFalls
<1>8. CASE Notice
    <2>1. /\ CallStage' = CallStage /\ PathsLeft' = PathsLeft /\ AttemptsLeft' = AttemptsLeft
          /\ ChildStage' = ChildStage /\ Cardinality(todo') = Cardinality(todo)
          /\ Cardinality(Staged') = Cardinality(Staged)
        BY <1>8 DEF Notice, Staged, callVars
    <2>2. MaxNotices - notices' < MaxNotices - notices
        BY <1>8, SizeAssumption DEF Notice, TypeOK
    <2> QED BY <2>1, <2>2, RemainingFalls
<1>9. CASE ReadOut \/ ReadErr
    <2>1. /\ CallStage' = CallStage /\ PathsLeft' = PathsLeft /\ AttemptsLeft' = AttemptsLeft
          /\ ChildStage' = ChildStage /\ Cardinality(todo') = Cardinality(todo)
          /\ Cardinality(Staged') = Cardinality(Staged)
          /\ MaxNotices - notices' = MaxNotices - notices
        BY <1>9 DEF ReadOut, ReadErr, Staged, callVars
    <2>2. CASE ReadOut
        <3>1. PICK f \in out : out' = out \ {f} /\ err' = err
            BY <2>2 DEF ReadOut
        <3>2. Cardinality(out') \in Nat /\ Cardinality(out') < Cardinality(out)
            BY <1>0, <3>1, OneLess
        <3>3. Cardinality(out') + err' < Cardinality(out) + err
            BY <1>0, <3>1, <3>2, SizeAssumption DEF TypeOK
        <3> QED BY <2>1, <3>3, RemainingFalls
    <2>3. CASE ReadErr
        <3>1. out' = out /\ err' = err - 1 /\ err > 0
            BY <2>3 DEF ReadErr
        <3>2. Cardinality(out') + err' < Cardinality(out) + err
            BY <1>0, <3>1, SizeAssumption DEF TypeOK
        <3> QED BY <2>1, <3>2, RemainingFalls
    <2> QED BY <1>9, <2>2, <2>3
<1>10. CASE Retry
    <2>1. CallStage' = CallStage /\ PathsLeft' = PathsLeft
        BY <1>10 DEF Retry, callVars
    <2>2. AttemptsLeft' < AttemptsLeft
        BY <1>10, SizeAssumption DEF Retry, TypeOK
    <2> QED BY <2>1, <2>2, RemainingFalls
<1>11. CASE Conclude
    <2>1. CASE call = "running" /\ call' = "next" /\ left' = left
        <3>1. CallStage' = CallStage /\ PathsLeft' < PathsLeft
            BY <1>0, <2>1 DEF Ended
        <3> QED BY <3>1, RemainingFalls
    <2>2. CASE call = "running" /\ call' = "failed"
        <3>1. CallStage' < CallStage
            BY <2>2 DEF Ended
        <3> QED BY <3>1, RemainingFalls
    <2>3. CASE call = "cancelled" /\ UNCHANGED <<call, left>>
        <3>1. CallStage' = CallStage /\ PathsLeft' = PathsLeft
            BY <2>3
        <3>2. AttemptsLeft' < AttemptsLeft
            BY <1>11, SizeAssumption DEF Conclude, TypeOK
        <3> QED BY <3>1, <3>2, RemainingFalls
    <2> QED BY <1>11, <2>1, <2>2, <2>3 DEF Conclude
<1> QED BY <1>1, <1>2, <1>3, <1>4, <1>5, <1>6, <1>7, <1>8, <1>9, <1>10, <1>11 DEF Next,
          Coroutine, Rsync, Waiter

\* However often names vanish, connections break and callers cancel, a call only
\* ever comes nearer to its end.
THEOREM CallsRunDown == Spec => RunsDown
<1>1. TransportInv /\ [Next]_vars
        => [~AtRest => \/ LexLess(Remaining', Remaining)
                       \/ remote' # remote /\ Remaining' = Remaining]_vars
    BY StepsRunDown
<1> QED BY <1>1, TransportInvariant, PTL DEF Spec, RunsDown

\* What lets the coroutine, rsync, a reader or the waiter go on, of the guards of
\* their actions those that are the weakest.
SomebodyCanMove ==
    \/ call = "discovering"
    \/ call = "next"
    \/ child = "starting"
    \/ child = "receiving" /\ \E f \in todo : remote[f] = Gone \/ Cardinality(out) < PipeSize
    \/ child = "receiving" /\ todo = {} /\ \E f \in File : f \in Staged
    \/ child = "receiving" /\ todo = {} /\ Staged = {} /\ (fault = "none" \/ err < PipeSize)
    \/ child = "failing" /\ err < PipeSize
    \/ out # {}
    \/ err > 0
    \/ attempt > 0 /\ Joined /\ Transient /\ attempt < MaxAttempts
    \/ /\ attempt > 0 /\ Joined /\ ~ (Transient /\ attempt < MaxAttempts)
       /\ call \in {"running", "cancelled"}

\* Until a call is at rest and has left no thread behind, somebody can move: rsync
\* never waits for a reader that waits for rsync, and no thread for a call that is over.
THEOREM NobodyIsStuck == Spec => [](AtRest \/ SomebodyCanMove)
<1>1. ASSUME TransportInv, ~AtRest
      PROVE  SomebodyCanMove
    <2> USE <1>1, SizeAssumption DEF TransportInv, TypeOK, ThreadsHaveCalls, ChildrenEnd
    <2>1. CASE attempt = 0
        <3>1. call \notin Ended /\ call # "running"
            BY <2>1 DEF AtRest
        <3>2. call \in {"discovering", "next"}
            BY <3>1 DEF Calls
        <3> QED BY <3>2 DEF SomebodyCanMove
    <2>2. CASE attempt > 0 /\ (out # {} \/ err > 0)
        BY <2>2 DEF SomebodyCanMove
    <2>3. CASE attempt > 0 /\ out = {} /\ err = 0
        <3>1. Cardinality(out) < PipeSize /\ err < PipeSize
            BY <2>3, FS_EmptySet
        <3>2. CASE child = "starting" \/ child = "failing"
            BY <3>1, <3>2 DEF SomebodyCanMove
        <3>3. CASE child = "receiving"
            <4>1. CASE todo # {}
                BY <3>1, <3>3, <4>1 DEF SomebodyCanMove
            <4>2. CASE todo = {} /\ Staged # {}
                BY <3>3, <4>2 DEF SomebodyCanMove, Staged
            <4>3. CASE todo = {} /\ Staged = {}
                BY <3>1, <3>3, <4>3 DEF SomebodyCanMove
            <4> QED BY <4>1, <4>2, <4>3
        <3>4. CASE child = "exited"
            BY <2>3, <3>4 DEF SomebodyCanMove, Joined
        <3> QED BY <2>3, <3>2, <3>3, <3>4 DEF Children, Alive
    <2> QED BY <2>1, <2>2, <2>3
<1>2. TransportInv => AtRest \/ SomebodyCanMove
    BY <1>1
<1> QED BY <1>2, TransportInvariant, PTL

=============================================================================

---------------------------- MODULE RsyncTransport ----------------------------
(***************************************************************************)
(* One mirror being updated: RsyncSourceAdapter.acquire asks for the          *)
(* requested paths one after the other, each in a thread that starts rsync    *)
(* again after transient failures, with two more threads that drain the       *)
(* child's pipes, while upstream changes and the caller may cancel.           *)
(*                                                                           *)
(* Freshness intervals are left out, the adapter sets none; so are dry runs   *)
(* and deletion.  A call is bound to wait for the thread a cancelled one has   *)
(* left behind; what happens when it does not is RsyncReconciliation's.       *)
(***************************************************************************)
EXTENDS FiniteSets, Naturals

CONSTANTS
    File,
    Request,      \* paths that may be asked for
    Whole,        \* the request for all of the mirror
    Covers,       \* the files under a path
    Buckets,      \* paths that look like a shard of pdb_mmcif
    Canonical,    \* of these, the ones spelled as discovery spells them
    Wide,         \* files whose names take more than one byte a character
    Gone,         \* no such file
    Garbled,      \* a name cut in two by the end of a chunk
    MaxAttempts,  \* retry_attempts
    PipeSize,     \* what a pipe holds
    MaxCalls,     \* bound: acquisitions
    MaxEdits,     \* bound: changes upstream
    MaxNotices    \* bound: what one rsync writes to stderr besides its failure

ASSUME RequestAssumption ==
    /\ Whole \in Request \ Buckets /\ Canonical \subseteq Buckets /\ Buckets \subseteq Request
    /\ Covers \in [Request -> SUBSET File] /\ Covers[Whole] = File
ASSUME NameAssumption == Wide \subseteq File /\ Garbled \notin File /\ Gone \notin Nat
ASSUME FiniteAssumption == IsFiniteSet(File) /\ IsFiniteSet(Request)
ASSUME SizeAssumption ==
    /\ {MaxAttempts, PipeSize} \subseteq Nat \ {0}
    /\ {MaxCalls, MaxEdits, MaxNotices} \subseteq Nat

Version == 0..MaxEdits
Name    == File \cup {Garbled}

VARIABLES
    remote, mirror,   \* what upstream and the mirror hold of each file
    meta,             \* .mirror_meta.json: what a path's last success has updated
    call,             \* where acquire is
    left,             \* paths it has not come to yet
    current,          \* the path its thread updates
    result, report,   \* status and updated names of every path
    attempt,          \* of the thread, 0 when there is none
    child,            \* its rsync
    fault,            \* what that one fails of
    todo, staged,     \* files it still has to receive, and has received
    installed,        \* files it has moved into the mirror
    out, err,         \* its pipes: names, and a number of chunks
    stdout,           \* stdout_buffer
    notices,
    held,             \* history: what upstream held since the call began
    calls, edits

callVars  == <<call, left, current, result, report>>
childVars == <<child, fault, todo, staged, installed, out, err, notices>>
threadVars == <<attempt, childVars, stdout>>
counts    == <<calls, edits>>
vars      == <<remote, mirror, meta, callVars, threadVars, held, counts>>

Ended   == {"idle", "succeeded", "failed", "cancelled"}
Calls   == Ended \cup {"discovering", "next", "running"}
Faults  == {"none", "transient", "permanent", "missing"}
Alive   == {"starting", "receiving"}
Children == Alive \cup {"none", "failing", "exited"}

NothingStaged == [f \in File |-> Gone]
Staged == {f \in File : staged[f] # Gone}

\* A directory is there as long as one of its files is.
Exists(r) == r = Whole \/ \E f \in Covers[r] : remote[f] # Gone

Init ==
    /\ remote \in [File -> {0, Gone}]
    /\ mirror = [f \in File |-> Gone]
    /\ meta = [r \in Request |-> {}]
    /\ call = "idle" /\ left = {} /\ current = Whole
    /\ result = [r \in Request |-> "none"]
    /\ report = [r \in Request |-> {}]
    /\ attempt = 0 /\ child = "none" /\ fault = "none"
    /\ todo = {} /\ staged = NothingStaged /\ installed = {}
    /\ out = {} /\ err = 0 /\ stdout = {} /\ notices = 0
    /\ held = [f \in File |-> {}]
    /\ calls = 0 /\ edits = 0

-----------------------------------------------------------------------------
Modify(f) ==
    /\ edits < MaxEdits
    /\ edits' = edits + 1
    /\ \E v \in {edits + 1, Gone} \ {remote[f]} :
          /\ remote' = [remote EXCEPT ![f] = v]
          /\ held' = IF call \in Ended THEN held ELSE [held EXCEPT ![f] = @ \cup {v}]
    /\ UNCHANGED <<mirror, meta, callVars, threadVars, calls>>

-----------------------------------------------------------------------------
(* The coroutine: RsyncSourceAdapter.acquire down to RsyncMirror.update_paths. *)

\* Without paths, the whole mirror is updated.
Asked(paths) == IF paths = {} THEN {Whole} ELSE paths

\* _should_prefilter.
Prefilters(paths) == Cardinality(paths) >= 2 /\ paths \subseteq Buckets

Acquire(paths) ==
    /\ call \in Ended /\ attempt = 0 /\ calls < MaxCalls
    /\ calls' = calls + 1
    /\ call' = IF Prefilters(paths) THEN "discovering" ELSE "next"
    /\ left' = Asked(paths)
    /\ result' = [r \in Request |-> "none"]
    /\ report' = [r \in Request |-> {}]
    /\ held' = [f \in File |-> {remote[f]}]
    /\ UNCHANGED <<remote, mirror, meta, current, threadVars, edits>>

\* Paths the listing does not name are skipped as successes; if it names none,
\* an empty list is handed on, which asks for the whole mirror.
Discover ==
    /\ call = "discovering"
    /\ call' = "next"
    /\ LET found == {r \in left \cap Canonical : Exists(r)}
       IN /\ left' = Asked(found)
          /\ result' = [r \in Request |->
                          IF found # {} /\ r \in left \ found THEN "success" ELSE result[r]]
    /\ UNCHANGED <<remote, mirror, meta, current, report, threadVars, held, counts>>

DiscoverFails ==
    /\ call = "discovering"
    /\ call' = "next"
    /\ UNCHANGED <<remote, mirror, meta, left, current, result, report, threadVars, held, counts>>

\* No rate slot: the path counts as done and repeats its last success's report.
Refuse(r) ==
    /\ call = "next" /\ r \in left
    /\ left' = left \ {r}
    /\ result' = [result EXCEPT ![r] = "skipped"]
    /\ report' = [report EXCEPT ![r] = meta[r]]
    /\ UNCHANGED <<remote, mirror, meta, call, current, threadVars, held, counts>>

\* A child and the readers' buffers are of one attempt.
NewChild(state) ==
    /\ child' = state /\ fault' = "none"
    /\ todo' = {} /\ staged' = NothingStaged /\ installed' = {}
    /\ out' = {} /\ err' = 0 /\ stdout' = {} /\ notices' = 0

Start(r) ==
    /\ call = "next" /\ r \in left
    /\ left' = left \ {r}
    /\ call' = "running" /\ current' = r
    /\ attempt' = 1 /\ NewChild("starting")
    /\ UNCHANGED <<remote, mirror, meta, result, report, held, counts>>

NoResults ==
    /\ left' = {}
    /\ result' = [r \in Request |-> "none"]
    /\ report' = [r \in Request |-> {}]

\* A directory cannot be made or rsync not be started: the results are dropped.
Raise ==
    /\ call = "next" /\ left # {}
    /\ call' = "failed" /\ NoResults
    /\ UNCHANGED <<remote, mirror, meta, current, threadVars, held, counts>>

\* rsync_results_ok.
Return ==
    /\ call = "next" /\ left = {}
    /\ call' = IF \E r \in Request : result[r] = "failed" THEN "failed" ELSE "succeeded"
    /\ UNCHANGED <<remote, mirror, meta, left, current, result, report, threadVars, held, counts>>

\* The caller is gone; the thread is not.
Cancel ==
    /\ call \in {"discovering", "running"}
    /\ call' = "cancelled" /\ NoResults
    /\ UNCHANGED <<remote, mirror, meta, current, threadVars, held, counts>>

-----------------------------------------------------------------------------
(* rsync, with --delay-updates and --itemize-changes.                        *)

\* The file list: what differs is received, a directory that is not there is
\* an error.
List ==
    /\ child = "starting"
    /\ IF Exists(current)
       THEN /\ child' = "receiving"
            /\ todo' = {f \in Covers[current] : remote[f] \notin {Gone, mirror[f]}}
            /\ UNCHANGED fault
       ELSE child' = "failing" /\ fault' = "missing" /\ UNCHANGED todo
    /\ UNCHANGED <<remote, mirror, meta, callVars, attempt, staged, installed, out, err,
                   stdout, notices, held, counts>>

\* The name goes to stdout; a file that has vanished makes for a failure.
Receive(f) ==
    /\ child = "receiving" /\ f \in todo
    /\ todo' = todo \ {f}
    /\ IF remote[f] = Gone
       THEN fault' = "permanent" /\ UNCHANGED <<staged, out>>
       ELSE /\ Cardinality(out) < PipeSize
            /\ staged' = [staged EXCEPT ![f] = remote[f]]
            /\ out' = out \cup {f}
            /\ UNCHANGED fault
    /\ UNCHANGED <<remote, mirror, meta, callVars, attempt, child, installed, err, stdout,
                   notices, held, counts>>

Install(f) ==
    /\ child = "receiving" /\ todo = {} /\ f \in Staged
    /\ mirror' = [mirror EXCEPT ![f] = staged[f]]
    /\ staged' = [staged EXCEPT ![f] = Gone]
    /\ installed' = installed \cup {f}
    /\ UNCHANGED <<remote, meta, callVars, attempt, child, fault, todo, out, err, stdout,
                   notices, held, counts>>

Notice ==
    /\ child \in Alive /\ notices < MaxNotices /\ err < PipeSize
    /\ notices' = notices + 1
    /\ err' = err + 1
    /\ UNCHANGED <<remote, mirror, meta, callVars, attempt, child, fault, todo, staged,
                   installed, out, stdout, held, counts>>

\* The connection breaks or the server refuses: what is staged is lost.
Break ==
    /\ child \in Alive
    /\ child' = "failing"
    /\ fault' \in {"transient", "permanent"}
    /\ staged' = NothingStaged
    /\ UNCHANGED <<remote, mirror, meta, callVars, attempt, todo, installed, out, err, stdout,
                   notices, held, counts>>

\* A failure is written to stderr first.
Exit ==
    /\ \/ child = "failing"
       \/ child = "receiving" /\ todo = {} /\ Staged = {}
    /\ child' = "exited"
    /\ IF fault = "none" THEN UNCHANGED err ELSE err < PipeSize /\ err' = err + 1
    /\ UNCHANGED <<remote, mirror, meta, callVars, attempt, fault, todo, staged, installed,
                   out, stdout, notices, held, counts>>

-----------------------------------------------------------------------------
(* The threads: two that read, one that waits for them.                      *)

\* _stream_pipe of stdout: a chunk may end within a character.
ReadOut ==
    /\ \E f \in out : \E name \in {f} \cup (IF f \in Wide THEN {Garbled} ELSE {}) :
          /\ out' = out \ {f}
          /\ stdout' = stdout \cup {name}
    /\ UNCHANGED <<remote, mirror, meta, callVars, attempt, child, fault, todo, staged,
                   installed, err, notices, held, counts>>

\* Mutant: stderr is read when stdout has come to its end.
ReadErrLater ==
    /\ err > 0 /\ child = "exited" /\ out = {}
    /\ err' = err - 1
    /\ UNCHANGED <<remote, mirror, meta, callVars, attempt, child, fault, todo, staged,
                   installed, out, stdout, notices, held, counts>>

ReadErr ==
    /\ err > 0
    /\ err' = err - 1
    /\ UNCHANGED <<remote, mirror, meta, callVars, attempt, child, fault, todo, staged,
                   installed, out, stdout, notices, held, counts>>

\* Mutant: the process has ended, so its output is complete.
Waited == child = "exited"

\* proc.wait and both joins: readers end when the child has and the pipes are empty.
Joined == child = "exited" /\ out = {} /\ err = 0

\* _is_transient_rsync_failure.
Transient == fault = "transient"

\* Mutant: off by one.
RetryOnceMore ==
    /\ attempt > 0 /\ Joined
    /\ Transient /\ attempt <= MaxAttempts
    /\ attempt' = attempt + 1 /\ NewChild("starting")
    /\ UNCHANGED <<remote, mirror, meta, callVars, held, counts>>

\* Mutant: every attempt is the first.
RetryUncounted ==
    /\ attempt > 0 /\ Joined
    /\ Transient /\ attempt < MaxAttempts
    /\ attempt' = 1 /\ NewChild("starting")
    /\ UNCHANGED <<remote, mirror, meta, callVars, held, counts>>

Retry ==
    /\ attempt > 0 /\ Joined
    /\ Transient /\ attempt < MaxAttempts
    /\ attempt' = attempt + 1 /\ NewChild("starting")
    /\ UNCHANGED <<remote, mirror, meta, callVars, held, counts>>

\* Mutant: a shard that cannot be had counts as one that is not there.
AnyFailedShard == fault # "none" /\ current \in Buckets

\* _is_missing_remote_mmcif_bucket.
MissingShard == fault = "missing" /\ current \in Buckets

\* The thread returns to update or update_paths, if that is still waiting.
Conclude ==
    /\ attempt > 0 /\ Joined
    /\ fault = "none" \/ ~Transient \/ attempt >= MaxAttempts
    /\ attempt' = 0 /\ current' = Whole /\ NewChild("none")
    /\ \/ /\ call = "running" /\ call' = "next"
          /\ result' = [result EXCEPT ![current] =
                          IF fault = "none" \/ MissingShard THEN "success" ELSE "failed"]
          /\ report' = [report EXCEPT ![current] = IF fault = "none" THEN stdout ELSE {}]
          /\ meta' = [meta EXCEPT ![current] = IF fault = "none" THEN stdout ELSE @]
          /\ UNCHANGED left
       \/ \* .mirror_meta.json cannot be written.
          /\ call = "running" /\ fault = "none"
          /\ call' = "failed" /\ NoResults /\ UNCHANGED meta
       \/ call = "cancelled" /\ UNCHANGED <<meta, call, left, result, report>>
    /\ UNCHANGED <<remote, mirror, held, counts>>

-----------------------------------------------------------------------------
Coroutine ==
    \/ Discover \/ DiscoverFails \/ Raise \/ Return
    \/ \E r \in Request : Refuse(r) \/ Start(r)
Rsync == List \/ Break \/ Exit \/ \E f \in File : Receive(f) \/ Install(f)
Waiter == Retry \/ Conclude

Next ==
    \/ \E f \in File : Modify(f)
    \/ \E paths \in SUBSET (Request \ {Whole}) : Acquire(paths)
    \/ Coroutine \/ Cancel
    \/ Rsync \/ Notice
    \/ ReadOut \/ ReadErr \/ Waiter

\* rsync ends of its own timeouts, threads and the event loop are scheduled.
Fairness ==
    /\ WF_vars(Coroutine) /\ WF_vars(Rsync)
    /\ WF_vars(ReadOut) /\ WF_vars(ReadErr) /\ WF_vars(Waiter)

Spec == Init /\ [][Next]_vars /\ Fairness
-----------------------------------------------------------------------------
TypeOK ==
    /\ remote \in [File -> Version \cup {Gone}]
    /\ mirror \in [File -> Version \cup {Gone}]
    /\ staged \in [File -> Version \cup {Gone}]
    /\ meta \in [Request -> SUBSET Name]
    /\ call \in Calls /\ left \subseteq Request /\ current \in Request
    /\ result \in [Request -> {"none", "success", "skipped", "failed"}]
    /\ report \in [Request -> SUBSET Name]
    /\ attempt \in 0..MaxAttempts /\ (call = "running" => attempt > 0)
    /\ child \in Children /\ (child = "none" <=> attempt = 0)
    /\ fault \in Faults
    /\ todo \subseteq File /\ installed \subseteq File
    /\ out \subseteq File /\ Cardinality(out) <= PipeSize
    /\ err \in 0..PipeSize /\ notices \in 0..MaxNotices
    /\ stdout \subseteq Name
    /\ held \in [File -> SUBSET (Version \cup {Gone})]
    /\ calls \in 0..MaxCalls /\ edits \in 0..MaxEdits

\* A transfer that ends well reports the files it has put into the mirror, all
\* of them but those whose names a chunk has cut, and no others: nothing of what
\* rsync prints is lost between its exit, the pipes and the threads.  (What an
\* earlier attempt has installed before it failed, no report names.)
ReportsEverything ==
    [][\A r \in Request :
          attempt > 0 /\ fault = "none" /\ result[r] = "none" /\ result'[r] = "success"
          => /\ installed \ Wide \subseteq report'[r]
             /\ report'[r] \subseteq installed \cup {Garbled}]_vars

\* When an acquisition succeeds, the mirror holds every file of its successful
\* paths in a version that upstream had during the acquisition, or upstream did
\* not have the file for part of it: discovery, retries, shards that are taken
\* for missing and changes in between lose none.  A shard path that is not
\* spelled as discovery spells it is skipped, though, and proves nothing.
MirroredOnSuccess ==
    call = "succeeded" =>
        \A r \in Request : result[r] = "success" /\ r \notin Buckets \ Canonical =>
            \A f \in Covers[r] : mirror[f] \in held[f] \/ Gone \in held[f]

\* What is left to do of a call and of its thread, the outermost loop first:
\* paths, attempts, the child's course, files to receive and to install, what
\* it may still write, and what is in its pipes.
AtRest == call \in Ended /\ attempt = 0

CallStage ==
    CASE call \in Ended -> 0
      [] call \in {"next", "running"} -> 1
      [] call = "discovering" -> 2

PathsLeft == 2 * Cardinality(left) + (IF call = "running" THEN 1 ELSE 0)

AttemptsLeft == IF attempt = 0 THEN 0 ELSE 1 + MaxAttempts - attempt

ChildStage ==
    CASE child = "starting" -> 4
      [] child = "receiving" -> 3
      [] child = "failing" -> 2
      [] child = "exited" -> 1
      [] child = "none" -> 0

Remaining ==
    <<CallStage, PathsLeft, AttemptsLeft, ChildStage, Cardinality(todo),
      Cardinality(Staged), MaxNotices - notices, Cardinality(out) + err>>

LexLess(a, b) == \E i \in DOMAIN a : a[i] < b[i] /\ \A j \in 1..(i - 1) : a[j] = b[j]

\* Every step of a call, of its thread, of rsync and of the pipes' readers brings
\* the call nearer to its end; retries, failures, names that vanish and a
\* cancellation never set it back, and neither does a change upstream.
RunsDown ==
    [][~AtRest => \/ LexLess(Remaining', Remaining)
                  \/ remote' # remote /\ Remaining' = Remaining]_vars

\* Whatever the network and the caller do, a call comes to its end, and so does
\* the thread it may leave behind: no pipe fills up for ever, no retry goes on.
UpdateReturns == call \notin Ended \/ attempt > 0 ~> call \in Ended /\ attempt = 0
=============================================================================

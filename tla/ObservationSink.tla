---------------------------- MODULE ObservationSink -------------------------
(***************************************************************************)
(* The file sink of qualification observations (file_sink.rs): every call  *)
(* is served by a blocking worker of its own that writes a temporary file, *)
(* syncs it, links it under its final name, removes the temporary name and *)
(* syncs the directory.  Caller and worker agree on the outcome through a  *)
(* receipt behind a mutex; the caller may give up at any moment.           *)
(*                                                                         *)
(* The worker looks at receipt and deadline (checkpoint) before each       *)
(* system call, but either may change between the look and the call.       *)
(***************************************************************************)
EXTENDS Naturals, Sequences, SequencesExt, FiniteSetsExt

CONSTANTS
    Calls,            \* the calls of observe_batch and observe_live
    MaxObservations   \* MAX_OBSERVATIONS

ASSUME SinkAssumption == IsFiniteSet(Calls) /\ MaxObservations \in Nat

VARIABLES
    written,   \* the slot counter
    caller,    \* where each caller is, and its verdict
    late,      \* the deadline of the call has passed
    receipt,   \* "active", "cancelled" or "accepted"
    ready,     \* what the worker has sent
    worker,    \* the step each worker is at
    checked,   \* it has passed the checkpoint before that step
    sleeping,  \* it waits on the condition variable
    inode,     \* "empty", "written" or "synced"
    temp,      \* the temporary name exists
    final,     \* the final name: "none", "own" or "foreign"
    durable,   \* the directory has been synced with the final name
    alive,     \* the process runs
    dirty      \* ghost: some clean-up could not remove a name

callVars == <<written, caller>>
fileVars == <<inode, temp, final, durable, dirty>>
sinkVars == <<written, caller, late, receipt, ready, worker, checked, sleeping,
          inode, temp, final, durable, alive, dirty>>

\* Mutant: the directory is not synced.
Steps_NoDirectorySync == <<"create", "write", "sync", "publish", "unlink", "ready">>

Steps == <<"create", "write", "sync", "publish", "unlink", "opendir", "syncdir", "ready">>
Working == Range(Steps)
After(step) == Steps[1 + (CHOOSE i \in 1 .. Len(Steps) - 1 : Steps[i] = step)]

Verdicts == {"ok", "failed", "dropped", "refused"}

SinkInit ==
    /\ written = 0
    /\ caller = [c \in Calls |-> "idle"]
    /\ late = [c \in Calls |-> FALSE]
    /\ receipt = [c \in Calls |-> "active"]
    /\ ready = [c \in Calls |-> "none"]
    /\ worker = [c \in Calls |-> "none"]
    /\ checked = [c \in Calls |-> FALSE]
    /\ sleeping = [c \in Calls |-> FALSE]
    /\ inode = [c \in Calls |-> "empty"]
    /\ temp = [c \in Calls |-> FALSE]
    /\ final \in [Calls -> {"none", "foreign"}]
    /\ durable = [c \in Calls |-> FALSE]
    /\ alive = TRUE /\ dirty = FALSE

-----------------------------------------------------------------------------
(* The caller *)

WithinLimit(slot) == slot < MaxObservations

\* write: the slot is taken at the call, before the future is polled.
Call(c) ==
    /\ alive /\ caller[c] = "idle"
    /\ written' = written + 1
    /\ caller' = [caller EXCEPT ![c] = IF WithinLimit(written) THEN "called" ELSE "limited"]
    /\ UNCHANGED <<late, receipt, ready, worker, checked, sleeping, alive, fileVars>>

\* The slot beyond the limit is given back.
RefuseCall(c) ==
    /\ alive /\ caller[c] = "limited"
    /\ written' = written - 1
    /\ caller' = [caller EXCEPT ![c] = "refused"]
    /\ UNCHANGED <<late, receipt, ready, worker, checked, sleeping, alive, fileVars>>

\* The first poll hands the record to a blocking worker.
Spawn(c) ==
    /\ alive /\ caller[c] = "called"
    /\ caller' = [caller EXCEPT ![c] = "awaiting"]
    /\ worker' = [worker EXCEPT ![c] = "spawned"]
    /\ UNCHANGED <<written, late, receipt, ready, checked, sleeping, alive, fileVars>>

CallDeadlinePasses(c) ==
    /\ alive /\ caller[c] \in {"called", "awaiting"} /\ ~late[c]
    /\ late' = [late EXCEPT ![c] = TRUE]
    /\ UNCHANGED <<callVars, receipt, ready, worker, checked, sleeping, alive, fileVars>>

\* Mutant: the state changes but nobody is woken.
cancel_Silent(c) ==
    /\ receipt' = [receipt EXCEPT ![c] = IF @ = "active" THEN "cancelled" ELSE @]
    /\ UNCHANGED sleeping

\* cancel and accept hold the mutex and wake the worker.
cancel(c) ==
    /\ receipt' = [receipt EXCEPT ![c] = IF @ = "active" THEN "cancelled" ELSE @]
    /\ sleeping' = [sleeping EXCEPT ![c] = FALSE]

accepts(c) == receipt[c] = "active" /\ ~late[c]

accept(c) ==
    /\ receipt' = [receipt EXCEPT ![c] =
                    IF @ # "active" THEN @ ELSE IF accepts(c) THEN "accepted" ELSE "cancelled"]
    /\ sleeping' = [sleeping EXCEPT ![c] = FALSE]

\* The worker has sent something, or has gone without a word.
Answered(c) ==
    /\ alive /\ caller[c] = "awaiting" /\ ready[c] # "none"
    /\ IF ready[c] = "ok"
       THEN accept(c) /\ caller' = [caller EXCEPT ![c] = IF accepts(c) THEN "ok" ELSE "failed"]
       ELSE cancel(c) /\ caller' = [caller EXCEPT ![c] = "failed"]
    /\ UNCHANGED <<written, late, ready, worker, checked, alive, fileVars>>

\* The caller's own timer, or an abort of its task, drops the future.
Dropped(c) ==
    /\ alive /\ caller[c] \in {"called", "awaiting"}
    /\ caller' = [caller EXCEPT ![c] = "dropped"]
    /\ cancel(c)
    /\ UNCHANGED <<written, late, ready, worker, checked, alive, fileVars>>

-----------------------------------------------------------------------------
(* The worker *)

MoveTo(c, place) ==
    /\ worker' = [worker EXCEPT ![c] = place]
    /\ checked' = [checked EXCEPT ![c] = FALSE]

Send(c, word) ==
    ready' = [ready EXCEPT ![c] = IF caller[c] = "awaiting" THEN word ELSE @]

\* The pool runs the closure, or drops it.
Start(c) ==
    /\ alive /\ worker[c] = "spawned"
    /\ \/ MoveTo(c, Steps[1]) /\ UNCHANGED ready           \* serialized and small enough
       \/ MoveTo(c, "report") /\ UNCHANGED ready
       \/ MoveTo(c, "done") /\ Send(c, "closed")
    /\ UNCHANGED <<callVars, late, receipt, sleeping, alive, fileVars>>

is_active_before(c) == receipt[c] = "active" /\ ~late[c]

\* checkpoint: a guard that fails drops what has been written.
Checkpoint(c) ==
    /\ alive /\ worker[c] \in Working /\ ~checked[c]
    /\ IF is_active_before(c)
       THEN checked' = [checked EXCEPT ![c] = TRUE] /\ UNCHANGED worker
       ELSE MoveTo(c, IF worker[c] = Steps[1] THEN "report" ELSE "cleanup")
    /\ UNCHANGED <<callVars, late, receipt, ready, sleeping, alive, fileVars>>

\* The effect of a system call that succeeds.
Effect(c) ==
    CASE worker[c] = "create"  ->
            temp' = [temp EXCEPT ![c] = TRUE] /\ UNCHANGED <<inode, final, durable>>
      [] worker[c] = "write"   ->
            inode' = [inode EXCEPT ![c] = "written"] /\ UNCHANGED <<temp, final, durable>>
      [] worker[c] = "sync"    ->
            inode' = [inode EXCEPT ![c] = "synced"] /\ UNCHANGED <<temp, final, durable>>
      [] worker[c] = "publish" ->
            final' = [final EXCEPT ![c] = "own"] /\ UNCHANGED <<inode, temp, durable>>
      [] worker[c] = "unlink"  ->
            temp' = [temp EXCEPT ![c] = FALSE] /\ UNCHANGED <<inode, final, durable>>
      [] worker[c] = "opendir" -> UNCHANGED <<inode, temp, final, durable>>
      [] worker[c] = "syncdir" ->
            durable' = [durable EXCEPT ![c] = TRUE] /\ UNCHANGED <<inode, temp, final>>

\* A hard link never replaces a name.
CanSucceed(c) == worker[c] = "publish" => final[c] = "none"

SystemCall(c) ==
    /\ alive /\ worker[c] \in Working \ {"ready"} /\ checked[c]
    /\ CanSucceed(c)
    /\ Effect(c) /\ MoveTo(c, After(worker[c]))
    /\ UNCHANGED <<callVars, late, receipt, ready, sleeping, alive, dirty>>

\* A temporary file whose metadata cannot be read has no guard yet.
SystemCallFails(c) ==
    /\ alive /\ worker[c] \in Working \ {"ready"} /\ checked[c]
    /\ \/ MoveTo(c, IF worker[c] = "create" THEN "report" ELSE "cleanup")
          /\ UNCHANGED fileVars
       \/ /\ worker[c] = "create" /\ MoveTo(c, "report")
          /\ temp' = [temp EXCEPT ![c] = TRUE] /\ dirty' = TRUE
          /\ UNCHANGED <<inode, final, durable>>
    /\ UNCHANGED <<callVars, late, receipt, ready, sleeping, alive>>

\* Prepared: if nobody is there to be told, the worker cancels on its own.
TellReady(c) ==
    /\ alive /\ worker[c] = "ready" /\ checked[c]
    /\ IF caller[c] = "awaiting" THEN Send(c, "ok") /\ UNCHANGED <<receipt, sleeping>>
                                 ELSE cancel(c) /\ UNCHANGED ready
    /\ MoveTo(c, "wait")
    /\ UNCHANGED <<callVars, late, alive, fileVars>>

\* wait_for_caller: a look at the receipt with the mutex held, then sleep.
WaitForCaller(c) ==
    /\ alive /\ worker[c] = "wait" /\ ~sleeping[c]
    /\ IF receipt[c] = "active"
       THEN sleeping' = [sleeping EXCEPT ![c] = TRUE] /\ UNCHANGED <<worker, checked>>
       ELSE MoveTo(c, IF receipt[c] = "accepted" THEN "done" ELSE "cleanup") /\ UNCHANGED sleeping
    /\ UNCHANGED <<callVars, late, receipt, ready, alive, fileVars>>

\* The guard removes the final name only when it is its own inode.
RemovesFinal(c) == final[c] = "own"

\* Drop for PublicationGuard, best effort; a failed prepare is then reported.
Cleanup(c) ==
    /\ alive /\ worker[c] = "cleanup"
    /\ \/ /\ final' = [final EXCEPT ![c] = IF RemovesFinal(c) THEN "none" ELSE @]
          /\ temp' = [temp EXCEPT ![c] = FALSE]
          /\ UNCHANGED dirty
       \/ /\ final[c] = "own" \/ temp[c]
          /\ dirty' = TRUE /\ UNCHANGED <<final, temp>>
    /\ MoveTo(c, IF ready[c] = "ok" THEN "done" ELSE "report")
    /\ UNCHANGED <<callVars, late, receipt, ready, sleeping, inode, durable, alive>>

Report(c) ==
    /\ alive /\ worker[c] = "report"
    /\ Send(c, "err") /\ MoveTo(c, "done")
    /\ UNCHANGED <<callVars, late, receipt, sleeping, alive, fileVars>>

-----------------------------------------------------------------------------
\* The machine stops: what was not synced may be lost.
PowerLoss ==
    /\ alive /\ alive' = FALSE
    /\ \E kept \in SUBSET {c \in Calls : final[c] = "own"}, keptTemp \in SUBSET {c \in Calls : temp[c]} :
        /\ final' = [c \in Calls |->
                        IF final[c] = "own" /\ ~durable[c] /\ c \notin kept THEN "none" ELSE final[c]]
        /\ temp' = [c \in Calls |-> c \in keptTemp]
    /\ inode' = [c \in Calls |-> IF inode[c] = "written" THEN "empty" ELSE inode[c]]
    /\ UNCHANGED <<callVars, late, receipt, ready, worker, checked, sleeping, durable, dirty>>

Over ==
    /\ ~alive \/ \A c \in Calls : caller[c] \in Verdicts /\ worker[c] \in {"none", "done"}
    /\ UNCHANGED sinkVars

WorkerStep(c) ==
    \/ Start(c) \/ Checkpoint(c) \/ SystemCall(c) \/ SystemCallFails(c)
    \/ TellReady(c) \/ WaitForCaller(c) \/ Cleanup(c) \/ Report(c)

CallerStep(c) == Call(c) \/ RefuseCall(c) \/ Spawn(c) \/ Answered(c) \/ Dropped(c)

SinkNext ==
    \/ \E c \in Calls : CallerStep(c) \/ CallDeadlinePasses(c) \/ WorkerStep(c)
    \/ PowerLoss \/ Over

SinkSpec == SinkInit /\ [][SinkNext]_sinkVars

\* System calls end, the pool runs its tasks, and the caller's timer drops a
\* call that has not been answered in time.
SinkFairSpec ==
    SinkSpec /\ \A c \in Calls :
        /\ WF_sinkVars(WorkerStep(c))
        /\ WF_sinkVars(Dropped(c))

-----------------------------------------------------------------------------
(* Properties *)

\* A call that was told Ok has its record under the final name, complete and
\* synced, whatever happens afterwards, a power loss included; the temporary
\* name is gone (PublicationReceipt::accept, PublicationGuard).
AcceptedIsDurable ==
    \A c \in Calls : caller[c] = "ok" =>
        final[c] = "own" /\ inode[c] = "synced" /\ durable[c] /\ ~temp[c]

\* When the workers have ended and no removal failed, the directory holds the
\* records of the calls that were told Ok and nothing else of this process: a
\* timeout, a drop or a failure wins over a worker that finished late.
InventoryIsEvidence ==
    alive /\ ~dirty =>
        \A c \in Calls : worker[c] = "done" /\ caller[c] \in Verdicts =>
            /\ ~temp[c]
            /\ final[c] = "own" <=> caller[c] = "ok"

\* The process publishes no more records than the limit allows, however the
\* calls interleave around the counter.
RecordsBounded == Cardinality({c \in Calls : final[c] = "own"}) <= MaxObservations

\* No worker sleeps for ever on its condition variable: each ends once its
\* caller has answered, given up or been dropped, or the machine has stopped.
WorkersEnd == \A c \in Calls : worker[c] = "spawned" ~> (worker[c] = "done" \/ ~alive)

\* The directory is evidence, at every moment of every race between callers,
\* workers and the power supply: it holds each accepted record whole, nothing
\* of a call that was not accepted, and no more than the limit (file_sink.rs).
EvidenceInv == AcceptedIsDurable /\ InventoryIsEvidence /\ RecordsBounded
=============================================================================

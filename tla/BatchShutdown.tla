--------------------------- MODULE BatchShutdown ----------------------------
(***************************************************************************)
(* Admission permits, tracked executions and graceful shutdown of the      *)
(* gateway process (server/state.rs, the permits of server/batch.rs and    *)
(* server/recovery.rs, main.rs serve_until_shutdown).                      *)
(*                                                                         *)
(* A request is one POST and the execution it may spawn, which takes over  *)
(* its permits.  The worker is the startup backlog task: it is registered  *)
(* like an execution, takes permits once per candidate, and waits for      *)
(* them.  What an execution does is the subject of BatchPipeline.          *)
(*                                                                         *)
(* The global semaphore is tokio's: a permit that comes free belongs to    *)
(* the first waiter, which keeps what it gets until it has enough, and a   *)
(* request, which never waits, finds none free while anyone waits.  The    *)
(* worker is the only waiter of the other two semaphores, so a plain       *)
(* counter models each of them.                                            *)
(***************************************************************************)
EXTENDS Integers, FiniteSets, Sequences

CONSTANTS
    Requests,    \* POST requests
    Worker,      \* the startup backlog worker
    Shutdown,    \* the waiter of shutdown_batch_tasks
    Capacity,    \* batch_capacity
    Candidates   \* jobs in the frozen backlog

ASSUME CapacityAssumption == Capacity \in Nat \ {0}
ASSUME BacklogAssumption  == Candidates \in Nat
ASSUME ActorAssumption    == /\ Worker \notin Requests
                             /\ Shutdown \notin Requests \cup {Worker}

ProviderCapacity == (Capacity + 1) \div 2

VARIABLES
    pc,          \* [Requests \cup {Worker} -> Pc]
    left,        \* backlog candidates the worker has not handled
    stage,       \* progress of serve_until_shutdown
    accepting,   \* accepting_work
    closed,      \* batch_task_registration_closed
    expired,     \* the shutdown deadline has passed
    free,        \* available permits: [global, batch, provider]
    queue,       \* waiters of the global semaphore, in order
    gathered,    \* permits the shutdown waiter has been assigned
    registry,    \* batch_tasks: the tracked handles
    draining,    \* handles taken over by drain_tasks_until
    aborting,    \* of these, the ones told to abort
    refused,     \* history: admitted requests whose spawn was refused
    aborted      \* history: tasks that ended by an abort

taskVars == <<pc, left>>
semVars  == <<free, queue, gathered>>
stopVars == <<stage, accepting, closed, expired, registry, draining, aborting>>
history  == <<refused, aborted>>
vars == <<taskVars, semVars, stopVars, history>>

Actors == Requests \cup {Worker}

Pc == {"new", "try", "recheck", "batch", "provider", "admit", "spawn",
       "enter", "wait", "verify", "run", "drop", "over"}

Stages == {"serving", "signalled", "quiesce", "close", "take", "drain", "join", "stopped"}

Kinds == {"global", "batch", "provider"}

\* Only the worker and shutdown wait, and each waits once.
Queues == {<<>>, <<Worker>>, <<Shutdown>>, <<Worker, Shutdown>>, <<Shutdown, Worker>>}

TypeOK ==
    /\ pc \in [Actors -> Pc]
    /\ left \in 0 .. Candidates
    /\ stage \in Stages
    /\ accepting \in BOOLEAN
    /\ closed \in BOOLEAN
    /\ expired \in BOOLEAN
    /\ free \in [Kinds -> 0 .. Capacity]
    /\ queue \in Queues
    /\ gathered \in 0 .. Capacity
    /\ registry \subseteq Actors
    /\ draining \subseteq Actors
    /\ aborting \subseteq draining
    /\ refused \subseteq Requests
    /\ aborted \subseteq Actors

Init ==
    /\ pc = [t \in Actors |-> "new"]
    /\ left = Candidates
    /\ stage = "serving"
    /\ accepting = TRUE
    /\ closed = FALSE
    /\ expired = FALSE
    /\ free = [k \in Kinds |-> IF k = "provider" THEN ProviderCapacity ELSE Capacity]
    /\ queue = <<>>
    /\ gathered = 0
    /\ registry = {Worker}
    /\ draining = {}
    /\ aborting = {}
    /\ refused = {}
    /\ aborted = {}

-----------------------------------------------------------------------------
(* Permits *)

\* The permits an actor holds at each point.
Holds(t) ==
    CASE pc[t] \in {"recheck", "batch"}                  -> {"global"}
      [] pc[t] = "provider"                              -> {"global", "batch"}
      [] pc[t] \in {"admit", "spawn", "verify", "run"}   -> Kinds
      [] pc[t] = "drop"                                  -> {"batch", "provider"}
      [] OTHER                                           -> {}

Without(kinds) == [k \in Kinds |-> IF k \in kinds THEN free[k] - 1 ELSE free[k]]
Returning(kinds) == [k \in Kinds |-> IF k \in kinds THEN free[k] + 1 ELSE free[k]]

\* An actor gives up what it holds.
LetGo(t, where) ==
    /\ free' = Returning(Holds(t))
    /\ pc' = [pc EXCEPT ![t] = where]

\* It takes one free permit of a kind.
Take(t, kind, where) ==
    /\ free[kind] > 0
    /\ free' = Without({kind})
    /\ pc' = [pc EXCEPT ![t] = where]

Goto(t, where) == pc' = [pc EXCEPT ![t] = where]

\* A waiter that is dropped leaves the queue, which holds at most one other.
Waiting(w) == \E i \in DOMAIN queue : queue[i] = w
QueueWithout(w) ==
    IF ~Waiting(w) THEN queue
    ELSE IF Head(queue) = w THEN Tail(queue) ELSE <<Head(queue)>>

\* The semaphore hands free permits to its first waiter.
HandOver ==
    /\ queue # <<>> /\ free["global"] > 0
    /\ IF Head(queue) = Worker
       THEN /\ Take(Worker, "global", "batch")
            /\ queue' = Tail(queue)
            /\ UNCHANGED gathered
       ELSE /\ gathered' = gathered + 1
            /\ free' = Without({"global"})
            /\ queue' = IF gathered + 1 = Capacity THEN Tail(queue) ELSE queue
            /\ UNCHANGED pc
    /\ UNCHANGED <<left, stopVars, history>>

-----------------------------------------------------------------------------
(* POST *)

\* try_acquire_global_batch_slot looks at accepting_work twice: before it
\* tries to take a permit, and again once it holds one.
PostArrives(r) ==
    /\ pc[r] = "new"
    /\ Goto(r, IF accepting THEN "try" ELSE "over")
    /\ UNCHANGED <<left, semVars, stopVars, history>>

PostAcquires(r) ==
    /\ pc[r] = "try"
    /\ IF queue = <<>> /\ free["global"] > 0
       THEN Take(r, "global", "recheck")
       ELSE Goto(r, "over") /\ UNCHANGED free
    /\ UNCHANGED <<left, queue, gathered, stopVars, history>>

\* Mutant: the permit is kept without another look at the flag.
PostRechecks_Skipped(r) ==
    /\ pc[r] = "recheck"
    /\ Goto(r, "batch")
    /\ UNCHANGED <<left, semVars, stopVars, history>>

PostRechecks(r) ==
    /\ pc[r] = "recheck"
    /\ IF accepting
       THEN Goto(r, "batch") /\ UNCHANGED free
       ELSE LetGo(r, "over")
    /\ UNCHANGED <<left, queue, gathered, stopVars, history>>

\* try_acquire_batch_slot, and try_acquire_provider_batch_slot in
\* parse_multipart; without the permit the request is rejected.
PostReserves(r, kind, from, to) ==
    /\ pc[r] = from
    /\ \/ Take(r, kind, to)
       \/ free[kind] = 0 /\ LetGo(r, "over")
    /\ UNCHANGED <<left, queue, gathered, stopVars, history>>

\* Any failure before an execution is due, and any answer that needs none.
PostReturns(r) ==
    /\ pc[r] \in {"provider", "admit"}
    /\ LetGo(r, "over")
    /\ UNCHANGED <<left, queue, gathered, stopVars, history>>

PostAdmits(r) ==
    /\ pc[r] = "admit"
    /\ Goto(r, "spawn")
    /\ UNCHANGED <<left, semVars, stopVars, history>>

\* Finished handles are dropped whenever a new one is registered.
Unfinished(tasks) == {t \in tasks : pc[t] # "over"}

\* Mutant: the registration flag is not read.
PostSpawns_Always(r) ==
    /\ pc[r] = "spawn"
    /\ Goto(r, "run")
    /\ registry' = Unfinished(registry) \cup {r}
    /\ UNCHANGED <<left, semVars, stage, accepting, closed, expired, draining, aborting, history>>

\* Mutant: the handler keeps its global permit and drops it when it returns.
PostSpawns_PermitStays(r) ==
    /\ pc[r] = "spawn"
    /\ Goto(r, "run")
    /\ free' = Returning({"global"})
    /\ registry' = Unfinished(registry) \cup {r}
    /\ UNCHANGED <<left, queue, gathered, stage, accepting, closed, expired,
                   draining, aborting, history>>

\* spawn_batch_task, under the registry lock.  A refused future is dropped
\* together with its permits.
PostSpawns(r) ==
    /\ pc[r] = "spawn"
    /\ IF closed
       THEN /\ LetGo(r, "over")
            /\ refused' = refused \cup {r}
            /\ UNCHANGED registry
       ELSE /\ Goto(r, "run")
            /\ registry' = Unfinished(registry) \cup {r}
            /\ UNCHANGED <<free, refused>>
    /\ UNCHANGED <<left, queue, gathered, stage, accepting, closed, expired,
                   draining, aborting, aborted>>

-----------------------------------------------------------------------------
(* Tasks *)

Running(t) == IF t = Worker THEN pc[t] # "over" ELSE pc[t] \in {"run", "drop"}

\* Mutant: the global permit of an execution is forgotten.
ExecutionEnds_Leaks(t) ==
    /\ pc[t] = "run"
    /\ Goto(t, "drop")
    /\ UNCHANGED <<left, semVars, stopVars, history>>

\* An execution ends; its permits are dropped in the order of the tuple,
\* the global one first.
ExecutionEnds(t) ==
    /\ pc[t] = "run"
    /\ free' = Returning({"global"})
    /\ Goto(t, "drop")
    /\ UNCHANGED <<left, queue, gathered, stopVars, history>>

PermitsDropped(r) ==
    /\ pc[r] = "drop"
    /\ LetGo(r, "over")
    /\ UNCHANGED <<left, queue, gathered, stopVars, history>>

\* execute_actionable of the worker: it looks at accepting_work, waits for
\* the three permits, and looks again.
WorkerStarts ==
    /\ pc[Worker] = "new" /\ left > 0
    /\ IF accepting
       THEN Goto(Worker, "enter") /\ UNCHANGED left
       ELSE left' = left - 1 /\ UNCHANGED pc
    /\ UNCHANGED <<semVars, stopVars, history>>

\* Shutdown may have begun, and even queued up, since the flag was read.
WorkerWaits ==
    /\ pc[Worker] = "enter"
    /\ Goto(Worker, "wait")
    /\ queue' = Append(queue, Worker)
    /\ UNCHANGED <<left, free, gathered, stopVars, history>>

WorkerReserves(kind, from, to) ==
    /\ pc[Worker] = from
    /\ Take(Worker, kind, to)
    /\ UNCHANGED <<left, queue, gathered, stopVars, history>>

WorkerVerifies ==
    /\ pc[Worker] = "verify"
    /\ IF accepting
       THEN Goto(Worker, "run") /\ UNCHANGED <<free, left>>
       ELSE LetGo(Worker, "new") /\ left' = left - 1
    /\ UNCHANGED <<queue, gathered, stopVars, history>>

WorkerMovesOn ==
    /\ pc[Worker] = "drop"
    /\ LetGo(Worker, "new")
    /\ left' = left - 1
    /\ UNCHANGED <<queue, gathered, stopVars, history>>

\* The backlog is empty, or its next page cannot be read.
WorkerEnds ==
    /\ pc[Worker] = "new"
    /\ Goto(Worker, "over")
    /\ UNCHANGED <<left, semVars, stopVars, history>>

\* A task told to abort is dropped at its next await.
TaskAborts(t) ==
    /\ t \in aborting /\ Running(t) /\ pc[t] # "drop"
    /\ LetGo(t, "over")
    /\ queue' = QueueWithout(t)
    /\ aborted' = aborted \cup {t}
    /\ UNCHANGED <<left, gathered, stopVars, refused>>

-----------------------------------------------------------------------------
(* serve_until_shutdown and shutdown_batch_tasks *)

Signal ==
    /\ stage = "serving"
    /\ stage' = "signalled"
    /\ accepting' = FALSE
    /\ UNCHANGED <<taskVars, semVars, closed, expired, registry, draining, aborting, history>>

DeadlinePasses ==
    /\ stage \notin {"serving", "stopped"}
    /\ expired' = TRUE
    /\ UNCHANGED <<taskVars, semVars, stage, accepting, closed, registry, draining, aborting, history>>

\* acquire_many_owned of the whole capacity.
AwaitQuiescence ==
    /\ stage = "signalled"
    /\ stage' = "quiesce"
    /\ queue' = Append(queue, Shutdown)
    /\ UNCHANGED <<taskVars, free, gathered, accepting, closed, expired,
                   registry, draining, aborting, history>>

Quiescent ==
    /\ stage = "quiesce"
    /\ gathered = Capacity
    /\ stage' = "close"
    /\ UNCHANGED <<taskVars, semVars, accepting, closed, expired, registry, draining, aborting, history>>

\* The wait is dropped with the permits it had been assigned.
QuiescenceExpires ==
    /\ stage = "quiesce"
    /\ expired /\ gathered < Capacity
    /\ stage' = "close"
    /\ queue' = QueueWithout(Shutdown)
    /\ free' = [free EXCEPT !["global"] = @ + gathered]
    /\ gathered' = 0
    /\ UNCHANGED <<taskVars, accepting, closed, expired, registry, draining, aborting, history>>

CloseRegistration ==
    /\ stage = "close"
    /\ stage' = "take"
    /\ closed' = TRUE
    /\ UNCHANGED <<taskVars, semVars, accepting, expired, registry, draining, aborting, history>>

TakeTasks ==
    /\ stage = "take"
    /\ stage' = "drain"
    /\ draining' = registry
    /\ registry' = {}
    /\ UNCHANGED <<taskVars, semVars, accepting, closed, expired, aborting, history>>

DrainExpires ==
    /\ stage = "drain"
    /\ expired /\ Unfinished(draining) # {}
    /\ stage' = "join"
    /\ aborting' = Unfinished(draining)
    /\ UNCHANGED <<taskVars, semVars, accepting, closed, expired, registry, draining, history>>

\* Every task has been joined; the quiescence permit is dropped.
ShutdownReturns ==
    /\ stage \in {"drain", "join"}
    /\ Unfinished(draining) = {}
    /\ stage' = "stopped"
    /\ free' = [free EXCEPT !["global"] = @ + gathered]
    /\ gathered' = 0
    /\ UNCHANGED <<taskVars, queue, accepting, closed, expired, registry, draining, aborting, history>>

Stopped == stage = "stopped" /\ UNCHANGED vars

-----------------------------------------------------------------------------
Post(r) ==
    \/ PostArrives(r) \/ PostAcquires(r) \/ PostRechecks(r)
    \/ PostReserves(r, "batch", "batch", "provider")
    \/ PostReserves(r, "provider", "provider", "admit")
    \/ PostReturns(r) \/ PostAdmits(r) \/ PostSpawns(r) \/ PermitsDropped(r)

Backlog ==
    \/ WorkerStarts \/ WorkerWaits \/ WorkerVerifies \/ WorkerMovesOn \/ WorkerEnds
    \/ WorkerReserves("batch", "batch", "provider")
    \/ WorkerReserves("provider", "provider", "verify")

Stopping ==
    \/ Signal \/ AwaitQuiescence \/ Quiescent \/ QuiescenceExpires
    \/ CloseRegistration \/ TakeTasks \/ DrainExpires \/ ShutdownReturns

Next ==
    \/ \E r \in Requests : Post(r)
    \/ \E t \in Actors : ExecutionEnds(t) \/ TaskAborts(t)
    \/ Backlog \/ HandOver \/ Stopping \/ DeadlinePasses \/ Stopped

Spec == Init /\ [][Next]_vars

\* The runtime polls the shutdown future and aborted tasks, permits that are
\* being dropped are dropped, and the deadline passes.  Nothing is assumed of
\* requests and executions: a provider call may outlive the deadline.
FairSpec ==
    /\ Spec
    /\ WF_vars(DeadlinePasses)
    /\ WF_vars(Stopping)
    /\ \A t \in Actors : WF_vars(TaskAborts(t))
    /\ \A r \in Requests : WF_vars(PermitsDropped(r))
    /\ WF_vars(WorkerMovesOn)

-----------------------------------------------------------------------------
(* Properties *)

\* No permit is lost or duplicated on any path: rejection, early return,
\* refused spawn, abort of a waiting worker, or an expired quiescence wait.
PermitsConserved ==
    \A k \in Kinds :
        free[k] + Cardinality({t \in Actors : k \in Holds(t)})
            + (IF k = "global" THEN gathered ELSE 0)
        = (IF k = "provider" THEN ProviderCapacity ELSE Capacity)

\* Every execution is known to the process: it is registered or being
\* drained, and none is left when shutdown_batch_tasks returns.
TasksAccountedFor ==
    LET running == {t \in Actors : Running(t)}
    IN  /\ running \subseteq registry \cup draining
        /\ stage = "stopped" => running = {}

\* A request that has admitted a job is refused its execution only when the
\* deadline has passed: the quiescence permit waits for every handler.
RefusedOnlyLate == refused # {} => expired

\* Once shutdown holds every permit, an abort can only hit the backlog worker
\* while it holds none: it read accepting_work before the signal and queued
\* up behind shutdown.  No execution is cut in the middle of its work.
QuietAborts ==
    [][gathered = Capacity =>
        aborted' \ aborted \subseteq {t \in {Worker} : Holds(t) = {}}]_vars

\* A shutdown that has begun returns, whatever requests, executions and the
\* waiting worker do.
ShutdownEnds == stage = "signalled" ~> stage = "stopped"
=============================================================================

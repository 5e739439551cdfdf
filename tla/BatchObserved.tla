---------------------------- MODULE BatchObserved ---------------------------
(***************************************************************************)
(* What the gateway says about its batch executions (server/effects.rs,    *)
(* metrics.rs): the effect counters and the qualification record of each   *)
(* provider effect, over the whole of BatchPipeline.                       *)
(*                                                                         *)
(* Counters belong to the process; records are files that outlive it.  How *)
(* a record becomes a file is ObservationSink's.                           *)
(***************************************************************************)
EXTENDS BatchPipeline

VARIABLES
    capture,   \* per task: what the observed recognizer captured, or none
    metrics,   \* the effect counters of this process
    records,   \* qualification records on disk
    effects    \* history: <<job, revision of the claim>> of provider calls

obsVars == <<capture, metrics, records, effects>>

NoCapture == [rev |-> -1, digest |-> FALSE]
NoMetrics == [effects |-> 0, persisted |-> 0, unknown |-> 0]

ObsInit ==
    /\ Init
    /\ capture = [p \in Tasks |-> NoCapture]
    /\ metrics = NoMetrics
    /\ records = {} /\ effects = {}

\* Mutant: an outcome whose store failed counts as established.
classify_outcome_Hopeful(verdict, st) ==
    [status |-> st, durable |-> verdict \in {"persisted", "failed"}]

\* classify_outcome: what became of an execution's outcome.
classify_outcome(verdict, st) ==
    CASE verdict = "persisted" -> [status |-> st, durable |-> TRUE]
      [] verdict = "failed"    -> [status |-> "persistence_failed", durable |-> FALSE]
      [] verdict = "conflict"  -> [status |-> "persistence_conflict", durable |-> FALSE]
      [] OTHER                 -> [status |-> "orchestration_failed", durable |-> FALSE]

Record(j, rev, digest, verdict, st) ==
    [job |-> j, rev |-> rev, digest |-> digest,
     status |-> classify_outcome(verdict, st).status,
     durable |-> classify_outcome(verdict, st).durable]

\* observe_outcome, the counters.
observe_outcome(verdict) ==
    metrics' = [metrics EXCEPT
        !.persisted = @ + (IF verdict = "persisted" THEN 1 ELSE 0),
        !.unknown   = @ + (IF verdict \in {"failed", "conflict"} THEN 1 ELSE 0)]

\* observe_qualification: the record is written, or the sink fails, takes too
\* long or is cut off.
RecordEffect(r) == records' \in {records, records \cup {r}}

\* The end of execute_fenced: counters, and the record of the capture.
Report(p, verdict, st) ==
    /\ observe_outcome(verdict)
    /\ RecordEffect(Record(task[p].job, capture[p].rev, capture[p].digest, verdict, st))
    /\ capture' = [capture EXCEPT ![p] = NoCapture]

\* A claimed execution calls the observed recognizer before it awaits again.
ObservedClaim(p) ==
    /\ ExecuteClaim(p)
    /\ IF Applies(ClaimOf(p))
       THEN /\ metrics' = [metrics EXCEPT !.effects = @ + 1]
            /\ effects' = effects \cup {<<task[p].job, ClaimOf(p).row.rev>>}
       ELSE UNCHANGED <<metrics, effects>>
    /\ UNCHANGED <<capture, records>>

\* The call returned: its result, if there is one, is digested.
ObservedRecognize(p) ==
    /\ Recognize(p)
    /\ capture' = [capture EXCEPT ![p] =
           [rev |-> task[p].snap.rev, digest |-> task'[p].out \in {"ok", "invalid"}]]
    /\ UNCHANGED <<metrics, records, effects>>

\* Only a terminal outcome has a clean-up before it is reported.
ObservedPersist(p) ==
    /\ ExecutePersist(p)
    /\ LET applied == Applies(PersistOf(p))
           st == PersistOf(p).row.st
       IN  IF applied /\ is_terminal(st)
           THEN UNCHANGED <<capture, metrics, records>>
           ELSE Report(p, IF applied THEN "persisted" ELSE "conflict", st)
    /\ UNCHANGED effects

ObservedPersistFails(p) ==
    /\ ExecutePersistFails(p)
    /\ Report(p, "failed", "none")
    /\ UNCHANGED effects

\* Whatever became of the audio, the outcome is reported after the clean-up.
ObservedCleanup(p) ==
    /\ ExecuteCleanup(p)
    /\ Report(p, "persisted", task[p].snap.st)
    /\ UNCHANGED effects

\* The process ends.
ObservedStop ==
    /\ Crash \/ RecoverRefuses \/ MaintainRefuses \/ StartupLedgerFails \/ StartupSpoolFails
    /\ capture' = [p \in Tasks |-> NoCapture]
    /\ metrics' = NoMetrics
    /\ UNCHANGED <<records, effects>>

\* Steps that change no observation.
AdmissionElsewhere(p) ==
    \/ \E j \in Jobs, q \in Requests : Post(p, j, q)
    \/ AdmitLoad(p) \/ AdmitStore(p) \/ AdmitStoreRejected(p)
    \/ AdmitInsert(p) \/ AdmitInserted(p) \/ AdmitInsertFails(p) \/ AdmitExisting(p)
    \/ AdmitVerify(p) \/ AdmitDiscard(p) \/ AdmitDiscardFails(p) \/ Disconnect(p)

ExecutionElsewhere(p) ==
    \/ ExecuteLoad(p) \/ ExecuteRead(p) \/ ExecuteReadFails(p)
    \/ ExecuteClaimFails(p) \/ ReadFails(p)

Unobserved ==
    /\ \/ \E p \in Slots : AdmissionElsewhere(p)
       \/ \E p \in Tasks : ExecutionElsewhere(p)
       \/ Boot \/ RecoverPage \/ RecoverRow \/ RecoverRemove \/ RecoverDone \/ MaintainEntry
       \/ Serve \/ DrainStep \/ LateStatement
    /\ UNCHANGED obsVars

ObsNext ==
    \/ \E p \in Tasks : \/ ObservedClaim(p) \/ ObservedRecognize(p) \/ ObservedPersist(p)
                        \/ ObservedPersistFails(p) \/ ObservedCleanup(p)
    \/ ObservedStop \/ Unobserved

ObsSpec == ObsInit /\ [][ObsNext]_<<vars, obsVars>>

-----------------------------------------------------------------------------
(* Properties *)

\* A record that says persistence was established is backed by the ledger: the
\* claim it reports was followed by a stored outcome, and a terminal status is
\* still the row's ("whether durable persistence was actually established",
\* qualification-observation.md:62; classify_outcome).
EstablishedIsStored ==
    \A r \in records : r.durable =>
        /\ ledger[r.job].rev > r.rev
        /\ is_terminal(r.status) => ledger[r.job].st = r.status

\* Every record is of a provider call that really started, and no call has
\* two records ("duplicate effect IDs"; an idempotent replay, a lost claim and
\* a recovered row leave none).
OneRecordPerEffect ==
    /\ \A r \in records : <<r.job, r.rev>> \in effects
    /\ \A r, s \in records : <<r.job, r.rev>> = <<s.job, s.rev>> => r = s

\* A completed job's record carries the digest of the result it completed with.
CompletedIsDigested == \A r \in records : r.status = "completed" => r.digest

\* The counters add up: each provider effect of this process is persisted, of
\* unknown persistence, or still in flight, and the provider was called for
\* each of them after a claim.
EffectsAccounted ==
    metrics.effects = metrics.persisted + metrics.unknown
        + Cardinality({p \in Tasks : task[p].pc \in {"egress", "persist", "cleanup"}})

\* What the gateway reports of its effects is true and complete: every record
\* is backed by the ledger and by one call of the provider, and the counters
\* agree with the executions (effects.rs, GatewayMetrics).
RecordsHonest ==
    EstablishedIsStored /\ OneRecordPerEffect /\ CompletedIsDigested /\ EffectsAccounted
=============================================================================

----------------------------- MODULE JobRecords -----------------------------
(***************************************************************************)
(* One job's row and everything that is written to it and read from it:    *)
(* the mapping between snapshots and rows (storage/records.rs), the        *)
(* outcome of a recognition on its way into the row, and the response made *)
(* of the row for GET and POST (server/batch.rs).  A process of this       *)
(* version or of the baseline before the result_text column may do the     *)
(* writing; a deployment may replace one by the other at any time.         *)
(*                                                                         *)
(* A snapshot has state, attempt (0: none), failure, unknown, reference,   *)
(* retry (-1: none) and result.  A row has the same columns, the result    *)
(* twice: json (jsonb) and text.                                           *)
(***************************************************************************)
EXTENDS RecognitionResult

CONSTANTS
    MaxAttempts,     \* bound of the model on submissions
    MaxRetry,        \* MAX_RETRY_AFTER_MILLIS of storage and of the contract
    AdapterRetry,    \* MAX_RETRY_AFTER_MILLIS of the provider adapters
    MaxRecord,       \* MAX_SERIALIZED_RESULT_BYTES
    Duration,        \* the job's authoritative duration
    Recognizable     \* the results an adapter may return

ASSUME RecordsAssumption ==
    {MaxAttempts, MaxRetry, AdapterRetry, MaxRecord, Duration} \subseteq Nat

\* The limits of one station are within those of the next: 2 MiB of response
\* in 32 MiB of record, half a minute of an adapter's delay in an hour.
ASSUME LimitsAssumption == MaxBody <= MaxRecord /\ AdapterRetry <= MaxRetry /\ MaxRetry > 0

Measured == [bytes : Nat, units : Nat, json : Nat, blank : BOOLEAN, nul : BOOLEAN]

\* The adapters keep a reference only when it is bounded and printable, and
\* make the labels of speakers out of numbers.
ASSUME RecognizedAssumption ==
    Recognizable \subseteq
        [duration : Nat, text : Measured,
         segments : Seq([start : Nat, end : Nat, text : Measured,
                         confidence : {"none", "ok", "bad"}, speaker : {"none", "label"}]),
         readable : Seq([start : Nat, end : Nat, text : Measured, sources : Seq(Nat)]),
         reference : {"none", "id"}]

VARIABLES
    identity,  \* the job's contract identity
    row,       \* the row, or NoRow
    held,      \* the snapshot a running execution claimed, or NoSnapshot
    binary,    \* "current" or "baseline": the version that is deployed
    kept,      \* the snapshot the last successful write was given
    refused    \* the snapshot that could not be written, or NoSnapshot

vars == <<identity, row, held, binary, kept, refused>>

NoRow == [state |-> "absent"]
NoSnapshot == [state |-> "none"]
NoResult == [duration |-> -1]

Codes == {"REQUEST_REJECTED", "unsafe code", "empty"}

-----------------------------------------------------------------------------
(* Snapshots to rows and back *)

RetryValid(state, retry) ==
    /\ retry <= MaxRetry
    /\ state # "retryable" => retry = -1

ResultPresenceValid(state, result) == (state = "completed") <=> (result # NoResult)

SerializableResult(snapshot) ==
    LET r == snapshot.result
    IN  /\ r.duration = Duration
        /\ r.reference = snapshot.reference
        /\ validate_stored_result(r)
        /\ JsonBytes(r) <= MaxRecord

Encodable(snapshot) ==
    /\ RetryValid(snapshot.state, snapshot.retry)
    /\ snapshot.result # NoResult => SerializableResult(snapshot)
    /\ ResultPresenceValid(snapshot.state, snapshot.result)

\* The record of a result has no reference: the row's column is its owner.
ResultRecord(r) ==
    IF r = NoResult THEN NoResult
    ELSE [duration |-> r.duration, text |-> r.text,
          segments |-> r.segments, readable |-> r.readable]

\* The baseline knows no result_text and leaves the column as it is.
encode(snapshot, by, old) ==
    [state |-> snapshot.state, attempt |-> snapshot.attempt,
     failure |-> snapshot.failure, unknown |-> snapshot.unknown,
     reference |-> snapshot.reference, retry |-> snapshot.retry,
     json |-> ResultRecord(snapshot.result),
     text |-> IF by = "current" THEN ResultRecord(snapshot.result) ELSE old]

RestorableState(r) ==
    CASE r.state = "accepted" ->
            r.attempt = 0 /\ r.failure = "none" /\ r.unknown = "none"
      [] r.state \in {"submitting", "completed"} ->
            r.attempt > 0 /\ r.failure = "none" /\ r.unknown = "none"
      [] r.state \in {"retryable", "failed"} ->
            r.attempt > 0 /\ r.failure # "none" /\ r.unknown = "none"
      [] r.state = "outcome_unknown" ->
            /\ r.attempt > 0
            /\ \/ r.unknown = "submission" /\ r.failure # "none"
               \/ r.unknown = "interrupted_submission" /\ r.failure = "none"

\* Mutant: the exact text is the only representation that is read.
compatible_result_text_ExactOnly(json, text) == text

\* A text that differs from the json column is older than it.
compatible_result_text(json, text) == IF text = json THEN text ELSE json

RepresentationValid(json, text) == json = NoResult => text = NoResult

restore_result(r) ==
    LET record == compatible_result_text(r.json, r.text)
    IN  IF record = NoResult THEN NoResult
        ELSE [duration |-> record.duration, text |-> record.text,
              segments |-> record.segments, readable |-> record.readable,
              reference |-> r.reference]

decode(r) ==
    [state |-> r.state, attempt |-> r.attempt, failure |-> r.failure,
     unknown |-> r.unknown, reference |-> r.reference, retry |-> r.retry,
     result |-> restore_result(r)]

Decodable(r) ==
    /\ RestorableState(r)
    /\ RepresentationValid(r.json, r.text)
    /\ LET result == restore_result(r)
       IN  /\ result # NoResult =>
                /\ JsonBytes(result) <= MaxRecord
                /\ result.duration = Duration
                /\ validate_stored_result(result)
           /\ ResultPresenceValid(r.state, result)
    /\ RetryValid(r.state, r.retry)

HoldsNul(record) ==
    \E t \in {record.text} \cup {s.text : s \in Range(record.segments \o record.readable)} : t.nul

\* The table's CHECK constraints; jsonb has no U+0000.
DbAccepts(r) ==
    /\ RestorableState(r)
    /\ r.retry \in -1 .. MaxRetry
    /\ r.state # "retryable" => r.retry = -1
    /\ (r.state = "completed") <=> (r.json # NoResult)
    /\ r.json # NoResult => ~HoldsNul(r.json)

\* One write of the ledger, by the binary that is deployed.
CanWrite(snapshot) ==
    /\ Encodable(snapshot)
    /\ DbAccepts(encode(snapshot, binary, IF row = NoRow THEN NoResult ELSE row.text))

Write(snapshot) ==
    /\ row' = encode(snapshot, binary, IF row = NoRow THEN NoResult ELSE row.text)
    /\ kept' = snapshot

-----------------------------------------------------------------------------
(* The response *)

safe_failure_code(code) == IF code = "unsafe code" THEN "TRANSCRIPTION_FAILED" ELSE code

\* batch_failure: a code that the domain rejects is replaced.
batch_failure(code) == IF code = "empty" THEN "INVALID_RECOGNITION_FAILURE" ELSE code

\* response_for_snapshot up to serialization.
Outbound(snapshot) ==
    CASE snapshot.state \in {"accepted", "submitting"} ->
            [status |-> "pending", action |-> "poll", delay |-> 1]
      [] snapshot.state = "retryable" ->
            [status |-> "pending", action |-> "retry",
             delay |-> IF snapshot.retry = -1 THEN 1 ELSE snapshot.retry]
      [] snapshot.state = "failed" ->
            [status |-> "failed", code |-> safe_failure_code(snapshot.failure)]
      [] snapshot.state = "outcome_unknown" ->
            [status |-> "failed",
             code |-> IF snapshot.unknown = "submission" THEN "PROVIDER_OUTCOME_UNKNOWN"
                                                         ELSE "SUBMISSION_INTERRUPTED"]
      [] snapshot.state = "completed" ->
            [status |-> "completed", result |-> snapshot.result]

CodeValid(code) == code \notin {"unsafe code", "empty", "none"}

\* serialize_response.
Serializable(resp) ==
    CASE resp.status = "pending"   -> resp.delay <= MaxRetry
      [] resp.status = "failed"    -> CodeValid(resp.code)
      [] resp.status = "completed" -> Projectable(identity, resp.result)

\* The consumer's parse_response.
Parses(resp) ==
    CASE resp.status = "pending"   -> resp.delay <= MaxRetry
      [] resp.status = "failed"    -> CodeValid(resp.code)
      [] resp.status = "completed" ->
            parse_completed(Wire(identity, completed_response(identity, resp.result)))

-----------------------------------------------------------------------------
(* The job *)

\* The delay a provider asks for, capped by the adapter; -1: no header.
retry_after_millis(header) ==
    IF header > AdapterRetry THEN AdapterRetry ELSE header

NewSnapshot ==
    [state |-> "accepted", attempt |-> 0, failure |-> "none", unknown |-> "none",
     reference |-> "none", retry |-> -1, result |-> NoResult]

Init ==
    /\ identity \in Identities
    /\ row = NoRow /\ held = NoSnapshot /\ kept = NoSnapshot
    /\ binary \in {"current", "baseline"}
    /\ refused = NoSnapshot

Admit ==
    /\ row = NoRow
    /\ CanWrite(NewSnapshot) /\ Write(NewSnapshot)
    /\ UNCHANGED <<identity, held, binary, refused>>

\* begin_submission, and what the coordinator clears before it claims.
claimed(snapshot) ==
    [snapshot EXCEPT !.state = "submitting", !.attempt = @ + 1, !.failure = "none",
                     !.reference = "none", !.retry = -1, !.result = NoResult]

Claim ==
    /\ row # NoRow /\ held = NoSnapshot
    /\ Decodable(row)
    /\ LET snapshot == decode(row)
       IN  /\ snapshot.state \in {"accepted", "retryable"}
           /\ snapshot.attempt < MaxAttempts
           /\ IF CanWrite(claimed(snapshot))
              THEN /\ Write(claimed(snapshot)) /\ held' = claimed(snapshot)
                   /\ UNCHANGED refused
              ELSE /\ refused' = claimed(snapshot) /\ UNCHANGED <<row, kept, held>>
    /\ UNCHANGED <<identity, binary>>

\* The outcome is written, or the coordinator reports PostEgressStore and the
\* row stays as the claim left it.
Persist(snapshot) ==
    /\ held' = NoSnapshot
    /\ IF CanWrite(snapshot)
       THEN Write(snapshot) /\ UNCHANGED refused
       ELSE refused' = snapshot /\ UNCHANGED <<row, kept>>
    /\ UNCHANGED <<identity, binary>>

OutcomeResult ==
    /\ held # NoSnapshot
    /\ \E r \in Recognizable :
        LET valid == valid_result(r, Duration)
            base == [held EXCEPT !.retry = -1, !.reference = r.reference]
        IN  Persist(IF valid /\ Projectable(identity, r)
                    THEN [base EXCEPT !.state = "completed", !.result = r]
                    ELSE [base EXCEPT !.state = "failed", !.result = NoResult,
                            !.failure = IF valid THEN "PROVIDER_RESULT_PROJECTION_FAILED"
                                                 ELSE "INVALID_RECOGNITION_RESULT"])

OutcomeNotAccepted ==
    /\ held # NoSnapshot
    /\ \E reference \in {"none", "id"}, code \in Codes, header \in -1 .. MaxRetry + 1 :
        LET base == [held EXCEPT !.reference = reference, !.failure = batch_failure(code)]
        IN  \/ Persist([base EXCEPT !.state = "retryable", !.retry = retry_after_millis(header)])
            \/ Persist([base EXCEPT !.state = "failed", !.retry = -1])

OutcomeAcceptedTerminal ==
    /\ held # NoSnapshot
    /\ \E reference \in {"none", "id"}, code \in Codes :
        Persist([held EXCEPT !.state = "failed", !.reference = reference, !.retry = -1,
                             !.failure = batch_failure(code)])

OutcomeUnknown ==
    /\ held # NoSnapshot
    /\ \E reference \in {"none", "id"}, code \in Codes :
        Persist([held EXCEPT !.state = "outcome_unknown", !.reference = reference, !.retry = -1,
                             !.failure = batch_failure(code), !.unknown = "submission"])

\* The process stops, and another version may start; startup recovery fences
\* a submission nobody is working on.
Redeploy ==
    /\ held' = NoSnapshot
    /\ binary' \in {"current", "baseline"}
    /\ UNCHANGED <<identity, row, kept, refused>>

RecoverInterrupted ==
    /\ row # NoRow /\ held = NoSnapshot
    /\ row.state = "submitting"
    /\ Decodable(row)
    /\ LET snapshot == [decode(row) EXCEPT !.state = "outcome_unknown",
                                           !.unknown = "interrupted_submission"]
       IN  IF CanWrite(snapshot) THEN Write(snapshot) /\ UNCHANGED refused
           ELSE refused' = snapshot /\ UNCHANGED <<row, kept>>
    /\ UNCHANGED <<identity, held, binary>>

Next ==
    \/ Admit \/ Claim
    \/ OutcomeResult \/ OutcomeNotAccepted \/ OutcomeAcceptedTerminal \/ OutcomeUnknown
    \/ Redeploy \/ RecoverInterrupted

Spec == Init /\ [][Next]_vars

-----------------------------------------------------------------------------
(* Properties *)

\* What any process reads from the row is what the last write meant, whichever
\* version wrote it and whatever was in the columns before
\* (TryFrom<JobRecord>, compatible_result_text).
RowRestores == row # NoRow => Decodable(row) /\ decode(row) = kept

\* Whatever state the row is in, GET answers with a response that the contract
\* serializes and the consumer's parser accepts: a completed job never ends in
\* RESPONSE_PROJECTION_FAILED (response_for_snapshot, batch_projection.rs).
RowIsServed ==
    row # NoRow =>
        LET resp == Outbound(decode(row)) IN Serializable(resp) /\ Parses(resp)

\* No claim, outcome or recovery is refused by the record adapter or by the
\* table, with one exception: a provider's answer that the application lets
\* pass can be kept, and a paid result is lost to PostEgressStore only when
\* it holds U+0000, which jsonb cannot (apply_recognition_outcome).
OutcomePersisted ==
    refused # NoSnapshot => refused.result # NoResult /\ HoldsNul(refused.result)

\* A paid outcome is stored, read back as it was by either version, and served
\* to the client, unless it holds U+0000 (records.rs, response_for_snapshot).
RowKeepsOutcome == RowRestores /\ RowIsServed /\ OutcomePersisted
=============================================================================

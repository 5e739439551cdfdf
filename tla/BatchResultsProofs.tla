-------------------------- MODULE BatchResultsProofs ------------------------
(***************************************************************************)
(* Proofs about the way of a provider's answer into the ledger.            *)
(*                                                                         *)
(* JobRecords, for every result an adapter may return, any limits and any  *)
(* sequence of outcomes and deployments: a paid outcome is stored, read    *)
(* back as it was by either version and served to the client, unless it    *)
(* holds U+0000.  The argument is about the three copies of the checks.  A *)
(* snapshot that the application makes is good: the record adapter encodes *)
(* it, the table takes it, the adapter decodes it again and the contract   *)
(* serves it.  The row is always the encoding of a good snapshot by one of *)
(* the versions.                                                           *)
(*                                                                         *)
(* ElevenLabsBatch, for bodies of any number of tokens, any times and any  *)
(* limits: segments keep the words, their order and the limits.  The       *)
(* argument follows the segment under construction: at every token, it and *)
(* the finished ones hold all that was said so far.                        *)
(***************************************************************************)
EXTENDS JobRecords, ElevenLabsBatch, DataLemmas

SegmentType ==
    [start : Nat, end : Nat, text : Measured,
     confidence : {"none", "ok", "bad"}, speaker : {"none", "label"}]

ReadableType == [start : Nat, end : Nat, text : Measured, sources : Seq(Nat)]

ResultType ==
    [duration : Nat, text : Measured, segments : Seq(SegmentType), readable : Seq(ReadableType),
     reference : {"none", "id"}]

States == {"accepted", "submitting", "retryable", "completed", "failed", "outcome_unknown"}

\* The failures the domain takes.
Failures == {"none", "REQUEST_REJECTED", "unsafe code", "INVALID_RECOGNITION_FAILURE",
             "PROVIDER_RESULT_PROJECTION_FAILED", "INVALID_RECOGNITION_RESULT"}

SnapshotType ==
    [state : States, attempt : Nat, failure : Failures,
     unknown : {"none", "submission", "interrupted_submission"}, reference : {"none", "id"},
     retry : Int, result : ResultType \cup {NoResult}]

-----------------------------------------------------------------------------
(* JobRecords: the inductive invariant *)

\* What the application may ask the ledger to keep.
Good(s) ==
    /\ s \in SnapshotType
    /\ RestorableState(s)
    /\ s.retry \in -1 .. MaxRetry
    /\ s.state # "retryable" => s.retry = -1
    /\ s.result # NoResult <=> s.state = "completed"
    /\ s.state = "completed" =>
            /\ SerializableResult(s)
            /\ Projectable(identity, s.result)

\* Until a job is completed nobody has written a result, so neither version
\* leaves an old one behind.
RowInv ==
    row # NoRow =>
        /\ Good(kept)
        /\ \E by \in {"current", "baseline"} : row = encode(kept, by, NoResult)

\* An execution holds what it has written.
HeldInv == held # NoSnapshot => row # NoRow /\ held = kept /\ kept.state = "submitting"

RecordsInv ==
    /\ identity \in Identities /\ binary \in {"current", "baseline"}
    /\ RowInv /\ HeldInv /\ OutcomePersisted

-----------------------------------------------------------------------------
(* JobRecords: results *)

LEMMA NoResultFacts ==
    /\ NoResult.duration = -1
    /\ \A r : r.duration \in Nat => r # NoResult
BY DEF NoResult

LEMMA RecordFacts ==
    ASSUME NEW r, r # NoResult
    PROVE  /\ ResultRecord(r).duration = r.duration /\ ResultRecord(r).text = r.text
           /\ ResultRecord(r).segments = r.segments /\ ResultRecord(r).readable = r.readable
           /\ HoldsNul(ResultRecord(r)) = HoldsNul(r)
<1>1. ResultRecord(r) = [duration |-> r.duration, text |-> r.text,
                         segments |-> r.segments, readable |-> r.readable]
  BY DEF ResultRecord
<1>2. /\ ResultRecord(r).duration = r.duration /\ ResultRecord(r).text = r.text
      /\ ResultRecord(r).segments = r.segments /\ ResultRecord(r).readable = r.readable
  BY <1>1
<1>3. QED
  BY <1>2 DEF HoldsNul

\* The application's one budget of text bounds every single text, so the
\* storage adapter's gate takes what the application's has taken.
LEMMA ValidIsStorable ==
    ASSUME NEW r \in ResultType, valid_result(r, Duration)
    PROVE  validate_stored_result(r)
<1> DEFINE b == [i \in DOMAIN r.segments |-> r.segments[i].text.bytes]
           c == [i \in DOMAIN r.readable |-> r.readable[i].text.bytes]
<1>1. /\ Len(r.segments) \in Nat /\ DOMAIN r.segments = 1 .. Len(r.segments)
      /\ Len(r.readable) \in Nat /\ DOMAIN r.readable = 1 .. Len(r.readable)
      /\ \A i \in DOMAIN r.segments : r.segments[i] \in SegmentType
      /\ \A i \in DOMAIN r.readable : r.readable[i] \in ReadableType
      /\ r.text \in Measured
  BY DEF ResultType
<1>2. /\ \A i \in DOMAIN r.segments :
            r.segments[i].text.bytes \in Nat /\ r.segments[i].speaker # "odd"
      /\ \A i \in DOMAIN r.readable : r.readable[i].text.bytes \in Nat
      /\ r.text.bytes \in Nat
  BY <1>1 DEF SegmentType, ReadableType, Measured
<1>3. /\ SumFunction(b) \in Nat
      /\ \A i \in 1 .. Len(r.segments) : b[i] <= SumFunction(b)
  BY <1>1, <1>2, SumBounds
<1>4. /\ SumFunction(c) \in Nat
      /\ \A i \in 1 .. Len(r.readable) : c[i] <= SumFunction(c)
  BY <1>1, <1>2, SumBounds
<1>5. r.text.bytes + SumFunction(b) + SumFunction(c) <= MaxTextBytes
  BY DEF valid_result, BytesOf
<1>6. MaxTextBytes \in Nat
  BY ResultAssumption
<1>7. \A i \in DOMAIN r.segments : r.segments[i].text.bytes <= SumFunction(b)
  BY <1>1, <1>3
<1>8. \A i \in DOMAIN r.readable : r.readable[i].text.bytes <= SumFunction(c)
  BY <1>1, <1>4
<1> HIDE DEF b, c
<1>9. r.text.bytes <= MaxTextBytes
  BY <1>2, <1>3, <1>4, <1>5, <1>6
<1>10. \A i \in DOMAIN r.segments : r.segments[i].text.bytes \in 1 .. MaxTextBytes
  <2> SUFFICES ASSUME NEW i \in DOMAIN r.segments
               PROVE  r.segments[i].text.bytes \in 1 .. MaxTextBytes
    OBVIOUS
  <2>1. r.segments[i].text.bytes # 0
    BY DEF valid_result, IsEmpty
  <2>2. QED
    BY <1>2, <1>3, <1>4, <1>5, <1>6, <1>7, <2>1
<1>11. \A i \in DOMAIN r.readable : r.readable[i].text.bytes \in 1 .. MaxTextBytes
  <2> SUFFICES ASSUME NEW i \in DOMAIN r.readable
               PROVE  r.readable[i].text.bytes \in 1 .. MaxTextBytes
    OBVIOUS
  <2>1. r.readable[i].text.bytes # 0
    BY DEF valid_result, IsEmpty
  <2>2. QED
    BY <1>2, <1>3, <1>4, <1>5, <1>6, <1>8, <2>1, SMTT(30)
<1>12. QED
  BY <1>2, <1>9, <1>10, <1>11 DEF valid_result, validate_stored_result

\* What the contract serializes, the consumer's own validation accepts.
LEMMA ProjectableParses ==
    ASSUME NEW id \in Identities, NEW r \in ResultType, Projectable(id, r)
    PROVE  parse_completed(Wire(id, completed_response(id, r)))
<1> DEFINE resp == completed_response(id, r)
           w == Wire(id, resp)
<1>1. validate_outbound(id, resp) /\ JsonBytes(resp) <= MaxBody
  BY DEF Projectable
<1>2. /\ resp.duration = r.duration /\ resp.text = r.text /\ resp.segments = r.segments
      /\ resp.readable = r.readable
  BY DEF completed_response
<1> HIDE DEF resp
<1>3. /\ w.identity = id /\ w.duration = resp.duration /\ w.text = resp.text
      /\ w.readable = resp.readable /\ w.bytes = JsonBytes(resp)
  BY DEF Wire
<1>4. w.segments = [i \in DOMAIN resp.segments |->
                    [index |-> IF id = "elevenlabs_v3" THEN i - 1 ELSE -1,
                     start |-> resp.segments[i].start, end |-> resp.segments[i].end,
                     text |-> resp.segments[i].text,
                     confidence |-> resp.segments[i].confidence]]
  BY DEF Wire
<1>5. /\ resp.segments \in Seq(SegmentType) /\ Len(resp.segments) \in Nat
      /\ DOMAIN resp.segments = 1 .. Len(resp.segments)
  BY <1>2 DEF ResultType
<1> HIDE DEF w
<1>6. DOMAIN w.segments = DOMAIN resp.segments /\ Len(w.segments) = Len(resp.segments)
  BY <1>4, <1>5
<1>7. \A i \in DOMAIN w.segments :
        /\ w.segments[i].start = resp.segments[i].start /\ w.segments[i].end = resp.segments[i].end
        /\ w.segments[i].text = resp.segments[i].text
        /\ w.segments[i].confidence = resp.segments[i].confidence
        /\ id = "elevenlabs_v3" => w.segments[i].index = i - 1
  BY <1>4
<1>8. \A i \in DOMAIN resp.segments : resp.segments[i].start \in Nat /\ resp.segments[i].end \in Nat
  <2> SUFFICES ASSUME NEW i \in DOMAIN resp.segments
               PROVE  resp.segments[i].start \in Nat /\ resp.segments[i].end \in Nat
    OBVIOUS
  <2>1. resp.segments[i] \in SegmentType
    BY <1>5
  <2>2. QED
    BY <2>1 DEF SegmentType
<1>9. \A i \in DOMAIN w.segments :
        /\ w.segments[i].confidence # "bad" /\ w.segments[i].text.units <= MaxTextUnits
        /\ ~w.segments[i].text.blank
  BY <1>1, <1>6, <1>7 DEF validate_outbound
<1>10. w.bytes <= MaxBody /\ w.text.units <= MaxTextUnits /\ Len(w.segments) <= MaxSegments
  BY <1>1, <1>3, <1>6 DEF validate_outbound
<1>11. ASSUME id = "elevenlabs_v3" PROVE parse_completed(w)
  <2>1. WithinDuration(w.segments, w.duration)
    BY <1>1, <1>3, <1>6, <1>7 DEF validate_outbound, WithinDuration
  <2>2. Ordered(w.segments)
    <3> SUFFICES ASSUME NEW i \in 2 .. Len(w.segments)
                 PROVE  w.segments[i].start >= w.segments[i - 1].end
      BY DEF Ordered
    <3>1. i \in DOMAIN w.segments /\ i - 1 \in DOMAIN w.segments /\ i \in 2 .. Len(resp.segments)
      BY <1>5, <1>6
    <3>2. resp.segments[i].start >= resp.segments[i - 1].end
      BY <1>1, <3>1 DEF validate_outbound, Ordered
    <3>3. QED
      BY <1>7, <3>1, <3>2
  <2>3. /\ IsEmpty(w.text) <=> w.segments = <<>>
        /\ IsEmpty(w.text) \/ ~w.text.blank
    <3>1. w.segments = <<>> <=> resp.segments = <<>>
      BY <1>4, <1>5, <1>6
    <3>2. QED
      BY <1>1, <1>3, <1>11, <3>1 DEF validate_outbound
  <2>4. \A i \in DOMAIN w.segments : w.segments[i].index = i - 1
    BY <1>7, <1>11
  <2>5. QED
    BY <1>3, <1>9, <1>10, <1>11, <2>1, <2>2, <2>3, <2>4, Zenon DEF parse_completed
<1>12. ASSUME id # "elevenlabs_v3" PROVE parse_completed(w)
  <2>1. \A i \in DOMAIN w.segments : w.segments[i].start <= w.segments[i].end
    BY <1>1, <1>6, <1>7, <1>8 DEF validate_outbound, WithinDuration
  <2>2. WithinDuration(w.readable, w.duration)
    BY <1>1, <1>3 DEF validate_outbound
  <2>3. SourcesValid(w)
    BY <1>1, <1>3, <1>6 DEF validate_outbound, SourcesValid
  <2>4. /\ Len(w.readable) <= MaxSegments
        /\ \A i \in DOMAIN w.readable : ~w.readable[i].text.blank
        /\ References(w.readable) <= MaxReferences
        /\ UnitsOf(w.readable) <= MaxTextUnits
    BY <1>1, <1>3, Zenon DEF validate_outbound
  <2>5. QED
    BY <1>3, <1>9, <1>10, <1>12, <2>1, <2>2, <2>3, <2>4, Zenon DEF parse_completed
<1>13. QED
  BY <1>11, <1>12 DEF resp, w

-----------------------------------------------------------------------------
(* JobRecords: good snapshots *)

LEMMA EncodeFields ==
    ASSUME NEW s, NEW by, NEW old
    PROVE  LET e == encode(s, by, old)
           IN  /\ e.state = s.state /\ e.attempt = s.attempt /\ e.failure = s.failure
               /\ e.unknown = s.unknown /\ e.reference = s.reference /\ e.retry = s.retry
               /\ e.json = ResultRecord(s.result)
               /\ e.text = (IF by = "current" THEN ResultRecord(s.result) ELSE old)
BY DEF encode

\* A record that restore_state accepts is one of these.
LEMMA SameState ==
    ASSUME NEW s, NEW e, s.state = e.state, s.attempt = e.attempt, s.failure = e.failure,
           s.unknown = e.unknown, RestorableState(s), s.state \in States
    PROVE  RestorableState(e)
BY DEF RestorableState, States

\* The record of a good snapshot's result is there exactly when the result is.
LEMMA GoodRecord ==
    ASSUME NEW s, Good(s)
    PROVE  /\ s.result = NoResult => ResultRecord(s.result) = NoResult
           /\ s.result # NoResult =>
                /\ s.result \in ResultType /\ s.result.duration = Duration
                /\ ResultRecord(s.result).duration = Duration
                /\ ResultRecord(s.result) # NoResult
                /\ s.result.reference = s.reference
<1>1. s.result \in ResultType \cup {NoResult}
  BY DEF Good, SnapshotType
<1>2. CASE s.result = NoResult
  BY <1>2 DEF ResultRecord
<1>3. CASE s.result # NoResult
  <2>1. s.result.duration = Duration /\ s.result.reference = s.reference
    BY <1>3 DEF Good, SerializableResult
  <2>2. ResultRecord(s.result).duration = Duration
    BY <1>3, <2>1, RecordFacts
  <2>3. ResultRecord(s.result) # NoResult
    BY <2>2, NoResultFacts, RecordsAssumption
  <2>4. QED
    BY <1>1, <1>3, <2>1, <2>2, <2>3
<1>4. QED
  BY <1>2, <1>3

\* The record adapter encodes it, and the table takes it unless it holds
\* U+0000.
LEMMA GoodIsWritable ==
    ASSUME NEW s, Good(s), NEW by
    PROVE  /\ Encodable(s)
           /\ \/ DbAccepts(encode(s, by, NoResult))
              \/ s.result # NoResult /\ HoldsNul(s.result)
<1> DEFINE e == encode(s, by, NoResult)
<1>1. /\ e.state = s.state /\ e.attempt = s.attempt /\ e.failure = s.failure
      /\ e.unknown = s.unknown /\ e.retry = s.retry
      /\ e.json = ResultRecord(s.result)
  BY EncodeFields
<1> HIDE DEF e
<1>2. s.state \in States
  BY DEF Good, SnapshotType
<1>3. Encodable(s)
  <2>1. RetryValid(s.state, s.retry)
    BY RecordsAssumption DEF Good, RetryValid
  <2>2. s.result # NoResult => SerializableResult(s)
    BY DEF Good
  <2>3. ResultPresenceValid(s.state, s.result)
    BY DEF Good, ResultPresenceValid
  <2>4. QED
    BY <2>1, <2>2, <2>3 DEF Encodable
<1>4. RestorableState(e)
  BY <1>1, <1>2, SameState DEF Good
<1>5. e.retry \in -1 .. MaxRetry /\ (e.state # "retryable" => e.retry = -1)
  BY <1>1 DEF Good
<1>6. (e.state = "completed") <=> (e.json # NoResult)
  BY <1>1, GoodRecord DEF Good
<1>7. e.json # NoResult => s.result # NoResult /\ HoldsNul(e.json) = HoldsNul(s.result)
  BY <1>1, GoodRecord, RecordFacts
<1>8. QED
  BY <1>3, <1>4, <1>5, <1>6, <1>7 DEF DbAccepts, e

\* Either version reads from the row what was written by either version.
LEMMA GoodIsRestored ==
    ASSUME NEW s, Good(s), NEW by, NEW r, r = encode(s, by, NoResult)
    PROVE  decode(r) = s /\ Decodable(r)
<1>1. /\ r.state = s.state /\ r.attempt = s.attempt /\ r.failure = s.failure
      /\ r.unknown = s.unknown /\ r.reference = s.reference /\ r.retry = s.retry
      /\ r.json = ResultRecord(s.result)
      /\ r.text = (IF by = "current" THEN ResultRecord(s.result) ELSE NoResult)
  BY EncodeFields
<1>2. s \in SnapshotType
  BY DEF Good
<1>3. compatible_result_text(r.json, r.text) = ResultRecord(s.result)
  BY <1>1 DEF compatible_result_text
<1>4. restore_result(r) = s.result
  <2>1. CASE s.result = NoResult
    BY <1>3, <2>1, GoodRecord DEF restore_result
  <2>2. CASE s.result # NoResult
    <3>1. /\ s.result \in ResultType /\ s.result.reference = s.reference
          /\ ResultRecord(s.result) # NoResult
      BY <2>2, GoodRecord
    <3>2. restore_result(r) =
            [duration |-> s.result.duration, text |-> s.result.text,
             segments |-> s.result.segments, readable |-> s.result.readable,
             reference |-> s.result.reference]
      BY <1>1, <1>3, <2>2, <3>1, RecordFacts DEF restore_result
    <3>3. QED
      BY <3>1, <3>2 DEF ResultType
  <2>3. QED
    BY <2>1, <2>2
<1>5. decode(r) = s
  <2>1. decode(r) = [state |-> s.state, attempt |-> s.attempt, failure |-> s.failure,
                     unknown |-> s.unknown, reference |-> s.reference, retry |-> s.retry,
                     result |-> s.result]
    BY <1>1, <1>4 DEF decode
  <2>2. QED
    BY <1>2, <2>1 DEF SnapshotType
<1>6. RestorableState(r)
  BY <1>1, <1>2, SameState DEF Good, SnapshotType
<1>7. RepresentationValid(r.json, r.text)
  BY <1>1 DEF RepresentationValid
<1>8. s.result # NoResult =>
        /\ JsonBytes(s.result) <= MaxRecord
        /\ s.result.duration = Duration
        /\ validate_stored_result(s.result)
  BY DEF Good, SerializableResult
<1>9. ResultPresenceValid(r.state, s.result) /\ RetryValid(r.state, r.retry)
  BY <1>1, RecordsAssumption DEF Good, ResultPresenceValid, RetryValid
<1>10. QED
  BY <1>4, <1>5, <1>6, <1>7, <1>8, <1>9 DEF Decodable

\* The contract serves it: no state ends in RESPONSE_PROJECTION_FAILED.
LEMMA GoodIsServed ==
    ASSUME NEW s, Good(s), identity \in Identities
    PROVE  Serializable(Outbound(s)) /\ Parses(Outbound(s))
<1>1. s.state \in States /\ s.failure \in Failures /\ s.retry \in -1 .. MaxRetry
  BY DEF Good, SnapshotType
<1>2. MaxRetry \in Nat /\ MaxRetry > 0
  BY RecordsAssumption, LimitsAssumption
<1>3. CASE s.state \in {"accepted", "submitting"}
  <2>1. Outbound(s) = [status |-> "pending", action |-> "poll", delay |-> 1]
    BY <1>3 DEF Outbound
  <2>2. QED
    BY <1>2, <2>1 DEF Serializable, Parses
<1>4. CASE s.state = "retryable"
  <2>1. Outbound(s) = [status |-> "pending", action |-> "retry",
                       delay |-> IF s.retry = -1 THEN 1 ELSE s.retry]
    BY <1>4 DEF Outbound
  <2>2. QED
    BY <1>1, <1>2, <2>1 DEF Serializable, Parses
<1>5. CASE s.state = "failed"
  <2>1. Outbound(s) = [status |-> "failed", code |-> safe_failure_code(s.failure)]
    BY <1>5 DEF Outbound
  <2>2. s.failure # "none"
    BY <1>5 DEF Good, RestorableState
  <2>3. CodeValid(safe_failure_code(s.failure))
    BY <1>1, <2>2 DEF CodeValid, safe_failure_code, Failures
  <2>4. QED
    BY <2>1, <2>3 DEF Serializable, Parses
<1>6. CASE s.state = "outcome_unknown"
  <2>1. Outbound(s) = [status |-> "failed",
                       code |-> IF s.unknown = "submission" THEN "PROVIDER_OUTCOME_UNKNOWN"
                                                            ELSE "SUBMISSION_INTERRUPTED"]
    BY <1>6 DEF Outbound
  <2>2. QED
    BY <2>1 DEF Serializable, Parses, CodeValid
<1>7. CASE s.state = "completed"
  <2>1. Outbound(s) = [status |-> "completed", result |-> s.result]
    BY <1>7 DEF Outbound
  <2>2. s.result \in ResultType /\ Projectable(identity, s.result)
    BY <1>7, GoodRecord DEF Good
  <2>3. parse_completed(Wire(identity, completed_response(identity, s.result)))
    BY <2>2, ProjectableParses
  <2>4. QED
    BY <2>1, <2>2, <2>3 DEF Serializable, Parses
<1>8. QED
  BY <1>1, <1>3, <1>4, <1>5, <1>6, <1>7 DEF States

-----------------------------------------------------------------------------
(* JobRecords: the steps *)

\* What claims, outcomes and recovery have in common: a good snapshot is
\* written over a row that has no result, or refused for U+0000.
LEMMA WriteOrRefuse ==
    ASSUME RecordsInv, NEW s, Good(s), identity' = identity,
           row = NoRow \/ row.text = NoResult,
           IF CanWrite(s) THEN Write(s) /\ UNCHANGED refused
                          ELSE refused' = s /\ UNCHANGED <<row, kept>>
    PROVE  /\ RowInv' /\ OutcomePersisted'
           /\ (UNCHANGED <<row, kept>> \/ (kept' = s /\ row' # NoRow))
           /\ s.result = NoResult => kept' = s /\ row' # NoRow
<1> DEFINE old == IF row = NoRow THEN NoResult ELSE row.text
<1>1. old = NoResult
  OBVIOUS
<1>2. CanWrite(s) \/ (s.result # NoResult /\ HoldsNul(s.result))
  BY <1>1, GoodIsWritable DEF CanWrite
<1>3. CASE CanWrite(s)
  <2>1. row' = encode(s, binary, NoResult) /\ kept' = s /\ UNCHANGED refused
    BY <1>1, <1>3 DEF Write
  <2>2. binary \in {"current", "baseline"}
    BY DEF RecordsInv
  <2>3. row' # NoRow
    <3>1. row'.state = s.state
      BY <2>1, EncodeFields
    <3>2. s.state \in States /\ NoRow.state = "absent"
      BY DEF Good, SnapshotType, NoRow
    <3>3. QED
      BY <3>1, <3>2 DEF States
  <2>4. Good(kept)'
    BY <2>1 DEF Good
  <2>5. RowInv'
    BY <2>1, <2>2, <2>4 DEF RowInv
  <2>6. OutcomePersisted'
    BY <2>1 DEF RecordsInv, OutcomePersisted
  <2>7. QED
    BY <2>1, <2>3, <2>5, <2>6
<1>4. CASE ~CanWrite(s)
  <2>1. refused' = s /\ UNCHANGED <<row, kept>>
    BY <1>4
  <2>2. s.result # NoResult /\ HoldsNul(s.result)
    BY <1>2, <1>4
  <2>3. RowInv'
    BY <2>1 DEF RecordsInv, RowInv, Good
  <2>4. OutcomePersisted'
    BY <2>1, <2>2 DEF OutcomePersisted
  <2>5. QED
    BY <2>1, <2>2, <2>3, <2>4
<1>5. QED
  BY <1>3, <1>4

LEMMA ClaimedFields ==
    ASSUME NEW k \in SnapshotType, k.attempt \in Nat
    PROVE  /\ claimed(k) \in SnapshotType
           /\ claimed(k).state = "submitting" /\ claimed(k).attempt = k.attempt + 1
           /\ claimed(k).failure = "none" /\ claimed(k).unknown = k.unknown
           /\ claimed(k).retry = -1 /\ claimed(k).result = NoResult
<1>1. k.attempt + 1 \in Nat /\ -1 \in Int
  OBVIOUS
<1>2. claimed(k) \in SnapshotType
  BY <1>1 DEF claimed, SnapshotType, States, Failures
<1>3. QED
  BY <1>2 DEF claimed, SnapshotType

\* What a process reads from the row is what was last written; the exact text
\* is empty until the job is completed.
LEMMA KeptIsRead ==
    ASSUME RecordsInv, row # NoRow
    PROVE  /\ Good(kept) /\ Decodable(row) /\ decode(row) = kept
           /\ row.state = kept.state
           /\ kept.state # "completed" => kept.result = NoResult /\ row.text = NoResult
<1>1. Good(kept) /\ \E by \in {"current", "baseline"} : row = encode(kept, by, NoResult)
  BY DEF RecordsInv, RowInv
<1>2. PICK by \in {"current", "baseline"} : row = encode(kept, by, NoResult)
  BY <1>1
<1>3. Decodable(row) /\ decode(row) = kept
  BY <1>1, <1>2, GoodIsRestored
<1>4. /\ row.state = kept.state
      /\ row.text = (IF by = "current" THEN ResultRecord(kept.result) ELSE NoResult)
  BY <1>2, EncodeFields
<1>5. kept.state # "completed" => kept.result = NoResult
  BY <1>1 DEF Good
<1>6. kept.result = NoResult => ResultRecord(kept.result) = NoResult
  BY <1>1, GoodRecord
<1>7. QED
  BY <1>1, <1>3, <1>4, <1>5, <1>6

\* What a running execution holds.
LEMMA HeldFacts ==
    ASSUME RecordsInv, held # NoSnapshot
    PROVE  /\ row # NoRow /\ held = kept /\ row.text = NoResult
           /\ held \in SnapshotType /\ held.state = "submitting" /\ held.attempt > 0
           /\ held.unknown = "none" /\ held.result = NoResult
<1>1. row # NoRow /\ held = kept /\ kept.state = "submitting"
  BY DEF RecordsInv, HeldInv
<1>2. Good(kept) /\ kept.result = NoResult /\ row.text = NoResult
  BY <1>1, KeptIsRead
<1>3. QED
  BY <1>1, <1>2 DEF Good, RestorableState

LEMMA AdmitStep == ASSUME RecordsInv, Admit PROVE RecordsInv'
<1> DEFINE s == NewSnapshot
<1>1. CanWrite(s) /\ Write(s) /\ row = NoRow /\ UNCHANGED <<identity, held, binary, refused>>
  BY DEF Admit
<1>2. s \in SnapshotType
  BY DEF NewSnapshot, SnapshotType, States, Failures
<1>3. Good(s)
  BY <1>2, RecordsAssumption DEF Good, NewSnapshot, RestorableState
<1> HIDE DEF s
<1>4. RowInv' /\ OutcomePersisted'
  BY <1>1, <1>3, WriteOrRefuse
<1>5. HeldInv'
  BY <1>1 DEF RecordsInv, HeldInv
<1>6. QED
  BY <1>1, <1>4, <1>5 DEF RecordsInv

LEMMA ClaimStep == ASSUME RecordsInv, Claim PROVE RecordsInv'
<1> DEFINE s == claimed(kept)
<1>1. Good(kept) /\ decode(row) = kept /\ row # NoRow
  BY KeptIsRead DEF Claim
<1>2. /\ kept.state \in {"accepted", "retryable"}
      /\ UNCHANGED <<identity, binary>>
      /\ IF CanWrite(s) THEN Write(s) /\ held' = s /\ UNCHANGED refused
                        ELSE refused' = s /\ UNCHANGED <<row, kept, held>>
  BY <1>1 DEF Claim
<1>3. /\ kept \in SnapshotType /\ kept.attempt \in Nat /\ kept.unknown = "none"
      /\ row.text = NoResult
  BY <1>1, <1>2, KeptIsRead DEF Good, SnapshotType, RestorableState
<1>4. /\ s \in SnapshotType /\ s.state = "submitting" /\ s.attempt = kept.attempt + 1
      /\ s.failure = "none" /\ s.retry = -1 /\ s.result = NoResult /\ s.unknown = "none"
  BY <1>3, ClaimedFields
<1> HIDE DEF s
<1>5. s.attempt > 0
  BY <1>3, <1>4
<1>6. Good(s)
  BY <1>4, <1>5, RecordsAssumption DEF Good, RestorableState
<1>7. RowInv' /\ OutcomePersisted' /\ kept' = s /\ row' # NoRow
  BY <1>2, <1>3, <1>4, <1>6, WriteOrRefuse
<1>8. held' = s
  BY <1>1, <1>2, <1>3, <1>4, <1>6, GoodIsWritable DEF CanWrite
<1>9. HeldInv'
  BY <1>4, <1>7, <1>8 DEF HeldInv
<1>10. QED
  BY <1>2, <1>7, <1>9 DEF RecordsInv

-----------------------------------------------------------------------------
(* JobRecords: the outcomes *)

\* An outcome ends the execution, whether it is written or refused.
LEMMA PersistStep ==
    ASSUME RecordsInv, held # NoSnapshot, NEW s, Good(s), Persist(s)
    PROVE  RecordsInv'
<1>1. held' = NoSnapshot /\ UNCHANGED <<identity, binary>>
  BY DEF Persist
<1>2. row.text = NoResult
  BY HeldFacts
<1>3. RowInv' /\ OutcomePersisted'
  BY <1>1, <1>2, WriteOrRefuse DEF Persist
<1>4. QED
  BY <1>1, <1>3 DEF RecordsInv, HeldInv

LEMMA MinusOne == -1 \in Int
OBVIOUS

\* A snapshot without a result is good when its state may be restored.
LEMMA EndedIsGood ==
    ASSUME NEW s \in SnapshotType, s.result = NoResult, s.attempt > 0, s.failure # "none",
           \/ s.state = "retryable" /\ s.unknown = "none" /\ s.retry \in -1 .. MaxRetry
           \/ s.state = "failed" /\ s.unknown = "none" /\ s.retry = -1
           \/ s.state = "outcome_unknown" /\ s.unknown = "submission" /\ s.retry = -1
    PROVE  Good(s)
<1>1. s.retry \in -1 .. MaxRetry /\ (s.state # "retryable" => s.retry = -1)
  BY RecordsAssumption
<1>2. RestorableState(s)
  BY DEF RestorableState
<1>3. s.state # "completed"
  OBVIOUS
<1>4. QED
  BY <1>1, <1>2, <1>3 DEF Good

LEMMA FailureCodes ==
    \A code \in Codes : batch_failure(code) \in Failures /\ batch_failure(code) # "none"
BY DEF Codes, batch_failure, Failures

LEMMA DelayIsCapped ==
    ASSUME NEW header \in -1 .. MaxRetry + 1
    PROVE  retry_after_millis(header) \in -1 .. MaxRetry
BY RecordsAssumption, LimitsAssumption DEF retry_after_millis

\* A result that passes the application's gate and the projection is kept and
\* served; any other result is a failure of the job.
LEMMA ResultIsGood ==
    ASSUME RecordsInv, held # NoSnapshot, NEW r \in ResultType,
           valid_result(r, Duration), Projectable(identity, r), NEW s,
           s = [[held EXCEPT !.retry = -1, !.reference = r.reference]
                    EXCEPT !.state = "completed", !.result = r]
    PROVE  Good(s)
<1>1. held \in SnapshotType /\ held.attempt > 0 /\ held.unknown = "none"
  BY HeldFacts
<1>2. r.reference \in {"none", "id"} /\ r.duration \in Nat
  BY DEF ResultType
<1>3. /\ s \in SnapshotType /\ s.state = "completed" /\ s.result = r /\ s.retry = -1
      /\ s.reference = r.reference /\ s.attempt = held.attempt /\ s.unknown = held.unknown
      /\ s.failure = held.failure
  <2>1. s \in SnapshotType
    BY <1>1, <1>2, MinusOne DEF SnapshotType, States
  <2>2. QED
    BY <1>1, <2>1 DEF SnapshotType
<1>4. held.failure = "none"
  BY HeldFacts, KeptIsRead DEF Good, RestorableState
<1>5. r # NoResult
  BY <1>2, NoResultFacts
<1>6. validate_stored_result(r) /\ r.duration = Duration
  BY ValidIsStorable DEF valid_result
<1>7. JsonBytes(r) <= MaxRecord
  <2>1. JsonBytes(completed_response(identity, r)) <= MaxBody
    BY DEF Projectable
  <2>2. JsonBytes(completed_response(identity, r)) = JsonBytes(r)
    BY DEF JsonBytes, completed_response
  <2>3. JsonBytes(r) \in Int
    <3> DEFINE b == [i \in DOMAIN r.segments |-> r.segments[i].text.json]
               c == [i \in DOMAIN r.readable |-> r.readable[i].text.json]
    <3>1. /\ Len(r.segments) \in Nat /\ DOMAIN r.segments = 1 .. Len(r.segments)
          /\ Len(r.readable) \in Nat /\ DOMAIN r.readable = 1 .. Len(r.readable)
          /\ \A i \in DOMAIN r.segments : r.segments[i] \in SegmentType
          /\ \A i \in DOMAIN r.readable : r.readable[i] \in ReadableType
          /\ r.text \in Measured
      BY DEF ResultType
    <3>2. /\ \A i \in DOMAIN r.segments : r.segments[i].text.json \in Nat
          /\ \A i \in DOMAIN r.readable : r.readable[i].text.json \in Nat
          /\ r.text.json \in Nat
      BY <3>1 DEF SegmentType, ReadableType, Measured
    <3>3. SumFunction(b) \in Nat
      BY <3>1, <3>2, SumBounds
    <3>4. SumFunction(c) \in Nat
      BY <3>1, <3>2, SumBounds
    <3>5. JsonBytes(r) = r.text.json + SumFunction(b) + SumFunction(c)
      BY DEF JsonBytes, JsonOf
    <3> HIDE DEF b, c
    <3>6. QED
      BY <3>2, <3>3, <3>4, <3>5
  <2>4. MaxBody \in Nat /\ MaxRecord \in Nat /\ MaxBody <= MaxRecord
    BY ResultAssumption, RecordsAssumption, LimitsAssumption
  <2>5. QED
    BY <2>1, <2>2, <2>3, <2>4
<1>8. SerializableResult(s)
  BY <1>3, <1>6, <1>7 DEF SerializableResult
<1>9. RestorableState(s)
  BY <1>1, <1>3, <1>4 DEF RestorableState
<1>10. QED
  BY <1>3, <1>5, <1>8, <1>9, RecordsAssumption DEF Good

LEMMA OutcomeResultStep == ASSUME RecordsInv, OutcomeResult PROVE RecordsInv'
<1>1. PICK r \in Recognizable :
        LET valid == valid_result(r, Duration)
            base == [held EXCEPT !.retry = -1, !.reference = r.reference]
        IN  Persist(IF valid /\ Projectable(identity, r)
                    THEN [base EXCEPT !.state = "completed", !.result = r]
                    ELSE [base EXCEPT !.state = "failed", !.result = NoResult,
                            !.failure = IF valid THEN "PROVIDER_RESULT_PROJECTION_FAILED"
                                                 ELSE "INVALID_RECOGNITION_RESULT"])
  BY DEF OutcomeResult
<1>2. held # NoSnapshot
  BY DEF OutcomeResult
<1>3. r \in ResultType
  BY RecognizedAssumption DEF ResultType, SegmentType, ReadableType
<1>4. held \in SnapshotType /\ held.attempt > 0 /\ held.unknown = "none"
  BY <1>2, HeldFacts
<1> DEFINE base == [held EXCEPT !.retry = -1, !.reference = r.reference]
           done == [base EXCEPT !.state = "completed", !.result = r]
           code == IF valid_result(r, Duration) THEN "PROVIDER_RESULT_PROJECTION_FAILED"
                                                ELSE "INVALID_RECOGNITION_RESULT"
           failed == [base EXCEPT !.state = "failed", !.result = NoResult, !.failure = code]
<1>5. ASSUME valid_result(r, Duration), Projectable(identity, r) PROVE RecordsInv'
  <2>1. Good(done)
    BY <1>2, <1>3, <1>5, ResultIsGood
  <2>2. Persist(done)
    BY <1>1, <1>5
  <2> HIDE DEF done
  <2>3. QED
    BY <1>2, <2>1, <2>2, PersistStep
<1>6. ASSUME ~(valid_result(r, Duration) /\ Projectable(identity, r)) PROVE RecordsInv'
  <2>1. code \in Failures /\ code # "none"
    BY DEF Failures
  <2>2. Persist(failed)
    BY <1>1, <1>6
  <2>3. r.reference \in {"none", "id"}
    BY <1>3 DEF ResultType
  <2> HIDE DEF code
  <2>4. /\ failed \in SnapshotType /\ failed.state = "failed" /\ failed.result = NoResult
        /\ failed.failure = code /\ failed.retry = -1 /\ failed.unknown = "none"
        /\ failed.attempt > 0
    <3>1. failed \in SnapshotType
      BY <1>4, <2>1, <2>3, MinusOne DEF SnapshotType, States
    <3>2. QED
      BY <1>4, <3>1 DEF SnapshotType
  <2> HIDE DEF failed
  <2>5. Good(failed)
    BY <2>1, <2>4, EndedIsGood
  <2>6. QED
    BY <1>2, <2>2, <2>5, PersistStep
<1>7. QED
  BY <1>5, <1>6

LEMMA OutcomeNotAcceptedStep == ASSUME RecordsInv, OutcomeNotAccepted PROVE RecordsInv'
<1>1. PICK reference \in {"none", "id"}, code \in Codes, header \in -1 .. MaxRetry + 1 :
        LET base == [held EXCEPT !.reference = reference, !.failure = batch_failure(code)]
        IN  \/ Persist([base EXCEPT !.state = "retryable", !.retry = retry_after_millis(header)])
            \/ Persist([base EXCEPT !.state = "failed", !.retry = -1])
  BY DEF OutcomeNotAccepted
<1>2. held # NoSnapshot
  BY DEF OutcomeNotAccepted
<1>3. /\ held \in SnapshotType /\ held.attempt > 0 /\ held.unknown = "none"
      /\ held.result = NoResult
  BY <1>2, HeldFacts
<1>4. batch_failure(code) \in Failures /\ batch_failure(code) # "none"
  BY FailureCodes
<1>5. /\ retry_after_millis(header) \in -1 .. MaxRetry
      /\ retry_after_millis(header) \in Int
  BY DelayIsCapped, RecordsAssumption
<1> DEFINE base == [held EXCEPT !.reference = reference, !.failure = batch_failure(code)]
           retry == [base EXCEPT !.state = "retryable", !.retry = retry_after_millis(header)]
           failed == [base EXCEPT !.state = "failed", !.retry = -1]
<1>6. /\ retry \in SnapshotType /\ retry.state = "retryable" /\ retry.result = NoResult
      /\ retry.failure = batch_failure(code) /\ retry.retry = retry_after_millis(header)
      /\ retry.unknown = "none" /\ retry.attempt > 0
  BY <1>3, <1>4, <1>5 DEF SnapshotType, States
<1>7. /\ failed \in SnapshotType /\ failed.state = "failed" /\ failed.result = NoResult
      /\ failed.failure = batch_failure(code) /\ failed.retry = -1
      /\ failed.unknown = "none" /\ failed.attempt > 0
  <2>1. failed \in SnapshotType
    BY <1>3, <1>4, MinusOne DEF SnapshotType, States
  <2>2. QED
    BY <1>3, <2>1 DEF SnapshotType
<1>8. Persist(retry) \/ Persist(failed)
  BY <1>1
<1> HIDE DEF retry, failed
<1>9. Good(retry)
  BY <1>4, <1>5, <1>6, EndedIsGood
<1>10. Good(failed)
  BY <1>4, <1>7, EndedIsGood
<1>11. QED
  BY <1>2, <1>8, <1>9, <1>10, PersistStep

LEMMA OutcomeAcceptedTerminalStep ==
    ASSUME RecordsInv, OutcomeAcceptedTerminal PROVE RecordsInv'
<1>1. PICK reference \in {"none", "id"}, code \in Codes :
        Persist([held EXCEPT !.state = "failed", !.reference = reference, !.retry = -1,
                             !.failure = batch_failure(code)])
  BY DEF OutcomeAcceptedTerminal
<1>2. held # NoSnapshot
  BY DEF OutcomeAcceptedTerminal
<1>3. /\ held \in SnapshotType /\ held.attempt > 0 /\ held.unknown = "none"
      /\ held.result = NoResult
  BY <1>2, HeldFacts
<1>4. batch_failure(code) \in Failures /\ batch_failure(code) # "none"
  BY FailureCodes
<1> DEFINE s == [held EXCEPT !.state = "failed", !.reference = reference, !.retry = -1,
                             !.failure = batch_failure(code)]
<1>5. /\ s \in SnapshotType /\ s.state = "failed" /\ s.result = NoResult
      /\ s.failure = batch_failure(code) /\ s.retry = -1 /\ s.unknown = "none" /\ s.attempt > 0
  <2>1. s \in SnapshotType
    BY <1>3, <1>4, MinusOne DEF SnapshotType, States
  <2>2. QED
    BY <1>3, <2>1 DEF SnapshotType
<1> HIDE DEF s
<1>6. Good(s)
  BY <1>4, <1>5, EndedIsGood
<1>7. QED
  BY <1>1, <1>2, <1>6, PersistStep DEF s

LEMMA OutcomeUnknownStep == ASSUME RecordsInv, OutcomeUnknown PROVE RecordsInv'
<1>1. PICK reference \in {"none", "id"}, code \in Codes :
        Persist([held EXCEPT !.state = "outcome_unknown", !.reference = reference, !.retry = -1,
                             !.failure = batch_failure(code), !.unknown = "submission"])
  BY DEF OutcomeUnknown
<1>2. held # NoSnapshot
  BY DEF OutcomeUnknown
<1>3. held \in SnapshotType /\ held.attempt > 0 /\ held.result = NoResult
  BY <1>2, HeldFacts
<1>4. batch_failure(code) \in Failures /\ batch_failure(code) # "none"
  BY FailureCodes
<1> DEFINE s == [held EXCEPT !.state = "outcome_unknown", !.reference = reference, !.retry = -1,
                             !.failure = batch_failure(code), !.unknown = "submission"]
<1>5. /\ s \in SnapshotType /\ s.state = "outcome_unknown" /\ s.result = NoResult
      /\ s.failure = batch_failure(code) /\ s.retry = -1 /\ s.unknown = "submission"
      /\ s.attempt > 0
  <2>1. s \in SnapshotType
    BY <1>3, <1>4, MinusOne DEF SnapshotType, States
  <2>2. QED
    BY <1>3, <2>1 DEF SnapshotType
<1> HIDE DEF s
<1>6. Good(s)
  BY <1>4, <1>5, EndedIsGood
<1>7. QED
  BY <1>1, <1>2, <1>6, PersistStep DEF s

-----------------------------------------------------------------------------
(* JobRecords: recovery, and the theorem *)

LEMMA RedeployStep == ASSUME RecordsInv, Redeploy PROVE RecordsInv'
<1>1. /\ held' = NoSnapshot /\ binary' \in {"current", "baseline"}
      /\ UNCHANGED <<identity, row, kept, refused>>
  BY DEF Redeploy
<1>2. RowInv'
  BY <1>1 DEF RecordsInv, RowInv, Good
<1>3. QED
  BY <1>1, <1>2 DEF RecordsInv, HeldInv, OutcomePersisted

LEMMA RecoverInterruptedStep == ASSUME RecordsInv, RecoverInterrupted PROVE RecordsInv'
<1> DEFINE s == [kept EXCEPT !.state = "outcome_unknown", !.unknown = "interrupted_submission"]
<1>1. row # NoRow /\ row.state = "submitting" /\ held = NoSnapshot
  BY DEF RecoverInterrupted
<1>2. /\ Good(kept) /\ decode(row) = kept /\ kept.state = "submitting"
      /\ kept.result = NoResult /\ row.text = NoResult
  BY <1>1, KeptIsRead
<1>3. /\ UNCHANGED <<identity, held, binary>>
      /\ IF CanWrite(s) THEN Write(s) /\ UNCHANGED refused
                        ELSE refused' = s /\ UNCHANGED <<row, kept>>
  BY <1>2 DEF RecoverInterrupted
<1>4. /\ kept \in SnapshotType /\ kept.attempt > 0 /\ kept.failure = "none" /\ kept.retry = -1
  BY <1>2 DEF Good, RestorableState
<1>5. /\ s \in SnapshotType /\ s.state = "outcome_unknown" /\ s.unknown = "interrupted_submission"
      /\ s.attempt = kept.attempt /\ s.failure = "none" /\ s.retry = -1 /\ s.result = NoResult
  <2>1. s \in SnapshotType
    BY <1>4 DEF SnapshotType, States
  <2>2. QED
    BY <1>2, <1>4, <2>1 DEF SnapshotType
<1> HIDE DEF s
<1>6. Good(s)
  <2>1. RestorableState(s)
    BY <1>4, <1>5 DEF RestorableState
  <2>2. QED
    BY <1>5, <2>1, RecordsAssumption DEF Good
<1>7. RowInv' /\ OutcomePersisted'
  BY <1>2, <1>3, <1>6, WriteOrRefuse
<1>8. HeldInv'
  BY <1>1, <1>3 DEF HeldInv
<1>9. QED
  BY <1>3, <1>7, <1>8 DEF RecordsInv

LEMMA RecordsInit == Init => RecordsInv
BY DEF Init, RecordsInv, RowInv, HeldInv, OutcomePersisted

LEMMA RecordsNext == RecordsInv /\ [Next]_vars => RecordsInv'
<1> SUFFICES ASSUME RecordsInv, [Next]_vars PROVE RecordsInv'
  OBVIOUS
<1>1. CASE Next
  BY <1>1, AdmitStep, ClaimStep, OutcomeResultStep, OutcomeNotAcceptedStep,
     OutcomeAcceptedTerminalStep, OutcomeUnknownStep, RedeployStep, RecoverInterruptedStep
     DEF Next
<1>2. CASE UNCHANGED vars
  <2>1. UNCHANGED <<identity, row, held, binary, kept, refused>>
    BY <1>2 DEF vars
  <2>2. RowInv'
    BY <2>1 DEF RecordsInv, RowInv, Good
  <2>3. QED
    BY <2>1, <2>2 DEF RecordsInv, HeldInv, OutcomePersisted
<1>3. QED
  BY <1>1, <1>2

LEMMA GoodRowKeepsOutcome == RecordsInv => RowKeepsOutcome
<1> SUFFICES ASSUME RecordsInv PROVE RowKeepsOutcome
  OBVIOUS
<1>1. OutcomePersisted
  BY DEF RecordsInv
<1>2. ASSUME row # NoRow
      PROVE  Decodable(row) /\ decode(row) = kept
             /\ Serializable(Outbound(decode(row))) /\ Parses(Outbound(decode(row)))
  <2>1. Good(kept) /\ Decodable(row) /\ decode(row) = kept
    BY <1>2, KeptIsRead
  <2>2. identity \in Identities
    BY DEF RecordsInv
  <2>3. QED
    BY <2>1, <2>2, GoodIsServed
<1>3. QED
  BY <1>1, <1>2 DEF RowKeepsOutcome, RowRestores, RowIsServed

\* For every result an adapter may return, limits and sequence of outcomes,
\* restarts and deployments of either version: what is read from the row is what
\* was last written, GET can serve it, and an outcome is only refused for U+0000
\* (records.rs encode and TryFrom<JobRecord>, response_for_snapshot).
THEOREM OutcomesAreKept == Spec => []RowKeepsOutcome
<1>1. Spec => []RecordsInv
  BY RecordsInit, RecordsNext, PTL DEF Spec
<1>2. QED
  BY <1>1, GoodRowKeepsOutcome, PTL

-----------------------------------------------------------------------------
(* ElevenLabsBatch: the inductive invariant *)

Spoken == [id : Nat, start : Nat, end : Nat, confident : BOOLEAN, punctuated : BOOLEAN]
Built == [words : Seq(Nat), start : Nat, end : Nat, count : Nat, confident : Nat,
          punctuated : BOOLEAN]
Finished == [start : Nat, end : Nat, words : Seq(Nat), confidence : {"ok", "none"}]

\* Words come one after the other.
InTime(said) ==
    /\ \A i \in DOMAIN said : said[i].start < said[i].end
    /\ \A i, j \in DOMAIN said : i < j => said[i].end <= said[j].start

\* Short, of the words said so far.
ShortOf(said, words) ==
    /\ \A v, w \in words : v < w => said[w].end - said[v].start <= Hard
    /\ \A w \in words : w - 1 \in words => said[w].start - said[w - 1].end < Pause

\* What holds of each segment by itself.
Sound(said, segment) ==
    /\ WordsOf(segment) \subseteq DOMAIN said
    /\ Rising(segment.words) /\ ShortOf(said, WordsOf(segment))

\* The segments are sound and in order.
Lined(said, done) ==
    /\ \A i \in DOMAIN done : Sound(said, done[i])
    /\ \A i, j \in DOMAIN done :
            i < j => \A v \in WordsOf(done[i]), w \in WordsOf(done[j]) : v < w

\* The segments hold every word that was said.
Complete(said, done) ==
    Lined(said, done) /\ \A w \in DOMAIN said : \E i \in DOMAIN done : w \in WordsOf(done[i])

\* The segment under construction goes on where the finished ones end, and ends
\* with the last word.
Gathering(said, done, segment) ==
    /\ segment \in Built /\ segment.words # <<>>
    /\ Sound(said, segment)
    /\ said # <<>> /\ Len(said) \in WordsOf(segment) /\ segment.end = said[Len(said)].end
    /\ \A v \in WordsOf(segment) : segment.start <= said[v].start
    /\ done # <<>> => done[Len(done)].end <= seconds_to_millis(segment.start)
    /\ \A i \in DOMAIN done : \A v \in WordsOf(done[i]), w \in WordsOf(segment) : v < w
    /\ \A w \in DOMAIN said : w \in WordsOf(segment) \/ \E i \in DOMAIN done : w \in WordsOf(done[i])

Gathered(said, done, segment, previous) ==
    /\ said \in Seq(Spoken) /\ InTime(said)
    /\ done \in Seq(Finished) /\ Lined(said, done)
    /\ IF said = <<>> THEN done = <<>> /\ segment = NoSegment /\ previous = -1
       ELSE Gathering(said, done, segment) /\ previous = said[Len(said)].end

TokensInv ==
    /\ progress = "tokens" => Gathered(spoken, segments, current, previous_end)
    /\ SegmentsFaithful

-----------------------------------------------------------------------------
(* ElevenLabsBatch: what a token does to the segments *)

\* Rounding to milliseconds keeps the order of times.
LEMMA Millis ==
    ASSUME NEW a \in Nat, NEW b \in Nat, a <= b
    PROVE  seconds_to_millis(a) \in Nat /\ seconds_to_millis(a) <= seconds_to_millis(b)
<1> DEFINE d == 2 * TicksPerMs
           x == 2 * a + TicksPerMs
           y == 2 * b + TicksPerMs
           p == x \div d
           q == y \div d
<1>1. d \in Nat \ {0} /\ x \in Nat /\ y \in Nat /\ x <= y
  BY TokensAssumption
<1>2. seconds_to_millis(a) = p /\ seconds_to_millis(b) = q
  BY DEF seconds_to_millis
<1> HIDE DEF x, y, d
<1>3. p \in Nat /\ p * d <= x /\ x < (p + 1) * d
  BY <1>1
<1>4. q \in Nat /\ q * d <= y /\ y < (q + 1) * d
  BY <1>1
<1> HIDE DEF p, q
<1>5. p * d \in Nat /\ (q + 1) * d \in Nat
  BY <1>1, <1>3, <1>4
<1>6. p * d < (q + 1) * d
  BY <1>1, <1>3, <1>4, <1>5
<1>7. p < q + 1
  <2>1. \A k \in Nat, m \in Nat : k * d < m * d => k < m
    BY <1>1
  <2>2. QED
    BY <1>3, <1>4, <1>6, <2>1
<1>8. QED
  BY <1>2, <1>3, <1>4, <1>7

\* A segment is not the empty one, and finishing it keeps its words.
LEMMA Finishing ==
    ASSUME NEW segment \in Built, segment.words # <<>>
    PROVE  /\ segment # NoSegment /\ finish(segment) \in Finished
           /\ finish(segment).words = segment.words
           /\ finish(segment).start = seconds_to_millis(segment.start)
           /\ finish(segment).end = seconds_to_millis(segment.end)
<1>1. segment # NoSegment
  BY DEF NoSegment
<1>2. segment.start \in Nat /\ segment.end \in Nat /\ segment.words \in Seq(Nat)
  BY DEF Built
<1>3. seconds_to_millis(segment.start) \in Nat /\ seconds_to_millis(segment.end) \in Nat
  BY <1>2, Millis
<1>4. QED
  BY <1>1, <1>2, <1>3 DEF finish, Finished

\* A finished segment behind the others: they hold all that was said.
LEMMA Closes ==
    ASSUME NEW said, NEW done, NEW segment, NEW previous, Gathered(said, done, segment, previous)
    PROVE  /\ push_segment(done, segment) \in Seq(Finished)
           /\ Complete(said, push_segment(done, segment))
           /\ said # <<>> =>
                /\ push_segment(done, segment) # <<>>
                /\ push_segment(done, segment)[Len(push_segment(done, segment))].end
                        = seconds_to_millis(previous)
<1>1. CASE said = <<>>
  <2>1. done = <<>> /\ push_segment(done, segment) = <<>>
    BY <1>1 DEF Gathered, push_segment
  <2>2. DOMAIN said = {} /\ DOMAIN done = {}
    BY <1>1, <2>1
  <2>3. QED
    BY <1>1, <2>1, <2>2 DEF Gathered, Complete
<1>2. CASE said # <<>>
  <2> DEFINE f == finish(segment)
             list == push_segment(done, segment)
             n == Len(done)
  <2>1. /\ done \in Seq(Finished) /\ Lined(said, done) /\ Gathering(said, done, segment)
        /\ previous = said[Len(said)].end
    BY <1>2 DEF Gathered
  <2>2. /\ segment \in Built /\ segment.words # <<>> /\ Sound(said, segment)
        /\ segment.end = previous
        /\ \A i \in DOMAIN done : \A v \in WordsOf(done[i]), w \in WordsOf(segment) : v < w
        /\ \A w \in DOMAIN said : w \in WordsOf(segment) \/ \E i \in DOMAIN done : w \in WordsOf(done[i])
    BY <2>1 DEF Gathering
  <2>3. f \in Finished /\ f.words = segment.words /\ f.end = seconds_to_millis(previous)
        /\ segment # NoSegment
    BY <2>2, Finishing
  <2>4. list = Append(done, f)
    BY <2>3 DEF push_segment
  <2>5. Sound(said, f) /\ WordsOf(f) = WordsOf(segment)
    BY <2>2, <2>3 DEF Sound, WordsOf
  <2> HIDE DEF f, list
  <2>6. /\ list \in Seq(Finished) /\ n \in Nat /\ Len(list) = n + 1 /\ DOMAIN list = 1 .. n + 1
        /\ DOMAIN done = 1 .. n /\ list[n + 1] = f /\ \A i \in 1 .. n : list[i] = done[i]
    BY <2>1, <2>3, <2>4
  <2> HIDE DEF n
  <2>7. \A i \in DOMAIN list : Sound(said, list[i])
    BY <2>1, <2>5, <2>6 DEF Lined
  <2>8. ASSUME NEW i \in DOMAIN list, NEW j \in DOMAIN list, i < j,
               NEW v \in WordsOf(list[i]), NEW w \in WordsOf(list[j])
        PROVE  v < w
    <3>1. i \in 1 .. n /\ list[i] = done[i]
      BY <2>6, <2>8
    <3>2. CASE j = n + 1
      BY <2>2, <2>5, <2>6, <2>8, <3>1, <3>2
    <3>3. CASE j # n + 1
      BY <2>1, <2>6, <2>8, <3>1, <3>3 DEF Lined
    <3>4. QED
      BY <3>2, <3>3
  <2>9. \A w \in DOMAIN said : \E i \in DOMAIN list : w \in WordsOf(list[i])
    BY <2>2, <2>5, <2>6
  <2>10. Complete(said, list)
    BY <2>7, <2>8, <2>9 DEF Complete, Lined
  <2>11. list # <<>> /\ list[Len(list)].end = seconds_to_millis(previous)
    BY <2>3, <2>6
  <2>12. QED
    BY <2>6, <2>10, <2>11 DEF list
<1>3. QED
  BY <1>1, <1>2

\* What Append does, for the provers.
LEMMA Appending ==
    ASSUME NEW S, NEW s \in Seq(S), NEW e \in S
    PROVE  /\ Append(s, e) \in Seq(S) /\ Append(s, e) # <<>> /\ Len(Append(s, e)) = Len(s) + 1
           /\ Len(s) \in Nat /\ DOMAIN s = 1 .. Len(s) /\ DOMAIN Append(s, e) = 1 .. Len(s) + 1
           /\ Append(s, e)[Len(s) + 1] = e
           /\ \A i \in 1 .. Len(s) : Append(s, e)[i] = s[i] /\ s[i] \in S
OBVIOUS

\* One more word disturbs nothing that was said before it.
LEMMA OneMore ==
    ASSUME NEW said \in Seq(Spoken), InTime(said), NEW w \in Spoken, w.start < w.end,
           said # <<>> => said[Len(said)].end <= w.start
    PROVE  /\ Append(said, w) \in Seq(Spoken) /\ InTime(Append(said, w))
           /\ Append(said, w) # <<>> /\ Len(Append(said, w)) = Len(said) + 1
           /\ Append(said, w)[Len(said) + 1] = w
           /\ \A segment : Sound(said, segment) => Sound(Append(said, w), segment)
           /\ \A done : Lined(said, done) => Lined(Append(said, w), done)
<1> DEFINE all == Append(said, w)
           n == Len(said)
<1>1. /\ n \in Nat /\ DOMAIN said = 1 .. n /\ DOMAIN all = 1 .. n + 1 /\ all \in Seq(Spoken)
      /\ Len(all) = n + 1 /\ all # <<>> /\ all[n + 1] = w
      /\ \A i \in 1 .. n : all[i] = said[i] /\ said[i] \in Spoken
  BY Appending
<1>2. \A i \in 1 .. n : said[i].start \in Nat /\ said[i].end \in Nat
  BY <1>1 DEF Spoken
<1>3. w.start \in Nat /\ w.end \in Nat
  BY DEF Spoken
<1>4. n > 0 => said[n].end <= w.start
  BY <1>1
<1> HIDE DEF all, n
<1>5. InTime(all)
  <2>1. \A i \in DOMAIN all : all[i].start < all[i].end
    BY <1>1 DEF InTime
  <2>2. ASSUME NEW i \in DOMAIN all, NEW j \in DOMAIN all, i < j
        PROVE  all[i].end <= all[j].start
    <3>1. i \in 1 .. n /\ all[i] = said[i]
      BY <1>1, <2>2
    <3>2. CASE j \in 1 .. n
      BY <1>1, <2>2, <3>1, <3>2 DEF InTime
    <3>3. CASE j = n + 1 /\ i = n
      BY <1>1, <1>4, <3>1, <3>3
    <3>4. CASE j = n + 1 /\ i # n
      <4>1. i < n /\ n \in 1 .. n
        BY <1>1, <3>1, <3>4
      <4>2. said[i].end <= said[n].start /\ said[n].start < said[n].end
        BY <1>1, <3>1, <4>1 DEF InTime
      <4>3. QED
        BY <1>1, <1>2, <1>3, <1>4, <3>1, <3>4, <4>1, <4>2
    <3>5. QED
      BY <1>1, <3>2, <3>3, <3>4
  <2>3. QED
    BY <2>1, <2>2 DEF InTime
<1>6. ASSUME NEW segment, Sound(said, segment)
      PROVE  Sound(all, segment)
  <2>1. WordsOf(segment) \subseteq 1 .. n /\ ShortOf(said, WordsOf(segment)) /\ Rising(segment.words)
    BY <1>1, <1>6 DEF Sound
  <2>2. ShortOf(all, WordsOf(segment))
    <3>1. \A v \in WordsOf(segment) : all[v] = said[v]
      BY <1>1, <2>1
    <3> DEFINE W == WordsOf(segment)
    <3> HIDE DEF W
    <3>2. QED
      BY <2>1, <3>1 DEF ShortOf, W
  <2>3. WordsOf(segment) \subseteq DOMAIN all
    BY <1>1, <2>1
  <2>4. QED
    BY <2>1, <2>2, <2>3 DEF Sound
<1>7. \A done : Lined(said, done) => Lined(all, done)
  BY <1>6 DEF Lined
<1>8. QED
  BY <1>1, <1>5, <1>6, <1>7 DEF all, n

\* push_segment's overlap check rejects nothing that was gathered.
LEMMA NoOverlap ==
    ASSUME NEW said, NEW done, NEW segment, NEW previous, Gathered(said, done, segment, previous)
    PROVE  PushFault(done, segment) # "overlap"
<1>1. CASE segment = NoSegment
  BY <1>1 DEF PushFault
<1>2. CASE segment # NoSegment
  <2>1. done \in Seq(Finished) /\ Gathering(said, done, segment)
    BY <1>2 DEF Gathered
  <2>2. segment \in Built /\ segment.words # <<>>
        /\ (done # <<>> => done[Len(done)].end <= seconds_to_millis(segment.start))
    BY <2>1 DEF Gathering
  <2>3. finish(segment).start = seconds_to_millis(segment.start) /\ finish(segment).start \in Nat
    BY <2>2, Finishing DEF Finished
  <2>4. done # <<>> => Last(done).end \in Nat /\ Last(done).end <= finish(segment).start
    <3>1. done # <<>> => done[Len(done)] \in Finished
      BY <2>1
    <3>2. QED
      BY <2>2, <2>3, <3>1 DEF Last, Finished
  <2>5. ~(done # <<>> /\ finish(segment).start < Last(done).end)
    BY <2>3, <2>4
  <2>6. QED
    BY <2>5 DEF PushFault
<1>3. QED
  BY <1>1, <1>2

\* The first word of a segment, behind the finished ones.
LEMMA StartsSegment ==
    ASSUME NEW said, NEW done, NEW segment, NEW previous, Gathered(said, done, segment, previous),
           NEW w \in Spoken, w.id = Len(said) + 1, w.start < w.end, w.start >= previous
    PROVE  Gathered(Append(said, w), push_segment(done, segment), SegmentBuilder(w), w.end)
<1> DEFINE all == Append(said, w)
           list == push_segment(done, segment)
           new == SegmentBuilder(w)
           n == Len(said)
<1>1. /\ list \in Seq(Finished) /\ Complete(said, list)
      /\ said # <<>> => list # <<>> /\ list[Len(list)].end = seconds_to_millis(previous)
  BY Closes
<1>2. said \in Seq(Spoken) /\ InTime(said) /\ (said # <<>> => said[Len(said)].end = previous)
      /\ (said = <<>> => segment = NoSegment /\ done = <<>>)
  BY DEF Gathered
<1>3. said # <<>> => said[Len(said)].end <= w.start
  BY <1>2
<1>4. /\ all \in Seq(Spoken) /\ InTime(all) /\ all # <<>> /\ Len(all) = n + 1 /\ all[n + 1] = w
      /\ Lined(said, list) => Lined(all, list)
  BY <1>2, <1>3, OneMore
<1>5. n \in Nat /\ DOMAIN said = 1 .. n /\ DOMAIN all = 1 .. n + 1
  BY <1>2, Appending
<1>6. said # <<>> => previous \in Nat /\ w.start \in Nat
  <2>1. said # <<>> => said[Len(said)] \in Spoken
    BY <1>2
  <2>2. QED
    BY <1>2, <2>1 DEF Spoken
<1>7. w.start \in Nat /\ w.end \in Nat /\ w.confident \in BOOLEAN /\ w.punctuated \in BOOLEAN
  BY DEF Spoken
<1>8. new \in Built /\ new.words = <<n + 1>> /\ new.words # <<>> /\ new.start = w.start /\ new.end = w.end
  BY <1>5, <1>7 DEF SegmentBuilder, Built
<1>9. WordsOf(new) = {n + 1}
  BY <1>5, <1>8 DEF WordsOf, Range
<1>10. done = <<>> /\ segment = NoSegment => list = <<>>
  BY DEF push_segment
<1> HIDE DEF all, list, new, n
<1>11. Sound(all, new)
  <2>1. WordsOf(new) \subseteq DOMAIN all
    BY <1>5, <1>9
  <2>2. Rising(new.words)
    BY <1>8 DEF Rising
  <2>3. ShortOf(all, WordsOf(new))
    BY <1>5, <1>9 DEF ShortOf
  <2>4. QED
    BY <2>1, <2>2, <2>3 DEF Sound
<1>12. list # <<>> => list[Len(list)].end <= seconds_to_millis(new.start)
  <2>1. list # <<>> => said # <<>>
    BY <1>2, <1>10
  <2>2. said # <<>> => seconds_to_millis(previous) <= seconds_to_millis(w.start)
    BY <1>6, Millis
  <2>3. QED
    BY <1>1, <1>8, <2>1, <2>2
<1>13. \A i \in DOMAIN list : WordsOf(list[i]) \subseteq 1 .. n
  BY <1>1, <1>5 DEF Complete, Lined, Sound
<1>14. \A i \in DOMAIN list : \A v \in WordsOf(list[i]), u \in WordsOf(new) : v < u
  BY <1>5, <1>9, <1>13
<1>15. \A u \in DOMAIN all : u \in WordsOf(new) \/ \E i \in DOMAIN list : u \in WordsOf(list[i])
  BY <1>1, <1>5, <1>9 DEF Complete
<1>16. Gathering(all, list, new)
  <2>1. \A v \in WordsOf(new) : new.start <= all[v].start
    BY <1>4, <1>7, <1>8, <1>9
  <2>2. Len(all) \in WordsOf(new) /\ new.end = all[Len(all)].end
    BY <1>4, <1>8, <1>9
  <2>3. QED
    BY <1>4, <1>8, <1>11, <1>12, <1>14, <1>15, <2>1, <2>2 DEF Gathering
<1>17. all[Len(all)].end = w.end
  BY <1>4
<1>18. Lined(all, list)
  BY <1>1, <1>4 DEF Complete
<1>19. Gathered(all, list, new, w.end)
  BY <1>1, <1>4, <1>16, <1>17, <1>18 DEF Gathered
<1>20. QED
  BY <1>19 DEF all, list, new

\* Spacing is no word.
LEMMA SpacingKeeps ==
    ASSUME NEW said, NEW done, NEW segment, NEW previous, Gathered(said, done, segment, previous),
           segment # NoSegment
    PROVE  Gathered(said, done, push_spacing(segment), previous)
<1> DEFINE new == push_spacing(segment)
           n == Len(segment.words)
<1>1. said # <<>> /\ Gathering(said, done, segment)
  BY DEF Gathered
<1>2. segment \in Built /\ Sound(said, segment)
  BY <1>1 DEF Gathering
<1>3. segment.words \in Seq(Nat)
  BY <1>2 DEF Built
<1>4. new = [segment EXCEPT !.words = Append(segment.words, 0)]
  BY DEF push_spacing
<1>5. new \in Built /\ new.words = Append(segment.words, 0) /\ new.start = segment.start
      /\ new.end = segment.end
  <2>1. Append(segment.words, 0) \in Seq(Nat)
    BY <1>3
  <2>2. QED
    BY <1>2, <1>4, <2>1 DEF Built
<1>6. /\ new.words # <<>> /\ n \in Nat /\ DOMAIN segment.words = 1 .. n
      /\ DOMAIN new.words = 1 .. n + 1 /\ new.words[n + 1] = 0
      /\ \A i \in 1 .. n : new.words[i] = segment.words[i]
  BY <1>3, <1>5, Appending
<1> HIDE DEF new, n
<1>7. WordsOf(new) = WordsOf(segment)
  <2>1. \A v : v \in Range(new.words) <=> \E i \in 1 .. n + 1 : v = new.words[i]
    BY <1>6 DEF Range
  <2>2. \A v : v \in Range(segment.words) <=> \E i \in 1 .. n : v = segment.words[i]
    BY <1>6 DEF Range
  <2>3. QED
    BY <1>6, <2>1, <2>2 DEF WordsOf
<1>8. Rising(new.words)
  <2>1. Rising(segment.words)
    BY <1>2 DEF Sound
  <2>2. ASSUME NEW i \in 1 .. n + 1, NEW j \in 1 .. n + 1, i < j, new.words[i] # 0, new.words[j] # 0
        PROVE  new.words[i] < new.words[j]
    <3>1. i \in 1 .. n /\ j \in 1 .. n
      BY <1>6, <2>2
    <3>2. QED
      BY <1>6, <2>1, <2>2, <3>1 DEF Rising
  <2>3. QED
    BY <1>6, <2>2 DEF Rising
<1>9. Sound(said, new)
  BY <1>2, <1>7, <1>8 DEF Sound
<1>10. Gathering(said, done, new)
  BY <1>1, <1>5, <1>6, <1>7, <1>9 DEF Gathering
<1>11. Gathered(said, done, new, previous)
  BY <1>1, <1>10 DEF Gathered
<1>12. QED
  BY <1>11 DEF new

\* A word that does not split goes on with the segment.
LEMMA GoesOn ==
    ASSUME NEW said, NEW done, NEW segment, NEW previous, Gathered(said, done, segment, previous),
           segment # NoSegment, NEW w \in Spoken, w.id = Len(said) + 1, w.start < w.end,
           w.start >= previous, w.start - previous < Pause, w.end - segment.start <= Hard
    PROVE  Gathered(Append(said, w), done, push_word(segment, w), w.end)
<1> DEFINE all == Append(said, w)
           new == push_word(segment, w)
           m == Len(said)
           n == Len(segment.words)
<1>1. said # <<>> /\ Gathering(said, done, segment) /\ said \in Seq(Spoken) /\ InTime(said)
      /\ done \in Seq(Finished) /\ Lined(said, done) /\ said[Len(said)].end = previous
  BY DEF Gathered
<1>2. /\ segment \in Built /\ Sound(said, segment) /\ segment.words # <<>>
      /\ \A v \in WordsOf(segment) : segment.start <= said[v].start
      /\ done # <<>> => done[Len(done)].end <= seconds_to_millis(segment.start)
      /\ \A i \in DOMAIN done : \A v \in WordsOf(done[i]), u \in WordsOf(segment) : v < u
      /\ \A u \in DOMAIN said : u \in WordsOf(segment) \/ \E i \in DOMAIN done : u \in WordsOf(done[i])
  BY <1>1 DEF Gathering
<1>3. segment.words \in Seq(Nat) /\ segment.start \in Nat /\ segment.count \in Nat
      /\ segment.confident \in Nat
  BY <1>2 DEF Built
<1>4. w.start \in Nat /\ w.end \in Nat /\ w.confident \in BOOLEAN /\ w.punctuated \in BOOLEAN
      /\ w.id \in Nat
  BY DEF Spoken
<1>5. new = [segment EXCEPT !.words = Append(segment.words, w.id), !.end = w.end,
                            !.count = segment.count + 1,
                            !.confident = segment.confident + (IF w.confident THEN 1 ELSE 0),
                            !.punctuated = w.punctuated]
  BY DEF push_word
<1>6. new \in Built /\ new.words = Append(segment.words, w.id) /\ new.start = segment.start
      /\ new.end = w.end
  <2>1. Append(segment.words, w.id) \in Seq(Nat) /\ segment.count + 1 \in Nat
        /\ segment.confident + (IF w.confident THEN 1 ELSE 0) \in Nat
    BY <1>3, <1>4
  <2>2. QED
    BY <1>2, <1>4, <1>5, <2>1 DEF Built
<1>7. /\ all \in Seq(Spoken) /\ InTime(all) /\ all # <<>> /\ Len(all) = m + 1 /\ all[m + 1] = w
      /\ Lined(all, done) /\ Sound(all, segment)
  BY <1>1, <1>2, OneMore
<1>8. /\ m \in Nat /\ DOMAIN said = 1 .. m /\ DOMAIN all = 1 .. m + 1
      /\ \A i \in 1 .. m : all[i] = said[i] /\ said[i] \in Spoken
  BY <1>1, Appending
<1>9. /\ new.words # <<>> /\ n \in Nat /\ DOMAIN segment.words = 1 .. n
      /\ DOMAIN new.words = 1 .. n + 1 /\ new.words[n + 1] = m + 1
      /\ \A i \in 1 .. n : new.words[i] = segment.words[i] /\ segment.words[i] \in Nat
  <2> DEFINE s == segment.words
  <2>1. s \in Seq(Nat) /\ w.id \in Nat /\ w.id = m + 1 /\ new.words = Append(s, w.id) /\ n = Len(s)
    BY <1>3, <1>4, <1>6
  <2> HIDE DEF m, new, n, s
  <2>2. /\ Append(s, w.id) # <<>> /\ Len(s) \in Nat /\ DOMAIN s = 1 .. Len(s)
        /\ DOMAIN Append(s, w.id) = 1 .. Len(s) + 1 /\ Append(s, w.id)[Len(s) + 1] = w.id
        /\ \A i \in 1 .. Len(s) : Append(s, w.id)[i] = s[i] /\ s[i] \in Nat
    BY <2>1, Appending
  <2>3. QED
    BY <2>1, <2>2 DEF s
<1> HIDE DEF all, new, m, n
<1>10. w.id = m + 1
  BY DEF m
<1>11. WordsOf(new) = WordsOf(segment) \cup {m + 1}
  <2>1. \A v : v \in Range(new.words) <=> \E i \in 1 .. n + 1 : v = new.words[i]
    BY <1>9 DEF Range
  <2>2. \A v : v \in Range(segment.words) <=> \E i \in 1 .. n : v = segment.words[i]
    BY <1>9 DEF Range
  <2>3. \A v : v \in Range(new.words) <=> v \in Range(segment.words) \/ v = m + 1
    BY <1>9, <2>1, <2>2
  <2>4. m + 1 # 0
    BY <1>8
  <2>5. QED
    BY <2>3, <2>4 DEF WordsOf
<1>12. WordsOf(segment) \subseteq 1 .. m /\ Rising(segment.words)
       /\ ShortOf(said, WordsOf(segment)) /\ ShortOf(all, WordsOf(segment))
  BY <1>2, <1>7, <1>8 DEF Sound
<1>13. Rising(new.words)
  <2>1. ASSUME NEW i \in 1 .. n + 1, NEW j \in 1 .. n + 1, i < j, new.words[i] # 0, new.words[j] # 0
        PROVE  new.words[i] < new.words[j]
    <3>1. i \in 1 .. n
      BY <1>9, <2>1
    <3>2. CASE j \in 1 .. n
      BY <1>9, <1>12, <2>1, <3>1, <3>2 DEF Rising
    <3>3. CASE j = n + 1
      <4>1. segment.words[i] \in WordsOf(segment)
        BY <1>9, <2>1, <3>1 DEF WordsOf, Range
      <4>2. QED
        BY <1>8, <1>9, <1>12, <3>1, <3>3, <4>1
    <3>4. QED
      BY <1>9, <3>2, <3>3
  <2>2. QED
    BY <1>9, <2>1 DEF Rising
<1>14. \A v \in WordsOf(segment) : all[v] = said[v] /\ all[v].start \in Nat /\ segment.start <= all[v].start
  BY <1>2, <1>8, <1>12 DEF Spoken
<1>15. ShortOf(all, WordsOf(new))
  <2> DEFINE W == WordsOf(segment)
  <2>1. W \subseteq 1 .. m /\ ShortOf(all, W) /\ WordsOf(new) = W \cup {m + 1}
        /\ \A v \in W : all[v].start \in Nat /\ segment.start <= all[v].start
    BY <1>11, <1>12, <1>14
  <2> HIDE DEF W
  <2>2. Hard \in Nat /\ Pause \in Nat
    BY TokensAssumption
  <2>3. ASSUME NEW v \in W \cup {m + 1}, NEW u \in W \cup {m + 1}, v < u
        PROVE  all[u].end - all[v].start <= Hard
    <3>1. v \in W
      BY <1>8, <2>1, <2>3
    <3>2. CASE u \in W
      BY <2>1, <2>3, <3>1, <3>2 DEF ShortOf
    <3>3. CASE u = m + 1
      BY <1>3, <1>4, <1>7, <2>1, <2>2, <3>1, <3>3
    <3>4. QED
      BY <3>2, <3>3
  <2>4. ASSUME NEW u \in W \cup {m + 1}, u - 1 \in W \cup {m + 1}
        PROVE  all[u].start - all[u - 1].end < Pause
    <3>1. CASE u \in W
      <4>1. u - 1 \in W
        BY <1>8, <2>1, <2>4, <3>1
      <4>2. QED
        BY <2>1, <3>1, <4>1 DEF ShortOf
    <3>2. CASE u = m + 1
      <4>1. u - 1 = m /\ all[m] = said[m] /\ said[m].end = previous
        <5>1. m \in 1 .. m
          BY <1>1, <1>8 DEF m
        <5>2. QED
          BY <1>1, <1>8, <3>2, <5>1 DEF m
      <4>2. QED
        BY <1>7, <3>2, <4>1
    <3>3. QED
      BY <3>1, <3>2
  <2>5. QED
    BY <2>1, <2>3, <2>4 DEF ShortOf
<1>16. Sound(all, new)
  <2>1. WordsOf(new) \subseteq DOMAIN all
    BY <1>8, <1>11, <1>12
  <2>2. QED
    BY <1>13, <1>15, <2>1 DEF Sound
<1>17. \A v \in WordsOf(new) : new.start <= all[v].start
  <2>1. segment.start <= w.start
    <3>1. previous \in Nat /\ m \in WordsOf(segment) /\ said[m].start < said[m].end
          /\ said[m].start \in Nat /\ said[m].end \in Nat
      <4>1. m \in WordsOf(segment)
        BY <1>1 DEF Gathering, m
      <4>2. m \in 1 .. m
        BY <1>12, <4>1
      <4>3. said[m] \in Spoken /\ said[m].start < said[m].end
        BY <1>1, <1>8, <4>2 DEF InTime
      <4>4. said[m].end = previous
        BY <1>1 DEF m
      <4>5. QED
        BY <4>1, <4>3, <4>4 DEF Spoken
    <3>2. said[m].end = previous
      BY <1>1 DEF m
    <3>3. segment.start <= said[m].start
      BY <1>2, <3>1
    <3>4. QED
      BY <1>3, <1>4, <3>1, <3>2, <3>3
  <2>2. QED
    BY <1>6, <1>7, <1>11, <1>14, <2>1
<1>18. \A i \in DOMAIN done : \A v \in WordsOf(done[i]), u \in WordsOf(new) : v < u
  <2>1. \A i \in DOMAIN done : WordsOf(done[i]) \subseteq 1 .. m
    BY <1>1, <1>8 DEF Lined, Sound
  <2>2. QED
    BY <1>2, <1>8, <1>11, <2>1
<1>19. \A u \in DOMAIN all : u \in WordsOf(new) \/ \E i \in DOMAIN done : u \in WordsOf(done[i])
  BY <1>2, <1>8, <1>11
<1>20. Gathering(all, done, new)
  <2>1. Len(all) \in WordsOf(new) /\ new.end = all[Len(all)].end
    BY <1>6, <1>7, <1>11
  <2>2. done # <<>> => done[Len(done)].end <= seconds_to_millis(new.start)
    BY <1>2, <1>6
  <2>3. QED
    BY <1>6, <1>7, <1>9, <1>16, <1>17, <1>18, <1>19, <2>1, <2>2 DEF Gathering
<1>21. Gathered(all, done, new, w.end)
  <2>1. all[Len(all)].end = w.end
    BY <1>7
  <2>2. QED
    BY <1>1, <1>7, <1>20, <2>1 DEF Gathered
<1>22. QED
  BY <1>21 DEF all, new

-----------------------------------------------------------------------------
(* ElevenLabsBatch: the steps *)

LEMMA TokensStart == TokensInit => TokensInv
<1> SUFFICES ASSUME TokensInit PROVE TokensInv
  OBVIOUS
<1>1. Gathered(spoken, segments, current, previous_end)
  BY DEF TokensInit, Gathered, InTime, Lined
<1>2. progress = "tokens" /\ reason = "none"
  BY DEF TokensInit
<1>3. QED
  BY <1>1, <1>2 DEF TokensInv, SegmentsFaithful, WordsKeptInOrder, SegmentsAreShort,
        RoundingKeepsOrder, Recognized

\* While tokens come there is nothing to show but the reason.
LEMMA StillTokens ==
    ASSUME TokensInv, progress' = progress, reason' = reason, progress = "tokens",
           Gathered(spoken', segments', current', previous_end')
    PROVE  TokensInv'
<1>1. ~Recognized'
  BY DEF Recognized
<1>2. RoundingKeepsOrder'
  BY DEF TokensInv, SegmentsFaithful, RoundingKeepsOrder
<1>3. QED
  BY <1>1, <1>2 DEF TokensInv, SegmentsFaithful, WordsKeptInOrder, SegmentsAreShort

LEMMA TRejects ==
    ASSUME NEW why, why \notin {"none", "overlap"}, Reject(why)
    PROVE  TokensInv'
<1>1. progress' = "done" /\ reason' = why
  BY DEF Reject
<1>2. QED
  BY <1>1 DEF TokensInv, SegmentsFaithful, WordsKeptInOrder, SegmentsAreShort,
        RoundingKeepsOrder, Recognized

\* Nothing happens.
LEMMA TStays == ASSUME TokensInv, UNCHANGED tokensVars PROVE TokensInv'
<1>1. UNCHANGED <<progress, reason, current, previous_end, segments, spoken>>
  BY DEF tokensVars
<1>2. CASE progress = "tokens"
  BY <1>1, <1>2, StillTokens DEF TokensInv
<1>3. CASE progress # "tokens"
  <2>1. SegmentsFaithful'
    BY <1>1 DEF TokensInv, SegmentsFaithful, WordsKeptInOrder, SegmentsAreShort,
          RoundingKeepsOrder, Recognized, Short
  <2>2. QED
    BY <1>1, <1>3, <2>1 DEF TokensInv
<1>4. QED
  BY <1>2, <1>3

LEMMA TSpacing == ASSUME TokensInv, Spacing PROVE TokensInv'
<1>1. Gathered(spoken, segments, current, previous_end)
  BY DEF TokensInv, Spacing, More
<1>2. progress = "tokens" /\ UNCHANGED <<progress, reason, previous_end, segments, spoken>>
      /\ current' = IF current = NoSegment THEN NoSegment ELSE push_spacing(current)
  BY DEF Spacing, More
<1>3. Gathered(spoken, segments, current', previous_end)
  BY <1>1, <1>2, SpacingKeeps
<1>4. QED
  BY <1>2, <1>3, StillTokens

LEMMA FaultsAre == \A done, segment : PushFault(done, segment) # "none" =>
    PushFault(done, segment) \in {"too many segments", "empty segment", "overlap"}
BY DEF PushFault

LEMMA TTakesWord ==
    ASSUME TokensInv, progress = "tokens", NEW w \in Spoken, w.id = Len(spoken) + 1,
           WordInOrder(w), TakeWord(w)
    PROVE  TokensInv'
<1> DEFINE fault == IF should_split(w) THEN PushFault(segments, current) ELSE "none"
<1>1. Gathered(spoken, segments, current, previous_end)
  BY DEF TokensInv
<1>2. w.start < w.end /\ w.start >= previous_end
  BY DEF WordInOrder
<1>3. CASE fault # "none"
  <2>1. Reject(fault)
    BY <1>3 DEF TakeWord
  <2>2. fault # "overlap"
    BY <1>1, <1>3, NoOverlap
  <2> HIDE DEF fault
  <2>3. QED
    BY <1>3, <2>1, <2>2, TRejects
<1>4. CASE fault = "none"
  <2>1. /\ UNCHANGED <<progress, reason>> /\ spoken' = Append(spoken, w) /\ previous_end' = w.end
        /\ segments' = IF should_split(w) THEN push_segment(segments, current) ELSE segments
        /\ current' = IF current = NoSegment \/ should_split(w) THEN SegmentBuilder(w)
                      ELSE push_word(current, w)
    BY <1>4 DEF TakeWord
  <2>2. CASE should_split(w)
    <3>1. Gathered(Append(spoken, w), push_segment(segments, current), SegmentBuilder(w), w.end)
      BY <1>1, <1>2, StartsSegment
    <3>2. QED
      BY <2>1, <2>2, <3>1, StillTokens
  <2>3. CASE current = NoSegment
    <3>1. Gathered(Append(spoken, w), push_segment(segments, current), SegmentBuilder(w), w.end)
      BY <1>1, <1>2, StartsSegment
    <3>2. push_segment(segments, current) = segments
      BY <2>3 DEF push_segment
    <3>3. QED
      BY <2>1, <2>3, <3>1, <3>2, StillTokens
  <2>4. CASE current # NoSegment /\ ~should_split(w)
    <3>1. /\ ~(w.start - previous_end >= Pause)
          /\ ~(w.end - current.start > Hard)
      BY <2>4 DEF should_split
    <3>2. Pause \in Nat /\ Hard \in Nat /\ w.start \in Nat /\ w.end \in Nat
      BY TokensAssumption DEF Spoken
    <3>3. previous_end \in Nat /\ current.start \in Nat
      <4>1. spoken # <<>> /\ Gathering(spoken, segments, current) /\ spoken \in Seq(Spoken)
            /\ previous_end = spoken[Len(spoken)].end
        BY <1>1, <2>4 DEF Gathered
      <4>2. spoken[Len(spoken)] \in Spoken
        BY <4>1
      <4>3. current \in Built
        BY <4>1 DEF Gathering
      <4>4. QED
        BY <4>1, <4>2, <4>3 DEF Spoken, Built
    <3>4. w.start - previous_end < Pause /\ w.end - current.start <= Hard
      BY <3>1, <3>2, <3>3
    <3>5. Gathered(Append(spoken, w), segments, push_word(current, w), w.end)
      BY <1>1, <1>2, <2>4, <3>4, GoesOn
    <3>6. QED
      BY <2>1, <2>4, <3>5, StillTokens
  <2>5. QED
    BY <2>2, <2>3, <2>4
<1>5. QED
  BY <1>3, <1>4

LEMMA LeastOfTwo == ASSUME NEW a \in Nat, NEW b \in Nat PROVE Min({a, b}) \in Nat
<1> DEFINE S == {a, b}
<1>1. \E x \in S : \A y \in S : x <= y
  OBVIOUS
<1>2. S \subseteq Nat
  OBVIOUS
<1> HIDE DEF S
<1>3. Min(S) \in S
  BY <1>1 DEF Min
<1>4. QED
  BY <1>2, <1>3 DEF S

LEMMA TWord == ASSUME TokensInv, Word PROVE TokensInv'
<1>1. PICK start \in Ticks, end \in Ticks, confident \in BOOLEAN, punctuated \in BOOLEAN :
        LET w == [id |-> Len(spoken) + 1,
                  start |-> bounded_timestamp(start), end |-> bounded_timestamp(end),
                  confident |-> confident, punctuated |-> punctuated]
        IN  IF Bounded(start) /\ Bounded(end) /\ WordInOrder(w) THEN TakeWord(w)
            ELSE Reject("word out of order")
  BY DEF Word
<1> DEFINE w == [id |-> Len(spoken) + 1,
                 start |-> bounded_timestamp(start), end |-> bounded_timestamp(end),
                 confident |-> confident, punctuated |-> punctuated]
<1>2. progress = "tokens" /\ Gathered(spoken, segments, current, previous_end)
  BY DEF Word, More, TokensInv
<1>3. CASE Reject("word out of order")
  BY <1>3, TRejects
<1>4. CASE WordInOrder(w) /\ TakeWord(w)
  <2>1. start \in Nat /\ end \in Nat /\ EndTicks \in Nat
    BY TokensAssumption DEF EndTicks
  <2>2. bounded_timestamp(start) \in Nat /\ bounded_timestamp(end) \in Nat
    BY <2>1, LeastOfTwo DEF bounded_timestamp
  <2>3. Len(spoken) + 1 \in Nat
    BY <1>2 DEF Gathered
  <2>4. w \in Spoken
    BY <2>2, <2>3 DEF Spoken
  <2>5. w.id = Len(spoken) + 1
    OBVIOUS
  <2> HIDE DEF w
  <2>6. QED
    BY <1>2, <1>4, <2>4, <2>5, TTakesWord
<1>5. QED
  BY <1>1, <1>3, <1>4

LEMMA TEnd == ASSUME TokensInv, EndOfTokens PROVE TokensInv'
<1> DEFINE fault == PushFault(segments, current)
           done == push_segment(segments, current)
<1>1. progress = "tokens" /\ Gathered(spoken, segments, current, previous_end)
  BY DEF EndOfTokens, TokensInv
<1>2. fault # "overlap"
  BY <1>1, NoOverlap
<1>3. CASE fault # "none"
  <2>1. Reject(fault)
    BY <1>3 DEF EndOfTokens
  <2> HIDE DEF fault
  <2>2. QED
    BY <1>2, <1>3, <2>1, TRejects
<1>4. CASE fault = "none"
  <2>1. progress' = "done" /\ segments' = done /\ UNCHANGED <<reason, spoken>>
    BY <1>4 DEF EndOfTokens
  <2>2. done \in Seq(Finished) /\ Complete(spoken, done)
    BY <1>1, Closes
  <2> HIDE DEF done
  <2>3. \A i \in DOMAIN done : Sound(spoken, done[i])
    BY <2>2 DEF Complete, Lined
  <2>4. WordsKeptInOrder'
    <3>1. UNION {WordsOf(done[i]) : i \in DOMAIN done} = DOMAIN spoken
      <4>1. \A i \in DOMAIN done : WordsOf(done[i]) \subseteq DOMAIN spoken
        BY <2>3 DEF Sound
      <4>2. \A u \in DOMAIN spoken : \E i \in DOMAIN done : u \in WordsOf(done[i])
        BY <2>2 DEF Complete
      <4>3. QED
        BY <4>1, <4>2
    <3>2. \A i \in DOMAIN done : Rising(done[i].words)
      BY <2>3 DEF Sound
    <3>3. \A i, j \in DOMAIN done :
            i < j => \A v \in WordsOf(done[i]), u \in WordsOf(done[j]) : v < u
      BY <2>2 DEF Complete, Lined
    <3>4. QED
      BY <2>1, <3>1, <3>2, <3>3 DEF WordsKeptInOrder
  <2>5. SegmentsAreShort'
    <3>1. \A i \in DOMAIN done : ShortOf(spoken, WordsOf(done[i]))
      BY <2>3 DEF Sound
    <3>2. \A words : ShortOf(spoken, words) => Short(words)'
      BY <2>1 DEF ShortOf, Short
    <3>3. QED
      BY <2>1, <3>1, <3>2 DEF SegmentsAreShort
  <2>6. RoundingKeepsOrder'
    BY <2>1 DEF TokensInv, SegmentsFaithful, RoundingKeepsOrder
  <2>7. QED
    BY <2>1, <2>4, <2>5, <2>6 DEF TokensInv, SegmentsFaithful
<1>5. QED
  BY <1>3, <1>4

LEMMA TokensStep == TokensInv /\ [TokensNext]_tokensVars => TokensInv'
<1> SUFFICES ASSUME TokensInv, [TokensNext]_tokensVars PROVE TokensInv'
  OBVIOUS
<1>1. CASE Malformed \/ TextDisagrees
  BY <1>1, TRejects DEF Malformed, TextDisagrees
<1>2. CASE AudioEvent \/ Returned \/ UNCHANGED tokensVars
  BY <1>2, TStays DEF AudioEvent, Returned
<1>3. CASE Spacing
  BY <1>3, TSpacing
<1>4. CASE Word
  BY <1>4, TWord
<1>5. CASE EndOfTokens
  BY <1>5, TEnd
<1>6. QED
  BY <1>1, <1>2, <1>3, <1>4, <1>5 DEF TokensNext

-----------------------------------------------------------------------------
(* ElevenLabsBatch: the theorem *)

\* Whatever tokens an ElevenLabs body has, however many and in whatever times:
\* the segments the adapter makes hold every word once and in order, span no
\* pause and no more than the hard limit, and none is lost to the rounding of
\* its times (parse_response, push_segment).
THEOREM SegmentsAreFaithful == TokensSpec => []SegmentsFaithful
<1>1. TokensInit => TokensInv
  BY TokensStart
<1>2. TokensInv /\ [TokensNext]_tokensVars => TokensInv'
  BY TokensStep
<1>3. TokensInv => SegmentsFaithful
  BY DEF TokensInv
<1>4. QED
  BY <1>1, <1>2, <1>3, PTL DEF TokensSpec
=============================================================================

-------------------------- MODULE ProviderExchange --------------------------
(***************************************************************************)
(* One batch submission over HTTP, as the two adapters make it             *)
(* (deepgram/batch.rs and elevenlabs/batch.rs), and the retries of the job *)
(* it belongs to.  The adapter sees an error or a response; whether the    *)
(* provider accepted (and charges for) the audio it has to infer.          *)
(*                                                                         *)
(* The provider is external.  A request that has left may be accepted or   *)
(* refused at any time, also after the adapter gave up on it.  A provider  *)
(* that accepted answers with success or, when it breaks down, with a      *)
(* server error; one that refused answers with any other status.           *)
(***************************************************************************)
EXTENDS BatchJob

CONSTANTS
    Statuses,      \* HTTP status codes the provider uses
    MaxSuccess,    \* MAX_SUCCESS_BODY_BYTES
    MaxErrorBody,  \* MAX_ERROR_BODY_BYTES
    Chunks,        \* lengths of a piece of a response body
    TheRequest     \* the request of the job

ASSUME StatusAssumption == Statuses \subseteq 100 .. 599
ASSUME BodyAssumption == /\ MaxSuccess \in Nat
                         /\ MaxErrorBody \in Nat
                         /\ Chunks \subseteq Nat \ {0}
                         /\ TheRequest \in Requests

VARIABLES
    adapter,   \* the provider of the job's profile
    valid,     \* the request passes the adapter's own validation
    row,       \* the job's row
    pc,        \* idle, send, wait, body
    status,    \* the response's status, 0 before it
    body,      \* bytes of the body read
    sent,      \* attempts whose request left and was not decided on
    paid       \* attempts the provider accepted

exVars == <<adapter, valid, row, pc, status, body, sent, paid>>

Init ==
    /\ adapter \in {"deepgram", "elevenlabs"}
    /\ valid \in BOOLEAN
    /\ row = accept(TheRequest)
    /\ pc = "idle"
    /\ status = 0
    /\ body = 0
    /\ sent = {}
    /\ paid = {}

\* A success, on the provider's side.
Succeeds(code) == code \in 200 .. 299

IsSuccess(code) == code \in 200 .. 299

-----------------------------------------------------------------------------
(* What the adapters conclude *)

\* Mutant: whatever goes wrong before a response is offered for retry.
classify_send_error_Any(connect) == "not_accepted_retryable"

\* ElevenLabs trusts the client library's word that no connection was made;
\* Deepgram does not distinguish.
classify_send_error(connect) ==
    IF adapter = "elevenlabs" /\ connect
    THEN "not_accepted_retryable" ELSE "unknown_after_send"

status_failure(code) ==
    CASE code = 429 -> "not_accepted_retryable"
      [] adapter = "deepgram" /\ code \in {400, 401, 402, 403, 404, 413, 415, 422} ->
            "not_accepted_terminal"
      [] adapter = "elevenlabs" /\ code \in 400 .. 499 -> "not_accepted_terminal"
      [] OTHER -> "unknown_after_send"

Limit == IF IsSuccess(status) THEN MaxSuccess ELSE MaxErrorBody

\* Deepgram reads an error body like a success body; ElevenLabs only drains
\* it, and whatever happens the status decides.
BodyMatters == adapter = "deepgram" \/ IsSuccess(status)

-----------------------------------------------------------------------------
(* The adapter *)

Conclude(out) ==
    /\ row' = apply_recognition_outcome(row, out)
    /\ pc' = "idle"
    /\ status' = 0
    /\ body' = 0

Submit ==
    /\ pc = "idle"
    /\ CanBeginSubmission(row)
    /\ row' = begin_submission(row)
    /\ pc' = "send"
    /\ UNCHANGED <<adapter, valid, status, body, sent, paid>>

\* validate_request, profile_matches, capabilities.
RejectsRequest ==
    /\ pc = "send"
    /\ ~valid
    /\ Conclude("not_accepted_terminal")
    /\ UNCHANGED <<adapter, valid, sent, paid>>

\* No connection, or no request could be built.
ConnectFails ==
    /\ pc = "send"
    /\ valid
    /\ Conclude(classify_send_error(TRUE))
    /\ UNCHANGED <<adapter, valid, sent, paid>>

RequestLeaves ==
    /\ pc = "send"
    /\ valid
    /\ pc' = "wait"
    /\ sent' = sent \cup {row.attempt}
    /\ UNCHANGED <<adapter, valid, row, status, body, paid>>

\* The connection breaks or the client's time is up before a response.
NoResponse ==
    /\ pc = "wait"
    /\ Conclude(classify_send_error(FALSE))
    /\ UNCHANGED <<adapter, valid, sent, paid>>

\* A response to the current attempt; its declared length alone may end it.
Response(code, declared) ==
    /\ pc = "wait"
    /\ row.attempt \notin sent
    /\ IF row.attempt \in paid
       THEN Succeeds(code) \/ code >= 500
       ELSE ~Succeeds(code)
    /\ LET limit == IF IsSuccess(code) THEN MaxSuccess ELSE MaxErrorBody
       IN  IF (adapter = "deepgram" \/ IsSuccess(code)) /\ declared > limit
           THEN Conclude("unknown_after_send")
           ELSE status' = code /\ pc' = "body" /\ UNCHANGED <<row, body>>
    /\ UNCHANGED <<adapter, valid, sent, paid>>

\* The body is over or, for a drained error body, not worth waiting for:
\* classify, or parse a success, which may fail or give a bad result.
Decide(out) ==
    IF IsSuccess(status)
    THEN out \in {"ok", "invalid", "unknown_after_send"} /\ Conclude(out)
    ELSE out = status_failure(status) /\ Conclude(out)

\* read_bounded_body and read_bounded_success_body refuse the piece that
\* would pass the limit; consume_bounded_error_body keeps none.
Chunk(n) ==
    /\ pc = "body"
    /\ IF body + n <= Limit
       THEN body' = body + n /\ UNCHANGED <<row, pc, status>>
       ELSE IF BodyMatters THEN Conclude("unknown_after_send")
                           ELSE \E out \in Outcomes : Decide(out)
    /\ UNCHANGED <<adapter, valid, sent, paid>>

BodyEnds(out) ==
    /\ pc = "body"
    /\ Decide(out)
    /\ UNCHANGED <<adapter, valid, sent, paid>>

\* The connection breaks in the body, or the client's time is up.
BodyFails ==
    /\ pc = "body"
    /\ IF BodyMatters THEN Conclude("unknown_after_send")
                      ELSE \E out \in Outcomes : Decide(out)
    /\ UNCHANGED <<adapter, valid, sent, paid>>

-----------------------------------------------------------------------------
(* The provider *)

ProviderDecides(a) ==
    /\ a \in sent
    /\ sent' = sent \ {a}
    /\ \/ paid' = paid \cup {a}
       \/ UNCHANGED paid
    /\ UNCHANGED <<adapter, valid, row, pc, status, body>>

Over ==
    /\ pc = "idle"
    /\ ~CanBeginSubmission(row)
    /\ UNCHANGED exVars

Next ==
    \/ Submit \/ RejectsRequest \/ ConnectFails \/ RequestLeaves \/ NoResponse
    \/ \E code \in Statuses, n \in Chunks \cup {0} : Response(code, n)
    \/ \E n \in Chunks : Chunk(n)
    \/ \E out \in Outcomes : BodyEnds(out)
    \/ BodyFails
    \/ \E a \in 1 .. MaxAttempt : ProviderDecides(a)
    \/ Over

Spec == Init /\ [][Next]_exVars

\* The client's total timeout ends every wait; a started submission is
\* carried on.  Nothing makes the provider answer or end its body.
FairSpec ==
    /\ Spec
    /\ WF_exVars(RejectsRequest \/ ConnectFails \/ RequestLeaves)
    /\ WF_exVars(NoResponse)
    /\ WF_exVars(BodyFails)

-----------------------------------------------------------------------------
(* Properties *)

\* No job is paid for twice, although a request the adapter gave up on may be
\* accepted at any later time: only outcomes that exclude acceptance lead to
\* another attempt (status_failure, classify_send_error).
OnePaidAttempt == Cardinality(paid) <= 1

\* A job that is offered for retry has cost nothing so far, and no earlier
\* request of it can still be accepted.
RefusedIsUnpaid == row.st = "retryable" => paid = {} /\ sent = {}

\* An answer that settles the job was an answer to its last attempt: a
\* completed job was accepted in that attempt and in no other.
CompletedIsPaid == row.st = "completed" => paid = {row.attempt}

\* Every submission comes to an outcome, also when the provider never
\* answers, or trickles its body for ever.
SubmissionEnds == (row.st = "submitting") ~> (row.st # "submitting")

\* The ledger never says more about acceptance than is true, at any time of a
\* request that is still on its way (status_failure, classify_send_error).
AcceptanceKnown == OnePaidAttempt /\ RefusedIsUnpaid /\ CompletedIsPaid
=============================================================================

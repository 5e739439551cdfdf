------------------------------ MODULE BatchJob ------------------------------
(***************************************************************************)
(* The batch job of voicetext-speech: its durable lifecycle states, the    *)
(* legal transitions between them, and what the outcome of a provider      *)
(* submission does to them (domain/batch.rs and the outcome mapping of     *)
(* application/batch_models.rs).  Everything here is a constant-level      *)
(* operator; the modules that EXTEND this one hold the state.              *)
(*                                                                         *)
(* A job's failure code, provider reference, retry hint and transcript are *)
(* abstracted away: no transition depends on them.                         *)
(***************************************************************************)
EXTENDS Integers, FiniteSets

CONSTANTS
    Jobs,        \* job ids; numbers, because the ledger pages in id order
    Requests,    \* complete request contents (profile, key terms and audio)
    NoRequest,   \* the request of a row that does not exist
    Audios,      \* audio contents, one SHA-256 digest each
    NoAudio,     \* no digest is claimed
    AudioOf,     \* the audio a request uploads
    MaxAttempt   \* u32::MAX in the code: the last attempt number

ASSUME JobsAssumption    == Jobs \subseteq Nat \ {0}
ASSUME RequestAssumption == /\ AudioOf \in [Requests -> Audios]
                            /\ NoRequest \notin Requests
                            /\ NoAudio \notin Audios
ASSUME AttemptAssumption == MaxAttempt \in Nat \ {0}

\* BatchJobStatus, as the state column of the ledger spells it.
Status == {"accepted", "submitting", "retryable",
           "completed", "failed", "outcome_unknown"}

is_terminal(st) == st \in {"completed", "failed", "outcome_unknown"}

\* The states from which execution may start.
Actionable(st) == st \in {"accepted", "retryable"}

\* A row of the ledger: the job's state and attempt, the row's revision and
\* the immutable request identity.  NoRow stands for "no such row"; its
\* revision is one below that of a fresh row.
NoRow == [st |-> "absent", attempt |-> 0, rev |-> -1, req |-> NoRequest]

Row == [st      : Status \cup {"absent"},
        attempt : 0 .. MaxAttempt,
        rev     : Nat \cup {-1},
        req     : Requests \cup {NoRequest}]

\* BatchJob::accept, inserted with revision 0.
accept(q) == [st |-> "accepted", attempt |-> 0, rev |-> 0, req |-> q]

\* Mutant: the attempt counter is not checked.
CanBeginSubmission_Unchecked(row) == Actionable(row.st)

\* begin_submission is legal from Accepted and Retryable; the attempt counter
\* is a NonZeroU32 advanced with checked_add, so the last attempt is final.
CanBeginSubmission(row) ==
    /\ Actionable(row.st)
    /\ row.attempt < MaxAttempt

begin_submission(row) ==
    [row EXCEPT !.st = "submitting", !.attempt = row.attempt + 1]

\* What BatchRecognizer::recognize may return.  "invalid" is a success that
\* valid_result or the wire projection rejects.
Outcomes == {"ok", "invalid", "not_accepted_retryable",
             "not_accepted_terminal", "accepted_terminal", "unknown_after_send"}

\* What each outcome says about the provider: the submission was accepted
\* (and paid for), was not, or may have been.
AcceptedBy(out) ==
    CASE out \in {"ok", "invalid", "accepted_terminal"} -> {1}
      [] out \in {"not_accepted_retryable", "not_accepted_terminal"} -> {0}
      [] OTHER -> {0, 1}

\* Mutant: a submission of unknown outcome is offered for retry.
apply_recognition_outcome_Retries(row, out) ==
    [row EXCEPT !.st = CASE out = "ok" -> "completed"
                         [] out \in {"not_accepted_retryable", "unknown_after_send"} -> "retryable"
                         [] OTHER -> "failed"]

\* apply_recognition_outcome: every transition starts from Submitting and
\* keeps the attempt.
apply_recognition_outcome(row, out) ==
    [row EXCEPT !.st =
        CASE out = "ok" -> "completed"
          [] out = "not_accepted_retryable" -> "retryable"
          [] out = "unknown_after_send" -> "outcome_unknown"
          [] OTHER -> "failed"]

\* Mutant: an interrupted submission may be submitted again.
recover_interrupted_submission_Retries(row) ==
    IF row.st = "submitting" THEN [row EXCEPT !.st = "retryable"] ELSE row

\* An interrupted submission found at startup becomes terminally unknown;
\* any other state is left as it is.
recover_interrupted_submission(row) ==
    IF row.st = "submitting" THEN [row EXCEPT !.st = "outcome_unknown"] ELSE row
=============================================================================

---------------------------- MODULE LiveSession -----------------------------
(***************************************************************************)
(* The deterministic live session of voicetext-speech (domain/live.rs):    *)
(* its phases, the frames that await a provider write or an ACK, and what  *)
(* each operation requires.  Constant-level operators over the session     *)
(* record; CanX is the Ok condition of operation X.                        *)
(***************************************************************************)
EXTENDS Integers, FiniteSets

CONSTANTS
    MaxPending,    \* MAX_PENDING_AUDIO_SEQUENCES (256 in the code)
    MaxSequence    \* u64::MAX in the code: the last audio sequence

ASSUME PendingAssumption  == MaxPending \in Nat \ {0}
ASSUME SequenceAssumption == MaxSequence \in Nat \ {0}

Phases == {"awaiting_ready", "streaming", "finalizing", "finalized", "closed", "failed"}

FinalizeStatus == {"flushed", "no_provider", "timeout"}

Session == [phase    : Phases,
            pending  : SUBSET (1 .. MaxSequence),   \* accepted, no ACK sent yet
            written  : SUBSET (1 .. MaxSequence),   \* of these, provider has it
            last     : 0 .. MaxSequence,            \* last sequence assigned
            accepted : BOOLEAN,                     \* any audio ever accepted
            observed : BOOLEAN]                     \* finalize result observed

NewSession == [phase |-> "awaiting_ready", pending |-> {}, written |-> {},
               last |-> 0, accepted |-> FALSE, observed |-> FALSE]

mark_ready(s) == [s EXCEPT !.phase = "streaming"]

\* Mutant: the sequence counter is not checked.
CanAcceptAudio_Unchecked(s) ==
    /\ s.phase = "streaming"
    /\ Cardinality(s.pending) < MaxPending

CanAcceptAudio(s) ==
    /\ s.phase = "streaming"
    /\ Cardinality(s.pending) < MaxPending
    /\ s.last < MaxSequence

accept_audio(s) ==
    [s EXCEPT !.pending  = @ \cup {s.last + 1},
              !.last     = @ + 1,
              !.accepted = TRUE]

CanConfirmWrite(s, n) == s.phase = "streaming" /\ n \in s.pending \ s.written

mark_provider_write_succeeded(s, n) == [s EXCEPT !.written = @ \cup {n}]

CanConfirmAck(s, n) == s.phase = "streaming" /\ n \in s.pending \cap s.written

mark_ack_sent(s, n) == [s EXCEPT !.pending = @ \ {n}, !.written = @ \ {n}]

CanBeginFinalize(s) == s.phase = "streaming" /\ s.pending = {}

begin_finalize(s) == [s EXCEPT !.phase = "finalizing", !.observed = FALSE]

CanObserve(s) == s.phase = "finalizing"

mark_finalize_result_observed(s) == [s EXCEPT !.observed = TRUE]

\* The requested status must agree with the evidence of the session.
CanCompleteFinalize(s, status) ==
    /\ s.phase = "finalizing"
    /\ status = "flushed"     => s.observed
    /\ status = "no_provider" => ~s.accepted /\ ~s.observed

complete_finalize(s) == [s EXCEPT !.phase = "finalized"]

IsOver(s) == s.phase \in {"closed", "failed"}

\* close and fail never rewrite a terminal phase.
close(s) == IF IsOver(s) THEN s ELSE [s EXCEPT !.phase = "closed"]

fail(s) == IF IsOver(s) THEN s ELSE [s EXCEPT !.phase = "failed"]
=============================================================================

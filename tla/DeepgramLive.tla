---------------------------- MODULE DeepgramLive ----------------------------
(***************************************************************************)
(* What the Deepgram live adapter makes of a provider message              *)
(* (deepgram/live_dto.rs).  The provider measures time in fractions of a   *)
(* second; a tick stands for the finest fraction it reports.  The text of  *)
(* a result matters only by whether it is empty.                           *)
(***************************************************************************)
EXTENDS LiveTimeline, Sequences

CONSTANTS
    TicksPerMilli,   \* the provider's resolution
    FinalizeResult   \* LiveRecognitionEvent::FinalizeResultObserved

ASSUME TickAssumption == /\ TicksPerMilli \in Nat \ {0}
                         /\ FinalizeResult \notin Transcript

\* A Results message that passes the checks of its fields.
Results == [start : Nat, duration : Nat, is_final : BOOLEAN, speech_final : BOOLEAN,
            from_finalize : BOOLEAN, text : BOOLEAN]

\* Mutant: always up to the next millisecond.
seconds_to_millis_Up(ticks) == (ticks + TicksPerMilli) \div TicksPerMilli

\* Half a millisecond is added and the fraction cut off.
seconds_to_millis(ticks) == (2 * ticks + TicksPerMilli) \div (2 * TicksPerMilli)

\* Times beyond u64 are malformed.
WellFormed(m) == seconds_to_millis(m.start) <= MaxU64 /\ seconds_to_millis(m.duration) <= MaxU64

stability(m) ==
    IF m.speech_final THEN "utterance_final"
    ELSE IF m.is_final THEN "segment_final" ELSE "partial"

TranscriptOf(m) ==
    [start |-> seconds_to_millis(m.start), duration |-> seconds_to_millis(m.duration),
     stability |-> stability(m)]

\* Mutant: the finalize evidence overtakes the text it came with.
parse_results_MarkerFirst(m) ==
    IF ~m.text /\ m.from_finalize THEN <<FinalizeResult>>
    ELSE IF ~m.text /\ ~m.is_final /\ ~m.speech_final THEN <<>>
    ELSE IF m.from_finalize THEN <<FinalizeResult, TranscriptOf(m)>> ELSE <<TranscriptOf(m)>>

\* The events of a message: the primary one and a follow-up.  A textless
\* answer to a finalize is evidence only; a textless interim result is nothing.
parse_results(m) ==
    IF ~m.text /\ m.from_finalize THEN <<FinalizeResult>>
    ELSE IF ~m.text /\ ~m.is_final /\ ~m.speech_final THEN <<>>
    ELSE <<TranscriptOf(m)>> \o IF m.from_finalize THEN <<FinalizeResult>> ELSE <<>>
=============================================================================

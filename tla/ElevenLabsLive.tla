--------------------------- MODULE ElevenLabsLive ---------------------------
(***************************************************************************)
(* The state an ElevenLabs live adapter keeps between messages             *)
(* (elevenlabs/live_state.rs): a clock synthesized from the audio written, *)
(* suppression of echoed finals, the stable text that a committed          *)
(* transcript must extend, and the finalize marker.                        *)
(*                                                                         *)
(* A text is the sequence of its lexical tokens, a token the sequence of   *)
(* its characters after case folding: punctuation and case, which the      *)
(* adapter ignores, are left out.                                          *)
(***************************************************************************)
EXTENDS LiveTimeline, Sequences

CONSTANTS
    MaxRecent,         \* MAX_RECENT_TEXTS (8 in the code)
    MaxPendingEvents,  \* MAX_PENDING_EVENTS (4 in the code)
    NoEvent,           \* the message produces no event
    FinalizeResult     \* LiveRecognitionEvent::FinalizeResultObserved

ASSUME QueueAssumption == /\ MaxRecent \in Nat \ {0}
                          /\ MaxPendingEvents \in Nat \ {0}
ASSUME EventAssumption == /\ {NoEvent, FinalizeResult} \cap Transcript = {}
                          /\ NoEvent # FinalizeResult

NewLiveState ==
    [bytes            |-> 0,     \* user_audio_bytes
     boundary         |-> 0,     \* accepted_audio_boundary
     segment_end      |-> 0,
     committed_end    |-> 0,
     finalizing       |-> FALSE,
     stable_text      |-> <<>>,
     recent_stable    |-> <<>>,
     recent_committed |-> <<>>,
     pending          |-> <<>>]

Saturated(n) == IF n > MaxU64 THEN MaxU64 ELSE n
Later(a, b) == IF a > b THEN a ELSE b

record_audio(el, bytes) ==
    [el EXCEPT !.bytes = Saturated(@ + bytes), !.boundary = Saturated(@ + 1)]

has_user_audio(el) == el.bytes # 0

begin_finalize_flush(el) == [el EXCEPT !.finalizing = has_user_audio(el)]

cancel_finalize(el) == [el EXCEPT !.finalizing = FALSE]

\* BytesPerSampleFrame is two: every adapter stream is mono.
user_audio_millis(el) == Saturated(el.bytes * Second) \div (SampleRate * BytesPerSampleFrame)

current_segment_start(el) == Later(el.segment_end, el.committed_end)

\* The characters of a text, without the boundaries of its tokens.
normalize(text) ==
    LET chars[n \in 0 .. Len(text)] ==
            IF n = 0 THEN <<>> ELSE chars[n - 1] \o text[n]
    IN  chars[Len(text)]

\* A queue that drops its oldest element when it is full.
PushBounded(queue, x, bound) ==
    Append(IF Len(queue) = bound THEN Tail(queue) ELSE queue, x)

contains_at_boundary(queue, boundary, normalized) ==
    \E i \in 1 .. Len(queue) : queue[i] = <<boundary, normalized>>

remember(queue, boundary, normalized) ==
    PushBounded(queue, <<boundary, normalized>>, MaxRecent)

\* Some(suffix) of the code: committed starts with every token of stable.
ExtendsStable(committed, stable) ==
    /\ stable # <<>>
    /\ Len(stable) <= Len(committed)
    /\ SubSeq(committed, 1, Len(stable)) = stable

transcript_event(start, end, stability) ==
    [start |-> start, duration |-> Later(end - start, 0), stability |-> stability]

-----------------------------------------------------------------------------
(* transcript: the new state and the event a message produces *)

Partial(el, text) ==
    [state |-> el,
     event |-> IF normalize(text) = <<>> THEN NoEvent
               ELSE transcript_event(current_segment_start(el), user_audio_millis(el), "partial")]

\* Mutant: the end of a stable segment is not remembered.
SegmentFinal_KeepsEnd(el, text) ==
    LET start == current_segment_start(el)
        end   == Later(user_audio_millis(el), start)
    IN  IF \/ normalize(text) = <<>>
           \/ contains_at_boundary(el.recent_stable, el.boundary, normalize(text))
        THEN [state |-> el, event |-> NoEvent]
        ELSE [state |-> [el EXCEPT !.recent_stable = remember(@, el.boundary, normalize(text)),
                                   !.stable_text   = @ \o text],
              event |-> transcript_event(start, end, "segment_final")]

SegmentFinal(el, text) ==
    LET start == current_segment_start(el)
        end   == Later(user_audio_millis(el), start)
    IN  IF \/ normalize(text) = <<>>
           \/ contains_at_boundary(el.recent_stable, el.boundary, normalize(text))
        THEN [state |-> el, event |-> NoEvent]
        ELSE [state |-> [el EXCEPT !.segment_end   = end,
                                   !.recent_stable = remember(@, el.boundary, normalize(text)),
                                   !.stable_text   = @ \o text],
              event |-> transcript_event(start, end, "segment_final")]

\* An echo, a commit that adds nothing to the stable text, and a commit that
\* contradicts it are all suppressed.
IsDuplicate(el, text) ==
    \/ normalize(text) = <<>>
    \/ contains_at_boundary(el.recent_committed, el.boundary, normalize(text))
    \/ ExtendsStable(text, el.stable_text) /\ Len(text) = Len(el.stable_text)
    \/ el.stable_text # <<>> /\ ~ExtendsStable(text, el.stable_text)

\* Mutant: a commit always starts where the previous one ended.
CommitStart_Unreconciled(el, text, end) == el.committed_end

\* Only the suffix after the stable text is new; it starts where that ended.
CommitStart(el, text, end) ==
    IF ExtendsStable(text, el.stable_text) /\ Len(text) > Len(el.stable_text)
    THEN IF el.segment_end < el.committed_end THEN el.committed_end
         ELSE IF el.segment_end > end THEN end ELSE el.segment_end
    ELSE el.committed_end

UtteranceFinal(el, text) ==
    LET end   == Later(user_audio_millis(el), el.committed_end)
        event == transcript_event(CommitStart(el, text, end), end, "utterance_final")
        next  == [el EXCEPT
                    !.committed_end    = end,
                    !.segment_end      = end,
                    !.stable_text      = <<>>,
                    !.finalizing       = FALSE,
                    !.recent_committed = IF normalize(text) = <<>> THEN @
                                         ELSE remember(@, el.boundary, normalize(text)),
                    !.pending          = IF el.finalizing /\ ~IsDuplicate(el, text)
                                         THEN PushBounded(@, FinalizeResult, MaxPendingEvents)
                                         ELSE @]
    IN  [state |-> next,
         event |-> IF ~IsDuplicate(el, text) THEN event
                   ELSE IF el.finalizing THEN FinalizeResult ELSE NoEvent]

MessageKinds == {"partial", "segment_final", "utterance_final"}

\* Mutant: a segment final during the drain counts as the finalize result.
apply_Eager(el, kind, text) ==
    CASE kind = "partial" -> Partial(el, text)
      [] kind = "segment_final" ->
            IF el.finalizing
            THEN [state |-> [el EXCEPT !.finalizing = FALSE], event |-> FinalizeResult]
            ELSE SegmentFinal(el, text)
      [] kind = "utterance_final" -> UtteranceFinal(el, text)

apply(el, kind, text) ==
    CASE kind = "partial"         -> Partial(el, text)
      [] kind = "segment_final"   -> SegmentFinal(el, text)
      [] kind = "utterance_final" -> UtteranceFinal(el, text)
=============================================================================

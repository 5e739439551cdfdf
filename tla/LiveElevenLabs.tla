--------------------------- MODULE LiveElevenLabs ---------------------------
(***************************************************************************)
(* A live session of the gateway over the ElevenLabs adapter               *)
(* (elevenlabs/live.rs): every provider step of LiveGateway is taken       *)
(* together with what the adapter does in it.  The provider service is     *)
(* external: it may send any transcript message.  Whether it commits only  *)
(* when asked to, as commit_strategy=manual of build_url requests, or also *)
(* on its own, is fixed for a session and unknown to the gateway.          *)
(***************************************************************************)
EXTENDS LiveGateway, ElevenLabsLive

CONSTANTS
    Texts,         \* the texts the provider may send
    MaxTokens      \* bound: tokens of stable text between two commits

ASSUME TextAssumption == MaxTokens \in Nat /\ Texts \subseteq Seq(Seq(Nat))

VARIABLES
    el,         \* LiveState of the session
    manual,     \* the provider honours commit_strategy=manual
    owed,       \* explicit commits the provider has not answered
    committed   \* history: it has answered one

adapterVars == <<el, manual, owed, committed>>
elVars == <<vars, adapterVars>>

ElInit ==
    /\ Init
    /\ el = NewLiveState
    /\ manual \in BOOLEAN
    /\ owed = FALSE
    /\ committed = FALSE

\* write_audio: bookkeeping only once the send has succeeded.
AdapterWrite ==
    /\ ProviderWriteSucceeds
    /\ el' = record_audio(el, pcm)
    /\ UNCHANGED <<manual, owed, committed>>

\* finalize: an empty commit, and nothing at all without user audio.
AdapterFinalize ==
    /\ ProviderFinalizeSucceeds
    /\ el' = begin_finalize_flush(el)
    /\ owed' = has_user_audio(el)
    /\ UNCHANGED <<manual, committed>>

AdapterFinalizeFails ==
    /\ ProviderFinalizeFails
    /\ el' = cancel_finalize(el)
    /\ owed' \in {owed, has_user_audio(el)}
    /\ UNCHANGED <<manual, committed>>

\* The dropped future leaves the marker as it set it.
AdapterFinalizeCancelled ==
    /\ FinalizeCancelled
    /\ el' \in {el, begin_finalize_flush(el)}
    /\ owed' \in {owed, has_user_audio(el)}
    /\ UNCHANGED <<manual, committed>>

\* What next_event hands to apply_provider_event.
Deliver(ev) ==
    CASE ev = NoEvent        -> Receiving /\ UNCHANGED vars
      [] ev = FinalizeResult -> ProviderFinalizeResult
      [] OTHER               -> ProviderTranscript(ev)

\* next_event_inner: a pending event comes before the next message.
NextPending ==
    /\ el.pending # <<>>
    /\ Deliver(Head(el.pending))
    /\ el' = [el EXCEPT !.pending = Tail(@)]
    /\ UNCHANGED <<manual, owed, committed>>

NextMessage(kind, text) ==
    /\ Receiving
    /\ el.pending = <<>>
    /\ kind = "segment_final" => Len(el.stable_text) + Len(text) <= MaxTokens
    /\ kind = "utterance_final" => owed \/ ~manual
    /\ Deliver(apply(el, kind, text).event)
    /\ el' = apply(el, kind, text).state
    /\ IF kind = "utterance_final" /\ owed
       THEN owed' = FALSE /\ committed' = TRUE
       ELSE UNCHANGED <<owed, committed>>
    /\ UNCHANGED manual

\* The steps of the session in which the adapter changes nothing.  The
\* adapter reports the end of its stream as a failure, never as None.
SessionSteps ==
    \/ Client \/ ProviderFails \/ IdleTimeout \/ SessionTimeout \/ Opening
    \/ ProviderWriteFails \/ WriteCancelled \/ WriteTimeout
    \/ SendPong \/ SendPongFails \/ SendAck \/ SendAckFails
    \/ SendTranscript \/ SendTranscriptFails
    \/ DrainInterrupted \/ DrainTimeout \/ SendVerdict \/ SendVerdictFails
    \/ Ending \/ Done

ElNext ==
    \/ SessionSteps /\ UNCHANGED adapterVars
    \/ AdapterWrite
    \/ AdapterFinalize
    \/ AdapterFinalizeFails
    \/ AdapterFinalizeCancelled
    \/ NextPending
    \/ \E kind \in MessageKinds, text \in Texts : NextMessage(kind, text)

ElSpec == ElInit /\ [][ElNext]_elVars

-----------------------------------------------------------------------------
(* Properties *)

\* The coordinator's timing policy accepts every transcript the adapter
\* synthesizes: the two clocks agree, and the start of a final is never
\* before the end of the final that precedes it, whatever mixture of
\* partial, stable and committed messages the provider sends
\* (live_state.rs transcript against live_timeline.rs validate_transcript).
TimelineAgrees ==
    Receiving =>
        \A kind \in MessageKinds, text \in Texts :
            LET ev == apply(el, kind, text).event
            IN  ev \notin {NoEvent, FinalizeResult} => ValidTranscript(timeline, ev)

\* A finalize marker never reaches a session that is not finalizing, where
\* it would end the session with an error.
MarkerInPhase ==
    el.finalizing \/ el.pending # <<>> => sess.phase # "streaming"

\* "flushed" is told to the client only when the provider has answered the
\* explicit commit: with a provider that honours the manual strategy no
\* earlier transcript can pass for the flush.
FlushedIsCommitted ==
    manual /\ wire.verdict = "flushed" => committed

\* What makes TimelineAgrees hold from step to step: the positions the
\* adapter remembers are ordered, within the audio written, and not behind
\* the last final the coordinator has accepted.
ClockInv ==
    /\ el.committed_end <= el.segment_end
    /\ el.segment_end <= user_audio_millis(el)
    /\ user_audio_millis(el) <= timeline.horizon
    /\ timeline.last_final <= el.segment_end
    /\ el.stable_text = <<>> => timeline.last_final <= el.committed_end

\* The adapter's finalize marker is the answer to the finalize that the
\* session has begun, never to a commit that was on its way before
\* (LiveState::apply).
MarkerMeansFlush == MarkerInPhase /\ FlushedIsCommitted
=============================================================================

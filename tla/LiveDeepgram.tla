---------------------------- MODULE LiveDeepgram ----------------------------
(***************************************************************************)
(* A live session of the gateway over the Deepgram adapter                 *)
(* (deepgram/live.rs).  next_event_inner runs inside one poll of the       *)
(* session's select!: as long as the socket has messages it reads on, and  *)
(* no other branch is polled until it returns, finds the socket empty, or  *)
(* yields after MaxIgnored messages without an event.                      *)
(*                                                                         *)
(* The provider is external and honest: its finals cover audio it has      *)
(* received, one after the other, and it answers a finalize only when      *)
(* asked.  It may also send any number of messages that mean nothing.      *)
(***************************************************************************)
EXTENDS LiveGateway, DeepgramLive, Sequences

CONSTANTS
    Ticks,        \* the times the provider reports
    MaxIgnored    \* MAX_IGNORED_MESSAGES_BEFORE_YIELD

ASSUME TicksAssumption   == Ticks \subseteq Nat
ASSUME IgnoredAssumption == MaxIgnored \in Nat \ {0}
\* Rounding start and duration apart can move an end by a millisecond.
ASSUME LeadAssumption    == Lead >= 1

VARIABLES
    pending,   \* ReadState.pending
    polling,   \* next_event_inner is running
    ignored,   \* its messages without an event
    spoken,    \* history: end of the provider's last final, in ticks
    flush      \* history: the text the provider sent with its finalize answer

readVars == <<pending, polling, ignored>>
providerVars == <<spoken, flush>>
dgVars == <<vars, readVars, providerVars>>

DgInit ==
    /\ Init
    /\ pending = <<>>
    /\ polling = FALSE
    /\ ignored = 0
    /\ spoken = 0
    /\ flush = NoTranscript

\* select! polls the provider branch.
Poll ==
    /\ Receiving
    /\ ~polling
    /\ polling' = TRUE
    /\ UNCHANGED <<vars, pending, ignored, providerVars>>

\* The future of next_event is done or dropped; its locals go.
PollEnds == polling' = FALSE /\ ignored' = 0

Deliver(ev) == IF ev = FinalizeResult THEN ProviderFinalizeResult ELSE ProviderTranscript(ev)

NextPending ==
    /\ polling
    /\ pending # <<>>
    /\ Deliver(Head(pending))
    /\ pending' = Tail(pending)
    /\ PollEnds
    /\ UNCHANGED providerVars

\* What the provider has heard, in ticks.
HeardTicks == (upstream.samples * Second * TicksPerMilli) \div SampleRate

Honest(m) ==
    /\ m.start + m.duration <= HeardTicks
    /\ m.is_final \/ m.speech_final => m.start >= spoken
    /\ m.from_finalize => upstream.asked /\ ~upstream.answered

NextResults(m) ==
    /\ polling
    /\ pending = <<>>
    /\ Honest(m)
    /\ WellFormed(m)
    /\ parse_results(m) # <<>>
    /\ Deliver(Head(parse_results(m)))
    /\ pending' = Tail(parse_results(m))
    /\ PollEnds
    /\ spoken' = IF m.is_final \/ m.speech_final THEN m.start + m.duration ELSE spoken
    /\ flush' = IF m.from_finalize /\ m.text THEN TranscriptOf(m) ELSE flush

NextUtteranceEnd(t) ==
    /\ polling
    /\ pending = <<>>
    /\ t <= HeardTicks
    /\ ProviderUtteranceEnd(seconds_to_millis(t))
    /\ PollEnds
    /\ UNCHANGED <<pending, providerVars>>

\* A malformed, binary or oversized message, a terminal error, a read error.
NextFails ==
    /\ polling
    /\ pending = <<>>
    /\ ProviderFails
    /\ PollEnds
    /\ UNCHANGED <<pending, providerVars>>

\* A close frame or the end of the stream is Ok(None).
NextNone ==
    /\ polling
    /\ pending = <<>>
    /\ ProviderCloses \/ DrainEnds
    /\ PollEnds
    /\ UNCHANGED <<pending, providerVars>>

\* Mutant: the loop never yields.
NextIgnored_Spins ==
    /\ polling
    /\ pending = <<>>
    /\ ignored' = (ignored + 1) % MaxIgnored
    /\ UNCHANGED <<vars, pending, polling, providerVars>>

\* A control message, metadata, an empty interim result, an unknown type.
NextIgnored ==
    /\ polling
    /\ pending = <<>>
    /\ IF ignored + 1 = MaxIgnored
       THEN PollEnds
       ELSE ignored' = ignored + 1 /\ UNCHANGED polling
    /\ UNCHANGED <<vars, pending, providerVars>>

\* No message is ready: the other branches are polled.
SocketEmpty ==
    /\ polling
    /\ pending = <<>>
    /\ PollEnds
    /\ UNCHANGED <<vars, pending, providerVars>>

\* The other branches of the session.  write_audio, finalize and close are
\* one bounded send each and leave the read state alone.
OtherBranches ==
    /\ ~polling
    /\ \/ Client \/ IdleTimeout \/ SessionTimeout \/ Opening
       \/ Writing \/ SendTranscript \/ SendTranscriptFails
       \/ ProviderFinalizeSucceeds \/ ProviderFinalizeFails \/ FinalizeCancelled
       \/ DrainInterrupted \/ DrainTimeout \/ SendVerdict \/ SendVerdictFails
       \/ Ending \/ Done
    /\ UNCHANGED <<readVars, providerVars>>

ReadStep ==
    \/ NextPending
    \/ \E m \in [start : Ticks, duration : Ticks, is_final : BOOLEAN,
                 speech_final : BOOLEAN, from_finalize : BOOLEAN, text : BOOLEAN] :
            NextResults(m)
    \/ \E t \in Ticks : NextUtteranceEnd(t)
    \/ NextFails \/ NextNone \/ NextIgnored \/ SocketEmpty

DgNext == Poll \/ ReadStep \/ OtherBranches

DgSpec == DgInit /\ [][DgNext]_dgVars

\* A running future is run on; the session's own fairness is that of
\* LiveGateway, for the steps the session gets to while the provider branch
\* is not running.  Nothing makes the provider's socket run dry.
DgFairSpec ==
    /\ DgSpec
    /\ WF_dgVars(ReadStep)
    /\ WF_dgVars(~polling /\ Bounded /\ UNCHANGED <<readVars, providerVars>>)
    /\ SF_dgVars(~polling /\ SessionTimeout /\ UNCHANGED <<readVars, providerVars>>)
    /\ SF_dgVars(~polling /\ WriteTimeout /\ UNCHANGED <<readVars, providerVars>>)
    /\ SF_dgVars(~polling /\ DrainTimeout /\ UNCHANGED <<readVars, providerVars>>)

-----------------------------------------------------------------------------
(* Properties *)

\* "flushed" is told only after the text the provider sent with its finalize
\* answer has been sent to the client (parse_results puts the evidence behind
\* the text, ReadState.pending keeps it there).
FlushIncludesText ==
    (wire.verdict = "flushed" /\ flush # NoTranscript) =>
        /\ pending = <<>>
        /\ wire.end >= End(flush)

\* The coordinator's timing policy never refuses a final of an honest provider
\* for its distance from the audio, and for an overlap with the final before
\* it only when the two overlap by the one millisecond that rounding start and
\* duration apart can make (parse_results against validate_transcript).
HonestFinalsFit ==
    Receiving /\ pending = <<>> =>
        \A start, duration \in Ticks :
            LET m  == [start |-> start, duration |-> duration, is_final |-> TRUE,
                       speech_final |-> FALSE, from_finalize |-> FALSE, text |-> TRUE]
                tr == TranscriptOf(m)
            IN  Honest(m) => /\ WithinHorizon(timeline, End(tr))
                             /\ tr.start + 1 >= timeline.last_final

\* The session ends even when the provider floods it with messages that mean
\* nothing (the yield of next_event_inner).
DgSessionEnds == <>(pc = "done")
=============================================================================

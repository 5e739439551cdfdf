---------------------------- MODULE LiveObserved ----------------------------
(***************************************************************************)
(* A live session with the optional qualification record                   *)
(* (qualification_observation.rs, run in server/live.rs): a tracker beside *)
(* the session notes frames, writes, ACKs and provider events as they      *)
(* happen, and one record is made of it before the provider's session is   *)
(* closed.  Every step of LiveGateway is taken with what it notes.         *)
(*                                                                         *)
(* A digest is the sequence that goes into the hash.  The k-th frame that  *)
(* decodes has raw payload k, so two frames never look alike.  Error codes *)
(* are one status; whether the file sink keeps the record is a choice      *)
(* (ObservationSink models it).                                            *)
(***************************************************************************)
EXTENDS LiveGateway, Sequences

CONSTANT MaxEvents     \* bound of the model: provider events of a session

ASSUME EventsAssumption == MaxEvents \in Nat

VARIABLES
    obs,       \* LiveObservationTracker
    status,    \* the terminal status stream returns
    record,    \* the record that was made
    told       \* ghost: transcripts the client received, in order

obsVars == <<obs, status, record, told>>
allVars == <<vars, obsVars>>

\* What provider_event hashes: kind and times; text and confidence go with them.
Observed(kind, tr) ==
    [kind |-> kind, start |-> tr.start, duration |-> tr.duration, stability |-> tr.stability]

AnyTranscript == [start |-> 0, duration |-> 0, stability |-> "partial"]

-----------------------------------------------------------------------------
(* SequenceTracker *)

NewSequence == [count |-> 0, first |-> 0, last |-> 0, contiguous |-> FALSE]

push(s, value) ==
    [count      |-> s.count + 1,
     first      |-> IF s.count = 0 THEN value ELSE s.first,
     last       |-> value,
     contiguous |-> s.count = 0 \/ (s.contiguous /\ s.last + 1 = value)]

finish_sequence(s) == [s EXCEPT !.contiguous = s.count = 0 \/ @]

-----------------------------------------------------------------------------
(* LiveObservationTracker *)

NewTracker ==
    [accepted |-> 0, written |-> NewSequence, acked |-> NewSequence,
     frames |-> <<>>, results |-> <<>>, finalize |-> FALSE]

accept_frame(t) == [t EXCEPT !.accepted = @ + 1]

provider_written(t, sequence) == [t EXCEPT !.written = push(@, sequence)]

ack_sent(t, sequence, raw) ==
    [t EXCEPT !.acked = push(@, sequence), !.frames = Append(@, <<sequence, raw>>)]

provider_event(t, ev) ==
    [t EXCEPT !.results = Append(@, ev), !.finalize = @ \/ ev.kind = "finalize_result"]

NoRecord == [made |-> FALSE, status |-> "none", accepted |-> 0, written |-> NewSequence,
             acked |-> NewSequence, frames |-> <<>>, results |-> <<>>, finalize |-> FALSE]

finish(t, terminal) ==
    [made |-> TRUE, status |-> terminal, accepted |-> t.accepted,
     written |-> finish_sequence(t.written), acked |-> finish_sequence(t.acked),
     frames |-> t.frames, results |-> t.results, finalize |-> t.finalize]

-----------------------------------------------------------------------------
ObsInit == Init /\ obs = NewTracker /\ status = "none" /\ record = NoRecord /\ told = <<>>

\* Steps that note nothing and do not end stream.
Unobserved ==
    /\ \/ ReceiveConfig \/ OpenSucceeds \/ OpenFails \/ SendReady
       \/ ClientRejected \/ ClientPing \/ ClientFinalize \/ IdleTimeout \/ SessionTimeout
       \/ ProviderWriteFails \/ WriteCancelled \/ WriteTimeout \/ SendPong \/ SendPongFails
       \/ SendAckFails \/ ProviderCloses
       \/ ProviderFinalizeSucceeds \/ ProviderFinalizeFails \/ FinalizeCancelled
       \/ DrainInterrupted \/ DrainEnds \/ DrainTimeout \/ SendVerdictFails
       \/ CloseSocket
    /\ UNCHANGED obsVars

\* A frame that decodes counts as accepted before the coordinator sees it.
ObservedAudio(bytes) ==
    /\ ClientAudio(bytes)
    /\ obs' = accept_frame(obs)
    /\ UNCHANGED <<status, record, told>>

ObservedWrite ==
    /\ ProviderWriteSucceeds
    /\ obs' = IF pc' = "ack" THEN provider_written(obs, sess.last) ELSE obs
    /\ UNCHANGED <<status, record, told>>

ObservedAck ==
    /\ SendAck
    /\ obs' = IF pc' = "select" THEN ack_sent(obs, sess.last, obs.accepted) ELSE obs
    /\ UNCHANGED <<status, record, told>>

\* Mutant: the drain's loop does not note its events.
Note_StreamOnly(ev) ==
    /\ Len(obs.results) < MaxEvents
    /\ obs' = IF pc = "select" THEN provider_event(obs, ev) ELSE obs
    /\ UNCHANGED <<status, record, told>>

\* An event is noted in both loops, before the coordinator judges it.
Note(ev) ==
    /\ Len(obs.results) < MaxEvents
    /\ obs' = provider_event(obs, ev)
    /\ UNCHANGED <<status, record, told>>

ObservedEvent ==
    \/ \E tr \in [start : ProviderTimes, duration : ProviderTimes, stability : Stability] :
        ProviderTranscript(tr) /\ Note(Observed("transcript", tr))
    \/ \E end \in ProviderTimes :
        /\ ProviderUtteranceEnd(end)
        /\ Note(Observed("utterance_end", [AnyTranscript EXCEPT !.start = end]))
    \/ ProviderFinalizeResult /\ Note(Observed("finalize_result", AnyTranscript))

\* A failure is no event; a transcript with unusable text is one.
ObservedFailure ==
    /\ ProviderFails
    /\ \/ UNCHANGED obsVars
       \/ Note(Observed("transcript", AnyTranscript))

ObservedSend ==
    /\ SendTranscript \/ SendTranscriptFails
    /\ told' = IF wire' = Told(event) THEN Append(told, Observed("transcript", event)) ELSE told
    /\ UNCHANGED <<obs, status, record>>

\* The steps that decide the terminal status.
Terminal ==
    /\ \/ SendReadyFails /\ status' = "ready_delivery_failed"
       \/ ClientClose /\ status' = "client_close"
       \/ SendVerdict /\ status' = Requested
       \/ SendError /\ status' = "error"
    /\ UNCHANGED <<obs, record, told>>

\* Between the end of stream and close_coordinator; the sink is bounded by
\* its own timeout and its failure is only counted.
Observe ==
    /\ pc = "closing" /\ ~record.made
    /\ record' = finish(obs, status)
    /\ UNCHANGED <<vars, obs, status, told>>

CloseAfterRecord == record.made /\ CloseCoordinator /\ UNCHANGED obsVars

ObsDone == Done /\ UNCHANGED obsVars

\* Where stream and run await something with a timeout of its own.
Awaits == {"config", "open", "ready", "pong", "ack", "send", "begin", "complete",
           "fail", "closing", "socket"}

ObsNext ==
    \/ Unobserved
    \/ \E bytes \in PcmLengths : ObservedAudio(bytes)
    \/ ObservedWrite \/ ObservedAck \/ ObservedEvent \/ ObservedFailure \/ ObservedSend
    \/ Terminal \/ Observe \/ CloseAfterRecord \/ ObsDone

ObsSpec == ObsInit /\ [][ObsNext]_allVars

\* The fairness of LiveGateway for the steps with what they note; observe is
\* bounded by the sink's own timeout.
ObsFairSpec ==
    /\ ObsSpec
    /\ WF_allVars(pc \in Awaits /\ ObsNext)
    /\ SF_allVars(SessionTimeout /\ UNCHANGED obsVars)
    /\ SF_allVars(WriteTimeout /\ UNCHANGED obsVars)
    /\ SF_allVars(DrainTimeout /\ UNCHANGED obsVars)

-----------------------------------------------------------------------------
(* Properties *)

\* The record claims no more than happened: what it lists as written reached
\* the provider whole, what it lists as acknowledged reached the client, both
\* without a gap from the first frame on, and the digest pairs each sequence
\* with the payload it acknowledged (provider_written, ack_sent).
RecordClaimsNoMore ==
    /\ \A s \in {obs.written, obs.acked} :
        s.count > 0 => s.contiguous /\ s.first = 1 /\ s.last = s.count
    /\ obs.written.count <= upstream.heard /\ obs.written.count <= obs.accepted
    /\ obs.acked.count <= wire.acks /\ obs.acked.count <= obs.written.count
    /\ \A i \in 1 .. Len(obs.frames) : obs.frames[i] = <<i, i>>

\* The record of a session that gave the client a verdict is complete, and its
\* flag and status are that verdict: every frame it accepted was written and
\* acknowledged, and a finalize result is claimed exactly when the verdict is
\* flushed (finalize, LiveObservationTracker::finish).
RecordCarriesVerdict ==
    record.made /\ record.status \in FinalizeStatus =>
        /\ record.status = wire.verdict
        /\ record.finalize = (record.status = "flushed")
        /\ record.finalize => upstream.answered
        /\ record.accepted = upstream.heard
        /\ record.written.count = upstream.heard /\ record.acked.count = wire.acks
        /\ wire.acks = upstream.heard

\* The transcripts among the first n events of the digest.
Transcripts(n) == {k \in 1 .. n : obs.results[k].kind = "transcript"}

\* Every transcript the client received, in the loop or in the drain, went
\* into the result digest in the same order: the i-th one received is the i-th
\* one digested (provider_event).
ToldIsDigested ==
    \A i \in 1 .. Len(told) :
        \E n \in 1 .. Len(obs.results) :
            n \in Transcripts(n) /\ Cardinality(Transcripts(n)) = i /\ obs.results[n] = told[i]

\* The session's record is true and complete: it claims nothing that did not
\* happen, carries the verdict the client was given, and digests every
\* transcript the client received (LiveObservationTracker).
RecordHonest == RecordClaimsNoMore /\ RecordCarriesVerdict /\ ToldIsDigested
=============================================================================

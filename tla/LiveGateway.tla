---------------------------- MODULE LiveGateway -----------------------------
(***************************************************************************)
(* One live WebSocket session of the gateway (server/live.rs) over the     *)
(* coordinator of voicetext-speech (application/live.rs): configuration,   *)
(* the provider connection, the loop that races client frames against      *)
(* provider events and timers, the finalize drain and both closures.       *)
(*                                                                         *)
(* The session is one task; its pc names the await it is at.  A step is    *)
(* what happens up to the next await.  The client and the provider are     *)
(* external and may do anything the transport can observe: `wire' is what  *)
(* the client has received, `upstream' what the provider has.  A send to   *)
(* the client that fails or times out may still arrive, because the socket *)
(* keeps a buffered message for its next flush.  Error codes, transcript   *)
(* text and the optional qualification record are left out.                *)
(***************************************************************************)
EXTENDS LiveSession, LiveTimeline

CONSTANTS
    PcmLengths,      \* byte lengths a client audio frame can decode to
    ProviderTimes,   \* the times a provider reports, in milliseconds
    NoTranscript     \* no transcript is being sent

ASSUME InputAssumption == /\ PcmLengths \subseteq Nat
                          /\ ProviderTimes \subseteq Millis
                          /\ NoTranscript \notin Transcript

VARIABLES
    pc, back,        \* the current await, and where a nested send returns to
    sess, timeline,  \* LiveCoordinator: domain session and timing policy
    pcm,             \* bytes of the frame being written
    event,           \* the transcript being sent
    accepted_audio,  \* locals of stream and finalize
    saw_result,
    successful,      \* what stream returned: close normally?
    wire, upstream

vars == <<pc, back, sess, timeline, pcm, event, accepted_audio, saw_result,
          successful, wire, upstream>>

Pc == {"config", "open", "ready", "select", "write", "ack", "pong", "send",
       "begin", "drain", "complete", "fail", "closing", "socket", "done"}

Wire == [ready   : BOOLEAN,
         acks    : 0 .. MaxSequence,
         verdict : FinalizeStatus \cup {"none"},
         error   : BOOLEAN,
         close   : {"open", "normal", "abnormal", "dropped"},
         end     : Millis,               \* latest transcript end received
         final   : [start : Millis, end : Millis]]

Upstream == [open     : BOOLEAN,
             heard    : 0 .. MaxSequence, \* complete frames it received
             samples  : Millis,           \* the audio in them
             spoiled  : BOOLEAN,          \* an operation failed or was cut
             asked    : BOOLEAN,          \* it got the finalize request
             answered : BOOLEAN]          \* and produced a finalize result

TypeOK ==
    /\ pc \in Pc
    /\ back \in {"select", "write", "drain"}
    /\ sess \in Session
    /\ timeline \in Timeline
    /\ pcm \in PcmLengths \cup {0}
    /\ event \in Transcript \cup {NoTranscript}
    /\ accepted_audio \in BOOLEAN
    /\ saw_result \in BOOLEAN
    /\ successful \in BOOLEAN
    /\ wire \in Wire
    /\ upstream \in Upstream

Init ==
    /\ pc = "config"
    /\ back = "select"
    /\ sess = NewSession
    /\ timeline = NewTimeline
    /\ pcm = 0
    /\ event = NoTranscript
    /\ accepted_audio = FALSE
    /\ saw_result = FALSE
    /\ successful = FALSE
    /\ wire = [ready |-> FALSE, acks |-> 0, verdict |-> "none", error |-> FALSE,
               close |-> "open", end |-> 0, final |-> [start |-> 0, end |-> 0]]
    /\ upstream = [open |-> FALSE, heard |-> 0, samples |-> 0, spoiled |-> FALSE,
                   asked |-> FALSE, answered |-> FALSE]

coordinator == <<sess, timeline>>
locals == <<accepted_audio, saw_result, successful>>

-----------------------------------------------------------------------------
(* prepare_session and the ready message *)

\* receive_config, the profile, the decoder and the capabilities.
ReceiveConfig ==
    /\ pc = "config"
    /\ pc' \in {"open", "fail"}
    /\ UNCHANGED <<back, coordinator, pcm, event, locals, wire, upstream>>

\* LiveCoordinator::open under PROVIDER_CONNECT_TIMEOUT.
OpenSucceeds ==
    /\ pc = "open"
    /\ sess' = mark_ready(NewSession)
    /\ upstream' = [upstream EXCEPT !.open = TRUE]
    /\ pc' = "ready"
    /\ UNCHANGED <<back, timeline, pcm, event, locals, wire>>

OpenFails ==
    /\ pc = "open"
    /\ pc' = "fail"
    /\ UNCHANGED <<back, coordinator, pcm, event, locals, wire, upstream>>

SendReady ==
    /\ pc = "ready"
    /\ wire' = [wire EXCEPT !.ready = TRUE]
    /\ pc' = "select"
    /\ UNCHANGED <<back, coordinator, pcm, event, locals, upstream>>

\* A ready message that fails to go out ends the session without an error
\* message.
SendReadyFails ==
    /\ pc = "ready"
    /\ \E arrived \in BOOLEAN : wire' = [wire EXCEPT !.ready = arrived]
    /\ pc' = "closing"
    /\ UNCHANGED <<back, coordinator, pcm, event, locals, upstream>>

-----------------------------------------------------------------------------
(* stream: a client frame won the race *)

\* A binary frame that decodes: provider_write checks it against the
\* timeline, the session assigns its sequence, and the write starts.
ClientAudio(bytes) ==
    /\ pc = "select"
    /\ IF CanPrepareAudioWrite(timeline, bytes) /\ CanAcceptAudio(sess)
       THEN /\ sess' = accept_audio(sess)
            /\ pcm' = bytes
            /\ pc' = "write"
       ELSE /\ pc' = "fail"
            /\ UNCHANGED <<sess, pcm>>
    /\ UNCHANGED <<back, timeline, event, locals, wire, upstream>>

\* A frame that is empty, too large or does not decode, an unknown command,
\* the end of the client's stream.
ClientRejected ==
    /\ pc = "select"
    /\ pc' = "fail"
    /\ UNCHANGED <<back, coordinator, pcm, event, locals, wire, upstream>>

\* The close command or a close frame: no error message is sent.
ClientClose ==
    /\ pc = "select"
    /\ pc' = "closing"
    /\ UNCHANGED <<back, coordinator, pcm, event, locals, wire, upstream>>

\* Pings are answered in the loop and while a frame is being written.
ClientPing ==
    /\ pc \in {"select", "write"}
    /\ back' = pc
    /\ pc' = "pong"
    /\ UNCHANGED <<coordinator, pcm, event, locals, wire, upstream>>

\* The finalize command: coordinator.begin_finalize up to the provider call.
ClientFinalize ==
    /\ pc = "select"
    /\ IF CanBeginFinalize(sess)
       THEN /\ sess' = begin_finalize(sess)
            /\ pc' = "begin"
       ELSE /\ pc' = "fail"
            /\ UNCHANGED sess
    /\ UNCHANGED <<back, timeline, pcm, event, locals, wire, upstream>>

IdleTimeout ==
    /\ pc = "select"
    /\ pc' = "fail"
    /\ UNCHANGED <<back, coordinator, pcm, event, locals, wire, upstream>>

\* Mutant: the lifetime of a session is extended by activity.
SessionTimeout_Extended == FALSE /\ IdleTimeout

\* The absolute deadline of the session, LIVE_SESSION_TIMEOUT.
SessionTimeout ==
    /\ pc = "select"
    /\ pc' = "fail"
    /\ UNCHANGED <<back, coordinator, pcm, event, locals, wire, upstream>>

SendPong ==
    /\ pc = "pong"
    /\ pc' = back
    /\ UNCHANGED <<back, coordinator, pcm, event, locals, wire, upstream>>

-----------------------------------------------------------------------------
(* write_audio_or_cancel and the ACK *)

\* The provider has the whole frame.
FrameHeard == [upstream EXCEPT !.heard = @ + 1,
                               !.samples = @ + pcm \div BytesPerSampleFrame]

\* A write that fails or is abandoned may have delivered the frame, a part
\* of it or nothing.
WriteCut == \E u \in {upstream, FrameHeard} : upstream' = [u EXCEPT !.spoiled = TRUE]

ProviderWriteSucceeds ==
    /\ pc = "write"
    /\ upstream' = FrameHeard
    /\ timeline' = commit_audio_write(timeline, pcm)
    /\ IF CanConfirmWrite(sess, sess.last)
       THEN /\ sess' = mark_provider_write_succeeded(sess, sess.last)
            /\ pc' = "ack"
       ELSE /\ pc' = "fail"
            /\ UNCHANGED sess
    /\ pcm' = 0
    /\ UNCHANGED <<back, event, locals, wire>>

ProviderWriteFails ==
    /\ pc = "write"
    /\ WriteCut
    /\ sess' = fail(sess)
    /\ pc' = "fail"
    /\ pcm' = 0
    /\ UNCHANGED <<back, timeline, event, locals, wire>>

\* Mutant: after a cancelled write the loop goes on.
WriteCancelled_Resumes ==
    /\ pc = "write"
    /\ WriteCut
    /\ pc' = "select"
    /\ pcm' = 0
    /\ UNCHANGED <<back, coordinator, event, locals, wire>>

\* The client left or sent another frame while the write was pending: the
\* write future is dropped, so the session keeps its pending frame.
WriteCancelled ==
    /\ pc = "write"
    /\ WriteCut
    /\ pc' = "fail"
    /\ pcm' = 0
    /\ UNCHANGED <<back, coordinator, event, locals, wire>>

\* PROVIDER_WRITE_TIMEOUT, one deadline for the whole loop.
WriteTimeout ==
    /\ pc = "write"
    /\ WriteCut
    /\ pc' = "fail"
    /\ pcm' = 0
    /\ UNCHANGED <<back, coordinator, event, locals, wire>>

SendPongFails ==
    /\ pc = "pong"
    /\ IF back = "write" THEN WriteCut ELSE UNCHANGED upstream
    /\ pc' = "fail"
    /\ pcm' = 0
    /\ UNCHANGED <<back, coordinator, event, locals, wire>>

SendAck ==
    /\ pc = "ack"
    /\ wire' = [wire EXCEPT !.acks = sess.last]
    /\ IF CanConfirmAck(sess, sess.last)
       THEN /\ sess' = mark_ack_sent(sess, sess.last)
            /\ accepted_audio' = TRUE
            /\ pc' = "select"
       ELSE /\ pc' = "fail"
            /\ UNCHANGED <<sess, accepted_audio>>
    /\ UNCHANGED <<back, timeline, pcm, event, saw_result, successful, upstream>>

SendAckFails ==
    /\ pc = "ack"
    /\ \E arrived \in BOOLEAN :
        wire' = IF arrived THEN [wire EXCEPT !.acks = sess.last] ELSE wire
    /\ pc' = "fail"
    /\ UNCHANGED <<back, coordinator, pcm, event, locals, upstream>>

-----------------------------------------------------------------------------
(* apply_provider_event, in the loop or in the finalize drain *)

Receiving == pc \in {"select", "drain"}

ProviderTranscript(tr) ==
    /\ Receiving
    /\ IF ValidTranscript(timeline, tr)
       THEN /\ timeline' = accept_transcript(timeline, tr)
            /\ event' = tr
            /\ back' = pc
            /\ pc' = "send"
            /\ UNCHANGED sess
       ELSE /\ sess' = fail(sess)
            /\ pc' = "fail"
            /\ UNCHANGED <<timeline, event, back>>
    /\ UNCHANGED <<pcm, locals, wire, upstream>>

\* Checked against the horizon; nothing is sent for it.
ProviderUtteranceEnd(end) ==
    /\ Receiving
    /\ IF WithinHorizon(timeline, end)
       THEN UNCHANGED <<sess, pc>>
       ELSE sess' = fail(sess) /\ pc' = "fail"
    /\ UNCHANGED <<back, timeline, pcm, event, locals, wire, upstream>>

\* FinalizeResultObserved: evidence in the drain, an error before it.
ProviderFinalizeResult ==
    /\ Receiving
    /\ IF CanObserve(sess)
       THEN /\ sess' = mark_finalize_result_observed(sess)
            /\ saw_result' = TRUE
            /\ upstream' = [upstream EXCEPT !.answered = TRUE]
            /\ UNCHANGED pc
       ELSE /\ sess' = fail(sess)
            /\ pc' = "fail"
            /\ UNCHANGED <<saw_result, upstream>>
    /\ UNCHANGED <<back, timeline, pcm, event, accepted_audio, successful, wire>>

\* The provider reports a failure, or a transcript whose text or confidence
\* is out of bounds.
ProviderFails ==
    /\ Receiving
    /\ sess' = fail(sess)
    /\ pc' = "fail"
    /\ UNCHANGED <<back, timeline, pcm, event, locals, wire, upstream>>

\* The provider's stream ends while the client still streams.
ProviderCloses ==
    /\ pc = "select"
    /\ pc' = "fail"
    /\ UNCHANGED <<back, coordinator, pcm, event, locals, wire, upstream>>

\* The client receives a transcript.
Told(tr) ==
    [wire EXCEPT !.end = IF End(tr) > @ THEN End(tr) ELSE @,
                 !.final = IF IsFinal(tr) THEN [start |-> tr.start, end |-> End(tr)] ELSE @]

SendTranscript ==
    /\ pc = "send"
    /\ wire' = Told(event)
    /\ event' = NoTranscript
    /\ pc' = back
    /\ UNCHANGED <<back, coordinator, pcm, locals, upstream>>

SendTranscriptFails ==
    /\ pc = "send"
    /\ \E arrived \in BOOLEAN : wire' = IF arrived THEN Told(event) ELSE wire
    /\ event' = NoTranscript
    /\ pc' = "fail"
    /\ UNCHANGED <<back, coordinator, pcm, locals, upstream>>

-----------------------------------------------------------------------------
(* finalize *)

ProviderFinalizeSucceeds ==
    /\ pc = "begin"
    /\ upstream' = [upstream EXCEPT !.asked = TRUE]
    /\ pc' = "drain"
    /\ UNCHANGED <<back, coordinator, pcm, event, locals, wire>>

RequestCut == \E b \in BOOLEAN :
    upstream' = [upstream EXCEPT !.asked = b, !.spoiled = TRUE]

ProviderFinalizeFails ==
    /\ pc = "begin"
    /\ RequestCut
    /\ sess' = fail(sess)
    /\ pc' = "fail"
    /\ UNCHANGED <<back, timeline, pcm, event, locals, wire>>

\* Any client frame, the end of its stream, or the deadline.
FinalizeCancelled ==
    /\ pc = "begin"
    /\ RequestCut
    /\ pc' = "fail"
    /\ UNCHANGED <<back, coordinator, pcm, event, locals, wire>>

\* Any client frame, a ping included, ends the drain with an error.
DrainInterrupted ==
    /\ pc = "drain"
    /\ pc' = "fail"
    /\ UNCHANGED <<back, coordinator, pcm, event, locals, wire, upstream>>

Requested == IF saw_result THEN "flushed"
             ELSE IF accepted_audio THEN "timeout" ELSE "no_provider"

\* complete_finalize with the status the drain asks for.
CompleteFinalize ==
    /\ IF CanCompleteFinalize(sess, Requested)
       THEN sess' = complete_finalize(sess) /\ pc' = "complete"
       ELSE pc' = "fail" /\ UNCHANGED sess
    /\ UNCHANGED <<back, timeline, pcm, event, locals, wire, upstream>>

\* The provider's stream ends during the drain.
DrainEnds == pc = "drain" /\ CompleteFinalize

\* FINALIZE_QUIESCENCE after a result, the finalize deadline otherwise.
DrainTimeout == pc = "drain" /\ CompleteFinalize

SendVerdict ==
    /\ pc = "complete"
    /\ wire' = [wire EXCEPT !.verdict = Requested]
    /\ successful' = (Requested \in {"flushed", "no_provider"})
    /\ pc' = "closing"
    /\ UNCHANGED <<back, coordinator, pcm, event, accepted_audio, saw_result, upstream>>

SendVerdictFails ==
    /\ pc = "complete"
    /\ \E arrived \in BOOLEAN :
        wire' = IF arrived THEN [wire EXCEPT !.verdict = Requested] ELSE wire
    /\ pc' = "fail"
    /\ UNCHANGED <<back, coordinator, pcm, event, locals, upstream>>

-----------------------------------------------------------------------------
(* The end of run *)

\* fail_socket; its own failure is ignored.
SendError ==
    /\ pc = "fail"
    /\ \E arrived \in BOOLEAN : wire' = [wire EXCEPT !.error = arrived]
    /\ pc' = IF upstream.open THEN "closing" ELSE "socket"
    /\ UNCHANGED <<back, coordinator, pcm, event, locals, upstream>>

\* close_coordinator: a close that times out leaves the session as it was.
CloseCoordinator ==
    /\ pc = "closing"
    /\ sess' \in {close(sess), sess}
    /\ upstream' = [upstream EXCEPT !.open = FALSE]
    /\ pc' = "socket"
    /\ UNCHANGED <<back, timeline, pcm, event, locals, wire>>

\* Mutant: every session that closes is closed normally.
CloseSocket_Normal ==
    /\ pc = "socket"
    /\ wire' = [wire EXCEPT !.close = "normal"]
    /\ pc' = "done"
    /\ UNCHANGED <<back, coordinator, pcm, event, locals, upstream>>

CloseSocket ==
    /\ pc = "socket"
    /\ \E c \in {IF successful THEN "normal" ELSE "abnormal", "dropped"} :
        wire' = [wire EXCEPT !.close = c]
    /\ pc' = "done"
    /\ UNCHANGED <<back, coordinator, pcm, event, locals, upstream>>

\* The permit is released; the session is over.
Done == pc = "done" /\ UNCHANGED vars

-----------------------------------------------------------------------------
Client ==
    \/ \E bytes \in PcmLengths : ClientAudio(bytes)
    \/ ClientRejected \/ ClientClose \/ ClientPing \/ ClientFinalize

Provider ==
    \/ \E tr \in [start : ProviderTimes, duration : ProviderTimes, stability : Stability] :
        ProviderTranscript(tr)
    \/ \E end \in ProviderTimes : ProviderUtteranceEnd(end)
    \/ ProviderFinalizeResult \/ ProviderFails \/ ProviderCloses

Opening ==
    \/ ReceiveConfig \/ OpenSucceeds \/ OpenFails \/ SendReady \/ SendReadyFails

Writing ==
    \/ ProviderWriteSucceeds \/ ProviderWriteFails \/ WriteCancelled \/ WriteTimeout
    \/ SendPong \/ SendPongFails \/ SendAck \/ SendAckFails
    \/ SendTranscript \/ SendTranscriptFails

Finalizing ==
    \/ ProviderFinalizeSucceeds \/ ProviderFinalizeFails \/ FinalizeCancelled
    \/ DrainInterrupted \/ DrainEnds \/ DrainTimeout
    \/ SendVerdict \/ SendVerdictFails

Ending == SendError \/ CloseCoordinator \/ CloseSocket

Next == Client \/ Provider \/ IdleTimeout \/ SessionTimeout
        \/ Opening \/ Writing \/ Finalizing \/ Ending \/ Done

Spec == Init /\ [][Next]_vars

\* Every await but those of the three loops is bounded by a timeout of its
\* own, so it is left.  The loops are left through their deadlines: once it
\* has passed, the deadline branch of tokio::select! stays ready and the
\* branches are polled in random order, so it cannot lose for ever.
Bounded == Opening \/ SendPong \/ SendPongFails \/ SendAck \/ SendAckFails
           \/ SendTranscript \/ SendTranscriptFails \/ ProviderFinalizeSucceeds
           \/ ProviderFinalizeFails \/ FinalizeCancelled
           \/ SendVerdict \/ SendVerdictFails \/ Ending

Fairness ==
    /\ WF_vars(Bounded)
    /\ SF_vars(SessionTimeout)
    /\ SF_vars(WriteTimeout)
    /\ SF_vars(DrainTimeout)

FairSpec == Spec /\ Fairness

-----------------------------------------------------------------------------
(* Properties *)

\* The transport never asks the session for a transition it refuses: the
\* frame it has written is pending, the frame it acknowledges was written,
\* nothing is pending when it finalizes, and the status it derives from its
\* own flags agrees with the evidence of the session (the two keep
\* accepted audio and observed results separately).
DomainAgrees ==
    /\ pc = "select" => sess.phase = "streaming" /\ sess.pending = {}
    /\ pc = "write"  => CanConfirmWrite(sess, sess.last)
    /\ pc = "ack"    => CanConfirmAck(sess, sess.last)
    /\ pc = "drain"  => CanCompleteFinalize(sess, Requested)

\* No timestamp the client receives is more than Lead ahead of the audio the
\* provider really received, measured exactly (provider_write, LiveTimeline).
WithinHeardAudio ==
    wire.end * SampleRate <= upstream.samples * Second + Lead * SampleRate

\* Final transcripts reach the client in order and never overlap, across
\* streaming and the finalize drain.
FinalsInOrder ==
    [][wire'.final # wire.final => wire'.final.start >= wire.final.end]_vars

\* The session keeps LivePromise.
Promise == INSTANCE LivePromise WITH
    ready    <- wire.ready,
    heard    <- upstream.heard,
    acks     <- wire.acks,
    spoiled  <- upstream.spoiled,
    asked    <- upstream.asked,
    answered <- upstream.answered,
    verdict  <- wire.verdict,
    closing  <- wire.close

KeepsLivePromise == Promise!Spec

\* The session ends, so its permit is released, whatever the client and the
\* provider keep sending (LIVE_SESSION_TIMEOUT, PROVIDER_WRITE_TIMEOUT, the
\* finalize deadline and the bounded closes).
SessionEnds == <>(pc = "done")
=============================================================================

------------------------ MODULE LiveElevenLabsProofs ------------------------
(***************************************************************************)
(* Proofs about LiveElevenLabs, for every sample rate, frame size, bound   *)
(* and text: the clock the adapter synthesizes and the coordinator's       *)
(* timing policy never disagree, and a finalize marker is the answer to    *)
(* the commit of the session that it ends.                                 *)
(***************************************************************************)
EXTENDS LiveElevenLabs, LiveGatewayProofs

-----------------------------------------------------------------------------
(* The inductive invariant *)

Fields == {"bytes", "boundary", "segment_end", "committed_end", "finalizing",
           "stable_text", "recent_stable", "recent_committed", "pending"}

\* The fields that guard or time an event.
AdapterTypes ==
    /\ DOMAIN el = Fields
    /\ el.bytes \in Nat /\ el.bytes <= MaxU64
    /\ el.segment_end \in Nat /\ el.committed_end \in Nat
    /\ el.finalizing \in BOOLEAN
    /\ el.stable_text \in Seq(Seq(Nat))
    /\ el.pending \in Seq({FinalizeResult})
    /\ manual \in BOOLEAN /\ owed \in BOOLEAN /\ committed \in BOOLEAN

\* Both sides count the same audio; the adapter may have saturated.
AudioInv ==
    /\ el.bytes <= timeline.samples * BytesPerSampleFrame
    /\ timeline.horizon = checked_horizon_millis(timeline.samples)

\* A marker exists only after the session has begun to finalize, and with a
\* provider that honours the manual strategy only after the answered commit.
MarkerInv ==
    /\ el.finalizing \/ el.pending # <<>> =>
            sess.phase # "streaming" /\ pc \notin {"config", "open"}
    /\ manual /\ (saw_result \/ el.pending # <<>>) => committed
    /\ wire.verdict = "flushed" => saw_result

ElInv == LiveInv /\ AdapterTypes /\ AudioInv /\ ClockInv /\ MarkerInv

-----------------------------------------------------------------------------
(* Arithmetic of the two clocks *)

\* Rounding in bytes never exceeds rounding in sample frames.
LEMMA DivCoarser ==
    ASSUME NEW b \in Nat, NEW s \in Nat, NEW w \in Nat \ {0}, NEW r \in Nat \ {0},
           NEW m \in Nat, b <= s * w
    PROVE  (b * m) \div (r * w) <= (s * m) \div r
<1> DEFINE x == (b * m) \div (r * w)
<1>0. b * m \in Nat /\ r * w \in Nat \ {0} /\ s * m \in Nat /\ s * w \in Nat
  OBVIOUS
<1>1. x \in Nat /\ x * (r * w) <= b * m
  BY <1>0, DivBounds
<1> HIDE DEF x
<1>2. b * m <= (s * w) * m
  BY <1>0, MulMono
<1>3. (x * r) * w <= (s * m) * w
  <2>1. x * (r * w) = (x * r) * w /\ (s * w) * m = (s * m) * w /\ x * r \in Nat
    BY <1>1, Regroup
  <2>2. (x * r) * w \in Nat /\ (s * m) * w \in Nat
    BY <1>0, <2>1
  <2>3. QED
    BY <1>0, <1>1, <1>2, <2>1, <2>2
<1>4. x * r <= s * m
  BY <1>0, <1>1, <1>3, MulCancel
<1>5. QED
  BY <1>0, <1>1, <1>4, DivLeast DEF x

\* The adapter's clock: a natural number, monotone in the bytes written and
\* never ahead of the coordinator's.
LEMMA ClockFacts ==
    ASSUME NEW e, e.bytes \in Nat
    PROVE  user_audio_millis(e) \in Nat
<1>1. Saturated(e.bytes * Second) \in Nat /\ SampleRate * BytesPerSampleFrame \in Nat \ {0}
  BY RateAssumption, BoundAssumption DEF Saturated
<1>2. QED
  BY <1>1, DivBounds DEF user_audio_millis

LEMMA ClockMonotone ==
    ASSUME NEW e, NEW f, e.bytes \in Nat, f.bytes \in Nat, e.bytes <= f.bytes
    PROVE  user_audio_millis(e) <= user_audio_millis(f)
<1>1. e.bytes * Second <= f.bytes * Second
  BY MulMono, RateAssumption
<1>2. /\ Saturated(e.bytes * Second) \in Nat /\ Saturated(f.bytes * Second) \in Nat
      /\ Saturated(e.bytes * Second) <= Saturated(f.bytes * Second)
  <2>1. e.bytes * Second \in Nat /\ f.bytes * Second \in Nat
    BY RateAssumption
  <2>2. QED
    BY <1>1, <2>1, BoundAssumption DEF Saturated
<1>3. SampleRate * BytesPerSampleFrame \in Nat \ {0}
  BY RateAssumption
<1>4. QED
  BY <1>2, <1>3, DivMono DEF user_audio_millis

LEMMA ClockBehind ==
    ASSUME NEW e, NEW samples \in Nat, e.bytes \in Nat, e.bytes <= samples * BytesPerSampleFrame
    PROVE  user_audio_millis(e) <= checked_horizon_millis(samples)
<1>1. /\ Saturated(e.bytes * Second) \in Nat /\ e.bytes * Second \in Nat
      /\ Saturated(e.bytes * Second) <= e.bytes * Second
  BY RateAssumption, BoundAssumption DEF Saturated
<1>2. SampleRate * BytesPerSampleFrame \in Nat \ {0}
  BY RateAssumption
<1>3. user_audio_millis(e) <= (e.bytes * Second) \div (SampleRate * BytesPerSampleFrame)
  BY <1>1, <1>2, DivMono DEF user_audio_millis
<1>4. (e.bytes * Second) \div (SampleRate * BytesPerSampleFrame) <= (samples * Second) \div SampleRate
  BY DivCoarser, RateAssumption
<1>5. user_audio_millis(e) \in Nat /\ (samples * Second) \div SampleRate \in Nat
      /\ (e.bytes * Second) \div (SampleRate * BytesPerSampleFrame) \in Nat
  BY <1>1, <1>2, ClockFacts, DivBounds, RateAssumption
<1>6. QED
  BY <1>3, <1>4, <1>5 DEF checked_horizon_millis

\* A text without tokens has no characters.
LEMMA NoTokens ==
    ASSUME NEW text, text = <<>>
    PROVE  normalize(text) = <<>>
<1> DEFINE Chars(f) == f = [n \in 0 .. Len(text) |-> IF n = 0 THEN <<>> ELSE f[n - 1] \o text[n]]
<1> DEFINE h == CHOOSE f : Chars(f)
<1>1. Len(text) = 0 /\ 0 .. Len(text) = {0}
  OBVIOUS
<1>2. Chars(h)
  <2> DEFINE g == [n \in 0 .. Len(text) |-> <<>>]
  <2>1. Chars(g)
    BY <1>1
  <2> HIDE DEF g, Chars
  <2>2. QED
    BY <2>1
<1>3. h[0] = <<>>
  <2> HIDE DEF h
  <2>1. QED
    BY <1>1, <1>2
<1>4. normalize(text) = h[0]
  BY <1>1 DEF normalize
<1>5. QED
  BY <1>3, <1>4

-----------------------------------------------------------------------------
(* What a message does to the adapter *)

\* The last final the coordinator knows once it has accepted an event.
LastFinalAfter(ev) ==
    IF ev \in Transcript /\ IsFinal(ev) THEN End(ev) ELSE timeline.last_final

\* The adapter's state after a message, and the event it hands out.
Follows(st, ev) ==
    /\ ev \in Transcript \cup {NoEvent, FinalizeResult}
    /\ ev \in Transcript => ValidTranscript(timeline, ev)
    /\ DOMAIN st = Fields /\ st.bytes = el.bytes
    /\ st.segment_end \in Nat /\ st.committed_end \in Nat
    /\ st.committed_end <= st.segment_end /\ st.segment_end <= user_audio_millis(el)
    /\ LastFinalAfter(ev) <= st.segment_end
    /\ st.stable_text = <<>> => LastFinalAfter(ev) <= st.committed_end
    /\ st.stable_text \in Seq(Seq(Nat)) /\ st.finalizing \in BOOLEAN
    /\ st.pending \in Seq({FinalizeResult})
    /\ st.finalizing => el.finalizing

LEMMA Positions ==
    ASSUME ElInv
    PROVE  LET u == user_audio_millis(el)
           IN  /\ u \in Nat /\ el.segment_end \in Nat /\ el.committed_end \in Nat
               /\ el.committed_end <= el.segment_end /\ el.segment_end <= u
               /\ u <= timeline.horizon /\ timeline.horizon \in Nat /\ timeline.horizon <= MaxU64
               /\ timeline.last_final \in Int /\ timeline.last_final <= el.segment_end
<1>1. user_audio_millis(el) \in Nat /\ el.segment_end \in Nat /\ el.committed_end \in Nat
  BY ClockFacts DEF ElInv, AdapterTypes
<1>2. timeline.horizon \in Nat /\ timeline.horizon <= MaxU64 /\ timeline.last_final \in Int
  BY BoundAssumption DEF ElInv, LiveInv, TypeOK, Timeline, Millis, NoFinal
<1>3. QED
  BY <1>1, <1>2 DEF ElInv, ClockInv

\* An event the adapter synthesizes between two of its positions.
LEMMA Synthesized ==
    ASSUME ElInv, NEW start \in Nat, start <= user_audio_millis(el), NEW stability \in Stability,
           stability # "partial" => timeline.last_final <= start
    PROVE  LET ev == transcript_event(start, user_audio_millis(el), stability)
           IN  /\ ev \in Transcript /\ End(ev) = user_audio_millis(el)
               /\ ValidTranscript(timeline, ev) /\ ev.stability = stability
<1> DEFINE u == user_audio_millis(el)
<1>1. /\ u \in Nat /\ u <= timeline.horizon /\ timeline.horizon \in Nat /\ timeline.horizon <= MaxU64
      /\ timeline.last_final \in Int
  BY Positions
<1> HIDE DEF u
<1>2. start <= u /\ Later(u - start, 0) = u - start /\ u - start \in Millis /\ start \in Millis
  <2>1. start <= u
    BY DEF u
  <2>2. QED
    BY <1>1, <2>1, BoundAssumption DEF Later, Millis
<1> DEFINE ev == [start |-> start, duration |-> u - start, stability |-> stability]
<1>3. ev \in Transcript /\ ev.start + ev.duration = u
  BY <1>1, <1>2 DEF Transcript
<1>4. ValidTranscript(timeline, ev)
  BY <1>1, <1>2, <1>3, BoundAssumption DEF ValidTranscript, WithinHorizon, IsFinal, End
<1>5. transcript_event(start, user_audio_millis(el), stability) = ev
  BY <1>2 DEF transcript_event, u
<1>6. QED
  BY <1>3, <1>4, <1>5 DEF End, u

LEMMA PartialFollows ==
    ASSUME ElInv, NEW text \in Texts
    PROVE  Follows(Partial(el, text).state, Partial(el, text).event)
           /\ Partial(el, text).state = el /\ Partial(el, text).event # FinalizeResult
<1> DEFINE ev == Partial(el, text).event
<1>1. Partial(el, text).state = el
  BY DEF Partial
<1>2. current_segment_start(el) = el.segment_end
  BY Positions DEF current_segment_start, Later
<1>3. ev = NoEvent \/ (ev \in Transcript /\ ValidTranscript(timeline, ev) /\ ~IsFinal(ev))
  BY <1>2, Positions, Synthesized DEF Partial, Stability, IsFinal
<1> HIDE DEF ev
<1>4. LastFinalAfter(ev) = timeline.last_final /\ ev # FinalizeResult
  BY <1>3, EventAssumption DEF LastFinalAfter
<1>5. Follows(el, ev)
  BY <1>3, <1>4, Positions, EventAssumption DEF Follows, ElInv, AdapterTypes, ClockInv
<1>6. QED
  BY <1>1, <1>4, <1>5 DEF ev

LEMMA SegmentFinalFollows ==
    ASSUME ElInv, NEW text \in Texts
    PROVE  /\ Follows(SegmentFinal(el, text).state, SegmentFinal(el, text).event)
           /\ SegmentFinal(el, text).state.pending = el.pending
           /\ SegmentFinal(el, text).event # FinalizeResult
<1> DEFINE u == user_audio_millis(el)
<1> DEFINE ev == transcript_event(el.segment_end, u, "segment_final")
<1> DEFINE st == [el EXCEPT !.segment_end   = u,
                            !.recent_stable = remember(@, el.boundary, normalize(text)),
                            !.stable_text   = @ \o text]
<1>1. current_segment_start(el) = el.segment_end /\ Later(u, el.segment_end) = u
  BY Positions DEF current_segment_start, Later
<1>2. CASE SegmentFinal(el, text) = [state |-> el, event |-> NoEvent]
  <2>1. LastFinalAfter(NoEvent) = timeline.last_final
    BY EventAssumption DEF LastFinalAfter
  <2>2. Follows(el, NoEvent)
    BY <2>1, Positions, EventAssumption DEF Follows, ElInv, AdapterTypes, ClockInv
  <2>3. QED
    BY <1>2, <2>2, EventAssumption
<1>3. CASE /\ SegmentFinal(el, text) = [state |-> st, event |-> ev]
           /\ normalize(text) # <<>>
  <2>1. ev \in Transcript /\ End(ev) = u /\ ValidTranscript(timeline, ev) /\ IsFinal(ev)
    BY Positions, Synthesized DEF Stability, IsFinal
  <2>2. LastFinalAfter(ev) = u
    BY <2>1 DEF LastFinalAfter
  <2>3. text # <<>> /\ text \in Seq(Seq(Nat))
    BY <1>3, NoTokens, TextAssumption
  <2>4. DOMAIN el = Fields /\ el.stable_text \in Seq(Seq(Nat))
    BY DEF ElInv, AdapterTypes
  <2>5. /\ DOMAIN st = Fields /\ st.bytes = el.bytes /\ st.segment_end = u
        /\ st.committed_end = el.committed_end /\ st.finalizing = el.finalizing
        /\ st.pending = el.pending /\ st.stable_text = el.stable_text \o text
    BY <2>4 DEF Fields
  <2>6. st.stable_text # <<>> /\ st.stable_text \in Seq(Seq(Nat))
    <3>1. Len(el.stable_text \o text) = Len(el.stable_text) + Len(text) /\ Len(text) > 0
          /\ Len(el.stable_text) \in Nat /\ el.stable_text \o text \in Seq(Seq(Nat))
      BY <2>3, <2>4
    <3>2. Len(<<>>) = 0
      OBVIOUS
    <3>3. el.stable_text \o text # <<>>
      BY <3>1, <3>2
    <3>4. QED
      BY <2>5, <3>1, <3>3
  <2> HIDE DEF st, ev
  <2>7. Follows(st, ev)
    BY <2>1, <2>2, <2>5, <2>6, Positions DEF Follows, ElInv, AdapterTypes
  <2>8. QED
    BY <1>3, <2>1, <2>5, <2>7, EventAssumption
<1>4. QED
  BY <1>1, <1>2, <1>3 DEF SegmentFinal

\* A commit that is not suppressed starts no earlier than the last final.
LEMMA CommitStarts ==
    ASSUME ElInv, NEW text \in Texts, ~IsDuplicate(el, text)
    PROVE  LET start == CommitStart(el, text, user_audio_millis(el))
           IN  /\ start \in Nat /\ start <= user_audio_millis(el)
               /\ timeline.last_final <= start
<1>1. text \in Seq(Seq(Nat)) /\ el.stable_text \in Seq(Seq(Nat))
  BY TextAssumption DEF ElInv, AdapterTypes
<1>2. Len(text) \in Nat /\ Len(el.stable_text) \in Nat
  BY <1>1
<1>3. CASE ExtendsStable(text, el.stable_text) /\ Len(text) > Len(el.stable_text)
  BY <1>3, Positions DEF CommitStart
<1>4. CASE ~(ExtendsStable(text, el.stable_text) /\ Len(text) > Len(el.stable_text))
  <2>1. el.stable_text = <<>>
    BY <1>2, <1>4 DEF IsDuplicate, ExtendsStable
  <2>2. timeline.last_final <= el.committed_end
    BY <2>1 DEF ElInv, ClockInv
  <2>3. QED
    BY <1>4, <2>2, Positions DEF CommitStart
<1>5. QED
  BY <1>3, <1>4

\* A bounded queue of markers stays one.
LEMMA MarkersQueued ==
    ASSUME NEW q \in Seq({FinalizeResult})
    PROVE  PushBounded(q, FinalizeResult, MaxPendingEvents) \in Seq({FinalizeResult})
<1>1. CASE Len(q) = MaxPendingEvents
  <2>1. q # <<>> /\ Tail(q) \in Seq({FinalizeResult})
    BY <1>1, QueueAssumption
  <2>2. QED
    BY <1>1, <2>1 DEF PushBounded
<1>2. CASE Len(q) # MaxPendingEvents
  BY <1>2 DEF PushBounded
<1>3. QED
  BY <1>1, <1>2

LEMMA UtteranceFinalFollows ==
    ASSUME ElInv, NEW text \in Texts
    PROVE  LET m == UtteranceFinal(el, text)
           IN  /\ Follows(m.state, m.event)
               /\ m.event = FinalizeResult => el.finalizing
               /\ m.state.pending # el.pending => el.finalizing
               /\ ~m.state.finalizing
<1> DEFINE u == user_audio_millis(el)
<1> DEFINE ev == transcript_event(CommitStart(el, text, u), u, "utterance_final")
<1> DEFINE st == [el EXCEPT
                    !.committed_end    = u,
                    !.segment_end      = u,
                    !.stable_text      = <<>>,
                    !.finalizing       = FALSE,
                    !.recent_committed = IF normalize(text) = <<>> THEN @
                                         ELSE remember(@, el.boundary, normalize(text)),
                    !.pending          = IF el.finalizing /\ ~IsDuplicate(el, text)
                                         THEN PushBounded(@, FinalizeResult, MaxPendingEvents)
                                         ELSE @]
<1> DEFINE out == IF ~IsDuplicate(el, text) THEN ev
                  ELSE IF el.finalizing THEN FinalizeResult ELSE NoEvent
<1>1. Later(u, el.committed_end) = u
  BY Positions DEF Later
<1>2. UtteranceFinal(el, text) = [state |-> st, event |-> out]
  BY <1>1 DEF UtteranceFinal
<1>3. DOMAIN el = Fields /\ el.pending \in Seq({FinalizeResult}) /\ el.finalizing \in BOOLEAN
  BY DEF ElInv, AdapterTypes
<1>4. /\ DOMAIN st = Fields /\ st.bytes = el.bytes /\ st.segment_end = u /\ st.committed_end = u
      /\ st.finalizing = FALSE /\ st.stable_text = <<>>
      /\ st.pending = IF el.finalizing /\ ~IsDuplicate(el, text)
                      THEN PushBounded(el.pending, FinalizeResult, MaxPendingEvents)
                      ELSE el.pending
  BY <1>3 DEF Fields
<1>5. st.pending \in Seq({FinalizeResult}) /\ (st.pending # el.pending => el.finalizing)
  BY <1>3, <1>4, MarkersQueued
<1>6. ~IsDuplicate(el, text) =>
        ev \in Transcript /\ End(ev) = u /\ ValidTranscript(timeline, ev) /\ IsFinal(ev)
  BY CommitStarts, Synthesized DEF Stability, IsFinal
<1> HIDE DEF st, ev
<1>7. /\ out \in Transcript \cup {NoEvent, FinalizeResult}
      /\ out \in Transcript => ValidTranscript(timeline, out)
      /\ LastFinalAfter(out) = u \/ LastFinalAfter(out) = timeline.last_final
      /\ out = FinalizeResult => el.finalizing
  BY <1>6, EventAssumption DEF LastFinalAfter
<1> HIDE DEF out
<1>8. <<>> \in Seq(Seq(Nat))
  OBVIOUS
<1>9. Follows(st, out)
  <2>1. u \in Nat /\ timeline.last_final \in Int /\ timeline.last_final <= u
    BY Positions
  <2> HIDE DEF u
  <2>2. LastFinalAfter(out) <= u
    BY <1>7, <2>1
  <2>3. u = user_audio_millis(el)
    BY DEF u
  <2>4. /\ st.segment_end \in Nat /\ st.committed_end \in Nat
        /\ st.committed_end <= st.segment_end /\ st.segment_end <= user_audio_millis(el)
        /\ LastFinalAfter(out) <= st.segment_end /\ LastFinalAfter(out) <= st.committed_end
    BY <1>4, <2>1, <2>2, <2>3
  <2>5. DOMAIN st = Fields /\ st.bytes = el.bytes /\ st.finalizing = FALSE /\ st.stable_text = <<>>
    BY <1>4
  <2>6. QED
    BY <1>5, <1>7, <1>8, <2>4, <2>5, Zenon DEF Follows
<1>10. QED
  BY <1>2, <1>4, <1>5, <1>7, <1>9

LEMMA MessageFollows ==
    ASSUME ElInv, NEW kind \in MessageKinds, NEW text \in Texts
    PROVE  LET m == apply(el, kind, text)
           IN  /\ Follows(m.state, m.event)
               /\ m.event = FinalizeResult \/ m.state.pending # el.pending =>
                    kind = "utterance_final" /\ el.finalizing
<1>1. CASE kind = "partial"
  BY <1>1, PartialFollows DEF apply
<1>2. CASE kind = "segment_final"
  BY <1>2, SegmentFinalFollows DEF apply
<1>3. CASE kind = "utterance_final"
  BY <1>3, UtteranceFinalFollows DEF apply
<1>4. QED
  BY <1>1, <1>2, <1>3 DEF MessageKinds

-----------------------------------------------------------------------------
(* The steps of the session *)

\* A finalize marker would end the session with an error.
Unready == sess.phase = "streaming" \/ pc \in {"config", "open"}

USE DEF Unready

\* The steps the adapter has no part in: what they leave alone.
Apart ==
    /\ UNCHANGED <<timeline, saw_result>>
    /\ Unready' => Unready
    /\ wire'.verdict = "flushed" => wire.verdict = "flushed" \/ saw_result

LEMMA SessionEffects == ASSUME LiveInv, SessionSteps PROVE Apart
<1> USE DEF Apart, coordinator, locals
<1>0. sess \in Session /\ wire \in Wire /\ back \in {"select", "write", "drain"}
  BY DEF LiveInv, TypeOK
<1>1. CASE Client
  <2>1. CASE \E bytes \in PcmLengths : ClientAudio(bytes)
    BY <1>0, <2>1 DEF ClientAudio, accept_audio, Session
  <2>2. CASE ClientRejected \/ ClientClose \/ ClientPing
    BY <2>2 DEF ClientRejected, ClientClose, ClientPing
  <2>3. CASE ClientFinalize
    BY <1>0, <2>3 DEF ClientFinalize, begin_finalize, Session
  <2>4. QED
    BY <1>1, <2>1, <2>2, <2>3 DEF Client
<1>2. CASE ProviderFails \/ ProviderWriteFails
  BY <1>0, <1>2 DEF ProviderFails, ProviderWriteFails, fail, Session
<1>3. CASE IdleTimeout \/ SessionTimeout \/ WriteCancelled \/ WriteTimeout \/ DrainInterrupted
  BY <1>3 DEF IdleTimeout, SessionTimeout, WriteCancelled, WriteTimeout, DrainInterrupted
<1>4. CASE Opening
  BY <1>0, <1>4 DEF Opening, ReceiveConfig, OpenSucceeds, OpenFails, SendReady, SendReadyFails, Wire
<1>5. CASE SendPong \/ SendPongFails
  BY <1>0, <1>5 DEF SendPong, SendPongFails
<1>6. CASE SendAck \/ SendAckFails
  BY <1>0, <1>6 DEF SendAck, SendAckFails, mark_ack_sent, Session, Wire
<1>7. CASE SendTranscript \/ SendTranscriptFails
  BY <1>0, <1>7 DEF SendTranscript, SendTranscriptFails, Told, Wire
<1>8. CASE DrainTimeout
  BY <1>0, <1>8 DEF DrainTimeout, CompleteFinalize, complete_finalize, Session
<1>9. CASE SendVerdict \/ SendVerdictFails
  BY <1>0, <1>9 DEF SendVerdict, SendVerdictFails, Requested, Wire
<1>10. CASE Ending
  BY <1>0, <1>10 DEF Ending, SendError, CloseCoordinator, CloseSocket, close, Session, Wire
<1>11. CASE Done
  BY <1>11 DEF Done, vars
<1>12. QED
  BY <1>1, <1>2, <1>3, <1>4, <1>5, <1>6, <1>7, <1>8, <1>9, <1>10, <1>11 DEF SessionSteps

LEMMA ESession == ASSUME ElInv, SessionSteps, UNCHANGED adapterVars PROVE ElInv'
<1>1. LiveInv'
  <2>1. Next
    BY DEF SessionSteps, Next, Provider, Writing, Finalizing
  <2>2. QED
    BY <2>1, LiveStep DEF ElInv
<1>2. Apart
  BY SessionEffects DEF ElInv
<1>3. UNCHANGED <<el, manual, owed, committed, timeline>>
  BY <1>2 DEF adapterVars, Apart
<1>4. AdapterTypes'
  BY <1>3 DEF ElInv, AdapterTypes
<1>5. AudioInv' /\ ClockInv'
  BY <1>3 DEF ElInv, AudioInv, ClockInv, user_audio_millis
<1>6. MarkerInv'
  BY <1>2, <1>3 DEF ElInv, MarkerInv, Apart
<1>7. QED
  BY <1>1, <1>4, <1>5, <1>6 DEF ElInv

\* The finalize operations of the adapter touch only the marker.
LEMMA FinalizeMoves ==
    ASSUME ElInv, LiveInv', UNCHANGED <<timeline, saw_result, wire, manual, committed>>,
           sess'.phase # "streaming", pc' \notin {"config", "open"}, owed' \in BOOLEAN,
           el' \in {el, begin_finalize_flush(el), cancel_finalize(el)}
    PROVE  ElInv'
<1>1. DOMAIN el = Fields
  BY DEF ElInv, AdapterTypes
<1>2. /\ DOMAIN el' = Fields /\ el'.bytes = el.bytes /\ el'.segment_end = el.segment_end
      /\ el'.committed_end = el.committed_end /\ el'.stable_text = el.stable_text
      /\ el'.pending = el.pending
  BY <1>1 DEF begin_finalize_flush, cancel_finalize, Fields
<1>3. el'.finalizing \in BOOLEAN
  BY <1>1 DEF ElInv, AdapterTypes, begin_finalize_flush, cancel_finalize, has_user_audio, Fields
<1>4. AdapterTypes'
  BY <1>2, <1>3 DEF ElInv, AdapterTypes
<1>5. AudioInv' /\ ClockInv'
  BY <1>2 DEF ElInv, AudioInv, ClockInv, user_audio_millis
<1>6. MarkerInv'
  BY <1>2 DEF ElInv, MarkerInv
<1>7. QED
  BY <1>4, <1>5, <1>6 DEF ElInv

LEMMA EFinalize ==
    ASSUME ElInv, AdapterFinalize \/ AdapterFinalizeFails \/ AdapterFinalizeCancelled
    PROVE  ElInv'
<1>1. LiveInv'
  BY LProviderFinalizeSucceeds, LProviderFinalizeFails, LFinalizeCancelled
     DEF ElInv, AdapterFinalize, AdapterFinalizeFails, AdapterFinalizeCancelled
<1>2. pc = "begin" /\ sess \in Session /\ sess.phase = "finalizing"
  BY DEF AdapterFinalize, AdapterFinalizeFails, AdapterFinalizeCancelled, ProviderFinalizeSucceeds,
         ProviderFinalizeFails, FinalizeCancelled, ElInv, LiveInv, TypeOK, PhaseInv
<1>3. UNCHANGED <<timeline, saw_result, wire>> /\ pc' \in {"drain", "fail"} /\ sess' \in {sess, fail(sess)}
  BY DEF AdapterFinalize, AdapterFinalizeFails, AdapterFinalizeCancelled, ProviderFinalizeSucceeds,
         ProviderFinalizeFails, FinalizeCancelled, coordinator, locals
<1>4. sess'.phase # "streaming"
  BY <1>2, <1>3 DEF fail, Session
<1>5. /\ UNCHANGED <<manual, committed>> /\ owed' \in BOOLEAN
      /\ el' \in {el, begin_finalize_flush(el), cancel_finalize(el)}
  BY DEF AdapterFinalize, AdapterFinalizeFails, AdapterFinalizeCancelled, has_user_audio, ElInv, AdapterTypes
<1>6. QED
  BY <1>1, <1>3, <1>4, <1>5, FinalizeMoves

\* A whole number of sample frames: both sides add the same audio.
LEMMA WholeFrames ==
    ASSUME NEW n \in Nat, NEW d \in Nat \ {0}, n % d = 0, NEW s \in Nat
    PROVE  (s + n \div d) * d = s * d + n
<1> DEFINE q == n \div d
<1>1. q \in Nat /\ n = q * d
  OBVIOUS
<1> HIDE DEF q
<1>2. (s + q) * d = s * d + q * d
  BY <1>1
<1>3. QED
  BY <1>1, <1>2 DEF q

LEMMA EWrite == ASSUME ElInv, AdapterWrite PROVE ElInv'
<1> DEFINE total == total_sample_frames(timeline, pcm)
<1>1. LiveInv'
  BY LProviderWriteSucceeds DEF ElInv, AdapterWrite
<1>2. /\ pc = "write" /\ pc' \in {"ack", "fail"} /\ CanPrepareAudioWrite(timeline, pcm)
      /\ sess' \in {sess, mark_provider_write_succeeded(sess, sess.last)}
      /\ timeline' = commit_audio_write(timeline, pcm)
      /\ UNCHANGED <<wire, saw_result, manual, owed, committed>> /\ el' = record_audio(el, pcm)
  BY DEF AdapterWrite, ProviderWriteSucceeds, locals, ElInv, LiveInv, PhaseInv, InWrite
<1>3. sess'.phase = sess.phase
  BY <1>2 DEF ElInv, LiveInv, TypeOK, Session, mark_provider_write_succeeded
<1>4. /\ timeline'.samples = total /\ timeline'.horizon = checked_horizon_millis(total)
      /\ timeline'.last_final = timeline.last_final /\ timeline.samples \in Nat
      /\ total * BytesPerSampleFrame = timeline.samples * BytesPerSampleFrame + pcm
      /\ total \in Nat /\ pcm \in Nat
  <2>1. timeline.samples \in Nat /\ pcm \in Nat /\ pcm % BytesPerSampleFrame = 0 /\ timeline \in Timeline
    BY <1>2, InputAssumption, BoundAssumption
       DEF ElInv, LiveInv, TypeOK, Timeline, Millis, CanPrepareAudioWrite
  <2>2. total = timeline.samples + pcm \div BytesPerSampleFrame
    BY DEF total_sample_frames
  <2>3. total * BytesPerSampleFrame = timeline.samples * BytesPerSampleFrame + pcm
    BY <2>1, <2>2, WholeFrames, RateAssumption
  <2>4. total \in Nat
    BY <2>1, <2>2, DivBounds, RateAssumption
  <2> HIDE DEF total
  <2>5. timeline' = [timeline EXCEPT !.samples = total, !.horizon = checked_horizon_millis(total)]
    BY <1>2 DEF commit_audio_write, total
  <2>6. QED
    BY <2>1, <2>3, <2>4, <2>5 DEF Timeline
<1> HIDE DEF total
<1>5. /\ DOMAIN el = Fields /\ el.bytes \in Nat /\ el.bytes <= MaxU64
      /\ el.bytes <= timeline.samples * BytesPerSampleFrame
  BY DEF ElInv, AdapterTypes, AudioInv
<1>6. /\ DOMAIN el' = Fields /\ el'.bytes = Saturated(el.bytes + pcm)
      /\ el'.segment_end = el.segment_end /\ el'.committed_end = el.committed_end
      /\ el'.finalizing = el.finalizing /\ el'.stable_text = el.stable_text
      /\ el'.pending = el.pending
  BY <1>2, <1>5 DEF record_audio, Fields
<1>7. /\ el'.bytes \in Nat /\ el'.bytes <= MaxU64 /\ el.bytes <= el'.bytes
      /\ el'.bytes <= total * BytesPerSampleFrame
  <2>1. timeline.samples * BytesPerSampleFrame \in Nat
    BY <1>4, RateAssumption
  <2>2. QED
    BY <1>4, <1>5, <1>6, <2>1, BoundAssumption DEF Saturated
<1>8. AdapterTypes' /\ AudioInv'
  BY <1>2, <1>4, <1>6, <1>7 DEF ElInv, AdapterTypes, AudioInv
<1>9. ClockInv'
  <2>1. /\ user_audio_millis(el) <= user_audio_millis(el')
        /\ user_audio_millis(el) \in Nat /\ user_audio_millis(el') \in Nat
        /\ user_audio_millis(el') <= timeline'.horizon
    BY <1>4, <1>5, <1>7, ClockFacts, ClockMonotone, ClockBehind
  <2>2. user_audio_millis(el)' = user_audio_millis(el')
    BY DEF user_audio_millis
  <2>3. el.segment_end \in Nat /\ el.segment_end <= user_audio_millis(el)
    BY Positions
  <2>4. QED
    BY <1>4, <1>6, <2>1, <2>2, <2>3 DEF ElInv, ClockInv
<1>10. MarkerInv'
  BY <1>2, <1>3, <1>6 DEF ElInv, MarkerInv
<1>11. QED
  BY <1>1, <1>8, <1>9, <1>10 DEF ElInv

-----------------------------------------------------------------------------
(* The messages of the provider *)

\* What the coordinator makes of an event of the adapter.
LEMMA Delivered ==
    ASSUME ElInv, NEW ev \in Transcript \cup {NoEvent, FinalizeResult},
           ev \in Transcript => ValidTranscript(timeline, ev), Deliver(ev)
    PROVE  /\ LiveInv' /\ UNCHANGED wire /\ (Unready' => Unready)
           /\ timeline'.samples = timeline.samples /\ timeline'.horizon = timeline.horizon
           /\ timeline'.last_final = LastFinalAfter(ev)
           /\ (saw_result' => saw_result \/ ev = FinalizeResult) /\ (saw_result => saw_result')
<1>0. LiveInv /\ sess \in Session /\ timeline \in Timeline
  BY DEF ElInv, LiveInv, TypeOK
<1>1. CASE ev = NoEvent
  <2>1. UNCHANGED vars
    BY <1>1, EventAssumption DEF Deliver
  <2>2. LiveInv'
    BY <1>0, <2>1, LiveStep
  <2>3. QED
    BY <1>1, <2>1, <2>2, EventAssumption DEF vars, LastFinalAfter
<1>2. CASE ev = FinalizeResult
  <2>1. ProviderFinalizeResult
    BY <1>2, EventAssumption DEF Deliver
  <2>2. LiveInv'
    BY <1>0, <2>1, LProviderFinalizeResult
  <2>3. /\ UNCHANGED <<wire, timeline>> /\ (saw_result => saw_result')
        /\ sess'.phase \in {sess.phase, "failed"} /\ pc' \in {pc, "fail"}
    BY <1>0, <2>1 DEF ProviderFinalizeResult, mark_finalize_result_observed, fail, Session
  <2>4. LastFinalAfter(ev) = timeline.last_final
    BY <1>2, EventAssumption DEF LastFinalAfter
  <2>5. QED
    BY <1>2, <2>2, <2>3, <2>4
<1>3. CASE ev \in Transcript
  <2>1. ProviderTranscript(ev)
    BY <1>3, EventAssumption DEF Deliver
  <2>2. LiveInv'
    BY <1>0, <1>3, <2>1, LProviderTranscript
  <2>3. timeline' = accept_transcript(timeline, ev) /\ UNCHANGED <<sess, wire, saw_result>> /\ pc' = "send"
    BY <1>3, <2>1 DEF ProviderTranscript, locals
  <2>4. /\ timeline'.samples = timeline.samples /\ timeline'.horizon = timeline.horizon
        /\ timeline'.last_final = LastFinalAfter(ev)
    BY <1>0, <1>3, <2>3 DEF accept_transcript, LastFinalAfter, Timeline
  <2>5. QED
    BY <2>2, <2>3, <2>4
<1>4. QED
  BY <1>1, <1>2, <1>3

LEMMA DeliverMoves ==
    ASSUME ElInv, NEW ev, Follows(el', ev), Deliver(ev), manual' = manual,
           owed' \in BOOLEAN, committed' \in BOOLEAN, committed => committed',
           el'.pending # <<>> => el.finalizing \/ el.pending # <<>>,
           manual /\ (ev = FinalizeResult \/ el'.pending # <<>>) => committed'
    PROVE  ElInv'
<1>1. /\ LiveInv' /\ UNCHANGED wire /\ (Unready' => Unready)
      /\ timeline'.samples = timeline.samples /\ timeline'.horizon = timeline.horizon
      /\ timeline'.last_final = LastFinalAfter(ev)
      /\ (saw_result' => saw_result \/ ev = FinalizeResult) /\ (saw_result => saw_result')
  BY Delivered DEF Follows
<1>2. AdapterTypes'
  BY DEF Follows, ElInv, AdapterTypes
<1>3. AudioInv'
  BY <1>1 DEF Follows, ElInv, AudioInv
<1>4. ClockInv'
  <2>1. user_audio_millis(el)' = user_audio_millis(el)
    BY DEF Follows, user_audio_millis
  <2>2. QED
    BY <1>1, <2>1, Positions DEF Follows, ClockInv
<1>5. MarkerInv'
  <2>1. wire.verdict = "flushed" => saw_result'
    BY <1>1 DEF ElInv, MarkerInv
  <2>2. QED
    BY <1>1, <2>1 DEF Follows, ElInv, MarkerInv
<1>6. QED
  BY <1>1, <1>2, <1>3, <1>4, <1>5 DEF ElInv

LEMMA ENextPending == ASSUME ElInv, NextPending PROVE ElInv'
<1>1. el.pending \in Seq({FinalizeResult}) /\ el.pending # <<>> /\ DOMAIN el = Fields
  BY DEF NextPending, ElInv, AdapterTypes
<1>2. Head(el.pending) = FinalizeResult /\ Tail(el.pending) \in Seq({FinalizeResult})
  BY <1>1
<1>3. /\ Deliver(FinalizeResult) /\ el' = [el EXCEPT !.pending = Tail(el.pending)]
      /\ UNCHANGED <<manual, owed, committed>>
  BY <1>2 DEF NextPending
<1>4. /\ DOMAIN el' = Fields /\ el'.bytes = el.bytes /\ el'.segment_end = el.segment_end
      /\ el'.committed_end = el.committed_end /\ el'.stable_text = el.stable_text
      /\ el'.finalizing = el.finalizing /\ el'.pending = Tail(el.pending)
  BY <1>1, <1>3 DEF Fields
<1>5. LastFinalAfter(FinalizeResult) = timeline.last_final
  BY EventAssumption DEF LastFinalAfter
<1>6. Follows(el', FinalizeResult)
  BY <1>2, <1>4, <1>5, Positions, EventAssumption DEF Follows, ElInv, AdapterTypes, ClockInv
<1>7. manual => committed
  BY <1>1 DEF ElInv, MarkerInv
<1>8. manual' = manual /\ owed' \in BOOLEAN /\ committed' \in BOOLEAN /\ (committed => committed')
  BY <1>3 DEF ElInv, AdapterTypes
<1>9. QED
  BY <1>1, <1>3, <1>6, <1>7, <1>8, DeliverMoves

LEMMA ENextMessage ==
    ASSUME ElInv, NEW kind \in MessageKinds, NEW text \in Texts, NextMessage(kind, text)
    PROVE  ElInv'
<1> DEFINE ev == apply(el, kind, text).event
<1>1. /\ el.pending = <<>> /\ Deliver(ev) /\ el' = apply(el, kind, text).state
      /\ kind = "utterance_final" => owed \/ ~manual
      /\ IF kind = "utterance_final" /\ owed
         THEN owed' = FALSE /\ committed' = TRUE
         ELSE UNCHANGED <<owed, committed>>
      /\ UNCHANGED manual
  BY DEF NextMessage
<1>2. /\ Follows(el', ev)
      /\ ev = FinalizeResult \/ el'.pending # el.pending => kind = "utterance_final" /\ el.finalizing
  BY <1>1, MessageFollows
<1> HIDE DEF ev
<1>3. owed' \in BOOLEAN /\ committed' \in BOOLEAN /\ (committed => committed')
  BY <1>1 DEF ElInv, AdapterTypes
<1>4. el'.pending # <<>> => el.finalizing \/ el.pending # <<>>
  BY <1>1, <1>2
<1>5. manual /\ (ev = FinalizeResult \/ el'.pending # <<>>) => committed'
  BY <1>1, <1>2
<1>6. QED
  BY <1>1, <1>2, <1>3, <1>4, <1>5, DeliverMoves

-----------------------------------------------------------------------------
LEMMA ElInitInv == ElInit => ElInv
<1> SUFFICES ASSUME ElInit PROVE ElInv
  OBVIOUS
<1>1. LiveInv
  BY LiveInit DEF ElInit
<1>2. el = NewLiveState /\ timeline = NewTimeline /\ pc = "config" /\ wire.verdict = "none"
      /\ saw_result = FALSE /\ owed = FALSE /\ committed = FALSE /\ manual \in BOOLEAN
  BY DEF ElInit, Init
<1>3. AdapterTypes
  <2>1. DOMAIN el = Fields
    BY <1>2 DEF NewLiveState, Fields
  <2>2. el.bytes = 0 /\ el.segment_end = 0 /\ el.committed_end = 0 /\ el.finalizing = FALSE
        /\ el.stable_text = <<>> /\ el.pending = <<>>
    BY <1>2 DEF NewLiveState
  <2>3. <<>> \in Seq(Seq(Nat)) /\ <<>> \in Seq({FinalizeResult}) /\ 0 <= MaxU64 /\ 0 \in Nat
    BY BoundAssumption
  <2>4. QED
    BY <1>2, <2>1, <2>2, <2>3, Zenon DEF AdapterTypes
<1>4. 0 * Second = 0 /\ 0 \div SampleRate = 0 /\ 0 * BytesPerSampleFrame = 0
      /\ 0 \div (SampleRate * BytesPerSampleFrame) = 0
  BY RateAssumption
<1>5. AudioInv
  BY <1>2, <1>4 DEF AudioInv, NewLiveState, NewTimeline, checked_horizon_millis
<1>6. user_audio_millis(el) = 0
  BY <1>2, <1>4, BoundAssumption DEF user_audio_millis, Saturated, NewLiveState
<1>7. ClockInv
  BY <1>2, <1>6 DEF ClockInv, NewLiveState, NewTimeline, NoFinal
<1>8. MarkerInv
  BY <1>2 DEF MarkerInv, NewLiveState
<1>9. QED
  BY <1>1, <1>3, <1>5, <1>7, <1>8 DEF ElInv

LEMMA ElStep == ElInv /\ [ElNext]_elVars => ElInv'
<1> SUFFICES ASSUME ElInv, [ElNext]_elVars PROVE ElInv'
  OBVIOUS
<1>1. CASE UNCHANGED elVars
  <2>1. LiveInv' /\ UNCHANGED vars
    BY <1>1, LiveStep DEF elVars, ElInv
  <2>2. QED
    BY <1>1, <2>1 DEF elVars, adapterVars, vars, ElInv, AdapterTypes, AudioInv, ClockInv,
                      MarkerInv, user_audio_millis
<1>2. QED
  BY <1>1, ESession, EWrite, EFinalize, ENextPending, ENextMessage DEF ElNext

LEMMA ElInvariance == ElSpec => []ElInv
BY ElInitInv, ElStep, PTL DEF ElSpec

-----------------------------------------------------------------------------
(* The theorems *)

\* The positions the adapter remembers are ordered, within the audio it has
\* written and never behind the last final the coordinator accepted
\* (live_state.rs against live_timeline.rs), for every sample rate, frame
\* size and width of the counters, the saturating ones included.
THEOREM AdapterClock == ElSpec => []ClockInv
<1>1. ElInv => ClockInv
  BY DEF ElInv
<1>2. QED
  BY <1>1, ElInvariance, PTL

\* Whatever message the provider sends next, the timing policy accepts the
\* transcript the adapter makes of it: a session never fails because the
\* two clocks disagree (transcript against validate_transcript).
THEOREM AdapterTranscriptsFit == ElSpec => []TimelineAgrees
<1>1. ElInv => TimelineAgrees
  <2> SUFFICES ASSUME ElInv, NEW kind \in MessageKinds, NEW text \in Texts,
                      apply(el, kind, text).event \notin {NoEvent, FinalizeResult}
               PROVE  ValidTranscript(timeline, apply(el, kind, text).event)
    BY DEF TimelineAgrees
  <2>1. QED
    BY MessageFollows DEF Follows
<1>2. QED
  BY <1>1, ElInvariance, PTL

\* A finalize marker never meets a session that still streams, and the
\* client is told "flushed" by a provider that commits only when asked to
\* no earlier than it has answered the commit (LiveState::apply).
THEOREM MarkersMeanFlush == ElSpec => []MarkerMeansFlush
<1>1. ElInv => MarkerMeansFlush
  BY DEF ElInv, MarkerInv, MarkerMeansFlush, MarkerInPhase, FlushedIsCommitted
<1>2. QED
  BY <1>1, ElInvariance, PTL
=============================================================================

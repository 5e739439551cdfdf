------------------------- MODULE LiveGatewayProofs --------------------------
(***************************************************************************)
(* Proofs about LiveGateway, for every frame size, lead, bound and number  *)
(* of frames: the session and its transport stay in step, timestamps stay  *)
(* within the audio the provider heard, finals never overlap, and the      *)
(* session keeps LivePromise.                                              *)
(***************************************************************************)
EXTENDS LiveGateway, TLAPS

-----------------------------------------------------------------------------
(* The inductive invariant *)

InStream == pc = "select" \/ (pc \in {"pong", "send"} /\ back = "select")
InWrite  == pc = "write" \/ (pc = "pong" /\ back = "write")
InDrain  == pc = "drain" \/ (pc = "send" /\ back = "drain")
Early    == pc \in {"config", "open", "ready"}
Alive    == InStream \/ InWrite \/ InDrain \/ pc \in {"ack", "begin", "complete"}

\* What the session knows at every await of the transport.
PhaseInv ==
    /\ pc = "pong" => back # "drain"
    /\ pc = "send" => back # "write"
    /\ pc = "ready" \/ InStream \/ InWrite \/ pc = "ack" => sess.phase = "streaming"
    /\ pc = "begin" \/ InDrain => sess.phase = "finalizing"
    /\ Early \/ InStream \/ pc = "begin" \/ InDrain => sess.pending = {} /\ sess.written = {}
    /\ InWrite => /\ sess.pending = {sess.last} /\ sess.written = {}
                  /\ CanPrepareAudioWrite(timeline, pcm)
    /\ pc = "ack" => sess.pending = {sess.last} /\ sess.written = {sess.last}
    /\ pc = "begin" => ~sess.observed
    /\ InDrain => (sess.observed <=> saw_result)

\* How far the frames have come on both sides of the gateway.
FrameInv ==
    /\ Early => /\ sess.last = 0 /\ ~sess.accepted
                /\ upstream.heard = 0 /\ wire.acks = 0
    /\ InStream \/ InDrain \/ pc \in {"begin", "complete"} =>
            upstream.heard = sess.last /\ wire.acks = sess.last
    /\ InWrite => upstream.heard + 1 = sess.last /\ wire.acks + 1 = sess.last
    /\ pc = "ack" => upstream.heard = sess.last /\ wire.acks + 1 = sess.last
    /\ Early \/ Alive => /\ (accepted_audio <=> wire.acks > 0)
                         /\ (sess.accepted <=> sess.last > 0)
                         /\ timeline.samples = upstream.samples

\* What the client and the provider have been told.
ToldInv ==
    /\ pc # "done" => wire.close = "open"
    /\ Early => ~wire.ready
    /\ Alive => wire.ready
    /\ Early \/ Alive => ~upstream.spoiled /\ wire.verdict = "none"
    /\ Early \/ (Alive /\ ~InDrain /\ pc # "complete") =>
            ~upstream.asked /\ ~upstream.answered /\ ~saw_result
    /\ InDrain \/ pc = "complete" => upstream.asked /\ (upstream.answered <=> saw_result)
    /\ successful => /\ pc \in {"closing", "socket", "done"}
                     /\ wire.verdict \in {"flushed", "no_provider"}
                     /\ ~upstream.spoiled

\* The times the client has seen, or is about to see.
TimeInv ==
    /\ timeline.horizon * SampleRate <= timeline.samples * Second
    /\ WithinHeardAudio
    /\ wire.final.end = 0 \/ wire.final.end <= timeline.last_final
    /\ pc = "send" =>
        /\ event \in Transcript
        /\ End(event) <= MaxU64
        /\ End(event) * SampleRate <= upstream.samples * Second + Lead * SampleRate
        /\ IsFinal(event) => wire.final.end <= event.start /\ timeline.last_final = End(event)

LiveInv == TypeOK /\ PhaseInv /\ FrameInv /\ ToldInv /\ TimeInv

-----------------------------------------------------------------------------
LEMMA DivFacts ==
    ASSUME NEW n \in Nat, NEW d \in Nat \ {0}
    PROVE  n \div d \in Nat /\ n \div d <= n /\ (n \div d) * d <= n
OBVIOUS

LEMMA MulMono ==
    ASSUME NEW a \in Nat, NEW b \in Nat, NEW c \in Nat, a <= b
    PROVE  a * c <= b * c
OBVIOUS

LEMMA DivBounds ==
    ASSUME NEW n \in Nat, NEW d \in Nat \ {0}
    PROVE  n \div d \in Nat /\ (n \div d) * d <= n /\ n < (n \div d + 1) * d
OBVIOUS

LEMMA MulCancel ==
    ASSUME NEW a \in Nat, NEW b \in Nat, NEW c \in Nat \ {0}
    PROVE  (a * c <= b * c => a <= b) /\ (a * c < b * c => a < b)
OBVIOUS

LEMMA Regroup ==
    ASSUME NEW x \in Nat, NEW y \in Nat, NEW z \in Nat
    PROVE  x * (y * z) = (x * y) * z /\ (x * y) * z = (x * z) * y /\ x * y \in Nat
OBVIOUS

\* The quotient is the largest multiplier that fits.
LEMMA DivLeast ==
    ASSUME NEW x \in Nat, NEW n \in Nat, NEW d \in Nat \ {0}, x * d <= n
    PROVE  x <= n \div d
<1> DEFINE q == n \div d
<1>1. x * d < (q + 1) * d /\ q \in Nat
  <2>1. n < (q + 1) * d /\ q \in Nat
    BY DivBounds
  <2> HIDE DEF q
  <2>2. x * d \in Nat /\ (q + 1) * d \in Nat
    BY <2>1
  <2>3. QED
    BY <2>1, <2>2
<1> HIDE DEF q
<1>2. x < q + 1
  BY <1>1, MulCancel
<1>3. QED
  BY <1>1, <1>2 DEF q

LEMMA DivMono ==
    ASSUME NEW a \in Nat, NEW b \in Nat, NEW d \in Nat \ {0}, a <= b
    PROVE  a \div d <= b \div d
BY DivBounds, DivLeast

USE DEF Millis, NoFinal

USE DEF InStream, InWrite, InDrain, Early, Alive, coordinator, locals, Pc

LEMMA LReceiveConfig == LiveInv /\ ReceiveConfig => LiveInv'
BY DEF LiveInv, TypeOK, PhaseInv, FrameInv, ToldInv, TimeInv, WithinHeardAudio, ReceiveConfig

LEMMA LOpenFails == LiveInv /\ OpenFails => LiveInv'
BY DEF LiveInv, TypeOK, PhaseInv, FrameInv, ToldInv, TimeInv, WithinHeardAudio, OpenFails

LEMMA LClientRejected == LiveInv /\ ClientRejected => LiveInv'
BY DEF LiveInv, TypeOK, PhaseInv, FrameInv, ToldInv, TimeInv, WithinHeardAudio, ClientRejected

LEMMA LClientClose == LiveInv /\ ClientClose => LiveInv'
BY DEF LiveInv, TypeOK, PhaseInv, FrameInv, ToldInv, TimeInv, WithinHeardAudio, ClientClose

LEMMA LClientPing == LiveInv /\ ClientPing => LiveInv'
BY DEF LiveInv, TypeOK, PhaseInv, FrameInv, ToldInv, TimeInv, WithinHeardAudio, ClientPing

LEMMA LIdleTimeout == LiveInv /\ IdleTimeout => LiveInv'
BY DEF LiveInv, TypeOK, PhaseInv, FrameInv, ToldInv, TimeInv, WithinHeardAudio, IdleTimeout

LEMMA LSessionTimeout == LiveInv /\ SessionTimeout => LiveInv'
BY DEF LiveInv, TypeOK, PhaseInv, FrameInv, ToldInv, TimeInv, WithinHeardAudio, SessionTimeout

LEMMA LSendPong == LiveInv /\ SendPong => LiveInv'
BY DEF LiveInv, TypeOK, PhaseInv, FrameInv, ToldInv, TimeInv, WithinHeardAudio, SendPong

LEMMA LProviderCloses == LiveInv /\ ProviderCloses => LiveInv'
BY DEF LiveInv, TypeOK, PhaseInv, FrameInv, ToldInv, TimeInv, WithinHeardAudio, ProviderCloses

LEMMA LDrainInterrupted == LiveInv /\ DrainInterrupted => LiveInv'
BY DEF LiveInv, TypeOK, PhaseInv, FrameInv, ToldInv, TimeInv, WithinHeardAudio, DrainInterrupted

LEMMA LDone == LiveInv /\ Done => LiveInv'
BY DEF LiveInv, TypeOK, PhaseInv, FrameInv, ToldInv, TimeInv, WithinHeardAudio, Done, vars

LEMMA LOpenSucceeds == LiveInv /\ OpenSucceeds => LiveInv'
<1> SUFFICES ASSUME LiveInv, OpenSucceeds PROVE LiveInv'
  OBVIOUS
<1> USE DEF LiveInv, OpenSucceeds
<1>1. TypeOK'
  BY DEF LiveInv, TypeOK, PhaseInv, FrameInv, ToldInv, TimeInv, WithinHeardAudio, mark_ready, NewSession, Session, Phases, Upstream
<1>2. PhaseInv'
  BY DEF LiveInv, TypeOK, PhaseInv, FrameInv, ToldInv, TimeInv, WithinHeardAudio, mark_ready, NewSession, Session, Phases, Upstream
<1>3. FrameInv'
  BY DEF LiveInv, TypeOK, PhaseInv, FrameInv, ToldInv, TimeInv, WithinHeardAudio, mark_ready, NewSession, Session, Phases, Upstream
<1>4. ToldInv'
  BY DEF LiveInv, TypeOK, PhaseInv, FrameInv, ToldInv, TimeInv, WithinHeardAudio, mark_ready, NewSession, Session, Phases, Upstream
<1>5. TimeInv'
  BY DEF LiveInv, TypeOK, PhaseInv, FrameInv, ToldInv, TimeInv, WithinHeardAudio, mark_ready, NewSession, Session, Phases, Upstream
<1>6. QED
  BY <1>1, <1>2, <1>3, <1>4, <1>5

LEMMA LSendReady == LiveInv /\ SendReady => LiveInv'
<1> SUFFICES ASSUME LiveInv, SendReady PROVE LiveInv'
  OBVIOUS
<1> USE DEF LiveInv, SendReady
<1>1. TypeOK'
  BY DEF LiveInv, TypeOK, PhaseInv, FrameInv, ToldInv, TimeInv, WithinHeardAudio, Wire
<1>2. PhaseInv'
  BY DEF LiveInv, TypeOK, PhaseInv, FrameInv, ToldInv, TimeInv, WithinHeardAudio, Wire
<1>3. FrameInv'
  BY DEF LiveInv, TypeOK, PhaseInv, FrameInv, ToldInv, TimeInv, WithinHeardAudio, Wire
<1>4. ToldInv'
  BY DEF LiveInv, TypeOK, PhaseInv, FrameInv, ToldInv, TimeInv, WithinHeardAudio, Wire
<1>5. TimeInv'
  BY DEF LiveInv, TypeOK, PhaseInv, FrameInv, ToldInv, TimeInv, WithinHeardAudio, Wire
<1>6. QED
  BY <1>1, <1>2, <1>3, <1>4, <1>5

LEMMA LSendReadyFails == LiveInv /\ SendReadyFails => LiveInv'
<1> SUFFICES ASSUME LiveInv, SendReadyFails PROVE LiveInv'
  OBVIOUS
<1> USE DEF LiveInv, SendReadyFails
<1>1. TypeOK'
  BY DEF LiveInv, TypeOK, PhaseInv, FrameInv, ToldInv, TimeInv, WithinHeardAudio, Wire
<1>2. PhaseInv'
  BY DEF LiveInv, TypeOK, PhaseInv, FrameInv, ToldInv, TimeInv, WithinHeardAudio, Wire
<1>3. FrameInv'
  BY DEF LiveInv, TypeOK, PhaseInv, FrameInv, ToldInv, TimeInv, WithinHeardAudio, Wire
<1>4. ToldInv'
  BY DEF LiveInv, TypeOK, PhaseInv, FrameInv, ToldInv, TimeInv, WithinHeardAudio, Wire
<1>5. TimeInv'
  BY DEF LiveInv, TypeOK, PhaseInv, FrameInv, ToldInv, TimeInv, WithinHeardAudio, Wire
<1>6. QED
  BY <1>1, <1>2, <1>3, <1>4, <1>5

LEMMA LSendAck == LiveInv /\ SendAck => LiveInv'
<1> SUFFICES ASSUME LiveInv, SendAck PROVE LiveInv'
  OBVIOUS
<1> USE DEF LiveInv
<1>1. /\ pc = "ack" /\ pc' = "select"
      /\ sess' = mark_ack_sent(sess, sess.last)
      /\ accepted_audio' = TRUE
      /\ wire' = [wire EXCEPT !.acks = sess.last]
      /\ UNCHANGED <<back, timeline, pcm, event, saw_result, successful, upstream>>
  BY DEF SendAck, PhaseInv, CanConfirmAck
<1>2. /\ sess' \in Session
      /\ sess'.pending = {} /\ sess'.written = {}
      /\ sess'.phase = sess.phase /\ sess'.last = sess.last
      /\ sess'.accepted = sess.accepted
  BY <1>1 DEF mark_ack_sent, PhaseInv, TypeOK, Session
<1>3. /\ wire' \in Wire
      /\ wire'.acks = sess.last
      /\ wire'.ready = wire.ready /\ wire'.verdict = wire.verdict
      /\ wire'.close = wire.close /\ wire'.end = wire.end /\ wire'.final = wire.final
  BY <1>1 DEF TypeOK, Wire, Session
<1>4. TypeOK'
  BY <1>1, <1>2, <1>3 DEF TypeOK
<1>5. PhaseInv'
  BY <1>1, <1>2 DEF PhaseInv
<1>6. FrameInv'
  BY <1>1, <1>2, <1>3 DEF FrameInv, TypeOK, Session, Wire
<1>7. ToldInv'
  BY <1>1, <1>3 DEF ToldInv
<1>8. TimeInv'
  BY <1>1, <1>3 DEF TimeInv, WithinHeardAudio
<1>9. QED
  BY <1>4, <1>5, <1>6, <1>7, <1>8

LEMMA LSendAckFails == LiveInv /\ SendAckFails => LiveInv'
<1> SUFFICES ASSUME LiveInv, SendAckFails PROVE LiveInv'
  OBVIOUS
<1> USE DEF LiveInv, SendAckFails
<1>1. TypeOK'
  BY DEF LiveInv, TypeOK, PhaseInv, FrameInv, ToldInv, TimeInv, WithinHeardAudio, Wire, Session
<1>2. PhaseInv'
  BY DEF LiveInv, TypeOK, PhaseInv, FrameInv, ToldInv, TimeInv, WithinHeardAudio, Wire, Session
<1>3. FrameInv'
  BY DEF LiveInv, TypeOK, PhaseInv, FrameInv, ToldInv, TimeInv, WithinHeardAudio, Wire, Session
<1>4. ToldInv'
  BY DEF LiveInv, TypeOK, PhaseInv, FrameInv, ToldInv, TimeInv, WithinHeardAudio, Wire, Session
<1>5. TimeInv'
  BY DEF LiveInv, TypeOK, PhaseInv, FrameInv, ToldInv, TimeInv, WithinHeardAudio, Wire, Session
<1>6. QED
  BY <1>1, <1>2, <1>3, <1>4, <1>5

LEMMA LSendError == LiveInv /\ SendError => LiveInv'
<1> SUFFICES ASSUME LiveInv, SendError PROVE LiveInv'
  OBVIOUS
<1> USE DEF LiveInv, SendError
<1>1. TypeOK'
  BY DEF LiveInv, TypeOK, PhaseInv, FrameInv, ToldInv, TimeInv, WithinHeardAudio, Wire
<1>2. PhaseInv'
  BY DEF LiveInv, TypeOK, PhaseInv, FrameInv, ToldInv, TimeInv, WithinHeardAudio, Wire
<1>3. FrameInv'
  BY DEF LiveInv, TypeOK, PhaseInv, FrameInv, ToldInv, TimeInv, WithinHeardAudio, Wire
<1>4. ToldInv'
  BY DEF LiveInv, TypeOK, PhaseInv, FrameInv, ToldInv, TimeInv, WithinHeardAudio, Wire
<1>5. TimeInv'
  BY DEF LiveInv, TypeOK, PhaseInv, FrameInv, ToldInv, TimeInv, WithinHeardAudio, Wire
<1>6. QED
  BY <1>1, <1>2, <1>3, <1>4, <1>5

LEMMA LCloseSocket == LiveInv /\ CloseSocket => LiveInv'
<1> SUFFICES ASSUME LiveInv, CloseSocket PROVE LiveInv'
  OBVIOUS
<1> USE DEF LiveInv, CloseSocket
<1>1. TypeOK'
  BY DEF LiveInv, TypeOK, PhaseInv, FrameInv, ToldInv, TimeInv, WithinHeardAudio, Wire
<1>2. PhaseInv'
  BY DEF LiveInv, TypeOK, PhaseInv, FrameInv, ToldInv, TimeInv, WithinHeardAudio, Wire
<1>3. FrameInv'
  BY DEF LiveInv, TypeOK, PhaseInv, FrameInv, ToldInv, TimeInv, WithinHeardAudio, Wire
<1>4. ToldInv'
  BY DEF LiveInv, TypeOK, PhaseInv, FrameInv, ToldInv, TimeInv, WithinHeardAudio, Wire
<1>5. TimeInv'
  BY DEF LiveInv, TypeOK, PhaseInv, FrameInv, ToldInv, TimeInv, WithinHeardAudio, Wire
<1>6. QED
  BY <1>1, <1>2, <1>3, <1>4, <1>5

LEMMA LCloseCoordinator == LiveInv /\ CloseCoordinator => LiveInv'
<1> SUFFICES ASSUME LiveInv, CloseCoordinator PROVE LiveInv'
  OBVIOUS
<1> USE DEF LiveInv, CloseCoordinator
<1>1. TypeOK'
  <2>1. sess' \in Session
    BY DEF TypeOK, Session, Phases, close, IsOver
  <2>2. QED
    BY <2>1 DEF TypeOK, Upstream
<1>2. PhaseInv' /\ FrameInv' /\ ToldInv' /\ TimeInv'
  BY DEF TypeOK, PhaseInv, FrameInv, ToldInv, TimeInv, WithinHeardAudio, Upstream
<1>3. QED
  BY <1>1, <1>2

LEMMA LSendVerdict == LiveInv /\ SendVerdict => LiveInv'
<1> SUFFICES ASSUME LiveInv, SendVerdict PROVE LiveInv'
  OBVIOUS
<1> USE DEF LiveInv, SendVerdict
<1>1. TypeOK'
  BY DEF LiveInv, TypeOK, PhaseInv, FrameInv, ToldInv, TimeInv, WithinHeardAudio, Wire, Requested, FinalizeStatus
<1>2. PhaseInv'
  BY DEF LiveInv, TypeOK, PhaseInv, FrameInv, ToldInv, TimeInv, WithinHeardAudio, Wire, Requested, FinalizeStatus
<1>3. FrameInv'
  BY DEF LiveInv, TypeOK, PhaseInv, FrameInv, ToldInv, TimeInv, WithinHeardAudio, Wire, Requested, FinalizeStatus
<1>4. ToldInv'
  BY DEF LiveInv, TypeOK, PhaseInv, FrameInv, ToldInv, TimeInv, WithinHeardAudio, Wire, Requested, FinalizeStatus
<1>5. TimeInv'
  BY DEF LiveInv, TypeOK, PhaseInv, FrameInv, ToldInv, TimeInv, WithinHeardAudio, Wire, Requested, FinalizeStatus
<1>6. QED
  BY <1>1, <1>2, <1>3, <1>4, <1>5

LEMMA LSendVerdictFails == LiveInv /\ SendVerdictFails => LiveInv'
<1> SUFFICES ASSUME LiveInv, SendVerdictFails PROVE LiveInv'
  OBVIOUS
<1> USE DEF LiveInv, SendVerdictFails
<1>1. TypeOK'
  BY DEF LiveInv, TypeOK, PhaseInv, FrameInv, ToldInv, TimeInv, WithinHeardAudio, Wire, Requested, FinalizeStatus
<1>2. PhaseInv'
  BY DEF LiveInv, TypeOK, PhaseInv, FrameInv, ToldInv, TimeInv, WithinHeardAudio, Wire, Requested, FinalizeStatus
<1>3. FrameInv'
  BY DEF LiveInv, TypeOK, PhaseInv, FrameInv, ToldInv, TimeInv, WithinHeardAudio, Wire, Requested, FinalizeStatus
<1>4. ToldInv'
  BY DEF LiveInv, TypeOK, PhaseInv, FrameInv, ToldInv, TimeInv, WithinHeardAudio, Wire, Requested, FinalizeStatus
<1>5. TimeInv'
  BY DEF LiveInv, TypeOK, PhaseInv, FrameInv, ToldInv, TimeInv, WithinHeardAudio, Wire, Requested, FinalizeStatus
<1>6. QED
  BY <1>1, <1>2, <1>3, <1>4, <1>5

LEMMA LProviderFinalizeSucceeds == LiveInv /\ ProviderFinalizeSucceeds => LiveInv'
<1> SUFFICES ASSUME LiveInv, ProviderFinalizeSucceeds PROVE LiveInv'
  OBVIOUS
<1> USE DEF LiveInv, ProviderFinalizeSucceeds
<1>1. TypeOK'
  BY DEF LiveInv, TypeOK, PhaseInv, FrameInv, ToldInv, TimeInv, WithinHeardAudio, Upstream
<1>2. PhaseInv'
  BY DEF LiveInv, TypeOK, PhaseInv, FrameInv, ToldInv, TimeInv, WithinHeardAudio, Upstream
<1>3. FrameInv'
  BY DEF LiveInv, TypeOK, PhaseInv, FrameInv, ToldInv, TimeInv, WithinHeardAudio, Upstream
<1>4. ToldInv'
  BY DEF LiveInv, TypeOK, PhaseInv, FrameInv, ToldInv, TimeInv, WithinHeardAudio, Upstream
<1>5. TimeInv'
  BY DEF LiveInv, TypeOK, PhaseInv, FrameInv, ToldInv, TimeInv, WithinHeardAudio, Upstream
<1>6. QED
  BY <1>1, <1>2, <1>3, <1>4, <1>5

LEMMA LProviderFinalizeFails == LiveInv /\ ProviderFinalizeFails => LiveInv'
<1> SUFFICES ASSUME LiveInv, ProviderFinalizeFails PROVE LiveInv'
  OBVIOUS
<1> USE DEF LiveInv, ProviderFinalizeFails
<1>1. TypeOK'
  BY DEF LiveInv, TypeOK, PhaseInv, FrameInv, ToldInv, TimeInv, WithinHeardAudio, Upstream, RequestCut, fail, IsOver, Session, Phases
<1>2. PhaseInv'
  BY DEF LiveInv, TypeOK, PhaseInv, FrameInv, ToldInv, TimeInv, WithinHeardAudio, Upstream, RequestCut, fail, IsOver, Session, Phases
<1>3. FrameInv'
  BY DEF LiveInv, TypeOK, PhaseInv, FrameInv, ToldInv, TimeInv, WithinHeardAudio, Upstream, RequestCut, fail, IsOver, Session, Phases
<1>4. ToldInv'
  BY DEF LiveInv, TypeOK, PhaseInv, FrameInv, ToldInv, TimeInv, WithinHeardAudio, Upstream, RequestCut, fail, IsOver, Session, Phases
<1>5. TimeInv'
  BY DEF LiveInv, TypeOK, PhaseInv, FrameInv, ToldInv, TimeInv, WithinHeardAudio, Upstream, RequestCut, fail, IsOver, Session, Phases
<1>6. QED
  BY <1>1, <1>2, <1>3, <1>4, <1>5

LEMMA LFinalizeCancelled == LiveInv /\ FinalizeCancelled => LiveInv'
<1> SUFFICES ASSUME LiveInv, FinalizeCancelled PROVE LiveInv'
  OBVIOUS
<1> USE DEF LiveInv, FinalizeCancelled
<1>1. TypeOK'
  BY DEF LiveInv, TypeOK, PhaseInv, FrameInv, ToldInv, TimeInv, WithinHeardAudio, Upstream, RequestCut
<1>2. PhaseInv'
  BY DEF LiveInv, TypeOK, PhaseInv, FrameInv, ToldInv, TimeInv, WithinHeardAudio, Upstream, RequestCut
<1>3. FrameInv'
  BY DEF LiveInv, TypeOK, PhaseInv, FrameInv, ToldInv, TimeInv, WithinHeardAudio, Upstream, RequestCut
<1>4. ToldInv'
  BY DEF LiveInv, TypeOK, PhaseInv, FrameInv, ToldInv, TimeInv, WithinHeardAudio, Upstream, RequestCut
<1>5. TimeInv'
  BY DEF LiveInv, TypeOK, PhaseInv, FrameInv, ToldInv, TimeInv, WithinHeardAudio, Upstream, RequestCut
<1>6. QED
  BY <1>1, <1>2, <1>3, <1>4, <1>5

LEMMA LClientFinalize == LiveInv /\ ClientFinalize => LiveInv'
<1> SUFFICES ASSUME LiveInv, ClientFinalize PROVE LiveInv'
  OBVIOUS
<1> USE DEF LiveInv, ClientFinalize
<1>1. TypeOK'
  BY ZenonT(60) DEF LiveInv, TypeOK, PhaseInv, FrameInv, ToldInv, TimeInv, WithinHeardAudio, CanBeginFinalize, begin_finalize, Session, Phases
<1>2. PhaseInv'
  BY DEF LiveInv, TypeOK, PhaseInv, FrameInv, ToldInv, TimeInv, WithinHeardAudio, CanBeginFinalize, begin_finalize, Session, Phases
<1>3. FrameInv'
  BY ZenonT(60) DEF LiveInv, TypeOK, PhaseInv, FrameInv, ToldInv, TimeInv, WithinHeardAudio, CanBeginFinalize, begin_finalize, Session, Phases
<1>4. ToldInv'
  BY DEF LiveInv, TypeOK, PhaseInv, FrameInv, ToldInv, TimeInv, WithinHeardAudio, CanBeginFinalize, begin_finalize, Session, Phases
<1>5. TimeInv'
  BY DEF LiveInv, TypeOK, PhaseInv, FrameInv, ToldInv, TimeInv, WithinHeardAudio, CanBeginFinalize, begin_finalize, Session, Phases
<1>6. QED
  BY <1>1, <1>2, <1>3, <1>4, <1>5

LEMMA LProviderFails == LiveInv /\ ProviderFails => LiveInv'
<1> SUFFICES ASSUME LiveInv, ProviderFails PROVE LiveInv'
  OBVIOUS
<1> USE DEF LiveInv, ProviderFails
<1>1. TypeOK'
  BY DEF LiveInv, TypeOK, PhaseInv, FrameInv, ToldInv, TimeInv, WithinHeardAudio, Receiving, fail, IsOver, Session, Phases
<1>2. PhaseInv'
  BY DEF LiveInv, TypeOK, PhaseInv, FrameInv, ToldInv, TimeInv, WithinHeardAudio, Receiving, fail, IsOver, Session, Phases
<1>3. FrameInv'
  BY DEF LiveInv, TypeOK, PhaseInv, FrameInv, ToldInv, TimeInv, WithinHeardAudio, Receiving, fail, IsOver, Session, Phases
<1>4. ToldInv'
  BY DEF LiveInv, TypeOK, PhaseInv, FrameInv, ToldInv, TimeInv, WithinHeardAudio, Receiving, fail, IsOver, Session, Phases
<1>5. TimeInv'
  BY DEF LiveInv, TypeOK, PhaseInv, FrameInv, ToldInv, TimeInv, WithinHeardAudio, Receiving, fail, IsOver, Session, Phases
<1>6. QED
  BY <1>1, <1>2, <1>3, <1>4, <1>5

LEMMA LProviderUtteranceEnd == ASSUME NEW end, LiveInv, ProviderUtteranceEnd(end) PROVE LiveInv'
<1> USE DEF LiveInv, ProviderUtteranceEnd
<1>1. TypeOK'
  BY DEF LiveInv, TypeOK, PhaseInv, FrameInv, ToldInv, TimeInv, WithinHeardAudio, Receiving, fail, IsOver, Session, Phases
<1>2. PhaseInv'
  BY DEF LiveInv, TypeOK, PhaseInv, FrameInv, ToldInv, TimeInv, WithinHeardAudio, Receiving, fail, IsOver, Session, Phases
<1>3. FrameInv'
  BY DEF LiveInv, TypeOK, PhaseInv, FrameInv, ToldInv, TimeInv, WithinHeardAudio, Receiving, fail, IsOver, Session, Phases
<1>4. ToldInv'
  BY DEF LiveInv, TypeOK, PhaseInv, FrameInv, ToldInv, TimeInv, WithinHeardAudio, Receiving, fail, IsOver, Session, Phases
<1>5. TimeInv'
  BY DEF LiveInv, TypeOK, PhaseInv, FrameInv, ToldInv, TimeInv, WithinHeardAudio, Receiving, fail, IsOver, Session, Phases
<1>6. QED
  BY <1>1, <1>2, <1>3, <1>4, <1>5

LEMMA LProviderFinalizeResult == LiveInv /\ ProviderFinalizeResult => LiveInv'
<1> SUFFICES ASSUME LiveInv, ProviderFinalizeResult PROVE LiveInv'
  OBVIOUS
<1> USE DEF LiveInv, ProviderFinalizeResult
<1>1. TypeOK'
  <2>1. sess' \in Session
    BY DEF TypeOK, Session, Phases, mark_finalize_result_observed, fail, IsOver
  <2>2. upstream' \in Upstream /\ saw_result' \in BOOLEAN /\ pc' \in Pc
    BY DEF TypeOK, Upstream
  <2>3. QED
    BY <2>1, <2>2 DEF TypeOK
<1>2. PhaseInv'
  BY DEF LiveInv, TypeOK, PhaseInv, FrameInv, ToldInv, TimeInv, WithinHeardAudio, Receiving, CanObserve, fail, mark_finalize_result_observed, IsOver, Session, Phases, Upstream
<1>3. FrameInv'
  BY DEF LiveInv, TypeOK, PhaseInv, FrameInv, ToldInv, TimeInv, WithinHeardAudio, Receiving, CanObserve, fail, mark_finalize_result_observed, IsOver, Session, Phases, Upstream
<1>4. ToldInv'
  BY DEF LiveInv, TypeOK, PhaseInv, FrameInv, ToldInv, TimeInv, WithinHeardAudio, Receiving, CanObserve, fail, mark_finalize_result_observed, IsOver, Session, Phases, Upstream
<1>5. TimeInv'
  BY DEF LiveInv, TypeOK, PhaseInv, FrameInv, ToldInv, TimeInv, WithinHeardAudio, Receiving, CanObserve, fail, mark_finalize_result_observed, IsOver, Session, Phases, Upstream
<1>6. QED
  BY <1>1, <1>2, <1>3, <1>4, <1>5

LEMMA LDrainEnds == LiveInv /\ DrainEnds => LiveInv'
<1> SUFFICES ASSUME LiveInv, DrainEnds PROVE LiveInv'
  OBVIOUS
<1> USE DEF LiveInv, DrainEnds
<1>1. TypeOK'
  BY DEF LiveInv, TypeOK, PhaseInv, FrameInv, ToldInv, TimeInv, WithinHeardAudio, CompleteFinalize, complete_finalize, CanCompleteFinalize, Session, Phases
<1>2. PhaseInv'
  BY DEF LiveInv, TypeOK, PhaseInv, FrameInv, ToldInv, TimeInv, WithinHeardAudio, CompleteFinalize, complete_finalize, CanCompleteFinalize, Session, Phases
<1>3. FrameInv'
  BY DEF LiveInv, TypeOK, PhaseInv, FrameInv, ToldInv, TimeInv, WithinHeardAudio, CompleteFinalize, complete_finalize, CanCompleteFinalize, Session, Phases
<1>4. ToldInv'
  BY DEF LiveInv, TypeOK, PhaseInv, FrameInv, ToldInv, TimeInv, WithinHeardAudio, CompleteFinalize, complete_finalize, CanCompleteFinalize, Session, Phases
<1>5. TimeInv'
  BY DEF LiveInv, TypeOK, PhaseInv, FrameInv, ToldInv, TimeInv, WithinHeardAudio, CompleteFinalize, complete_finalize, CanCompleteFinalize, Session, Phases
<1>6. QED
  BY <1>1, <1>2, <1>3, <1>4, <1>5

LEMMA LDrainTimeout == LiveInv /\ DrainTimeout => LiveInv'
<1> SUFFICES ASSUME LiveInv, DrainTimeout PROVE LiveInv'
  OBVIOUS
<1> USE DEF LiveInv, DrainTimeout
<1>1. TypeOK'
  BY DEF LiveInv, TypeOK, PhaseInv, FrameInv, ToldInv, TimeInv, WithinHeardAudio, CompleteFinalize, complete_finalize, CanCompleteFinalize, Session, Phases
<1>2. PhaseInv'
  BY DEF LiveInv, TypeOK, PhaseInv, FrameInv, ToldInv, TimeInv, WithinHeardAudio, CompleteFinalize, complete_finalize, CanCompleteFinalize, Session, Phases
<1>3. FrameInv'
  BY DEF LiveInv, TypeOK, PhaseInv, FrameInv, ToldInv, TimeInv, WithinHeardAudio, CompleteFinalize, complete_finalize, CanCompleteFinalize, Session, Phases
<1>4. ToldInv'
  BY DEF LiveInv, TypeOK, PhaseInv, FrameInv, ToldInv, TimeInv, WithinHeardAudio, CompleteFinalize, complete_finalize, CanCompleteFinalize, Session, Phases
<1>5. TimeInv'
  BY DEF LiveInv, TypeOK, PhaseInv, FrameInv, ToldInv, TimeInv, WithinHeardAudio, CompleteFinalize, complete_finalize, CanCompleteFinalize, Session, Phases
<1>6. QED
  BY <1>1, <1>2, <1>3, <1>4, <1>5

LEMMA LClientAudio == ASSUME NEW bytes \in PcmLengths, LiveInv, ClientAudio(bytes) PROVE LiveInv'
<1> USE DEF LiveInv
<1>1. CASE CanPrepareAudioWrite(timeline, bytes) /\ CanAcceptAudio(sess)
  <2>1. /\ pc = "select" /\ pc' = "write" /\ pcm' = bytes
        /\ sess' = accept_audio(sess)
        /\ UNCHANGED <<back, timeline, event, locals, wire, upstream>>
    BY <1>1 DEF ClientAudio
  <2>2. sess.pending = {} /\ sess.written = {} /\ sess.phase = "streaming" /\ sess.last < MaxSequence
    BY <1>1, <2>1 DEF PhaseInv, CanAcceptAudio
  <2>3. sess \in Session /\ sess.last + 1 \in 1 .. MaxSequence
    BY <2>2, SequenceAssumption DEF TypeOK, Session
  <2>4. sess' = [sess EXCEPT !.pending = {sess.last + 1}, !.last = sess.last + 1, !.accepted = TRUE]
    BY <2>1, <2>2, <2>3 DEF accept_audio, Session
  <2>5. /\ sess' \in Session
        /\ sess'.pending = {sess'.last} /\ sess'.written = {} /\ sess'.phase = "streaming"
        /\ sess'.last = sess.last + 1 /\ sess'.accepted = TRUE
    <3>1. {sess.last + 1} \in SUBSET (1 .. MaxSequence) /\ sess.last + 1 \in 0 .. MaxSequence
      BY <2>3
    <3>2. sess' \in Session
      BY <2>3, <2>4, <3>1 DEF Session
    <3>3. QED
      BY <2>2, <2>3, <2>4, <3>2 DEF Session
  <2>6. TypeOK'
    BY <2>1, <2>5 DEF TypeOK
  <2>7. PhaseInv'
    BY <1>1, <2>1, <2>5 DEF PhaseInv, CanPrepareAudioWrite, total_sample_frames
  <2>8. FrameInv'
    BY <2>1, <2>3, <2>5 DEF FrameInv, TypeOK, Wire, Session
  <2>9. ToldInv' /\ TimeInv'
    BY <2>1 DEF ToldInv, TimeInv, WithinHeardAudio
  <2>10. QED
    BY <2>6, <2>7, <2>8, <2>9
<1>2. CASE ~(CanPrepareAudioWrite(timeline, bytes) /\ CanAcceptAudio(sess))
  BY <1>2 DEF ClientAudio, TypeOK, PhaseInv, FrameInv, ToldInv, TimeInv, WithinHeardAudio
<1>3. QED
  BY <1>1, <1>2

LEMMA ToldType ==
    ASSUME NEW tr \in Transcript, wire \in Wire, End(tr) <= MaxU64
    PROVE  Told(tr) \in Wire
<1> DEFINE end == IF End(tr) > wire.end THEN End(tr) ELSE wire.end
           final == IF IsFinal(tr) THEN [start |-> tr.start, end |-> End(tr)] ELSE wire.final
<1>1. tr.start \in Millis /\ End(tr) \in Millis
  BY BoundAssumption DEF Transcript, End
<1>2. end \in Millis /\ final \in [start : Millis, end : Millis]
  BY <1>1 DEF Wire
<1>3. Told(tr) = [wire EXCEPT !.end = end, !.final = final]
  BY DEF Told, Wire
<1>4. QED
  BY <1>2, <1>3 DEF Wire

LEMMA LSendTranscript == LiveInv /\ SendTranscript => LiveInv'
<1> SUFFICES ASSUME LiveInv, SendTranscript PROVE LiveInv'
  OBVIOUS
<1> USE DEF LiveInv, SendTranscript
<1>1. TypeOK'
  <2>1. Told(event) \in Wire
    BY ToldType DEF TypeOK, TimeInv
  <2>2. QED
    BY <2>1 DEF TypeOK, PhaseInv
<1>2. PhaseInv'
  BY DEF LiveInv, TypeOK, PhaseInv, FrameInv, ToldInv, TimeInv, WithinHeardAudio, Told, IsFinal, End, Wire, Transcript
<1>3. FrameInv'
  BY DEF LiveInv, TypeOK, PhaseInv, FrameInv, ToldInv, TimeInv, WithinHeardAudio, Told, IsFinal, End, Wire, Transcript
<1>4. ToldInv'
  BY DEF LiveInv, TypeOK, PhaseInv, FrameInv, ToldInv, TimeInv, WithinHeardAudio, Told, IsFinal, End, Wire, Transcript
<1>5. TimeInv'
  BY DEF LiveInv, TypeOK, PhaseInv, FrameInv, ToldInv, TimeInv, WithinHeardAudio, Told, IsFinal, End, Wire, Transcript
<1>6. QED
  BY <1>1, <1>2, <1>3, <1>4, <1>5

LEMMA LSendTranscriptFails == LiveInv /\ SendTranscriptFails => LiveInv'
<1> SUFFICES ASSUME LiveInv, SendTranscriptFails PROVE LiveInv'
  OBVIOUS
<1> USE DEF LiveInv, SendTranscriptFails
<1>1. TypeOK'
  <2>1. Told(event) \in Wire
    BY ToldType DEF TypeOK, TimeInv
  <2>2. QED
    BY <2>1 DEF TypeOK, PhaseInv
<1>2. PhaseInv'
  BY DEF LiveInv, TypeOK, PhaseInv, FrameInv, ToldInv, TimeInv, WithinHeardAudio, Told, IsFinal, End, Wire, Transcript
<1>3. FrameInv'
  BY DEF LiveInv, TypeOK, PhaseInv, FrameInv, ToldInv, TimeInv, WithinHeardAudio, Told, IsFinal, End, Wire, Transcript
<1>4. ToldInv'
  BY DEF LiveInv, TypeOK, PhaseInv, FrameInv, ToldInv, TimeInv, WithinHeardAudio, Told, IsFinal, End, Wire, Transcript
<1>5. TimeInv'
  BY DEF LiveInv, TypeOK, PhaseInv, FrameInv, ToldInv, TimeInv, WithinHeardAudio, Told, IsFinal, End, Wire, Transcript
<1>6. QED
  BY <1>1, <1>2, <1>3, <1>4, <1>5

(* A frame that the provider hears, completely or in part *)

LEMMA HeardFacts ==
    ASSUME LiveInv, InWrite
    PROVE  /\ FrameHeard \in Upstream
           /\ FrameHeard = [upstream EXCEPT !.heard = sess.last,
                                           !.samples = total_sample_frames(timeline, pcm)]
           /\ upstream.samples <= total_sample_frames(timeline, pcm)
           /\ total_sample_frames(timeline, pcm) \in Millis
           /\ pcm \in Nat
<1> USE DEF LiveInv
<1>1. pcm \in Nat /\ pcm \div BytesPerSampleFrame \in Nat
  BY DivFacts, InputAssumption, RateAssumption DEF TypeOK
<1>2. /\ upstream \in Upstream /\ timeline.samples = upstream.samples
      /\ upstream.heard + 1 = sess.last /\ sess.last \in 0 .. MaxSequence
      /\ total_sample_frames(timeline, pcm) <= MaxU64
  BY DEF TypeOK, FrameInv, PhaseInv, Session, CanPrepareAudioWrite
<1>3. /\ upstream.samples \in Nat
      /\ total_sample_frames(timeline, pcm) = upstream.samples + pcm \div BytesPerSampleFrame
  BY <1>2, BoundAssumption DEF total_sample_frames, Upstream
<1>4. /\ upstream.samples <= total_sample_frames(timeline, pcm)
      /\ total_sample_frames(timeline, pcm) \in Millis
  BY <1>1, <1>2, <1>3, BoundAssumption
<1>5. FrameHeard = [upstream EXCEPT !.heard = sess.last,
                                    !.samples = total_sample_frames(timeline, pcm)]
  BY <1>2, <1>3 DEF FrameHeard, Upstream
<1>6. FrameHeard \in Upstream
  BY <1>2, <1>4, <1>5 DEF Upstream
<1>7. QED
  BY <1>1, <1>4, <1>5, <1>6

LEMMA MoreHeard ==
    ASSUME LiveInv, NEW n \in Millis, upstream.samples <= n
    PROVE  wire.end * SampleRate <= n * Second + Lead * SampleRate
<1>1. upstream.samples \in Nat /\ wire.end \in Nat
  BY BoundAssumption DEF LiveInv, TypeOK, Upstream, Wire
<1>2. upstream.samples * Second <= n * Second
  BY <1>1, MulMono, RateAssumption
<1>3. wire.end * SampleRate <= upstream.samples * Second + Lead * SampleRate
  BY DEF LiveInv, TimeInv, WithinHeardAudio
<1>4. QED
  BY <1>1, <1>2, <1>3, RateAssumption, BoundAssumption

\* A write that was cut leaves the session on its way to the closes.
LEMMA CutStep ==
    ASSUME LiveInv, InWrite, WriteCut, pc' = "fail", pcm' = 0,
           sess' \in Session,
           UNCHANGED <<back, timeline, event, locals, wire>>
    PROVE  LiveInv'
<1> USE DEF LiveInv
<1>1. PICK u \in {upstream, FrameHeard} : upstream' = [u EXCEPT !.spoiled = TRUE]
  BY DEF WriteCut
<1>2. u \in Upstream /\ u.samples \in Millis /\ upstream.samples <= u.samples
  <2>1. upstream \in Upstream /\ upstream.samples \in Millis /\ upstream.samples <= upstream.samples
    BY BoundAssumption DEF TypeOK, Upstream
  <2>2. FrameHeard \in Upstream /\ FrameHeard.samples = total_sample_frames(timeline, pcm)
    BY <2>1, HeardFacts DEF Upstream
  <2>3. FrameHeard.samples \in Millis /\ upstream.samples <= FrameHeard.samples
    BY <2>2, HeardFacts
  <2>4. QED
    BY <2>1, <2>2, <2>3
<1>3. upstream' \in Upstream /\ upstream'.samples = u.samples
  BY <1>1, <1>2 DEF Upstream
<1>4. TypeOK'
  BY <1>3 DEF TypeOK
<1>5. PhaseInv' /\ FrameInv' /\ ToldInv'
  BY DEF PhaseInv, FrameInv, ToldInv
<1>6. TimeInv'
  BY <1>2, <1>3, MoreHeard DEF TimeInv, WithinHeardAudio
<1>7. QED
  BY <1>4, <1>5, <1>6

LEMMA LProviderWriteFails == LiveInv /\ ProviderWriteFails => LiveInv'
<1> SUFFICES ASSUME LiveInv, ProviderWriteFails PROVE LiveInv'
  OBVIOUS
<1>1. sess' \in Session
  BY DEF ProviderWriteFails, LiveInv, TypeOK, Session, Phases, fail, IsOver
<1>2. QED
  BY <1>1, CutStep DEF ProviderWriteFails

LEMMA LWriteCancelled == LiveInv /\ WriteCancelled => LiveInv'
BY CutStep DEF WriteCancelled, LiveInv, TypeOK

LEMMA LWriteTimeout == LiveInv /\ WriteTimeout => LiveInv'
BY CutStep DEF WriteTimeout, LiveInv, TypeOK

LEMMA LSendPongFails == LiveInv /\ SendPongFails => LiveInv'
<1> SUFFICES ASSUME LiveInv, SendPongFails PROVE LiveInv'
  OBVIOUS
<1>1. CASE back = "write"
  BY <1>1, CutStep DEF SendPongFails, LiveInv, TypeOK
<1>2. CASE back # "write"
  BY <1>2 DEF SendPongFails, LiveInv, TypeOK, PhaseInv, FrameInv, ToldInv, TimeInv, WithinHeardAudio
<1>3. QED
  BY <1>1, <1>2

LEMMA HorizonFacts ==
    ASSUME NEW n \in Millis, n * Second <= MaxU64
    PROVE  /\ checked_horizon_millis(n) \in Millis
           /\ checked_horizon_millis(n) * SampleRate <= n * Second
<1> DEFINE ticks == n * Second
<1>1. ticks \in Nat /\ SampleRate \in Nat \ {0} /\ MaxU64 \in Nat
  BY RateAssumption, BoundAssumption
<1>2. ticks <= MaxU64
  OBVIOUS
<1> HIDE DEF ticks
<1>3. /\ ticks \div SampleRate \in Nat
      /\ ticks \div SampleRate <= ticks
      /\ (ticks \div SampleRate) * SampleRate <= ticks
  BY <1>1, DivFacts
<1>4. ticks \div SampleRate \in Millis /\ (ticks \div SampleRate) * SampleRate <= ticks
  BY <1>1, <1>2, <1>3
<1>5. QED
  BY <1>4 DEF checked_horizon_millis, ticks

LEMMA LProviderWriteSucceeds == LiveInv /\ ProviderWriteSucceeds => LiveInv'
<1> SUFFICES ASSUME LiveInv, ProviderWriteSucceeds PROVE LiveInv'
  OBVIOUS
<1> USE DEF LiveInv
<1> DEFINE total == total_sample_frames(timeline, pcm)
<1>1. /\ pc = "write" /\ pc' = "ack" /\ pcm' = 0
      /\ upstream' = FrameHeard
      /\ timeline' = commit_audio_write(timeline, pcm)
      /\ sess' = mark_provider_write_succeeded(sess, sess.last)
      /\ UNCHANGED <<back, event, locals, wire>>
  BY DEF ProviderWriteSucceeds, PhaseInv, CanConfirmWrite
<1>2. total \in Millis /\ total * Second <= MaxU64 /\ upstream.samples <= total
  BY <1>1, HeardFacts DEF PhaseInv, CanPrepareAudioWrite
<1>3. /\ checked_horizon_millis(total) \in Millis
      /\ checked_horizon_millis(total) * SampleRate <= total * Second
  BY <1>2, HorizonFacts
<1>4. /\ timeline' = [timeline EXCEPT !.samples = total, !.horizon = checked_horizon_millis(total)]
      /\ timeline' \in Timeline
      /\ timeline'.samples = total /\ timeline'.horizon = checked_horizon_millis(total)
      /\ timeline'.last_final = timeline.last_final
  BY <1>1, <1>2, <1>3 DEF commit_audio_write, TypeOK, Timeline
<1>5. /\ sess' \in Session
      /\ sess'.written = {sess.last} /\ sess'.pending = sess.pending /\ sess'.last = sess.last
      /\ sess'.phase = sess.phase /\ sess'.accepted = sess.accepted
  BY <1>1 DEF mark_provider_write_succeeded, TypeOK, PhaseInv, Session
<1>6. /\ upstream' \in Upstream /\ upstream'.samples = total /\ upstream'.heard = sess.last
      /\ upstream'.spoiled = upstream.spoiled /\ upstream'.asked = upstream.asked
      /\ upstream'.answered = upstream.answered
  BY <1>1, HeardFacts DEF TypeOK, Upstream
<1>7. TypeOK'
  BY <1>1, <1>4, <1>5, <1>6 DEF TypeOK
<1>8. PhaseInv'
  BY <1>1, <1>5 DEF PhaseInv
<1>9. FrameInv'
  BY <1>1, <1>4, <1>5, <1>6 DEF FrameInv
<1>10. ToldInv'
  BY <1>1, <1>6 DEF ToldInv
<1>11. TimeInv'
  BY <1>1, <1>2, <1>3, <1>4, <1>6, MoreHeard DEF TimeInv, WithinHeardAudio
<1>12. QED
  BY <1>7, <1>8, <1>9, <1>10, <1>11

LEMMA LProviderTranscript ==
    ASSUME NEW tr \in Transcript, LiveInv, ProviderTranscript(tr)
    PROVE  LiveInv'
<1> USE DEF LiveInv
<1>1. CASE ValidTranscript(timeline, tr)
  <2>1. /\ pc \in {"select", "drain"} /\ pc' = "send" /\ back' = pc /\ event' = tr
        /\ timeline' = accept_transcript(timeline, tr)
        /\ UNCHANGED <<sess, pcm, locals, wire, upstream>>
    BY <1>1 DEF ProviderTranscript, Receiving
  <2>2. /\ timeline.horizon \in Nat /\ timeline.samples \in Nat /\ timeline \in Timeline
        /\ timeline.last_final \in Millis \cup {NoFinal}
        /\ End(tr) \in Millis /\ tr.start \in Nat /\ tr.start <= End(tr)
        /\ End(tr) <= timeline.horizon + Lead
    BY <1>1, BoundAssumption DEF TypeOK, Timeline, Transcript, End, ValidTranscript, WithinHorizon
  <2>3. End(tr) * SampleRate <= upstream.samples * Second + Lead * SampleRate
    <3>1. End(tr) * SampleRate <= (timeline.horizon + Lead) * SampleRate
      BY <2>2, MulMono, RateAssumption, BoundAssumption
    <3>2. (timeline.horizon + Lead) * SampleRate = timeline.horizon * SampleRate + Lead * SampleRate
      BY <2>2, RateAssumption, BoundAssumption
    <3>3. timeline.samples = upstream.samples
      BY <2>1 DEF FrameInv
    <3>4. timeline.horizon * SampleRate <= timeline.samples * Second
      BY DEF TimeInv
    <3>5. QED
      BY <2>2, <3>1, <3>2, <3>3, <3>4, RateAssumption, BoundAssumption
  <2>4. /\ timeline' \in Timeline
        /\ timeline'.samples = timeline.samples /\ timeline'.horizon = timeline.horizon
        /\ timeline'.last_final = IF IsFinal(tr) THEN End(tr) ELSE timeline.last_final
    BY <2>1, <2>2 DEF accept_transcript, Timeline
  <2>5. TypeOK'
    BY <2>1, <2>4 DEF TypeOK
  <2>6. PhaseInv' /\ FrameInv' /\ ToldInv'
    BY <2>1, <2>4 DEF PhaseInv, FrameInv, ToldInv
  <2>7. TimeInv'
    <3>1. IsFinal(tr) => timeline.last_final <= tr.start
      BY <1>1 DEF ValidTranscript, TypeOK, Timeline, Transcript
    <3>2. wire.final.end \in Nat /\ (wire.final.end = 0 \/ wire.final.end <= timeline.last_final)
      BY DEF TypeOK, Wire, TimeInv
    <3>3. IsFinal(tr) => wire.final.end <= tr.start /\ wire.final.end <= End(tr)
      BY <2>2, <3>1, <3>2
    <3>4. QED
      BY <2>1, <2>2, <2>3, <2>4, <3>2, <3>3 DEF TimeInv, WithinHeardAudio
  <2>8. QED
    BY <2>5, <2>6, <2>7
<1>2. CASE ~ValidTranscript(timeline, tr)
  <2>1. /\ Receiving /\ pc' = "fail" /\ sess' = fail(sess)
        /\ UNCHANGED <<back, timeline, event, pcm, locals, wire, upstream>>
    BY <1>2 DEF ProviderTranscript
  <2>2. sess' \in Session
    BY <2>1 DEF TypeOK, Session, Phases, fail, IsOver
  <2>3. QED
    BY <2>1, <2>2 DEF Receiving, TypeOK, PhaseInv, FrameInv, ToldInv, TimeInv, WithinHeardAudio
<1>3. QED
  BY <1>1, <1>2

-----------------------------------------------------------------------------
LEMMA LiveInit == Init => LiveInv
<1> SUFFICES ASSUME Init PROVE LiveInv
  OBVIOUS
<1> USE BoundAssumption, SequenceAssumption DEF Init
<1>1. sess \in Session /\ timeline \in Timeline
  BY DEF NewSession, Session, Phases, NewTimeline, Timeline
<1>2. wire \in Wire /\ upstream \in Upstream
  BY DEF Wire, Upstream
<1>3. TypeOK
  BY <1>1, <1>2 DEF TypeOK
<1>4. PhaseInv /\ FrameInv /\ ToldInv
  BY DEF PhaseInv, FrameInv, ToldInv, NewSession, NewTimeline
<1>5. TimeInv
  BY RateAssumption DEF TimeInv, WithinHeardAudio, NewTimeline
<1>6. QED
  BY <1>3, <1>4, <1>5 DEF LiveInv

LEMMA LiveStep == LiveInv /\ [Next]_vars => LiveInv'
<1> SUFFICES ASSUME LiveInv, [Next]_vars PROVE LiveInv'
  OBVIOUS
<1>1. CASE UNCHANGED vars
  BY <1>1 DEF vars, LiveInv, TypeOK, PhaseInv, FrameInv, ToldInv, TimeInv, WithinHeardAudio
<1>2. CASE Client
  BY <1>2, LClientAudio, LClientRejected, LClientClose, LClientPing, LClientFinalize DEF Client
<1>3. CASE Provider
  <2>1. \A tr \in [start : ProviderTimes, duration : ProviderTimes, stability : Stability] :
            tr \in Transcript
    BY InputAssumption DEF Transcript
  <2>2. QED
    BY <1>3, <2>1, LProviderTranscript, LProviderUtteranceEnd, LProviderFinalizeResult,
       LProviderFails, LProviderCloses DEF Provider
<1>4. CASE Opening
  BY <1>4, LReceiveConfig, LOpenSucceeds, LOpenFails, LSendReady, LSendReadyFails DEF Opening
<1>5. CASE Writing
  BY <1>5, LProviderWriteSucceeds, LProviderWriteFails, LWriteCancelled, LWriteTimeout,
     LSendPong, LSendPongFails, LSendAck, LSendAckFails, LSendTranscript, LSendTranscriptFails
     DEF Writing
<1>6. CASE Finalizing
  BY <1>6, LProviderFinalizeSucceeds, LProviderFinalizeFails, LFinalizeCancelled,
     LDrainInterrupted, LDrainEnds, LDrainTimeout, LSendVerdict, LSendVerdictFails DEF Finalizing
<1>7. CASE Ending
  BY <1>7, LSendError, LCloseCoordinator, LCloseSocket DEF Ending
<1>8. CASE IdleTimeout \/ SessionTimeout \/ Done
  BY <1>8, LIdleTimeout, LSessionTimeout, LDone
<1>9. QED
  BY <1>1, <1>2, <1>3, <1>4, <1>5, <1>6, <1>7, <1>8 DEF Next

LEMMA LiveInvariance == Spec => []LiveInv
BY LiveInit, LiveStep, PTL DEF Spec

\* Every reachable state of a session is well typed: sequence numbers and
\* all times stay within their width (accept_audio, prepare_audio_write and
\* validate_transcript check before they add).
THEOREM LiveTypeCorrect == Spec => []TypeOK
<1>1. LiveInv => TypeOK
  BY DEF LiveInv
<1>2. QED
  BY <1>1, LiveInvariance, PTL

\* The transport never asks the domain session for a transition it refuses,
\* and the two copies of the finalize evidence agree.
THEOREM LiveDomainAgrees == Spec => []DomainAgrees
<1>1. LiveInv => DomainAgrees
  <2> SUFFICES ASSUME LiveInv PROVE DomainAgrees
    OBVIOUS
  <2>1. pc = "drain" => CanCompleteFinalize(sess, Requested)
    BY DEF LiveInv, TypeOK, PhaseInv, FrameInv, Session, Wire, CanCompleteFinalize, Requested
  <2>2. QED
    BY <2>1 DEF LiveInv, PhaseInv, DomainAgrees, CanConfirmWrite, CanConfirmAck
<1>2. QED
  BY <1>1, LiveInvariance, PTL

\* No timestamp the client receives is more than the lead ahead of the audio
\* the provider received, for every sample rate and frame length.
THEOREM LiveWithinHeardAudio == Spec => []WithinHeardAudio
<1>1. LiveInv => WithinHeardAudio
  BY DEF LiveInv, TimeInv
<1>2. QED
  BY <1>1, LiveInvariance, PTL

-----------------------------------------------------------------------------
(* The steps, sorted by what they tell the client and the provider *)

\* Neither side notices.
Quiet == UNCHANGED <<wire, upstream>>

\* The client is told something other than a transcript.
Notice ==
    \/ SendReady \/ SendReadyFails \/ SendAck \/ SendAckFails
    \/ SendVerdict \/ SendVerdictFails \/ SendError \/ CloseSocket

\* The provider gets or answers something.
Exchange ==
    \/ OpenSucceeds \/ CloseCoordinator
    \/ ProviderWriteSucceeds \/ (InWrite /\ WriteCut /\ UNCHANGED wire)
    \/ ProviderFinalizeSucceeds \/ (pc = "begin" /\ RequestCut /\ UNCHANGED wire)
    \/ ProviderFinalizeResult

Relay == SendTranscript \/ SendTranscriptFails

LEMMA StepKinds ==
    ASSUME LiveInv, [Next]_vars
    PROVE  Quiet \/ Notice \/ Exchange \/ Relay
<1> USE DEF Quiet, Notice, Exchange, Relay
<1>1. CASE UNCHANGED vars
  BY <1>1 DEF vars
<1>2. CASE Client
  BY <1>2 DEF Client, ClientAudio, ClientRejected, ClientClose, ClientPing, ClientFinalize
<1>3. CASE Provider
  BY <1>3 DEF Provider, ProviderTranscript, ProviderUtteranceEnd, ProviderFails, ProviderCloses
<1>4. CASE Opening
  BY <1>4 DEF Opening, ReceiveConfig, OpenFails
<1>5. CASE Writing
  <2>1. CASE SendPongFails
    BY <2>1 DEF SendPongFails, LiveInv, PhaseInv
  <2>2. CASE ~SendPongFails
    BY <1>5, <2>2 DEF Writing, ProviderWriteFails, WriteCancelled, WriteTimeout, SendPong
  <2>3. QED
    BY <2>1, <2>2
<1>6. CASE Finalizing
  BY <1>6 DEF Finalizing, ProviderFinalizeFails, FinalizeCancelled, DrainInterrupted,
     DrainEnds, DrainTimeout, CompleteFinalize
<1>7. CASE Ending
  BY <1>7 DEF Ending
<1>8. CASE IdleTimeout \/ SessionTimeout \/ Done
  BY <1>8 DEF IdleTimeout, SessionTimeout, Done, vars
<1>9. QED
  BY <1>1, <1>2, <1>3, <1>4, <1>5, <1>6, <1>7, <1>8 DEF Next

\* Final transcripts reach the client in order and never overlap, across
\* streaming and the finalize drain (validate_transcript), even when the
\* last one arrives after its send has timed out.
THEOREM LiveFinalsInOrder == Spec => FinalsInOrder
<1>1. LiveInv /\ [Next]_vars => [wire'.final # wire.final => wire'.final.start >= wire.final.end]_vars
  <2> SUFFICES ASSUME LiveInv, [Next]_vars, wire'.final # wire.final
               PROVE  wire'.final.start >= wire.final.end
    OBVIOUS
  <2>1. CASE Quiet
    BY <2>1 DEF Quiet
  <2>2. CASE Notice
    BY <2>2 DEF Notice, LiveInv, TypeOK, Wire, SendReady, SendReadyFails, SendAck, SendAckFails,
       SendVerdict, SendVerdictFails, SendError, CloseSocket
  <2>3. CASE Exchange
    BY <2>3 DEF Exchange, OpenSucceeds, CloseCoordinator, ProviderWriteSucceeds,
       ProviderFinalizeSucceeds, ProviderFinalizeResult
  <2>4. CASE Relay
    <3>1. pc = "send" /\ wire' = Told(event)
      BY <2>4 DEF Relay, SendTranscript, SendTranscriptFails
    <3>2. IsFinal(event) /\ wire'.final.start = event.start
      BY <3>1 DEF Told, LiveInv, TypeOK, Wire
    <3>3. QED
      BY <3>1, <3>2 DEF LiveInv, TimeInv, TypeOK, Wire, Transcript
  <2>5. QED
    BY <2>1, <2>2, <2>3, <2>4, StepKinds
<1>2. QED
  BY <1>1, LiveInvariance, PTL DEF Spec, FinalsInOrder

-----------------------------------------------------------------------------
(* The session keeps LivePromise *)

LEMMA PromiseInit == Init => Promise!Init
BY DEF Init, Promise!Init

LEMMA NoticeKept ==
    ASSUME LiveInv, Notice
    PROVE  [Promise!Next]_(Promise!vars)
<1> USE DEF Promise!vars, Promise!Next, Promise!Healthy
<1>0. wire \in Wire
  BY DEF LiveInv, TypeOK
<1>1. CASE SendReady \/ SendReadyFails
  BY <1>0, <1>1 DEF SendReady, SendReadyFails, LiveInv, ToldInv, Wire, Promise!Greet
<1>2. CASE SendAck \/ SendAckFails
  <2>1. wire' = [wire EXCEPT !.acks = sess.last] \/ wire' = wire
    BY <1>2 DEF SendAck, SendAckFails
  <2>2. /\ pc = "ack" /\ wire.acks + 1 = sess.last /\ upstream.heard = sess.last
        /\ UNCHANGED upstream /\ wire.acks \in Nat
    BY <1>2 DEF SendAck, SendAckFails, LiveInv, FrameInv, TypeOK, Wire
  <2>3. CASE wire' = wire
    BY <2>2, <2>3
  <2>4. CASE wire' = [wire EXCEPT !.acks = sess.last]
    BY <1>0, <2>2, <2>4 DEF LiveInv, ToldInv, Wire, Promise!Acknowledge
  <2>5. QED
    BY <2>1, <2>3, <2>4
<1>3. CASE SendVerdict \/ SendVerdictFails
  <2>1. wire' = [wire EXCEPT !.verdict = Requested] \/ wire' = wire
    BY <1>3 DEF SendVerdict, SendVerdictFails
  <2>2. pc = "complete" /\ UNCHANGED upstream
    BY <1>3 DEF SendVerdict, SendVerdictFails
  <2>3. /\ Requested \in {"flushed", "no_provider", "timeout"}
        /\ Requested = "flushed" => upstream.answered
        /\ Requested = "no_provider" => upstream.heard = 0 /\ ~upstream.answered
        /\ Requested = "timeout" => upstream.heard > 0 /\ ~upstream.answered
    BY <2>2 DEF Requested, LiveInv, FrameInv, ToldInv, TypeOK, Wire, Session
  <2>4. CASE wire' = wire
    BY <2>2, <2>4
  <2>5. CASE wire' = [wire EXCEPT !.verdict = Requested]
    <3>1. Promise!Conclude(Requested)
      BY <1>0, <2>2, <2>3, <2>5 DEF LiveInv, ToldInv, Wire, Promise!Conclude
    <3>2. QED
      BY <2>3, <3>1
  <2>6. QED
    BY <2>1, <2>4, <2>5
<1>4. CASE SendError
  BY <1>0, <1>4 DEF SendError, Wire
<1>5. CASE CloseSocket
  <2>1. PICK c \in {"normal", "abnormal", "dropped"} :
            /\ wire' = [wire EXCEPT !.close = c]
            /\ c = "normal" => successful
    BY <1>5 DEF CloseSocket
  <2>2. Promise!Close(c)
    BY <1>0, <1>5, <2>1 DEF CloseSocket, LiveInv, ToldInv, Wire, Promise!Close
  <2>3. QED
    BY <2>2
<1>6. QED
  BY <1>1, <1>2, <1>3, <1>4, <1>5 DEF Notice

LEMMA ExchangeKept ==
    ASSUME LiveInv, Exchange
    PROVE  [Promise!Next]_(Promise!vars)
<1> USE DEF Promise!vars, Promise!Next, Promise!Healthy
<1>0. upstream \in Upstream
  BY DEF LiveInv, TypeOK
<1>1. CASE OpenSucceeds \/ CloseCoordinator
  BY <1>0, <1>1 DEF OpenSucceeds, CloseCoordinator, Upstream
<1>2. CASE ProviderWriteSucceeds
  <2>1. InWrite /\ upstream' = FrameHeard /\ UNCHANGED wire
    BY <1>2 DEF ProviderWriteSucceeds
  <2>2. Promise!Hear
    BY <1>0, <2>1 DEF FrameHeard, LiveInv, TypeOK, FrameInv, ToldInv, Wire, Upstream, Promise!Hear
  <2>3. QED
    BY <2>2
<1>3. CASE InWrite /\ WriteCut /\ UNCHANGED wire
  <2>1. CASE upstream' = [upstream EXCEPT !.spoiled = TRUE]
    BY <1>0, <1>3, <2>1 DEF LiveInv, ToldInv, Upstream, Promise!Spoil
  <2>2. CASE upstream' = [FrameHeard EXCEPT !.spoiled = TRUE]
    <3>1. Promise!Hear
      BY <1>0, <1>3, <2>2 DEF FrameHeard, LiveInv, TypeOK, FrameInv, ToldInv, Wire, Upstream, Promise!Hear
    <3>2. QED
      BY <3>1
  <2>3. QED
    BY <1>3, <2>1, <2>2 DEF WriteCut
<1>4. CASE ProviderFinalizeSucceeds
  <2>1. Promise!Ask
    BY <1>0, <1>4 DEF ProviderFinalizeSucceeds, LiveInv, FrameInv, ToldInv, Upstream, Promise!Ask
  <2>2. QED
    BY <2>1
<1>5. CASE pc = "begin" /\ RequestCut /\ UNCHANGED wire
  <2>1. PICK b \in BOOLEAN : upstream' = [upstream EXCEPT !.asked = b, !.spoiled = TRUE]
    BY <1>5 DEF RequestCut
  <2>2. CASE b = TRUE
    <3>1. Promise!Ask
      BY <1>0, <1>5, <2>1, <2>2 DEF LiveInv, FrameInv, ToldInv, Upstream, Promise!Ask
    <3>2. QED
      BY <3>1
  <2>3. CASE b = FALSE
    <3>1. Promise!Spoil
      BY <1>0, <1>5, <2>1, <2>3 DEF LiveInv, ToldInv, Upstream, Promise!Spoil
    <3>2. QED
      BY <3>1
  <2>4. QED
    BY <2>2, <2>3
<1>6. CASE ProviderFinalizeResult
  <2>1. CASE CanObserve(sess)
    <3>1. InDrain
      BY <1>6, <2>1 DEF ProviderFinalizeResult, Receiving, CanObserve, LiveInv, PhaseInv
    <3>2. Promise!Answer
      BY <1>0, <1>6, <2>1, <3>1 DEF ProviderFinalizeResult, LiveInv, ToldInv, Upstream, Promise!Answer
    <3>3. QED
      BY <3>2
  <2>2. CASE ~CanObserve(sess)
    BY <1>6, <2>2 DEF ProviderFinalizeResult
  <2>3. QED
    BY <2>1, <2>2
<1>7. QED
  BY <1>1, <1>2, <1>3, <1>4, <1>5, <1>6 DEF Exchange

\* The session keeps its promise to the client, whatever the client, the
\* provider, the network and the timers do: audio is acknowledged only after
\* a completed provider write, finalize is asked for only after every ACK,
\* the verdict is truthful, and only a successful one closes normally.
THEOREM LiveKeepsPromise == Spec => KeepsLivePromise
<1>1. LiveInv /\ [Next]_vars => [Promise!Next]_(Promise!vars)
  <2> SUFFICES ASSUME LiveInv, [Next]_vars PROVE [Promise!Next]_(Promise!vars)
    OBVIOUS
  <2>1. CASE Quiet
    BY <2>1 DEF Quiet, Promise!vars
  <2>2. CASE Relay
    <3>1. UNCHANGED upstream /\ (wire' = wire \/ wire' = Told(event))
      BY <2>2 DEF Relay, SendTranscript, SendTranscriptFails
    <3>2. QED
      BY <3>1 DEF Told, LiveInv, TypeOK, Wire, Promise!vars
  <2>3. QED
    BY <2>1, <2>2, StepKinds, NoticeKept, ExchangeKept
<1>2. QED
  BY <1>1, PromiseInit, LiveInvariance, PTL DEF Spec, Promise!Spec, KeepsLivePromise

=============================================================================

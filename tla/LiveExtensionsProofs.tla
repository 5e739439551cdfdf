------------------------ MODULE LiveExtensionsProofs ------------------------
(***************************************************************************)
(* Proofs about what is built on LiveGateway, for every number of frames   *)
(* and events: the qualification record of a session (LiveObserved) is     *)
(* true and complete, and a session over the Deepgram adapter              *)
(* (LiveDeepgram) loses neither text nor finals to the order of events or  *)
(* to rounding.                                                            *)
(***************************************************************************)
EXTENDS LiveObserved, LiveDeepgram, LiveGatewayProofs, FiniteSetTheorems,
        SequenceTheorems

-----------------------------------------------------------------------------
(* The qualification record: the inductive invariant *)

Events == [kind : {"transcript", "utterance_end", "finalize_result"},
           start : Millis, duration : Millis, stability : Stability]

SequenceType == [count : Nat, first : Nat, last : Nat, contiguous : BOOLEAN]

RecordTypes ==
    /\ obs \in [accepted : Nat, written : SequenceType, acked : SequenceType,
                frames : Seq(Nat \X Nat), results : Seq(Events), finalize : BOOLEAN]
    /\ told \in Seq(Events)

\* The session has not failed and is not over.
Flowing == Early \/ Alive

\* 1, 2, ..., count, without a gap.
Numbered(s) == s.count > 0 => s.contiguous /\ s.first = 1 /\ s.last = s.count

\* The tracker follows the session as long as it flows, and lags afterwards.
CountInv ==
    /\ Numbered(obs.written) /\ Numbered(obs.acked)
    /\ obs.written.count <= upstream.heard /\ obs.written.count <= obs.accepted
    /\ obs.acked.count <= wire.acks /\ obs.acked.count <= obs.written.count
    /\ Len(obs.frames) = obs.acked.count
    /\ \A i \in 1 .. Len(obs.frames) : obs.frames[i] = <<i, i>>
    /\ Flowing => /\ obs.accepted = sess.last /\ obs.written.count = upstream.heard
                  /\ obs.acked.count = wire.acks /\ (obs.finalize <=> saw_result)

\* Each digested transcript has been sent, but for the one that is on its way.
DigestInv ==
    /\ ToldIsDigested
    /\ Flowing /\ pc # "send" => Cardinality(Transcripts(Len(obs.results))) = Len(told)
    /\ pc = "send" => /\ obs.results # <<>>
                      /\ obs.results[Len(obs.results)] = Observed("transcript", event)
                      /\ Cardinality(Transcripts(Len(obs.results))) = Len(told) + 1

Ended == pc \in {"closing", "socket", "done"}

\* The evidence behind a verdict, from the moment it is given.
VerdictInv ==
    /\ status \in FinalizeStatus =>
        /\ Ended
        /\ status = wire.verdict
        /\ obs.finalize = (status = "flushed")
        /\ obs.finalize => upstream.answered
        /\ obs.accepted = upstream.heard /\ obs.written.count = upstream.heard
        /\ obs.acked.count = wire.acks /\ wire.acks = upstream.heard
    /\ record.made => Ended /\ record = finish(obs, status)

RecordInv == LiveInv /\ RecordTypes /\ CountInv /\ DigestInv /\ VerdictInv

-----------------------------------------------------------------------------
(* The digest *)

LEMMA FewTranscripts ==
    ASSUME NEW n \in Nat
    PROVE  IsFiniteSet(Transcripts(n)) /\ Cardinality(Transcripts(n)) \in Nat
<1>1. IsFiniteSet(1 .. n)
  BY FS_Interval
<1>2. Transcripts(n) \subseteq 1 .. n
  BY DEF Transcripts
<1>3. QED
  BY <1>1, <1>2, FS_Subset, FS_CardinalityType

\* An event is digested: what was digested before stays where it is.
LEMMA NoteAppends ==
    ASSUME RecordTypes, NEW ev \in Events, obs' = provider_event(obs, ev),
           NEW n \in Nat, n = Len(obs.results)
    PROVE  /\ Len(obs'.results) = n + 1 /\ obs'.results[n + 1] = ev
           /\ \A k \in 1 .. n : obs'.results[k] = obs.results[k] /\ Transcripts(k)' = Transcripts(k)
           /\ Cardinality(Transcripts(n + 1)') = Cardinality(Transcripts(n)) +
                    (IF ev.kind = "transcript" THEN 1 ELSE 0)
           /\ obs'.results \in Seq(Events)
<1>1. obs.results \in Seq(Events)
  BY DEF RecordTypes
<1>2. obs'.results = Append(obs.results, ev)
  BY DEF RecordTypes, provider_event
<1>3. /\ Len(obs'.results) = n + 1 /\ obs'.results[n + 1] = ev /\ obs'.results \in Seq(Events)
      /\ \A k \in 1 .. n : obs'.results[k] = obs.results[k]
  BY <1>1, <1>2
<1>4. \A k \in 1 .. n : Transcripts(k)' = Transcripts(k)
  <2> SUFFICES ASSUME NEW k \in 1 .. n PROVE Transcripts(k)' = Transcripts(k)
    OBVIOUS
  <2>1. \A l \in 1 .. k : obs'.results[l] = obs.results[l]
    BY <1>1, <1>3
  <2>2. QED
    BY <2>1 DEF Transcripts
<1>5. Cardinality(Transcripts(n + 1)') = Cardinality(Transcripts(n)) +
                        (IF ev.kind = "transcript" THEN 1 ELSE 0)
  <2>1. 1 .. (n + 1) = (1 .. n) \cup {n + 1}
    BY <1>1
  <2>2. n + 1 \notin Transcripts(n)
    BY DEF Transcripts
  <2>3. IsFiniteSet(Transcripts(n)) /\ Cardinality(Transcripts(n)) \in Nat
    BY FewTranscripts
  <2>4. CASE ev.kind = "transcript"
    <3>1. Transcripts(n + 1)' = Transcripts(n) \cup {n + 1}
      BY <1>3, <2>1, <2>4 DEF Transcripts
    <3>2. QED
      BY <2>2, <2>3, <2>4, <3>1, FS_AddElement
  <2>5. CASE ev.kind # "transcript"
    <3>1. Transcripts(n + 1)' = Transcripts(n)
      BY <1>3, <2>1, <2>5 DEF Transcripts
    <3>2. QED
      BY <2>3, <2>5, <3>1
  <2>6. QED
    BY <2>4, <2>5
<1>6. QED
  BY <1>3, <1>4, <1>5

LEMMA NoteKeepsDigest ==
    ASSUME RecordTypes, ToldIsDigested, NEW ev \in Events, obs' = provider_event(obs, ev), told' = told
    PROVE  ToldIsDigested'
<1> SUFFICES ASSUME NEW i \in 1 .. Len(told)
             PROVE  \E n \in 1 .. Len(obs'.results) :
                        n \in Transcripts(n)' /\ Cardinality(Transcripts(n)') = i
                        /\ obs'.results[n] = told[i]
  BY DEF ToldIsDigested
<1>1. PICK n \in 1 .. Len(obs.results) :
            n \in Transcripts(n) /\ Cardinality(Transcripts(n)) = i /\ obs.results[n] = told[i]
  BY DEF ToldIsDigested
<1>2. Len(obs.results) \in Nat
  BY DEF RecordTypes
<1>3. /\ Len(obs'.results) = Len(obs.results) + 1
      /\ obs'.results[n] = obs.results[n] /\ Transcripts(n)' = Transcripts(n)
  BY <1>2, NoteAppends
<1>4. n \in 1 .. Len(obs'.results)
  BY <1>2, <1>3
<1>5. QED
  BY <1>1, <1>3, <1>4

\* A transcript is sent: it is the last one digested.
LEMMA SendKeepsDigest ==
    ASSUME RecordTypes, ToldIsDigested, UNCHANGED obs, NEW ev \in Events, ev.kind = "transcript",
           told' = Append(told, ev), obs.results # <<>>, obs.results[Len(obs.results)] = ev,
           Cardinality(Transcripts(Len(obs.results))) = Len(told) + 1
    PROVE  ToldIsDigested' /\ Len(told') = Len(told) + 1 /\ told' \in Seq(Events)
<1> DEFINE n == Len(obs.results)
<1>1. n \in Nat /\ n > 0 /\ Len(told) \in Nat
  BY DEF RecordTypes
<1>2. /\ Len(told') = Len(told) + 1 /\ told' \in Seq(Events) /\ told'[Len(told) + 1] = ev
      /\ \A i \in 1 .. Len(told) : told'[i] = told[i]
  BY DEF RecordTypes
<1>3. \A k : Transcripts(k)' = Transcripts(k)
  BY DEF Transcripts
<1>4. n \in Transcripts(n)
  BY <1>1 DEF Transcripts
<1> SUFFICES ASSUME NEW i \in 1 .. Len(told')
             PROVE  \E k \in 1 .. Len(obs.results) :
                        k \in Transcripts(k) /\ Cardinality(Transcripts(k)) = i
                        /\ obs.results[k] = told'[i]
  BY <1>2, <1>3 DEF ToldIsDigested
<1>5. CASE i \in 1 .. Len(told)
  BY <1>2, <1>5 DEF ToldIsDigested
<1>6. CASE i = Len(told) + 1
  <2>1. n \in 1 .. Len(obs.results) /\ Cardinality(Transcripts(n)) = i /\ obs.results[n] = told'[i]
    BY <1>1, <1>2, <1>6
  <2>2. QED
    BY <1>4, <2>1
<1>7. QED
  BY <1>1, <1>2, <1>5, <1>6

-----------------------------------------------------------------------------
(* The steps that note nothing *)

Passive ==
    /\ upstream'.heard >= upstream.heard /\ wire'.acks >= wire.acks
    /\ Flowing' => /\ Flowing /\ sess'.last = sess.last /\ saw_result' = saw_result
                   /\ upstream'.heard = upstream.heard /\ wire'.acks = wire.acks
    /\ pc # "send" /\ pc' # "send"
    /\ Ended => /\ Ended' /\ wire'.acks = wire.acks /\ wire'.verdict = wire.verdict
                /\ upstream'.heard = upstream.heard /\ upstream'.answered = upstream.answered

LEMMA PassiveKept == ASSUME RecordInv, LiveInv', Passive, UNCHANGED obsVars PROVE RecordInv'
<1>0. UNCHANGED <<obs, status, record, told>>
  BY DEF obsVars
<1>1. RecordTypes'
  BY <1>0 DEF RecordInv, RecordTypes
<1>2. CountInv'
  <2>1. /\ upstream.heard \in Nat /\ upstream'.heard \in Nat /\ wire.acks \in Nat /\ wire'.acks \in Nat
        /\ obs.written.count \in Nat /\ obs.acked.count \in Nat
    BY DEF RecordInv, LiveInv, TypeOK, Upstream, Wire, RecordTypes, SequenceType
  <2>2. QED
    BY <1>0, <2>1 DEF RecordInv, CountInv, Numbered, Passive, Flowing
<1>3. DigestInv'
  <2>1. ToldIsDigested' /\ Cardinality(Transcripts(Len(obs.results)))' = Cardinality(Transcripts(Len(obs.results)))
    BY <1>0 DEF RecordInv, DigestInv, ToldIsDigested, Transcripts
  <2>2. QED
    BY <1>0, <2>1 DEF RecordInv, DigestInv, Passive
<1>4. VerdictInv'
  BY <1>0 DEF RecordInv, VerdictInv, Passive, finish, finish_sequence
<1>5. QED
  BY <1>1, <1>2, <1>3, <1>4 DEF RecordInv

LEMMA PassiveSteps ==
    ASSUME LiveInv,
           \/ ReceiveConfig \/ OpenSucceeds \/ OpenFails \/ SendReady
           \/ ClientRejected \/ ClientPing \/ ClientFinalize \/ IdleTimeout \/ SessionTimeout
           \/ ProviderWriteFails \/ WriteCancelled \/ WriteTimeout \/ SendPong \/ SendPongFails
           \/ SendAckFails \/ ProviderCloses
           \/ ProviderFinalizeSucceeds \/ ProviderFinalizeFails \/ FinalizeCancelled
           \/ DrainInterrupted \/ DrainEnds \/ DrainTimeout \/ SendVerdictFails
           \/ CloseSocket \/ CloseCoordinator \/ ProviderFails \/ Done
    PROVE  Passive
<1> USE DEF Passive, Flowing, Ended, Early, Alive, InStream, InWrite, InDrain, coordinator, locals
<1>0. /\ sess \in Session /\ wire \in Wire /\ upstream \in Upstream
      /\ back \in {"select", "write", "drain"} /\ (pc = "pong" => back # "drain")
      /\ wire.acks \in Nat /\ upstream.heard \in Nat
  BY DEF LiveInv, TypeOK, PhaseInv, Wire, Upstream
<1>1. CASE ReceiveConfig \/ OpenFails \/ ClientRejected \/ ClientPing \/ IdleTimeout \/ SessionTimeout
           \/ ProviderCloses \/ DrainInterrupted
  BY <1>0, <1>1 DEF ReceiveConfig, OpenFails, ClientRejected, ClientPing, IdleTimeout, SessionTimeout,
     ProviderCloses, DrainInterrupted
<1>2. CASE OpenSucceeds
  <2>1. sess.last = 0 /\ sess'.last = 0
    BY <1>2 DEF OpenSucceeds, LiveInv, FrameInv, mark_ready, NewSession
  <2>2. QED
    BY <1>0, <1>2, <2>1 DEF OpenSucceeds, Upstream
<1>3. CASE SendReady \/ CloseSocket
  BY <1>0, <1>3 DEF SendReady, CloseSocket, Wire
<1>4. CASE ClientFinalize
  <2>1. /\ pc = "select" /\ pc' \in {"begin", "fail"} /\ UNCHANGED <<wire, upstream, saw_result>>
        /\ sess' \in {sess, begin_finalize(sess)}
    BY <1>4 DEF ClientFinalize
  <2>2. sess'.last = sess.last
    BY <1>0, <2>1 DEF begin_finalize, Session
  <2>3. QED
    BY <1>0, <2>1, <2>2
<1>5. CASE ProviderWriteFails \/ WriteCancelled \/ WriteTimeout \/ SendPongFails
  <2>1. /\ pc' = "fail" /\ UNCHANGED wire /\ pc \in {"write", "pong"}
        /\ upstream' = upstream \/ WriteCut
    BY <1>5 DEF ProviderWriteFails, WriteCancelled, WriteTimeout, SendPongFails
  <2>2. upstream'.heard >= upstream.heard
    <3>1. CASE WriteCut
      <4>1. PICK u \in {upstream, FrameHeard} : upstream' = [u EXCEPT !.spoiled = TRUE]
        BY <3>1 DEF WriteCut
      <4>2. DOMAIN upstream = DOMAIN FrameHeard /\ "spoiled" # "heard"
            /\ "heard" \in DOMAIN upstream /\ "spoiled" \in DOMAIN upstream
        BY <1>0 DEF FrameHeard, Upstream
      <4>3. FrameHeard.heard = upstream.heard + 1
        BY <1>0 DEF FrameHeard, Upstream
      <4>4. upstream'.heard = u.heard
        BY <4>1, <4>2
      <4>5. QED
        BY <1>0, <4>1, <4>3, <4>4
    <3>2. QED
      BY <1>0, <2>1, <3>1
  <2>3. QED
    BY <1>0, <2>1, <2>2
<1>6. CASE SendPong
  BY <1>0, <1>6 DEF SendPong
<1>7. CASE SendAckFails
  <2>1. wire'.acks \in {wire.acks, sess.last} /\ pc = "ack" /\ pc' = "fail" /\ UNCHANGED upstream
    BY <1>0, <1>7 DEF SendAckFails, Wire
  <2>2. wire.acks + 1 = sess.last
    BY <2>1 DEF LiveInv, FrameInv
  <2>3. QED
    BY <1>0, <2>1, <2>2
<1>8. CASE ProviderFinalizeSucceeds \/ ProviderFinalizeFails \/ FinalizeCancelled
  <2>1. /\ pc = "begin" /\ pc' \in {"drain", "fail"} /\ UNCHANGED <<wire, saw_result>>
        /\ upstream'.heard = upstream.heard /\ (pc' = "drain" => UNCHANGED sess)
    BY <1>0, <1>8 DEF ProviderFinalizeSucceeds, ProviderFinalizeFails, FinalizeCancelled, RequestCut, Upstream
  <2>2. QED
    BY <1>0, <2>1
<1>9. CASE DrainEnds \/ DrainTimeout
  BY <1>0, <1>9 DEF DrainEnds, DrainTimeout, CompleteFinalize, complete_finalize, Session
<1>10. CASE SendVerdictFails
  BY <1>0, <1>10 DEF SendVerdictFails, Wire
<1>11. CASE CloseCoordinator
  BY <1>0, <1>11 DEF CloseCoordinator, Upstream
<1>12. CASE ProviderFails
  BY <1>0, <1>12 DEF ProviderFails, Receiving
<1>13. CASE Done
  BY <1>0, <1>13 DEF Done, vars
<1>14. QED
  BY <1>1, <1>2, <1>3, <1>4, <1>5, <1>6, <1>7, <1>8, <1>9, <1>10, <1>11, <1>12, <1>13

-----------------------------------------------------------------------------
(* The steps that note a frame *)

LEMMA DigestKept ==
    ASSUME RecordInv, obs'.results = obs.results, told' = told, pc # "send", pc' # "send",
           Flowing' => Flowing
    PROVE  DigestInv'
<1>1. ToldIsDigested' /\ Cardinality(Transcripts(Len(obs.results)))' = Cardinality(Transcripts(Len(obs.results)))
  <2>1. \A n : Transcripts(n)' = Transcripts(n)
    BY DEF Transcripts
  <2>2. Transcripts(Len(obs.results))' = Transcripts(Len(obs.results))
    BY DEF Transcripts
  <2>3. ToldIsDigested'
    BY <2>1 DEF RecordInv, DigestInv, ToldIsDigested
  <2>4. QED
    BY <2>2, <2>3
<1>2. QED
  BY <1>1 DEF RecordInv, DigestInv

\* Before its end a session has neither a verdict nor a record.
LEMMA VerdictAway ==
    ASSUME RecordInv, ~Ended, UNCHANGED <<status, record>>
    PROVE  VerdictInv'
BY DEF RecordInv, VerdictInv

LEMMA CountTypes ==
    ASSUME RecordInv
    PROVE  /\ obs.accepted \in Nat /\ obs.written \in SequenceType /\ obs.acked \in SequenceType
           /\ obs.frames \in Seq(Nat \X Nat) /\ Len(obs.frames) \in Nat /\ obs.finalize \in BOOLEAN
           /\ obs.written.count \in Nat /\ obs.acked.count \in Nat
           /\ upstream.heard \in Nat /\ wire.acks \in Nat /\ sess.last \in Nat
BY DEF RecordInv, LiveInv, TypeOK, Upstream, Wire, Session, RecordTypes, SequenceType

LEMMA PushNumbered ==
    ASSUME NEW q \in SequenceType, Numbered(q), NEW v \in Nat, v = q.count + 1
    PROVE  push(q, v) \in SequenceType /\ Numbered(push(q, v)) /\ push(q, v).count = v
<1> DEFINE r == push(q, v)
<1>1. q.count \in Nat /\ q.first \in Nat /\ q.contiguous \in BOOLEAN
  BY DEF SequenceType
<1>2. /\ r.count = q.count + 1 /\ r.last = v /\ r.first = IF q.count = 0 THEN v ELSE q.first
      /\ r.contiguous = (q.count = 0 \/ (q.contiguous /\ q.last + 1 = v))
  BY DEF push
<1>3. r \in SequenceType
  BY <1>1, <1>2 DEF push, SequenceType
<1> HIDE DEF r
<1>4. r.contiguous /\ r.first = 1
  <2>1. CASE q.count = 0
    <3>1. v = 1
      BY <2>1
    <3>2. r.contiguous = TRUE
      BY <1>2, <2>1
    <3>3. QED
      BY <1>2, <2>1, <3>1, <3>2
  <2>2. CASE q.count # 0
    <3>1. q.contiguous /\ q.first = 1 /\ q.last + 1 = v
      BY <1>1, <2>2 DEF Numbered
    <3>2. QED
      BY <1>2, <2>2, <3>1
  <2>3. QED
    BY <2>1, <2>2
<1>5. QED
  BY <1>1, <1>2, <1>3, <1>4 DEF Numbered, r

LEMMA RAudio ==
    ASSUME RecordInv, NEW bytes \in PcmLengths, ObservedAudio(bytes)
    PROVE  RecordInv'
<1>0. LiveInv' /\ sess \in Session
  BY LClientAudio DEF RecordInv, LiveInv, TypeOK, ObservedAudio
<1>1. /\ pc = "select" /\ UNCHANGED <<wire, upstream, saw_result, status, record, told>>
      /\ (pc' = "write" /\ sess' = accept_audio(sess)) \/ (pc' = "fail")
  BY DEF ObservedAudio, ClientAudio, locals
<1>2. /\ obs'.accepted = obs.accepted + 1 /\ obs'.written = obs.written /\ obs'.acked = obs.acked
      /\ obs'.frames = obs.frames /\ obs'.results = obs.results /\ obs'.finalize = obs.finalize
      /\ RecordTypes'
  <2>1. obs' = [obs EXCEPT !.accepted = obs.accepted + 1] /\ obs.accepted \in Nat
    BY CountTypes DEF ObservedAudio, accept_frame
  <2>2. RecordTypes /\ told' = told
    BY <1>1 DEF RecordInv
  <2>3. /\ obs'.accepted = obs.accepted + 1 /\ obs'.written = obs.written /\ obs'.acked = obs.acked
        /\ obs'.frames = obs.frames /\ obs'.results = obs.results /\ obs'.finalize = obs.finalize
    BY <2>1, <2>2 DEF RecordTypes
  <2>4. obs.accepted + 1 \in Nat
    BY <2>1
  <2>5. RecordTypes'
    BY <2>1, <2>2, <2>3, <2>4 DEF RecordTypes
  <2>6. QED
    BY <2>3, <2>5
<1>3. Flowing' => sess'.last = sess.last + 1
  BY <1>0, <1>1 DEF Flowing, Early, Alive, InStream, InWrite, InDrain, accept_audio, Session
<1>4. CountInv'
  <2>1. Flowing
    BY <1>1 DEF Flowing, Alive, InStream
  <2>2. QED
    BY <1>1, <1>2, <1>3, <2>1, CountTypes, SMTT(30) DEF RecordInv, CountInv
<1>5. DigestInv'
  BY <1>1, <1>2, DigestKept DEF Flowing, Alive, InStream
<1>6. VerdictInv'
  BY <1>1, VerdictAway DEF Ended
<1>7. QED
  BY <1>0, <1>2, <1>4, <1>5, <1>6 DEF RecordInv

LEMMA RWrite == ASSUME RecordInv, ObservedWrite PROVE RecordInv'
<1>0. LiveInv' /\ sess \in Session /\ upstream \in Upstream
  BY LProviderWriteSucceeds DEF RecordInv, LiveInv, TypeOK, ObservedWrite
<1>1. /\ pc = "write" /\ pc' = "ack" /\ UNCHANGED <<wire, saw_result, status, record, told>>
      /\ upstream' = FrameHeard /\ sess' = mark_provider_write_succeeded(sess, sess.last)
      /\ obs' = provider_written(obs, sess.last)
  BY DEF ObservedWrite, ProviderWriteSucceeds, locals, CanConfirmWrite, RecordInv, LiveInv, PhaseInv, InWrite
<1>2. /\ obs'.accepted = obs.accepted /\ obs'.written = push(obs.written, sess.last) /\ obs'.acked = obs.acked
      /\ obs'.frames = obs.frames /\ obs'.results = obs.results /\ obs'.finalize = obs.finalize
  BY <1>1 DEF provider_written, RecordInv, RecordTypes
<1>3. upstream'.heard = upstream.heard + 1 /\ sess'.last = sess.last
  BY <1>0, <1>1 DEF FrameHeard, Upstream, mark_provider_write_succeeded, Session
<1>4. /\ upstream.heard + 1 = sess.last /\ wire.acks + 1 = sess.last /\ Flowing /\ Numbered(obs.written)
      /\ obs.written.count = upstream.heard /\ obs.accepted = sess.last
  BY <1>1 DEF RecordInv, LiveInv, FrameInv, CountInv, InWrite, Flowing, Alive
<1>5. obs'.written \in SequenceType /\ Numbered(obs'.written) /\ obs'.written.count = sess.last
  BY <1>2, <1>4, CountTypes, PushNumbered
<1>6. RecordTypes'
  <2>1. obs' = [obs EXCEPT !.written = push(obs.written, sess.last)]
    BY <1>1 DEF provider_written
  <2>2. QED
    BY <1>1, <1>2, <1>5, <2>1 DEF RecordInv, RecordTypes
<1>7. CountInv'
  <2>1. /\ obs'.written.count <= upstream'.heard /\ obs'.written.count <= obs'.accepted
        /\ obs'.acked.count <= wire'.acks /\ obs'.acked.count <= obs'.written.count
        /\ obs'.written.count = upstream'.heard /\ obs'.accepted = sess'.last
        /\ obs'.acked.count = wire'.acks
    BY <1>1, <1>2, <1>3, <1>4, <1>5, CountTypes DEF RecordInv, CountInv
  <2>2. QED
    BY <1>1, <1>2, <1>4, <1>5, <2>1 DEF RecordInv, CountInv
<1>8. DigestInv'
  BY <1>1, <1>2, <1>4, DigestKept
<1>9. VerdictInv'
  BY <1>1, VerdictAway DEF Ended
<1>10. QED
  BY <1>0, <1>6, <1>7, <1>8, <1>9 DEF RecordInv

LEMMA RAck == ASSUME RecordInv, ObservedAck PROVE RecordInv'
<1>0. LiveInv' /\ sess \in Session /\ wire \in Wire
  BY LSendAck DEF RecordInv, LiveInv, TypeOK, ObservedAck
<1>1. /\ pc = "ack" /\ pc' = "select" /\ UNCHANGED <<upstream, saw_result, status, record, told>>
      /\ wire' = [wire EXCEPT !.acks = sess.last] /\ sess' = mark_ack_sent(sess, sess.last)
      /\ obs' = ack_sent(obs, sess.last, obs.accepted)
  BY DEF ObservedAck, SendAck, CanConfirmAck, RecordInv, LiveInv, PhaseInv
<1>2. /\ obs'.accepted = obs.accepted /\ obs'.acked = push(obs.acked, sess.last) /\ obs'.written = obs.written
      /\ obs'.frames = Append(obs.frames, <<sess.last, obs.accepted>>)
      /\ obs'.results = obs.results /\ obs'.finalize = obs.finalize
  BY <1>1 DEF ack_sent, RecordInv, RecordTypes
<1>3. wire'.acks = sess.last /\ sess'.last = sess.last
  BY <1>0, <1>1 DEF Wire, mark_ack_sent, Session
<1>4. /\ upstream.heard = sess.last /\ wire.acks + 1 = sess.last /\ Flowing /\ Numbered(obs.acked)
      /\ obs.acked.count = wire.acks /\ obs.accepted = sess.last /\ Len(obs.frames) = obs.acked.count
      /\ obs.written.count = upstream.heard
  BY <1>1 DEF RecordInv, LiveInv, FrameInv, CountInv, Flowing, Alive
<1>5. obs'.acked \in SequenceType /\ Numbered(obs'.acked) /\ obs'.acked.count = sess.last
  BY <1>2, <1>4, CountTypes, PushNumbered, SMTT(30)
<1>6. /\ obs'.frames \in Seq(Nat \X Nat) /\ Len(obs'.frames) = sess.last
      /\ \A i \in 1 .. Len(obs'.frames) : obs'.frames[i] = <<i, i>>
  <2>1. <<sess.last, sess.last>> \in Nat \X Nat
    BY CountTypes
  <2>2. \A i \in 1 .. Len(obs.frames) : obs.frames[i] = <<i, i>>
    BY DEF RecordInv, CountInv
  <2>3. obs.frames \in Seq(Nat \X Nat) /\ sess.last \in Nat /\ Len(obs.frames) + 1 = sess.last
        /\ Len(obs.frames) \in Nat
    BY <1>4, CountTypes
  <2>4. obs'.frames = Append(obs.frames, <<sess.last, sess.last>>)
    BY <1>2, <1>4
  <2>5. QED
    BY <2>1, <2>2, <2>3, <2>4
<1>7. RecordTypes'
  <2>1. obs' = [obs EXCEPT !.acked = obs'.acked, !.frames = obs'.frames]
    BY <1>1, <1>2 DEF ack_sent
  <2>2. QED
    BY <1>1, <1>5, <1>6, <2>1 DEF RecordInv, RecordTypes
<1>8. CountInv'
  BY <1>1, <1>2, <1>3, <1>4, <1>5, <1>6, CountTypes DEF RecordInv, CountInv
<1>9. DigestInv'
  BY <1>1, <1>2, <1>4, DigestKept
<1>10. VerdictInv'
  BY <1>1, VerdictAway DEF Ended
<1>11. QED
  BY <1>0, <1>7, <1>8, <1>9, <1>10 DEF RecordInv

-----------------------------------------------------------------------------
(* The steps that note an event *)

\* What the coordinator makes of an event it is handed in one of the loops.
Judged(ev) ==
    /\ Receiving /\ UNCHANGED wire /\ upstream'.heard = upstream.heard
    /\ Flowing' => sess'.last = sess.last /\ (saw_result' <=> saw_result \/ ev.kind = "finalize_result")
    /\ pc' = "send" => ev = Observed("transcript", event')
    /\ Flowing' /\ pc' # "send" => ev.kind # "transcript"

LEMMA NoteKept ==
    ASSUME RecordInv, LiveInv', NEW ev \in Events, Judged(ev), Note(ev)
    PROVE  RecordInv'
<1>1. obs' = provider_event(obs, ev) /\ UNCHANGED <<status, record, told>>
  BY DEF Note
<1>2. pc \in {"select", "drain"} /\ Flowing /\ pc # "send" /\ ~Ended
  BY DEF Judged, Receiving, Flowing, Alive, InStream, InDrain, Ended
<1>3. /\ obs'.accepted = obs.accepted /\ obs'.acked = obs.acked /\ obs'.written = obs.written
      /\ obs'.frames = obs.frames /\ obs'.finalize = (obs.finalize \/ ev.kind = "finalize_result")
      /\ DOMAIN obs' = DOMAIN obs
  BY <1>1 DEF provider_event, RecordInv, RecordTypes
<1>4. PICK n \in Nat : n = Len(obs.results)
  BY DEF RecordInv, RecordTypes
<1>5. /\ Len(obs'.results) = n + 1 /\ obs'.results[n + 1] = ev /\ obs'.results \in Seq(Events)
      /\ Cardinality(Transcripts(n + 1)') = Cardinality(Transcripts(n)) +
              (IF ev.kind = "transcript" THEN 1 ELSE 0)
  BY <1>1, <1>4, NoteAppends DEF RecordInv
<1>6. RecordTypes'
  <2>1. obs' = [obs EXCEPT !.results = obs'.results, !.finalize = obs'.finalize]
    BY <1>1 DEF provider_event, RecordInv, RecordTypes
  <2>2. obs'.finalize \in BOOLEAN
    BY <1>3
  <2>3. QED
    BY <1>1, <1>5, <2>1, <2>2 DEF RecordInv, RecordTypes
<1>7. CountInv'
  <2>1. Flowing' => (obs'.finalize <=> saw_result')
    BY <1>2, <1>3 DEF Judged, RecordInv, CountInv
  <2>2. QED
    BY <1>2, <1>3, <2>1, CountTypes DEF Judged, RecordInv, CountInv
<1>8. DigestInv'
  <2>1. ToldIsDigested'
    BY <1>1, NoteKeepsDigest DEF RecordInv, DigestInv
  <2>2. Cardinality(Transcripts(Len(obs.results)))' = Cardinality(Transcripts(n + 1)')
    BY <1>5 DEF Transcripts
  <2>3. Cardinality(Transcripts(n)) = Len(told) /\ Len(told) \in Nat /\ Len(told') = Len(told)
    BY <1>1, <1>2, <1>4 DEF RecordInv, DigestInv, RecordTypes
  <2>4. pc' = "send" => ev.kind = "transcript"
    BY DEF Judged, Observed
  <2>5. pc' = "send" => /\ obs'.results # <<>>
                        /\ obs'.results[Len(obs'.results)] = Observed("transcript", event')
                        /\ Cardinality(Transcripts(Len(obs.results)))' = Len(told') + 1
    <3>1. obs'.results # <<>>
      BY <1>4, <1>5
    <3>2. QED
      BY <1>5, <2>2, <2>3, <2>4, <3>1 DEF Judged
  <2>6. Flowing' /\ pc' # "send" => Cardinality(Transcripts(Len(obs.results)))' = Len(told')
    BY <1>5, <2>2, <2>3 DEF Judged
  <2>7. Observed("transcript", event)' = Observed("transcript", event')
    BY DEF Observed
  <2>8. QED
    BY <2>1, <2>5, <2>6, <2>7 DEF DigestInv
<1>9. VerdictInv'
  BY <1>1, <1>2, VerdictAway
<1>10. QED
  BY <1>6, <1>7, <1>8, <1>9 DEF RecordInv

LEMMA REvent == ASSUME RecordInv, ObservedEvent PROVE RecordInv'
<1> USE DEF Judged, Flowing, Early, Alive, InStream, InWrite, InDrain
<1>0. LiveInv /\ sess \in Session /\ upstream \in Upstream
  BY DEF RecordInv, LiveInv, TypeOK
<1>1. ASSUME NEW tr \in [start : ProviderTimes, duration : ProviderTimes, stability : Stability],
             ProviderTranscript(tr), Note(Observed("transcript", tr))
      PROVE  RecordInv'
  <2>1. tr \in Transcript /\ Observed("transcript", tr) \in Events
    BY InputAssumption DEF Transcript, Observed, Events, Millis
  <2>2. LiveInv'
    BY <1>0, <1>1, <2>1, LProviderTranscript
  <2>3. /\ Receiving /\ UNCHANGED <<wire, upstream, saw_result>>
        /\ pc' = "fail" \/ (pc' = "send" /\ event' = tr /\ UNCHANGED sess)
    BY <1>1 DEF ProviderTranscript, locals
  <2>4. Judged(Observed("transcript", tr))
    BY <2>3 DEF Observed
  <2>5. QED
    BY <1>1, <2>1, <2>2, <2>4, NoteKept
<1>2. ASSUME NEW end \in ProviderTimes, ProviderUtteranceEnd(end),
             Note(Observed("utterance_end", [AnyTranscript EXCEPT !.start = end]))
      PROVE  RecordInv'
  <2> DEFINE ev == Observed("utterance_end", [AnyTranscript EXCEPT !.start = end])
  <2>1. ev \in Events /\ ev.kind = "utterance_end"
    BY InputAssumption, BoundAssumption DEF AnyTranscript, Observed, Events, Millis, Stability
  <2>2. LiveInv'
    BY <1>0, <1>2, LProviderUtteranceEnd
  <2>3. /\ Receiving /\ UNCHANGED <<wire, upstream, saw_result>>
        /\ pc' = "fail" \/ (pc' = pc /\ UNCHANGED sess)
    BY <1>2 DEF ProviderUtteranceEnd, locals
  <2> HIDE DEF ev
  <2>4. Judged(ev)
    BY <2>1, <2>3 DEF Receiving
  <2>5. QED
    BY <1>2, <2>1, <2>2, <2>4, NoteKept DEF ev
<1>3. ASSUME ProviderFinalizeResult, Note(Observed("finalize_result", AnyTranscript))
      PROVE  RecordInv'
  <2> DEFINE ev == Observed("finalize_result", AnyTranscript)
  <2>1. ev \in Events /\ ev.kind = "finalize_result"
    BY BoundAssumption DEF AnyTranscript, Observed, Events, Millis, Stability
  <2>2. LiveInv'
    BY <1>0, <1>3, LProviderFinalizeResult
  <2>3. /\ Receiving /\ UNCHANGED wire /\ upstream'.heard = upstream.heard
        /\ pc' = "fail" \/ (pc' = pc /\ saw_result' = TRUE /\ sess' = mark_finalize_result_observed(sess))
    BY <1>0, <1>3 DEF ProviderFinalizeResult, Upstream
  <2>4. pc' = pc => sess'.last = sess.last
    BY <1>0, <2>3 DEF mark_finalize_result_observed, Session, Receiving
  <2> HIDE DEF ev
  <2>5. Judged(ev)
    BY <2>1, <2>3, <2>4 DEF Receiving
  <2>6. QED
    BY <1>3, <2>1, <2>2, <2>5, NoteKept DEF ev
<1>4. QED
  BY <1>1, <1>2, <1>3 DEF ObservedEvent

LEMMA RFailure == ASSUME RecordInv, ObservedFailure PROVE RecordInv'
<1>0. LiveInv /\ LiveInv' /\ ProviderFails
  BY LProviderFails DEF RecordInv, ObservedFailure
<1>1. CASE UNCHANGED obsVars
  BY <1>0, <1>1, PassiveSteps, PassiveKept
<1>2. CASE Note(Observed("transcript", AnyTranscript))
  <2>1. Observed("transcript", AnyTranscript) \in Events
    BY BoundAssumption DEF AnyTranscript, Observed, Events, Millis, Stability
  <2>2. Receiving /\ pc' = "fail" /\ UNCHANGED <<wire, upstream>>
    BY <1>0 DEF ProviderFails
  <2>3. Judged(Observed("transcript", AnyTranscript))
    BY <2>2 DEF Judged, Flowing, Early, Alive, InStream, InWrite, InDrain
  <2>4. QED
    BY <1>0, <1>2, <2>1, <2>3, NoteKept
<1>3. QED
  BY <1>1, <1>2 DEF ObservedFailure

LEMMA RSend == ASSUME RecordInv, ObservedSend PROVE RecordInv'
<1>0. LiveInv' /\ wire \in Wire /\ RecordTypes /\ ToldIsDigested
  BY LSendTranscript, LSendTranscriptFails DEF RecordInv, LiveInv, TypeOK, ObservedSend, DigestInv
<1>1. /\ pc = "send" /\ (wire' = wire \/ wire' = Told(event))
      /\ pc' = "fail" \/ (pc' = back /\ wire' = Told(event))
      /\ UNCHANGED <<sess, upstream, saw_result, back, obs, status, record>>
  BY DEF ObservedSend, SendTranscript, SendTranscriptFails, coordinator, locals
<1>2. wire'.acks = wire.acks
  BY <1>0, <1>1 DEF Told, Wire
<1>3. Flowing /\ ~Ended /\ pc' \in {"select", "drain", "fail"}
  BY <1>1 DEF RecordInv, LiveInv, TypeOK, PhaseInv, Flowing, Alive, InStream, InDrain, Ended
<1>4. /\ Observed("transcript", event) \in Events /\ Observed("transcript", event).kind = "transcript"
      /\ obs.results # <<>> /\ obs.results[Len(obs.results)] = Observed("transcript", event)
      /\ Cardinality(Transcripts(Len(obs.results))) = Len(told) + 1
  <2>1. event \in Transcript
    BY <1>1 DEF RecordInv, LiveInv, TimeInv
  <2>2. QED
    BY <1>1, <2>1 DEF Transcript, Observed, Events, RecordInv, DigestInv, Millis
<1>5. Cardinality(Transcripts(Len(obs.results)))' = Cardinality(Transcripts(Len(obs.results)))
  BY <1>1 DEF Transcripts
<1>6. CASE told' = Append(told, Observed("transcript", event))
  <2>1. ToldIsDigested' /\ Len(told') = Len(told) + 1 /\ told' \in Seq(Events)
    BY <1>0, <1>1, <1>4, <1>6, SendKeepsDigest
  <2>2. RecordTypes'
    BY <1>0, <1>1, <2>1 DEF RecordTypes
  <2>3. CountInv'
    BY <1>1, <1>2, <1>3 DEF RecordInv, CountInv
  <2>4. DigestInv'
    BY <1>3, <1>4, <1>5, <2>1 DEF DigestInv
  <2>5. QED
    BY <1>0, <1>1, <1>3, <2>2, <2>3, <2>4, VerdictAway DEF RecordInv
<1>7. CASE told' = told /\ pc' = "fail"
  <2>1. RecordTypes' /\ CountInv'
    BY <1>0, <1>1, <1>2, <1>3, <1>7 DEF RecordInv, RecordTypes, CountInv
  <2>2. ToldIsDigested'
    <3>1. \A n : Transcripts(n)' = Transcripts(n)
      BY <1>1 DEF Transcripts
    <3>2. QED
      BY <1>0, <1>1, <1>7, <3>1 DEF ToldIsDigested
  <2>3. DigestInv'
    BY <1>7, <2>2 DEF DigestInv, Flowing, Early, Alive, InStream, InWrite, InDrain
  <2>4. QED
    BY <1>0, <1>1, <1>3, <2>1, <2>3, VerdictAway DEF RecordInv
<1>8. QED
  BY <1>1, <1>6, <1>7 DEF ObservedSend

-----------------------------------------------------------------------------
(* The end of the session *)

LEMMA RTerminal == ASSUME RecordInv, Terminal PROVE RecordInv'
<1> USE DEF Flowing, Early, Alive, InStream, InWrite, InDrain
<1>0. LiveInv' /\ wire \in Wire
  BY LSendReadyFails, LClientClose, LSendVerdict, LSendError DEF RecordInv, LiveInv, TypeOK, Terminal
<1>1. /\ UNCHANGED <<obs, record, told, upstream>> /\ wire'.acks = wire.acks
      /\ pc \in {"ready", "select", "complete", "fail"} /\ pc' \in {"closing", "socket"}
  BY <1>0 DEF Terminal, SendReadyFails, ClientClose, SendVerdict, SendError, Wire
<1>2. RecordTypes' /\ CountInv'
  BY <1>1 DEF RecordInv, RecordTypes, CountInv
<1>3. DigestInv'
  <2>1. \A n : Transcripts(n)' = Transcripts(n)
    BY <1>1 DEF Transcripts
  <2>2. ToldIsDigested'
    BY <1>1, <2>1 DEF RecordInv, DigestInv, ToldIsDigested
  <2>3. QED
    BY <1>1, <2>2 DEF DigestInv
<1>4. VerdictInv'
  <2>1. ~record.made
    BY <1>1 DEF RecordInv, VerdictInv, Ended
  <2>2. CASE SendVerdict /\ status' = Requested
    <3>1. pc = "complete" /\ Flowing /\ wire'.verdict = Requested
      BY <1>0, <2>2 DEF SendVerdict, Wire
    <3>2. /\ obs.accepted = sess.last /\ obs.written.count = upstream.heard
          /\ obs.acked.count = wire.acks /\ (obs.finalize <=> saw_result)
      BY <3>1 DEF RecordInv, CountInv
    <3>3. upstream.heard = sess.last /\ wire.acks = sess.last /\ (upstream.answered <=> saw_result)
      BY <3>1 DEF RecordInv, LiveInv, FrameInv, ToldInv
    <3>4. obs.finalize = (Requested = "flushed")
      <4>1. obs.finalize \in BOOLEAN /\ saw_result \in BOOLEAN
        BY DEF RecordInv, RecordTypes, LiveInv, TypeOK
      <4>2. QED
        BY <3>2, <4>1 DEF Requested
    <3>5. QED
      BY <1>1, <2>1, <2>2, <3>1, <3>2, <3>3, <3>4 DEF VerdictInv, Ended
  <2>3. CASE status' \in {"ready_delivery_failed", "client_close", "error"}
    BY <1>1, <2>1, <2>3 DEF VerdictInv, FinalizeStatus
  <2>4. QED
    BY <2>2, <2>3 DEF Terminal
<1>5. QED
  BY <1>0, <1>2, <1>3, <1>4 DEF RecordInv

LEMMA RObserve == ASSUME RecordInv, Observe PROVE RecordInv'
<1>1. /\ pc = "closing" /\ record' = finish(obs, status)
      /\ UNCHANGED <<vars, obs, status, told>>
  BY DEF Observe
<1>2. LiveInv'
  BY <1>1, LiveStep DEF RecordInv
<1>3. UNCHANGED <<pc, wire, upstream, sess, saw_result, event, back>>
  BY <1>1 DEF vars
<1>4. RecordTypes' /\ CountInv'
  <2>1. UNCHANGED <<obs, told>>
    BY <1>1
  <2>2. Flowing' <=> Flowing
    BY <1>3 DEF Flowing, Early, Alive, InStream, InWrite, InDrain
  <2>3. RecordTypes'
    BY <2>1 DEF RecordInv, RecordTypes
  <2>4. CountInv'
    BY <1>3, <2>1, <2>2 DEF RecordInv, CountInv, Numbered
  <2>5. QED
    BY <2>3, <2>4
<1>5. DigestInv'
  <2>1. ~Flowing' /\ pc' # "send" /\ UNCHANGED <<obs, told>>
    BY <1>1, <1>3 DEF Flowing, Early, Alive, InStream, InWrite, InDrain
  <2>2. \A n : Transcripts(n)' = Transcripts(n)
    BY <2>1 DEF Transcripts
  <2>3. ToldIsDigested'
    BY <2>1, <2>2 DEF RecordInv, DigestInv, ToldIsDigested
  <2>4. QED
    BY <2>1, <2>3 DEF DigestInv
<1>6. VerdictInv'
  BY <1>1, <1>3 DEF RecordInv, VerdictInv, Ended, finish, finish_sequence
<1>7. QED
  BY <1>2, <1>4, <1>5, <1>6 DEF RecordInv

LEMMA RPassive ==
    ASSUME RecordInv, Unobserved \/ CloseAfterRecord \/ ObsDone
    PROVE  RecordInv'
<1>1. UNCHANGED obsVars /\ LiveInv
  BY DEF Unobserved, CloseAfterRecord, ObsDone, RecordInv
<1>2. Passive
  BY <1>1, PassiveSteps DEF Unobserved, CloseAfterRecord, ObsDone
<1>3. LiveInv'
  <2>1. Next
    BY DEF Unobserved, CloseAfterRecord, ObsDone, Next, Client, Provider, Opening, Writing, Finalizing, Ending
  <2>2. QED
    BY <1>1, <2>1, LiveStep
<1>4. QED
  BY <1>1, <1>2, <1>3, PassiveKept

-----------------------------------------------------------------------------
LEMMA RecordInit == ObsInit => RecordInv
<1> SUFFICES ASSUME ObsInit PROVE RecordInv
  OBVIOUS
<1>1. LiveInv /\ obs = NewTracker /\ status = "none" /\ record = NoRecord /\ told = <<>>
  BY LiveInit DEF ObsInit
<1>2. sess.last = 0 /\ upstream.heard = 0 /\ wire.acks = 0 /\ saw_result = FALSE /\ pc = "config"
  BY DEF ObsInit, Init, NewSession
<1>3. <<>> \in Seq(Events) /\ <<>> \in Seq(Nat \X Nat) /\ NewSequence \in SequenceType /\ Len(<<>>) = 0
  BY DEF NewSequence, SequenceType
<1>4. RecordTypes
  BY <1>1, <1>3 DEF RecordTypes, NewTracker
<1>5. CountInv
  BY <1>1, <1>2, <1>3 DEF CountInv, NewTracker, NewSequence, Numbered
<1>6. DigestInv
  <2>1. Len(told) = 0 /\ Len(obs.results) = 0 /\ Transcripts(0) = {}
    BY <1>1, <1>3 DEF NewTracker, Transcripts
  <2>2. ToldIsDigested
    BY <2>1 DEF ToldIsDigested
  <2>3. QED
    BY <1>2, <2>1, <2>2, FS_EmptySet DEF DigestInv
<1>7. VerdictInv
  BY <1>1 DEF VerdictInv, FinalizeStatus, NoRecord
<1>8. QED
  BY <1>1, <1>4, <1>5, <1>6, <1>7 DEF RecordInv

LEMMA RecordStep == RecordInv /\ [ObsNext]_allVars => RecordInv'
<1> SUFFICES ASSUME RecordInv, [ObsNext]_allVars PROVE RecordInv'
  OBVIOUS
<1>1. CASE UNCHANGED allVars
  <2>1. LiveInv' /\ UNCHANGED vars /\ UNCHANGED obsVars
    BY <1>1, LiveStep DEF allVars, RecordInv
  <2>2. UNCHANGED <<pc, wire, upstream, sess, saw_result, event, back, obs, status, record, told>>
    BY <2>1 DEF vars, obsVars
  <2>3. RecordTypes' /\ CountInv'
    BY <2>2 DEF RecordInv, RecordTypes, CountInv, Flowing, Early, Alive, InStream, InWrite, InDrain
  <2>4. DigestInv'
    <3>1. \A n : Transcripts(n)' = Transcripts(n)
      BY <2>2 DEF Transcripts
    <3>2. ToldIsDigested'
      BY <2>2, <3>1 DEF RecordInv, DigestInv, ToldIsDigested
    <3>3. Cardinality(Transcripts(Len(obs.results)))' = Cardinality(Transcripts(Len(obs.results)))
      BY <2>2 DEF Transcripts
    <3>4. (Flowing' <=> Flowing) /\ Observed("transcript", event)' = Observed("transcript", event)
      BY <2>2 DEF Flowing, Early, Alive, InStream, InWrite, InDrain, Observed
    <3>5. QED
      BY <2>2, <3>2, <3>3, <3>4 DEF RecordInv, DigestInv
  <2>5. VerdictInv'
    BY <2>2 DEF RecordInv, VerdictInv, Ended, finish, finish_sequence
  <2>6. QED
    BY <2>1, <2>3, <2>4, <2>5 DEF RecordInv
<1>2. QED
  BY <1>1, RPassive, RAudio, RWrite, RAck, REvent, RFailure, RSend, RTerminal, RObserve DEF ObsNext

\* The record a session leaves behind is true and complete, whatever the
\* client, the provider, the network and the timers do: it claims no write
\* and no ACK that did not happen, carries the verdict the client was given,
\* and digests every transcript the client received, in order
\* (LiveObservationTracker, run in server/live.rs).
THEOREM SessionRecordHonest == ObsSpec => []RecordHonest
<1>1. RecordInv => RecordHonest
  <2> SUFFICES ASSUME RecordInv PROVE RecordHonest
    OBVIOUS
  <2>1. RecordClaimsNoMore
    BY DEF RecordInv, CountInv, Numbered, RecordClaimsNoMore
  <2>2. RecordCarriesVerdict
    <3>1. record.made => /\ record.status = status /\ record.finalize = obs.finalize
                         /\ record.accepted = obs.accepted
                         /\ record.written.count = obs.written.count
                         /\ record.acked.count = obs.acked.count
      <4>1. /\ finish_sequence(obs.written).count = obs.written.count
            /\ finish_sequence(obs.acked).count = obs.acked.count
        BY CountTypes DEF finish_sequence, SequenceType
      <4>2. /\ finish(obs, status).status = status
            /\ finish(obs, status).accepted = obs.accepted
            /\ finish(obs, status).written = finish_sequence(obs.written)
            /\ finish(obs, status).acked = finish_sequence(obs.acked)
        BY DEF finish
      <4>3. finish(obs, status).finalize = obs.finalize
        BY Zenon DEF finish
      <4>4. record.made => record = finish(obs, status)
        BY DEF RecordInv, VerdictInv
      <4>5. QED
        BY <4>1, <4>2, <4>3, <4>4
    <3>2. QED
      BY <3>1 DEF RecordInv, VerdictInv, RecordCarriesVerdict
  <2>3. QED
    BY <2>1, <2>2 DEF RecordInv, DigestInv, RecordHonest
<1>2. QED
  BY <1>1, RecordInit, RecordStep, PTL DEF ObsSpec

-----------------------------------------------------------------------------
(* The Deepgram adapter: rounding *)

LEMMA Rounded ==
    ASSUME NEW x \in Nat
    PROVE  /\ seconds_to_millis(x) \in Nat
           /\ 2 * (seconds_to_millis(x) * TicksPerMilli) <= 2 * x + TicksPerMilli
           /\ 2 * x < 2 * (seconds_to_millis(x) * TicksPerMilli) + TicksPerMilli
<1> DEFINE r == seconds_to_millis(x)
           d == 2 * TicksPerMilli
<1>1. TicksPerMilli \in Nat /\ 2 * x + TicksPerMilli \in Nat /\ d \in Nat \ {0}
  BY TickAssumption
<1>2. r \in Nat /\ r * d <= 2 * x + TicksPerMilli /\ 2 * x + TicksPerMilli < (r + 1) * d
  BY <1>1, DivBounds DEF seconds_to_millis
<1> HIDE DEF r
<1>3. r * d = 2 * (r * TicksPerMilli) /\ (r + 1) * d = r * d + d /\ r * TicksPerMilli \in Nat
  BY <1>1, <1>2
<1>4. QED
  BY <1>1, <1>2, <1>3 DEF r

\* The end of a transcript is at most a millisecond late.
LEMMA RoundedEnd ==
    ASSUME NEW s \in Nat, NEW d \in Nat
    PROVE  (seconds_to_millis(s) + seconds_to_millis(d)) * TicksPerMilli <= s + d + TicksPerMilli
<1> DEFINE a == seconds_to_millis(s)
           b == seconds_to_millis(d)
<1>1. /\ a \in Nat /\ b \in Nat /\ TicksPerMilli \in Nat
      /\ 2 * (a * TicksPerMilli) <= 2 * s + TicksPerMilli
      /\ 2 * (b * TicksPerMilli) <= 2 * d + TicksPerMilli
  BY Rounded, TickAssumption
<1> HIDE DEF a, b
<1>2. /\ (a + b) * TicksPerMilli = a * TicksPerMilli + b * TicksPerMilli
      /\ a * TicksPerMilli \in Nat /\ b * TicksPerMilli \in Nat
  BY <1>1
<1>3. a * TicksPerMilli + b * TicksPerMilli <= s + d + TicksPerMilli
  BY <1>1, <1>2
<1>4. QED
  BY <1>2, <1>3 DEF a, b

\* A start after the last final is at most a millisecond before its end.
LEMMA RoundedStart ==
    ASSUME NEW x \in Nat, NEW t \in Nat, t <= x, NEW e \in Nat, e * TicksPerMilli <= t + TicksPerMilli
    PROVE  e <= seconds_to_millis(x) + 1
<1> DEFINE r == seconds_to_millis(x)
<1>1. /\ r \in Nat /\ TicksPerMilli \in Nat \ {0} /\ r * TicksPerMilli \in Nat /\ e * TicksPerMilli \in Nat
      /\ 2 * x < 2 * (r * TicksPerMilli) + TicksPerMilli
  BY Rounded, TickAssumption
<1> HIDE DEF r
<1>2. (r + 2) * TicksPerMilli = r * TicksPerMilli + 2 * TicksPerMilli
  BY <1>1
<1>3. e * TicksPerMilli < (r + 2) * TicksPerMilli
  BY <1>1, <1>2
<1>4. e < r + 2
  BY <1>1, <1>3, MulCancel
<1>5. QED
  BY <1>1, <1>4 DEF r

\* A transcript of audio that was heard ends within a millisecond of the horizon.
LEMMA RoundedHorizon ==
    ASSUME NEW n \in Nat, NEW s \in Nat, NEW d \in Nat,
           s + d <= (n * Second * TicksPerMilli) \div SampleRate
    PROVE  seconds_to_millis(s) + seconds_to_millis(d) <= checked_horizon_millis(n) + 1
<1> DEFINE N == n * Second
           H == N \div SampleRate
           K == (N * TicksPerMilli) \div SampleRate
           e == seconds_to_millis(s) + seconds_to_millis(d)
<1>0. /\ N \in Nat /\ TicksPerMilli \in Nat \ {0} /\ SampleRate \in Nat \ {0}
      /\ N * TicksPerMilli \in Nat /\ s + d <= K
  BY RateAssumption, TickAssumption
<1>1. e \in Nat /\ e * TicksPerMilli <= s + d + TicksPerMilli
  <2>1. seconds_to_millis(s) \in Nat /\ seconds_to_millis(d) \in Nat
    BY Rounded
  <2>2. e * TicksPerMilli <= s + d + TicksPerMilli
    BY RoundedEnd
  <2>3. QED
    BY <2>1, <2>2
<1>2. checked_horizon_millis(n) = H
  BY DEF checked_horizon_millis
<1> HIDE DEF N, e
<1>3. /\ H \in Nat /\ N < (H + 1) * SampleRate
      /\ K \in Nat /\ K * SampleRate <= N * TicksPerMilli
  BY <1>0, DivBounds
<1> HIDE DEF H, K
<1>4. N * TicksPerMilli < ((H + 1) * TicksPerMilli) * SampleRate
  <2>1. ((H + 1) * SampleRate) * TicksPerMilli = ((H + 1) * TicksPerMilli) * SampleRate
    BY <1>0, <1>3, Regroup
  <2>2. N + 1 <= (H + 1) * SampleRate /\ (H + 1) * SampleRate \in Nat
    BY <1>0, <1>3
  <2>3. (N + 1) * TicksPerMilli <= ((H + 1) * SampleRate) * TicksPerMilli
    BY <1>0, <2>2, MulMono
  <2>4. (N + 1) * TicksPerMilli = N * TicksPerMilli + TicksPerMilli
    BY <1>0
  <2>5. ((H + 1) * SampleRate) * TicksPerMilli \in Nat
    BY <1>0, <2>2
  <2>6. QED
    BY <1>0, <2>1, <2>3, <2>4, <2>5
<1>5. K < (H + 1) * TicksPerMilli
  <2>1. (H + 1) * TicksPerMilli \in Nat /\ K * SampleRate \in Nat
        /\ ((H + 1) * TicksPerMilli) * SampleRate \in Nat
    BY <1>0, <1>3
  <2>2. K * SampleRate < ((H + 1) * TicksPerMilli) * SampleRate
    BY <1>0, <1>3, <1>4, <2>1
  <2>3. QED
    BY <1>0, <1>3, <2>1, <2>2, MulCancel
<1>6. e < H + 2
  <2>1. (H + 2) * TicksPerMilli = (H + 1) * TicksPerMilli + TicksPerMilli
        /\ (H + 1) * TicksPerMilli \in Nat /\ e * TicksPerMilli \in Nat
    BY <1>0, <1>1, <1>3
  <2>2. e * TicksPerMilli < (H + 2) * TicksPerMilli
    BY <1>0, <1>1, <1>3, <1>5, <2>1
  <2>3. QED
    BY <1>0, <1>1, <1>3, <2>2, MulCancel
<1>7. QED
  BY <1>1, <1>2, <1>3, <1>6 DEF e

-----------------------------------------------------------------------------
(* The Deepgram adapter: the inductive invariant *)

ReadTypes ==
    /\ pending \in {<<>>, <<FinalizeResult>>}
    /\ spoken \in Nat
    /\ flush \in Transcript \cup {NoTranscript}

\* The text of a finalize answer is on its way or has been sent when its
\* evidence is still pending, and has been sent when the evidence is taken.
FlushInv ==
    /\ wire.verdict = "flushed" => saw_result
    /\ pending # <<>> => flush # NoTranscript /\ ~saw_result
    /\ flush # NoTranscript /\ saw_result => wire.end >= End(flush)
    /\ flush # NoTranscript /\ Flowing /\ ~saw_result =>
            /\ pending # <<>>
            /\ (pc = "send" /\ event = flush) \/ wire.end >= End(flush)

\* The coordinator's clock against the provider's.
SpokenInv ==
    /\ timeline.horizon = checked_horizon_millis(timeline.samples)
    /\ timeline.last_final * TicksPerMilli <= spoken + TicksPerMilli

DgInv == LiveInv /\ ReadTypes /\ FlushInv /\ SpokenInv

\* What a step that leaves the read state alone does.
Beside ==
    /\ saw_result' = saw_result
    /\ Flowing' => Flowing
    /\ timeline'.last_final = timeline.last_final
    /\ timeline' = timeline \/ timeline'.horizon = checked_horizon_millis(timeline'.samples)
    /\ wire'.end >= wire.end
    /\ wire'.verdict = "flushed" => wire.verdict = "flushed" \/ saw_result
    /\ pc = "send" /\ Flowing' => wire'.end >= End(event) \/ (pc' = "send" /\ event' = event)

LEMMA BesideKept ==
    ASSUME DgInv, LiveInv', Beside, UNCHANGED <<pending, spoken, flush>>
    PROVE  DgInv'
<1>1. ReadTypes'
  BY DEF DgInv, ReadTypes
<1>2. SpokenInv'
  BY DEF DgInv, SpokenInv, Beside
<1>3. flush # NoTranscript => End(flush) \in Nat /\ wire.end \in Nat /\ wire'.end \in Nat
  BY BoundAssumption DEF DgInv, ReadTypes, LiveInv, TypeOK, Wire, Transcript, End, Millis
<1>4. FlushInv'
  <2>1. End(flush)' = End(flush)
    BY DEF End
  <2>2. flush # NoTranscript /\ wire.end >= End(flush) => wire'.end >= End(flush)
    BY <1>3 DEF Beside
  <2>3. ASSUME flush # NoTranscript, Flowing', ~saw_result
        PROVE  pending # <<>> /\ ((pc' = "send" /\ event' = flush) \/ wire'.end >= End(flush))
    <3>1. Flowing /\ pending # <<>> /\ ((pc = "send" /\ event = flush) \/ wire.end >= End(flush))
      BY <2>3 DEF DgInv, FlushInv, Beside
    <3>2. CASE pc = "send" /\ event = flush
      BY <2>3, <3>1, <3>2 DEF Beside
    <3>3. CASE wire.end >= End(flush)
      BY <2>2, <2>3, <3>1, <3>3
    <3>4. QED
      BY <3>1, <3>2, <3>3
  <2>4. QED
    BY <2>1, <2>2, <2>3 DEF DgInv, FlushInv, Beside
<1>5. QED
  BY <1>1, <1>2, <1>4 DEF DgInv

-----------------------------------------------------------------------------
(* The Deepgram adapter: the steps *)

LEMMA BranchesBeside == ASSUME LiveInv, OtherBranches PROVE Beside
<1> USE DEF Beside, Flowing, Early, Alive, InStream, InWrite, InDrain, coordinator, locals
<1>0. /\ wire \in Wire /\ wire.end \in Nat /\ timeline \in Timeline
      /\ back \in {"select", "write", "drain"}
  BY DEF LiveInv, TypeOK, Wire, Millis
<1>1. CASE Client \/ IdleTimeout \/ SessionTimeout
  BY <1>0, <1>1 DEF Client, ClientAudio, ClientRejected, ClientClose, ClientPing, ClientFinalize,
     IdleTimeout, SessionTimeout
<1>2. CASE Opening
  BY <1>0, <1>2 DEF Opening, ReceiveConfig, OpenSucceeds, OpenFails, SendReady, SendReadyFails, Wire
<1>3. CASE ProviderWriteSucceeds
  <2>1. /\ pc = "write" /\ pc' \in {"ack", "fail"} /\ UNCHANGED <<wire, saw_result>>
        /\ timeline' = commit_audio_write(timeline, pcm)
    BY <1>3 DEF ProviderWriteSucceeds
  <2>2. timeline'.last_final = timeline.last_final
        /\ timeline'.horizon = checked_horizon_millis(timeline'.samples)
    BY <1>0, <2>1 DEF commit_audio_write, Timeline
  <2>3. QED
    BY <1>0, <2>1, <2>2
<1>4. CASE ProviderWriteFails \/ WriteCancelled \/ WriteTimeout \/ SendPong \/ SendPongFails
  BY <1>0, <1>4 DEF ProviderWriteFails, WriteCancelled, WriteTimeout, SendPong, SendPongFails, LiveInv, PhaseInv
<1>5. CASE SendAck \/ SendAckFails
  BY <1>0, <1>5 DEF SendAck, SendAckFails, Wire
<1>6. CASE SendTranscript \/ SendTranscriptFails
  <2>1. /\ pc = "send" /\ UNCHANGED <<timeline, saw_result>>
        /\ wire' = Told(event) \/ (wire' = wire /\ pc' = "fail")
    BY <1>6 DEF SendTranscript, SendTranscriptFails
  <2>2. event \in Transcript /\ End(event) \in Nat
    BY <2>1 DEF LiveInv, TimeInv, Transcript, End, Millis
  <2>3. Told(event).end >= wire.end /\ Told(event).end >= End(event) /\ Told(event).verdict = wire.verdict
    BY <1>0, <2>2 DEF Told, Wire
  <2>4. pc \in {"send"} /\ Flowing
    BY <1>0, <2>1 DEF LiveInv, PhaseInv
  <2>5. QED
    BY <1>0, <2>1, <2>3, <2>4
<1>7. CASE ProviderFinalizeSucceeds \/ ProviderFinalizeFails \/ FinalizeCancelled
           \/ DrainInterrupted \/ DrainTimeout
  BY <1>0, <1>7 DEF ProviderFinalizeSucceeds, ProviderFinalizeFails, FinalizeCancelled,
     DrainInterrupted, DrainTimeout, CompleteFinalize
<1>8. CASE SendVerdict \/ SendVerdictFails
  BY <1>0, <1>8 DEF SendVerdict, SendVerdictFails, Wire, Requested
<1>9. CASE Ending \/ Done
  BY <1>0, <1>9 DEF Ending, SendError, CloseCoordinator, CloseSocket, Done, vars, Wire
<1>10. QED
  BY <1>1, <1>2, <1>3, <1>4, <1>5, <1>6, <1>7, <1>8, <1>9 DEF OtherBranches, Writing

LEMMA DBranches == ASSUME DgInv, OtherBranches PROVE DgInv'
<1>1. LiveInv' /\ Beside
  <2>1. Next
    BY DEF OtherBranches, Next, Writing, Finalizing
  <2>2. QED
    BY <2>1, LiveStep, BranchesBeside DEF DgInv
<1>2. QED
  BY <1>1, BesideKept DEF OtherBranches, readVars, providerVars

\* Nothing happened, or the poll began, went on or ended without an event.
LEMMA DUnread == ASSUME DgInv, UNCHANGED <<vars, pending, spoken, flush>> PROVE DgInv'
<1>1. LiveInv'
  BY LiveStep DEF DgInv
<1>2. Beside
  BY DEF Beside, vars, Flowing, Early, Alive, InStream, InWrite, InDrain, DgInv, LiveInv, TypeOK, Wire, Millis
<1>3. QED
  BY <1>1, <1>2, BesideKept

LEMMA DNoTranscript ==
    ASSUME DgInv, UNCHANGED <<pending, spoken, flush>>,
           ProviderFails \/ ProviderCloses \/ DrainEnds \/ \E end : ProviderUtteranceEnd(end)
    PROVE  DgInv'
<1>1. LiveInv'
  BY LProviderFails, LProviderCloses, LDrainEnds, LProviderUtteranceEnd DEF DgInv
<1>2. Receiving /\ pc' \in {pc, "fail", "complete"} /\ UNCHANGED <<saw_result, timeline, wire>>
  BY DEF ProviderFails, ProviderCloses, DrainEnds, CompleteFinalize, ProviderUtteranceEnd, Receiving, locals,
     coordinator
<1>3. Beside
  BY <1>2 DEF Beside, Receiving, Flowing, Early, Alive, InStream, InWrite, InDrain, DgInv, LiveInv, TypeOK,
     Wire, Millis
<1>4. QED
  BY <1>1, <1>3, BesideKept

\* The evidence of a finalize answer, behind its text.
LEMMA DEvidence ==
    ASSUME DgInv, ProviderFinalizeResult, pending' = <<>>, flush' = flush, spoken' \in Nat, spoken' >= spoken,
           pending # <<>> \/ ~saw_result
    PROVE  DgInv'
<1>1. LiveInv'
  BY LProviderFinalizeResult DEF DgInv
<1>2. /\ Receiving /\ UNCHANGED <<timeline, wire, event>>
      /\ (pc' = "fail" /\ saw_result' = saw_result) \/ (pc' = pc /\ saw_result' = TRUE)
  BY DEF ProviderFinalizeResult
<1>3. Flowing /\ pc # "send"
  BY <1>2 DEF Receiving, Flowing, Alive, InStream, InDrain
<1>4. ~saw_result /\ wire.verdict # "flushed"
  BY DEF DgInv, FlushInv
<1>5. flush # NoTranscript => wire.end >= End(flush)
  BY <1>3, <1>4 DEF DgInv, FlushInv
<1>6. ReadTypes'
  BY DEF DgInv, ReadTypes
<1>7. FlushInv'
  <2>1. End(flush)' = End(flush)
    BY DEF End
  <2>2. pc' = "fail" => ~Flowing'
    BY DEF Flowing, Early, Alive, InStream, InWrite, InDrain
  <2>3. QED
    BY <1>2, <1>4, <1>5, <2>1, <2>2 DEF FlushInv
<1>8. SpokenInv'
  <2>1. timeline.last_final * TicksPerMilli \in Int /\ spoken \in Nat /\ TicksPerMilli \in Nat
    BY BoundAssumption, TickAssumption DEF DgInv, LiveInv, TypeOK, Timeline, Millis, NoFinal, ReadTypes
  <2>2. QED
    BY <1>2, <2>1 DEF DgInv, SpokenInv
<1>9. QED
  BY <1>1, <1>6, <1>7, <1>8 DEF DgInv

LEMMA DPending == ASSUME DgInv, NextPending PROVE DgInv'
<1>1. pending = <<FinalizeResult>> /\ pending # <<>>
  BY DEF NextPending, DgInv, ReadTypes
<1>2. Head(pending) = FinalizeResult /\ Tail(pending) = <<>>
  BY <1>1
<1>3. ProviderFinalizeResult /\ pending' = <<>> /\ UNCHANGED <<spoken, flush>> /\ spoken \in Nat
  BY <1>2 DEF NextPending, Deliver, providerVars, DgInv, ReadTypes
<1>4. QED
  BY <1>1, <1>3, DEvidence

LEMMA MessageTypes ==
    ASSUME NEW m \in Results, WellFormed(m)
    PROVE  /\ TranscriptOf(m) \in Transcript /\ TranscriptOf(m) # FinalizeResult
           /\ TranscriptOf(m) # NoTranscript
           /\ (IsFinal(TranscriptOf(m)) <=> m.is_final \/ m.speech_final)
           /\ End(TranscriptOf(m)) * TicksPerMilli <= m.start + m.duration + TicksPerMilli
<1>1. m.start \in Nat /\ m.duration \in Nat
  BY DEF Results
<1>2. seconds_to_millis(m.start) \in Millis /\ seconds_to_millis(m.duration) \in Millis
  BY <1>1, Rounded, BoundAssumption DEF WellFormed, Millis
<1>3. TranscriptOf(m) \in Transcript
  BY <1>2 DEF TranscriptOf, Transcript, Stability, stability
<1>4. IsFinal(TranscriptOf(m)) <=> m.is_final \/ m.speech_final
  BY DEF IsFinal, TranscriptOf, stability
<1>5. End(TranscriptOf(m)) * TicksPerMilli <= m.start + m.duration + TicksPerMilli
  BY <1>1, RoundedEnd DEF End, TranscriptOf
<1>6. QED
  BY <1>3, <1>4, <1>5, TickAssumption, InputAssumption

\* A message with a transcript.
LEMMA DTranscript ==
    ASSUME DgInv, NEW m \in Results, NextResults(m), Head(parse_results(m)) = TranscriptOf(m),
           pending' = IF m.from_finalize THEN <<FinalizeResult>> ELSE <<>>, m.from_finalize => m.text
    PROVE  DgInv'
<1> DEFINE tr == TranscriptOf(m)
<1>0. /\ tr \in Transcript /\ tr # FinalizeResult /\ tr # NoTranscript
      /\ (IsFinal(tr) <=> m.is_final \/ m.speech_final)
      /\ End(tr) * TicksPerMilli <= m.start + m.duration + TicksPerMilli
      /\ m.start \in Nat /\ m.duration \in Nat /\ m.from_finalize \in BOOLEAN
  BY MessageTypes DEF NextResults, Results
<1>1. /\ ProviderTranscript(tr) /\ pending = <<>> /\ Honest(m)
      /\ spoken' = (IF m.is_final \/ m.speech_final THEN m.start + m.duration ELSE spoken)
      /\ flush' = (IF m.from_finalize THEN tr ELSE flush)
  BY <1>0 DEF NextResults, Deliver
<1> HIDE DEF tr
<1>2. LiveInv'
  BY <1>0, <1>1, LProviderTranscript DEF DgInv
<1>3. /\ Receiving /\ UNCHANGED <<wire, saw_result>>
      /\ \/ pc' = "send" /\ event' = tr /\ timeline' = accept_transcript(timeline, tr)
         \/ pc' = "fail" /\ timeline' = timeline
  BY <1>1 DEF ProviderTranscript, locals
<1>4. Flowing /\ pc # "send"
  BY <1>3 DEF Receiving, Flowing, Alive, InStream, InDrain
<1>5. m.from_finalize => ~saw_result
  <2>1. m.from_finalize => upstream.asked /\ ~upstream.answered
    BY <1>1 DEF Honest
  <2>2. QED
    BY <1>3, <2>1 DEF DgInv, LiveInv, ToldInv, Receiving, Alive, InStream, InDrain
<1>6. flush # NoTranscript => saw_result /\ wire.end >= End(flush)
  BY <1>1, <1>4 DEF DgInv, FlushInv
<1>7. ReadTypes'
  BY <1>0, <1>1 DEF DgInv, ReadTypes
<1>8. FlushInv'
  <2>1. pc' = "fail" => ~Flowing'
    BY DEF Flowing, Early, Alive, InStream, InWrite, InDrain
  <2>2. <<FinalizeResult>> # <<>>
    OBVIOUS
  <2>3. CASE m.from_finalize
    BY <1>0, <1>1, <1>3, <1>5, <2>1, <2>2, <2>3 DEF DgInv, FlushInv
  <2>4. CASE ~m.from_finalize
    <3>1. flush' = flush /\ pending' = <<>> /\ End(flush)' = End(flush)
      BY <1>1, <2>4 DEF End
    <3>2. QED
      BY <1>3, <1>6, <3>1 DEF DgInv, FlushInv
  <2>5. QED
    BY <1>0, <2>3, <2>4
<1>9. SpokenInv'
  <2>1. /\ timeline.last_final * TicksPerMilli \in Int /\ spoken \in Nat /\ TicksPerMilli \in Nat
        /\ timeline \in Timeline
    BY BoundAssumption, TickAssumption DEF DgInv, LiveInv, TypeOK, Timeline, Millis, NoFinal, ReadTypes
  <2>2. m.is_final \/ m.speech_final => m.start >= spoken
    BY <1>1 DEF Honest
  <2>3. /\ timeline'.samples = timeline.samples /\ timeline'.horizon = timeline.horizon
        /\ timeline'.last_final = timeline.last_final
           \/ ((m.is_final \/ m.speech_final) /\ timeline'.last_final = End(tr))
    BY <1>0, <1>3, <2>1 DEF accept_transcript, Timeline
  <2>4. timeline'.last_final * TicksPerMilli <= spoken' + TicksPerMilli
    <3>1. CASE timeline'.last_final = timeline.last_final
      BY <1>0, <1>1, <2>1, <2>2, <3>1 DEF DgInv, SpokenInv
    <3>2. CASE (m.is_final \/ m.speech_final) /\ timeline'.last_final = End(tr)
      BY <1>0, <1>1, <3>2
    <3>3. QED
      BY <2>3, <3>1, <3>2
  <2>5. QED
    BY <2>3, <2>4 DEF DgInv, SpokenInv
<1>10. QED
  BY <1>2, <1>7, <1>8, <1>9 DEF DgInv

\* The primary event of a message and its follow-up.
LEMMA TwoEvents ==
    ASSUME NEW a, NEW b
    PROVE  Head(<<a>> \o <<b>>) = a /\ Tail(<<a>> \o <<b>>) = <<b>>
<1> DEFINE S == {a, b}
           s == <<a>> \o <<b>>
<1>1. /\ <<a>> \in Seq(S) /\ <<b>> \in Seq(S) /\ Len(<<a>>) = 1 /\ Len(<<b>>) = 1
      /\ <<a>>[1] = a /\ <<b>>[1] = b
  OBVIOUS
<1>2. s \in Seq(S) /\ Len(s) = 2 /\ s[1] = a /\ s[2] = b
  BY <1>1, ConcatProperties
<1> HIDE DEF s
<1>3. s # <<>>
  BY <1>2
<1>4. Head(s) = s[1] /\ Tail(s) \in Seq(S) /\ Len(Tail(s)) = 1 /\ Tail(s)[1] = s[2]
  BY <1>2, <1>3, HeadTailProperties
<1>5. Tail(s) = <<b>>
  <2> DEFINE t == Tail(s)
             u == <<b>>
  <2>1. t \in Seq(S) /\ u \in Seq(S) /\ Len(t) = 1 /\ Len(u) = 1 /\ t[1] = u[1]
    BY <1>1, <1>2, <1>4
  <2> HIDE DEF t, u, S
  <2>2. Len(t) = Len(u) /\ \A i \in 1 .. Len(t) : t[i] = u[i]
    BY <2>1
  <2>3. t = u
    BY <2>1, <2>2, SeqEqual
  <2>4. QED
    BY <2>3 DEF t, u
<1>6. QED
  BY <1>2, <1>4, <1>5 DEF s

LEMMA DResults ==
    ASSUME DgInv, NEW m \in Results, NextResults(m)
    PROVE  DgInv'
<1>1. CASE ~m.text /\ m.from_finalize
  <2>1. parse_results(m) = <<FinalizeResult>>
    BY <1>1 DEF parse_results
  <2>2. Head(parse_results(m)) = FinalizeResult /\ Tail(parse_results(m)) = <<>>
    BY <2>1
  <2>3. ProviderFinalizeResult /\ pending' = <<>> /\ flush' = flush /\ Honest(m)
        /\ spoken' = (IF m.is_final \/ m.speech_final THEN m.start + m.duration ELSE spoken)
    BY <1>1, <2>2 DEF NextResults, Deliver
  <2>4. spoken' \in Nat /\ spoken' >= spoken
    BY <2>3 DEF DgInv, ReadTypes, Results, Honest
  <2>5. ~saw_result
    BY <1>1, <2>3 DEF Honest, ProviderFinalizeResult, DgInv, LiveInv, ToldInv, Receiving, Alive, InStream, InDrain
  <2>6. QED
    BY <2>3, <2>4, <2>5, DEvidence
<1>2. CASE ~(~m.text /\ m.from_finalize)
  <2>1. parse_results(m) # <<>> /\ pending' = Tail(parse_results(m))
    BY DEF NextResults
  <2>2. parse_results(m) = <<TranscriptOf(m)>> \o IF m.from_finalize THEN <<FinalizeResult>> ELSE <<>>
    BY <1>2, <2>1 DEF parse_results
  <2>3. /\ Head(parse_results(m)) = TranscriptOf(m)
        /\ Tail(parse_results(m)) = IF m.from_finalize THEN <<FinalizeResult>> ELSE <<>>
    <3>1. CASE m.from_finalize
      <4>1. parse_results(m) = <<TranscriptOf(m)>> \o <<FinalizeResult>>
        BY <2>2, <3>1
      <4>2. QED
        BY <3>1, <4>1, TwoEvents
    <3>2. CASE ~m.from_finalize
      <4>1. parse_results(m) = <<TranscriptOf(m)>>
        BY <2>2, <3>2
      <4>2. QED
        BY <3>2, <4>1
    <3>3. QED
      BY <3>1, <3>2
  <2>4. QED
    BY <1>2, <2>1, <2>3, DTranscript DEF Results
<1>3. QED
  BY <1>1, <1>2

LEMMA DgInitInv == DgInit => DgInv
<1> SUFFICES ASSUME DgInit PROVE DgInv
  OBVIOUS
<1>1. LiveInv /\ ReadTypes
  BY LiveInit DEF DgInit, ReadTypes
<1>2. FlushInv
  BY DEF DgInit, Init, FlushInv
<1>3. SpokenInv
  <2>1. timeline.horizon = 0 /\ timeline.samples = 0 /\ timeline.last_final = -1 /\ spoken = 0
    BY DEF DgInit, Init, NewTimeline, NoFinal
  <2>2. checked_horizon_millis(0) = 0
    BY RateAssumption DEF checked_horizon_millis
  <2>3. QED
    BY <2>1, <2>2, TickAssumption DEF SpokenInv
<1>4. QED
  BY <1>1, <1>2, <1>3 DEF DgInv

LEMMA DgStep == DgInv /\ [DgNext]_dgVars => DgInv'
<1> SUFFICES ASSUME DgInv, [DgNext]_dgVars PROVE DgInv'
  OBVIOUS
<1>1. CASE UNCHANGED dgVars \/ Poll \/ NextIgnored \/ SocketEmpty
  BY <1>1, DUnread DEF dgVars, readVars, providerVars, Poll, NextIgnored, SocketEmpty
<1>2. CASE NextFails \/ NextNone \/ \E t \in Ticks : NextUtteranceEnd(t)
  BY <1>2, DNoTranscript DEF NextFails, NextNone, NextUtteranceEnd, providerVars
<1>3. ASSUME NEW m \in [start : Ticks, duration : Ticks, is_final : BOOLEAN,
                        speech_final : BOOLEAN, from_finalize : BOOLEAN, text : BOOLEAN],
             NextResults(m)
      PROVE  DgInv'
  <2>1. m \in Results
    BY <1>3, TicksAssumption DEF Results
  <2>2. QED
    BY <1>3, <2>1, DResults
<1>4. QED
  BY <1>1, <1>2, <1>3, DPending, DBranches DEF DgNext, ReadStep

LEMMA DgInvariance == DgSpec => []DgInv
BY DgInitInv, DgStep, PTL DEF DgSpec

\* Whatever results and finalize answers the provider sends among messages that
\* are ignored or refused, and however the session's timers fall: "flushed"
\* reaches the client only behind the text the provider sent with its finalize
\* answer (parse_results, ReadState.pending).
THEOREM FlushBehindText == DgSpec => []FlushIncludesText
<1>1. DgInv => FlushIncludesText
  BY DEF DgInv, FlushInv, FlushIncludesText
<1>2. QED
  BY <1>1, DgInvariance, PTL

\* For every resolution of the provider's times, sample rate and frame size:
\* rounding to milliseconds never puts a final of an honest provider out of
\* the coordinator's tolerance, and overlaps two neighbours by a millisecond at
\* most (seconds_to_millis against validate_transcript).
THEOREM HonestFinalsAccepted == DgSpec => []HonestFinalsFit
<1>1. DgInv => HonestFinalsFit
  <2> SUFFICES ASSUME DgInv, Receiving, NEW start \in Ticks, NEW duration \in Ticks,
                      NEW m, m = [start |-> start, duration |-> duration, is_final |-> TRUE,
                                  speech_final |-> FALSE, from_finalize |-> FALSE, text |-> TRUE],
                      Honest(m)
               PROVE  /\ WithinHorizon(timeline, End(TranscriptOf(m)))
                      /\ TranscriptOf(m).start + 1 >= timeline.last_final
    BY DEF HonestFinalsFit
  <2>1. start \in Nat /\ duration \in Nat /\ m.start = start /\ m.duration = duration
    BY TicksAssumption
  <2>2. /\ timeline.samples = upstream.samples /\ timeline.samples \in Nat /\ timeline.horizon \in Nat
        /\ timeline.last_final \in Nat \cup {-1} /\ spoken \in Nat
    BY DEF DgInv, LiveInv, FrameInv, TypeOK, Timeline, Millis, NoFinal, ReadTypes, Receiving, Alive, InStream, InDrain
  <2>3. start + duration <= (timeline.samples * Second * TicksPerMilli) \div SampleRate /\ start >= spoken
    BY <2>1, <2>2 DEF Honest, HeardTicks
  <2>4. seconds_to_millis(start) \in Nat /\ seconds_to_millis(duration) \in Nat
    BY <2>1, Rounded
  <2>5. seconds_to_millis(start) + seconds_to_millis(duration) <= timeline.horizon + 1
    BY <2>1, <2>2, <2>3, RoundedHorizon DEF DgInv, SpokenInv
  <2>6. WithinHorizon(timeline, End(TranscriptOf(m)))
    BY <2>1, <2>2, <2>4, <2>5, LeadAssumption, BoundAssumption DEF WithinHorizon, End, TranscriptOf
  <2>7. seconds_to_millis(start) + 1 >= timeline.last_final
    BY <2>1, <2>2, <2>3, <2>4, RoundedStart DEF DgInv, SpokenInv
  <2>8. QED
    BY <2>1, <2>6, <2>7 DEF TranscriptOf
<1>2. QED
  BY <1>1, DgInvariance, PTL

=============================================================================

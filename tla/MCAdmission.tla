----------------------------- MODULE MCAdmission ----------------------------
(***************************************************************************)
(* What one gateway process hands out, for TLC: batch permits and their    *)
(* shutdown (BatchShutdown), live slots and handshakes (LiveHandshake) and *)
(* places in the directory of observations (ObservationSink).  They share  *)
(* no state but the flag that Signal and BeginShutdown clear, so a         *)
(* behaviour follows one of them: part says which.  "slots" is two clients *)
(* that compete for a slot, "data" a third that sends every kind of first  *)
(* frame.                                                                  *)
(***************************************************************************)
EXTENDS BatchShutdown, ObservationSink, LiveHandshake

CONSTANTS r1, r2, r3, c1, c2, c3

VARIABLES part

allVars == <<vars, part, handshakeVars, sinkVars>>

-----------------------------------------------------------------------------
ModelOf == [deepgram |-> "nova-3", elevenlabs |-> "scribe_v2_realtime"]

BaseWire ==
    [extra |-> FALSE, provider |-> "deepgram", model |-> "nova-3", language |-> <<Letter>>,
     capabilities |-> <<"finalize_ack">>, channels |-> 1, protocol_v |-> 2,
     session |-> "canonical", encoding |-> "opus", rate |-> 48000, keyterms |-> <<>>]

TextFrame(w) == [kind |-> "text", oversize |-> FALSE, wire |-> w]

\* Each identity with each format, then each field at and past its bounds.
Routes ==
    {[BaseWire EXCEPT !.provider = id, !.model = ModelOf[id],
                      !.encoding = enc[1], !.rate = enc[2]] :
        id \in DOMAIN ModelOf, enc \in {<<"opus", 48000>>, <<"pcm_s16le", 16000>>}}

Languages ==
    {<<>>, <<Letter, Letter>>, <<Letter>>, <<Letter, Hyphen, Letter>>, <<Hyphen, Letter>>, <<Letter, Hyphen>>,
     <<Private>>, <<Letter, Space>>, <<Letter, Tab, Letter>>,
     <<Letter, Hyphen, Letter, Letter>>, <<Letter, Letter, Letter, Letter, Letter>>}

Terms ==
    {<<Letter>>, <<Letter, Space, Letter>>, <<Letter, Space, Space, Letter>>,
     <<Letter, Letter, Letter, Letter>>, <<Emoji>>, <<Emoji, Emoji>>, <<Private, Private>>,
     <<Space, Letter>>, <<Letter, Tab, Letter>>}

TermLists ==
    BoundedSeq(Terms, 2)
        \cup {<<a, b, a>> : a, b \in {<<Letter>>, <<Letter, Letter, Letter, Letter>>}}
        \cup {<<a, a, a, a>> : a \in {<<Letter>>}}

Defects ==
    {[BaseWire EXCEPT !.extra = TRUE], [BaseWire EXCEPT !.model = "scribe_v2_realtime"],
     [BaseWire EXCEPT !.capabilities = <<>>], [BaseWire EXCEPT !.channels = 2],
     [BaseWire EXCEPT !.protocol_v = 1], [BaseWire EXCEPT !.session = "nil"],
     [BaseWire EXCEPT !.session = "compact"], [BaseWire EXCEPT !.rate = 16000]}

ManyFrames ==
    {TextFrame([w EXCEPT !.language = l]) : w \in Routes, l \in Languages}
        \cup {TextFrame([w EXCEPT !.keyterms = t]) : w \in Routes, t \in TermLists}
        \cup {TextFrame(w) : w \in Defects}
        \cup {[kind |-> k, oversize |-> o, wire |-> BaseWire] :
                k \in {"text", "ping", "binary"}, o \in BOOLEAN}

\* At, below and above the bound in each of the three units.
ManyTexts ==
    {<<>>, <<Space>>, <<Letter>>, <<Private>>, <<Emoji>>, <<Private, Letter>>, <<Emoji, Letter>>,
     <<Private, Private>>, <<Emoji, Emoji>>, <<Emoji, Emoji, Emoji, Emoji>>,
     <<Letter, Letter, Letter, Letter>>, <<Letter, Letter, Letter, Letter, Letter>>}

-----------------------------------------------------------------------------
\* The others send a frame that is accepted or a ping, and their provider says
\* one letter.
FewFrames == {TextFrame(BaseWire), [kind |-> "ping", oversize |-> FALSE, wire |-> BaseWire]}

MCFrames == [c \in Clients |-> IF c = c3 THEN ManyFrames ELSE FewFrames]
MCTexts == [c \in Clients |-> IF c = c3 THEN ManyTexts ELSE {<<Letter>>}]

Still(c) == conn'[c] = conn[c]

AdmissionInit ==
    /\ Init /\ SinkInit /\ HandshakeInit
    /\ part \in {"batch", "slots", "data", "records"}
    /\ part # "records" => \A c \in Calls : final[c] = "none"

AdmissionNext ==
    /\ \/ part = "batch" /\ Next /\ UNCHANGED <<handshakeVars, sinkVars>>
       \/ /\ part = "slots" /\ HandshakeNext /\ UNCHANGED <<vars, sinkVars>>
          /\ Still(c3)
       \/ /\ part = "data" /\ HandshakeNext /\ UNCHANGED <<vars, sinkVars>>
          /\ Still(c1) /\ Still(c2)
       \/ part = "records" /\ SinkNext /\ UNCHANGED <<vars, handshakeVars>>
    /\ UNCHANGED part

\* The fairness of BatchShutdown, of LiveHandshake and of ObservationSink.
AdmissionSpec ==
    /\ AdmissionInit /\ [][AdmissionNext]_allVars
    /\ WF_vars(part = "batch" /\ DeadlinePasses)
    /\ WF_vars(part = "batch" /\ Stopping)
    /\ \A t \in Actors : WF_vars(part = "batch" /\ TaskAborts(t))
    /\ \A r \in Requests : WF_vars(part = "batch" /\ PermitsDropped(r))
    /\ WF_vars(part = "batch" /\ WorkerMovesOn)
    /\ \A c \in {c1, c2} : WF_handshakeVars(part = "slots" /\ Serve(c))
    /\ \A c \in Calls : /\ WF_sinkVars(part = "records" /\ WorkerStep(c))
                        /\ WF_sinkVars(part = "records" /\ Dropped(c))

-----------------------------------------------------------------------------
\* What was admitted comes to an end: a shutdown that has begun returns, a live
\* slot always comes back, and after the signal none is taken again
\* (shutdown_batch_tasks, prepare_session and the closes, try_acquire_live_slot).
AdmissionDrains ==
    ShutdownEnds /\ (part = "slots" => SlotReturned /\ ShutdownDrains)
=============================================================================

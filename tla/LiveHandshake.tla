----------------------------- MODULE LiveHandshake --------------------------
(***************************************************************************)
(* Live clients on their way to a provider: authentication and the live    *)
(* slots (server/live.rs upgrade, state.rs try_acquire_live_slot), the     *)
(* first frame and the checks on it (prepare_session), the adapter's own   *)
(* checks and its WebSocket handshake (open_inner of both providers), the  *)
(* messages that reach the client, and the two closes.  What happens       *)
(* between the ready message and the end is LiveGateway's; here a stream   *)
(* is the messages it may put on the wire.                                 *)
(***************************************************************************)
EXTENDS LiveWire

CONSTANTS
    Clients,
    LiveConnections,   \* limits.live_connections: the live slots
    Configured,        \* identities whose live profile is bound
    Frames,            \* per client: the first frames it may send
    Texts              \* per client: the transcripts its provider may send

ASSUME SlotsAssumption == LiveConnections \in Nat

\* Texts and key terms are scalar values.
ASSUME TextsAssumption ==
    \A c \in Clients : /\ Texts[c] \subseteq Seq(Nat)
                       /\ \A frame \in Frames[c] : frame.wire.keyterms \in Seq(Seq(Nat))

VARIABLES
    conn,        \* per client: where its connection is, from "http" to "gone"
    permits,     \* clients that hold a live slot
    accepting_work,   \* of the gateway's state
    config,      \* per client: its parsed configuration, or none
    asked,       \* per client: the request its provider was sent, or none
    paid,        \* clients with an open provider socket
    wire         \* per client: [meant, told], the last message sent, or none

handshakeVars == <<conn, permits, accepting_work, config, asked, paid, wire>>

None == <<>>
Some(x) == <<x>>

HandshakeInit ==
    /\ conn = [c \in Clients |-> "http"]
    /\ permits = {} /\ paid = {} /\ accepting_work = TRUE
    /\ config = [c \in Clients |-> None]
    /\ asked = [c \in Clients |-> None]
    /\ wire = [c \in Clients |-> None]

Go(c, stage) == conn' = [conn EXCEPT ![c] = stage]

\* send_message: a message that cannot be serialized is not sent.
Tell(c, m) ==
    wire' = [wire EXCEPT ![c] = Some([meant |-> m, told |-> serialize_server_message(m)])]

\* fail_socket before a session exists, and then close_socket.
Refuse(c, code) == Go(c, "close_socket") /\ Tell(c, [kind |-> "Error", code |-> code])

-----------------------------------------------------------------------------
(* upgrade *)

\* authenticate: one well formed header with the right token, or 401.
Authenticate(c) ==
    /\ conn[c] = "http"
    /\ Go(c, "check") \/ Go(c, "gone")
    /\ UNCHANGED <<permits, accepting_work, config, asked, paid, wire>>

\* Mutant: the slot is taken first, and accepting_work looked at afterwards.
CheckAccepting_Skipped(c) ==
    /\ conn[c] = "check"
    /\ Go(c, "acquire")
    /\ UNCHANGED <<permits, accepting_work, config, asked, paid, wire>>

CheckAccepting(c) ==
    /\ conn[c] = "check"
    /\ Go(c, IF accepting_work THEN "acquire" ELSE "gone")
    /\ UNCHANGED <<permits, accepting_work, config, asked, paid, wire>>

AcquireSlot(c) ==
    /\ conn[c] = "acquire"
    /\ IF Cardinality(permits) < LiveConnections
       THEN permits' = permits \cup {c} /\ Go(c, "recheck")
       ELSE Go(c, "gone") /\ UNCHANGED permits
    /\ UNCHANGED <<accepting_work, config, asked, paid, wire>>

\* accepting_work again; a permit that is not handed out is dropped.
Recheck(c) ==
    /\ conn[c] = "recheck"
    /\ IF accepting_work THEN Go(c, "upgraded") /\ UNCHANGED permits
                    ELSE Go(c, "gone") /\ permits' = permits \ {c}
    /\ UNCHANGED <<accepting_work, config, asked, paid, wire>>

\* Mutant: `let _ = permit', which drops it before run is called.
StartRun_Dropped(c) ==
    /\ conn[c] = "upgraded"
    /\ Go(c, "frame")
    /\ permits' = permits \ {c}
    /\ UNCHANGED <<accepting_work, config, asked, paid, wire>>

\* on_upgrade's future owns the permit.
StartRun(c) ==
    /\ conn[c] = "upgraded"
    /\ Go(c, "frame")
    /\ UNCHANGED <<permits, accepting_work, config, asked, paid, wire>>

\* A client that never completes the upgrade: the future is dropped.
UpgradeLost(c) ==
    /\ conn[c] = "upgraded"
    /\ Go(c, "gone") /\ permits' = permits \ {c}
    /\ UNCHANGED <<accepting_work, config, asked, paid, wire>>

-----------------------------------------------------------------------------
(* prepare_session *)

input_format(config_) ==
    IF config_.format = "Opus48Khz" THEN "Opus48KhzMono" ELSE "PcmS16Le16KhzMono"

\* receive_config and the profile: the reason a first frame is refused, "" when
\* it is not.
receive_config(frame) ==
    CASE frame.kind # "text" -> "INVALID_CONFIG"
      [] frame.oversize -> "FRAME_TOO_LARGE"
      [] ~ConfigParses(frame.wire) -> "INVALID_CONFIG"
      [] frame.wire.provider \notin Configured -> "PROFILE_NOT_CONFIGURED"
      [] OTHER -> ""

\* Then the Opus decoder, which may be unavailable, and the descriptor's
\* capabilities.
ReceiveConfig(c) ==
    /\ conn[c] = "frame"
    /\ \E frame \in Frames[c] :
        LET refusal == receive_config(frame)
            parsed == parse_client_config(frame.wire)
            capable == validate(parsed.identity, parsed.language, parsed.keyterms,
                                input_format(parsed))
        IN  \/ refusal # "" /\ Refuse(c, refusal) /\ UNCHANGED config
            \/ /\ refusal = "" /\ parsed.format = "Opus48Khz"
               /\ Refuse(c, "AUDIO_RUNTIME_UNAVAILABLE") /\ UNCHANGED config
            \/ /\ refusal = "" /\ ~capable
               /\ Refuse(c, "INVALID_CONFIG") /\ UNCHANGED config
            \/ /\ refusal = "" /\ capable
               /\ config' = [config EXCEPT ![c] = Some(parsed)]
               /\ Go(c, "open") /\ UNCHANGED wire
    /\ UNCHANGED <<permits, accepting_work, asked, paid>>

\* first_frame_timeout.
ConfigTimeout(c) ==
    /\ conn[c] = "frame"
    /\ Refuse(c, "CONFIG_TIMEOUT")
    /\ UNCHANGED <<permits, accepting_work, config, asked, paid>>

\* The socket ends or fails before the first frame; the error message cannot
\* arrive either.
ConfigLost(c) ==
    /\ conn[c] = "frame"
    /\ Go(c, "close_socket")
    /\ UNCHANGED <<permits, accepting_work, config, asked, paid, wire>>

-----------------------------------------------------------------------------
(* open_inner of the adapters *)

recognition_request(config_) ==
    [provider |-> config_.identity, model |-> identity_wire(config_.identity),
     language |-> config_.language,
     rate |-> IF config_.format = "Opus48Khz" THEN 48000 ELSE 16000,
     channels |-> 1, keyterms |-> config_.keyterms]

\* language_is_safe of Deepgram, valid_language_code of ElevenLabs.
LanguageSafe(provider, language) ==
    AsciiCode(language) /\ (provider = "deepgram" => ~HyphenAtEdge(language))

\* The format an adapter sees behind a sample rate: Opus is decoded by now.
RateFormat(rate) == IF rate = 16000 THEN "PcmS16Le16KhzMono" ELSE "PcmS16Le48KhzMono"

\* profile_matches and capabilities_match; validate_profile.
AdapterAccepts(request) ==
    /\ request.model = identity_wire(request.provider)
    /\ LanguageSafe(request.provider, request.language)
    /\ request.rate \in {16000, 48000} /\ request.channels = 1
    /\ validate(request.provider, request.language, request.keyterms, RateFormat(request.rate))

\* The terms of the URL: Deepgram's as they are, ElevenLabs' normalized and
\* the first of each.
canonicalize_keyterms(provider, terms) ==
    IF provider = "deepgram" THEN terms
    ELSE LET first == InOrder({i \in DOMAIN terms : \A j \in 1 .. i - 1 :
                                ProviderTerm(terms[j]) # ProviderTerm(terms[i])})
         IN  [n \in DOMAIN first |-> ProviderTerm(terms[first[n]])]

\* build_url: ElevenLabs has no language called multi, it detects instead.
build_url(request) ==
    [provider |-> request.provider, model |-> request.model, rate |-> request.rate,
     detect |-> request.provider = "elevenlabs" /\ request.language = Multi,
     language |-> IF request.provider = "elevenlabs" /\ request.language = Multi
                  THEN <<>> ELSE request.language,
     keyterms |-> canonicalize_keyterms(request.provider, request.keyterms)]

Open(c) ==
    /\ conn[c] = "open"
    /\ LET request == recognition_request(config[c][1])
       IN  IF AdapterAccepts(request)
           THEN /\ asked' = [asked EXCEPT ![c] = Some(build_url(request))]
                /\ Go(c, "connecting")
                /\ UNCHANGED wire
           ELSE Refuse(c, "PROFILE_MISMATCH") /\ UNCHANGED asked
    /\ UNCHANGED <<permits, accepting_work, config, paid>>

\* 101 from the provider.
Connected(c) ==
    /\ conn[c] = "connecting"
    /\ paid' = paid \cup {c}
    /\ Go(c, "ready")
    /\ UNCHANGED <<permits, accepting_work, config, asked, wire>>

\* Another status, a transport error, or the limit: the adapter's and the
\* gateway's are both ten seconds, and either may fire first.
ConnectFails(c) ==
    /\ conn[c] = "connecting"
    /\ \E code \in {"PROVIDER_UNAVAILABLE", "PROVIDER_TIMEOUT"} : Refuse(c, code)
    /\ UNCHANGED <<permits, accepting_work, config, asked, paid>>

-----------------------------------------------------------------------------
(* The session's messages *)

SendReady(c) ==
    /\ conn[c] = "ready"
    /\ \/ /\ Tell(c, [kind |-> "Ready", session |-> "canonical",
                      identity |-> config[c][1].identity])
          /\ Go(c, "stream")
       \/ Go(c, "close_provider") /\ UNCHANGED wire
    /\ UNCHANGED <<permits, accepting_work, config, asked, paid>>

\* Sequence numbers start at one.
SendAck(c) ==
    /\ conn[c] = "stream"
    /\ \E seq \in 1 .. 2 : Tell(c, [kind |-> "Ack", seq |-> seq])
    /\ UNCHANGED <<conn, permits, accepting_work, config, asked, paid>>

\* Blank text is no transcript, except Deepgram's empty finals.
Spoken(provider, kind, text) ==
    IF provider = "deepgram" THEN text # <<>> \/ kind # "Partial" ELSE trim(text) # <<>>

\* parse_transcript of ElevenLabs, parse_results of Deepgram: the bound is in
\* bytes.
AdapterReads(text, confidence) == Bytes(text) <= MaxTranscript /\ confidence <= 100

\* validate_transcript of the coordinator: the bound is in characters.
validate_transcript(text, confidence) == Len(text) <= MaxTranscript /\ confidence <= 100

\* A transcript on its way to the client.  One that the coordinator or the
\* serializer refuses ends the session as INVALID_PROVIDER_EVENT.
SendTranscript(c) ==
    /\ conn[c] = "stream"
    /\ \E text \in Texts[c], confidence \in {0, 100, 101},
          kind \in {"Partial", "SegmentFinal", "Final"} :
        LET m == Segment(kind, text, 1, 2, confidence)
        IN  /\ AdapterReads(text, confidence)
            /\ Spoken(config[c][1].identity, kind, text)
            /\ IF validate_transcript(text, confidence) /\ CanSerialize(m)
               THEN Tell(c, m) /\ UNCHANGED conn
               ELSE /\ Tell(c, [kind |-> "Error", code |-> "INVALID_PROVIDER_EVENT"])
                    /\ Go(c, "close_provider")
    /\ UNCHANGED <<permits, accepting_work, config, asked, paid>>

\* FinalizeOutcome of the domain: the status and whether a result was seen.
Outcomes == {<<"flushed", TRUE>>, <<"timeout", FALSE>>, <<"no_provider", FALSE>>}

SendFinalizeComplete(c) ==
    /\ conn[c] = "stream"
    /\ \E outcome \in Outcomes :
        Tell(c, [kind |-> "FinalizeComplete", status |-> outcome[1], saw |-> outcome[2]])
    /\ Go(c, "close_provider")
    /\ UNCHANGED <<permits, accepting_work, config, asked, paid>>

\* Every other end of a stream, with an error message or without.
StreamEnds(c) ==
    /\ conn[c] = "stream"
    /\ Go(c, "close_provider")
    /\ Tell(c, [kind |-> "Error", code |-> "PROVIDER_TERMINAL"]) \/ UNCHANGED wire
    /\ UNCHANGED <<permits, accepting_work, config, asked, paid>>

-----------------------------------------------------------------------------
(* The end of run *)

\* close_coordinator: the provider is closed, or the five seconds pass.
CloseProvider(c) ==
    /\ conn[c] = "close_provider"
    /\ Go(c, "close_socket")
    /\ paid' = paid \ {c} \/ UNCHANGED paid
    /\ UNCHANGED <<permits, accepting_work, config, asked, wire>>

\* close_socket, and run's locals with it: the provider's socket is dropped.
CloseSocket(c) ==
    /\ conn[c] = "close_socket"
    /\ Go(c, "returned") /\ paid' = paid \ {c}
    /\ UNCHANGED <<permits, accepting_work, config, asked, wire>>

ReturnSlot(c) ==
    /\ conn[c] = "returned"
    /\ Go(c, "gone") /\ permits' = permits \ {c}
    /\ config' = [config EXCEPT ![c] = None]
    /\ asked' = [asked EXCEPT ![c] = None]
    /\ wire' = [wire EXCEPT ![c] = None]
    /\ UNCHANGED <<accepting_work, paid>>

\* A client that was refused or served comes back.
Reconnect(c) ==
    /\ conn[c] = "gone"
    /\ Go(c, "http")
    /\ UNCHANGED <<permits, accepting_work, config, asked, paid, wire>>

\* begin_shutdown.
BeginShutdown ==
    /\ accepting_work' = FALSE
    /\ UNCHANGED <<conn, permits, config, asked, paid, wire>>

Serve(c) ==
    \/ CheckAccepting(c) \/ AcquireSlot(c) \/ Recheck(c)
    \/ StartRun(c) \/ ConfigTimeout(c) \/ Open(c) \/ ConnectFails(c) \/ SendReady(c)
    \/ StreamEnds(c) \/ CloseProvider(c) \/ CloseSocket(c) \/ ReturnSlot(c)

HandshakeNext ==
    \/ BeginShutdown
    \/ \E c \in Clients :
        \/ Serve(c)
        \/ Authenticate(c) \/ UpgradeLost(c) \/ ReceiveConfig(c) \/ ConfigLost(c) \/ Connected(c)
        \/ SendAck(c) \/ SendTranscript(c) \/ SendFinalizeComplete(c) \/ Reconnect(c)

HandshakeSpec == HandshakeInit /\ [][HandshakeNext]_handshakeVars

\* The gateway's own steps and timers happen; no client and no provider owes
\* anything.  A stream ends by its own deadlines (LiveGateway's SessionEnds).
HandshakeFairSpec == HandshakeSpec /\ \A c \in Clients : WF_handshakeVars(Serve(c))

-----------------------------------------------------------------------------
(* Properties: the slots *)

\* Every connection attempt to a provider, and every open provider session,
\* belongs to a client that holds a live slot, and no more slots are out than
\* there are: paid sessions are bounded by live_connections (live.rs upgrade,
\* where the permit has to outlive run).
PaidHoldsSlot ==
    /\ paid \cup {c \in Clients : conn[c] = "connecting"} \subseteq permits
    /\ Cardinality(permits) <= LiveConnections

\* A slot that was taken is returned, however silent the client and the
\* provider are: each wait of prepare_session and of the closes has a limit.
SlotReturned == \A c \in Clients : c \in permits ~> c \notin permits

\* After begin_shutdown the slots and the provider sessions drain, and stay
\* drained although refused clients keep trying (try_acquire_live_slot looks
\* at accepting_work before it takes a permit).
ShutdownDrains == ~accepting_work ~> [](permits = {} /\ paid = {})

-----------------------------------------------------------------------------
(* Properties: what crosses the boundaries *)

\* A configuration the gateway admitted is not refused by the adapter's own
\* copy of the checks (open_inner): what prepare_session validates as Opus or
\* 16 kHz PCM is what the adapter validates as PCM of some rate.
AdapterAgrees ==
    \A c \in Clients : wire[c] # None =>
        wire[c][1].meant # [kind |-> "Error", code |-> "PROFILE_MISMATCH"]

\* What a provider is asked is within its documented limits, in its own units,
\* and repeats no term ("at most 50 terms of at most 20 Unicode scalar
\* values"; provider-capability-matrix.md:36).
AskedWithinLimits ==
    \A c \in Clients : asked[c] # None =>
        LET url == asked[c][1]
        IN  IF url.provider = "deepgram"
            THEN /\ Len(url.keyterms) <= MaxTermCount
                 /\ \A i \in DOMAIN url.keyterms : Bytes(url.keyterms[i]) <= DeepgramTermBytes
            ELSE /\ Len(url.keyterms) <= ElevenLabsTerms
                 /\ IsInjective(url.keyterms)
                 /\ \A i \in DOMAIN url.keyterms : Len(url.keyterms[i]) <= ElevenLabsScalars

\* What a provider is asked is what the client asked for: the provider and
\* the model, the rate of the audio that will be sent (decoded Opus has
\* 48 kHz), the language or detection, and every term.
AskedIsWanted ==
    \A c \in Clients : asked[c] # None =>
        LET url == asked[c][1]
            want == config[c][1]
        IN  /\ url.provider = want.identity /\ url.model = identity_wire(want.identity)
            /\ url.rate = IF want.format = "Opus48Khz" THEN 48000 ELSE 16000
            /\ url.detect \/ url.language = want.language
            /\ url.detect => want.language = Multi
            /\ {ProviderTerm(want.keyterms[i]) : i \in DOMAIN want.keyterms}
                    = {ProviderTerm(url.keyterms[i]) : i \in DOMAIN url.keyterms}

\* Every message the gateway sends is read by the client's side of the
\* contract as the message that was meant, for the identity it asked for.
ToldIsUnderstood ==
    \A c \in Clients : wire[c] # None =>
        LET meant == wire[c][1].meant
            told == wire[c][1].told
            expected == IF config[c] = None THEN "deepgram" ELSE config[c][1].identity
        IN  /\ CanSerialize(meant)
            /\ ServerParses(told, expected, MaxTranscript)
            /\ parse_server_message(told, expected) = meant

\* A transcript that an adapter let through is delivered: its bound in bytes
\* implies the coordinator's in characters and the contract's in UTF-16 units.
TranscriptsFit ==
    \A c \in Clients : wire[c] # None =>
        wire[c][1].meant # [kind |-> "Error", code |-> "INVALID_PROVIDER_EVENT"]

\* A configuration that the client's side of the contract can write is read
\* back as itself.
ConfigRoundTrips ==
    \A c \in Clients : config[c] # None =>
        LET want == config[c][1]
        IN  /\ CanSerializeConfig(want)
            /\ ConfigParses(serialize_client_config(want))
            /\ parse_client_config(serialize_client_config(want)) = want

\* Nothing is lost in translation between client, gateway and provider, in
\* spite of three copies of the checks and three units of length: what was
\* admitted is not refused further on, the provider is asked what the client
\* wanted, and the client reads what the gateway meant (prepare_session,
\* open_inner, serialize_server_message).
HandshakeFaithful ==
    /\ AdapterAgrees /\ AskedWithinLimits /\ AskedIsWanted
    /\ ToldIsUnderstood /\ TranscriptsFit /\ ConfigRoundTrips
=============================================================================

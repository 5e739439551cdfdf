------------------------------- MODULE LiveWire -----------------------------
(***************************************************************************)
(* The JSON of live protocol v2 (contracts/live.rs, live_outbound.rs) and  *)
(* the capability contract of a live profile (live_capabilities.rs).       *)
(*                                                                         *)
(* A frame is the record of its JSON fields; `extra' says whether it has a *)
(* field that is not in the contract.  Text is UnicodeText's, so that the  *)
(* three lengths the code measures (bytes, UTF-16 units, scalar values)    *)
(* are three different numbers.                                            *)
(***************************************************************************)
EXTENDS UnicodeText

CONSTANTS
    MaxLanguageChars,    \* MAX_LANGUAGE_CHARS of the contract
    MaxLanguageBytes,    \* maximum_bytes of both language_hints
    MaxTermCount,        \* MAX_KEYTERM_COUNT, and Deepgram's maximum_key_terms
    MaxTermChars,        \* MAX_KEYTERM_CHARS, maximum_public_key_term_utf16_units
    MaxTotalChars,       \* MAX_KEYTERM_TOTAL_CHARS and its public descriptor bound
    DeepgramTermBytes,   \* maximum_key_term_bytes of Deepgram
    ElevenLabsTerms,     \* MAX_KEYTERMS of ElevenLabs
    ElevenLabsScalars,   \* MAX_KEYTERM_CHARS of ElevenLabs
    MaxTranscript        \* MAX_TRANSCRIPT_CHARS / _BYTES / _LIMIT, all 65,536

ASSUME WireAssumption ==
    /\ {MaxLanguageChars, MaxLanguageBytes, MaxTermCount, MaxTermChars, MaxTotalChars,
        DeepgramTermBytes, ElevenLabsTerms, ElevenLabsScalars, MaxTranscript} \subseteq Nat
    /\ MaxTranscript > 0

Units(text) == SumFunction([i \in DOMAIN text |-> Len(Utf16(text[i]))])

Identities == {"deepgram", "elevenlabs"}

\* The model of each provider: identity_wire's second half.
identity_wire(identity) == IF identity = "deepgram" THEN "nova-3" ELSE "scribe_v2_realtime"

\* The language that asks for detection, "multi" in the code.
Multi == <<Letter, Letter>>

-----------------------------------------------------------------------------
(* The client's configuration *)

validate_language(language) ==
    /\ language # <<>> /\ trim(language) = language
    /\ Units(language) <= MaxLanguageChars
    /\ \A i \in DOMAIN language : ~IsControl(language[i])

TotalUnits(terms) == SumFunction([i \in DOMAIN terms |-> Units(terms[i])])

validate_keyterms(terms) ==
    /\ Len(terms) <= MaxTermCount
    /\ \A i \in DOMAIN terms :
        /\ terms[i] # <<>> /\ trim(terms[i]) = terms[i]
        /\ Units(terms[i]) <= MaxTermChars
        /\ \A j \in DOMAIN terms[i] : ~IsControl(terms[i][j])
    /\ TotalUnits(terms) <= MaxTotalChars

\* deserialize_session_id: 36 characters with hyphens in place, and a UUID of
\* the RFC's variant and of versions 1 to 8.  "compact" has no hyphens, "nil"
\* has version 0.
ValidSession(session) == session = "canonical"

AudioFormatOf(encoding, rate) ==
    CASE encoding = "opus" /\ rate = 48000 -> "Opus48Khz"
      [] encoding = "pcm_s16le" /\ rate = 16000 -> "PcmS16le16Khz"
      [] OTHER -> "incompatible"

ConfigParses(wire) ==
    /\ ~wire.extra
    /\ ValidSession(wire.session)
    /\ wire.protocol_v = 2 /\ wire.channels = 1
    /\ wire.capabilities = <<"finalize_ack">>
    /\ wire.provider \in Identities /\ wire.model = identity_wire(wire.provider)
    /\ AudioFormatOf(wire.encoding, wire.rate) # "incompatible"
    /\ validate_language(wire.language)
    /\ validate_keyterms(wire.keyterms)

parse_client_config(wire) ==
    [identity |-> wire.provider, language |-> wire.language, session |-> wire.session,
     format |-> AudioFormatOf(wire.encoding, wire.rate), keyterms |-> wire.keyterms]

CanSerializeConfig(config) ==
    validate_language(config.language) /\ validate_keyterms(config.keyterms)

serialize_client_config(config) ==
    [extra |-> FALSE, provider |-> config.identity, model |-> identity_wire(config.identity),
     language |-> config.language, capabilities |-> <<"finalize_ack">>,
     channels |-> 1, protocol_v |-> 2, session |-> config.session,
     encoding |-> IF config.format = "Opus48Khz" THEN "opus" ELSE "pcm_s16le",
     rate |-> IF config.format = "Opus48Khz" THEN 48000 ELSE 16000,
     keyterms |-> config.keyterms]

-----------------------------------------------------------------------------
(* The server's messages *)

Segment(kind, text, start, duration, confidence) ==
    [kind |-> kind, text |-> text, start |-> start, duration |-> duration,
     confidence |-> confidence]

\* Confidence is in percent; a value over 100 stands for one out of range.
SegmentValid(text, confidence, maximum) == Units(text) <= maximum /\ confidence <= 100

validate_finalize(status, saw) ==
    ~(status = "flushed" /\ ~saw) /\ ~(status = "no_provider" /\ saw)

CanSerialize(m) ==
    CASE m.kind = "Ready" -> ValidSession(m.session)
      [] m.kind = "Ack" -> m.seq >= 1
      [] m.kind \in {"Partial", "SegmentFinal", "Final"} ->
            SegmentValid(m.text, m.confidence, MaxTranscript)
      [] m.kind = "FinalizeComplete" -> validate_finalize(m.status, m.saw)
      [] m.kind = "Error" -> TRUE

serialize_segment(m) ==
    [type |-> IF m.kind = "Final" THEN "final" ELSE "partial",
     text |-> m.text, start |-> m.start, duration |-> m.duration,
     confidence |-> m.confidence, is_segment_final |-> m.kind = "SegmentFinal"]

serialize_server_message(m) ==
    CASE m.kind = "Ready" ->
            [type |-> "ready", session |-> m.session, provider |-> m.identity,
             model |-> identity_wire(m.identity)]
      [] m.kind = "Ack" -> [type |-> "ack", seq |-> m.seq]
      [] m.kind \in {"Partial", "SegmentFinal", "Final"} -> serialize_segment(m)
      [] m.kind = "FinalizeComplete" ->
            [type |-> "finalize_complete", status |-> m.status, saw |-> m.saw]
      [] m.kind = "Error" -> [type |-> "error", code |-> m.code]

\* What the client's side of the contract reads from a frame, for the identity
\* it asked for and the transcript bound it chose.
ServerParses(w, expected, maximum) ==
    CASE w.type = "ready" ->
            /\ ValidSession(w.session)
            /\ w.provider = expected /\ w.model = identity_wire(expected)
      [] w.type = "ack" -> w.seq >= 1
      [] w.type \in {"partial", "final"} -> SegmentValid(w.text, w.confidence, maximum)
      [] w.type = "finalize_complete" -> validate_finalize(w.status, w.saw)
      [] w.type = "error" -> TRUE

parse_server_message(w, expected) ==
    CASE w.type = "ready" -> [kind |-> "Ready", session |-> w.session, identity |-> expected]
      [] w.type = "ack" -> [kind |-> "Ack", seq |-> w.seq]
      [] w.type = "partial" ->
            Segment(IF w.is_segment_final THEN "SegmentFinal" ELSE "Partial",
                    w.text, w.start, w.duration, w.confidence)
      [] w.type = "final" -> Segment("Final", w.text, w.start, w.duration, w.confidence)
      [] w.type = "finalize_complete" ->
            [kind |-> "FinalizeComplete", status |-> w.status, saw |-> w.saw]
      [] w.type = "error" -> [kind |-> "Error", code |-> w.code]

-----------------------------------------------------------------------------
(* Capabilities of a live profile *)

Capabilities(identity) ==
    IF identity = "deepgram"
    THEN [hyphen_at_edges |-> FALSE, terms |-> MaxTermCount, normalize |-> FALSE]
    ELSE [hyphen_at_edges |-> TRUE, terms |-> ElevenLabsTerms, normalize |-> TRUE]

InputFormats == {"Opus48KhzMono", "PcmS16Le16KhzMono", "PcmS16Le48KhzMono"}

AsciiCode(language) ==
    /\ language # <<>> /\ Bytes(language) <= MaxLanguageBytes
    /\ \A i \in DOMAIN language : language[i] \in {Letter, Hyphen}

HyphenAtEdge(language) == language[1] = Hyphen \/ language[Len(language)] = Hyphen

\* Mutant: the policy's hyphen rule is not looked at.
LanguageHint_AnyEdge(language, policy) == AsciiCode(language)

LanguageHint(language, policy) ==
    /\ AsciiCode(language)
    /\ policy.hyphen_at_edges \/ ~HyphenAtEdge(language)

\* The provider's own bound on one term, in its own unit.
KeyTermFits(identity, term) ==
    IF identity = "deepgram" THEN Bytes(term) <= DeepgramTermBytes
                             ELSE NormalizedScalars(term) <= ElevenLabsScalars

validate(identity, language, terms, format) ==
    /\ LanguageHint(language, Capabilities(identity))
    /\ format \in InputFormats
    /\ Len(terms) <= Capabilities(identity).terms
    /\ \A i \in DOMAIN terms :
        /\ terms[i] # <<>> /\ trim(terms[i]) = terms[i]
        /\ \A j \in DOMAIN terms[i] : ~IsControl(terms[i][j])
        /\ Units(terms[i]) <= MaxTermChars
        /\ KeyTermFits(identity, terms[i])
    /\ TotalUnits(terms) <= MaxTotalChars
=============================================================================

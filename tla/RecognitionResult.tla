------------------------- MODULE RecognitionResult --------------------------
(***************************************************************************)
(* A batch transcription result and the three gates it passes: the         *)
(* application's valid_result, the wire projection (batch_outbound.rs) and *)
(* the storage adapter's validate_result; the response made of it, and the *)
(* consumer's own validation of that response (contracts/batch.rs).        *)
(*                                                                         *)
(* A text is its length in bytes, in UTF-16 units and as a JSON string,    *)
(* whether it is blank and whether it holds U+0000.  Confidence and        *)
(* speaker labels only matter by whether they are there and in bounds.     *)
(***************************************************************************)
EXTENDS Integers, Sequences, FiniteSetsExt, SequencesExt

CONSTANTS
    MaxTextBytes,    \* MAX_TRANSCRIPT_BYTES of the application and of storage
    MaxTextUnits,    \* MAX_TRANSCRIPT_CHARS
    MaxSegments,     \* MAX_SEGMENTS
    MaxReferences,   \* MAX_READABLE_REFERENCES
    MaxBody          \* the byte limit of a response

ASSUME ResultAssumption ==
    {MaxTextBytes, MaxTextUnits, MaxSegments, MaxReferences, MaxBody} \subseteq Nat

Identities == {"deepgram_v2", "elevenlabs_v3"}

IsEmpty(text) == text.bytes = 0

BytesOf(s) == SumFunction([i \in DOMAIN s |-> s[i].text.bytes])
UnitsOf(s) == SumFunction([i \in DOMAIN s |-> s[i].text.units])
JsonOf(s) == SumFunction([i \in DOMAIN s |-> s[i].text.json])
References(s) == SumFunction([i \in DOMAIN s |-> Len(s[i].sources)])

\* What every gate asks of the times of segments and readable segments.
WithinDuration(s, duration) ==
    \A i \in DOMAIN s : s[i].start < s[i].end /\ s[i].end <= duration

Ordered(s) == \A i \in 2 .. Len(s) : s[i].start >= s[i - 1].end

Ascending(indices) == \A i \in 2 .. Len(indices) : indices[i - 1] < indices[i]

SourcesValid(r) ==
    \A i \in DOMAIN r.readable :
        LET sources == r.readable[i].sources
        IN  sources # <<>> /\ Ascending(sources) /\ Last(sources) < Len(r.segments)

\* The application's gate.  Its budget of text is one for everything.
valid_result(r, duration) ==
    /\ r.duration = duration
    /\ Len(r.segments) <= MaxSegments
    /\ Ordered(r.segments) /\ WithinDuration(r.segments, r.duration)
    /\ \A i \in DOMAIN r.segments :
            ~IsEmpty(r.segments[i].text) /\ r.segments[i].confidence # "bad"
    /\ Len(r.readable) <= MaxSegments
    /\ Ordered(r.readable) /\ WithinDuration(r.readable, r.duration)
    /\ \A i \in DOMAIN r.readable : ~IsEmpty(r.readable[i].text)
    /\ SourcesValid(r)
    /\ References(r.readable) <= MaxReferences
    /\ r.text.bytes + BytesOf(r.segments) + BytesOf(r.readable) <= MaxTextBytes

\* The storage adapter's gate.  A speaker label "odd" is empty, too long or
\* has control characters; valid_result lets it pass.
validate_stored_result(r) ==
    /\ r.text.bytes <= MaxTextBytes
    /\ Len(r.segments) <= MaxSegments
    /\ Ordered(r.segments) /\ WithinDuration(r.segments, r.duration)
    /\ \A i \in DOMAIN r.segments :
            /\ r.segments[i].text.bytes \in 1 .. MaxTextBytes
            /\ r.segments[i].confidence # "bad"
            /\ r.segments[i].speaker # "odd"
    /\ Len(r.readable) <= MaxSegments
    /\ Ordered(r.readable) /\ WithinDuration(r.readable, r.duration)
    /\ \A i \in DOMAIN r.readable : r.readable[i].text.bytes \in 1 .. MaxTextBytes
    /\ SourcesValid(r)
    /\ References(r.readable) <= MaxReferences

-----------------------------------------------------------------------------
(* The response *)

\* completed_response: v2 has no place for the provider's request id, and an
\* absent list of readable segments is an empty one.
completed_response(identity, r) ==
    [duration |-> r.duration, text |-> r.text, segments |-> r.segments,
     readable |-> r.readable,
     request |-> IF identity = "elevenlabs_v3" THEN r.reference ELSE "none"]

JsonBytes(r) == r.text.json + JsonOf(r.segments) + JsonOf(r.readable)

\* validate_result and validate_readable of the outbound contract.
validate_outbound(identity, resp) ==
    /\ resp.text.units <= MaxTextUnits
    /\ Len(resp.segments) <= MaxSegments
    /\ IF identity = "elevenlabs_v3"
       THEN /\ IsEmpty(resp.text) <=> resp.segments = <<>>
            /\ IsEmpty(resp.text) \/ ~resp.text.blank
            /\ resp.readable = <<>>
       ELSE resp.request = "none"
    /\ Ordered(resp.segments) /\ WithinDuration(resp.segments, resp.duration)
    /\ \A i \in DOMAIN resp.segments :
            /\ ~resp.segments[i].text.blank
            /\ resp.segments[i].text.units <= MaxTextUnits
            /\ resp.segments[i].confidence # "bad"
    /\ Len(resp.readable) <= MaxSegments
    /\ WithinDuration(resp.readable, resp.duration)
    /\ \A i \in DOMAIN resp.readable : ~resp.readable[i].text.blank
    /\ SourcesValid(resp)
    /\ References(resp.readable) <= MaxReferences
    /\ UnitsOf(resp.readable) <= MaxTextUnits

\* GatewayBatchResultProjection::validate and, for a stored result, the
\* serialization of the response: the same test.
Projectable(identity, r) ==
    LET resp == completed_response(identity, r)
    IN  validate_outbound(identity, resp) /\ JsonBytes(resp) <= MaxBody

\* What the wire carries of a segment; v3 numbers them.
Wire(identity, resp) ==
    [identity |-> identity, status |-> "completed", duration |-> resp.duration,
     text |-> resp.text, request |-> resp.request,
     segments |-> [i \in DOMAIN resp.segments |->
                    [index |-> IF identity = "elevenlabs_v3" THEN i - 1 ELSE -1,
                     start |-> resp.segments[i].start, end |-> resp.segments[i].end,
                     text |-> resp.segments[i].text,
                     confidence |-> resp.segments[i].confidence]],
     readable |-> resp.readable, bytes |-> JsonBytes(resp)]

\* The consumer's parse_response for a completed job, v2 and v3.
parse_completed(w) ==
    /\ w.bytes <= MaxBody
    /\ w.text.units <= MaxTextUnits
    /\ Len(w.segments) <= MaxSegments
    /\ \A i \in DOMAIN w.segments :
            /\ w.segments[i].confidence # "bad"
            /\ w.segments[i].text.units <= MaxTextUnits
    /\ IF w.identity = "elevenlabs_v3"
       THEN /\ IsEmpty(w.text) \/ ~w.text.blank
            /\ IsEmpty(w.text) <=> w.segments = <<>>
            /\ \A i \in DOMAIN w.segments :
                    w.segments[i].index = i - 1 /\ ~w.segments[i].text.blank
            /\ Ordered(w.segments) /\ WithinDuration(w.segments, w.duration)
       ELSE /\ \A i \in DOMAIN w.segments : w.segments[i].start <= w.segments[i].end
            /\ WithinDuration(w.readable, w.duration)
            /\ Len(w.readable) <= MaxSegments
            /\ \A i \in DOMAIN w.readable : ~w.readable[i].text.blank
            /\ SourcesValid(w)
            /\ References(w.readable) <= MaxReferences
            /\ UnitsOf(w.readable) <= MaxTextUnits
=============================================================================

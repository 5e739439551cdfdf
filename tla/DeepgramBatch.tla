---------------------------- MODULE DeepgramBatch ---------------------------
(***************************************************************************)
(* What the Deepgram batch adapter makes of a provider's success body:     *)
(* utterances and sentences in seconds (deepgram/dto.rs) become segments   *)
(* and readable segments in milliseconds on the recording's own timeline   *)
(* (deepgram/timeline.rs), or the paid request ends as unknown.            *)
(*                                                                         *)
(* The provider counts time in ticks, TicksPerMs of them in a millisecond. *)
(* A transcript is a sequence of words and the number of its characters    *)
(* that are white space beyond what separates the words: none of either is *)
(* the empty string.  A word is <<id, case>>, equal to another without     *)
(* regard to case when the ids are.                                        *)
(***************************************************************************)
EXTENDS RecognitionResult

CONSTANTS
    Ticks,            \* the times a provider uses
    TicksPerMs,
    Transcripts,      \* the texts of utterances, of sentences and of a whole recording
    MaxUtterances,    \* bounds of the model on the size of a body
    MaxSentences,
    Authoritative,    \* authoritative_duration_millis
    ProviderDuration, \* metadata.duration, in ticks
    Tolerance,        \* TIMESTAMP_TOLERANCE_MILLIS
    Divisor,          \* TIMESTAMP_RELATIVE_TOLERANCE_DIVISOR
    MaxOverlap        \* MAX_UTTERANCE_OVERLAP_MILLIS

VARIABLES
    at,         \* "utterances", "sentences" or "done"
    utterances, \* the provider's utterances, as parsed
    readable,   \* the readable segments so far, or Dropped
    result      \* what recognize returns, or Failed

vars == <<at, utterances, readable, result>>

Dropped == <<[dropped |-> TRUE]>>
Failed == [failed |-> TRUE]
Pending == [failed |-> FALSE]

\* Round half up.
seconds_to_millis(ticks) == (2 * ticks + TicksPerMs) \div (2 * TicksPerMs)

-----------------------------------------------------------------------------
(* Parsing *)

ParsedSegment(start, end, text) ==
    [start |-> seconds_to_millis(start), end |-> seconds_to_millis(end),
     from |-> start, to |-> end, text |-> text]

\* The utterances a sentence overlaps, as zero-based indices.
SourceSegments(start, end) ==
    SelectSeq([i \in DOMAIN utterances |-> i - 1],
              LAMBDA i : utterances[i + 1].from < end /\ start < utterances[i + 1].to)

IsBlank(text) == text.words = <<>>

SentenceValid(start, end, text) ==
    /\ ~(IsBlank(text) /\ text.spaces = 0)
    /\ start < end /\ end <= ProviderDuration
    /\ readable # <<>> => start >= Last(readable).to
    /\ SourceSegments(start, end) # <<>>

ParsedReadable(start, end, text) ==
    [start |-> seconds_to_millis(start), end |-> seconds_to_millis(end), to |-> end,
     text |-> text, sources |-> SourceSegments(start, end)]

\* What the sentences say, white space aside.
CoveredWords(sentences) == FlattenSeq([i \in DOMAIN sentences |-> sentences[i].text.words])

-----------------------------------------------------------------------------
(* Normalization *)

MaximumProviderEnd == Authoritative + Max({Tolerance, Authoritative \div Divisor})

CanNormalizeEnd(segment) ==
    /\ segment.start < Authoritative
    /\ segment.end <= MaximumProviderEnd
    /\ segment.end > segment.start

normalize_end(segment) == [segment EXCEPT !.end = Min({@, Authoritative})]

lower(words) == [i \in DOMAIN words |-> words[i][1]]

contains_words(haystack, needle) ==
    /\ needle # <<>>
    /\ \E i \in 0 .. Len(haystack) - Len(needle) :
            lower(SubSeq(haystack, i + 1, i + Len(needle))) = lower(needle)

\* How many words the end of one shares with the beginning of the other.
SharedWords(previous, current) ==
    Max({0} \cup {n \in 1 .. Min({Len(previous), Len(current)}) :
            lower(SubSeq(previous, Len(previous) - n + 1, Len(previous)))
                = lower(SubSeq(current, 1, n))})

\* Mutant: the longer of the two is kept.
merge_contained_text_Longer(previous, current) ==
    IF Len(previous.words) >= Len(current.words) THEN previous ELSE current

\* Words shared at the seam are said once, and then white space is tidied;
\* otherwise the two are put side by side, a space between them even where one
\* has no words.
merge_contained_text(previous, current) ==
    LET shared == SharedWords(previous.words, current.words)
        words == previous.words \o SubSeq(current.words, shared + 1, Len(current.words))
        loose == IF IsBlank(previous) \/ IsBlank(current) THEN 1 ELSE 0
    IN  IF contains_words(previous.words, current.words) THEN previous
        ELSE IF contains_words(current.words, previous.words) THEN current
        ELSE [words |-> words,
              spaces |-> IF shared > 0 THEN 0 ELSE previous.spaces + loose + current.spaces]

\* One turn of the loop over the utterances.
NormalizeOverlap(segment, acc) ==
    LET previous == Last(acc.segments)
    IN  IF acc.failed THEN acc
        ELSE IF acc.segments = <<>> \/ segment.start >= previous.end
        THEN [acc EXCEPT !.segments = Append(@, segment)]
        ELSE IF previous.end - segment.start > MaxOverlap THEN [acc EXCEPT !.failed = TRUE]
        ELSE IF segment.end <= previous.end
        THEN [acc EXCEPT !.changed = TRUE,
                !.segments[Len(acc.segments)].text =
                    merge_contained_text(previous.text, segment.text)]
        ELSE [acc EXCEPT !.changed = TRUE,
                !.segments = Append(@, [segment EXCEPT !.start = previous.end])]

normalize_utterance_overlaps(segments) ==
    FoldLeft(LAMBDA acc, segment : NormalizeOverlap(segment, acc),
             [segments |-> <<>>, changed |-> FALSE, failed |-> FALSE], segments)

KeptReadable(segments, changed) == IF changed THEN <<>> ELSE segments

normalize(text, segments, sentences) ==
    IF \E s \in Range(segments \o sentences) : ~CanNormalizeEnd(s) THEN Failed
    ELSE LET ends == [i \in DOMAIN segments |-> normalize_end(segments[i])]
             overlaps == normalize_utterance_overlaps(ends)
         IN  IF overlaps.failed THEN Failed
             ELSE [failed |-> FALSE, text |-> text, segments |-> overlaps.segments,
                   readable |-> KeptReadable([i \in DOMAIN sentences |-> normalize_end(sentences[i])],
                                             overlaps.changed)]

-----------------------------------------------------------------------------
(* One body *)

Init ==
    /\ at = "utterances"
    /\ utterances = <<>> /\ readable = <<>> /\ result = Pending

Utterance ==
    /\ at = "utterances" /\ Len(utterances) < MaxUtterances
    /\ \E start, end \in Ticks, text \in Transcripts :
        /\ start <= end
        /\ utterances' = Append(utterances, ParsedSegment(start, end, text))
    /\ UNCHANGED <<at, readable, result>>

\* A body that is not JSON, or an utterance without its fields or whose end
\* comes before its start.
Malformed ==
    /\ at = "utterances"
    /\ at' = "done" /\ result' = Failed
    /\ UNCHANGED <<utterances, readable>>

\* There are no paragraphs, they are not lists of sentences, or there is too
\* much of them.
NoParagraphs ==
    /\ at = "utterances"
    /\ at' = "sentences" /\ readable' = Dropped
    /\ UNCHANGED <<utterances, result>>

Paragraphs ==
    /\ at = "utterances" /\ at' = "sentences"
    /\ UNCHANGED <<utterances, readable, result>>

Sentence ==
    /\ at = "sentences" /\ readable # Dropped /\ Len(readable) < MaxSentences
    /\ \E start, end \in Ticks, text \in Transcripts :
        readable' = IF SentenceValid(start, end, text)
                    THEN Append(readable, ParsedReadable(start, end, text)) ELSE Dropped
    /\ UNCHANGED <<at, utterances, result>>

\* The transcript of the recording may or may not say what the sentences do;
\* when it does not, they are left out.
Normalize ==
    /\ at = "sentences" /\ at' = "done"
    /\ LET sentences == IF readable = Dropped THEN <<>> ELSE readable
           said == [words |-> CoveredWords(sentences), spaces |-> 0]
       IN  \E text \in Transcripts \cup {said} :
            result' = normalize(text, utterances,
                                IF text.words = said.words THEN sentences ELSE <<>>)
    /\ UNCHANGED <<utterances, readable>>

Returned == at = "done" /\ UNCHANGED vars

Next ==
    \/ Utterance \/ Malformed \/ NoParagraphs \/ Paragraphs
    \/ Sentence \/ Normalize \/ Returned

Spec == Init /\ [][Next]_vars

-----------------------------------------------------------------------------
(* Properties *)

Recognized == at = "done" /\ ~result.failed

SizeOf(text) == Len(text.words) + text.spaces

TextOf(text) ==
    [bytes |-> SizeOf(text), units |-> SizeOf(text), json |-> SizeOf(text),
     blank |-> IsBlank(text), nul |-> FALSE]

\* The application's view of the result.
AsResult ==
    [duration |-> Authoritative, text |-> TextOf(result.text), reference |-> "none",
     segments |-> [i \in DOMAIN result.segments |->
                    [start |-> result.segments[i].start, end |-> result.segments[i].end,
                     text |-> TextOf(result.segments[i].text),
                     confidence |-> "none", speaker |-> "none"]],
     readable |-> [i \in DOMAIN result.readable |->
                    [start |-> result.readable[i].start, end |-> result.readable[i].end,
                     text |-> TextOf(result.readable[i].text),
                     sources |-> result.readable[i].sources]]]

NoBlank(texts) == \A i \in DOMAIN texts : ~IsBlank(texts[i].text)

\* Whatever the provider's times and texts are, the application's own
\* validation and the wire projection refuse a result the adapter returns only
\* for a text without words, and only if an utterance or a sentence of the
\* body was one: a paid transcription is not turned into a failure because two
\* roundings or clamps disagree, or by a merge (parse_utterance,
\* parse_readable_segments, timeline.rs normalize, valid_result, validate_result).
ResultAcceptable ==
    Recognized =>
        /\ (valid_result(AsResult, Authoritative) /\ Projectable("deepgram_v2", AsResult))
                <=> (NoBlank(result.segments) /\ NoBlank(result.readable))
        /\ NoBlank(utterances) => NoBlank(result.segments)

\* Every utterance of the provider that has words can be read, in one piece, in
\* some segment of the result: merging overlaps loses no words
\* (merge_contained_text).
NothingSaidIsLost ==
    Recognized =>
        \A i \in DOMAIN utterances : ~IsBlank(utterances[i].text) =>
            \E j \in DOMAIN result.segments :
                contains_words(result.segments[j].text.words, utterances[i].text.words)

\* A readable segment of the result points at segments that are utterances as
\* the provider sent them and that it overlaps, and readable segments do not
\* overlap each other (parse_readable_segments, normalize).
ReadableIsEvidence ==
    Recognized /\ result.readable # <<>> =>
        /\ Ordered(result.readable)
        /\ \A i \in DOMAIN result.readable : \A s \in Range(result.readable[i].sources) :
            /\ s < Len(result.segments)
            /\ result.segments[s + 1].text = utterances[s + 1].text
            /\ result.segments[s + 1].start = utterances[s + 1].start
            /\ result.readable[i].start <= result.segments[s + 1].end
            /\ result.segments[s + 1].start <= result.readable[i].end
=============================================================================

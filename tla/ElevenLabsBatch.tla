--------------------------- MODULE ElevenLabsBatch --------------------------
(***************************************************************************)
(* What the ElevenLabs batch adapter makes of a provider's success body:   *)
(* one token after the other, words are gathered into segments that end at *)
(* pauses, at sentence ends after a while, and at a hard limit             *)
(* (elevenlabs/dto.rs parse_response).  One action per token.              *)
(*                                                                         *)
(* Time is in ticks, TicksPerMs in a millisecond.  Words are numbered as   *)
(* they come; a text is the sequence of its words, 0 for spacing.          *)
(***************************************************************************)
EXTENDS RecognitionResult

CONSTANTS
    Ticks,         \* the times a provider uses
    TicksPerMs,
    Authoritative, \* authoritative_duration_millis
    Tolerance,     \* the timestamp tolerance, in ticks
    Pause,         \* PAUSE_SPLIT_SECONDS, in ticks
    Punctuation,   \* PUNCTUATION_SPLIT_SECONDS, in ticks
    Hard,          \* HARD_SPLIT_SECONDS, in ticks
    MaxTokens      \* bound of the model on the tokens of a body

ASSUME TokensAssumption ==
    /\ Ticks \subseteq Nat /\ TicksPerMs \in Nat \ {0}
    /\ {Authoritative, Tolerance, Pause, Punctuation, Hard} \subseteq Nat

VARIABLES
    progress,       \* "tokens" or "done"
    reason,         \* why the body was rejected, or "none"
    current,        \* the segment under construction, or NoSegment
    previous_end,   \* previous_word_end, -1 at first
    segments,       \* the finished segments
    reconstructed,  \* the text of all tokens
    spoken,         \* ghost: the words accepted, with their times and confidence
    text            \* the transcript that is returned

tokensVars ==
    <<progress, reason, current, previous_end, segments, reconstructed, spoken, text>>

NoSegment == [words |-> <<>>]
EndTicks == Authoritative * TicksPerMs

\* Round half up.
seconds_to_millis(ticks) == (2 * ticks + TicksPerMs) \div (2 * TicksPerMs)

WordsIn(s) == SelectSeq(s, LAMBDA w : w # 0)

-----------------------------------------------------------------------------
(* Segments *)

SegmentBuilder(w) ==
    [words |-> <<w.id>>, start |-> w.start, end |-> w.end, count |-> 1,
     confident |-> IF w.confident THEN 1 ELSE 0, punctuated |-> w.punctuated]

push_word(segment, w) ==
    [segment EXCEPT !.words = Append(@, w.id), !.end = w.end, !.count = @ + 1,
                    !.confident = @ + (IF w.confident THEN 1 ELSE 0),
                    !.punctuated = w.punctuated]

\* White space does not hide the punctuation before it.
push_spacing(segment) == [segment EXCEPT !.words = Append(@, 0)]

finish(segment) ==
    [start |-> seconds_to_millis(segment.start), end |-> seconds_to_millis(segment.end),
     words |-> segment.words,
     confidence |-> IF segment.confident = segment.count THEN "ok" ELSE "none"]

\* Why push_segment rejects a segment, or "none".
PushFault(done, segment) ==
    IF segment = NoSegment THEN "none"
    ELSE IF Len(done) = MaxSegments THEN "too many segments"
    ELSE IF finish(segment).end <= finish(segment).start THEN "empty segment"
    ELSE IF done # <<>> /\ finish(segment).start < Last(done).end THEN "overlap"
    ELSE "none"

push_segment(done, segment) ==
    IF segment = NoSegment THEN done ELSE Append(done, finish(segment))

\* Mutant: the hard limit is held against the start of the word.
should_split_AtStart(w) ==
    /\ current # NoSegment
    /\ \/ w.start - previous_end >= Pause
       \/ w.start - current.start > Hard
       \/ w.start - current.start >= Punctuation /\ current.punctuated

should_split(w) ==
    /\ current # NoSegment
    /\ \/ w.start - previous_end >= Pause
       \/ w.end - current.start > Hard
       \/ w.start - current.start >= Punctuation /\ current.punctuated

-----------------------------------------------------------------------------
(* Tokens *)

Bounded(t) == t <= EndTicks + Tolerance

bounded_timestamp(t) == Min({t, EndTicks})

WordInOrder(w) == w.start < w.end /\ w.start >= previous_end

TokensInit ==
    /\ progress = "tokens" /\ reason = "none"
    /\ current = NoSegment /\ previous_end = -1
    /\ segments = <<>> /\ reconstructed = <<>> /\ spoken = <<>> /\ text = <<>>

More == progress = "tokens" /\ Len(reconstructed) < MaxTokens

Reject(why) ==
    /\ progress' = "done" /\ reason' = why
    /\ UNCHANGED <<current, previous_end, segments, reconstructed, spoken, text>>

\* Not JSON, a bad envelope, an unknown token type, an empty or oversized
\* word, a missing time, a positive log probability.
Malformed == progress = "tokens" /\ Reject("malformed")

AudioEvent == More /\ UNCHANGED tokensVars

Spacing ==
    /\ More
    /\ reconstructed' = Append(reconstructed, 0)
    /\ current' = IF current = NoSegment THEN NoSegment ELSE push_spacing(current)
    /\ UNCHANGED <<progress, reason, previous_end, segments, spoken, text>>

TakeWord(w) ==
    LET split == should_split(w)
        done  == IF split THEN push_segment(segments, current) ELSE segments
        fault == IF split THEN PushFault(segments, current) ELSE "none"
    IN  IF fault # "none" THEN Reject(fault)
        ELSE /\ segments' = done
             /\ current' = IF current = NoSegment \/ split THEN SegmentBuilder(w)
                           ELSE push_word(current, w)
             /\ previous_end' = w.end
             /\ reconstructed' = Append(reconstructed, w.id)
             /\ spoken' = Append(spoken, w)
             /\ UNCHANGED <<progress, reason, text>>

Word ==
    /\ More
    /\ \E start, end \in Ticks, confident, punctuated \in BOOLEAN :
        LET w == [id |-> Len(spoken) + 1,
                  start |-> bounded_timestamp(start), end |-> bounded_timestamp(end),
                  confident |-> confident, punctuated |-> punctuated]
        IN  IF Bounded(start) /\ Bounded(end) /\ WordInOrder(w) THEN TakeWord(w)
            ELSE Reject("word out of order")

\* The transcript must say what the tokens say, up to white space.
EndOfTokens ==
    /\ progress = "tokens"
    /\ LET fault == PushFault(segments, current)
           done  == push_segment(segments, current)
       IN  \E said \in {reconstructed, WordsIn(reconstructed)} :
            IF fault # "none" THEN Reject(fault)
            ELSE /\ progress' = "done" /\ segments' = done /\ text' = said
                 /\ current' = NoSegment
                 /\ UNCHANGED <<reason, previous_end, reconstructed, spoken>>

\* The transcript says something else.
TextDisagrees == progress = "tokens" /\ Reject("text disagrees")

Returned == progress = "done" /\ UNCHANGED tokensVars

TokensNext ==
    \/ Malformed \/ AudioEvent \/ Spacing \/ Word
    \/ EndOfTokens \/ TextDisagrees \/ Returned

TokensSpec == TokensInit /\ [][TokensNext]_tokensVars

-----------------------------------------------------------------------------
(* Properties *)

\* The words of a segment, and whether they come in the order they were said.
WordsOf(segment) == Range(segment.words) \ {0}
Rising(words) ==
    \A i, j \in DOMAIN words : i < j /\ words[i] # 0 /\ words[j] # 0 => words[i] < words[j]

\* No word ends later than the hard limit after the start of one before it, and
\* none follows another after a pause.
Short(words) ==
    /\ \A v, w \in words : v < w => spoken[w].end - spoken[v].start <= Hard
    /\ \A w \in words : w - 1 \in words => spoken[w].start - spoken[w - 1].end < Pause

Recognized == progress = "done" /\ reason = "none"

TextOf(s) ==
    [bytes |-> Len(s), units |-> Len(s), json |-> Len(s), nul |-> FALSE,
     blank |-> WordsIn(s) = <<>>]

AsResult ==
    [duration |-> Authoritative, text |-> TextOf(text), readable |-> <<>>, reference |-> "none",
     segments |-> [i \in DOMAIN segments |->
                    [start |-> segments[i].start, end |-> segments[i].end,
                     text |-> TextOf(segments[i].words),
                     confidence |-> segments[i].confidence, speaker |-> "none"]]]

\* A result the adapter returns passes the application's validation, and the
\* v3 projection too unless the transcript is nothing but white space, which
\* v3 cannot represent (push_segment, valid_result, batch_outbound.rs).
ResultAcceptable ==
    Recognized =>
        /\ valid_result(AsResult, Authoritative)
        /\ Projectable("elevenlabs_v3", AsResult) \/ (text # <<>> /\ WordsIn(text) = <<>>)

\* The segments hold every word, once and in order (parse_response).
WordsKeptInOrder ==
    Recognized =>
        /\ UNION {WordsOf(segments[i]) : i \in DOMAIN segments} = DOMAIN spoken
        /\ \A i \in DOMAIN segments : Rising(segments[i].words)
        /\ \A i, j \in DOMAIN segments :
                i < j => \A v \in WordsOf(segments[i]), w \in WordsOf(segments[j]) : v < w

\* A segment of several words spans no more than the hard limit and no pause
\* that should have ended it (should_split).
SegmentsAreShort == Recognized => \A i \in DOMAIN segments : Short(WordsOf(segments[i]))

\* Rounding to milliseconds never makes segments overlap: push_segment's own
\* overlap check rejects no body whose words were in order.
RoundingKeepsOrder == reason # "overlap"

\* The segments say what the words said, as they were timed (parse_response,
\* SegmentBuilder, push_segment).
SegmentsFaithful == WordsKeptInOrder /\ SegmentsAreShort /\ RoundingKeepsOrder
=============================================================================

--------------------------- MODULE MCBatchResults ---------------------------
(***************************************************************************)
(* The way of a provider's answer into the ledger and out again, for TLC:  *)
(* what either batch adapter makes of a body (DeepgramBatch, an instance,  *)
(* and ElevenLabsBatch) and the row that keeps and serves it (JobRecords). *)
(* JobRecords takes any result the adapters' type allows, so a behaviour   *)
(* follows one of the modules: part says which.                            *)
(***************************************************************************)
EXTENDS JobRecords, ElevenLabsBatch

VARIABLES
    part,
    at, utterances, readable, result

deepgramVars == <<at, utterances, readable, result>>
allVars == <<part, vars, deepgramVars, tokensVars>>

Text(bytes, units, json, blank, nul) ==
    [bytes |-> bytes, units |-> units, json |-> json, blank |-> blank, nul |-> nul]

\* Empty, one letter, one space, one escaped character, one that fits alone but
\* not twice, one that is too long for the contract, and U+0000.
MCTexts ==
    {Text(0, 0, 2, TRUE, FALSE), Text(1, 1, 3, FALSE, FALSE), Text(1, 1, 3, TRUE, FALSE),
     Text(2, 2, 14, FALSE, FALSE), Text(4, 4, 6, FALSE, FALSE), Text(8, 8, 10, FALSE, FALSE),
     Text(1, 1, 8, FALSE, TRUE)}

Segment(start, end, t, confidence) ==
    [start |-> start, end |-> end, text |-> t, confidence |-> confidence, speaker |-> "none"]

\* In order, up to the end, beyond it, and of no length.
Spans == {<<0, 1>>, <<1, Duration>>, <<0, Duration + 1>>, <<1, 1>>}
Plain == Text(1, 1, 3, FALSE, FALSE)

MCSegments ==
    {Segment(p[1], p[2], Plain, "none") : p \in Spans}
        \cup {Segment(0, 1, t, "ok") : t \in MCTexts}
        \cup {Segment(0, 1, Plain, "bad")}

MCReadables ==
    {[start |-> p[1], end |-> p[2], text |-> t, sources |-> sources] :
        p \in {<<0, 1>>, <<0, Duration + 1>>}, t \in MCTexts,
        sources \in {<<>>, <<0>>, <<0, 1>>}}

MCRecognized ==
    [duration : {Duration, Duration + 1}, text : MCTexts,
     segments : SeqOf(MCSegments, 2), readable : SeqOf(MCReadables, 1),
     reference : {"none", "id"}]

\* Nothing, a space, a word, the same in upper case with another, and the two
\* turned round.
Said(words, spaces) == [words |-> words, spaces |-> spaces]
FewTranscripts == {Said(<<>>, 0), Said(<<>>, 1), Said(<< <<1, "a">> >>, 0)}
SomeTranscripts ==
    FewTranscripts \cup {Said(<< <<1, "A">>, <<2, "b">> >>, 0),
                        Said(<< <<2, "b">>, <<1, "a">> >>, 0)}

\* Two utterances and two sentences on half milliseconds.
Sentences == INSTANCE DeepgramBatch WITH
    MaxTextBytes <- 20, MaxTextUnits <- 20, MaxSegments <- 3, MaxReferences <- 9, MaxBody <- 30,
    Ticks <- {0, 1, 2, 4, 5, 7}, TicksPerMs <- 2, Transcripts <- FewTranscripts,
    MaxUtterances <- 2, MaxSentences <- 2, Authoritative <- 2, ProviderDuration <- 7,
    Tolerance <- 1, Divisor <- 2, MaxOverlap <- 1

\* Three utterances that may be merged, one into the other.
Merges == INSTANCE DeepgramBatch WITH
    MaxTextBytes <- 20, MaxTextUnits <- 20, MaxSegments <- 3, MaxReferences <- 9, MaxBody <- 30,
    Ticks <- {0, 2, 4, 5}, TicksPerMs <- 2, Transcripts <- SomeTranscripts,
    MaxUtterances <- 3, MaxSentences <- 0, Authoritative <- 2, ProviderDuration <- 7,
    Tolerance <- 1, Divisor <- 2, MaxOverlap <- 2

ResultsInit ==
    /\ Init /\ Sentences!Init /\ TokensInit
    /\ part \in {"records", "sentences", "merges", "tokens"}
    /\ part # "records" => identity = "deepgram_v2" /\ binary = "current"

ResultsNext ==
    /\ \/ part = "records" /\ Next /\ UNCHANGED <<deepgramVars, tokensVars>>
       \/ part = "sentences" /\ Sentences!Next /\ UNCHANGED <<vars, tokensVars>>
       \/ part = "merges" /\ Merges!Next /\ UNCHANGED <<vars, tokensVars>>
       \/ part = "tokens" /\ TokensNext /\ UNCHANGED <<vars, deepgramVars>>
    /\ UNCHANGED part

ResultsSpec == ResultsInit /\ [][ResultsNext]_allVars

-----------------------------------------------------------------------------
(* The properties of the adapters, stated there. *)

\* What an adapter makes of a body is in a form that every later check accepts,
\* except where Deepgram sends a text without words; Deepgram's merging loses no
\* word and its readable segments point at what was sent (timeline.rs normalize,
\* elevenlabs/dto.rs parse_response).
ResultFaithful ==
    /\ part = "sentences" => Sentences!ResultAcceptable /\ Sentences!ReadableIsEvidence
    /\ part = "merges" => Merges!ResultAcceptable /\ Merges!NothingSaidIsLost
    /\ ResultAcceptable
=============================================================================

------------------------------- MODULE OggOpus ------------------------------
(***************************************************************************)
(* The validation of an uploaded Ogg Opus file (voicetext-audio,           *)
(* ogg_opus.rs): one pass over the pages' headers (scan_container) and one *)
(* over the packets that the ogg library puts together (AudioTiming).      *)
(* Both are pure and a file must pass both, so the model gives each page   *)
(* to the first pass and then its packets to the second.                   *)
(*                                                                         *)
(* A packet is its number of samples, 0 when it is empty, oversized or not *)
(* an Opus packet; what a header packet says is a choice.                  *)
(***************************************************************************)
EXTENDS Integers, Sequences

CONSTANTS
    Granules,       \* granule positions a page may carry
    Packets,        \* what may be completed on a page: sequences of sample counts
    PreSkips,       \* pre-skips a header may ask for, MaxPreSkip at most
    MaxPreSkip,     \* MAX_PRE_SKIP_SAMPLES
    MaxSamples,     \* MAX_SAMPLES_PER_PACKET
    Rate,           \* SAMPLE_RATE_HZ
    PerSecond,      \* milliseconds in a second
    MaxPages        \* bound of the model on the pages of a file

ASSUME AudioAssumption ==
    /\ Granules \subseteq Nat /\ PreSkips \subseteq Nat
    /\ \A s \in Packets : s \in Seq(Nat)
    /\ {MaxPreSkip, MaxSamples, MaxPages} \subseteq Nat
    /\ {Rate, PerSecond} \subseteq Nat \ {0}

VARIABLES
    file,      \* "reading", "accepted" or "rejected"
    reason,    \* the first thing that was wrong
    scan,      \* the locals of scan_container
    page,      \* the page whose packets are being read
    next,      \* the packet of it that is read next
    stage,     \* what the next packet must be: "head", "tags" or "audio"
    timing,    \* AudioTiming
    duration,  \* the ValidatedOggOpus that is returned
    heard      \* ghost: all audio of the file, and what there was before the last page

audioVars == <<file, reason, scan, page, next, stage, timing, duration, heard>>

None == -1
NO_GRANULE_POSITION == -1

Pages ==
    [bos : BOOLEAN, eos : BOOLEAN, same_serial : BOOLEAN, in_sequence : BOOLEAN,
     last : BOOLEAN, granule : Granules \cup {NO_GRANULE_POSITION}, packets : Packets]

NoPage == [bos |-> FALSE, eos |-> FALSE, same_serial |-> TRUE, in_sequence |-> TRUE,
           last |-> FALSE, granule |-> NO_GRANULE_POSITION, packets |-> <<>>]

-----------------------------------------------------------------------------
(* The first pass *)

\* A page has a position if and only if a packet is completed on it.
GranulePresenceValid(p) == (p.packets # <<>>) = (p.granule # NO_GRANULE_POSITION)

\* The first page begins the stream, no other does, and all are of one stream.
SerialValid(p) == IF scan.pages = 0 THEN p.bos ELSE ~p.bos /\ p.same_serial

MonotoneGranule(p) == p.granule # NO_GRANULE_POSITION => p.granule >= scan.previous

\* The stream ends on the last page of the file, at a position.
EndValid(p) == p.eos => p.last /\ p.granule # NO_GRANULE_POSITION

PageFault(p) ==
    CASE ~GranulePresenceValid(p) -> "granule presence"
      [] ~SerialValid(p)          -> "logical stream"
      [] ~p.in_sequence           -> "sequence"
      [] ~MonotoneGranule(p)      -> "granule order"
      [] ~EndValid(p)             -> "end of stream"
      [] OTHER                    -> "none"

scanned(p) ==
    [pages    |-> scan.pages + 1,
     last     |-> p.last,
     previous |-> IF p.granule = NO_GRANULE_POSITION THEN scan.previous ELSE p.granule,
     final    |-> IF p.eos THEN p.granule ELSE scan.final]

-----------------------------------------------------------------------------
(* The second pass *)

first_in_page == next = 1
last_in_page == next = Len(page.packets)
first_in_stream == page.bos /\ first_in_page
last_in_stream == page.eos /\ last_in_page

HeadValid ==
    first_in_stream /\ last_in_page /\ ~last_in_stream /\ page.granule = 0

TagsValid ==
    ~first_in_stream /\ last_in_page /\ ~last_in_stream /\ page.granule = 0

NewTiming(skip) ==
    [pre_skip |-> skip, packet_count |-> 0, page_samples |-> 0,
     previous |-> None, saw_eos |-> FALSE]

SamplesAccepted(samples) == samples \in 1 .. MaxSamples

\* The samples of the packets completed on this page so far.
PageSamples(samples) ==
    (IF first_in_page THEN 0 ELSE timing.page_samples) + samples

\* Mutant: the first page may begin anywhere.
PageGranuleValid_AnyOrigin(samples) ==
    \/ timing.previous = None /\ ~last_in_stream
    \/ timing.previous = None /\ last_in_stream /\ page.granule \in timing.pre_skip .. samples
    \/ /\ timing.previous # None
       /\ IF last_in_stream
          THEN page.granule > timing.previous /\ page.granule <= timing.previous + samples
          ELSE page.granule = timing.previous + samples

\* validate_page_granule: the position is the sum of the samples, and only the
\* last page may trim.
PageGranuleValid(samples) ==
    \/ timing.previous = None /\ ~last_in_stream /\ page.granule = samples
    \/ timing.previous = None /\ last_in_stream /\ page.granule \in timing.pre_skip .. samples
    \/ /\ timing.previous # None
       /\ IF last_in_stream
          THEN page.granule > timing.previous /\ page.granule <= timing.previous + samples
          ELSE page.granule = timing.previous + samples

accepted(samples) ==
    [timing EXCEPT !.page_samples = PageSamples(samples),
                   !.packet_count = @ + 1,
                   !.previous = IF last_in_page THEN page.granule ELSE @,
                   !.saw_eos = last_in_stream]

duration_millis(samples) == (samples * PerSecond + Rate - 1) \div Rate

\* Why finish rejects the file.
FinishFault ==
    CASE timing.packet_count = 0       -> "no audio"
      [] ~timing.saw_eos               -> "packets without an end"
      [] timing.previous # scan.final  -> "passes disagree"
      [] scan.final <= timing.pre_skip -> "no duration"
      [] OTHER                         -> "none"

finish ==
    LET samples == scan.final - timing.pre_skip
    IN  [samples |-> samples, millis |-> duration_millis(samples)]

-----------------------------------------------------------------------------
AudioInit ==
    /\ file = "reading" /\ reason = "none"
    /\ scan = [pages |-> 0, last |-> FALSE, previous |-> 0, final |-> None]
    /\ page = NoPage /\ next = 1 /\ stage = "head"
    /\ timing = NewTiming(0)
    /\ duration = [samples |-> 0, millis |-> 0]
    /\ heard = [total |-> 0, before |-> 0, packets |-> 0]

Reject(why) ==
    /\ file' = "rejected" /\ reason' = why
    /\ UNCHANGED <<scan, page, next, stage, timing, duration, heard>>

PageRead == next > Len(page.packets)

\* One page of scan_container.
Page ==
    /\ file = "reading" /\ PageRead /\ ~scan.last
    /\ scan.pages < MaxPages
    /\ \E p \in Pages :
        IF PageFault(p) # "none" THEN Reject(PageFault(p))
        ELSE /\ page' = p /\ next' = 1 /\ scan' = scanned(p)
             /\ heard' = [heard EXCEPT !.before = heard.total]
             /\ UNCHANGED <<file, reason, stage, timing, duration>>

\* Not a page, a wrong checksum, a torn or wrongly continued packet, an
\* input without bytes or with too many.
BadContainer == file = "reading" /\ Reject("container")

\* validate_identification_header
HeadPacket ==
    /\ file = "reading" /\ ~PageRead /\ stage = "head"
    /\ \/ Reject("head")
       \/ \E skip \in PreSkips :
            IF HeadValid /\ skip <= MaxPreSkip
            THEN /\ stage' = "tags" /\ timing' = NewTiming(skip) /\ next' = next + 1
                 /\ UNCHANGED <<file, reason, scan, page, duration, heard>>
            ELSE Reject("head")

\* validate_comment_header
TagsPacket ==
    /\ file = "reading" /\ ~PageRead /\ stage = "tags"
    /\ \/ Reject("tags")
       \/ IF TagsValid
          THEN /\ stage' = "audio" /\ next' = next + 1
               /\ UNCHANGED <<file, reason, scan, page, timing, duration, heard>>
          ELSE Reject("tags")

\* AudioTiming::accept
Packet ==
    /\ file = "reading" /\ ~PageRead /\ stage = "audio"
    /\ LET samples == page.packets[next]
       IN  CASE first_in_stream \/ timing.saw_eos \/ ~SamplesAccepted(samples) -> Reject("packet")
             [] last_in_page /\ ~PageGranuleValid(PageSamples(samples)) -> Reject("granule")
             [] OTHER ->
                  /\ timing' = accepted(samples) /\ next' = next + 1
                  /\ heard' = [heard EXCEPT !.total = @ + samples, !.packets = @ + 1]
                  /\ UNCHANGED <<file, reason, scan, page, stage, duration>>

\* The end of the input: both summaries are compared.
Finish ==
    /\ file = "reading" /\ PageRead /\ scan.last
    /\ LET fault == CASE scan.final = None -> "missing end of stream"
                      [] stage # "audio"   -> "missing header"
                      [] OTHER             -> FinishFault
       IN  IF fault # "none" THEN Reject(fault)
           ELSE /\ file' = "accepted" /\ duration' = finish
                /\ UNCHANGED <<reason, scan, page, next, stage, timing, heard>>

Returned == file # "reading" /\ UNCHANGED audioVars

AudioNext == Page \/ BadContainer \/ HeadPacket \/ TagsPacket \/ Packet \/ Finish \/ Returned

AudioSpec == AudioInit /\ [][AudioNext]_audioVars

-----------------------------------------------------------------------------
(* Properties *)

\* The duration a job is billed and validated by is backed by audio: with the
\* pre-skip it is no longer than the samples of all packets, and what is
\* trimmed at the end lies within the last page (validate_page_granule).
AudioBacksDuration ==
    file = "accepted" =>
        /\ duration.samples > 0
        /\ timing.pre_skip + duration.samples \in heard.before + 1 .. heard.total

\* The milliseconds are the fewest that hold every sample, so a provider's
\* time within the audio is never beyond the authoritative duration (finish).
MillisHoldSamples ==
    file = "accepted" =>
        /\ duration.samples * PerSecond <= duration.millis * Rate
        /\ (duration.millis - 1) * Rate < duration.samples * PerSecond

\* The two passes see the same stream: a file whose pages pass the first one
\* and whose packets pass the second never ends without its end-of-stream
\* packet or at another position, and every audio packet was counted
\* (scan_container, AudioTiming::finish).
PassesAgree ==
    /\ reason \notin {"packets without an end", "passes disagree"}
    /\ file = "accepted" => timing.packet_count = heard.packets /\ page.eos

\* The authoritative duration is that of the audio in the file, whichever of
\* the two passes looks at it (validate_complete_ogg_opus).
DurationIsHeard == AudioBacksDuration /\ MillisHoldSamples /\ PassesAgree
=============================================================================

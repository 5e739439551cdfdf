------------------------- MODULE BatchRequestProofs -------------------------
(***************************************************************************)
(* Proofs about the three stations of a batch request.                     *)
(*                                                                         *)
(* ProviderExchange, for any set of status codes, any body limits and any  *)
(* number of attempts: what the ledger says about a submission is never    *)
(* more than the adapter could know, so no job is paid for twice.          *)
(*                                                                         *)
(* OggOpus, for any set of positions, packets and pre-skips and files of   *)
(* any length: the duration of an accepted file is that of its audio.  The *)
(* two passes over the file never look at each other before the end; the   *)
(* invariant ties them together on the way: the first is ahead by one      *)
(* page, the second is at the position that the page before it ended at,   *)
(* and it has seen the end of the stream exactly when the packets of the   *)
(* page that carries the end have been read.                               *)
(*                                                                         *)
(* BatchUpload, for any key terms, audio files, limits and number of       *)
(* uploads: a replay means the same request, and what the boundary accepts *)
(* no later copy of the checks refuses.  The argument is about data: the   *)
(* order on texts is total, so a set of texts has one sorted list, and the *)
(* parts of the preimage are framed, so a fingerprint is read back as the  *)
(* list and the audio it was made of.                                      *)
(***************************************************************************)
EXTENDS ProviderExchange, OggOpus, BatchUpload, DataLemmas

-----------------------------------------------------------------------------
(* ProviderExchange: the inductive invariant *)

TypesInv ==
    /\ adapter \in {"deepgram", "elevenlabs"}
    /\ valid \in BOOLEAN
    /\ row \in Row
    /\ pc \in {"idle", "send", "wait", "body"}
    /\ status \in Int
    /\ body \in Nat

\* The adapter is at work exactly while the ledger says so.
WorkInv == pc # "idle" <=> row.st = "submitting"

\* Only the last attempt can have left the gateway: every attempt before it
\* was concluded without a request that is still under way or was accepted.
LastInv == sent \cup paid \subseteq {row.attempt}

\* Until the request leaves nothing is under way, and neither is it once a
\* response has come; then the status tells whether it was accepted.
KnownInv ==
    /\ pc = "send" \/ Actionable(row.st) => sent = {} /\ paid = {}
    /\ pc = "body" => /\ sent = {}
                      /\ IF paid # {} THEN Succeeds(status) \/ status >= 500
                                      ELSE ~Succeeds(status)
    /\ row.st = "completed" => paid = {row.attempt} /\ sent = {}

ExchangeInv == TypesInv /\ WorkInv /\ LastInv /\ KnownInv

-----------------------------------------------------------------------------
LEMMA ConcludedRow ==
    ASSUME row \in Row, NEW out \in Outcomes
    PROVE  LET r == apply_recognition_outcome(row, out)
           IN  /\ r \in Row /\ r.attempt = row.attempt
               /\ r.st \in {"completed", "retryable", "outcome_unknown", "failed"}
               /\ r.st = "completed" <=> out = "ok"
               /\ r.st = "retryable" <=> out = "not_accepted_retryable"
BY DEF apply_recognition_outcome, Row, Status

\* Concluding is safe when the outcome says no more than is known.
LEMMA Concludes ==
    ASSUME ExchangeInv, pc # "idle", NEW out \in Outcomes, Conclude(out),
           out = "ok" => paid = {row.attempt} /\ sent = {},
           out = "not_accepted_retryable" => paid = {} /\ sent = {},
           UNCHANGED <<adapter, valid, sent, paid>>
    PROVE  ExchangeInv'
<1> USE DEF ExchangeInv, Conclude
<1>1. /\ row' \in Row /\ row'.attempt = row.attempt
      /\ row'.st \in {"completed", "retryable", "outcome_unknown", "failed"}
      /\ row'.st = "completed" <=> out = "ok"
      /\ row'.st = "retryable" <=> out = "not_accepted_retryable"
  BY ConcludedRow DEF TypesInv
<1>2. TypesInv'
  BY <1>1 DEF TypesInv
<1>3. WorkInv' /\ LastInv'
  BY <1>1 DEF WorkInv, LastInv
<1>4. KnownInv'
  BY <1>1 DEF KnownInv, Actionable
<1>5. QED
  BY <1>2, <1>3, <1>4

\* A status is read as a refusal that may be repeated only when the provider
\* did refuse, and a success is one.
LEMMA Decides ==
    ASSUME ExchangeInv, pc = "body", NEW out \in Outcomes, Decide(out),
           UNCHANGED <<adapter, valid, sent, paid>>
    PROVE  ExchangeInv'
<1> USE DEF ExchangeInv
<1>1. CASE IsSuccess(status)
  <2>1. paid = {row.attempt} /\ sent = {}
    BY <1>1 DEF KnownInv, LastInv, IsSuccess, Succeeds
  <2>2. Conclude(out) /\ out # "not_accepted_retryable"
    BY <1>1 DEF Decide
  <2>3. QED
    BY <2>1, <2>2, Concludes
<1>2. CASE ~IsSuccess(status)
  <2>1. Conclude(out) /\ out = status_failure(status)
    BY <1>2 DEF Decide
  <2>2. out # "ok"
    BY <2>1 DEF status_failure
  <2>3. out = "not_accepted_retryable" => status = 429
    BY <2>1 DEF status_failure
  <2>4. out = "not_accepted_retryable" => paid = {} /\ sent = {}
    BY <2>3 DEF KnownInv, Succeeds
  <2>5. QED
    BY <2>1, <2>2, <2>4, Concludes
<1>3. QED
  BY <1>1, <1>2

LEMMA ESubmit ==
    ASSUME ExchangeInv, Submit
    PROVE  ExchangeInv'
<1> USE AttemptAssumption DEF ExchangeInv, Submit
<1>1. sent = {} /\ paid = {}
  BY DEF CanBeginSubmission, KnownInv
<1>2. row' \in Row /\ row'.st = "submitting"
  <2>1. row \in Row /\ row.attempt + 1 \in 0 .. MaxAttempt
    BY DEF TypesInv, Row, CanBeginSubmission
  <2>2. row' = [row EXCEPT !.st = "submitting", !.attempt = row.attempt + 1]
    BY DEF begin_submission
  <2> HIDE DEF Submit
  <2>3. QED
    BY <2>1, <2>2 DEF Row, Status
<1>3. TypesInv'
  BY <1>2 DEF TypesInv
<1>4. QED
  BY <1>1, <1>2, <1>3 DEF WorkInv, LastInv, KnownInv, Actionable

LEMMA ERejectsRequest ==
    ASSUME ExchangeInv, RejectsRequest
    PROVE  ExchangeInv'
BY Concludes DEF RejectsRequest, Outcomes

\* Nothing has left when no connection could be made.
LEMMA EConnectFails ==
    ASSUME ExchangeInv, ConnectFails
    PROVE  ExchangeInv'
<1>1. sent = {} /\ paid = {}
  BY DEF ExchangeInv, KnownInv, ConnectFails
<1>2. classify_send_error(TRUE) \in Outcomes /\ classify_send_error(TRUE) # "ok"
  BY DEF classify_send_error, Outcomes
<1>3. QED
  BY <1>1, <1>2, Concludes DEF ConnectFails

LEMMA ERequestLeaves ==
    ASSUME ExchangeInv, RequestLeaves
    PROVE  ExchangeInv'
<1> USE DEF ExchangeInv, RequestLeaves
<1>1. TypesInv' /\ WorkInv'
  BY DEF TypesInv, WorkInv
<1>2. LastInv' /\ KnownInv'
  BY DEF WorkInv, LastInv, KnownInv, Actionable
<1>3. QED
  BY <1>1, <1>2

\* Once the request has left, its fate is unknown.
LEMMA ENoResponse ==
    ASSUME ExchangeInv, NoResponse
    PROVE  ExchangeInv'
<1>1. classify_send_error(FALSE) = "unknown_after_send"
  BY DEF classify_send_error
<1>2. QED
  BY <1>1, Concludes DEF NoResponse, Outcomes

LEMMA EResponse ==
    ASSUME ExchangeInv, NEW code \in Statuses, NEW n \in Nat, Response(code, n)
    PROVE  ExchangeInv'
<1> USE DEF Response
<1>1. CASE Conclude("unknown_after_send")
  BY <1>1, Concludes DEF Outcomes
<1>2. CASE status' = code /\ pc' = "body" /\ UNCHANGED <<row, body>>
  <2>1. sent = {} /\ (paid # {} <=> row.attempt \in paid)
    BY DEF ExchangeInv, LastInv
  <2>2. code \in Int
    BY StatusAssumption
  <2>3. TypesInv' /\ WorkInv' /\ LastInv'
    BY <1>2, <2>2 DEF ExchangeInv, TypesInv, WorkInv, LastInv
  <2>4. KnownInv'
    BY <1>2, <2>1 DEF ExchangeInv, WorkInv, KnownInv, Actionable, Succeeds
  <2>5. QED
    BY <2>3, <2>4 DEF ExchangeInv
<1>3. QED
  BY <1>1, <1>2

LEMMA EChunk ==
    ASSUME ExchangeInv, NEW n \in Chunks, Chunk(n)
    PROVE  ExchangeInv'
<1> USE DEF Chunk
<1>1. CASE body' = body + n /\ UNCHANGED <<row, pc, status>>
  BY <1>1, BodyAssumption DEF ExchangeInv, TypesInv, WorkInv, LastInv, KnownInv
<1>2. CASE Conclude("unknown_after_send")
  BY <1>2, Concludes DEF Outcomes
<1>3. CASE \E out \in Outcomes : Decide(out)
  BY <1>3, Decides
<1>4. QED
  BY <1>1, <1>2, <1>3

LEMMA EBodyFails ==
    ASSUME ExchangeInv, BodyFails
    PROVE  ExchangeInv'
<1> USE DEF BodyFails
<1>1. CASE Conclude("unknown_after_send")
  BY <1>1, Concludes DEF Outcomes
<1>2. CASE \E out \in Outcomes : Decide(out)
  BY <1>2, Decides
<1>3. QED
  BY <1>1, <1>2

\* The provider may decide long after the adapter gave up; what it then
\* accepts belongs to a job that is not offered for retry.
LEMMA EProviderDecides ==
    ASSUME ExchangeInv, NEW a, ProviderDecides(a)
    PROVE  ExchangeInv'
<1> USE DEF ExchangeInv, ProviderDecides
<1>1. TypesInv' /\ WorkInv'
  BY DEF TypesInv, WorkInv
<1>2. a = row.attempt /\ pc \notin {"send", "body"} /\ ~Actionable(row.st) /\ row.st # "completed"
  BY DEF LastInv, KnownInv
<1>3. LastInv'
  BY <1>2 DEF LastInv
<1>4. KnownInv'
  BY <1>2 DEF KnownInv, Actionable
<1>5. QED
  BY <1>1, <1>3, <1>4

LEMMA EInit == Init => ExchangeInv
<1> SUFFICES ASSUME Init PROVE ExchangeInv
  OBVIOUS
<1>1. row \in Row /\ row.st = "accepted"
  BY BodyAssumption, AttemptAssumption DEF Init, accept, Row, Status
<1>2. QED
  BY <1>1 DEF Init, ExchangeInv, TypesInv, WorkInv, LastInv, KnownInv

LEMMA ENext == ExchangeInv /\ [Next]_exVars => ExchangeInv'
<1> SUFFICES ASSUME ExchangeInv, [Next]_exVars PROVE ExchangeInv'
  OBVIOUS
<1>1. ASSUME NEW code \in Statuses, NEW n \in Chunks \cup {0}, Response(code, n)
      PROVE  ExchangeInv'
  BY <1>1, EResponse, BodyAssumption
<1>2. ASSUME NEW out \in Outcomes, BodyEnds(out)
      PROVE  ExchangeInv'
  BY <1>2, Decides DEF BodyEnds
<1>3. CASE Over \/ UNCHANGED exVars
  BY <1>3 DEF Over, exVars, ExchangeInv, TypesInv, WorkInv, LastInv, KnownInv
<1>4. QED
  BY <1>1, <1>2, <1>3, ESubmit, ERejectsRequest, EConnectFails, ERequestLeaves, ENoResponse,
     EChunk, EBodyFails, EProviderDecides DEF Next

-----------------------------------------------------------------------------
(* ProviderExchange: the theorems *)

\* At every moment at most the last attempt has left the gateway, and a
\* response is read for what the provider did.
THEOREM ExchangeInvariance == Spec => []ExchangeInv
<1>1. QED
  BY EInit, ENext, PTL DEF Spec

\* No job is paid for twice, a job offered for retry has cost nothing and
\* cannot cost anything any more, and a completed job was paid for in its last
\* attempt and in no other, whatever statuses the provider answers with and
\* however late it accepts.
THEOREM AcceptanceIsKnown == Spec => []AcceptanceKnown
<1>1. ExchangeInv => AcceptanceKnown
  <2> SUFFICES ASSUME ExchangeInv PROVE AcceptanceKnown
    OBVIOUS
  <2>1. OnePaidAttempt
    <3>1. paid = {} \/ paid = {row.attempt}
      BY DEF ExchangeInv, LastInv
    <3>2. Cardinality({}) = 0 /\ Cardinality({row.attempt}) = 1
      BY FS_EmptySet, FS_Singleton
    <3>3. QED
      BY <3>1, <3>2 DEF OnePaidAttempt
  <2>2. RefusedIsUnpaid /\ CompletedIsPaid
    BY DEF ExchangeInv, KnownInv, RefusedIsUnpaid, CompletedIsPaid, Actionable
  <2>3. QED
    BY <2>1, <2>2 DEF AcceptanceKnown
<1>2. QED
  BY <1>1, ExchangeInvariance, PTL

-----------------------------------------------------------------------------
(* OggOpus: the inductive invariant *)

\* What the passes' locals hold.
AudioTypes ==
    /\ file \in {"reading", "accepted", "rejected"}
    /\ scan \in [pages : Nat, last : BOOLEAN, previous : Nat, final : Nat \cup {None}]
    /\ page \in Pages \cup {NoPage}
    /\ next \in Nat \ {0}
    /\ stage \in {"head", "tags", "audio"}
    /\ timing \in [pre_skip : Nat, packet_count : Nat, page_samples : Nat,
                   previous : Nat \cup {None}, saw_eos : BOOLEAN]
    /\ duration \in [samples : Int, millis : Int]
    /\ heard \in [total : Nat, before : Nat, packets : Nat]

\* The page that is being read has passed the first pass, which knows no end
\* but that of this page.
PageScanned ==
    /\ next <= Len(page.packets) + 1
    /\ GranulePresenceValid(page)
    /\ page.eos => page.last /\ page.granule # NO_GRANULE_POSITION
    /\ scan.last = page.last
    /\ scan.final = IF page.eos THEN page.granule ELSE None

\* Before the headers have been read nothing has been heard.
HeadersFirst ==
    stage # "audio" =>
        /\ heard.total = 0 /\ timing.packet_count = 0
        /\ timing.previous = None /\ ~timing.saw_eos

\* The end is seen with the last packet of the page that carries it.
EndSeen == stage = "audio" => timing.saw_eos = (page.eos /\ PageRead)

\* The position that the second pass has reached: before the packets of a page
\* that of the page before, within the page the samples since, and after the
\* page all samples, unless the last page trims some of its own.
Position ==
    /\ heard.packets = timing.packet_count
    /\ heard.before <= heard.total
    /\ next = 1 => heard.before = heard.total \/ PageRead
    /\ (stage = "audio" /\ ~PageRead) =>
            /\ heard.before = IF timing.previous = None THEN 0 ELSE timing.previous
            /\ next > 1 => timing.page_samples = heard.total - heard.before
    /\ (PageRead /\ ~page.eos) =>
            heard.total = IF timing.previous = None THEN 0 ELSE timing.previous
    /\ (stage = "audio" /\ PageRead /\ page.eos) =>
            /\ timing.previous = page.granule
            /\ page.granule <= heard.total
            /\ page.granule > heard.before \/ heard.before = 0

Reading == PageScanned /\ HeadersFirst /\ EndSeen /\ Position

AudioInv == AudioTypes /\ (file = "reading" => Reading) /\ DurationIsHeard

-----------------------------------------------------------------------------
(* OggOpus: facts about pages and packets *)

\* A page is a record of these fields, the one before the first page too.
LEMMA PageFields ==
    ASSUME NEW p \in Pages \cup {NoPage}
    PROVE  /\ p.packets \in Seq(Nat) /\ Len(p.packets) \in Nat
           /\ p.granule \in Nat \cup {NO_GRANULE_POSITION}
           /\ p.eos \in BOOLEAN /\ p.last \in BOOLEAN /\ p.bos \in BOOLEAN
<1>1. CASE p \in Pages
  <2>1. /\ p.packets \in Packets /\ p.granule \in Granules \cup {NO_GRANULE_POSITION}
        /\ p.eos \in BOOLEAN /\ p.last \in BOOLEAN /\ p.bos \in BOOLEAN
    BY <1>1 DEF Pages
  <2>2. p.packets \in Seq(Nat) /\ p.granule \in Nat \cup {NO_GRANULE_POSITION}
    BY <2>1, AudioAssumption
  <2>3. Len(p.packets) \in Nat
    BY <2>2
  <2>4. QED
    BY <2>1, <2>2, <2>3
<1>2. CASE p = NoPage
  BY <1>2 DEF NoPage, NO_GRANULE_POSITION
<1>3. QED
  BY <1>1, <1>2

\* The milliseconds of duration_millis are the fewest that hold the samples.
LEMMA MillisCeiling ==
    ASSUME NEW samples \in Nat
    PROVE  /\ duration_millis(samples) \in Int
           /\ samples * PerSecond <= duration_millis(samples) * Rate
           /\ (duration_millis(samples) - 1) * Rate < samples * PerSecond
<1> DEFINE x == samples * PerSecond
           y == x + Rate - 1
           q == y \div Rate
<1>1. Rate \in Nat /\ Rate > 0 /\ PerSecond \in Nat
  BY AudioAssumption
<1>2. x \in Nat
  BY <1>1
<1>3. duration_millis(samples) = q
  BY DEF duration_millis
<1> HIDE DEF x
<1>4. y \in Nat
  BY <1>1, <1>2
<1> HIDE DEF y
<1>5. q \in Int /\ q * Rate <= y /\ y < (q + 1) * Rate
  BY <1>1, <1>4
<1> HIDE DEF q
<1>6. (q + 1) * Rate = q * Rate + Rate /\ (q - 1) * Rate = q * Rate - Rate
  BY <1>1, <1>5
<1>7. y = x + Rate - 1
  BY DEF y
<1>8. q * Rate \in Int
  BY <1>1, <1>5
<1>9. x <= q * Rate /\ (q - 1) * Rate < x
  BY <1>1, <1>2, <1>4, <1>5, <1>6, <1>7, <1>8
<1>10. QED
  BY <1>3, <1>5, <1>9 DEF x

-----------------------------------------------------------------------------
(* OggOpus: the steps *)

LEMMA AudioStart == AudioInit => AudioInv
<1> SUFFICES ASSUME AudioInit PROVE AudioInv
  OBVIOUS
<1>1. AudioTypes
  BY DEF AudioInit, AudioTypes, NewTiming, None
<1>2. Reading
  BY DEF AudioInit, Reading, PageScanned, HeadersFirst, EndSeen, Position, PageRead, NewTiming,
         NoPage, GranulePresenceValid, NO_GRANULE_POSITION, None
<1>3. DurationIsHeard
  BY DEF AudioInit, DurationIsHeard, AudioBacksDuration, MillisHoldSamples, PassesAgree
<1>4. QED
  BY <1>1, <1>2, <1>3 DEF AudioInv

\* A rejection changes nothing but the verdict.
LEMMA RejectKeeps ==
    ASSUME AudioInv, NEW why, Reject(why), why \notin {"packets without an end", "passes disagree"}
    PROVE  AudioInv'
BY DEF AudioInv, AudioTypes, Reject, DurationIsHeard, AudioBacksDuration, MillisHoldSamples,
       PassesAgree

\* Nothing is said of the duration before the verdict.
LEMMA StillReading ==
    ASSUME AudioInv, file = "reading", UNCHANGED <<file, reason>>
    PROVE  DurationIsHeard'
BY DEF AudioInv, DurationIsHeard, AudioBacksDuration, MillisHoldSamples, PassesAgree

LEMMA PageStep == ASSUME AudioInv, Page PROVE AudioInv'
<1>1. PICK p \in Pages :
        IF PageFault(p) # "none" THEN Reject(PageFault(p))
        ELSE /\ page' = p /\ next' = 1 /\ scan' = scanned(p)
             /\ heard' = [heard EXCEPT !.before = heard.total]
             /\ UNCHANGED <<file, reason, stage, timing, duration>>
  BY DEF Page
<1>2. CASE PageFault(p) # "none"
  <2>1. PageFault(p) \notin {"packets without an end", "passes disagree"}
    BY DEF PageFault
  <2>2. Reject(PageFault(p))
    BY <1>1, <1>2
  <2>3. QED
    BY <2>1, <2>2, RejectKeeps
<1>3. CASE PageFault(p) = "none"
  <2>1. /\ page' = p /\ next' = 1 /\ scan' = scanned(p)
        /\ heard' = [heard EXCEPT !.before = heard.total]
        /\ UNCHANGED <<file, reason, stage, timing, duration>>
    BY <1>1, <1>3
  <2>2. GranulePresenceValid(p) /\ EndValid(p)
    BY <1>3 DEF PageFault
  <2>3. file = "reading" /\ PageRead /\ ~scan.last /\ AudioTypes /\ Reading
    BY DEF Page, AudioInv
  <2>4. /\ p.packets \in Seq(Nat) /\ Len(p.packets) \in Nat
        /\ p.granule \in Nat \cup {NO_GRANULE_POSITION}
        /\ p.eos \in BOOLEAN /\ p.last \in BOOLEAN
    BY PageFields
  <2>5. ~page.eos /\ scan.final = None
    BY <2>3, PageFields DEF Reading, PageScanned, AudioTypes
  <2>6. scan'.last = p.last /\ scan'.final = (IF p.eos THEN p.granule ELSE None)
    BY <2>1, <2>5 DEF scanned
  <2>7. AudioTypes'
    <3>1. scan' \in [pages : Nat, last : BOOLEAN, previous : Nat, final : Nat \cup {None}]
      BY <2>1, <2>2, <2>3, <2>4, <2>5 DEF scanned, AudioTypes, EndValid, NO_GRANULE_POSITION, None
    <3>2. heard' \in [total : Nat, before : Nat, packets : Nat]
      BY <2>1, <2>3 DEF AudioTypes
    <3>3. QED
      BY <2>1, <2>3, <3>1, <3>2 DEF AudioTypes
  <2>8. PageScanned'
    BY <2>1, <2>2, <2>4, <2>6 DEF PageScanned, GranulePresenceValid, EndValid
  <2>9. heard'.total = heard.total /\ heard'.before = heard.total /\ heard'.packets = heard.packets
    BY <2>1, <2>3 DEF AudioTypes
  <2>10. HeadersFirst'
    BY <2>1, <2>3, <2>9 DEF HeadersFirst, Reading
  <2>11. p.eos => Len(p.packets) > 0
    BY <2>2, <2>4 DEF GranulePresenceValid, EndValid
  <2>12. EndSeen'
    BY <2>1, <2>3, <2>4, <2>5, <2>11 DEF EndSeen, Reading, PageRead
  <2>13. heard.total = IF timing.previous = None THEN 0 ELSE timing.previous
    BY <2>3, <2>5 DEF Reading, Position
  <2>14. Position'
    <3>1. PageRead' <=> 1 > Len(p.packets)
      BY <2>1 DEF PageRead
    <3>2. heard.packets = timing.packet_count
      BY <2>3 DEF Reading, Position
    <3>3. heard.total \in Nat
      BY <2>3 DEF AudioTypes
    <3>4. QED
      BY <2>1, <2>4, <2>9, <2>11, <2>13, <3>1, <3>2, <3>3 DEF Position
  <2>15. QED
    BY <2>1, <2>3, <2>7, <2>8, <2>10, <2>12, <2>14, StillReading DEF AudioInv, Reading
<1>4. QED
  BY <1>2, <1>3

\* What the headers' packets change: they are the last of their pages.
LEMMA HeadStep == ASSUME AudioInv, HeadPacket PROVE AudioInv'
<1>1. \/ Reject("head")
      \/ \E skip \in PreSkips :
            /\ HeadValid /\ stage' = "tags" /\ timing' = NewTiming(skip) /\ next' = next + 1
            /\ UNCHANGED <<file, reason, scan, page, duration, heard>>
  BY DEF HeadPacket
<1>2. CASE Reject("head")
  BY <1>2, RejectKeeps
<1>3. ASSUME NEW skip \in PreSkips, HeadValid, stage' = "tags", timing' = NewTiming(skip),
             next' = next + 1, UNCHANGED <<file, reason, scan, page, duration, heard>>
      PROVE  AudioInv'
  <2>1. file = "reading" /\ stage = "head" /\ AudioTypes /\ Reading
    BY DEF HeadPacket, AudioInv
  <2>2. Len(page.packets) \in Nat /\ next = Len(page.packets) /\ ~page.eos
    BY <1>3, <2>1, PageFields DEF HeadValid, last_in_page, last_in_stream, AudioTypes
  <2>3. /\ timing'.packet_count = 0 /\ timing'.previous = None /\ timing'.saw_eos = FALSE
        /\ timing' \in [pre_skip : Nat, packet_count : Nat, page_samples : Nat,
                        previous : Nat \cup {None}, saw_eos : BOOLEAN]
    BY <1>3, AudioAssumption DEF NewTiming
  <2>4. heard.total = 0 /\ heard.packets = 0 /\ heard.before = 0
    BY <2>1 DEF Reading, HeadersFirst, Position, AudioTypes
  <2>5. AudioTypes'
    BY <1>3, <2>1, <2>3 DEF AudioTypes
  <2>6. PageScanned'
    BY <1>3, <2>1, <2>2 DEF Reading, PageScanned, GranulePresenceValid
  <2>7. HeadersFirst' /\ EndSeen'
    BY <1>3, <2>3, <2>4 DEF HeadersFirst, EndSeen
  <2>8. Position'
    BY <1>3, <2>2, <2>3, <2>4 DEF Position, PageRead
  <2>9. QED
    BY <1>3, <2>1, <2>5, <2>6, <2>7, <2>8, StillReading DEF AudioInv, Reading
<1>4. QED
  BY <1>1, <1>2, <1>3

LEMMA TagsStep == ASSUME AudioInv, TagsPacket PROVE AudioInv'
<1>1. \/ Reject("tags")
      \/ /\ TagsValid /\ stage' = "audio" /\ next' = next + 1
         /\ UNCHANGED <<file, reason, scan, page, timing, duration, heard>>
  BY DEF TagsPacket
<1>2. CASE Reject("tags")
  BY <1>2, RejectKeeps
<1>3. ASSUME TagsValid, stage' = "audio", next' = next + 1,
             UNCHANGED <<file, reason, scan, page, timing, duration, heard>>
      PROVE  AudioInv'
  <2>1. file = "reading" /\ stage = "tags" /\ AudioTypes /\ Reading
    BY DEF TagsPacket, AudioInv
  <2>2. Len(page.packets) \in Nat /\ next = Len(page.packets) /\ ~page.eos
    BY <1>3, <2>1, PageFields DEF TagsValid, last_in_page, last_in_stream, AudioTypes
  <2>3. /\ heard.total = 0 /\ timing.packet_count = 0
        /\ timing.previous = None /\ ~timing.saw_eos
    BY <2>1 DEF Reading, HeadersFirst
  <2>4. heard.packets = 0 /\ heard.before = 0
    BY <2>1, <2>3 DEF Reading, Position, AudioTypes
  <2>5. AudioTypes'
    BY <1>3, <2>1 DEF AudioTypes
  <2>6. PageScanned'
    BY <1>3, <2>1, <2>2 DEF Reading, PageScanned, GranulePresenceValid
  <2>7. timing.saw_eos = FALSE
    BY <2>1, <2>3 DEF AudioTypes
  <2>8. HeadersFirst' /\ EndSeen'
    BY <1>3, <2>2, <2>7 DEF HeadersFirst, EndSeen, PageRead
  <2>9. Position'
    BY <1>3, <2>2, <2>3, <2>4 DEF Position, PageRead
  <2>10. QED
    BY <1>3, <2>1, <2>5, <2>6, <2>8, <2>9, StillReading DEF AudioInv, Reading
<1>4. QED
  BY <1>1, <1>2, <1>3

\* AudioTiming::accept moves the position by the samples of the packet.
LEMMA PacketStep == ASSUME AudioInv, Packet PROVE AudioInv'
<1> DEFINE samples == page.packets[next]
           n == Len(page.packets)
<1>1. \/ Reject("packet") \/ Reject("granule")
      \/ /\ SamplesAccepted(samples)
         /\ last_in_page => PageGranuleValid(PageSamples(samples))
         /\ timing' = accepted(samples) /\ next' = next + 1
         /\ heard' = [heard EXCEPT !.total = @ + samples, !.packets = @ + 1]
         /\ UNCHANGED <<file, reason, scan, page, stage, duration>>
  BY DEF Packet
<1>2. CASE Reject("packet") \/ Reject("granule")
  BY <1>2, RejectKeeps
<1>3. ASSUME SamplesAccepted(samples), last_in_page => PageGranuleValid(PageSamples(samples)),
             timing' = accepted(samples), next' = next + 1,
             heard' = [heard EXCEPT !.total = @ + samples, !.packets = @ + 1],
             UNCHANGED <<file, reason, scan, page, stage, duration>>
      PROVE  AudioInv'
  <2> HIDE DEF samples
  <2>1. file = "reading" /\ stage = "audio" /\ ~PageRead /\ AudioTypes /\ Reading
    BY DEF Packet, AudioInv
  <2>2. /\ n \in Nat /\ next \in Nat /\ next >= 1 /\ next <= n
        /\ page.granule \in Nat \cup {NO_GRANULE_POSITION} /\ page.eos \in BOOLEAN
    BY <2>1, PageFields DEF AudioTypes, PageRead
  <2>3. page.granule \in Nat
    <3>1. page.packets # <<>>
      BY <2>2
    <3>2. QED
      BY <2>1, <2>2, <3>1 DEF Reading, PageScanned, GranulePresenceValid
  <2>4. samples \in Nat /\ samples >= 1
    BY <1>3, AudioAssumption DEF SamplesAccepted
  <2>5. /\ heard.total \in Nat /\ heard.before \in Nat /\ heard.packets \in Nat
        /\ timing.page_samples \in Nat /\ timing.packet_count \in Nat /\ timing.pre_skip \in Nat
        /\ timing.previous \in Nat \cup {None}
    BY <2>1 DEF AudioTypes
  <2>6. /\ heard.packets = timing.packet_count /\ heard.before <= heard.total
        /\ next = 1 => heard.before = heard.total
        /\ heard.before = IF timing.previous = None THEN 0 ELSE timing.previous
        /\ next > 1 => timing.page_samples = heard.total - heard.before
    BY <2>1 DEF Reading, Position
  <2>7. PageSamples(samples) = heard.total + samples - heard.before
    BY <2>2, <2>4, <2>5, <2>6 DEF PageSamples, first_in_page
  <2>8. /\ heard'.total = heard.total + samples /\ heard'.before = heard.before
        /\ heard'.packets = heard.packets + 1
    BY <1>3, <2>1 DEF AudioTypes
  <2>9. /\ timing'.pre_skip = timing.pre_skip
        /\ timing'.packet_count = timing.packet_count + 1
        /\ timing'.page_samples = PageSamples(samples)
        /\ timing'.previous = (IF last_in_page THEN page.granule ELSE timing.previous)
        /\ timing'.saw_eos = last_in_stream
    BY <1>3, <2>1 DEF accepted, AudioTypes
  <2>10. PageSamples(samples) \in Nat /\ last_in_stream \in BOOLEAN
    BY <2>2, <2>4, <2>5, <2>6, <2>7 DEF last_in_stream, last_in_page
  <2>11. timing' \in [pre_skip : Nat, packet_count : Nat, page_samples : Nat,
                      previous : Nat \cup {None}, saw_eos : BOOLEAN]
    <3> DEFINE ps == PageSamples(samples)
               end == IF last_in_page THEN page.granule ELSE timing.previous
               eos == last_in_stream
    <3>1. timing' = [timing EXCEPT !.page_samples = ps, !.packet_count = timing.packet_count + 1,
                                   !.previous = end, !.saw_eos = eos]
      BY <1>3 DEF accepted
    <3>2. ps \in Nat /\ end \in Nat \cup {None} /\ eos \in BOOLEAN
      BY <2>3, <2>5, <2>10
    <3> HIDE DEF ps, end, eos
    <3>3. timing' = [pre_skip |-> timing.pre_skip, packet_count |-> timing.packet_count + 1,
                     page_samples |-> ps, previous |-> end, saw_eos |-> eos]
      BY <2>1, <3>1, Zenon DEF AudioTypes
    <3>4. timing.packet_count + 1 \in Nat
      BY <2>5
    <3>5. QED
      BY <2>5, <3>2, <3>3, <3>4, Zenon
  <2>12. AudioTypes'
    <3>1. heard' \in [total : Nat, before : Nat, packets : Nat]
      <4>1. heard.total + samples \in Nat /\ heard.packets + 1 \in Nat
        BY <2>4, <2>5
      <4>2. QED
        BY <1>3, <2>1, <4>1 DEF AudioTypes
    <3>2. QED
      BY <1>3, <2>1, <2>11, <3>1 DEF AudioTypes
  <2>13. PageScanned'
    BY <1>3, <2>1, <2>2 DEF Reading, PageScanned, GranulePresenceValid
  <2>14. HeadersFirst'
    BY <1>3, <2>1 DEF HeadersFirst
  <2>15. PageRead' <=> last_in_page
    BY <1>3, <2>2 DEF PageRead, last_in_page
  <2>16. EndSeen'
    BY <1>3, <2>9, <2>15 DEF EndSeen, last_in_stream
  <2>17. Position'
    <3>1. CASE ~last_in_page
      BY <1>3, <2>2, <2>4, <2>5, <2>6, <2>7, <2>8, <2>9, <2>15, <3>1 DEF Position
    <3>2. CASE last_in_page /\ ~page.eos
      <4>1. page.granule = heard.total + samples
        BY <1>3, <2>2, <2>3, <2>4, <2>5, <2>6, <2>7, <3>2 DEF PageGranuleValid, last_in_stream, None
      <4>2. timing'.previous = page.granule /\ page.granule # None
        BY <2>3, <2>9, <3>2 DEF None
      <4>3. next' # 1
        BY <1>3, <2>2
      <4>4. QED
        BY <1>3, <2>2, <2>4, <2>5, <2>6, <2>8, <2>9, <2>15, <3>2, <4>1, <4>2, <4>3 DEF Position
    <3>3. CASE last_in_page /\ page.eos
      <4>1. page.granule <= heard.total + samples
        BY <1>3, <2>2, <2>3, <2>4, <2>5, <2>6, <2>7, <3>3 DEF PageGranuleValid, last_in_stream, None
      <4>2. page.granule > heard.before \/ heard.before = 0
        BY <1>3, <2>2, <2>3, <2>4, <2>5, <2>6, <2>7, <3>3 DEF PageGranuleValid, last_in_stream, None
      <4>3. timing'.previous = page.granule
        BY <2>9, <3>3
      <4>4. next' # 1
        BY <1>3, <2>2
      <4>5. QED
        BY <1>3, <2>2, <2>4, <2>5, <2>6, <2>8, <2>9, <2>15, <3>3, <4>1, <4>2, <4>3, <4>4 DEF Position
    <3>4. QED
      BY <3>1, <3>2, <3>3
  <2>18. QED
    BY <1>3, <2>1, <2>12, <2>13, <2>14, <2>16, <2>17, StillReading DEF AudioInv, Reading
<1>4. QED
  BY <1>1, <1>2, <1>3

\* At the end of the input the two passes cannot disagree, and what they agree
\* on is backed by audio.
LEMMA FinishStep == ASSUME AudioInv, Finish PROVE AudioInv'
<1> DEFINE wrong == CASE scan.final = None -> "missing end of stream"
                      [] stage # "audio"   -> "missing header"
                      [] OTHER             -> FinishFault
<1>1. IF wrong # "none" THEN Reject(wrong)
      ELSE /\ file' = "accepted" /\ duration' = finish
           /\ UNCHANGED <<reason, scan, page, next, stage, timing, heard>>
  BY DEF Finish
<1>2. file = "reading" /\ PageRead /\ AudioTypes /\ Reading
  BY DEF Finish, AudioInv
<1>3. scan.final # None /\ stage = "audio" =>
        /\ page.eos /\ scan.final = page.granule
        /\ timing.saw_eos /\ timing.previous = scan.final
        /\ scan.final <= heard.total
        /\ scan.final > heard.before \/ heard.before = 0
  <2>1. scan.final # None => page.eos /\ scan.final = page.granule
    BY <1>2 DEF Reading, PageScanned
  <2>2. stage = "audio" /\ page.eos => timing.saw_eos
    BY <1>2 DEF Reading, EndSeen
  <2>3. stage = "audio" /\ page.eos =>
            /\ timing.previous = page.granule
            /\ page.granule <= heard.total
            /\ page.granule > heard.before \/ heard.before = 0
    BY <1>2 DEF Reading, Position
  <2>4. QED
    BY <2>1, <2>2, <2>3
<1>4. CASE wrong # "none"
  <2>1. wrong \notin {"packets without an end", "passes disagree"}
    BY <1>3 DEF FinishFault
  <2> HIDE DEF wrong
  <2>2. QED
    BY <1>1, <1>4, <2>1, RejectKeeps
<1>5. CASE wrong = "none"
  <2>1. /\ file' = "accepted" /\ duration' = finish
        /\ UNCHANGED <<reason, scan, page, next, stage, timing, heard>>
    BY <1>1, <1>5
  <2>2. scan.final # None /\ stage = "audio" /\ FinishFault = "none"
    BY <1>5
  <2>3. ~(scan.final <= timing.pre_skip)
    BY <2>2 DEF FinishFault
  <2>4. /\ scan.final \in Nat /\ timing.pre_skip \in Nat /\ heard.total \in Nat
        /\ heard.before \in Nat
    BY <1>2, <2>2 DEF AudioTypes
  <2> DEFINE samples == scan.final - timing.pre_skip
  <2>5. samples \in Nat /\ samples > 0 /\ timing.pre_skip + samples = scan.final
    BY <2>3, <2>4
  <2>6. duration'.samples = samples /\ duration'.millis = duration_millis(samples)
        /\ duration' = [samples |-> samples, millis |-> duration_millis(samples)]
    BY <2>1 DEF finish
  <2> HIDE DEF samples
  <2>7. AudioTypes'
    BY <1>2, <2>1, <2>5, <2>6, MillisCeiling DEF AudioTypes
  <2>8. AudioBacksDuration'
    BY <1>3, <2>1, <2>2, <2>3, <2>4, <2>5, <2>6 DEF AudioBacksDuration
  <2>9. MillisHoldSamples'
    BY <2>5, <2>6, MillisCeiling DEF MillisHoldSamples
  <2>10. PassesAgree'
    BY <1>2, <1>3, <2>1, <2>2 DEF PassesAgree, AudioInv, DurationIsHeard, Reading, Position
  <2>11. QED
    BY <2>1, <2>7, <2>8, <2>9, <2>10 DEF AudioInv, DurationIsHeard
<1>6. QED
  BY <1>4, <1>5

LEMMA AudioStep == AudioInv /\ [AudioNext]_audioVars => AudioInv'
<1> SUFFICES ASSUME AudioInv, [AudioNext]_audioVars PROVE AudioInv'
  OBVIOUS
<1>1. CASE UNCHANGED audioVars
  <2>1. AudioTypes'
    BY <1>1 DEF AudioInv, AudioTypes, audioVars
  <2>2. file = "reading" => PageScanned'
    BY <1>1 DEF AudioInv, Reading, PageScanned, GranulePresenceValid, audioVars
  <2>3. file = "reading" => HeadersFirst' /\ EndSeen' /\ Position'
    BY <1>1 DEF AudioInv, Reading, HeadersFirst, EndSeen, Position, PageRead, audioVars
  <2>4. DurationIsHeard'
    BY <1>1 DEF AudioInv, DurationIsHeard, AudioBacksDuration, MillisHoldSamples, PassesAgree,
       audioVars
  <2>5. QED
    BY <1>1, <2>1, <2>2, <2>3, <2>4 DEF AudioInv, Reading, audioVars
<1>2. CASE Page
  BY <1>2, PageStep
<1>3. CASE BadContainer
  BY <1>3, RejectKeeps DEF BadContainer
<1>4. CASE HeadPacket
  BY <1>4, HeadStep
<1>5. CASE TagsPacket
  BY <1>5, TagsStep
<1>6. CASE Packet
  BY <1>6, PacketStep
<1>7. CASE Finish
  BY <1>7, FinishStep
<1>8. QED
  BY <1>1, <1>2, <1>3, <1>4, <1>5, <1>6, <1>7 DEF AudioNext, Returned

\* The duration a file is accepted with is that of its audio: it is backed by
\* the samples of its packets and trims nothing but the last page, its
\* milliseconds are the fewest that hold it, and the two passes of
\* validate_complete_ogg_opus never disagree on where the stream ends.
THEOREM DurationIsOfTheAudio == AudioSpec => []DurationIsHeard
<1>1. AudioInv => DurationIsHeard
  BY DEF AudioInv
<1>2. QED
  BY <1>1, AudioStart, AudioStep, PTL DEF AudioSpec

-----------------------------------------------------------------------------
(* The order of texts *)

\* The first n numbers agree and then s ends or has the smaller one.
Less(s, t, n) ==
    /\ n <= Len(s) /\ n < Len(t)
    /\ \A i \in 1 .. n : s[i] = t[i]
    /\ n = Len(s) \/ (n < Len(s) /\ s[n + 1] < t[n + 1])

\* Before, without subsequences.
LEMMA BeforeMeans ==
    ASSUME NEW s \in Seq(Int), NEW t \in Seq(Int)
    PROVE  Before(s, t) <=> \E n \in Nat : Less(s, t, n)
<1>1. Len(s) \in Nat /\ Len(t) \in Nat
  OBVIOUS
<1>2. ASSUME NEW n \in Nat, n <= Len(s), n <= Len(t)
      PROVE  SubSeq(s, 1, n) = SubSeq(t, 1, n) <=> \A i \in 1 .. n : s[i] = t[i]
  <2>1. /\ SubSeq(s, 1, n) = [i \in 1 .. n |-> s[i]]
        /\ SubSeq(t, 1, n) = [i \in 1 .. n |-> t[i]]
    BY <1>1, <1>2
  <2>2. QED
    BY <2>1
<1>3. ASSUME Before(s, t) PROVE \E n \in Nat : Less(s, t, n)
  <2>1. PICK n \in 0 .. Len(s) :
            /\ n <= Len(t) /\ SubSeq(s, 1, n) = SubSeq(t, 1, n)
            /\ \/ n = Len(s) /\ n < Len(t)
               \/ n < Len(s) /\ n < Len(t) /\ s[n + 1] < t[n + 1]
    BY <1>3 DEF Before
  <2>2. n \in Nat /\ n <= Len(s)
    BY <1>1
  <2>3. \A i \in 1 .. n : s[i] = t[i]
    BY <1>2, <2>1, <2>2
  <2>4. QED
    BY <2>1, <2>2, <2>3 DEF Less
<1>4. ASSUME NEW n \in Nat, Less(s, t, n) PROVE Before(s, t)
  <2>1. n \in 0 .. Len(s) /\ n <= Len(t)
    BY <1>1, <1>4 DEF Less
  <2>2. SubSeq(s, 1, n) = SubSeq(t, 1, n)
    BY <1>1, <1>2, <1>4 DEF Less
  <2>3. QED
    BY <1>4, <2>1, <2>2 DEF Less, Before
<1>5. QED
  BY <1>3, <1>4

\* Before is a strict total order.
LEMMA BeforeIrreflexive == ASSUME NEW s \in Seq(Int) PROVE ~Before(s, s)
<1>1. SUFFICES ASSUME NEW n \in Nat, Less(s, s, n) PROVE FALSE
  BY BeforeMeans
<1>2. Len(s) \in Nat /\ n < Len(s) /\ s[n + 1] < s[n + 1]
  BY <1>1 DEF Less
<1>3. n + 1 \in 1 .. Len(s)
  BY <1>2
<1>4. s[n + 1] \in Int
  BY <1>3
<1>5. QED
  BY <1>2, <1>4

LEMMA BeforeTransitive ==
    ASSUME NEW s \in Seq(Int), NEW t \in Seq(Int), NEW u \in Seq(Int), Before(s, t), Before(t, u)
    PROVE  Before(s, u)
<1>1. PICK n \in Nat : Less(s, t, n)
  BY BeforeMeans
<1>2. PICK m \in Nat : Less(t, u, m)
  BY BeforeMeans
<1>3. /\ Len(s) \in Nat /\ Len(t) \in Nat /\ Len(u) \in Nat
      /\ \A i \in 1 .. Len(s) : s[i] \in Int
      /\ \A i \in 1 .. Len(t) : t[i] \in Int
      /\ \A i \in 1 .. Len(u) : u[i] \in Int
  OBVIOUS
<1>4. CASE n < m
  <2>1. n <= Len(s) /\ n < Len(u) /\ \A i \in 1 .. n : s[i] = u[i]
    BY <1>1, <1>2, <1>3, <1>4 DEF Less
  <2>2. n + 1 \in 1 .. m
    BY <1>4
  <2>3. t[n + 1] = u[n + 1]
    BY <1>2, <2>2 DEF Less
  <2>4. Less(s, u, n)
    BY <1>1, <2>1, <2>3 DEF Less
  <2>5. QED
    BY <2>4, BeforeMeans
<1>5. CASE n = m
  <2>1. n <= Len(s) /\ n < Len(u) /\ \A i \in 1 .. n : s[i] = u[i]
    BY <1>1, <1>2, <1>3, <1>5 DEF Less
  <2>2. CASE n < Len(s)
    <3>1. n < Len(t) /\ s[n + 1] < t[n + 1] /\ t[n + 1] < u[n + 1]
      BY <1>1, <1>2, <1>3, <1>5, <2>2 DEF Less
    <3>2. s[n + 1] \in Int /\ t[n + 1] \in Int /\ u[n + 1] \in Int
      <4>1. n + 1 \in 1 .. Len(s) /\ n + 1 \in 1 .. Len(t) /\ n + 1 \in 1 .. Len(u)
        BY <1>3, <2>1, <2>2, <3>1
      <4>2. QED
        BY <1>3, <4>1
    <3>3. Less(s, u, n)
      BY <2>1, <2>2, <3>1, <3>2 DEF Less
    <3>4. QED
      BY <3>3, BeforeMeans
  <2>3. CASE n = Len(s)
    <3>1. Less(s, u, n)
      BY <2>1, <2>3 DEF Less
    <3>2. QED
      BY <3>1, BeforeMeans
  <2>4. QED
    BY <1>3, <2>1, <2>2, <2>3
<1>6. CASE m < n
  <2>1. m < Len(s) /\ m < Len(t) /\ m < Len(u) /\ t[m + 1] < u[m + 1] /\ \A i \in 1 .. m : s[i] = u[i]
    BY <1>1, <1>2, <1>3, <1>6 DEF Less
  <2>2. m + 1 \in 1 .. n
    BY <1>6
  <2>3. s[m + 1] = t[m + 1]
    BY <1>1, <2>2 DEF Less
  <2>4. Less(s, u, m)
    BY <1>3, <2>1, <2>3 DEF Less
  <2>5. QED
    BY <2>4, BeforeMeans
<1>7. QED
  BY <1>4, <1>5, <1>6

LEMMA BeforeTotal ==
    ASSUME NEW s \in Seq(Int), NEW t \in Seq(Int), s # t
    PROVE  Before(s, t) \/ Before(t, s)
<1> DEFINE T == {i \in Nat : i + 1 <= Len(s) /\ i + 1 <= Len(t) /\ s[i + 1] # t[i + 1]}
<1>1. /\ Len(s) \in Nat /\ Len(t) \in Nat
      /\ \A i \in 1 .. Len(s) : s[i] \in Int
      /\ \A i \in 1 .. Len(t) : t[i] \in Int
  OBVIOUS
<1>2. CASE T # {}
  <2>1. PICK n \in T : \A k \in T : n <= k
    <3>1. T \in SUBSET Nat
      OBVIOUS
    <3> HIDE DEF T
    <3>2. QED
      BY <1>2, <3>1, LeastMember
  <2>2. n \in Nat /\ n < Len(s) /\ n < Len(t) /\ s[n + 1] # t[n + 1]
    BY <1>1
  <2>3. ASSUME NEW i \in 1 .. n PROVE s[i] = t[i]
    <3>1. i - 1 \in Nat /\ (i - 1) + 1 = i /\ ~(n <= i - 1) /\ i <= Len(s) /\ i <= Len(t)
      BY <1>1, <2>2
    <3>2. i - 1 \notin T
      BY <2>1, <3>1
    <3>3. QED
      BY <3>1, <3>2
  <2>4. n + 1 \in 1 .. Len(s) /\ n + 1 \in 1 .. Len(t)
    BY <1>1, <2>2
  <2>5. s[n + 1] \in Int /\ t[n + 1] \in Int
    BY <1>1, <2>4
  <2> HIDE DEF T
  <2>6. s[n + 1] < t[n + 1] \/ t[n + 1] < s[n + 1]
    BY <2>2, <2>5
  <2>7. Less(s, t, n) \/ Less(t, s, n)
    BY <1>1, <2>2, <2>3, <2>6 DEF Less
  <2>8. QED
    BY <2>2, <2>7, BeforeMeans
<1>3. CASE T = {}
  <2>1. ASSUME NEW i \in Nat, i >= 1, i <= Len(s), i <= Len(t) PROVE s[i] = t[i]
    <3>1. i - 1 \in Nat /\ (i - 1) + 1 = i
      BY <2>1
    <3>2. i - 1 \notin T
      BY <1>3
    <3>3. QED
      BY <2>1, <3>1, <3>2
  <2>2. Len(s) # Len(t)
    <3> SUFFICES ASSUME Len(s) = Len(t) PROVE s = t
      OBVIOUS
    <3>1. \A i \in 1 .. Len(s) : s[i] = t[i]
      BY <1>1, <2>1
    <3>2. QED
      BY <3>1
  <2>3. CASE Len(s) < Len(t)
    <3>1. Less(s, t, Len(s))
      BY <1>1, <2>1, <2>3 DEF Less
    <3>2. QED
      BY <1>1, <3>1, BeforeMeans
  <2>4. CASE Len(t) < Len(s)
    <3>1. Less(t, s, Len(t))
      BY <1>1, <2>1, <2>4 DEF Less
    <3>2. QED
      BY <1>1, <3>1, BeforeMeans
  <2>5. QED
    BY <1>1, <2>2, <2>3, <2>4
<1>4. QED
  BY <1>2, <1>3

Beneath(S, R, x) == {z \in S : <<z, x>> \in R}

\* A strict total order on a finite set gives each member a rank, the number
\* of members before it.
LEMMA Ranking ==
    ASSUME NEW S, IsFiniteSet(S), NEW R,
           \A x \in S : <<x, x>> \notin R,
           \A x, y, z \in S : <<x, y>> \in R /\ <<y, z>> \in R => <<x, z>> \in R,
           \A x, y \in S : x # y => <<x, y>> \in R \/ <<y, x>> \in R
    PROVE  /\ Cardinality(S) \in Nat
           /\ \A n \in 1 .. Cardinality(S) :
                \E x \in S : Cardinality(Beneath(S, R, x)) = n - 1
           /\ \A x \in S : \E n \in 1 .. Cardinality(S) :
                Cardinality(Beneath(S, R, x)) = n - 1
           /\ \A x, y \in S :
                <<x, y>> \in R <=> Cardinality(Beneath(S, R, x))
                                        < Cardinality(Beneath(S, R, y))
<1> DEFINE rank == [x \in S |-> Cardinality(Beneath(S, R, x)) + 1]
           n == Cardinality(S)
<1>1. n \in Nat
  BY FS_CardinalityType
<1>2. \A x \in S : IsFiniteSet(Beneath(S, R, x)) /\ Cardinality(Beneath(S, R, x)) \in Nat /\ rank[x] \in 1 .. n
  <2> SUFFICES ASSUME NEW x \in S
               PROVE IsFiniteSet(Beneath(S, R, x)) /\ Cardinality(Beneath(S, R, x)) \in Nat /\ rank[x] \in 1 .. n
    OBVIOUS
  <2>1. Beneath(S, R, x) \in SUBSET S /\ Beneath(S, R, x) # S
    BY DEF Beneath
  <2>2. /\ IsFiniteSet(Beneath(S, R, x)) /\ Cardinality(Beneath(S, R, x)) <= n /\ Cardinality(Beneath(S, R, x)) # n
        /\ Cardinality(Beneath(S, R, x)) \in Nat
    BY <2>1, FS_Subset, FS_CardinalityType
  <2>3. rank[x] = Cardinality(Beneath(S, R, x)) + 1
    OBVIOUS
  <2> HIDE DEF rank, n
  <2>4. QED
    BY <1>1, <2>2, <2>3
<1>3. \A x \in S : rank[x] = Cardinality(Beneath(S, R, x)) + 1
  OBVIOUS
<1>4. ASSUME NEW x \in S, NEW y \in S, <<x, y>> \in R
      PROVE  Cardinality(Beneath(S, R, x)) < Cardinality(Beneath(S, R, y))
  <2>1. Beneath(S, R, x) \in SUBSET Beneath(S, R, y) /\ x \in Beneath(S, R, y) /\ x \notin Beneath(S, R, x)
    BY <1>4 DEF Beneath
  <2>2. IsFiniteSet(Beneath(S, R, y)) /\ Cardinality(Beneath(S, R, x)) \in Nat /\ Cardinality(Beneath(S, R, y)) \in Nat
    BY <1>2
  <2>3. Cardinality(Beneath(S, R, x)) <= Cardinality(Beneath(S, R, y)) /\ Cardinality(Beneath(S, R, x)) # Cardinality(Beneath(S, R, y))
    BY <2>1, <2>2, FS_Subset
  <2>4. QED
    BY <2>2, <2>3
<1>5. ASSUME NEW x \in S, NEW y \in S, Cardinality(Beneath(S, R, x)) < Cardinality(Beneath(S, R, y))
      PROVE  <<x, y>> \in R
  <2>1. Cardinality(Beneath(S, R, x)) \in Nat /\ Cardinality(Beneath(S, R, y)) \in Nat
    BY <1>2
  <2>2. x # y /\ ~(Cardinality(Beneath(S, R, y)) < Cardinality(Beneath(S, R, x)))
    BY <1>5, <2>1
  <2>3. <<y, x>> \notin R
    BY <1>4, <2>2
  <2>4. QED
    BY <2>2, <2>3
<1> HIDE DEF rank, n
<1>6. rank \in [S -> 1 .. n]
  <2>1. rank = [x \in S |-> rank[x]]
    BY DEF rank
  <2>2. QED
    BY <1>2, <2>1
<1>7. \A x, y \in S : rank[x] = rank[y] => x = y
  <2> SUFFICES ASSUME NEW x \in S, NEW y \in S, rank[x] = rank[y], x # y PROVE FALSE
    OBVIOUS
  <2>1. Cardinality(Beneath(S, R, x)) \in Nat /\ Cardinality(Beneath(S, R, y)) \in Nat
    BY <1>2
  <2>2. Cardinality(Beneath(S, R, x)) = Cardinality(Beneath(S, R, y))
    BY <1>3, <2>1
  <2>3. Cardinality(Beneath(S, R, x)) < Cardinality(Beneath(S, R, y)) \/ Cardinality(Beneath(S, R, y)) < Cardinality(Beneath(S, R, x))
    BY <1>4
  <2>4. QED
    BY <2>1, <2>2, <2>3
<1>8. rank \in Surjection(S, 1 .. n)
  <2>1. rank \in Injection(S, 1 .. n)
    BY <1>6, <1>7 DEF Injection, IsInjective
  <2>2. IsFiniteSet(1 .. n) /\ Cardinality(1 .. n) = n
    BY <1>1, FS_Interval
  <2>3. QED
    BY <2>1, <2>2, FS_Injection DEF n
<1>9. \A i \in 1 .. n : \E x \in S : rank[x] = i
  BY <1>8 DEF Surjection
<1>10. \A i \in 1 .. n : \E x \in S : Cardinality(Beneath(S, R, x)) = i - 1
  <2>1. ASSUME NEW i \in 1 .. n PROVE \E x \in S : Cardinality(Beneath(S, R, x)) = i - 1
    <3>1. PICK x \in S : rank[x] = i
      BY <1>9
    <3>2. i \in Nat /\ Cardinality(Beneath(S, R, x)) \in Nat /\ i = Cardinality(Beneath(S, R, x)) + 1
      BY <1>1, <1>2, <1>3, <3>1
    <3>3. QED
      BY <3>2
  <2>2. QED
    BY <2>1
<1>11. \A x \in S : \E i \in 1 .. n : Cardinality(Beneath(S, R, x)) = i - 1
  <2>1. ASSUME NEW x \in S PROVE rank[x] \in 1 .. n /\ Cardinality(Beneath(S, R, x)) = rank[x] - 1
    BY <1>1, <1>2, <1>3
  <2>2. QED
    BY <2>1
<1>12. QED
  BY <1>1, <1>4, <1>5, <1>10, <1>11 DEF n

\* Sorted lists a finite set of texts, each once and in ascending order.
LEMMA SortedUtf16 ==
    ASSUME NEW S \in SUBSET Seq(Scalars), IsFiniteSet(S),
           NEW L, L = Sorted(S, compare_utf16), NEW n, n = Cardinality(S),
           \A s, t \in S : Utf16Units(s) \in Seq(Int) /\ (Utf16Units(s) = Utf16Units(t) => s = t)
    PROVE  /\ n \in Nat /\ DOMAIN L = 1 .. n
           /\ \A i \in 1 .. n : L[i] \in S
           /\ \A x \in S : \E i \in 1 .. n : L[i] = x
           /\ \A i, j \in 1 .. n : i < j => compare_utf16(L[i], L[j])
<1> DEFINE R == {p \in S \X S : compare_utf16(p[1], p[2])}
           rank(x) == Cardinality({z \in S : compare_utf16(z, x)})
<1>1. \A x, y \in S : <<x, y>> \in R <=> compare_utf16(x, y)
  OBVIOUS
<1>2. /\ \A x \in S : <<x, x>> \notin R
      /\ \A x, y, z \in S : <<x, y>> \in R /\ <<y, z>> \in R => <<x, z>> \in R
      /\ \A x, y \in S : x # y => <<x, y>> \in R \/ <<y, x>> \in R
  <2> HIDE DEF R
  <2>1. \A x \in S : <<x, x>> \notin R
    BY <1>1, BeforeIrreflexive DEF compare_utf16
  <2>2. \A x, y, z \in S : <<x, y>> \in R /\ <<y, z>> \in R => <<x, z>> \in R
    BY <1>1, BeforeTransitive DEF compare_utf16
  <2>3. \A x, y \in S : x # y => <<x, y>> \in R \/ <<y, x>> \in R
    BY <1>1, BeforeTotal DEF compare_utf16
  <2>4. QED
    BY <2>1, <2>2, <2>3
<1>3. \A x \in S : Beneath(S, R, x) = {z \in S : compare_utf16(z, x)}
  BY <1>1 DEF Beneath
<1>4. \A x \in S : Cardinality(Beneath(S, R, x)) = rank(x)
  BY <1>3
<1> HIDE DEF R
<1>5. /\ n \in Nat
      /\ \A i \in 1 .. n : \E x \in S : Cardinality(Beneath(S, R, x)) = i - 1
      /\ \A x \in S : \E i \in 1 .. n : Cardinality(Beneath(S, R, x)) = i - 1
      /\ \A x, y \in S : <<x, y>> \in R <=> Cardinality(Beneath(S, R, x))
                                                < Cardinality(Beneath(S, R, y))
  <2>1. /\ Cardinality(S) \in Nat
        /\ \A i \in 1 .. Cardinality(S) : \E x \in S : Cardinality(Beneath(S, R, x)) = i - 1
        /\ \A x \in S : \E i \in 1 .. Cardinality(S) : Cardinality(Beneath(S, R, x)) = i - 1
    BY <1>2, Ranking
  <2>2. \A x, y \in S : <<x, y>> \in R <=> Cardinality(Beneath(S, R, x))
                                                < Cardinality(Beneath(S, R, y))
    BY <1>2, Ranking
  <2>3. QED
    BY <2>1, <2>2
<1>6. L = [i \in 1 .. n |-> CHOOSE x \in S : rank(x) = i - 1]
  BY DEF Sorted
<1> HIDE DEF rank
<1>7. /\ \A i \in 1 .. n : \E x \in S : rank(x) = i - 1
      /\ \A x \in S : \E i \in 1 .. n : rank(x) = i - 1
      /\ \A x, y \in S : compare_utf16(x, y) <=> rank(x) < rank(y)
  BY <1>1, <1>4, <1>5
<1>8. DOMAIN L = 1 .. n /\ \A i \in 1 .. n : L[i] \in S /\ rank(L[i]) = i - 1
  BY <1>6, <1>7
<1>9. ASSUME NEW x \in S PROVE \E i \in 1 .. n : L[i] = x
  <2>1. PICK i \in 1 .. n : rank(x) = i - 1
    BY <1>7
  <2>2. L[i] \in S /\ rank(L[i]) = rank(x) /\ i - 1 \in Nat
    BY <1>5, <1>8, <2>1
  <2>3. ~(rank(L[i]) < rank(x)) /\ ~(rank(x) < rank(L[i]))
    BY <2>1, <2>2
  <2>4. L[i] = x
    <3> SUFFICES ASSUME L[i] # x PROVE FALSE
      OBVIOUS
    <3>1. <<L[i], x>> \in R \/ <<x, L[i]>> \in R
      BY <1>2, <2>2
    <3>2. QED
      BY <1>1, <1>7, <2>2, <2>3, <3>1
  <2>5. QED
    BY <2>4
<1>10. ASSUME NEW i \in 1 .. n, NEW j \in 1 .. n, i < j PROVE compare_utf16(L[i], L[j])
  <2>1. L[i] \in S /\ L[j] \in S /\ rank(L[i]) < rank(L[j])
    BY <1>5, <1>8, <1>10
  <2>2. QED
    BY <1>7, <2>1
<1>11. QED
  BY <1>5, <1>8, <1>9, <1>10

\* The same in the order of the texts themselves.
LEMMA SortedStr ==
    ASSUME NEW S \in SUBSET Seq(Int), IsFiniteSet(S),
           NEW L, L = Sorted(S, compare_str), NEW n, n = Cardinality(S)
    PROVE  /\ n \in Nat /\ DOMAIN L = 1 .. n
           /\ \A i \in 1 .. n : L[i] \in S
           /\ \A i, j \in 1 .. n : L[i] = L[j] => i = j
<1> DEFINE R == {p \in S \X S : compare_str(p[1], p[2])}
           rank(x) == Cardinality({z \in S : compare_str(z, x)})
<1>1. \A x, y \in S : <<x, y>> \in R <=> compare_str(x, y)
  OBVIOUS
<1>2. /\ \A x \in S : <<x, x>> \notin R
      /\ \A x, y, z \in S : <<x, y>> \in R /\ <<y, z>> \in R => <<x, z>> \in R
      /\ \A x, y \in S : x # y => <<x, y>> \in R \/ <<y, x>> \in R
  <2> HIDE DEF R
  <2>0. \A x \in S : x \in Seq(Int)
    OBVIOUS
  <2>1. \A x \in S : <<x, x>> \notin R
    BY <1>1, <2>0, BeforeIrreflexive DEF compare_str
  <2>2. \A x, y, z \in S : <<x, y>> \in R /\ <<y, z>> \in R => <<x, z>> \in R
    BY <1>1, <2>0, BeforeTransitive DEF compare_str
  <2>3. \A x, y \in S : x # y => <<x, y>> \in R \/ <<y, x>> \in R
    BY <1>1, <2>0, BeforeTotal DEF compare_str
  <2>4. QED
    BY <2>1, <2>2, <2>3
<1>3. \A x \in S : Beneath(S, R, x) = {z \in S : compare_str(z, x)}
  BY <1>1 DEF Beneath
<1>4. \A x \in S : Cardinality(Beneath(S, R, x)) = rank(x)
  BY <1>3
<1> HIDE DEF R
<1>5. /\ n \in Nat
      /\ \A i \in 1 .. n : \E x \in S : Cardinality(Beneath(S, R, x)) = i - 1
  BY <1>2, Ranking
<1>6. L = [i \in 1 .. n |-> CHOOSE x \in S : rank(x) = i - 1]
  BY DEF Sorted
<1> HIDE DEF rank
<1>7. \A i \in 1 .. n : \E x \in S : rank(x) = i - 1
  BY <1>4, <1>5
<1>8. DOMAIN L = 1 .. n /\ \A i \in 1 .. n : L[i] \in S /\ rank(L[i]) = i - 1
  BY <1>6, <1>7
<1>9. \A i, j \in 1 .. n : L[i] = L[j] => i = j
  BY <1>5, <1>8
<1>10. QED
  BY <1>5, <1>8, <1>9

-----------------------------------------------------------------------------
(* What a fingerprint tells *)

Framed == {write_part(s) : s \in Seq(Int)}

\* A part is its length and its content.
LEMMA PartsAreFramed ==
    ASSUME NEW s \in Seq(Int)
    PROVE  /\ write_part(s) \in Seq(Int) /\ write_part(s) # <<>>
           /\ Len(write_part(s)) = Len(s) + 1 /\ write_part(s)[1] = Len(s)
           /\ \A i \in 1 .. Len(s) : write_part(s)[i + 1] = s[i]
<1> DEFINE h == <<Len(s)>>
<1>1. Len(s) \in Nat /\ h \in Seq(Int) /\ Len(h) = 1 /\ h[1] = Len(s)
  OBVIOUS
<1>2. write_part(s) = h \o s
  BY DEF write_part
<1> HIDE DEF h
<1>3. /\ h \o s \in Seq(Int) /\ Len(h \o s) = Len(h) + Len(s)
      /\ \A i \in 1 .. Len(h) + Len(s) : (h \o s)[i] = IF i <= Len(h) THEN h[i] ELSE s[i - Len(h)]
  BY <1>1, ConcatProperties
<1> DEFINE w == write_part(s)
<1>4. /\ w \in Seq(Int) /\ Len(w) = Len(s) + 1
      /\ \A i \in 1 .. 1 + Len(s) : w[i] = IF i <= 1 THEN h[i] ELSE s[i - 1]
  BY <1>1, <1>2, <1>3
<1> HIDE DEF w
<1>5. w # <<>>
  BY <1>1, <1>4
<1>6. w[1] = Len(s)
  BY <1>1, <1>4
<1>7. \A i \in 1 .. Len(s) : w[i + 1] = s[i]
  <2> SUFFICES ASSUME NEW i \in 1 .. Len(s) PROVE w[i + 1] = s[i]
    OBVIOUS
  <2>1. i + 1 \in 1 .. 1 + Len(s) /\ ~(i + 1 <= 1) /\ i + 1 - 1 = i
    BY <1>1
  <2>2. QED
    BY <1>4, <2>1
<1>8. QED
  BY <1>4, <1>5, <1>6, <1>7 DEF w

\* Parts tell their content, and nothing that starts with one starts with another.
LEMMA FramedIsPrefixFree == PrefixFree(Framed)
<1>1. Framed \subseteq Seq(Int) \ {<<>>}
  BY PartsAreFramed DEF Framed
<1>2. ASSUME NEW s \in Seq(Int), NEW t \in Seq(Int), NEW x \in Seq(Int), NEW y \in Seq(Int),
             write_part(s) \o x = write_part(t) \o y
      PROVE  s = t
  <2> DEFINE p == write_part(s)
             q == write_part(t)
  <2>1. /\ p \in Seq(Int) /\ Len(p) = Len(s) + 1 /\ p[1] = Len(s)
        /\ \A i \in 1 .. Len(s) : p[i + 1] = s[i]
    BY PartsAreFramed
  <2>2. /\ q \in Seq(Int) /\ Len(q) = Len(t) + 1 /\ q[1] = Len(t)
        /\ \A i \in 1 .. Len(t) : q[i + 1] = t[i]
    BY PartsAreFramed
  <2>3. p \o x = q \o y
    BY <1>2
  <2> HIDE DEF p, q
  <2>4. \A i \in 1 .. Len(p) + Len(x) : (p \o x)[i] = IF i <= Len(p) THEN p[i] ELSE x[i - Len(p)]
    BY <2>1, ConcatProperties
  <2>5. \A i \in 1 .. Len(q) + Len(y) : (q \o y)[i] = IF i <= Len(q) THEN q[i] ELSE y[i - Len(q)]
    BY <2>2, ConcatProperties
  <2>6. Len(s) \in Nat /\ Len(t) \in Nat /\ Len(x) \in Nat /\ Len(y) \in Nat
    OBVIOUS
  <2>7. /\ \A i \in 1 .. Len(p) : (p \o x)[i] = p[i]
        /\ \A i \in 1 .. Len(q) : (q \o y)[i] = q[i]
    BY <2>1, <2>2, <2>4, <2>5, <2>6
  <2> DEFINE z == p \o x
  <2>8. /\ \A i \in 1 .. Len(p) : z[i] = p[i]
        /\ \A i \in 1 .. Len(q) : z[i] = q[i]
    BY <2>3, <2>7
  <2> HIDE DEF z
  <2>9. Len(s) = Len(t)
    <3>1. 1 \in 1 .. Len(p) /\ 1 \in 1 .. Len(q)
      BY <2>1, <2>2, <2>6
    <3>2. QED
      BY <2>1, <2>2, <2>8, <3>1
  <2>10. \A i \in 1 .. Len(s) : s[i] = t[i]
    <3> SUFFICES ASSUME NEW i \in 1 .. Len(s) PROVE s[i] = t[i]
      OBVIOUS
    <3>1. i + 1 \in 1 .. Len(p) /\ i + 1 \in 1 .. Len(q) /\ i \in 1 .. Len(t)
      <4>1. i \in Nat /\ 1 <= i /\ i <= Len(s)
        BY <2>6
      <4>2. Len(p) = Len(s) + 1 /\ Len(q) = Len(t) + 1
        BY <2>1, <2>2
      <4>3. QED
        BY <2>6, <2>9, <4>1, <4>2
    <3>2. z[i + 1] = p[i + 1] /\ z[i + 1] = q[i + 1]
      BY <2>8, <3>1
    <3>3. p[i + 1] = s[i] /\ q[i + 1] = t[i]
      BY <2>1, <2>2, <3>1
    <3>4. QED
      BY <3>2, <3>3
  <2>11. QED
    BY <2>9, <2>10, SeqEqual
<1>3. \A p, q \in Framed : \A x, y \in Seq(Int) : p \o x = q \o y => p = q
  BY <1>2 DEF Framed
<1>4. QED
  BY <1>1, <1>3 DEF PrefixFree

LEMMA PartsTell ==
    ASSUME NEW s \in Seq(Int), NEW t \in Seq(Int), write_part(s) = write_part(t)
    PROVE  s = t
<1> DEFINE w == write_part(s)
<1>1. w[1] = Len(s) /\ \A i \in 1 .. Len(s) : w[i + 1] = s[i]
  BY PartsAreFramed
<1>2. w[1] = Len(t) /\ \A i \in 1 .. Len(t) : w[i + 1] = t[i]
  BY PartsAreFramed
<1> HIDE DEF w
<1>3. Len(s) = Len(t) /\ \A i \in 1 .. Len(s) : s[i] = t[i]
  BY <1>1, <1>2
<1>4. QED
  BY <1>3, SeqEqual

\* The digest is taken as injective.
LEMMA DigestTells ==
    ASSUME NEW s \in Seq(Int), NEW t \in Seq(Int)
    PROVE  Digest(s) \in Seq(Int) /\ (Digest(s) = Digest(t) => s = t)
<1>1. <<-1>> \in Seq(Int)
  OBVIOUS
<1>2. <<-1>> \o s \in Seq(Int)
  BY <1>1, ConcatProperties
<1>3. <<-1>> \o s = <<-1>> \o t => s = t
  <2>1. Cancelled(<<-1>>, s, t)
    BY <1>1, Cancels
  <2>2. QED
    BY <2>1, Zenon DEF Cancelled
<1>4. QED
  BY <1>2, <1>3 DEF Digest

\* The part that stands for the audio.
AudioPart(contract, audio) ==
    write_part(IF ContractVersion(contract) = 2 THEN audio ELSE Digest(audio))

\* The part of the audio tells the audio, in either version.
LEMMA AudioTells ==
    ASSUME NEW contract, NEW a \in Seq(Int), NEW b \in Seq(Int)
    PROVE  AudioPart(contract, a) \in Seq(Int)
           /\ (AudioPart(contract, a) = AudioPart(contract, b) => a = b)
<1>1. CASE ContractVersion(contract) = 2
  <2>1. AudioPart(contract, a) = write_part(a) /\ AudioPart(contract, b) = write_part(b)
    BY <1>1 DEF AudioPart
  <2>2. QED
    BY <2>1, PartsAreFramed, PartsTell
<1>2. CASE ContractVersion(contract) # 2
  <2>1. AudioPart(contract, a) = write_part(Digest(a)) /\ AudioPart(contract, b) = write_part(Digest(b))
    BY <1>2 DEF AudioPart
  <2>2. Digest(a) \in Seq(Int) /\ Digest(b) \in Seq(Int) /\ (Digest(a) = Digest(b) => a = b)
    BY DigestTells
  <2>3. QED
    BY <2>1, <2>2, PartsAreFramed, PartsTell
<1>3. QED
  BY <1>1, <1>2

\* One contract's fingerprints tell the key terms and the audio apart.
LEMMA FingerprintTells ==
    ASSUME NEW contract, NEW s \in Seq(Seq(Int)), NEW t \in Seq(Seq(Int)),
           NEW a \in Seq(Int), NEW b \in Seq(Int),
           request_fingerprint(contract, s, a) = request_fingerprint(contract, t, b)
    PROVE  s = t /\ a = b
<1> DEFINE head == write_part(<<ContractVersion(contract)>>) \o write_part(IdentityPart(contract))
           fs == [i \in DOMAIN s |-> write_part(s[i])]
           ft == [i \in DOMAIN t |-> write_part(t[i])]
           ns == <<Len(s)>>
           nt == <<Len(t)>>
           xs == FlattenSeq(fs)
           xt == FlattenSeq(ft)
           pa == AudioPart(contract, a)
           pb == AudioPart(contract, b)
<1>1. Preimage(contract, s, a) = ((head \o ns) \o xs) \o pa /\ Preimage(contract, t, b) = ((head \o nt) \o xt) \o pb
  BY Zenon DEF Preimage, AudioPart
<1>2. head \in Seq(Int)
  <2>1. <<ContractVersion(contract)>> \in Seq(Int) /\ IdentityPart(contract) \in Seq(Int)
    BY DEF ContractVersion, IdentityPart
  <2>2. QED
    BY <2>1, PartsAreFramed, ConcatProperties
<1>3. /\ Len(s) \in Nat /\ Len(t) \in Nat /\ ns \in Seq(Int) /\ nt \in Seq(Int)
      /\ Len(ns) = 1 /\ Len(nt) = 1 /\ ns[1] = Len(s) /\ nt[1] = Len(t)
  OBVIOUS
<1>4. /\ fs \in Seq(Framed) /\ ft \in Seq(Framed) /\ Len(fs) = Len(s) /\ Len(ft) = Len(t)
      /\ \A i \in 1 .. Len(s) : fs[i] = write_part(s[i])
      /\ \A i \in 1 .. Len(t) : ft[i] = write_part(t[i])
  <2>1. \A i \in 1 .. Len(s) : s[i] \in Seq(Int)
    OBVIOUS
  <2>2. \A i \in 1 .. Len(t) : t[i] \in Seq(Int)
    OBVIOUS
  <2>3. \A i \in 1 .. Len(s) : write_part(s[i]) \in Framed
    BY <2>1 DEF Framed
  <2>4. \A i \in 1 .. Len(t) : write_part(t[i]) \in Framed
    BY <2>2 DEF Framed
  <2>5. fs \in Seq(Framed) /\ Len(fs) = Len(s) /\ \A i \in 1 .. Len(s) : fs[i] = write_part(s[i])
    BY <1>3, <2>3
  <2>6. ft \in Seq(Framed) /\ Len(ft) = Len(t) /\ \A i \in 1 .. Len(t) : ft[i] = write_part(t[i])
    BY <1>3, <2>4
  <2>7. QED
    BY <2>5, <2>6
<1> HIDE DEF fs, ft
<1>5. Framed \subseteq Seq(Int)
  BY FramedIsPrefixFree DEF PrefixFree
<1>6. fs \in Seq(Seq(Int)) /\ ft \in Seq(Seq(Int))
  BY <1>4, <1>5, SeqMonotonic
<1>7. xs \in Seq(Int) /\ xt \in Seq(Int)
  <2>1. Parts(fs, Len(fs)) \in Seq(Int) /\ Parts(ft, Len(ft)) \in Seq(Int)
    <3>1. Len(fs) \in 0 .. Len(fs) /\ Len(ft) \in 0 .. Len(ft)
      BY <1>3, <1>4
    <3>2. QED
      BY <1>6, <3>1, PartsGrow
  <2>2. QED
    BY <1>6, <2>1, FlattenIsParts
<1>8. pa \in Seq(Int) /\ pb \in Seq(Int) /\ (pa = pb => a = b)
  BY AudioTells
<1> HIDE DEF head, ns, nt, xs, xt, pa, pb
<1>9. /\ head \o ns \in Seq(Int) /\ (head \o ns) \o xs \in Seq(Int) /\ ((head \o ns) \o xs) \o pa \in Seq(Int)
      /\ head \o nt \in Seq(Int) /\ (head \o nt) \o xt \in Seq(Int) /\ ((head \o nt) \o xt) \o pb \in Seq(Int)
  BY <1>2, <1>3, <1>7, <1>8, ConcatProperties, Zenon
<1>10. ((head \o ns) \o xs) \o pa = ((head \o nt) \o xt) \o pb
  BY <1>1, <1>9, DigestTells, Zenon DEF request_fingerprint
<1> DEFINE us == xs \o pa
           ut == xt \o pb
<1>11. us \in Seq(Int) /\ ut \in Seq(Int)
  BY <1>7, <1>8, ConcatProperties, Zenon
<1>12. ns \o us \in Seq(Int) /\ nt \o ut \in Seq(Int)
  <2> HIDE DEF us, ut
  <2>1. QED
    BY <1>3, <1>11, ConcatProperties, Zenon
<1>13. head \o (ns \o us) = head \o (nt \o ut)
  <2>1. ((head \o ns) \o xs) \o pa = head \o (ns \o us)
    <3> DEFINE hn == head \o ns
    <3>0. hn \in Seq(Int)
      BY <1>9
    <3> HIDE DEF hn
    <3>1. (hn \o xs) \o pa = hn \o us
      <4>1. Regrouped(hn, xs, pa)
        BY <1>7, <1>8, <3>0, Regroups
      <4>2. QED
        BY <4>1, Zenon DEF Regrouped
    <3> HIDE DEF us
    <3>2. hn \o us = head \o (ns \o us)
      <4>1. Regrouped(head, ns, us)
        BY <1>2, <1>3, <1>11, Regroups
      <4>2. QED
        BY <4>1, Zenon DEF Regrouped, hn
    <3>3. QED
      BY <3>1, <3>2, Zenon DEF hn
  <2>2. ((head \o nt) \o xt) \o pb = head \o (nt \o ut)
    <3> DEFINE hn == head \o nt
    <3>0. hn \in Seq(Int)
      BY <1>9
    <3> HIDE DEF hn
    <3>1. (hn \o xt) \o pb = hn \o ut
      <4>1. Regrouped(hn, xt, pb)
        BY <1>7, <1>8, <3>0, Regroups
      <4>2. QED
        BY <4>1, Zenon DEF Regrouped
    <3> HIDE DEF ut
    <3>2. hn \o ut = head \o (nt \o ut)
      <4>1. Regrouped(head, nt, ut)
        BY <1>2, <1>3, <1>11, Regroups
      <4>2. QED
        BY <4>1, Zenon DEF Regrouped, hn
    <3>3. QED
      BY <3>1, <3>2, Zenon DEF hn
  <2>3. QED
    BY <1>10, <2>1, <2>2, Zenon
<1> HIDE DEF us, ut
<1>14. ns \o us = nt \o ut
  <2> DEFINE x == ns \o us
             y == nt \o ut
  <2>1. x \in Seq(Int) /\ y \in Seq(Int) /\ head \o x = head \o y
    BY <1>12, <1>13
  <2> HIDE DEF x, y
  <2>2. Cancelled(head, x, y)
    BY <1>2, <2>1, Cancels
  <2>3. x = y
    BY <2>1, <2>2, Zenon DEF Cancelled
  <2>4. QED
    BY <2>3, Zenon DEF x, y
<1>15. Len(s) = Len(t)
  <2>1. StartsWith(Len(s), us) /\ StartsWith(Len(t), ut)
    BY <1>3, <1>11, Starts
  <2>2. (ns \o us)[1] = Len(s) /\ (nt \o ut)[1] = Len(t)
    BY <2>1, Zenon DEF StartsWith, ns, nt
  <2>3. QED
    BY <1>14, <2>2, Zenon
<1>16. Len(s) = Len(t) /\ ns = nt
  BY <1>15, Zenon DEF ns, nt
<1>17. us = ut
  <2>1. Cancelled(ns, us, ut)
    BY <1>3, <1>11, Cancels
  <2>2. QED
    BY <1>14, <1>16, <2>1, Zenon DEF Cancelled
<1>18. fs = ft /\ pa = pb
  <2>1. FlattenSeq(fs) \o pa = FlattenSeq(ft) \o pb
    BY <1>17, Zenon DEF us, ut, xs, xt
  <2>2. Len(fs) = Len(ft)
    BY <1>4, <1>16
  <2>3. QED
    BY <1>4, <1>8, <2>1, <2>2, FramedIsPrefixFree, FlattenThenSame
<1>19. \A i \in 1 .. Len(s) : s[i] = t[i]
  <2> SUFFICES ASSUME NEW i \in 1 .. Len(s) PROVE s[i] = t[i]
    OBVIOUS
  <2>1. s[i] \in Seq(Int) /\ t[i] \in Seq(Int)
    BY <1>16
  <2>2. write_part(s[i]) = write_part(t[i])
    BY <1>4, <1>16, <1>18
  <2>3. QED
    BY <2>1, <2>2, PartsTell, Zenon
<1>20. s = t
  BY <1>16, <1>19, SeqEqual
<1>21. QED
  BY <1>8, <1>18, <1>20

-----------------------------------------------------------------------------
(* The canonical form of key terms *)

\* The texts that a list of terms stands for.
Trimmed(terms) == {trim(terms[i]) : i \in DOMAIN terms}

\* The same list, one trimmed text for each term.
Trims(terms) == [i \in 1 .. Len(terms) |-> trim(terms[i])]

\* The trimmed texts are texts, finitely many and trimmed once and for all.
LEMMA TrimmedTexts ==
    ASSUME NEW terms \in Seq(Seq(Scalars))
    PROVE  /\ Len(terms) \in Nat /\ DOMAIN terms = 1 .. Len(terms)
           /\ \A i \in 1 .. Len(terms) : terms[i] \in Seq(Scalars)
           /\ Trimmed(terms) \in SUBSET Seq(Scalars)
           /\ \A x \in Trimmed(terms) : trim(x) = x
           /\ IsFiniteSet(Trimmed(terms)) /\ Cardinality(Trimmed(terms)) <= Len(terms)
<1>1. /\ Len(terms) \in Nat /\ DOMAIN terms = 1 .. Len(terms)
      /\ \A i \in 1 .. Len(terms) : terms[i] \in Seq(Scalars)
  OBVIOUS
<1>2. \A t \in Seq(Scalars) : trim(t) \in Seq(Scalars) /\ trim(trim(t)) = trim(t)
  BY Subtexts, TrimTwice
<1>3. Trimmed(terms) \in SUBSET Seq(Scalars) /\ \A x \in Trimmed(terms) : trim(x) = x
  BY <1>1, <1>2 DEF Trimmed
<1>4. Trims(terms) \in Surjection(1 .. Len(terms), Trimmed(terms))
  BY <1>1 DEF Surjection, Trims, Trimmed
<1>5. IsFiniteSet(1 .. Len(terms)) /\ Cardinality(1 .. Len(terms)) = Len(terms)
  <2> DEFINE n == Len(terms)
  <2>1. n \in Nat
    BY <1>1
  <2> HIDE DEF n
  <2>2. IsFiniteSet(1 .. n) /\ Cardinality(1 .. n) = n
    BY <2>1, FS_Interval
  <2>3. QED
    BY <2>2 DEF n
<1>6. IsFiniteSet(Trimmed(terms)) /\ Cardinality(Trimmed(terms)) <= Cardinality(1 .. Len(terms))
  BY <1>4, <1>5, FS_Surjection
<1>7. QED
  BY <1>1, <1>3, <1>5, <1>6

\* The canonical list has each trimmed text once, in ascending order.
LEMMA CanonicalList ==
    ASSUME NEW terms \in Seq(Seq(Scalars)), NEW L, L = canonicalize_keyterms(terms)
    PROVE  /\ L \in Seq(Seq(Scalars)) /\ Len(L) \in Nat /\ Len(L) <= Len(terms)
           /\ DOMAIN L = 1 .. Len(L)
           /\ \A i \in 1 .. Len(L) : L[i] \in Trimmed(terms)
           /\ \A x \in Trimmed(terms) : \E i \in 1 .. Len(L) : L[i] = x
           /\ \A i, j \in 1 .. Len(L) : i < j => compare_utf16(L[i], L[j])
           /\ \A i, j \in 1 .. Len(L) : L[i] = L[j] => i = j
<1> DEFINE S == Trimmed(terms)
           n == Cardinality(S)
<1>1. S \in SUBSET Seq(Scalars) /\ IsFiniteSet(S) /\ n <= Len(terms) /\ Len(terms) \in Nat
  BY TrimmedTexts
<1>2. L = Sorted(S, compare_utf16)
  BY DEF canonicalize_keyterms, Trimmed
<1> HIDE DEF S
<1>3. \A s, t \in S : Utf16Units(s) \in Seq(Int) /\ (Utf16Units(s) = Utf16Units(t) => s = t)
  BY <1>1, UnitsTell
<1>4. /\ n \in Nat /\ DOMAIN L = 1 .. n
      /\ \A i \in 1 .. n : L[i] \in S
      /\ \A x \in S : \E i \in 1 .. n : L[i] = x
      /\ \A i, j \in 1 .. n : i < j => compare_utf16(L[i], L[j])
  BY <1>1, <1>2, <1>3, SortedUtf16
<1>5. L \in Seq(Seq(Scalars)) /\ Len(L) = n
  <2>1. L = [i \in 1 .. n |-> L[i]]
    BY <1>2, <1>4 DEF Sorted
  <2>2. \A i \in 1 .. n : L[i] \in Seq(Scalars)
    BY <1>1, <1>4
  <2> HIDE DEF n
  <2>3. [i \in 1 .. n |-> L[i]] \in Seq(Seq(Scalars)) /\ Len([i \in 1 .. n |-> L[i]]) = n
    BY <1>4, <2>2
  <2>4. QED
    BY <2>1, <2>3, Zenon
<1>6. ASSUME NEW i \in 1 .. n, NEW j \in 1 .. n, L[i] = L[j] PROVE i = j
  <2>1. L[i] \in Seq(Scalars)
    BY <1>1, <1>4
  <2>2. Utf16Units(L[i]) \in Seq(Int)
    BY <2>1, UnitsTell
  <2>3. ~compare_utf16(L[i], L[i])
    BY <2>2, BeforeIrreflexive DEF compare_utf16
  <2>4. ~(i < j) /\ ~(j < i)
    BY <1>4, <1>6, <2>3
  <2>5. i \in Nat /\ j \in Nat
    BY <1>4
  <2>6. QED
    BY <2>4, <2>5
<1> HIDE DEF n
<1>7. QED
  BY <1>1, <1>4, <1>5, <1>6 DEF S

\* What the boundary accepts has the canonical form that the fingerprint asks for.
LEMMA CanonicalIsAccepted ==
    ASSUME NEW terms \in Seq(Seq(Scalars)), CanCanonicalize(terms)
    PROVE  CanonicalKeyterms(canonicalize_keyterms(terms))
<1> DEFINE L == canonicalize_keyterms(terms)
<1>1. /\ L \in Seq(Seq(Scalars)) /\ Len(L) \in Nat /\ Len(L) <= Len(terms)
      /\ DOMAIN L = 1 .. Len(L)
      /\ \A i \in 1 .. Len(L) : L[i] \in Trimmed(terms)
      /\ \A i, j \in 1 .. Len(L) : i < j => compare_utf16(L[i], L[j])
  BY CanonicalList
<1> HIDE DEF L
<1>2. Len(terms) <= MaxKeyterms /\ \A x \in Trimmed(terms) : validate_keyterm(x)
  BY DEF CanCanonicalize, Trimmed
<1>3. Len(terms) \in Nat /\ \A x \in Trimmed(terms) : trim(x) = x
  BY TrimmedTexts
<1>4. MaxKeyterms \in Nat
  BY BoundsAssumption
<1>5. Len(L) <= MaxKeyterms
  BY <1>1, <1>2, <1>3, <1>4
<1>6. \A i \in DOMAIN L : validate_keyterm(L[i]) /\ trim(L[i]) = L[i]
  BY <1>1, <1>2, <1>3
<1>7. \A i \in 2 .. Len(L) : compare_utf16(L[i - 1], L[i])
  <2> SUFFICES ASSUME NEW i \in 2 .. Len(L) PROVE compare_utf16(L[i - 1], L[i])
    OBVIOUS
  <2>1. i - 1 \in 1 .. Len(L) /\ i \in 1 .. Len(L) /\ i - 1 < i
    BY <1>1
  <2>2. QED
    BY <1>1, <2>1
<1>8. QED
  BY <1>5, <1>6, <1>7 DEF CanonicalKeyterms, L

\* The texts of the canonical list are those of the list.
LEMMA CanonicalTexts ==
    ASSUME NEW terms \in Seq(Seq(Scalars))
    PROVE  Trimmed(terms) = Range(canonicalize_keyterms(terms))
<1> DEFINE L == canonicalize_keyterms(terms)
<1>1. /\ DOMAIN L = 1 .. Len(L)
      /\ \A i \in 1 .. Len(L) : L[i] \in Trimmed(terms)
      /\ \A x \in Trimmed(terms) : \E i \in 1 .. Len(L) : L[i] = x
  BY CanonicalList
<1> HIDE DEF L
<1>2. Trimmed(terms) = Range(L)
  BY <1>1 DEF Range
<1>3. QED
  BY <1>2 DEF L

\* Two lists have one canonical form exactly when they have the same texts.
LEMMA CanonicalMeans ==
    ASSUME NEW s \in Seq(Seq(Scalars)), NEW t \in Seq(Seq(Scalars))
    PROVE  canonicalize_keyterms(s) = canonicalize_keyterms(t) <=> Trimmed(s) = Trimmed(t)
<1>1. ASSUME Trimmed(s) = Trimmed(t) PROVE canonicalize_keyterms(s) = canonicalize_keyterms(t)
  BY <1>1, Zenon DEF canonicalize_keyterms, Trimmed
<1>2. ASSUME canonicalize_keyterms(s) = canonicalize_keyterms(t) PROVE Trimmed(s) = Trimmed(t)
  BY <1>2, CanonicalTexts
<1>3. QED
  BY <1>1, <1>2

LEMMA CanonicalTotal ==
    ASSUME NEW terms \in Seq(Seq(Scalars))
    PROVE  SumFunction([term \in Trimmed(terms) |-> Bytes(term)]) \in Nat
<1> DEFINE S == Trimmed(terms)
           f == [term \in S |-> Bytes(term)]
<1>1. S \in SUBSET Seq(Scalars) /\ IsFiniteSet(S)
  BY TrimmedTexts
<1> HIDE DEF S
<1>2. DOMAIN f = S /\ \A x \in S : f[x] \in Nat
  BY <1>1, BytesAreNatural
<1> HIDE DEF f
<1>3. SumFunction(f) = Partial(f, S)[S]
  BY <1>2, SumIsPartial DEF SumFunction
<1>4. S \in SUBSET S
  OBVIOUS
<1>5. Partial(f, S)[S] \in Nat
  BY <1>1, <1>2, <1>4, PartialBounds
<1>6. QED
  BY <1>3, <1>5 DEF f, S

\* The bytes of the canonical list are those of its texts, each counted once.
LEMMA CanonicalBytes ==
    ASSUME NEW terms \in Seq(Seq(Scalars)), NEW L, L = canonicalize_keyterms(terms)
    PROVE  SumFunction([i \in DOMAIN L |-> Bytes(L[i])])
            = SumFunction([term \in Trimmed(terms) |-> Bytes(term)])
<1> DEFINE S == Trimmed(terms)
           f == [term \in S |-> Bytes(term)]
           g == [i \in DOMAIN L |-> Bytes(L[i])]
           n == Len(L)
<1>1. /\ n \in Nat /\ DOMAIN L = 1 .. n
      /\ \A i \in 1 .. n : L[i] \in S
      /\ \A x \in S : \E i \in 1 .. n : L[i] = x
      /\ \A i, j \in 1 .. n : L[i] = L[j] => i = j
  BY CanonicalList
<1>2. S \in SUBSET Seq(Scalars) /\ IsFiniteSet(S)
  BY TrimmedTexts
<1> HIDE DEF S, n
<1>3. \A x \in S : Bytes(x) \in Nat
  BY <1>2, BytesAreNatural
<1>4. DOMAIN f = S /\ \A x \in S : f[x] = Bytes(x)
  OBVIOUS
<1>5. DOMAIN g = 1 .. n /\ \A i \in 1 .. n : g[i] = Bytes(L[i])
  BY <1>1
<1> HIDE DEF f, g
<1>6. \A i \in 1 .. n : g[i] = f[L[i]]
  BY <1>1, <1>4, <1>5
<1>7. \A x \in S : f[x] \in Nat
  BY <1>3, <1>4
<1>8. Paired(DOMAIN g, DOMAIN f, L, f, g)
  <2>1. Natural(f, S)
    BY <1>2, <1>7 DEF Natural
  <2>2. Natural(g, 1 .. n)
    <3>1. IsFiniteSet(1 .. n)
      BY <1>1, FS_Interval
    <3>2. QED
      BY <1>1, <1>6, <1>7, <3>1 DEF Natural
  <2>3. QED
    BY <1>1, <1>4, <1>5, <1>6, <2>1, <2>2 DEF Paired
<1>9. SumFunction(g) = SumFunction(f)
  BY <1>8, SumMoved
<1>10. QED
  BY <1>9, Zenon DEF f, g, S

\* The ledger's copy of the checks refuses nothing but too many bytes.
LEMMA CanonicalIsStorable ==
    ASSUME NEW terms \in Seq(Seq(Scalars)), NEW contract,
           validate_key_terms(contract, canonicalize_keyterms(terms)),
           ~(SumFunction([term \in Trimmed(terms) |-> Bytes(term)]) > MaxStoredBytes)
    PROVE  StorableKeyterms(canonicalize_keyterms(terms))
<1> DEFINE L == canonicalize_keyterms(terms)
           total == SumFunction([term \in Trimmed(terms) |-> Bytes(term)])
<1>1. SumFunction([i \in DOMAIN L |-> Bytes(L[i])]) = total
  BY CanonicalBytes
<1>2. total \in Nat
  BY CanonicalTotal
<1>3. ~(total > MaxStoredBytes) /\ MaxStoredBytes \in Nat
  BY BoundsAssumption
<1> HIDE DEF total
<1>4. SumFunction([i \in DOMAIN L |-> Bytes(L[i])]) <= MaxStoredBytes
  BY <1>1, <1>2, <1>3
<1>5. Len(L) <= MaxKeyterms
  BY DEF validate_key_terms
<1>6. ASSUME NEW i \in DOMAIN L PROVE /\ L[i] # <<>> /\ trim(L[i]) = L[i] /\ Tab \notin Range(L[i])
                                        /\ Bytes(L[i]) <= MaxKeytermBytes
  <2> DEFINE t == L[i]
  <2>1. /\ t # <<>> /\ trim(t) = t /\ \A j \in DOMAIN t : ~IsControl(t[j])
        /\ Bytes(t) <= MaxKeytermBytes
    BY Zenon DEF validate_key_terms
  <2> HIDE DEF t
  <2>2. Tab \notin Range(t)
    BY <2>1 DEF Range, IsControl
  <2>3. QED
    BY <2>1, <2>2 DEF t
<1> HIDE DEF L
<1>7. QED
  BY <1>4, <1>5, <1>6 DEF StorableKeyterms, L

\* What the adapter sends for a list within the limits is within them too.
LEMMA SentIsWithin ==
    ASSUME NEW L \in Seq(Seq(Scalars)), validate_key_terms("elevenlabs_v3", L),
           NEW list, list = provider_keyterms(L)
    PROVE  /\ IsInjective(list)
           /\ \A i \in DOMAIN list : Len(list[i]) \in 1 .. MaxScalars /\ Words(list[i]) <= MaxWords
<1> DEFINE S == {ProviderTerm(L[i]) : i \in DOMAIN L}
           n == Cardinality(S)
<1>1. Len(L) \in Nat /\ DOMAIN L = 1 .. Len(L) /\ \A i \in 1 .. Len(L) : L[i] \in Seq(Scalars)
  OBVIOUS
<1>2. \A t \in Seq(Nat) : ProviderTerm(t) \in Seq(Nat)
  BY TermIsKept
<1>3. \A i \in DOMAIN L : L[i] \in Seq(Nat)
  BY <1>1, Subtexts
<1>4. S \in SUBSET Seq(Int)
  <2>1. \A t \in Seq(Nat) : t \in Seq(Int)
    BY SeqMonotonic
  <2>2. \A i \in DOMAIN L : ProviderTerm(L[i]) \in Seq(Int)
    BY <1>2, <1>3, <2>1
  <2>3. QED
    BY <2>2
<1>5. IsFiniteSet(S)
  <2> DEFINE f == [i \in DOMAIN L |-> ProviderTerm(L[i])]
  <2>1. f \in Surjection(DOMAIN L, S)
    BY DEF Surjection
  <2>2. IsFiniteSet(DOMAIN L)
    <3> DEFINE m == Len(L)
    <3>1. m \in Nat /\ DOMAIN L = 1 .. m
      BY <1>1
    <3> HIDE DEF m
    <3>2. QED
      BY <3>1, FS_Interval
  <2> HIDE DEF f, S
  <2>3. QED
    BY <2>1, <2>2, FS_Surjection
<1>6. list = Sorted(S, compare_str)
  BY DEF provider_keyterms
<1>7. ASSUME NEW t \in S PROVE Len(t) \in 1 .. MaxScalars /\ Words(t) <= MaxWords
  <2>1. PICK j \in DOMAIN L : t = ProviderTerm(L[j])
    OBVIOUS
  <2> DEFINE u == L[j]
  <2>2. /\ u # <<>> /\ trim(u) = u
        /\ NormalizedScalars(u) <= MaxScalars /\ Words(u) <= MaxWords
    BY Zenon DEF validate_key_terms
  <2>3. u \in Seq(Nat) /\ t = ProviderTerm(u)
    BY <1>3, <2>1
  <2> HIDE DEF u
  <2>4. Len(t) = NormalizedScalars(u)
    BY <2>2, <2>3, ScalarsAreSent
  <2>5. MaxScalars \in Nat /\ MaxWords \in Nat
    BY BoundsAssumption
  <2>6. Words(t) <= Words(u) /\ Words(t) \in Nat /\ Words(u) \in Nat
    BY <2>3, WordsAreKept
  <2>7. Len(t) \in Nat /\ Len(t) >= 1
    <3>1. Len(t) = Cardinality(Kept(u)) /\ Len(t) \in Nat
      BY <2>3, TermIsKept
    <3>2. Len(u) >= 1 /\ ~IsWhite(u[1])
      BY <2>2, <2>3, TrimmedEnds
    <3>3. 1 \in Kept(u)
      <4>1. DOMAIN u = 1 .. Len(u) /\ Len(u) \in Nat
        BY <2>3
      <4>2. QED
        BY <3>2, <4>1 DEF Kept
    <3>4. IsFiniteSet(Kept(u))
      <4>1. Kept(u) \in SUBSET DOMAIN u
        BY DEF Kept
      <4>2. QED
        BY <2>3, <4>1, KeptIsFinite
    <3>5. Cardinality(Kept(u)) # 0
      BY <3>3, <3>4, FS_EmptySet
    <3>6. QED
      BY <3>1, <3>5
  <2>8. QED
    BY <2>2, <2>4, <2>5, <2>6, <2>7
<1> HIDE DEF S
<1>8. /\ n \in Nat /\ DOMAIN list = 1 .. n
      /\ \A i \in 1 .. n : list[i] \in S
      /\ \A i, j \in 1 .. n : list[i] = list[j] => i = j
  BY <1>4, <1>5, <1>6, SortedStr
<1>9. IsInjective(list)
  BY <1>8 DEF IsInjective
<1>10. QED
  BY <1>7, <1>8, <1>9

-----------------------------------------------------------------------------
(* BatchUpload: the inductive invariant *)

Form == [contract : Contracts \cup {"none"}, terms : Seq(Seq(Scalars)), audio : Seq(Nat)]

Checked == {"audio", "fingerprint", "admit"}

\* What the handler has checked of the form, by the place it is at.
FormInv ==
    /\ form \in Form
    /\ at \in {"capabilities"} \cup Checked => CanCanonicalize(form.terms)
    /\ at \in Checked =>
        /\ validate_key_terms(form.contract, canonicalize_keyterms(form.terms))
        /\ form.audio # <<>>

\* Nothing is answered before the handler returns.
ReplyInv == at # "idle" => reply = NoReply

\* The row under the key is that of the request it stands for.
JobInv ==
    job # NoJob =>
        /\ job.meaning \in [contract : Contracts \cup {"none"}, terms : SUBSET Seq(Scalars),
                            audio : Seq(Nat)]
        /\ job.terms \in Seq(Seq(Scalars))
        /\ job.contract = job.meaning.contract
        /\ job.terms = Sorted(job.meaning.terms, compare_utf16)
        /\ job.meaning.terms = Range(job.terms)
        /\ job.fingerprint = request_fingerprint(job.contract, job.terms, job.meaning.audio)
        /\ validate_key_terms(job.contract, job.terms)

UploadInv ==
    FormInv /\ ReplyInv /\ JobInv /\ ReplayMeansSame /\ BoundaryAgrees /\ UnavailableMeansFault

-----------------------------------------------------------------------------
(* BatchUpload: the steps *)

\* The meaning of a form, by its fields.
LEMMA MeaningIs ==
    ASSUME NEW f \in Form
    PROVE  /\ Meaning(f) = [contract |-> f.contract, audio |-> f.audio, terms |-> Trimmed(f.terms)]
           /\ Meaning(f).contract = f.contract /\ Meaning(f).audio = f.audio
           /\ Meaning(f).terms = Trimmed(f.terms)
<1>1. Meaning(f) = [contract |-> f.contract, audio |-> f.audio, terms |-> Trimmed(f.terms)]
  BY Zenon DEF Meaning, Trimmed
<1>2. QED
  BY <1>1

\* An answer that is no replay, no conflict and no 503 keeps the invariant.
LEMMA Answers ==
    ASSUME UploadInv, NEW s \in Int \ {200, 409, 503}, NEW c, c # "INVALID_BATCH_REQUEST",
           Answer(s, c), form' \in Form, UNCHANGED job
    PROVE  UploadInv'
<1> USE DEF UploadInv
<1>1. at' = "idle" /\ reply'.status = s /\ reply'.code = c
  BY DEF Answer
<1>2. FormInv' /\ ReplyInv'
  BY <1>1 DEF FormInv, ReplyInv, Checked
<1>3. JobInv'
  BY DEF JobInv
<1>4. ReplayMeansSame' /\ BoundaryAgrees' /\ UnavailableMeansFault'
  BY <1>1 DEF ReplayMeansSame, BoundaryAgrees, UnavailableMeansFault
<1>5. QED
  BY <1>2, <1>3, <1>4

LEMMA Refusals ==
    ASSUME UploadInv, NEW s \in Int \ {200, 409, 503}, NEW c, c # "INVALID_BATCH_REQUEST",
           Refuse(s, c)
    PROVE  UploadInv'
<1>1. Answer(s, c) /\ form' \in Form /\ UNCHANGED job
  BY DEF Refuse, UploadInv, FormInv
<1>2. QED
  BY <1>1, Answers

\* A handler that moves on has answered nothing.
LEMMA MovesOn ==
    ASSUME UploadInv, NEW place, place # "idle", at # "idle", Goto(place), FormInv'
    PROVE  UploadInv'
<1> USE DEF UploadInv
<1>1. at' = place /\ reply' = NoReply /\ reply = NoReply /\ UNCHANGED <<job, fault, uploads>>
  BY DEF Goto, ReplyInv
<1>2. ReplyInv'
  BY <1>1 DEF ReplyInv
<1>3. JobInv'
  BY <1>1 DEF JobInv
<1>4. ReplayMeansSame' /\ BoundaryAgrees' /\ UnavailableMeansFault'
  BY <1>1 DEF ReplayMeansSame, BoundaryAgrees, UnavailableMeansFault, NoReply
<1>5. QED
  BY <1>2, <1>3, <1>4

\* The places of the parser, by name.
LEMMA Places ==
    /\ Parsing = {"contract_version", "provider", "model", "language", "keyterms", "file", "end"}
    /\ TextFields[1] = "contract_version" /\ Last(TextFields) = "language"
    /\ Len(TextFields) = 4 /\ Range(TextFields) = {"contract_version", "provider", "model", "language"}
<1>1. /\ Len(TextFields) = 4 /\ DOMAIN TextFields = 1 .. 4 /\ 1 .. 4 = {1, 2, 3, 4}
      /\ TextFields[1] = "contract_version" /\ TextFields[2] = "provider"
      /\ TextFields[3] = "model" /\ TextFields[4] = "language"
  BY DEF TextFields
<1>2. Range(TextFields) = {"contract_version", "provider", "model", "language"}
  BY <1>1 DEF Range
<1>3. Last(TextFields) = "language"
  BY <1>1 DEF Last
<1>4. QED
  BY <1>1, <1>2, <1>3 DEF Parsing

LEMMA EmptyForm == NoForm \in Form
<1>1. <<>> \in Seq(Seq(Scalars)) /\ <<>> \in Seq(Nat)
  OBVIOUS
<1>2. QED
  BY <1>1 DEF NoForm, Form

LEMMA UPost == ASSUME UploadInv, Post PROVE UploadInv'
<1>1. form' = NoForm /\ fault' = FALSE /\ UNCHANGED job /\ form' \in Form
  BY EmptyForm DEF Post
<1>2. CASE Answer(401, "UNAUTHORIZED")
  BY <1>1, <1>2, Answers
<1>3. CASE Answer(429, "RATE_LIMIT_EXCEEDED")
  BY <1>1, <1>3, Answers
<1>4. CASE Answer(400, "INVALID_IDEMPOTENCY_KEY")
  BY <1>1, <1>4, Answers
<1>5. CASE at' = TextFields[1] /\ reply' = NoReply
  <2>1. at' = "contract_version" /\ reply' = NoReply
    BY <1>5, Places
  <2>2. FormInv' /\ ReplyInv'
    BY <1>1, <2>1 DEF FormInv, ReplyInv, Checked
  <2>3. JobInv'
    BY <1>1 DEF JobInv, UploadInv
  <2>4. ReplayMeansSame' /\ BoundaryAgrees' /\ UnavailableMeansFault'
    BY <2>1 DEF ReplayMeansSame, BoundaryAgrees, UnavailableMeansFault, NoReply
  <2>5. QED
    BY <2>2, <2>3, <2>4 DEF UploadInv
<1>6. QED
  BY <1>2, <1>3, <1>4, <1>5 DEF Post

LEMMA UNextText == ASSUME UploadInv, NextText PROVE UploadInv'
<1>1. PICK i \in 1 .. Len(TextFields) - 1 :
            at = TextFields[i] /\ Goto(TextFields[i + 1]) /\ UNCHANGED form
  BY DEF NextText
<1>2. i \in 1 .. 3 /\ i + 1 \in 2 .. 4
  BY Places
<1>3. TextFields[i] \in Range(TextFields) /\ TextFields[i + 1] \in Range(TextFields)
  <2>1. i \in DOMAIN TextFields /\ i + 1 \in DOMAIN TextFields
    BY <1>2 DEF TextFields
  <2>2. QED
    BY <2>1 DEF Range
<1>4. /\ at # "idle"
      /\ TextFields[i + 1] \in {"contract_version", "provider", "model", "language"}
  BY <1>1, <1>3, Places
<1>5. at' = TextFields[i + 1] /\ Goto(TextFields[i + 1]) /\ TextFields[i + 1] # "idle"
  BY <1>1, <1>4 DEF Goto
<1>6. FormInv'
  BY <1>1, <1>4, <1>5 DEF FormInv, Checked, UploadInv
<1>7. QED
  BY <1>4, <1>5, <1>6, MovesOn

LEMMA ULastText == ASSUME UploadInv, LastText PROVE UploadInv'
<1>1. at = "language"
  BY Places DEF LastText
<1>2. CASE Refuse(400, "UNSUPPORTED_PROFILE")
  BY <1>2, Refusals
<1>3. CASE Refuse(422, "PROFILE_NOT_CONFIGURED")
  BY <1>3, Refusals
<1>4. CASE Refuse(429, "RATE_LIMIT_EXCEEDED")
  BY <1>4, Refusals
<1>5. ASSUME NEW contract \in Contracts, form' = [form EXCEPT !.contract = contract], Goto("keyterms")
      PROVE  UploadInv'
  <2>1. form \in Form
    BY DEF UploadInv, FormInv
  <2>2. form' \in Form
    BY <1>5, <2>1 DEF Form
  <2>3. FormInv'
    BY <1>5, <2>2 DEF FormInv, Goto, Checked
  <2>4. QED
    BY <1>1, <1>5, <2>3, MovesOn
<1>6. QED
  BY <1>2, <1>3, <1>4, <1>5 DEF LastText

LEMMA UKeytermsField == ASSUME UploadInv, KeytermsField PROVE UploadInv'
<1>1. /\ at = "keyterms" /\ Goto("file")
      /\ \E terms \in SeqOf(Terms, MaxKeyterms)
                        \cup {[i \in 1 .. MaxKeyterms + 1 |-> t] : t \in Terms} :
            form' = [form EXCEPT !.terms = terms]
  BY DEF KeytermsField
<1>2. PICK terms \in SeqOf(Terms, MaxKeyterms)
                        \cup {[i \in 1 .. MaxKeyterms + 1 |-> t] : t \in Terms} :
            form' = [form EXCEPT !.terms = terms]
  BY <1>1
<1>3. terms \in Seq(Terms)
  <2>1. CASE terms \in SeqOf(Terms, MaxKeyterms)
    <3>1. PICK m \in 0 .. MaxKeyterms : terms \in [1 .. m -> Terms]
      BY <2>1 DEF SeqOf
    <3>2. m \in Nat
      BY BoundsAssumption
    <3>3. QED
      BY <3>1, <3>2
  <2>2. CASE terms \in {[i \in 1 .. MaxKeyterms + 1 |-> t] : t \in Terms}
    <3>1. PICK t \in Terms : terms = [i \in 1 .. MaxKeyterms + 1 |-> t]
      BY <2>2
    <3>2. MaxKeyterms + 1 \in Nat
      BY BoundsAssumption
    <3>3. QED
      BY <3>1, <3>2
  <2>3. QED
    BY <1>2, <2>1, <2>2
<1>4. terms \in Seq(Seq(Scalars))
  <2>1. Terms \subseteq Seq(Scalars)
    BY UploadAssumption
  <2>2. QED
    BY <1>3, <2>1, SeqMonotonic
<1>5. form' \in Form
  <2>1. form \in Form
    BY DEF UploadInv, FormInv
  <2>2. QED
    BY <1>2, <1>4, <2>1 DEF Form
<1>6. FormInv'
  BY <1>1, <1>5 DEF FormInv, Goto, Checked
<1>7. QED
  BY <1>1, <1>6, MovesOn

LEMMA UFileField == ASSUME UploadInv, FileField PROVE UploadInv'
<1>1. at = "file" /\ Goto("end")
  BY DEF FileField
<1>2. PICK audio \in Files : form' = [form EXCEPT !.audio = audio]
  BY DEF FileField
<1>3. audio \in Seq(Nat) /\ form \in Form
  BY UploadAssumption DEF UploadInv, FormInv
<1>4. form' \in Form
  BY <1>2, <1>3 DEF Form
<1>5. FormInv'
  BY <1>1, <1>4 DEF FormInv, Goto, Checked
<1>6. QED
  BY <1>1, <1>5, MovesOn

LEMMA UFormEnds == ASSUME UploadInv, FormEnds PROVE UploadInv'
<1>1. at = "end"
  BY DEF FormEnds
<1>2. CASE Refuse(400, "INVALID_KEYTERMS")
  BY <1>2, Refusals
<1>3. CASE CanCanonicalize(form.terms) /\ Goto("capabilities") /\ UNCHANGED form
  <2>1. FormInv'
    BY <1>3 DEF FormInv, Goto, Checked, UploadInv
  <2>2. QED
    BY <1>1, <1>3, <2>1, MovesOn
<1>4. QED
  BY <1>2, <1>3 DEF FormEnds

LEMMA UBadPart == ASSUME UploadInv, BadPart PROVE UploadInv'
BY Refusals DEF BadPart

LEMMA UUploadDeadline == ASSUME UploadInv, UploadDeadline PROVE UploadInv'
BY Refusals DEF UploadDeadline

LEMMA UDisconnect == ASSUME UploadInv, Disconnect PROVE UploadInv'
BY Refusals DEF Disconnect

LEMMA UCheckCapabilities == ASSUME UploadInv, CheckCapabilities PROVE UploadInv'
<1>1. at = "capabilities"
  BY DEF CheckCapabilities
<1>2. CASE Refuse(400, "UNSUPPORTED_BATCH_CAPABILITY")
  BY <1>2, Refusals
<1>3. CASE /\ validate_key_terms(form.contract, canonicalize_keyterms(form.terms)) /\ form.audio # <<>>
           /\ Goto("audio") /\ UNCHANGED form
  <2>1. FormInv'
    BY <1>1, <1>3 DEF FormInv, Goto, Checked, UploadInv
  <2>2. QED
    BY <1>1, <1>3, <2>1, MovesOn
<1>4. QED
  BY <1>2, <1>3 DEF CheckCapabilities

LEMMA UCheckAudio == ASSUME UploadInv, CheckAudio PROVE UploadInv'
<1>1. at = "audio"
  BY DEF CheckAudio
<1>2. CASE Refuse(400, "INVALID_OGG_OPUS")
  BY <1>2, Refusals
<1>3. CASE Goto("fingerprint") /\ UNCHANGED form
  <2>1. FormInv'
    BY <1>1, <1>3 DEF FormInv, Goto, Checked, UploadInv
  <2>2. QED
    BY <1>1, <1>3, <2>1, MovesOn
<1>4. QED
  BY <1>2, <1>3 DEF CheckAudio

LEMMA UCheckFingerprint == ASSUME UploadInv, CheckFingerprint PROVE UploadInv'
<1>1. at = "fingerprint"
  BY DEF CheckFingerprint
<1>2. CanFingerprint(canonicalize_keyterms(form.terms), form.audio)
  <2>1. CanCanonicalize(form.terms) /\ form.audio # <<>> /\ form \in Form
    BY <1>1 DEF UploadInv, FormInv, Checked
  <2>2. form.terms \in Seq(Seq(Scalars))
    BY <2>1 DEF Form
  <2>3. QED
    BY <2>1, <2>2, CanonicalIsAccepted DEF CanFingerprint
<1>3. Goto("admit") /\ UNCHANGED form
  BY <1>2 DEF CheckFingerprint
<1>4. FormInv'
  BY <1>1, <1>3 DEF FormInv, Goto, Checked, UploadInv
<1>5. QED
  BY <1>1, <1>3, <1>4, MovesOn

\* One contract's stored fingerprint is that of a form exactly when both stand
\* for the same request.
LEMMA SameRequest ==
    ASSUME JobInv, job # NoJob, form \in Form
    PROVE  job.contract = form.contract /\ job.fingerprint = Fingerprint(form)
            <=> job.meaning = Meaning(form)
<1> DEFINE m == job.meaning
           L == canonicalize_keyterms(form.terms)
           c == form.contract
           a == form.audio
<1>1. form.terms \in Seq(Seq(Scalars)) /\ a \in Seq(Nat)
  BY DEF Form
<1>2. /\ m \in [contract : Contracts \cup {"none"}, terms : SUBSET Seq(Scalars), audio : Seq(Nat)]
      /\ job.terms \in Seq(Seq(Scalars))
      /\ job.contract = m.contract
      /\ job.terms = Sorted(m.terms, compare_utf16)
      /\ m.terms = Range(job.terms)
      /\ job.fingerprint = request_fingerprint(job.contract, job.terms, m.audio)
  BY DEF JobInv
<1>3. L \in Seq(Seq(Scalars)) /\ Trimmed(form.terms) = Range(L)
  BY <1>1, CanonicalList, CanonicalTexts
<1>4. L = Sorted(Trimmed(form.terms), compare_utf16)
  BY Zenon DEF canonicalize_keyterms, Trimmed
<1>5. Fingerprint(form) = request_fingerprint(c, L, a)
  BY Zenon DEF Fingerprint
<1>6. Meaning(form) = [contract |-> c, audio |-> a, terms |-> Trimmed(form.terms)]
  BY MeaningIs
<1> HIDE DEF m, L, c, a
<1>7. ASSUME job.contract = c, job.fingerprint = Fingerprint(form)
      PROVE  m = Meaning(form)
  <2>1. request_fingerprint(c, job.terms, m.audio) = request_fingerprint(c, L, a)
    BY <1>2, <1>5, <1>7, Zenon
  <2>2. m.audio \in Seq(Int) /\ a \in Seq(Int)
    <3>1. m.audio \in Seq(Nat) /\ a \in Seq(Nat)
      BY <1>1, <1>2
    <3>2. QED
      BY <3>1, SeqMonotonic
  <2>3. job.terms \in Seq(Seq(Int)) /\ L \in Seq(Seq(Int))
    BY <1>2, <1>3, Subtexts, SeqMonotonic
  <2>4. job.terms = L /\ m.audio = a
    BY <2>1, <2>2, <2>3, FingerprintTells
  <2>5. m.terms = Trimmed(form.terms)
    BY <1>2, <1>3, <2>4, Zenon
  <2>6. m.contract = c
    BY <1>2, <1>7, Zenon
  <2>7. m = [contract |-> m.contract, audio |-> m.audio, terms |-> m.terms]
    BY <1>2
  <2>8. QED
    BY <1>6, <2>4, <2>5, <2>6, <2>7, Zenon
<1>8. ASSUME m = Meaning(form)
      PROVE  job.contract = c /\ job.fingerprint = Fingerprint(form)
  <2>1. m.contract = c /\ m.audio = a /\ m.terms = Trimmed(form.terms)
    BY <1>6, <1>8
  <2>2. job.terms = L /\ job.contract = c
    BY <1>2, <1>4, <2>1, Zenon
  <2>3. QED
    BY <1>2, <1>5, <2>1, <2>2, Zenon
<1>9. QED
  BY <1>7, <1>8 DEF m, c

LEMMA UExisting == ASSUME UploadInv, at = "admit", Existing PROVE UploadInv'
<1> USE DEF UploadInv
<1>1. job # NoJob /\ UNCHANGED <<form, job, fault, uploads>> /\ form \in Form
  BY DEF Existing, FormInv
<1>2. job.contract = form.contract /\ job.fingerprint = Fingerprint(form) <=> job.meaning = Meaning(form)
  BY <1>1, SameRequest
<1>3. \/ job.meaning = Meaning(form) /\ Answer(200, "replay")
      \/ job.meaning # Meaning(form) /\ Answer(409, "IDEMPOTENCY_CONFLICT")
  BY <1>2 DEF Existing
<1>4. /\ at' = "idle" /\ reply'.status \in {200, 409} /\ reply'.code # "INVALID_BATCH_REQUEST"
      /\ reply'.status = 200 <=> job.meaning = Meaning(form)
  BY <1>3 DEF Answer
<1>5. FormInv' /\ ReplyInv'
  BY <1>1, <1>4 DEF FormInv, ReplyInv, Checked
<1>6. JobInv'
  BY <1>1 DEF JobInv
<1>7. ReplayMeansSame'
  BY <1>1, <1>4 DEF ReplayMeansSame
<1>8. BoundaryAgrees' /\ UnavailableMeansFault'
  BY <1>4 DEF BoundaryAgrees, UnavailableMeansFault
<1>9. QED
  BY <1>5, <1>6, <1>7, <1>8

LEMMA UInsert == ASSUME UploadInv, at = "admit", Insert PROVE UploadInv'
<1> USE DEF UploadInv
<1> DEFINE L == canonicalize_keyterms(form.terms)
<1>1. UNCHANGED <<form, fault, uploads>> /\ form \in Form
  BY DEF Insert, FormInv
<1>2. validate_key_terms(form.contract, L) /\ form.terms \in Seq(Seq(Scalars))
  BY <1>1 DEF FormInv, Checked, Form
<1>3. /\ L \in Seq(Seq(Scalars)) /\ Trimmed(form.terms) = Range(L)
      /\ Trimmed(form.terms) \in SUBSET Seq(Scalars)
  BY <1>2, CanonicalList, CanonicalTexts, TrimmedTexts
<1>4. L = Sorted(Trimmed(form.terms), compare_utf16)
  BY Zenon DEF canonicalize_keyterms, Trimmed
<1>5. /\ Meaning(form) = [contract |-> form.contract, audio |-> form.audio, terms |-> Trimmed(form.terms)]
      /\ Meaning(form).contract = form.contract /\ Meaning(form).audio = form.audio
      /\ Meaning(form).terms = Trimmed(form.terms)
  BY <1>1, MeaningIs
<1>6. CASE StorableKeyterms(L)
  <2>1. /\ job' = [fingerprint |-> Fingerprint(form), contract |-> form.contract,
                   terms |-> L, meaning |-> Meaning(form)]
        /\ Answer(202, "accepted")
    BY <1>6 DEF Insert
  <2>2. /\ job'.fingerprint = Fingerprint(form) /\ job'.contract = form.contract
        /\ job'.terms = L /\ job'.meaning = Meaning(form)
    BY <2>1
  <2>3. at' = "idle" /\ reply'.status = 202 /\ reply'.code = "accepted"
    BY <2>1 DEF Answer
  <2>4. FormInv' /\ ReplyInv'
    BY <1>1, <2>3 DEF FormInv, ReplyInv, Checked
  <2>5. Fingerprint(form) = request_fingerprint(form.contract, L, form.audio)
    BY Zenon DEF Fingerprint
  <2>6. Meaning(form) \in [contract : Contracts \cup {"none"}, terms : SUBSET Seq(Scalars), audio : Seq(Nat)]
    <3> HIDE DEF L
    <3>1. form.contract \in Contracts \cup {"none"} /\ form.audio \in Seq(Nat)
      BY <1>1 DEF Form
    <3>2. QED
      BY <1>3, <1>5, <3>1
  <2> HIDE DEF L
  <2>7. JobInv'
    BY <1>2, <1>3, <1>4, <1>5, <2>2, <2>5, <2>6, Zenon DEF JobInv
  <2>8. ReplayMeansSame' /\ BoundaryAgrees' /\ UnavailableMeansFault'
    BY <2>3 DEF ReplayMeansSame, BoundaryAgrees, UnavailableMeansFault
  <2>9. QED
    BY <2>4, <2>7, <2>8
<1>7. CASE ~StorableKeyterms(L)
  <2>1. Answer(503, "DATABASE_UNAVAILABLE") /\ UNCHANGED job
    BY <1>7 DEF Insert
  <2>2. at' = "idle" /\ reply'.status = 503 /\ reply'.code = "DATABASE_UNAVAILABLE"
    BY <2>1 DEF Answer
  <2>3. FormInv' /\ ReplyInv'
    BY <1>1, <2>2 DEF FormInv, ReplyInv, Checked
  <2>4. JobInv'
    BY <2>1 DEF JobInv
  <2>5. SumFunction([term \in Trimmed(form.terms) |-> Bytes(term)]) > MaxStoredBytes
    BY <1>2, <1>7, CanonicalIsStorable
  <2>6. UnavailableMeansFault'
    <3>1. form' = form
      BY <1>1
    <3>2. SumFunction([term \in Meaning(form).terms |-> Bytes(term)]) > MaxStoredBytes
      BY <1>5, <2>5, Zenon
    <3>3. QED
      BY <3>1, <3>2, Zenon DEF UnavailableMeansFault
  <2>7. ReplayMeansSame' /\ BoundaryAgrees'
    BY <2>2 DEF ReplayMeansSame, BoundaryAgrees
  <2>8. QED
    BY <2>3, <2>4, <2>6, <2>7
<1>8. QED
  BY <1>6, <1>7

LEMMA UAdmitFails == ASSUME UploadInv, AdmitFails PROVE UploadInv'
<1> USE DEF UploadInv
<1>1. /\ at' = "idle" /\ fault' = TRUE /\ UNCHANGED <<form, job, uploads>>
      /\ reply'.status = 503 /\ reply'.code \in {"VALIDATION_UNAVAILABLE", "DATABASE_UNAVAILABLE"}
  BY DEF AdmitFails, Answer
<1>2. FormInv' /\ ReplyInv'
  BY <1>1 DEF FormInv, ReplyInv, Checked
<1>3. JobInv'
  BY <1>1 DEF JobInv
<1>4. ReplayMeansSame' /\ BoundaryAgrees' /\ UnavailableMeansFault'
  BY <1>1 DEF ReplayMeansSame, BoundaryAgrees, UnavailableMeansFault
<1>5. QED
  BY <1>2, <1>3, <1>4

LEMMA UStutter == ASSUME UploadInv, UNCHANGED uploadVars PROVE UploadInv'
<1> USE DEF UploadInv, uploadVars
<1>1. FormInv' /\ ReplyInv' /\ JobInv'
  BY DEF FormInv, ReplyInv, JobInv
<1>2. ReplayMeansSame' /\ BoundaryAgrees' /\ UnavailableMeansFault'
  BY DEF ReplayMeansSame, BoundaryAgrees, UnavailableMeansFault
<1>3. QED
  BY <1>1, <1>2

LEMMA UploadStarts == UploadInit => UploadInv
<1> SUFFICES ASSUME UploadInit PROVE UploadInv
  OBVIOUS
<1> USE DEF UploadInit
<1>1. FormInv /\ ReplyInv
  BY EmptyForm DEF FormInv, ReplyInv, Checked
<1>2. JobInv
  BY DEF JobInv
<1>3. ReplayMeansSame /\ BoundaryAgrees /\ UnavailableMeansFault
  BY DEF ReplayMeansSame, BoundaryAgrees, UnavailableMeansFault, NoReply
<1>4. QED
  BY <1>1, <1>2, <1>3 DEF UploadInv

LEMMA UploadStep == UploadInv /\ [UploadNext]_uploadVars => UploadInv'
<1> SUFFICES ASSUME UploadInv, [UploadNext]_uploadVars PROVE UploadInv'
  OBVIOUS
<1>1. CASE Post \/ NextText \/ LastText \/ KeytermsField \/ FileField \/ FormEnds
  BY <1>1, UPost, UNextText, ULastText, UKeytermsField, UFileField, UFormEnds
<1>2. CASE BadPart \/ UploadDeadline \/ Disconnect
  BY <1>2, UBadPart, UUploadDeadline, UDisconnect
<1>3. CASE CheckCapabilities \/ CheckAudio \/ CheckFingerprint \/ AdmitFails
  BY <1>3, UCheckCapabilities, UCheckAudio, UCheckFingerprint, UAdmitFails
<1>4. CASE Admit
  BY <1>4, UExisting, UInsert DEF Admit
<1>5. CASE UploadsOver \/ UNCHANGED uploadVars
  BY <1>5, UStutter DEF UploadsOver
<1>6. QED
  BY <1>1, <1>2, <1>3, <1>4, <1>5 DEF UploadNext, Server

-----------------------------------------------------------------------------
(* BatchUpload: the theorems *)

\* What a form at some place has passed and what the row under the key says are
\* always consistent with the request that the form or the row stands for.
THEOREM UploadInvariance == UploadSpec => []UploadInv
<1>1. QED
  BY UploadStarts, UploadStep, PTL DEF UploadSpec

\* Whatever key terms and audio clients send, and however often: an upload is
\* answered with the stored job exactly when it means the same request as the
\* job's, and with a conflict otherwise (classify_existing, request_fingerprint).
THEOREM ReplaysMeanTheSame == UploadSpec => []ReplayMeansSame
<1>1. UploadInv => ReplayMeansSame
  BY DEF UploadInv
<1>2. QED
  BY <1>1, UploadInvariance, PTL

\* Whatever the limits and the inputs: no request that passed the boundary is
\* refused by the fingerprint's copy of the checks, the ledger's copy refuses it
\* only for the total length of its key terms, and what the adapter makes of an
\* admitted job's terms is within the provider's limits (canonicalize_keyterms,
\* validate_keyterms, provider_keyterms).
THEOREM AdmittedRequestsAreUsable == UploadSpec => []AdmittedIsUsable
<1>1. UploadInv => AdmittedIsUsable
  <2> SUFFICES ASSUME UploadInv PROVE AdmittedIsUsable
    OBVIOUS
  <2>1. SentTermsWithinLimits
    <3> SUFFICES ASSUME job # NoJob, job.contract = "elevenlabs_v3"
                 PROVE  LET list == provider_keyterms(job.terms)
                        IN  /\ IsInjective(list)
                            /\ \A i \in DOMAIN list :
                                    Len(list[i]) \in 1 .. MaxScalars /\ Words(list[i]) <= MaxWords
      BY DEF SentTermsWithinLimits
    <3>1. job.terms \in Seq(Seq(Scalars)) /\ validate_key_terms("elevenlabs_v3", job.terms)
      BY DEF UploadInv, JobInv
    <3>2. QED
      BY <3>1, SentIsWithin
  <2>2. QED
    BY <2>1 DEF UploadInv, AdmittedIsUsable
<1>2. QED
  BY <1>1, UploadInvariance, PTL
=============================================================================

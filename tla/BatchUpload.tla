----------------------------- MODULE BatchUpload ----------------------------
(***************************************************************************)
(* POST /api/v1/transcribe/batch up to the spawned execution: the checks   *)
(* before the body, the multipart parts in their fixed order under one     *)
(* deadline, the checks of the request, and admission under one            *)
(* idempotency key (server/batch.rs, identity.rs, batch_capabilities.rs).  *)
(* Uploads come one after the other; how concurrent ones race in spool and *)
(* ledger is BatchPipeline's subject, who gets the permits is              *)
(* BatchShutdown's.                                                        *)
(***************************************************************************)
EXTENDS RequestIdentity

CONSTANTS
    MaxUploads,   \* bound of the model on uploads under the key
    Terms,        \* the key terms clients use
    Files,        \* audio files, as byte sequences
    ValidFiles,   \* the ones that are complete Ogg Opus
    Configured    \* the contracts that have a recognizer

\* Key terms are texts of scalar values.
ASSUME UploadAssumption == Terms \subseteq Seq(Scalars) /\ Files \subseteq Seq(Nat)

VARIABLES
    at,       \* where the handler is
    form,     \* what it has read: contract, terms, audio
    reply,    \* the last answer
    job,      \* the row under the key, or NoJob
    fault,    \* spool or ledger failed during this upload
    uploads

uploadVars == <<at, form, reply, job, fault, uploads>>

TextFields == <<"contract_version", "provider", "model", "language">>
Parsing == Range(TextFields) \cup {"keyterms", "file", "end"}

NoForm == [contract |-> "none", terms |-> <<>>, audio |-> <<>>]
NoJob == [fingerprint |-> <<>>]
NoReply == [status |-> 0, code |-> "none"]

\* Ghost: the request a form stands for, whatever order, repetition or outer
\* white space its terms have.
Meaning(f) == [contract |-> f.contract, audio |-> f.audio,
               terms |-> {trim(f.terms[i]) : i \in DOMAIN f.terms}]

Answer(status, code) ==
    /\ at' = "idle"
    /\ reply' = [status |-> status, code |-> code]

Refuse(status, code) == Answer(status, code) /\ UNCHANGED <<form, job, fault, uploads>>

Goto(place) == at' = place /\ UNCHANGED <<reply, job, fault, uploads>>

UploadInit ==
    /\ at = "idle" /\ form = NoForm /\ reply = NoReply
    /\ job = NoJob /\ fault = FALSE /\ uploads = 0

\* authenticate, the two permits and the idempotency key, before the body.
Post ==
    /\ at = "idle" /\ uploads < MaxUploads
    /\ uploads' = uploads + 1
    /\ form' = NoForm /\ fault' = FALSE /\ UNCHANGED job
    /\ \/ Answer(401, "UNAUTHORIZED")
       \/ Answer(429, "RATE_LIMIT_EXCEEDED")
       \/ Answer(400, "INVALID_IDEMPOTENCY_KEY")
       \/ at' = TextFields[1] /\ reply' = NoReply

NextText ==
    \E i \in 1 .. Len(TextFields) - 1 :
        at = TextFields[i] /\ Goto(TextFields[i + 1]) /\ UNCHANGED form

\* The last text field decides the profile and asks for its provider's permit.
LastText ==
    /\ at = Last(TextFields)
    /\ \/ Refuse(400, "UNSUPPORTED_PROFILE")
       \/ \E contract \in Contracts :
            IF contract \notin Configured THEN Refuse(422, "PROFILE_NOT_CONFIGURED")
            ELSE \/ Refuse(429, "RATE_LIMIT_EXCEEDED")
                 \/ form' = [form EXCEPT !.contract = contract] /\ Goto("keyterms")

KeytermsField ==
    /\ at = "keyterms"
    /\ \E terms \in SeqOf(Terms, MaxKeyterms)
                        \cup {[i \in 1 .. MaxKeyterms + 1 |-> t] : t \in Terms} :
            form' = [form EXCEPT !.terms = terms]
    /\ Goto("file")

FileField ==
    /\ at = "file"
    /\ \E audio \in Files : form' = [form EXCEPT !.audio = audio]
    /\ Goto("end")

\* Key terms are looked at when the whole body has been read.
FormEnds ==
    /\ at = "end"
    /\ IF CanCanonicalize(form.terms) THEN Goto("capabilities") /\ UNCHANGED form
       ELSE Refuse(400, "INVALID_KEYTERMS")

\* A part out of order, too large, not UTF-8, missing or one too many.
BadPart ==
    /\ at \in Parsing
    /\ Refuse(400, "INVALID_MULTIPART")

\* Mutant: the deadline covers the text fields only.
UploadDeadline_TextOnly ==
    at \in Range(TextFields) /\ Refuse(400, "UPLOAD_DEADLINE_EXCEEDED")

UploadDeadline ==
    at \in Parsing /\ Refuse(400, "UPLOAD_DEADLINE_EXCEEDED")

\* The client goes away and the handler is dropped.
Disconnect ==
    at \in Parsing /\ Refuse(0, "none")

CheckCapabilities ==
    /\ at = "capabilities"
    /\ IF validate_key_terms(form.contract, canonicalize_keyterms(form.terms)) /\ form.audio # <<>>
       THEN Goto("audio") /\ UNCHANGED form
       ELSE Refuse(400, "UNSUPPORTED_BATCH_CAPABILITY")

CheckAudio ==
    /\ at = "audio"
    /\ IF form.audio \in ValidFiles THEN Goto("fingerprint") /\ UNCHANGED form
       ELSE Refuse(400, "INVALID_OGG_OPUS")

CheckFingerprint ==
    /\ at = "fingerprint"
    /\ IF CanFingerprint(canonicalize_keyterms(form.terms), form.audio)
       THEN Goto("admit") /\ UNCHANGED form
       ELSE Refuse(400, "INVALID_BATCH_REQUEST")

Fingerprint(f) ==
    request_fingerprint(f.contract, canonicalize_keyterms(f.terms), f.audio)

\* classify_existing
Existing ==
    /\ job # NoJob
    /\ IF job.contract = form.contract /\ job.fingerprint = Fingerprint(form)
       THEN Answer(200, "replay") ELSE Answer(409, "IDEMPOTENCY_CONFLICT")
    /\ UNCHANGED <<form, job, fault, uploads>>

\* admit with a new key: a row the record adapter refuses is a store failure
\* like any other.
Insert ==
    /\ job = NoJob
    /\ IF StorableKeyterms(canonicalize_keyterms(form.terms))
       THEN /\ job' = [fingerprint |-> Fingerprint(form), contract |-> form.contract,
                       terms |-> canonicalize_keyterms(form.terms), meaning |-> Meaning(form)]
            /\ Answer(202, "accepted")
       ELSE Answer(503, "DATABASE_UNAVAILABLE") /\ UNCHANGED job
    /\ UNCHANGED <<form, fault, uploads>>

Admit == at = "admit" /\ (Existing \/ Insert)

\* Spool or ledger fails, or the blocking validation does.
AdmitFails ==
    /\ at \in {"audio", "admit"}
    /\ fault' = TRUE
    /\ Answer(503, IF at = "audio" THEN "VALIDATION_UNAVAILABLE" ELSE "DATABASE_UNAVAILABLE")
    /\ UNCHANGED <<form, job, uploads>>

\* Nothing more is sent.
UploadsOver == at = "idle" /\ uploads = MaxUploads /\ UNCHANGED uploadVars

Server ==
    CheckCapabilities \/ CheckAudio \/ CheckFingerprint \/ Admit \/ AdmitFails

UploadNext ==
    \/ Post \/ NextText \/ LastText \/ KeytermsField \/ FileField \/ FormEnds
    \/ BadPart \/ UploadDeadline \/ Disconnect
    \/ Server \/ UploadsOver

UploadSpec == UploadInit /\ [][UploadNext]_uploadVars

\* The timer of the upload and the handler's own steps; nothing of the client.
UploadFairSpec == UploadSpec /\ WF_uploadVars(UploadDeadline) /\ WF_uploadVars(Server)

-----------------------------------------------------------------------------
(* Properties *)

\* A POST under a used key is answered with the stored job exactly when it
\* means the same request, however its key terms were ordered, repeated or
\* padded, and with a conflict otherwise (classify_existing, request_fingerprint).
ReplayMeansSame ==
    at = "idle" /\ reply.status \in {200, 409} =>
        (reply.status = 200 <=> job.meaning = Meaning(form))

\* A request that the boundary has found valid is never refused later for what
\* it says: INVALID_BATCH_REQUEST cannot happen, the canonical form is the one
\* the fingerprint asks for (canonicalize_keyterms, validate_keyterms).
BoundaryAgrees == reply.code # "INVALID_BATCH_REQUEST"

\* A 503, which tells the client to send the same request again, is the answer
\* to a fault.  The only request that gets one without a fault, each time it
\* is sent, is one whose key terms are together longer than the ledger stores:
\* in everything else the record adapter's copy of the checks agrees with
\* the boundary's (map_coordinator_failure, GatewayHttpError::unavailable).
UnavailableMeansFault ==
    reply.status = 503 =>
        \/ fault
        \/ SumFunction([term \in Meaning(form).terms |-> Bytes(term)]) > MaxStoredBytes

\* What the ElevenLabs adapter makes of an admitted job's terms is within the
\* provider's limits: not empty, no term twice, none longer than the
\* descriptor allows (batch_keyterms.rs, batch_capabilities.rs).
SentTermsWithinLimits ==
    job # NoJob /\ job.contract = "elevenlabs_v3" =>
        LET sent == provider_keyterms(job.terms)
        IN  /\ IsInjective(sent)
            /\ \A i \in DOMAIN sent :
                    Len(sent[i]) \in 1 .. MaxScalars /\ Words(sent[i]) <= MaxWords

\* Every upload is answered or abandoned, although clients may stall at any
\* part (UPLOAD_DEADLINE).
UploadAnswered == at # "idle" ~> at = "idle"

\* What passes the boundary passes every later check of the same request, in
\* fingerprint, ledger and provider, but for the ledger's total of key terms
\* (parse_multipart, validate_keyterms, provider_keyterms).
AdmittedIsUsable == BoundaryAgrees /\ UnavailableMeansFault /\ SentTermsWithinLimits
=============================================================================

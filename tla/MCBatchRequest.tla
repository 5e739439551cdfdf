--------------------------- MODULE MCBatchRequest ---------------------------
(***************************************************************************)
(* The three stations of a batch request, for TLC: the upload              *)
(* (BatchUpload), the validation of its audio (OggOpus) and the exchange   *)
(* with the provider (ProviderExchange).  What one hands to the next is    *)
(* abstracted in each of them, so a behaviour follows one station: part    *)
(* says which.  "stalling" is uploads with few inputs, whose client may    *)
(* stall.                                                                  *)
(***************************************************************************)
EXTENDS ProviderExchange, OggOpus, BatchUpload

OneAudio == [q \in Requests |-> "audio"]

\* One status of each class the adapters tell apart.
SomeStatuses == {200, 302, 400, 408, 429, 500}

VARIABLES part

allVars == <<part, exVars, uploadVars, audioVars>>

\* Terms whose lengths differ in bytes, UTF-16 units and scalars, whose order
\* differs in the two encodings, and that white space or the limits rule out.
\* Two of four bytes exceed what is stored.
UploadTerms ==
    {<<Letter>>, <<Letter, Letter>>, <<Letter, Private>>, <<Private>>, <<Emoji>>,
     <<Space, Letter>>, <<Letter, Space, Space, Letter>>,
     <<Letter, Space, Letter>>, <<Bracket>>, <<Tab>>,
     <<Letter, Letter, Letter, Letter, Letter>>}

UploadFiles == {<<1>>, <<2>>, <<3>>, <<>>}
OpusFiles == {<<1>>, <<2>>}

FewForms == [contract : {"none", "deepgram_v2"},
             terms : SeqOf({<<Letter>>, <<Emoji>>, <<Tab>>}, MaxKeyterms + 1),
             audio : {<<>>, <<1>>, <<3>>}]

\* No packet, one or two, some no Opus packets or too long.
SomePackets == {<<>>, <<0>>, <<3>>, <<1>>, <<2>>, <<2, 1>>, <<1, 0>>}

RequestInit ==
    /\ Init /\ AudioInit /\ UploadInit
    /\ part \in {"upload", "stalling", "audio", "exchange"}
    /\ part # "exchange" => adapter = "deepgram" /\ valid

RequestNext ==
    /\ \/ part = "upload" /\ UploadNext /\ UNCHANGED <<exVars, audioVars>>
       \/ /\ part = "stalling" /\ UploadNext /\ UNCHANGED <<exVars, audioVars>>
          /\ form' \in FewForms
       \/ part = "audio" /\ AudioNext /\ UNCHANGED <<exVars, uploadVars>>
       \/ part = "exchange" /\ Next /\ UNCHANGED <<uploadVars, audioVars>>
    /\ UNCHANGED part

\* The fairness of BatchUpload and of ProviderExchange.
RequestSpec ==
    /\ RequestInit /\ [][RequestNext]_allVars
    /\ WF_uploadVars(part = "stalling" /\ UploadDeadline)
    /\ WF_uploadVars(part = "stalling" /\ Server)
    /\ WF_exVars(part = "exchange" /\ (RejectsRequest \/ ConnectFails \/ RequestLeaves))
    /\ WF_exVars(part = "exchange" /\ NoResponse)
    /\ WF_exVars(part = "exchange" /\ BodyFails)

-----------------------------------------------------------------------------
\* Every upload is answered or abandoned although its client may stall
\* (UPLOAD_DEADLINE), and every submission comes to an outcome although the
\* provider may never answer (the HTTP client's total timeout).
RequestEnds ==
    /\ part = "stalling" => UploadAnswered
    /\ part = "exchange" => SubmissionEnds
=============================================================================

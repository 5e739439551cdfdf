\* Three requests and the backlog worker compete for two permits while a
\* shutdown runs; two live clients for one slot; every kind of first frame; two
\* records for one place.
SPECIFICATION AdmissionSpec
CONSTANTS
    r1 = r1   r2 = r2   r3 = r3   c1 = c1   c2 = c2   c3 = c3
    Requests = {r1, r2, r3}
    Worker = Worker
    Shutdown = Shutdown
    Capacity = 2
    Candidates = 2
    MaxLanguageChars = 4
    MaxLanguageBytes = 3
    MaxTermCount = 3
    MaxTermChars = 4
    MaxTotalChars = 8
    DeepgramTermBytes = 4
    ElevenLabsTerms = 2
    ElevenLabsScalars = 3
    MaxTranscript = 4
    Calls = {r1, r2}
    MaxObservations = 1
    Clients = {c1, c2, c3}
    LiveConnections = 1
    Configured = {"deepgram", "elevenlabs"}
    Frames <- MCFrames
    Texts <- MCTexts
INVARIANTS
    PermitsConserved
    TasksAccountedFor
    RefusedOnlyLate
    PaidHoldsSlot
    HandshakeFaithful
    EvidenceInv
PROPERTIES
    QuietAborts
    AdmissionDrains
    WorkersEnd

\* The ElevenLabs adapter under a session, up to two frames.
SPECIFICATION ElSpec
CONSTANTS
    MaxPending = 2
    MaxSequence = 2
    Second = 3
    SampleRate = 2
    BytesPerSampleFrame = 2
    Lead = 0
    MaxU64 = 20
    MaxPcmBytes = 4
    PcmLengths = {2, 4}
    ProviderTimes = {}
    NoTranscript = NoTranscript
    MaxRecent = 1
    MaxPendingEvents = 1
    NoEvent = NoEvent
    FinalizeResult = FinalizeResult
    Texts <- SomeTexts
    MaxTokens = 3
INVARIANTS
    ClockInv
    TimelineAgrees
    MarkerMeansFlush

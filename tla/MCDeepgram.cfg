\* The Deepgram adapter under a session; half milliseconds.
SPECIFICATION DgFairSpec
CONSTANTS
    MaxPending = 2
    MaxSequence = 2
    Second = 2
    SampleRate = 2
    BytesPerSampleFrame = 2
    Lead = 1
    MaxU64 = 12
    MaxPcmBytes = 4
    PcmLengths = {2}
    ProviderTimes = {}
    NoTranscript = NoTranscript
    TicksPerMilli = 2
    FinalizeResult = FinalizeResult
    Ticks <- FewTicks
    MaxIgnored = 2
INVARIANTS
    FlushIncludesText
    HonestFinalsFit
PROPERTIES
    DgSessionEnds

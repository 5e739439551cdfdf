\* One session, up to two frames, half a millisecond a sample, and
\* two provider events; the last sample does not fit the width.
SPECIFICATION ObsFairSpec
CONSTANTS
    MaxPending = 2
    MaxSequence = 2
    Second = 1
    SampleRate = 2
    BytesPerSampleFrame = 2
    Lead = 1
    MaxU64 = 3
    MaxPcmBytes = 4
    PcmLengths = {2, 3, 4, 6}
    ProviderTimes <- Times
    NoTranscript = NoTranscript
    MaxEvents = 2
INVARIANTS
    TypeOK
    DomainAgrees
    WithinHeardAudio
    RecordHonest
PROPERTIES
    FinalsInOrder
    KeepsLivePromise
    SessionEnds

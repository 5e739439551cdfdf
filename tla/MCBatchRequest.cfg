\* Two uploads under one key; files of up to six pages; three attempts of one
\* job with either adapter.
SPECIFICATION RequestSpec
CONSTANTS
    Jobs = {1}
    Requests = {r}
    NoRequest = NoRequest
    Audios = {"audio"}
    NoAudio = NoAudio
    AudioOf <- OneAudio
    MaxAttempt = 3
    Statuses <- SomeStatuses
    MaxSuccess = 3
    MaxErrorBody = 1
    Chunks = {1, 2, 4}
    TheRequest = r
    Granules = {0, 1, 2, 3, 4, 5, 6, 7}
    Packets <- SomePackets
    PreSkips = {0, 1, 2, 3}
    MaxPreSkip = 2
    MaxSamples = 2
    Rate = 3
    PerSecond = 2
    MaxPages = 6
    MaxKeyterms = 2
    MaxKeytermBytes = 4
    MaxScalars = 3
    MaxWords = 2
    MaxStoredBytes = 7
    MaxUploads = 2
    Configured = {"deepgram_v2", "elevenlabs_v3"}
    Terms <- UploadTerms
    Files <- UploadFiles
    ValidFiles <- OpusFiles
INVARIANTS
    AcceptanceKnown
    ReplayMeansSame
    AdmittedIsUsable
    DurationIsHeard
PROPERTIES
    RequestEnds

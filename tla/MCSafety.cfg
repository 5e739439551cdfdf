\* Two concurrent identical requests under every kind of fault, observed.
SPECIFICATION ObsSpec
CONSTANTS
    q1 = q1   q2 = q2   q3 = q3
    a1 = a1   a2 = a2   a3 = a3
    s1 = s1   s2 = s2
    Jobs <- OneJob
    Requests = {q1}
    NoRequest = NoRequest
    Audios = {a1}
    NoAudio = NoAudio
    AudioOf <- OneAudio
    MaxAttempt = 2
    MaxLate = 1
    MaxFiles = 2
    Slots = {s1, s2}
    Drainer = Drainer
    PageLimit = 1
    Faults = {"crash", "ledger", "spool", "disconnect"}
    Configurations <- EveryProfile
INVARIANTS
    TypeOK
    PaidAtMostOnce
    InFlightOwnsRow
    FenceInv
    RecordsHonest
PROPERTIES
    KeepsPromise

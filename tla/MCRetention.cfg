\* Every fault but a failing ledger: accepted audio is never lost.
SPECIFICATION Spec
CONSTANTS
    q1 = q1   q2 = q2   q3 = q3
    a1 = a1   a2 = a2   a3 = a3
    s1 = s1   s2 = s2
    Jobs <- OneJob
    Requests = {q1, q2, q3}
    NoRequest = NoRequest
    Audios = {a1, a2, a3}
    NoAudio = NoAudio
    AudioOf <- ThreeAudios
    MaxAttempt = 2
    MaxLate = 1
    MaxFiles = 2
    Slots = {s1, s2}
    Drainer = Drainer
    PageLimit = 1
    Faults = {"crash", "spool", "disconnect", "age"}
    Configurations <- EveryProfile
SYMMETRY SlotSymmetry
INVARIANT
    AcceptedAudioKept

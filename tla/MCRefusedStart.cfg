\* Two conflicting requests and one crash.
SPECIFICATION Spec
CONSTANTS
    q1 = q1   q2 = q2   q3 = q3
    a1 = a1   a2 = a2   a3 = a3
    s1 = s1   s2 = s2
    Jobs <- OneJob
    Requests = {q1, q2}
    NoRequest = NoRequest
    Audios = {a1, a2}
    NoAudio = NoAudio
    AudioOf <- TwoAudios
    MaxAttempt = 1
    MaxLate = 0
    MaxFiles = 2
    Slots = {s1, s2}
    Drainer = Drainer
    PageLimit = 1
    Faults = {"crash"}
    Configurations <- EveryProfile
INVARIANT
    StartupNeverRefused

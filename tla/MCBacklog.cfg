\* Two jobs, pages of one: the page loops of recovery and of the drain worker.
SPECIFICATION FairSpec
CONSTANTS
    q1 = q1   q2 = q2   q3 = q3
    a1 = a1   a2 = a2   a3 = a3
    s1 = s1   s2 = s2
    Jobs <- TwoJobs
    Requests = {q1, q2}
    NoRequest = NoRequest
    Audios = {a1}
    NoAudio = NoAudio
    AudioOf <- SameAudio
    MaxAttempt = 1
    MaxLate = 0
    MaxFiles = 2
    Slots = {s1}
    Drainer = Drainer
    PageLimit = 1
    Faults = {"crash"}
    Configurations <- FewerProfiles
PROPERTY
    BacklogResumes

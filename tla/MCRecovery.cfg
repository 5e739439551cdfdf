\* Two jobs, pages of one, every fault of ledger, spool and process: startup ends what a crash interrupted.
SPECIFICATION Spec
CONSTANTS
    q1 = q1   q2 = q2   q3 = q3
    a1 = a1   a2 = a2   a3 = a3
    s1 = s1   s2 = s2
    Jobs <- TwoJobs
    Requests = {q1}
    NoRequest = NoRequest
    Audios = {a1}
    NoAudio = NoAudio
    AudioOf <- OneAudio
    MaxAttempt = 1
    MaxLate = 1
    MaxFiles = 2
    Slots = {s1}
    Drainer = Drainer
    PageLimit = 1
    Faults = {"crash", "ledger", "spool"}
    Configurations <- EveryProfile
INVARIANTS
    InterruptedFenced
    TerminalAudioReclaimed

---------------------------- MODULE LiveTimeline ----------------------------
(***************************************************************************)
(* The timing policy of one live session (application/live_timeline.rs):   *)
(* a horizon of successfully written audio, a bounded lead of provider     *)
(* timestamps over it, and final transcripts that never overlap.  All      *)
(* arithmetic is the checked u64 arithmetic of the code, over 0 .. MaxU64. *)
(***************************************************************************)
EXTENDS Integers

CONSTANTS
    Second,              \* milliseconds in a second (1000 in the code)
    SampleRate,          \* sample_rate_hz of the session
    BytesPerSampleFrame, \* channels times two bytes
    Lead,                \* PROVIDER_LEAD_TOLERANCE_MILLIS (250 in the code)
    MaxU64,              \* u64::MAX in the code
    MaxPcmBytes          \* MAX_PCM_FRAME_BYTES (65536 in the code)

ASSUME RateAssumption  == /\ Second \in Nat \ {0}
                          /\ SampleRate \in Nat \ {0}
                          /\ BytesPerSampleFrame \in Nat \ {0}
ASSUME BoundAssumption == Lead \in Nat /\ MaxU64 \in Nat /\ MaxPcmBytes \in Nat

Millis == 0 .. MaxU64
NoFinal == -1

Timeline == [samples    : Millis,               \* accepted_sample_frames
             horizon    : Millis,               \* accepted_horizon_millis
             last_final : Millis \cup {NoFinal}]

NewTimeline == [samples |-> 0, horizon |-> 0, last_final |-> NoFinal]

\* A transcript of the provider.  Its text and confidence are abstracted.
Stability  == {"partial", "segment_final", "utterance_final"}
Transcript == [start : Millis, duration : Millis, stability : Stability]

IsFinal(tr) == tr.stability # "partial"
End(tr) == tr.start + tr.duration

total_sample_frames(tl, bytes) == tl.samples + bytes \div BytesPerSampleFrame

checked_horizon_millis(samples) == (samples * Second) \div SampleRate

\* prepare_audio_write, with the frame bound provider_write checks first.
CanPrepareAudioWrite(tl, bytes) ==
    /\ bytes <= MaxPcmBytes
    /\ bytes # 0
    /\ bytes % BytesPerSampleFrame = 0
    /\ total_sample_frames(tl, bytes) <= MaxU64
    /\ total_sample_frames(tl, bytes) * Second <= MaxU64

\* Mutant: the horizon adds up rounded frame durations.
commit_audio_write_Rounded(tl, bytes) ==
    [tl EXCEPT !.samples = total_sample_frames(tl, bytes),
               !.horizon = tl.horizon +
                    ((bytes \div BytesPerSampleFrame) * Second + SampleRate - 1) \div SampleRate]

commit_audio_write(tl, bytes) ==
    [tl EXCEPT !.samples = total_sample_frames(tl, bytes),
               !.horizon = checked_horizon_millis(total_sample_frames(tl, bytes))]

WithinHorizon(tl, end) == end - tl.horizon <= Lead

\* Mutant: a final that starts before the previous one ended is let through.
ValidTranscript_Overlapping(tl, tr) ==
    /\ End(tr) <= MaxU64
    /\ WithinHorizon(tl, End(tr))

ValidTranscript(tl, tr) ==
    /\ End(tr) <= MaxU64
    /\ WithinHorizon(tl, End(tr))
    /\ IsFinal(tr) => tr.start >= tl.last_final

\* validate_transcript, for a transcript that is valid.
accept_transcript(tl, tr) ==
    IF IsFinal(tr) THEN [tl EXCEPT !.last_final = End(tr)] ELSE tl
=============================================================================

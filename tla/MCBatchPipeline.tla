--------------------------- MODULE MCBatchPipeline --------------------------
(***************************************************************************)
(* Instances of BatchPipeline for TLC.                                     *)
(***************************************************************************)
EXTENDS BatchPipeline, TLC

CONSTANTS q1, q2, q3, a1, a2, a3, s1, s2

\* Sound for the runs that check invariants only: nothing tells slots apart.
SlotSymmetry == Permutations(Slots)

OneJob    == {1}
TwoJobs   == {1, 2}
ThreeJobs == {1, 2, 3}

\* What the requests upload under one idempotency key.
OneAudio    == (q1 :> a1)
TwoAudios   == (q1 :> a1) @@ (q2 :> a2)
SameAudio   == (q1 :> a1) @@ (q2 :> a1)
ThreeAudios == (q1 :> a1) @@ (q2 :> a2) @@ (q3 :> a3)

\* A process serves every profile, all but that of q2, or none.
EveryProfile == {Requests}
FewerProfiles == {Requests, {q1}, {}}
=============================================================================

--------------------------- MODULE MCBatchObserved --------------------------
(***************************************************************************)
(* Instances of BatchObserved for TLC.                                     *)
(***************************************************************************)
EXTENDS BatchObserved, TLC

CONSTANTS q1, q2, q3, a1, a2, a3, s1, s2

OneJob    == {1}
TwoJobs   == {1, 2}
ThreeJobs == {1, 2, 3}

\* What the requests upload under one idempotency key.
OneAudio    == (q1 :> a1)
TwoAudios   == (q1 :> a1) @@ (q2 :> a2)
ThreeAudios == (q1 :> a1) @@ (q2 :> a2) @@ (q3 :> a3)

\* Every process serves every profile.
EveryProfile == {Requests}
=============================================================================

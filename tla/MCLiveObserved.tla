--------------------------- MODULE MCLiveObserved ---------------------------
(***************************************************************************)
(* Instances of LiveObserved for TLC.                                      *)
(***************************************************************************)
EXTENDS LiveObserved

Times == {0, 1}
=============================================================================

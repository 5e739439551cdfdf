--------------------------- MODULE MCLiveDeepgram ---------------------------
(***************************************************************************)
(* Instances of LiveDeepgram for TLC.                                      *)
(***************************************************************************)
EXTENDS LiveDeepgram

FewTicks == 0 .. 4
=============================================================================

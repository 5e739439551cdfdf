-------------------------- MODULE MCLiveElevenLabs --------------------------
(***************************************************************************)
(* Instances of LiveElevenLabs for TLC: tokens of one or two characters,   *)
(* so that different token sequences may normalize to the same text.       *)
(***************************************************************************)
EXTENDS LiveElevenLabs

SomeTexts == {<<>>, <<<<1>>>>, <<<<1>>, <<2>>>>, <<<<1, 2>>>>}
=============================================================================

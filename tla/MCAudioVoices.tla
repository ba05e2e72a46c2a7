--------------------------- MODULE MCAudioVoices ---------------------------
(***************************************************************************)
(* Two cues and the voices they need when one of them is started again     *)
(* while its last voice fades out.                                         *)
(***************************************************************************)
EXTENDS AudioVoices, TLC

CONSTANTS a, b, v1, v2

OneCue == <<a>>
TwoCues == <<a, b>>
AllVoices == {v1, v2}
VoiceSymmetry == Permutations(AllVoices)

=============================================================================

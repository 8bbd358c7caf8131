---------------------------- MODULE MCVoiceSystem ----------------------------
(***************************************************************************)
(* Small instances of VoiceSystem.                                         *)
(***************************************************************************)
EXTENDS VoiceSystem

Clean == {TRUE}
AsWritten == {TRUE, FALSE}
=============================================================================

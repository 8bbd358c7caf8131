---------------------------- MODULE MCVoiceServer ----------------------------
(***************************************************************************)
(* Small instances of VoiceServer.                                         *)
(***************************************************************************)
EXTENDS VoiceServer, TLC

ClientSymmetry == Permutations(Clients)
=============================================================================

--------------------------- MODULE MCSpeechPool ---------------------------
(***************************************************************************)
(* Instances of SpeechPool for TLC: the menu and the e-mail speed of one   *)
(* voice, so that two runtimes share an engine.                            *)
(***************************************************************************)
EXTENDS SpeechPool

MCVoiceOf == [k \in Keys |-> "voice"]
=============================================================================

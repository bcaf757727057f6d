----------------------------- MODULE MCVoicebot -----------------------------
(* The pipelines of Voicebot on small instances, and the properties of the *)
(* module each belongs to.                                                 *)
EXTENDS Voicebot
=============================================================================

----------------------------- MODULE MCSession -----------------------------
(* The three programs of Session on a small instance. *)
EXTENDS Session

AllPrograms == {"voicebot", "voicebot-livekit", "client"}
=============================================================================

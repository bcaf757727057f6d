---------------------------- MODULE MCVoiceTurn ----------------------------
(***************************************************************************)
(* An instance of VoiceTurn for TLC; its constants are in the .cfg files.  *)
(***************************************************************************)
EXTENDS VoiceTurn

(* The completions and syntheses cannot outnumber the transcripts. *)
ASSUME SmallInstance == Transcripts <= 3 /\ Pieces <= 2
=============================================================================

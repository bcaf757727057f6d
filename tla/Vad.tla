-------------------------------- MODULE Vad --------------------------------
(***************************************************************************)
(* Voice activity detection: vad.EnergyAnalyzer, which decides where the   *)
(* user's speech begins and ends, and turn.SilenceAnalyzer, the second     *)
(* detector of the end of a turn (audio/vad/vad.go, audio/turn/silence.go).*)
(* Both are sequential, so they are functions from state to state.         *)
(*                                                                         *)
(* Of a chunk of PCM only its sound matters: "speech" reaches the RMS      *)
(* threshold, "silence" does not, and a "scrap" has no whole sample.       *)
(***************************************************************************)
EXTENDS Integers

CONSTANTS
  MinSpeech,      \* EnergyAnalyzer.MinSpeech: chunks of speech that start a turn
  MinSilence,     \* EnergyAnalyzer.MinSilence: chunks of silence that stop it
  SilenceStopMS,  \* EnergyAnalyzer.SilenceStopMS; 0: count chunks instead
  ChunkMS         \* duration of a chunk

NewAnalyzer == [speechRun |-> 0, silenceRun |-> 0, silenceMS |-> 0, inSpeech |-> FALSE]

HearSpeech(e) ==
  [speechRun |-> e.speechRun + 1, silenceRun |-> 0, silenceMS |-> 0,
   inSpeech |-> e.inSpeech \/ e.speechRun + 1 >= MinSpeech]

(* A turn ends after a time of silence... *)
HearSilenceByTime(e) ==
  LET ms == IF e.inSpeech THEN e.silenceMS + ChunkMS ELSE e.silenceMS
      over == e.inSpeech /\ ms >= SilenceStopMS
  IN [e EXCEPT !.speechRun = 0, !.silenceMS = IF over THEN 0 ELSE ms,
               !.inSpeech = @ /\ ~over]

(* ... or after a number of silent chunks. *)
HearSilenceByCount(e) ==
  [e EXCEPT !.speechRun = 0, !.silenceRun = @ + 1,
            !.inSpeech = @ /\ e.silenceRun + 1 < MinSilence]

HearSilence(e) ==
  IF SilenceStopMS > 0 THEN HearSilenceByTime(e) ELSE HearSilenceByCount(e)

Analyze_KeepsSilence(e, sound) ==
  CASE sound = "speech" -> [HearSpeech(e) EXCEPT !.silenceMS = e.silenceMS]
    [] sound = "silence" -> HearSilence(e)
    [] sound = "scrap" -> e

Analyze(e, sound) ==
  CASE sound = "speech" -> HearSpeech(e)
    [] sound = "silence" -> HearSilence(e)
    [] sound = "scrap" -> e

(* The results of Analyze: the user began, or stopped, speaking. *)
Started(e, sound) == ~e.inSpeech /\ Analyze(e, sound).inSpeech
Stopped(e, sound) == e.inSpeech /\ ~Analyze(e, sound).inSpeech

-----------------------------------------------------------------------------
(* turn.SilenceAnalyzer with StopMS = SilenceStopMS *)

NewSilence == [speechSeen |-> FALSE, silenceMS |-> 0]

AppendAudio(s, sound) ==
  CASE sound = "speech" -> [speechSeen |-> TRUE, silenceMS |-> 0]
    [] sound = "silence" /\ s.speechSeen ->
         IF s.silenceMS + ChunkMS >= SilenceStopMS THEN NewSilence
         ELSE [s EXCEPT !.silenceMS = @ + ChunkMS]
    [] sound = "scrap" \/ (sound = "silence" /\ ~s.speechSeen) -> s

(* StateComplete *)
Complete(s, sound) == s.speechSeen /\ ~AppendAudio(s, sound).speechSeen
=============================================================================

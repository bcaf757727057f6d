------------------------------ MODULE Voicebot ------------------------------
(***************************************************************************)
(* The pipelines of cmd/voicebot and cmd/voicebot-livekit up to the first  *)
(* service.  Both begin with the UserProcessor (Idle); PIPELINE chooses    *)
(* what follows the transport's input, the chain that begins with VAD and  *)
(* STT (Listening) or a realtime service (Realtime).  All of them share    *)
(* one BotState.                                                           *)
(*                                                                         *)
(* Nothing else connects the idle detectors with the services, since what  *)
(* the services emit goes downstream, away from the first processor; so a  *)
(* behaviour of this module is one of Listening, of Realtime or of Idle,   *)
(* with the others at rest, and not their product.                         *)
(***************************************************************************)
EXTENDS InboxOps

CONSTANTS
  Barges,                                          \* shared by two
  MinSpeech, MinSilence, SilenceStopMS, ChunkMS,   \* Vad
  Sounds, Chunks, EndsByHand, BotTurns, InFlight, Services, MinChunks, MaxPolls,
  RealtimeServices, Messages,                      \* Realtime
  Timeout, LastTick, Frequency, Position           \* Idle

ASSUME ListeningAssumption ==
  /\ {MinSpeech, MinSilence, ChunkMS, MinChunks, MaxPolls} \subseteq Nat \ {0}
  /\ {SilenceStopMS, Chunks, EndsByHand, BotTurns, Barges, InFlight} \subseteq Nat
  /\ Sounds \subseteq {"speech", "silence", "scrap"}
  /\ Services \subseteq {"deepgram", "whisper", "assemblyai", "google"}

ASSUME RealtimeAssumption ==
  RealtimeServices \subseteq {"openai", "gemini"} /\ Messages \in Nat

ASSUME IdleAssumption ==
  /\ Timeout \in Nat \ {0} /\ LastTick \in Nat /\ Frequency \in Nat
  /\ Position \in {"first", "behind"}

VARIABLES
  pipeline,  \* the part of the program that runs
  service,   \* the STT or realtime service
  speaking,  \* BotState
  hasKey, sent, ends, barges, vad, silence, inbox, tracker, botTurns, buf, flushes,
  heard, turns, ignored, wiped,
  life, started, connecting, conn, dials, voiceOut, pushing, gotStart, gotEnd, barged,
  out, silenced, said,
  now, busy, userInbox, timers, firing, retryCount, begun, watch, watchTimer, resetC,
  lastActive, lastSeen, lastReset, drained, givenUp

listeningVars == <<hasKey, sent, ends, barges, vad, silence, inbox, tracker, botTurns, buf,
                   flushes, heard, turns, ignored, wiped>>
realtimeVars == <<life, started, connecting, conn, dials, voiceOut, pushing, gotStart,
                  gotEnd, barged, out, silenced, said>>
idleVars == <<now, busy, userInbox, timers, firing, retryCount, begun, watch, watchTimer,
              resetC, lastActive, lastSeen, lastReset, drained, givenUp>>
vars == <<pipeline, service, speaking, listeningVars, realtimeVars, idleVars>>

L == INSTANCE Listening
R == INSTANCE Realtime
I == INSTANCE Idle

Init ==
  /\ pipeline \in {"classic", "realtime", "idle"}
  /\ service \in CASE pipeline = "classic" -> Services
                   [] pipeline = "realtime" -> RealtimeServices
                   [] pipeline = "idle" -> {"none"}
  /\ hasKey \in IF pipeline = "classic" THEN BOOLEAN ELSE {TRUE}
  /\ speaking = FALSE
  /\ L!AtRest /\ R!AtRest /\ I!Asleep

Classic  == pipeline = "classic" /\ L!Next /\ UNCHANGED <<pipeline, realtimeVars, idleVars>>
Realtime == pipeline = "realtime" /\ R!Next /\ UNCHANGED <<pipeline, listeningVars, idleVars>>
Idling   == pipeline = "idle" /\ I!Next
            /\ UNCHANGED <<pipeline, service, speaking, listeningVars, realtimeVars>>

Next == Classic \/ Realtime \/ Idling

Spec == Init /\ [][Next]_vars

-----------------------------------------------------------------------------
(* What the parts promise, each while the others are at rest. *)

(* Listening: no chunk of audio is transcribed twice or kept after it was. *)
ChunkOnce == L!ChunkOnce
(* Listening: no chunk of an utterance is lost between flushes unnoticed. *)
UtteranceWhole == L!UtteranceWhole
(* Listening: the two detectors of the end of a turn hear the same silence. *)
EndOfTurnAgrees == L!EndOfTurnAgrees
(* Listening: turns start and end in turn, whoever ends them. *)
TurnsAlternate == L!TurnsAlternate
(* Realtime: one connection at most, and nothing heard of an older one. *)
OneVoice == R!OneVoice
(* Realtime: audio is announced, once, and none comes after its end. *)
AudioIsAnnounced == R!AudioIsAnnounced
(* Idle: monitoring goes on unless it was told otherwise. *)
MonitoringGoesOn == I!MonitoringGoesOn
(* Idle: callback and watchdog come only after a silence, or race activity. *)
NeitherFiresEarly == I!NeitherFiresEarly
(* Idle: what user_idle.go:14 says of the callback. *)
UserWasSilent == I!UserWasSilent
=============================================================================

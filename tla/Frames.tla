------------------------------- MODULE Frames -------------------------------
(***************************************************************************)
(* The frame vocabulary of llmpipe (package frames): which kinds of frame  *)
(* exist, in which category each is, and what the runtime derives from the *)
(* category.  A frame's payload is irrelevant to every property of the     *)
(* runtime, so a frame is its kind; modules that must tell two frames of   *)
(* one kind apart add a number.                                            *)
(***************************************************************************)

(* Frames that embed frames.System: they use the priority lane. *)
SystemKinds ==
  {"Start", "Cancel", "Error", "FatalError", "InputAudio", "Interruption",
   "InterruptionTask", "Stop", "Heartbeat", "BotSpeaking",
   "UserStartedSpeaking", "UserStoppedSpeaking",
   "VADUserStartedSpeaking", "VADUserStoppedSpeaking",
   "BotStartedSpeaking", "BotStoppedSpeaking", "TurnStarted", "TurnEnded"}

(* Frames that travel in the data lane, control frames included. *)
DataKinds ==
  {"End", "LLMRun", "LLMFullResponseStart", "LLMFullResponseEnd",
   "LLMSetTools", "FunctionCallResult", "TTSAudio", "Transcription",
   "InterimTranscription", "Text", "LLMText", "LLMMessagesAppend",
   "TransportMessage", "UserIdleFire"}

(* Frames that embed frames.Uninterruptible. *)
UninterruptibleKinds == {"End", "FunctionCallResult"}

FrameKinds == SystemKinds \cup DataKinds

IsSystem(kind) == kind \in SystemKinds

(* What an interruption may drop: neither uninterruptible nor system. *)
Interruptible(kind) == kind \notin UninterruptibleKinds /\ ~IsSystem(kind)

(* Frames the runtime forwards itself when Process did not. *)
AutoForwardDown(kind) == kind \in {"Start", "End", "Cancel"}
AutoForwardUp(kind) == kind \in {"Error", "FatalError"}

(* Frames the parallel join takes out of a wave and orders itself. *)
IsSyncFrame(kind) == kind \in {"Start", "End", "Cancel"}

(* Frames that make the pipeline sink report that the task has ended. *)
EndsTask(kind) == kind \in {"End", "Stop"}
=============================================================================

------------------------------ MODULE Listening ------------------------------
(***************************************************************************)
(* From the microphone to transcripts: the VAD processor, the tracker of   *)
(* turns and the STT service, three processors in a row, and the           *)
(* goroutines in which the STT service transcribes what it has buffered    *)
(* (audio/vad, audio/turn/tracking.go, services/{deepgram,whisper,         *)
(* assemblyai,google}/stt.go).                                             *)
(*                                                                         *)
(* The client sends chunks of audio and may end its utterance by hand; the *)
(* bot starts and stops speaking at any time; the task does not end.       *)
(* Chunks are numbered; a UserStoppedSpeaking frame knows, as history, the *)
(* chunks of the utterance it ends.  The VADUser...Speaking frames and,    *)
(* once emitted, the turn frames are passed on by everyone and left out.   *)
(***************************************************************************)
EXTENDS InboxOps, Vad

SX == INSTANCE SequencesExt

CONSTANTS
  Sounds,     \* what a chunk may sound like
  Chunks,     \* number of chunks the client sends
  EndsByHand, \* number of times it ends an utterance itself
  BotTurns,   \* number of times the bot starts to speak
  Barges,     \* number of interruptions sent by the source
  InFlight,   \* frames on their way to the STT service when a chunk is sent
  Services,   \* STT services among which the registry chooses
  MinChunks,  \* chunks that make 100 ms, the least that is worth a request
  MaxPolls    \* requests that fit into the 120 s of assemblyai's poll

Nodes == {"turn", "stt"}

VARIABLES
  service,    \* the STT service of this pipeline
  hasKey,     \* it has an API key, or for google a client
  sent,       \* chunks sent
  ends,       \* utterances ended by hand
  barges,     \* interruptions sent
  vad,        \* the EnergyAnalyzer
  silence,    \* a SilenceAnalyzer fed with the same audio
  inbox,      \* node -> its inbox
  tracker,    \* TrackingProcessor: turnIndex and active
  speaking,   \* BotState
  botTurns,   \* times the bot has begun to speak
  buf,        \* STT.buf, a sequence of chunks
  flushes,    \* the goroutines of flush, in the order they were started
  heard,      \* history: chunks of the utterance the VAD is in
  turns,      \* history: the turn frames the tracker has emitted
  ignored,    \* history: chunks not kept because the bot spoke, or shed
  wiped       \* history: chunks dropped by a start that overtook a flush

micVars   == <<hasKey, sent, ends, barges, vad, silence, heard>>
userVars  == <<micVars, service>>
trackVars == <<tracker, turns>>
botVars   == <<speaking, botTurns>>
sttVars   == <<buf, flushes, wiped>>
ownVars   == <<micVars, inbox, trackVars, botTurns, sttVars, ignored>>
vars == <<ownVars, service, speaking>>

Item(kind, n, utterance) ==
  [kind |-> kind, n |-> n, utterance |-> utterance, dir |-> "down", ctrl |-> "none"]
Frame(kind) == Item(kind, 0, {})
Audio(n) == Item("InputAudio", n, {})

AtRest ==
  /\ sent = 0 /\ ends = 0 /\ barges = 0
  /\ vad = NewAnalyzer /\ silence = NewSilence
  /\ inbox = [n \in Nodes |-> EmptyInbox]
  /\ tracker = [index |-> 0, active |-> FALSE]
  /\ botTurns = 0
  /\ buf = <<>> /\ flushes = <<>>
  /\ heard = {} /\ turns = <<>> /\ ignored = {} /\ wiped = {}

Init == AtRest /\ service \in Services /\ hasKey \in BOOLEAN /\ speaking = FALSE

-----------------------------------------------------------------------------
(* The client and the VAD processor.  What lies before it (user.idle, the   *)
(* transport's input) passes everything on.                                 *)

(* Audio that waited and was shed by a push. *)
ShedBy(before, after) ==
  {q.n : q \in {x \in SX!ToSet(before.sys) : IsAudio(x)} \ SX!ToSet(after.sys)}

PushIf(in, condition, frame) == IF condition THEN Enqueue(in, frame) ELSE in

VadPushes_StopFirst(in, start, stop, n, utterance) ==
  LET started == PushIf(in, start, Frame("UserStartedSpeaking"))
      stopped == PushIf(started, stop, Item("UserStoppedSpeaking", 0, utterance))
  IN Enqueue(stopped, Audio(n))

(* The start goes before the chunk that made it, the stop after. *)
VadPushes(in, start, stop, n, utterance) ==
  LET started == PushIf(in, start, Frame("UserStartedSpeaking"))
      passed == Enqueue(started, Audio(n))
  IN PushIf(passed, stop, Item("UserStoppedSpeaking", 0, utterance))

(* An InputAudioRawFrame at the VAD processor. *)
VadHears(sound) ==
  LET n == sent + 1
      start == Started(vad, sound)
      stop == Stopped(vad, sound)
      utterance == IF start THEN {n} ELSE IF vad.inSpeech THEN heard \cup {n} ELSE {}
      next == VadPushes(inbox["turn"], start, stop, n, utterance)
  IN /\ sent < Chunks
     /\ Len(inbox["turn"].sys) + Len(inbox["stt"].sys) <= InFlight
     /\ sent' = n
     /\ vad' = Analyze(vad, sound)
     /\ silence' = AppendAudio(silence, sound)
     /\ heard' = IF stop THEN {} ELSE utterance
     /\ inbox' = [inbox EXCEPT !["turn"] = next]
     /\ ignored' = ignored \cup ShedBy(inbox["turn"], next)
     /\ UNCHANGED <<service, hasKey, ends, barges, trackVars, botVars, sttVars>>

(* The client's "end utterance": the VAD does not notice. *)
ClientEndsUtterance ==
  /\ ends < EndsByHand
  /\ ends' = ends + 1
  /\ inbox' = [inbox EXCEPT !["turn"] =
                 Enqueue(@, Item("UserStoppedSpeaking", 0, heard))]
  /\ UNCHANGED <<service, hasKey, sent, barges, vad, silence, heard, trackVars,
                 botVars, sttVars, ignored>>

(* An Interruption comes down from the source. *)
SourceInterrupts ==
  /\ barges < Barges
  /\ barges' = barges + 1
  /\ inbox' = [inbox EXCEPT !["turn"] = Enqueue(@, Frame("Interruption"))]
  /\ UNCHANGED <<service, hasKey, sent, ends, vad, silence, heard, trackVars,
                 botVars, sttVars, ignored>>

-----------------------------------------------------------------------------
(* TrackingProcessor *)

TrackerTakes(kinds) ==
  ~IsEmpty(inbox["turn"]) /\ Front(inbox["turn"]).kind \in kinds

Tracked == Front(inbox["turn"])

TrackerPasses ==
  /\ inbox' = [inbox EXCEPT !["turn"] = PopFront(@), !["stt"] = Enqueue(@, Tracked)]
  /\ ignored' = ignored \cup ShedBy(inbox["stt"], Enqueue(inbox["stt"], Tracked))
  /\ UNCHANGED <<userVars, botVars, sttVars>>

TrackStart ==
  /\ TrackerTakes({"UserStartedSpeaking"})
  /\ tracker' = [index |-> tracker.index + 1, active |-> TRUE]
  /\ turns' = Append(turns, [what |-> "started", index |-> tracker.index + 1])
  /\ TrackerPasses

EndTurn ==
  IF tracker.active THEN Append(turns, [what |-> "ended", index |-> tracker.index])
  ELSE turns

TrackStop_StaysActive ==
  /\ TrackerTakes({"UserStoppedSpeaking"})
  /\ turns' = EndTurn
  /\ UNCHANGED tracker
  /\ TrackerPasses

TrackStop ==
  /\ TrackerTakes({"UserStoppedSpeaking"})
  /\ turns' = EndTurn
  /\ tracker' = [tracker EXCEPT !.active = FALSE]
  /\ TrackerPasses

TrackInterruption ==
  /\ TrackerTakes({"Interruption"})
  /\ turns' = EndTurn
  /\ tracker' = [tracker EXCEPT !.active = FALSE]
  /\ TrackerPasses

TrackAudio ==
  /\ TrackerTakes({"InputAudio"})
  /\ UNCHANGED trackVars
  /\ TrackerPasses

Tracking == TrackStart \/ TrackStop \/ TrackInterruption \/ TrackAudio

-----------------------------------------------------------------------------
(* STT.Process.  The four services differ in how they transcribe, not here. *)

SttTakes(kinds) ==
  ~IsEmpty(inbox["stt"]) /\ Front(inbox["stt"]).kind \in kinds

Heard == Front(inbox["stt"])

SttPops ==
  /\ inbox' = [inbox EXCEPT !["stt"] = PopFront(@)]
  /\ UNCHANGED <<userVars, trackVars, botVars>>

Waiting == {i \in DOMAIN flushes : flushes[i].state = "begin"}

(* The buffer is emptied for the new utterance. *)
SttUserStarted ==
  /\ SttTakes({"UserStartedSpeaking"})
  /\ buf' = <<>>
  /\ wiped' = IF Waiting = {} THEN wiped ELSE wiped \cup SX!ToSet(buf)
  /\ SttPops
  /\ UNCHANGED <<flushes, ignored>>

(* Audio is kept unless the bot speaks, whose echo it may be. *)
SttInputAudio ==
  /\ SttTakes({"InputAudio"})
  /\ buf' = IF speaking THEN buf ELSE Append(buf, Heard.n)
  /\ ignored' = IF speaking THEN ignored \cup {Heard.n} ELSE ignored
  /\ SttPops
  /\ UNCHANGED <<flushes, wiped>>

NewFlush(utterance) ==
  [state |-> "begin", audio |-> <<>>, polls |-> 0, utterance |-> utterance]

(* The utterance is transcribed by a goroutine, or dropped. *)
SttUserStopped ==
  /\ SttTakes({"UserStoppedSpeaking"})
  /\ buf' = IF speaking THEN <<>> ELSE buf
  /\ ignored' = IF speaking THEN ignored \cup SX!ToSet(buf) ELSE ignored
  /\ flushes' = IF speaking THEN flushes ELSE Append(flushes, NewFlush(Heard.utterance))
  /\ SttPops
  /\ UNCHANGED wiped

SttOther ==
  /\ SttTakes({"Interruption"})
  /\ SttPops
  /\ UNCHANGED <<sttVars, ignored>>

Hearing == SttUserStarted \/ SttInputAudio \/ SttUserStopped \/ SttOther

DeepgramProcess == service = "deepgram" /\ Hearing
WhisperProcess  == service = "whisper" /\ Hearing
AssemblyProcess == service = "assemblyai" /\ Hearing
GoogleProcess   == service = "google" /\ Hearing

-----------------------------------------------------------------------------
(* The goroutines: flush, for google transcribe.                            *)

Fails(f) == [f EXCEPT !.state = "pushError"]
Finds(f) == [f EXCEPT !.state = "pushText"]
Ends(f) == [f EXCEPT !.state = "done", !.polls = 0]
Goes(f, state) == [f EXCEPT !.state = state]

(* shouldSendPCMToDeepgram, shouldSend, gate: audio that is too short is   *)
(* dropped, and audio may be too quiet.                                    *)
LongEnough(f) == Len(f.audio) >= MinChunks

(* What a flush may do with its audio f.audio before it makes a request.   *)
DeepgramDecides(f) ==
  IF ~hasKey THEN {Fails(f)}
  ELSE {Ends(f)} \cup IF LongEnough(f) THEN {Goes(f, "request")} ELSE {}

WhisperDecides(f) ==
  IF ~hasKey THEN {Fails(f)}
  ELSE {Ends(f)} \cup IF LongEnough(f) THEN {Goes(f, "request")} ELSE {}

AssemblyDecides(f) ==
  IF ~hasKey THEN {Fails(f)}
  ELSE {Ends(f)} \cup IF LongEnough(f) THEN {Goes(f, "upload")} ELSE {}

GoogleDecides(f) ==
  IF hasKey /\ f.audio # <<>> THEN {Goes(f, "request")} ELSE {Ends(f)}

Decides(f) ==
  CASE service = "deepgram" -> DeepgramDecides(f)
    [] service = "whisper" -> WhisperDecides(f)
    [] service = "assemblyai" -> AssemblyDecides(f)
    [] service = "google" -> GoogleDecides(f)

OnlyFlush == UNCHANGED <<userVars, inbox, trackVars, botVars, wiped, ignored>>

FlushTake_KeepsBuffer(i) ==
  /\ flushes[i].state = "begin"
  /\ \E f \in Decides([flushes[i] EXCEPT !.audio = buf]) :
       flushes' = [flushes EXCEPT ![i] = f]
  /\ UNCHANGED buf /\ OnlyFlush

(* Under the mutex: copy the buffer and empty it. *)
FlushTake(i) ==
  /\ flushes[i].state = "begin"
  /\ \E f \in Decides([flushes[i] EXCEPT !.audio = buf]) :
       flushes' = [flushes EXCEPT ![i] = f]
  /\ buf' = <<>> /\ OnlyFlush

(* The requests fail, find no words or find a text.  An answer that is no   *)
(* JSON is an error for deepgram and no words for whisper.                  *)
DeepgramRequest(f) == {Fails(f), Ends(f), Finds(f)}
WhisperRequest(f)  == {Fails(f), Ends(f), Finds(f)}
GoogleRequest(f)   == {Fails(f), Ends(f), Finds(f)}

(* assemblyai uploads the audio, then creates a transcript... *)
AssemblyUpload(f) == {Fails(f), Goes(f, "create")}
AssemblyCreate(f) == {Fails(f), Goes(f, "poll")}

(* ... and polls for it: it is finished, with or without words, has failed, *)
(* or is still in work.  After the last poll the deadline has passed.       *)
AssemblyPoll(f) ==
  {Fails(f)} \cup
  IF f.polls = MaxPolls THEN {} ELSE {Ends(f), Finds(f), [f EXCEPT !.polls = @ + 1]}

Answers(f) ==
  CASE f.state = "upload" -> AssemblyUpload(f)
    [] f.state = "create" -> AssemblyCreate(f)
    [] f.state = "poll" -> AssemblyPoll(f)
    [] f.state = "request" /\ service = "deepgram" -> DeepgramRequest(f)
    [] f.state = "request" /\ service = "whisper" -> WhisperRequest(f)
    [] f.state = "request" /\ service = "google" -> GoogleRequest(f)
    [] OTHER -> {}

FlushRequest(i) ==
  /\ \E f \in Answers(flushes[i]) : flushes' = [flushes EXCEPT ![i] = f]
  /\ UNCHANGED buf /\ OnlyFlush

(* The transcript or the error goes downstream. *)
FlushPush(i) ==
  /\ flushes[i].state \in {"pushText", "pushError"}
  /\ flushes' = [flushes EXCEPT ![i] = Ends(@)]
  /\ UNCHANGED buf /\ OnlyFlush

FlushStep(i) ==
  i \in DOMAIN flushes
    /\ (FlushTake(i) \/ FlushRequest(i) \/ FlushPush(i))

-----------------------------------------------------------------------------
(* The bot begins and stops speaking. *)
BotSpeaks ==
  /\ \/ ~speaking /\ botTurns < BotTurns /\ speaking' = TRUE /\ botTurns' = botTurns + 1
     \/ speaking /\ speaking' = FALSE /\ UNCHANGED botTurns
  /\ UNCHANGED <<userVars, inbox, trackVars, sttVars, ignored>>

MaxFlushes == Chunks + EndsByHand

Next ==
  \/ \E sound \in Sounds : VadHears(sound)
  \/ ClientEndsUtterance \/ SourceInterrupts
  \/ Tracking
  \/ DeepgramProcess \/ WhisperProcess \/ AssemblyProcess \/ GoogleProcess
  \/ \E i \in 1..MaxFlushes : FlushStep(i)
  \/ BotSpeaks

Spec == Init /\ [][Next]_vars

-----------------------------------------------------------------------------
ChunkIds == 1..Chunks
FlushStates == {"begin", "request", "upload", "create", "poll",
                "pushText", "pushError", "done"}

(* Types. *)
TypeOK ==
  /\ service \in Services /\ hasKey \in BOOLEAN /\ sent \in 0..Chunks
  /\ tracker.index \in Nat /\ tracker.active \in BOOLEAN /\ speaking \in BOOLEAN
  /\ SX!ToSet(buf) \cup heard \cup ignored \cup wiped \subseteq ChunkIds
  /\ \A i \in DOMAIN flushes :
       flushes[i].state \in FlushStates /\ flushes[i].polls \in 0..MaxPolls

Taken == UNION {SX!ToSet(flushes[i].audio) : i \in DOMAIN flushes}

(* No chunk is transcribed twice, or both transcribed and kept for the next *)
(* utterance, however many flushes, starts and stops meet at the buffer.    *)
ChunkOnce ==
  /\ SX!IsInjective(buf)
  /\ SX!ToSet(buf) \cap Taken = {}
  /\ \A i, j \in DOMAIN flushes :
       i # j => SX!ToSet(flushes[i].audio) \cap SX!ToSet(flushes[j].audio) = {}

(* Once a flush has taken the buffer, every chunk of its utterance, the one *)
(* that ended it included (vad.go:116), has been taken by a flush, unless   *)
(* it was ignored because the bot spoke, was shed, or a new utterance began *)
(* before the goroutine got to the buffer.                                  *)
UtteranceWhole ==
  \A i \in DOMAIN flushes :
    flushes[i].state # "begin" => flushes[i].utterance \subseteq Taken \cup ignored \cup wiped

(* The two detectors of the end of a turn agree: while the VAD is in speech *)
(* it has heard the same silence as the SilenceAnalyzer, so that a turn the *)
(* VAD ends is complete for the other one at the same chunk.                *)
EndOfTurnAgrees ==
  SilenceStopMS > 0 /\ vad.inSpeech =>
    silence.speechSeen /\ silence.silenceMS = vad.silenceMS

(* Turns are announced with consecutive numbers, and each ends at most once *)
(* and before the next one begins, whoever ends it: the VAD, the client, an *)
(* interruption, or two of them.                                            *)
TurnsAlternate ==
  \A k \in DOMAIN turns :
    turns[k] = [what |-> IF k % 2 = 1 THEN "started" ELSE "ended",
                index |-> (k + 1) \div 2]
=============================================================================

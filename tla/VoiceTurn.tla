------------------------------ MODULE VoiceTurn ------------------------------
(***************************************************************************)
(* A conversation: the user aggregator, the LLM service, the assistant     *)
(* aggregator, the TTS service and the transport's output, in the order in *)
(* which cmd/voicebot chains them (aggregate/, services/openai/llm.go,     *)
(* services/elevenlabs/tts.go, the turn contexts of pipeline/runtime.go).  *)
(*                                                                         *)
(* The services work in goroutines of their own, a completion per LLMRun   *)
(* and a synthesis per response, which push through handles under the turn *)
(* context of their processor.  A barge-in drains the inboxes, ends turn   *)
(* contexts and resets what the processors hold while these goroutines run.*)
(*                                                                         *)
(* Every inbox is a value of InboxOps.  What a goroutine has still to do   *)
(* is a sequence of operations: pushes, and accesses to what the           *)
(* processors share (the LLMContext, the BotState).                        *)
(***************************************************************************)
EXTENDS InboxOps

CONSTANTS
  Transcripts,  \* number of transcripts of the user
  Interims,     \* number of interim transcripts
  Pieces,       \* text frames of a whole completion
  Barges,       \* what Strategy.ShouldInterrupt may answer
  MaxFailures   \* requests to the services that may fail under a live context

ASSUME VoiceAssumption ==
  /\ Transcripts \in Nat /\ Interims \in Nat /\ Pieces \in Nat
  /\ Barges \subseteq BOOLEAN /\ Barges # {}
  /\ MaxFailures \in Nat

Nodes == {"llm", "asst", "tts", "out"}
Runs == 1..Transcripts

VARIABLES
  inbox,     \* node -> its inbox
  todo,      \* node, or "agg" -> what its goroutine has still to do
  said,      \* transcripts the user aggregator has been given
  interims,  \* interim transcripts it has been given
  messages,  \* LLMContext.Messages
  speaking,  \* BotState
  turn,      \* node -> number of its current turn context
  runs,      \* transcript -> the completion goroutine its LLMRun started
  cancel,    \* LLM.cancel: the run whose context it ends, or 0
  partial,   \* AssistantAggregator.partialBuf
  buffer,    \* TTS.textBuffer
  canceling, \* TTS.canceling
  synths,    \* the synthesis goroutines, in the order they were started
  played,    \* history: the audio that the output has sent
  barged,    \* history: the user aggregator has interrupted
  failures   \* requests under a live context that have failed, wholly or in part

userVars  == <<said, interims, messages, barged>>
llmVars   == <<runs, cancel>>
asstVars  == <<partial>>
ttsVars   == <<buffer, canceling, synths, speaking>>
vars == <<inbox, todo, said, interims, messages, speaking, turn, runs, cancel,
          partial, buffer, canceling, synths, played, barged, failures>>

Sequence == INSTANCE SequencesExt

MayFail == failures < MaxFailures

(* A frame knows the run it comes from and the pieces of text it carries. *)
Item(kind, run, text) ==
  [kind |-> kind, run |-> run, text |-> text, dir |-> "down", ctrl |-> "none"]

Interruption == Item("Interruption", 0, <<>>)

PushTo(n, q) == [op |-> "push", to |-> n, q |-> q]
Do(op) == [op |-> op, to |-> "nobody", q |-> Item("none", 0, <<>>)]

NoRun == [state |-> "none", turn |-> 0, cancelled |-> FALSE, known |-> 0, todo |-> <<>>]

Init ==
  /\ inbox = [n \in Nodes |-> EmptyInbox]
  /\ todo = [n \in Nodes \cup {"agg"} |-> <<>>]
  /\ said = 0 /\ interims = 0 /\ messages = <<>>
  /\ speaking = FALSE
  /\ turn = [n \in Nodes |-> 0]
  /\ runs = [r \in Runs |-> NoRun] /\ cancel = 0
  /\ partial = <<>>
  /\ buffer = <<>> /\ canceling = FALSE /\ synths = <<>>
  /\ played = <<>> /\ barged = FALSE /\ failures = 0

-----------------------------------------------------------------------------
(* UserAggregator *)

Interrupts(b) == speaking /\ b

InterruptIf(b) == IF Interrupts(b) THEN <<PushTo("llm", Interruption)>> ELSE <<>>

(* A TranscriptionFrame: interrupt, append to the context, start a run. *)
Transcription ==
  /\ said < Transcripts /\ todo["agg"] = <<>>
  /\ \E b \in Barges :
       /\ todo' = [todo EXCEPT !["agg"] =
                     InterruptIf(b) \o
                     <<Do("append"), PushTo("llm", Item("LLMRun", said + 1, <<>>))>>]
       /\ barged' = (barged \/ Interrupts(b))
  /\ said' = said + 1
  /\ UNCHANGED <<inbox, interims, messages, turn, llmVars, asstVars, ttsVars, played, failures>>

(* An InterimTranscriptionFrame: interrupt, and pass it on.  It comes before *)
(* the transcript that it is a first guess of.                               *)
InterimTranscription ==
  /\ interims < Interims /\ said < Transcripts /\ todo["agg"] = <<>>
  /\ \E b \in Barges :
       /\ todo' = [todo EXCEPT !["agg"] =
                     InterruptIf(b) \o
                     <<PushTo("llm", Item("InterimTranscription", 0, <<>>))>>]
       /\ barged' = (barged \/ Interrupts(b))
  /\ interims' = interims + 1
  /\ UNCHANGED <<inbox, said, messages, turn, llmVars, asstVars, ttsVars, played, failures>>

(* LLMContext.AppendUser *)
AppendUser ==
  /\ todo["agg"] # <<>> /\ Head(todo["agg"]).op = "append"
  /\ messages' = Append(messages, [role |-> "user", run |-> said, text |-> <<>>])
  /\ todo' = [todo EXCEPT !["agg"] = Tail(@)]
  /\ UNCHANGED <<inbox, said, interims, turn, llmVars, asstVars, ttsVars, played,
                 barged, failures>>

-----------------------------------------------------------------------------
(* Nodes: onProc pops an item and handles it; an Interruption first drains  *)
(* the node's inbox and renews its turn context.                            *)

Below == [llm |-> "asst", asst |-> "tts", tts |-> "out"]

Relay(n, q) == IF n = "out" THEN <<>> ELSE <<PushTo(Below[n], q)>>

Takes(n, kinds) ==
  /\ todo[n] = <<>> /\ ~IsEmpty(inbox[n])
  /\ Front(inbox[n]).kind \in kinds

Taken(n) == Front(inbox[n])

TakeAndEmit(n, ops) ==
  /\ inbox' = [inbox EXCEPT ![n] =
                 IF Taken(n).kind = "Interruption" THEN DrainInterruptible(PopFront(@))
                 ELSE PopFront(@)]
  /\ turn' = [turn EXCEPT ![n] = IF Taken(n).kind = "Interruption" THEN @ + 1 ELSE @]
  /\ todo' = [todo EXCEPT ![n] = ops]

TakeAndRelay(n) == TakeAndEmit(n, Relay(n, Taken(n)))

(* The frames a processor's Process only passes on. *)
Others ==
  [llm  |-> FrameKinds \ {"Interruption", "LLMRun"},
   asst |-> FrameKinds \ {"Interruption", "LLMFullResponseStart", "LLMText",
                          "LLMFullResponseEnd"},
   tts  |-> FrameKinds \ {"Interruption", "LLMFullResponseStart", "LLMText", "Text",
                          "LLMFullResponseEnd"},
   out  |-> FrameKinds \ {"TTSAudio"}]

NodeRelays(n) ==
  /\ Takes(n, Others[n])
  /\ TakeAndRelay(n)
  /\ UNCHANGED <<userVars, llmVars, asstVars, ttsVars, played, failures>>

(* deliverDown of what a handler emitted, under the node's context. *)
NodePush(n) ==
  /\ todo[n] # <<>> /\ Head(todo[n]).op = "push"
  /\ LET p == Head(todo[n])
     IN /\ ~Blocks(inbox[p.to], p.q)
        /\ inbox' = [inbox EXCEPT ![p.to] = Enqueue(@, p.q)]
  /\ todo' = [todo EXCEPT ![n] = Tail(@)]
  /\ UNCHANGED <<userVars, turn, llmVars, asstVars, ttsVars, played, failures>>

-----------------------------------------------------------------------------
(* LLM *)

(* The current completion is cancelled. *)
LLMInterrupted ==
  /\ Takes("llm", {"Interruption"})
  /\ TakeAndRelay("llm")
  /\ runs' = IF cancel = 0 THEN runs ELSE [runs EXCEPT ![cancel].cancelled = TRUE]
  /\ cancel' = 0
  /\ UNCHANGED <<userVars, asstVars, ttsVars, played, failures>>

(* A goroutine is started with the turn context of this moment. *)
LLMStartsRun ==
  /\ Takes("llm", {"LLMRun"})
  /\ runs' = [runs EXCEPT ![Taken("llm").run] =
                [NoRun EXCEPT !.state = "begin", !.turn = turn["llm"]]]
  /\ TakeAndEmit("llm", <<>>)
  /\ UNCHANGED <<userVars, cancel, asstVars, ttsVars, played, failures>>

(* A run's context: ended by its turn or through LLM.cancel. *)
RunIsOver(r) == runs[r].cancelled \/ runs[r].turn < turn["llm"]

RunBegin_KeepsOld(r) ==
  /\ runs[r].state = "begin"
  /\ runs' = [runs EXCEPT ![r].state = "snapshot"]
  /\ cancel' = r
  /\ UNCHANGED <<inbox, todo, userVars, turn, asstVars, ttsVars, played, failures>>

RunBegin_OneAtATime(r) ==
  /\ runs[r].state = "begin"
  /\ IF cancel # 0
     THEN runs' = [runs EXCEPT ![r].state = "push"] /\ UNCHANGED cancel
     ELSE runs' = [runs EXCEPT ![r].state = "snapshot"] /\ cancel' = r
  /\ UNCHANGED <<inbox, todo, userVars, turn, asstVars, ttsVars, played, failures>>

(* runCompletion: under the mutex it cancels the run before it and takes    *)
(* its place.  Goroutines may come here in another order than the LLMRuns.  *)
RunBegin(r) ==
  /\ runs[r].state = "begin"
  /\ runs' = [q \in Runs |->
                IF q = r THEN [runs[q] EXCEPT !.state = "snapshot"]
                ELSE IF q = cancel THEN [runs[q] EXCEPT !.cancelled = TRUE]
                ELSE runs[q]]
  /\ cancel' = r
  /\ UNCHANGED <<inbox, todo, userVars, turn, asstVars, ttsVars, played, failures>>

(* LLMContext.Snapshot: the transcripts the answer will take into account. *)
RunSnapshot(r) ==
  /\ runs[r].state = "snapshot"
  /\ runs' = [runs EXCEPT ![r].state = "request",
                          ![r].known = Cardinality({i \in DOMAIN messages :
                                                      messages[i].role = "user"})]
  /\ UNCHANGED <<inbox, todo, userVars, turn, cancel, asstVars, ttsVars, played, failures>>

Response(r, pieces) ==
  <<PushTo("asst", Item("LLMFullResponseStart", r, <<>>))>>
  \o [i \in 1..pieces |-> PushTo("asst", Item("LLMText", r, <<<<r, i>>>>))]
  \o <<PushTo("asst", Item("LLMFullResponseEnd", r, <<>>))>>

Report(n) == <<PushTo(n, Item("Error", 0, <<>>))>>

Answer(r, todoNow, isFailure) ==
  /\ isFailure => MayFail
  /\ runs' = [runs EXCEPT ![r].state = "push", ![r].todo = todoNow]
  /\ failures' = IF isFailure THEN failures + 1 ELSE failures

(* services/openai: the request is answered, or the stream breaks off, which *)
(* the code does not tell from its end, or it fails before anything came.    *)
OpenAICompletes(r) ==
  \/ \E pieces \in 0..Pieces : Answer(r, Response(r, pieces), pieces < Pieces)
  \/ Answer(r, Report("asst"), TRUE)

(* services/anthropic takes the same steps in the same order. *)
AnthropicCompletes(r) == OpenAICompletes(r)

(* services/google says Start before it asks; an error that ends the stream  *)
(* is reported between the text that came and the End.                       *)
GoogleCompletes(r) ==
  \E pieces \in 0..Pieces : \E report \in {<<>>, Report("asst")} :
    LET frames == Response(r, pieces)
    IN Answer(r, SubSeq(frames, 1, pieces + 1) \o report \o <<Sequence!Last(frames)>>,
              pieces < Pieces \/ report # <<>>)

(* A conversation may use any of the services; they differ in nothing else.  *)
(* When the context has ended the request fails, and what the goroutine      *)
(* still pushes is refused.                                                  *)
RunRequest(r) ==
  /\ runs[r].state = "request"
  /\ \/ /\ ~RunIsOver(r)
        /\ OpenAICompletes(r) \/ AnthropicCompletes(r) \/ GoogleCompletes(r)
     \/ RunIsOver(r) /\ Answer(r, Report("asst"), FALSE)
  /\ UNCHANGED <<inbox, todo, userVars, turn, cancel, asstVars, ttsVars, played>>

(* PushFrameCtx of the next frame under the run's context; when that is     *)
(* done the push, and all that follow, are refused.                         *)
RunPush(r) ==
  /\ runs[r].todo # <<>>
  /\ LET p == Head(runs[r].todo)
     IN \/ ~RunIsOver(r) /\ ~Blocks(inbox[p.to], p.q)
           /\ inbox' = [inbox EXCEPT ![p.to] = Enqueue(@, p.q)]
        \/ RunIsOver(r) /\ UNCHANGED inbox
  /\ runs' = [runs EXCEPT ![r].todo = Tail(@)]
  /\ UNCHANGED <<todo, userVars, turn, cancel, asstVars, ttsVars, played, failures>>

-----------------------------------------------------------------------------
(* AssistantAggregator *)

AssistantResets ==
  /\ Takes("asst", {"LLMFullResponseStart", "Interruption"})
  /\ partial' = <<>>
  /\ TakeAndRelay("asst")
  /\ UNCHANGED <<userVars, llmVars, ttsVars, played, failures>>

AssistantCollects ==
  /\ Takes("asst", {"LLMText"})
  /\ partial' = partial \o Taken("asst").text
  /\ TakeAndEmit("asst", Relay("asst", [Taken("asst") EXCEPT !.kind = "Text"]))
  /\ UNCHANGED <<userVars, llmVars, ttsVars, played, failures>>

(* The answer goes to the context, unless there is none. *)
AssistantCommits ==
  /\ Takes("asst", {"LLMFullResponseEnd"})
  /\ messages' = IF partial = <<>> THEN messages
                 ELSE Append(messages, [role |-> "assistant", run |-> Taken("asst").run,
                                        text |-> partial])
  /\ partial' = <<>>
  /\ TakeAndRelay("asst")
  /\ UNCHANGED <<said, interims, barged, llmVars, ttsVars, played, failures>>

-----------------------------------------------------------------------------
(* TTS *)

TTSResets ==
  /\ Takes("tts", {"LLMFullResponseStart", "Interruption"})
  /\ buffer' = <<>>
  /\ canceling' = (Taken("tts").kind = "Interruption")
  /\ TakeAndRelay("tts")
  /\ UNCHANGED <<userVars, llmVars, asstVars, synths, speaking, played, failures>>

TTSCollects ==
  /\ Takes("tts", {"LLMText", "Text"})
  /\ buffer' = buffer \o Taken("tts").text
  /\ TakeAndRelay("tts")
  /\ UNCHANGED <<userVars, llmVars, asstVars, canceling, synths, speaking, played, failures>>

(* speak, then the LLMFullResponseEnd itself. *)
Synthesis(f, text) ==
  <<Do("request"), Do("speaking"),
    PushTo("out", Item("BotSpeaking", 0, <<>>)),
    PushTo("out", Item("TTSAudio", f.run, text)),
    PushTo("out", Item("BotStoppedSpeaking", 0, <<>>)),
    Do("silent"), PushTo("out", f)>>

(* A goroutine is started with the text and the turn context so far. *)
TTSStartsSynthesis ==
  /\ Takes("tts", {"LLMFullResponseEnd"})
  /\ synths' = Append(synths,
       [turn |-> turn["tts"],
        todo |-> IF canceling \/ buffer = <<>> THEN <<PushTo("out", Taken("tts"))>>
                 ELSE Synthesis(Taken("tts"), buffer)])
  /\ buffer' = <<>>
  /\ TakeAndEmit("tts", <<>>)
  /\ UNCHANGED <<userVars, llmVars, asstVars, canceling, speaking, played, failures>>

SynthIsOver_ProcContext(s) == FALSE

SynthIsOver(s) == synths[s].turn < turn["tts"]

SynthAt(s, op) == synths[s].todo # <<>> /\ Head(synths[s].todo).op = op
SynthGoesOn(s) == synths' = [synths EXCEPT ![s].todo = Tail(@)]

(* Without audio there is nothing to say: what is left is the report of an   *)
(* error, if there is one, and the LLMFullResponseEnd.                       *)
SaysNothing(s, report, isFailure) ==
  /\ isFailure => MayFail
  /\ synths' = [synths EXCEPT ![s].todo = report \o <<Sequence!Last(@)>>]
  /\ failures' = IF isFailure THEN failures + 1 ELSE failures

SynthAnswered(s) == SynthGoesOn(s) /\ UNCHANGED failures

(* services/elevenlabs: audio, an error, or an empty answer that is dropped. *)
ElevenLabsSpeaks(s) ==
  \/ SynthAnswered(s)
  \/ SaysNothing(s, Report("out"), TRUE)
  \/ SaysNothing(s, <<>>, TRUE)

(* services/sarvam does the same with an answer that holds no samples. *)
SarvamSpeaks(s) == ElevenLabsSpeaks(s)

(* services/openai/speech: an empty answer is spoken as empty audio. *)
OpenAISpeaks(s) ==
  \/ SynthAnswered(s)
  \/ SaysNothing(s, Report("out"), TRUE)
  \/ /\ MayFail
     /\ synths' = [synths EXCEPT ![s].todo =
                     [i \in 1..(Len(@) - 1) |-> IF @[i + 1].q.kind = "TTSAudio"
                                              THEN [@[i + 1] EXCEPT !.q.text = <<>>]
                                              ELSE @[i + 1]]]
     /\ failures' = failures + 1

(* The request under the turn context, which fails when that has ended. *)
SynthRequest(s) ==
  /\ SynthAt(s, "request")
  /\ \/ /\ ~SynthIsOver(s)
        /\ ElevenLabsSpeaks(s) \/ SarvamSpeaks(s) \/ OpenAISpeaks(s)
     \/ SynthIsOver(s) /\ SaysNothing(s, Report("out"), FALSE)
  /\ UNCHANGED <<inbox, todo, userVars, turn, llmVars, asstVars, buffer, canceling,
                 speaking, played>>

(* BotState.SetSpeaking, whatever has become of the turn. *)
SynthFlag(s) ==
  /\ \/ SynthAt(s, "speaking") /\ speaking' = TRUE
     \/ SynthAt(s, "silent") /\ speaking' = FALSE
  /\ SynthGoesOn(s)
  /\ UNCHANGED <<inbox, todo, userVars, turn, llmVars, asstVars, buffer, canceling,
                 played, failures>>

SynthPush_ReturnsWhenRefused(s) ==
  /\ SynthAt(s, "push")
  /\ LET p == Head(synths[s].todo)
     IN \/ /\ ~SynthIsOver(s) /\ ~Blocks(inbox[p.to], p.q)
           /\ inbox' = [inbox EXCEPT ![p.to] = Enqueue(@, p.q)]
           /\ SynthGoesOn(s)
        \/ /\ SynthIsOver(s) /\ UNCHANGED inbox
           /\ synths' = [synths EXCEPT ![s].todo = <<>>]
  /\ UNCHANGED <<todo, userVars, turn, llmVars, asstVars, buffer, canceling, speaking,
                 played, failures>>

(* PushFrameCtx under the turn context; its error is ignored. *)
SynthPush(s) ==
  /\ SynthAt(s, "push")
  /\ LET p == Head(synths[s].todo)
     IN \/ ~SynthIsOver(s) /\ ~Blocks(inbox[p.to], p.q)
           /\ inbox' = [inbox EXCEPT ![p.to] = Enqueue(@, p.q)]
        \/ SynthIsOver(s) /\ UNCHANGED inbox
  /\ SynthGoesOn(s)
  /\ UNCHANGED <<todo, userVars, turn, llmVars, asstVars, buffer, canceling, speaking,
                 played, failures>>

-----------------------------------------------------------------------------
(* The transport's output *)

(* The audio goes to the connection, which is there and takes it. *)
OutputSends ==
  /\ Takes("out", {"TTSAudio"})
  /\ played' = Append(played, [run |-> Taken("out").run, text |-> Taken("out").text])
  /\ TakeAndRelay("out")
  /\ UNCHANGED <<userVars, llmVars, asstVars, ttsVars, failures>>

LLMStep == LLMInterrupted \/ LLMStartsRun
AssistantStep == AssistantResets \/ AssistantCollects \/ AssistantCommits
TTSStep == TTSResets \/ TTSCollects \/ TTSStartsSynthesis
RunStep(r) == RunBegin(r) \/ RunSnapshot(r) \/ RunRequest(r) \/ RunPush(r)
SynthStep(s) == SynthRequest(s) \/ SynthFlag(s) \/ SynthPush(s)

Work ==
  \/ AppendUser \/ LLMStep \/ AssistantStep \/ TTSStep \/ OutputSends
  \/ \E n \in Nodes : NodeRelays(n)
  \/ \E n \in Nodes \cup {"agg"} : NodePush(n)
  \/ \E r \in Runs : RunStep(r)
  \/ \E s \in DOMAIN synths : SynthStep(s)

Next == Transcription \/ InterimTranscription \/ Work

(* While some goroutine can run, one does; requests to the services return. *)
Fairness == WF_vars(Work)

Spec == Init /\ [][Next]_vars /\ Fairness

-----------------------------------------------------------------------------
Texts == Seq(Runs \X (1..Pieces))

LaneItems(n) ==
  {inbox[n].sys[i] : i \in DOMAIN inbox[n].sys}
    \cup {inbox[n].down[i] : i \in DOMAIN inbox[n].down}

(* Every variable has its type, and no completion that has begun is alive   *)
(* but the one that LLM.cancel would end.                                   *)
TypeOK ==
  /\ \A n \in Nodes : \A q \in LaneItems(n) :
       q.kind \in FrameKinds /\ q.run \in 0..Transcripts /\ q.text \in Texts
  /\ said \in 0..Transcripts /\ interims \in 0..Interims
  /\ \A i \in DOMAIN messages : messages[i].text \in Texts
  /\ speaking \in BOOLEAN /\ canceling \in BOOLEAN
  /\ partial \in Texts /\ buffer \in Texts
  /\ \A r \in Runs : runs[r].state \in {"none", "begin", "snapshot", "request", "push"}
  /\ cancel \in 0..Transcripts
  /\ \A r \in Runs :
       (runs[r].state \in {"snapshot", "request", "push"} /\ ~RunIsOver(r)) => r = cancel

(* After a barge-in the old turn is silent everywhere: a node that has      *)
(* handled an Interruption never gets another interruptible frame of a run  *)
(* started before it, neither from its neighbour, nor from a completion or  *)
(* a synthesis that is still going on under the old turn context.           *)
OldTurnSilent ==
  \A n \in Nodes \ {"llm"} : \A q \in LaneItems(n) :
    (q.run # 0 /\ Droppable(q)) => runs[q.run].turn >= turn[n]

(* What is committed to the context or spoken is the text of one run and in *)
(* order, however runs replace each other and barge-ins cut them.           *)
OfOneRun(text) ==
  \A i, j \in DOMAIN text : i < j => text[i][1] = text[j][1] /\ text[i][2] < text[j][2]

OneRunPerAnswer ==
  /\ \A i \in DOMAIN messages : OfOneRun(messages[i].text)
  /\ \A i \in DOMAIN played : OfOneRun(played[i].text)

(* BotState does not stay set: when no synthesis is going on, the bot is    *)
(* not taken to be speaking, so that the next transcript is not mistaken    *)
(* for a barge-in.                                                          *)
QuietWhenIdle == (\A s \in DOMAIN synths : synths[s].todo = <<>>) => ~speaking

Heard(k) == \E i \in DOMAIN played : runs[played[i].run].known >= k

NobodyWaits ==
  /\ \A n \in DOMAIN todo : todo[n] = <<>>
  /\ \A n \in Nodes : IsEmpty(inbox[n])
  /\ \A r \in Runs : runs[r].todo = <<>>
  /\ \A s \in DOMAIN synths : synths[s].todo = <<>>

(* When no goroutine can go on, none waits for another, and unless the user *)
(* barged in or a request failed, every transcript has been answered aloud  *)
(* by a completion that knows it, whatever the order in which completions   *)
(* begin, replace each other and are spoken.                                *)
AnsweredAtRest ==
  ~ENABLED Work =>
    /\ NobodyWaits
    /\ barged \/ failures > 0 \/ \A k \in Runs : said >= k => Heard(k)

-----------------------------------------------------------------------------
(* Statement of the code that does not hold. *)

(* user.go, of a transcript that interrupts the bot as of any other:        *)
(* "transcript OK -> LLM run".  The LLM service gets to start each run.     *)
TranscriptRuns ==
  \A k \in Runs : said >= k ~> (runs[k].state # "none" \/ failures > 0)
=============================================================================

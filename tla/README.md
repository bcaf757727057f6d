# llmpipe in TLA+

llmpipe is a Go library for voice pipelines: frames (audio, text, control) run
through a chain of processors, each with an inbox and a goroutine of its own. This
directory holds TLA+ models of its runtime, the TLC configurations that check them,
and theorems about them that TLAPS proves. Paths below are relative to `src/`.

## 1. The system

| component | state | operations | talks to |
|---|---|---|---|
| frame taxonomy (`frames/`) | none | `IsSystem`, `Interruptible`, what is auto-forwarded | read by everything |
| inbox (`pipeline/inbox.go`) | lanes `sys`, `up`, `down`; `audioN`, `closed`, statistics; one mutex, one condition variable | `push`, `pop`, `drainInterruptible`, `close`, waiting for room | pushers of any goroutine, one node that pops |
| pipeline task (`pipeline/task.go`, `runtime.go`) | nodes, `pre` and `accept`, the signals `ended`, `cancelReq`, `started`, `cancelAcks`, the task context | `Run`, `QueueFrames`, `StartSession`, `StopWhenDone`, `Cancel`; per node `runNode`/`onProc`; source and sink | processors by `Process` and `Emit`, the client, the parent context |
| parallel pipeline (`runtime.go`, `parallel.go`) | fan: `fanSeq`; join: `next`, `epochs`, `foreign` | `onFan`, `onJoin`, `forwardForeign`, `mergeEpoch` | nodes of a task, through inboxes |
| handles and turn contexts (`processor/`, `services/slot.go`) | a turn context per processor | `PushFrame`, `PushFrameCtx`, `QueueSelf`, `renewTurn` | background goroutines of processors |
| aggregators (`aggregate/`, `audio/interrupt`) | `LLMContext`, `BotState`, partial answer | transcript to `LLMRun`, barge-in, commit of the answer | LLM and TTS through frames, `BotState` directly |
| LLM, TTS services (`services/`) | cancel function of the current completion, text buffer, `canceling` | `Process`, one goroutine per run or synthesis | HTTP services; push frames through handles |
| STT services | audio buffer | `Process`, one goroutine per utterance (`flush`) | HTTP services; read `BotState` |
| realtime services | `conn`, `started`, `connecting` | `Setup`, `ensure`, `connect`, `readLoop`, `closeConn`, `Cleanup` | one connection; write `BotState` |
| voice activity, turn detection (`audio/`) | counters of speech and silence, turn number | `Process` | emit speaking and turn frames |
| idle detection (`observe/idle.go`, `processors/idle`) | timers, reset channel, retry count | `OnFrame`, `Start`, `Stop`, `armTimer`, `fire` | its own inbox (`QueueSelf`), `StopWhenDone` through the callback |
| transports (`transport/`) | one connection and its lock, `closing`, `subOnce` | connect, read loop, close, callbacks, output processor | the network, `QueueFrames`, `OnDisconnect` |
| serializers, resampler, WAV, language table, registry | none | pure functions | |
| runner, example programs (`cmd/`) | set of sessions | signals, session start and end | task, transport |

How they interact. A client or a transport queues frames at the head. A node pops an
item, calls `Process`, and pushes what it emits into the inboxes of its neighbours;
such a push waits while a down lane is full, so a slow processor stops those before
it. System frames never wait and overtake data. An Interruption drains the
interruptible frames of each inbox it is handled at. `End` at the sink, `Cancel`, a
panic and the parent context are the four ways `Run` ends.

What is hard about it. Every node is a goroutine; waiting uses one condition variable
for all pushers and the node, with a watcher goroutine per wait for the context; the
client's frames take another way before `Run` accepts than after; a shutdown meets full
lanes, processors that hang and acknowledgements that arrive twice; the join of a
parallel pipeline puts back together what branches do at their own speed while
interruptions drain them; background goroutines of the services push under turn
contexts that are cancelled under them. `PROJECT.json` lists the hazards at their
lines; what a component must guarantee follows.

- inbox: order per lane, bound of the down lane, exact audio count, nothing lost
  without a reason, nothing stale after a drain, nobody sleeps forever.
- task: frames arrive in the order they were queued, `End` is last, `Run` returns nil
  only if nothing was lost, cleanup is last and complete, errors are reported once,
  Cancel and End stop the task whatever the processors do.
- parallel: a wave leaves the join whole, once, in order, and always.
- services and aggregators: a transcript gets its answer, an interrupted turn is
  silent, answers are not mixed, `BotState` does not stay set.
- listening: every chunk of an utterance is transcribed once, turns start and end in
  turn, and the two detectors of a turn's end agree.
- realtime services: one connection at a time, nothing heard of a closed one, no audio unannounced.
- idle detection: no detector fires early, and monitoring does not stop by itself.
- sessions: one order of tearing down, one notification, and the end of the peer ends
  the task and the session, also in the middle of a write.

## 2. Modules

| module | role |
|---|---|
| `Frames` | kinds of frames and the predicates on them |
| `InboxOps` | the inbox as a value: `Enqueue`, `PopFront`, `DrainInterruptible`, ... |
| `Inbox` | the inbox as a concurrent object whose operations are atomic |
| `InboxCond` | the same with mutex, condition variable and watchers; implements `Inbox` |
| `PipelineTask` | a task with a chain of processors, from construction to the end of `Run` |
| `Parallel` | fan-out, branches and join, flat or nested |
| `VoiceTurn` | user aggregator, LLM, assistant aggregator, TTS and output of `cmd/voicebot`, with the goroutines of the services and the turn contexts |
| `Vad` | the two detectors of speech and silence, as functions |
| `Listening` | VAD processor, turn tracker and STT service with its flush goroutines |
| `Realtime` | a realtime service, its connections and the output behind it |
| `Idle` | the idle processor and the idle observer, on a clock |
| `Voicebot` | the pipelines of the two bots up to the first service: `Listening`, `Realtime` or `Idle` |
| `Session` | transport, task and program, from connecting to the end |
| `InboxOpsProofs`, `InboxProofs`, `InboxCondProofs` | theorems about `InboxOps`, `Inbox` and `InboxCond` |
| `TaskProofs` | theorems about `PipelineTask` |
| `ParallelProofs` | theorems about `Parallel` |
| `VoiceTurnProofs` | theorems about `VoiceTurn` |
| `VoicebotProofs` | theorems about `Voicebot`: `Listening`, `Idle`, `Realtime` |
| `SessionProofs` | theorems about `Session` |
| `MCInbox`, `MCInboxCond`, `MCPipelineTask`, `MCParallel`, `MCVoiceTurn`, `MCVoicebot`, `MCSession` | instances for TLC |

`Inbox` is the abstract specification of what an inbox promises, `InboxCond` the detailed
one. `PipelineTask`, `Parallel`, `VoiceTurn`, `Listening`, `Realtime` and `Idle` use the operators of
`InboxOps` for every inbox they hold, with a waiting push as a disabled step: that a push waits exactly while it
cannot go on is what `InboxCond` shows. Definitions called `X_Mistake` beside a definition `X` are
wrong variants, unused by the specifications: replacing `X` by one of
them makes the property named in `PROJECT.json` fail.

### Frames, InboxOps
A frame is its kind. `SystemKinds` are the types that embed `System`; `Interruptible`,
`AutoForwardDown/Up`, `IsSyncFrame` and `EndsTask` are the predicates of
`category.go` and `runtime.go`. An inbox is a record of three sequences and the counters.
`Shed` is the loop around `dropOldestAudioLocked`; subsequences are described by the
positions they keep (`KeepAt`), which can be reasoned about for every length;
an `ASSUME` of `MCInbox` has TLC compare it with `SelectSeq`.

### Inbox
`PushBegin` is the call, `PushAccept` and `PushRefuse` its two ends, between which the
push waits. `Pop`, `Handle` and `PopStop` are the node loop; `Close`,
`CancelPush` and `CancelPop` come from `forceStop` and the contexts. `accepted`,
`popped`, `drainedAt` and `stoppedAt` are history.

### InboxCond
Each step is a critical section of `in.mu`, or a wait, wake or watcher step of
`waitLocked`. Go's `sync.Cond` has no spurious wakeups but broadcasts of watchers that
stop late are kept (`StrayBroadcasts`). Refinement: pushers that are inside `push` are
`pend` of `Inbox`, the step that appends under the mutex is `PushAccept`.

### PipelineTask
`rpc` is where `Run` is: setup, flush, select, pushing CancelFrames, waiting,
`forceStop`, `wg.Wait`, cleanup. `npc[n]` is where node `n` is; `out[n]` is what
`onProc` still delivers for the current item. What a processor does is one of
`Behaviours`, chosen anew for every frame; this covers what the processors of the library do with a frame on their own
goroutine. The client goes through `pre` or pushes directly as `accept`
says. Lanes and signals are separate steps everywhere a real goroutine could be
preempted, except: `forceStop` is one step (no node can tell the closes apart), and a pop and the test of an empty inbox are atomic as in `Inbox`.

### Parallel
The topology is a CONSTANT, so the same actions serve flat and nested pipelines. Handling an item computes the pushes it leads to and does them one by one;
each waits for room. `epochs`, `next` and `foreign` are the join's. Shutdown is
left to `PipelineTask`: here contexts do not end and no inbox closes.

### VoiceTurn
The chain is that of `cmd/voicebot` from the user aggregator on. What a goroutine has
still to do is a sequence of operations (`todo` of a node, `runs[r].todo` of a
completion, `synths[s].todo` of a synthesis): pushes, and accesses to the `LLMContext` and
the `BotState`. `TakeAndEmit` is `onProc`: pop, and for an Interruption drain and
`renewTurn`, then the handler; nobody can tell these apart, since the pushes of the
node's own goroutines go to the next inbox. `RunBegin` is the critical section of
`runCompletion`, `RunSnapshot` the read of the context, `RunRequest` the answer of the
service, `RunPush` and `SynthPush` are `PushFrameCtx`, refused once the turn context or the
cancel function has ended the goroutine's context. What a completion pushes depends on the
service: openai, anthropic and google differ in where an error goes and whether an End follows
it (`OpenAICompletes`, `AnthropicCompletes`, `GoogleCompletes`); elevenlabs, sarvam and openai
differ in what they do with an answer without audio (`ElevenLabsSpeaks`, `SarvamSpeaks`,
`OpenAISpeaks`). A request whose context has ended fails; `MaxFailures` bounds those that fail by
themselves. The strategy's answer and the order of all goroutines are nondeterministic. Frames
carry the number of their run and their text as a history for the properties. An interim
transcript comes before the transcript it belongs to. Transcripts are not blank, the session
does not end, and the connection takes all audio; what lies before the aggregator is `Listening`.

### Vad, Listening
A chunk of audio is speech, silence or too short for a sample. `Vad` holds `EnergyAnalyzer.Analyze`
(by time and by count) and `SilenceAnalyzer.AppendAudio` as functions. In `Listening`, `VadHears`
is the VAD processor with what it emits for one chunk, in its order; `ClientEndsUtterance` is the
control message of ws; the `Track...` actions are `TrackingProcessor`; `Hearing` is `Process`
of the four STT services, which differ in their goroutines only: `FlushTake` copies and empties
the buffer under the mutex and decides whether the audio is worth a request, `FlushRequest`
is one request or poll, `FlushPush` its result. `heard` and the `utterance` of a
UserStoppedSpeaking frame are history. Both inboxes carry system frames only, which never wait.

### Realtime
A `dial` is a goroutine of `connect` and then of the read loop, with the connection it opened and
its context; `conn` is the index of the dial whose connection is stored. `ProcessClose`,
`TaskStops` and `Cleanup` end connections, `ConnectionLost` is the network. Each message becomes a
list of pushes and `BotState` writes done one at a time, so the node's goroutine can come between.
Nothing is assumed of the other end: messages come in any order, so the end of a response (`ReadDone`) may
come without audio before it, as it does when every delta was empty or undecodable (`realtime.go:201-207`).

### Idle
Time is counted in ticks and passes only when nothing is due: goroutines are fast, timers exact,
and what happens at one instant happens in any order. `TimerFires` and `QueueSelf` are the timer's
goroutine, `UserFire` to `UserInterrupted` the processor, `WatchReset`, `OnIdle` and `WatchStop` the
cases of the observer's `select`. `Position` says whether the processor is behind those that emit
the user's and the bot's frames or, as in the bots, first.

### Voicebot
Chooses one of the three parts and leaves the others at rest: nothing that the services
emit reaches the idle processor, so the parts do not influence each other and their
product would only be larger. They share the `BotState` and the constants.

### Session
The three programs are chosen by `program`. The task is a black box that runs, is cancelled or
asked to end and then ends, once its output's Process has returned. `conn`, `lock` and `sock`
are the transport's; each statement of the deferred teardown of `HandleWebSocket`, of `Close`, of
`readLoop` and of `Disconnect` is a step of its own. In livekit the callbacks of the room may come
whenever the room is joined.

## 3. Runs

| run | instance | what it shows |
|---|---|---|
| `inbox` | capacities 2 and 2, 2 pushers, 4 pushes of 6 kinds of item | the five invariants of the inbox |
| `inbox_cond` | capacities 1 and 1, 2 pushers, 3 pushes of 3 kinds | no lost wakeup; `InboxCond` implements `Inbox` |
| `inbox_cond_live` | 2 pushers for 1 place | the fairness assumed by `Inbox` holds of the code; pushes return; accepted items leave |
| `task` | 2 processors, lanes of 1, Text and End from the client, one request, one failure or panic, Setup may fail, Cancel | order, delivery, cleanup, error reports, refusal of work after `Run` |
| `task_live` | 2 processors, Text, a CancelFrame and End from the client, hangs, Cancel, the parent may end | Cancel and End stop `Run`; acknowledgements are of every processor |
| `parallel` | 2 branches, lanes of 1, Text, Interruption, End, processors that relay or add frames | waves leave complete, once, in order, End last |
| `parallel_live` | a parallel pipeline inside a branch, lanes of 1, relay, absorb or fail | the joins always catch up; errors are reported once |
| `voice` | lanes of 1, 2 transcripts, 1 interim transcript, answers of 1 piece, barge-ins at will, 1 failure, 3 LLM and 3 TTS services | old turns are silent, answers are of one run, `BotState` is cleared, and without barge-in or failure every transcript is answered when nothing is left to do |
| `voicebot` | 3 chunks, 1 end by hand, 1 turn of the bot, 1 barge-in, 4 STT services; 2 realtime services, 4 messages; timeouts of 2 in 4 ticks, 2 frames per tick | utterances are transcribed whole and once, turns alternate, the detectors agree; one voice at a time, announced before it is heard; monitoring goes on and fires in time |
| `session` | 3 programs, 2 chunks of speech, 2 microphone tracks | one order of tearing down, silence on an intended disconnect, and the end of the peer ends task and session |
| `voice_bargein`, `user_idle` | the smallest that show it | two statements of the documentation that the code does not keep (section 6) |

Why the bounds are enough. The inbox has three lanes and two limits; capacity 2 and
four items let a lane be full, be drained in the middle and be overtaken, and two
pushers let wakeups be lost between them. In the task two processors are the least
with a full lane, an upstream neighbour and a forwarded CancelFrame; lanes of one
make every push wait at some time. In the join two branches can be one wave apart in both
directions, and a wave of data, one of a system frame and one of a sync frame are the
three ways it treats a wave. In `VoiceTurn` two transcripts give two completions and two
syntheses that overlap in every way, and with an interim one a second barge-in before the
first is through; lanes of one make completions wait for room. `AnsweredAtRest` is
what liveness comes to here: every action of `Work` uses up a finite supply, so the
system always comes to the states it speaks of. In `Listening` one chunk starts a turn and two
silent ones end it, so three chunks make an utterance with a beginning, a middle and an end,
and the end by hand gives the second flush that meets it; audio lanes of 2 and 2 frames in flight
let audio be shed. In `Realtime` four messages on a connection are a response with its end and the
beginning of another. In `Idle` two timeouts fit into the four ticks, and two frames in
one tick meet a timer that runs out in both orders. In `Session` one chunk can be under way when
the connection goes and another be taken after. `MaxPushes`, `MaxRequests`, `MaxFaults`, `MaxFailures`,
`MaxFlushes`, `MaxDials`, `MaxPolls`, the length of `Script` and the constants above bound the runs;
nothing else is cut (`MaxFlushes` and `MaxDials` are never reached by more than they allow: an
utterance ends at most once per chunk or by hand, and `ensure` starts at most one dial in Setup
and one at the StartFrame). `CHECK_DEADLOCK FALSE` is set because every run really ends: the
scripts are finite and tasks stop.

Fairness. Goroutines that can run do run (Go's scheduler), a mutex or condition that
becomes free is taken, timers fire: `WF` per goroutine in `Inbox`, `InboxCond`, `PipelineTask` and
`Session`, and in `Parallel` and `VoiceTurn` only that some goroutine runs while one can. Callers, the
client's next call, contexts, signals and `Cancel` have no fairness, nor has a Process that hangs
before its context is done. In `Session` a write is sure to end only when the peer is gone or this end
has closed the connection, and a read when the connection is over; if the room calls back
because of `room.Disconnect`, that call is assumed to return after the callback. In the liveness runs of the
inbox at most `MaxPushes` pushes compete, since neither Go nor the code promises that one
pusher of an endless stream gets its turn.

## 4. Proofs

Everything below holds for every value of the constants that satisfies the named `ASSUME`s, which say
what the constructors guarantee (capacities are positive, a pipeline has a processor, ...). TLC checks
the same formulas on the runs' instances and evaluates the assumptions. Each inductive
invariant was checked with TLC before it was proved.

### The inbox (`InboxOpsProofs`, `InboxProofs`)
All invariants that the run `inbox` checks, for all capacities, pushers, offers and numbers of pushes:

- `TypeCorrect`: `Spec => []TypeOK`. `TypeOK` is inductive. The work is in the
  operators: that `Enqueue`, `PopFront` and `DrainInterruptible` return inboxes
  (`EnqueueType`, `PopFrontType`, `DrainType`), which rests on `KeepAtSubsequence`,
  where `Nth` is shown to enumerate a finite set of positions in increasing order.
- `Backpressure`: `Spec => []DownBounded`, inductive together with the types: `Blocks`
  guards the only step that lengthens the lane, and the drain never lengthens it.
- `AudioCounter`: `Spec => []AudioAccounted`. Each operation's effect on the number of
  audio positions is a lemma (`AudioAfterAppend`, `AudioAfterTail`,
  `AudioAfterShed`, `ShedCount`); the bound needs the exact count, since the loop
  of `push` sheds by the counter and not by the lane.
- `FirstInFirstOut`: `Spec => []LaneOrder`. `LaneOrder` alone is not inductive: it says nothing
  of the ids that come next. `Lanewise` says of each lane that its items are the accepted ones of
  their ids, in increasing order, and younger than all of the lane that was popped. Each of
  append, removal from the middle and taking the head keeps it (`AppendLane`, `KeepAtLane`,
  `TailLane`), for the lane concerned and for the others.
- `NothingStaleAfterDrain`: `Spec => []NothingStale`, with `Lanewise` (what is popped from the
  system lane is never droppable) and `DrainedBefore` (what is pushed is younger than any drain).
- `NothingLostWithoutExcuse`: `Spec => []NothingLost`, with `Lanewise` and `AudioAccounted`. The
  step that needs both is the shed (`ShedIsOld`): the counter is exact, so one frame goes
  and `AudioMax - 1` audio frames stay, all accepted after it; their ids are an injection into the
  newer audio, and the frame that is pushed is one more.

### Mutex and condition variable (`InboxCondProofs`)
`TypeCorrect` includes mutual exclusion: one holder of `in.mu`, and whoever is in a critical section is
the holder. `NoWakeupIsLost` is the invariant that a sleeper which could go on is in the set of the
signalled, or its watcher still has its broadcast to make; each step that makes room, appends, closes or
ends a context has a step of the proof. `CodeImplementsInbox` maps every step to a step of `Inbox` or a
stutter: `PushAccept` is the append under the mutex, and the watchers, waits and wakeups stutter. It
speaks of safety (`Inbox` without its fairness); `CodeKeepsPromises` carries the theorems
of `InboxProofs` over.

### The pipeline task (`TaskProofs`)
For any number of processors, any set of behaviours and any script of the client.

- `Lifecycle` joins where `Run` is, where each node is and the flags they set: `Phases` (when a node may
  be running, stopped or off), `Setups` and `Cleanups` (which processors have been set up and cleaned, as
  intervals of the chain), `Queueing` (when the prequeue may still fill). With the types it is inductive
  and gives `CleanedUpLast`, `AcknowledgedByAll` and `StoppedTaskIsSilent`.
- For the order, the way of the client's frames is a row of places (`Place`): before the pipeline (`pre`,
  the batch being flushed, the frame the client is pushing), each processor with its inbox and what it has
  in hand, and the sink. `InOrder` says that a frame further along the row never comes
  after one behind it (`Before`: queued first, and no data frame overtakes a system frame), and the same
  inside each place. Every action moves a frame to the next place, drops it or leaves the row alone.
  `ArrivesInOrder` and `EndReachesSinkLast` are read off it.
- `EndMeansDelivered` adds `Endings` (which contexts may be over when) and `LostFirst`: a data frame that
  was refused was refused because the task's context is over, and no data frame behind it
  has come as far as the last processor, so the End cannot have been seen.
- `EachErrorReportedOnce`: an ErrorFrame leaves its processor upwards and is passed on by every other one,
  so what has failed is what has been reported plus what is on its way, in system lanes and in the rest of what
  nodes still have to push. `Total` adds that over the chain; each step moves one error to the next
  place (`TotalMove`), makes one or reports one (`TotalChange`).

Two things came out of it. The invariant that the run `task` checks was false
for scripts with input audio, since a full inbox sheds it without a Process or an Interruption being
involved; `NilMeansDelivered` now excepts it. And the theorem assumes `N > 1 \/ ~ParentMayEnd`, because
it is false otherwise (section 6).

### Parallel pipelines (`ParallelProofs`)
For any topology, flat or nested:

- The types, where the work is in the join: `FlattenSeq` is a recursive function of the library, so `FlattenIs`
  says by positions what it returns (its items are those of the sequences, row after row, `RowOf`); that it
  has a value for every number of sequences is shown by least-number induction (`LeastNumber`, `FlattenerExists`).
  `MergeIs` says the same of `MergeEpoch`.
- `ErrorsOnce`: `Spec => []ErrorsReportedOnce`. As in the task, but errors come from any branch, pass fans and joins,
  and reach the source through the fan; a drain never drops one.

For flat pipelines (`Flat`: the fan is the head, the join sends to the sink, and `FlatWay` puts each processor in
its place of its branch), with any number of branches and of processors in each:

- `WavesAreComplete`: `Flat => (Spec => []WaveComplete)`. `WaveInv` is the inductive invariant. `Places`: what carries the
  wave's tag is between the fan and the join and goes down; what goes up or out of the join carries none. `Ordered`:
  along a branch, further down from where a barrier is there is nothing of its wave behind it (`Depth` orders
  the inboxes and the rests of `out` of a branch; within one of them it is `Sorted`). `Passing`: a branch whose
  barrier the join has counted brings nothing more of the wave. A step either takes wave items away or moves one
  of them to the next place of its branch (`Advance`), whatever a processor makes of it, an Interruption drains or a
  full inbox sheds; that needs that a barrier is never in a lane that can be overtaken (`Clean`).
- `WavesStayInOrder`, `FramesArriveOnce`, `SyncsKeepTheirPlace`: `Flat => (Spec => []P)` for `WavesInOrder`,
  `OncePerWave` and `SyncPlaced`. Added to `WaveInv` is `HistoryInv`. `ClientInv`: what the client has queued waits at
  the fan in the order of `Script` (`Queued`), nothing of it is in `order` yet (`Fresh`), and `order` has each of its
  frames once (`Numbered`). `FrameInv`: every frame of a wave, on its way or in a buffer of the join, comes from the
  client's frame that began the wave, and a Start, End or Cancel is that frame (`Good`); so the sync frames of a
  wave are all the same, which is what `mergeEpoch`, which places only the first, relies on. `LineInv`: what is at
  the sink, followed by what the join has still to send there, is in line: waves in order, inside a wave no copies
  and the sync frame in its place (`Before`), and all of it from waves below `next`.
- `FlatTypeCorrect`: `Flat => (Spec => []TypeOK)`, with the down lanes within their capacity (`LanesBounded`, for any
  topology) and the join's buffers only of waves from `next` on.

### Sessions (`SessionProofs`)
`TornDownOnceAndInOrder` and the action property `OwnDisconnectIsSilent`. The inductive invariant says
which goroutine may be where in which program (`Places`), that the output writes only under the lock and
to a connection that is set (`WritesUnderLock`), in which order `HandleWebSocket` and the read loop of the
client go through their places (`WsOrder`, `ClientOrder`), and that the closing flag is up as long as
the room may call back on request (`ClosingIsMarked`).

### Listening, idle and realtime (`VoicebotProofs`)
All that the run `voicebot` checks, about the specification of `Voicebot`, for every threshold, capacity, timeout
and number of chunks, utterances, flushes, interruptions and messages. A step of one part leaves the others at rest.

- Listening: the inboxes of the turn tracker and of the STT service are one row of frames. Steps append to
  it, take its head, or thin it (the shed of a full inbox), and lemmas say what `Whole` and `Alternates`
  keep of that. `RowInv` and `TurnsInv` add what is behind the row (`buf`, the flushes, the turns so far), what was
  ignored while the bot spoke and what was wiped. `ChunkIsHeardOnce`, `UtteranceIsWhole`, `DetectorsAgree`
  and `TurnsComeInPairs` are read off them.
- Idle: every timer runs out a `Timeout` after `lastSeen` or later, and time does not pass while a timer is
  due or its frame waits (`TimersInv`); the same for the watchdog and `lastReset` unless a reset waits in its
  channel (`WatchInv`). That gives the action property `NobodyFiresEarly`; `IdleGoesOn` adds that a fire frame
  leaves the inbox only taken or drained.
- Realtime: a dial starts only when all before it have failed (`DialsInv`), so only the last one can live, and
  until it has a connection that it reads from, nothing has been heard of any (`NothingYet`). With the
  context of a closed connection over, nothing of it is pushed after its Interruption (`OutInv`, `OneVoiceIsHeard`). For
  `AudioComesAnnounced`, what the reading goroutine still has to push `Continues` what has been said: `voiceOut`
  is set exactly while the last thing said is not BotStoppedSpeaking, as long as the connection's context lives
  and nothing is left to push. The end of a response clears both, whether or not audio came before it.

### Conversations (`VoiceTurnProofs`)
The invariants that the run `voice` checks except `AnsweredAtRest`, for any number of transcripts, interim
transcripts, pieces of an answer, failures and any capacities. `ConversationInv` is the inductive invariant:

- `Typed` says what each goroutine may still have to push, and to whom: a completion pushes frames of its own run
  or of none and never an interruption, and a system frame carries no run. `AnswerIs` and `SynthIs` show it of every
  service's way to answer, cut short, failed or empty.
- `Turns`, for `OldTurnIsSilent`: an Interruption goes down the chain node by node, and each node renews its turn
  with it. So a node is behind its neighbour above by at least the interruptions between the two (`TurnsFall`), and
  every frame of a run on its way to a node, in an inbox or still to be pushed, is of that node's turn or of a later
  one: the drain takes the others away when the turn changes (`LanesSince`, `TodoSince`, `SynthsSince`). A completion of an old turn cannot push, since its context
  ended when the LLM's node took the Interruption, before any node below it.
- `InOrder`, for `AnswersAreNotMixed`: a completion that replaces another starts pushing while frames of the
  first are still in the inboxes. All that is on its way, from what the live completion has left to say down to the
  TTS service's data lane, is read as one stream (`Flows`). Of a stream only this counts for its neighbours: what it
  says before its first `LLMFullResponseStart`, what it says after its last one, and whether it has one (`Joined`).
  Each step moves a frame along the stream, drops some of them or adds a Start before new text. An
  Interruption on its way cuts the stream in two; what lies beyond the cut is about to be drained.
- `OneAlive`: a completion that has begun and lives is the one `LLM.cancel` would end (`EveryRunCanBeCancelled`);
  `InOrder` needs it, since two of them would mix their text.
- `Synthesizing`, for `BotFallsSilent`: what is left of a synthesis that has set the flag clears it later. The flag is
  one for all syntheses, so a synthesis that ends may clear it while another one speaks: the
  invariant is an implication, and `QuietWhenIdle` says no more.

### Only model-checked
Liveness, and the refinement of `Inbox` with its fairness: out of the prover's reach. So is `AnsweredAtRest`,
which speaks of `ENABLED`.
Of nested pipelines, `ErrorsOnce` is proved and `WavesReleased` is checked; the invariants about waves are neither
checked nor proved for them, and `OncePerWave` does not hold of all of them (section 6).

## 5. Not modelled

`PROJECT.json` gives the status of every component. Frame payloads, logging, statistics
other than the audio drop and high-water counters, observers other than the idle observer (called
before every `Process`, without effect on the pipeline) and the bytes on the network are left out.

- The runner is `Cancel` followed by the end of the parent context; `PipelineTask` has both, in
  this order and others.
- Serializers, the resampler, WAV headers, the language table, the registry and the test harness
  are functions without state whose values are data to everything modelled here.
- `transport/local` copies streams that the caller owns; heygen, lemonslice, tavus, whatsapp and
  smallwebrtc wrap single calls of an external service. google and aws TTS, sarvam and aws STT are
  placeholders that pass every frame on.
- Of the services: a CancelFrame in an LLM or TTS (`cancelTurn`), the deprecated `Reenter`, services without
  a handle, writes to a realtime connection, the RMS gate's arithmetic.
- Of the task: `QueueSelf` other than in `Idle`, `StartSession`'s wait, a custom Source or Sink;
  `ParallelPipeline.Process`, the form of a parallel pipeline outside a task.
- The set of sessions of `cmd/voicebot`, of which one is modelled; configuration and HTTP pages.

Two limits of the abstraction: `Listening`, `VoiceTurn` and `Session` are checked apart, each
with the other's part of the program as its environment; and in `Idle` a goroutine never takes as
long as a tick.

## 6. Where documentation and code differ

Shown by runs:

1. `voice_bargein`: the LLMRun of a transcript that barges in may be drained by its own
   Interruption; the user is then not answered. This is why `AnsweredAtRest` excepts
   barge-ins.
2. `user_idle`: the bots put the idle processor first, where no activity reaches it. The
   callback then comes one Timeout after the start, although the user has just spoken, while
   `processors/idle/user_idle.go:14` speaks of silence "after conversation activity". With the
   processor behind the others (`Position = "behind"`, run `voicebot`) it fires as it should.

Seen while modelling, not stated by a run:

- `Cancel` does not stop a task that is still pushing the frames queued before `Run`
  (`pipeline/task.go:227`; the channel is only read from line 289 on).
- An InterruptionTaskFrame that is sent upstream is turned round by the first processor with
  the library's default branch (`aggregate/user.go:48`; `frames/frames.go:150-152`).
- A frame that went through a nested and a plain branch leaves the outer join twice
  (`pipeline/runtime.go:392-394`, 428-431; `docs/REFERENCE.md:127`).
- If the parent context ends while `Run` flushes the prequeue of a task with one processor, a frame of the
  prequeue is refused while an End that the client pushes a moment later gets through, and `Run` may
  return nil although the frame is lost (`pipeline/task.go:227-242`).
- After a failed Setup `QueueFrames` goes on buffering and returns nil; `StoppedTaskRefuses`
  speaks of tasks whose processors were all set up.
- STT services drop the microphone while the bot speaks, so the words of a barge-in are partly
  lost (`ignored`); a UserStartedSpeaking empties the buffer, and with it the `MinSpeech - 1` chunks
  before it, and an utterance whose flush goroutine has not run yet (`wiped`).
- `BotState` is cleared when the audio has been pushed, not when it has been played.
- A realtime service does not connect again after an Interruption has closed its connection.
- The openai service pushes BotStoppedSpeaking and clears `BotState` at every end of a response, announced or
  not (`realtime.go:224-232`), so BotSpeaking and BotStoppedSpeaking need not alternate; `AudioIsAnnounced` says
  what does hold. A connection that ends within a response leaves `BotState` set.
- When the idle callback ends the task of a ws session, the handler goes on reading
  until the peer leaves; `sessionSet` keeps tasks that have ended.
- livekit ignores tracks and participants that are reported before `t.room` is stored, and a
  track that fails to be wired uses up `subOnce`.
- `internal/resample/linear_s16le.go:28` reads a second sample of a chunk that has only one.

## 7. Plan

1. `cancelTurn`, `QueueSelf` and `StartSession` in `PipelineTask`; the end of a session in `VoiceTurn`.
2. An abstract `Pipe` (frames in, frames out, stopped or not) that `PipelineTask` implements, so that
   `Session` can use it instead of its black box.
3. `ParallelPipeline.Process` as the sequential reference that the join of `Parallel` is compared with;
   the resampler as an operator module checked against a reference.
4. Proofs: which of the invariants about waves hold of nested pipelines, where an inner join takes the outer wave's tag
   off its frames and passes the outer barriers on (`JoinForeign`): each fan's waves along each of its branches,
   with the inner pipeline as one place of the outer branch.

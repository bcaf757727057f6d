------------------------------ MODULE Realtime ------------------------------
(***************************************************************************)
(* The realtime services: one processor that holds a connection to a       *)
(* speech-to-speech model instead of the chain STT, LLM, TTS               *)
(* (services/openai/realtime.go, services/google/gemini_live.go), and the  *)
(* processor behind it, the transport's output.                            *)
(*                                                                         *)
(* A goroutine per dial connects, stores the connection and then reads     *)
(* from it; the node's goroutine closes it at an Interruption, Cancel or   *)
(* End.  The client's audio is written to the connection, if there is one, *)
(* and passed on, which changes nothing here; it is left out.              *)
(***************************************************************************)
EXTENDS InboxOps

CONSTANTS
  RealtimeServices, \* services among which the environment chooses
  Barges,           \* Interruption frames that come down to the service
  Messages          \* messages the service sends on a connection

VARIABLES
  service,    \* the realtime service of this pipeline
  life,       \* of its processor: "new", "running", "stopped", "cleaned"
  started,    \* the started flag
  connecting, \* gemini: the connecting flag
  conn,       \* the connection stored (r.conn, g.session), 0 for none
  dials,      \* the goroutines of connect, in the order they were started
  voiceOut,   \* openai: BotSpeaking was emitted for this response
  speaking,   \* BotState
  pushing,    \* what the node's goroutine has still to push
  gotStart,   \* it has taken the StartFrame
  gotEnd,     \* it has taken an End or Cancel
  barged,     \* Interruptions taken
  out,        \* the inbox of the transport's output
  silenced,   \* history: last connection closed by an Interruption the output took
  said        \* history: the audio and the announcements of it pushed to the output

flagVars == <<started, connecting, conn, dials>>
nodeVars == <<life, pushing, gotStart, gotEnd, barged>>
ownVars  == <<flagVars, nodeVars, voiceOut, out, silenced, said>>
vars == <<ownVars, service, speaking>>

Item(kind, n) == [kind |-> kind, n |-> n, dir |-> "down", ctrl |-> "none"]

(* pc of a dial: "connect" (gemini only), "dial", "store", "fail", "loop", *)
(* "done".  sock is the connection as this end sees it, ctx its context.   *)
NewDial == [pc |-> IF service = "gemini" THEN "connect" ELSE "dial",
            sock |-> "none", ctx |-> "live", todo |-> <<>>, got |-> 0]

AtRest ==
  /\ life = "new" /\ started = FALSE /\ connecting = FALSE /\ conn = 0 /\ dials = <<>>
  /\ voiceOut = FALSE /\ pushing = <<>> /\ gotStart = FALSE /\ gotEnd = FALSE /\ barged = 0
  /\ out = EmptyInbox /\ silenced = 0 /\ said = <<>>

Init == AtRest /\ service \in RealtimeServices /\ speaking = FALSE

-----------------------------------------------------------------------------
(* The node's goroutine.  A failed dial clears started, so at most one dial *)
(* is begun by Setup and one by the StartFrame.                             *)

Ensure ==
  \/ ~started /\ started' = TRUE /\ dials' = Append(dials, NewDial)
  \/ started /\ UNCHANGED <<started, dials>>

Setup ==
  /\ life = "new" /\ life' = "running"
  /\ Ensure
  /\ UNCHANGED <<connecting, conn, pushing, gotStart, gotEnd, barged, voiceOut, out,
                 silenced, said, service, speaking>>

NodeIsFree == life = "running" /\ pushing = <<>>

ProcessStart ==
  /\ NodeIsFree /\ ~gotStart /\ gotStart' = TRUE
  /\ Ensure
  /\ pushing' = <<Item("Start", 0)>>
  /\ UNCHANGED <<connecting, conn, life, gotEnd, barged, voiceOut, out, silenced, said,
                 service, speaking>>

HungUp(d) == [d EXCEPT !.ctx = "over", !.sock = "closed"]

(* closeConn, shutdown: under the mutex. *)
CloseConn ==
  /\ conn' = 0
  /\ dials' = IF conn = 0 THEN dials ELSE [dials EXCEPT ![conn] = HungUp(@)]

(* An Interruption, Cancel or End closes the connection and is passed on.  *)
ProcessClose(kind) ==
  /\ NodeIsFree /\ gotStart /\ ~gotEnd
  /\ kind = "Interruption" => barged < Barges
  /\ barged' = IF kind = "Interruption" THEN barged + 1 ELSE barged
  /\ gotEnd' = (kind \in {"End", "Cancel"})
  /\ CloseConn
  /\ pushing' = <<Item(kind, conn)>>
  /\ UNCHANGED <<started, connecting, life, gotStart, voiceOut, out, silenced, said,
                 service, speaking>>

NodePush ==
  /\ life = "running" /\ pushing # <<>> /\ ~Blocks(out, Head(pushing))
  /\ out' = Enqueue(out, Head(pushing))
  /\ pushing' = Tail(pushing)
  /\ UNCHANGED <<flagVars, life, gotStart, gotEnd, barged, voiceOut, silenced, said,
                 service, speaking>>

(* The task ends, and with it the processor's context and every context    *)
(* derived from it; then Cleanup closes the connection.                    *)
TaskStops ==
  /\ life = "running" /\ life' = "stopped"
  /\ dials' = [i \in DOMAIN dials |-> [dials[i] EXCEPT !.ctx = "over"]]
  /\ UNCHANGED <<started, connecting, conn, pushing, gotStart, gotEnd, barged, voiceOut,
                 out, silenced, said, service, speaking>>

Cleanup ==
  /\ life = "stopped" /\ life' = "cleaned"
  /\ CloseConn
  /\ UNCHANGED <<started, connecting, pushing, gotStart, gotEnd, barged, voiceOut, out,
                 silenced, said, service, speaking>>

-----------------------------------------------------------------------------
(* connect *)

Goes(i, pc) == dials' = [dials EXCEPT ![i].pc = pc]
OnlyFlags == UNCHANGED <<nodeVars, voiceOut, out, silenced, said, service, speaking>>

(* gemini: one connect at a time, and none beside an open session. *)
GeminiConnect(i) ==
  /\ dials[i].pc = "connect"
  /\ \/ (connecting \/ conn # 0) /\ Goes(i, "done") /\ UNCHANGED connecting
     \/ ~connecting /\ conn = 0 /\ connecting' = TRUE /\ Goes(i, "dial")
  /\ UNCHANGED <<started, conn>> /\ OnlyFlags

(* The handshake succeeds or fails; it fails when the context is over. *)
Dial(i) ==
  /\ dials[i].pc = "dial"
  /\ \/ Goes(i, "fail")
     \/ /\ dials[i].ctx = "live"
        /\ dials' = [dials EXCEPT ![i].pc = "store", ![i].sock = "open"]
  /\ UNCHANGED <<started, connecting, conn>> /\ OnlyFlags

OpenAIStore(i) ==
  /\ dials[i].pc = "store" /\ service = "openai"
  /\ conn' = i /\ Goes(i, "loop")
  /\ UNCHANGED <<started, connecting>> /\ OnlyFlags

GeminiStore(i) ==
  /\ dials[i].pc = "store" /\ service = "gemini"
  /\ conn' = i /\ connecting' = FALSE /\ Goes(i, "loop")
  /\ UNCHANGED started /\ OnlyFlags

(* The next StartFrame may try again; an error is pushed unless the task   *)
(* is over.                                                                *)
DialFailed(i) ==
  /\ dials[i].pc = "fail"
  /\ started' = FALSE /\ connecting' = FALSE
  /\ Goes(i, "done")
  /\ out' = IF life = "running" THEN Enqueue(out, Item("Error", 0)) ELSE out
  /\ UNCHANGED <<conn, nodeVars, voiceOut, silenced, said, service, speaking>>

-----------------------------------------------------------------------------
(* The goroutine that reads from connection i: each message becomes a list *)
(* of things to do, done one by one.                                       *)

Receives(i) ==
  dials[i].pc = "loop" /\ dials[i].todo = <<>> /\ dials[i].sock = "open"
    /\ dials[i].got < Messages

Heard(d, todo) == [d EXCEPT !.got = @ + 1, !.todo = todo]

Does(i, todo) ==
  /\ dials' = [dials EXCEPT ![i] = Heard(@, todo)]
  /\ UNCHANGED <<started, connecting, conn, nodeVars, out, silenced, said, service>>

(* openai: audio of a response.  The first one is announced.  A delta that  *)
(* is empty or cannot be decoded is skipped, which changes nothing.         *)
ReadDelta(i) ==
  /\ service = "openai" /\ Receives(i) /\ dials[i].ctx = "live"
  /\ voiceOut' = TRUE /\ speaking' = TRUE
  /\ Does(i, IF voiceOut THEN <<"TTSAudio">> ELSE <<"BotSpeaking", "TTSAudio">>)

ReadDone_KeepsFlag(i) ==
  /\ service = "openai" /\ Receives(i) /\ dials[i].ctx = "live"
  /\ Does(i, <<"BotStoppedSpeaking", "silent">>)
  /\ UNCHANGED <<voiceOut, speaking>>

(* openai: the audio of the response is complete.  Nothing is asked of what *)
(* came before: a response all of whose deltas were skipped ends as well.   *)
ReadDone(i) ==
  /\ service = "openai" /\ Receives(i) /\ dials[i].ctx = "live"
  /\ voiceOut' = FALSE
  /\ Does(i, <<"BotStoppedSpeaking", "silent">>)
  /\ UNCHANGED speaking

(* gemini: the server reports that the user interrupted it, or sends audio. *)
Receive(i) ==
  /\ service = "gemini" /\ Receives(i)
  /\ \E todo \in {<<"Interruption">>,
                  <<"speak", "BotSpeaking", "TTSAudio", "BotStoppedSpeaking", "silent">>} :
       Does(i, todo)
  /\ UNCHANGED <<voiceOut, speaking>>

(* The loop ends when reading fails, or when it finds its context over. *)
LoopEnds(i) ==
  /\ dials[i].pc = "loop" /\ dials[i].todo = <<>>
  /\ dials[i].sock = "closed" \/ dials[i].ctx = "over"
  /\ Goes(i, "done")
  /\ UNCHANGED <<started, connecting, conn>> /\ OnlyFlags

Done(i) == dials' = [dials EXCEPT ![i].todo = Tail(@)]

LoopFlags(i) ==
  /\ dials[i].todo # <<>> /\ Head(dials[i].todo) \in {"speak", "silent"}
  /\ speaking' = (Head(dials[i].todo) = "speak")
  /\ Done(i)
  /\ UNCHANGED <<started, connecting, conn, nodeVars, voiceOut, out, silenced, said, service>>

PushIsOver_ProcContext(i) == life # "running"

(* The context of a push is the connection's. *)
PushIsOver(i) == dials[i].ctx = "over"

Voiced == {"BotSpeaking", "TTSAudio", "BotStoppedSpeaking"}

LoopPush(i) ==
  LET kind == Head(dials[i].todo)
      q == Item(kind, IF kind = "TTSAudio" THEN i ELSE 0)
  IN /\ dials[i].todo # <<>> /\ kind \notin {"speak", "silent"}
     /\ \/ PushIsOver(i) /\ UNCHANGED <<out, said>>
        \/ /\ ~PushIsOver(i) /\ ~Blocks(out, q)
           /\ out' = Enqueue(out, q)
           /\ said' = IF kind \in Voiced THEN Append(said, kind) ELSE said
     /\ Done(i)
     /\ UNCHANGED <<started, connecting, conn, nodeVars, voiceOut, silenced, service, speaking>>

(* The other end closes the connection, or the network does. *)
ConnectionLost(i) ==
  /\ dials[i].sock = "open"
  /\ dials' = [dials EXCEPT ![i].sock = "closed"]
  /\ UNCHANGED <<started, connecting, conn>> /\ OnlyFlags

DialStep(i) ==
  i \in DOMAIN dials /\
    \/ GeminiConnect(i) \/ Dial(i) \/ OpenAIStore(i) \/ GeminiStore(i) \/ DialFailed(i)
    \/ ReadDelta(i) \/ ReadDone(i) \/ Receive(i) \/ LoopEnds(i) \/ LoopFlags(i)
    \/ LoopPush(i) \/ ConnectionLost(i)

-----------------------------------------------------------------------------
(* The node behind: an Interruption drains its inbox (runtime.go:503). *)
OutputTakes ==
  /\ ~IsEmpty(out)
  /\ LET q == Front(out)
         barge == q.kind = "Interruption"
     IN /\ out' = IF barge THEN DrainInterruptible(PopFront(out)) ELSE PopFront(out)
        /\ silenced' = IF barge /\ q.n > silenced THEN q.n ELSE silenced
  /\ UNCHANGED <<flagVars, nodeVars, voiceOut, said, service, speaking>>

MaxDials == 3

Next ==
  \/ Setup \/ ProcessStart \/ NodePush \/ TaskStops \/ Cleanup
  \/ \E kind \in {"Interruption", "Cancel", "End"} : ProcessClose(kind)
  \/ \E i \in 1..MaxDials : DialStep(i)
  \/ OutputTakes

Spec == Init /\ [][Next]_vars

-----------------------------------------------------------------------------
(* The output hears one connection only.  At most one is being opened or   *)
(* open, whatever order Setup, a failing dial, the StartFrame and Cleanup   *)
(* come in (realtime.go:79); and once the output has taken an Interruption  *)
(* that closed a connection, audio of it never waits there again: what the  *)
(* reading goroutine pushed before is drained, what it pushes after is      *)
(* refused by the connection's context (realtime.go:236-247, 215).          *)
OneVoice ==
  /\ Cardinality({i \in DOMAIN dials :
                   dials[i].pc \in {"connect", "dial", "store"} \/ dials[i].sock = "open"}) <= 1
  /\ \A k \in DOMAIN out.down : out.down[k].kind = "TTSAudio" => out.down[k].n > silenced

(* What the output is told of the bot's voice fits what it gets of it: all  *)
(* audio comes after a BotSpeaking with no BotStoppedSpeaking since, and    *)
(* BotSpeaking is not said again before a BotStoppedSpeaking, through every *)
(* interruption, lost connection, cut response, stray end of a response and *)
(* refused push (realtime.go:204-230, gemini_live.go).                      *)
AudioIsAnnounced ==
  \A k \in DOMAIN said :
    /\ said[k] = "TTSAudio" => k > 1 /\ said[k - 1] # "BotStoppedSpeaking"
    /\ said[k] = "BotSpeaking" => k = 1 \/ said[k - 1] = "BotStoppedSpeaking"
=============================================================================

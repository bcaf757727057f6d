------------------------------ MODULE Session ------------------------------
(***************************************************************************)
(* One session: a transport, the pipeline task behind it, and the program  *)
(* that starts both and waits for their end.                               *)
(*   "voicebot"          cmd/voicebot with transport/ws: a WebSocket server *)
(*   "voicebot-livekit"  cmd/voicebot-livekit with transport/livekit       *)
(*   "client"            transport/websocket/client, and a caller that uses *)
(*                       it as its comments say                            *)
(* The task is a black box that runs, is cancelled or asked to end, and    *)
(* then ends as PipelineTask shows.  Of its processors the transport's     *)
(* output is modelled, whose Process the task has to wait for.  What the   *)
(* peer sends is queued to the task and is the business of Listening.      *)
(***************************************************************************)
EXTENDS Naturals

CONSTANTS
  Programs, \* the programs considered
  Speech,   \* chunks of bot audio that reach the output
  Tracks    \* livekit: microphone tracks of the remote participant

ASSUME SessionAssumption ==
  /\ Programs \subseteq {"voicebot", "voicebot-livekit", "client"}
  /\ Speech \in Nat /\ Tracks \in Nat

VARIABLES
  program,
  main,      \* where the program's goroutine is, which in voicebot also reads
  reader,    \* client: where the goroutine of readLoop is
  task,      \* "queued" before Run, "running", "ended"
  cancelled, \* Cancel was called, or the context of Run is over
  endAsked,  \* StopWhenDone was called
  root,      \* the program has got its signal to stop
  peer,      \* the client or the room: "here" or "gone"
  sock,      \* the connection at this end: "none", "open", "closed"
  conn,      \* t.conn, livekit: t.room, is set
  pcm,       \* livekit: t.localPCM is set
  lock,      \* t.mu is held by the output
  output,    \* its Process: "idle" or "writing"
  speech,    \* chunks it has still to take
  notified,  \* calls of OnDisconnect
  closing,   \* livekit: the closing flag
  callback,  \* livekit: onRoomDisconnected: "none", "unasked", "asked", "fires"
  mic,       \* livekit: "none", "wired", "failed"
  tracks,    \* livekit: tracks subscribed
  missed     \* history: a track came before t.room was set

taskVars == <<task, cancelled, endAsked, root>>
linkVars == <<peer, sock, conn, pcm, lock>>
outVars  == <<output, speech>>
roomVars == <<closing, callback, mic, tracks, missed>>
vars == <<program, main, reader, taskVars, linkVars, outVars, notified, roomVars>>

Init ==
  /\ program \in Programs
  /\ main = "connect" /\ reader = "none"
  /\ task = "queued" /\ cancelled = FALSE /\ endAsked = FALSE /\ root = FALSE
  /\ peer = "here" /\ sock = "none" /\ conn = FALSE /\ pcm = FALSE /\ lock = FALSE
  /\ output = "idle" /\ speech = Speech /\ notified = 0
  /\ closing = FALSE /\ callback = "none" /\ mic = "none" /\ tracks = 0 /\ missed = FALSE

-----------------------------------------------------------------------------
(* The task *)

TaskOnly == UNCHANGED <<program, main, reader, linkVars, outVars, notified, roomVars>>

(* voicebot starts Run beside the reader, voicebot-livekit when the room is *)
(* joined, the caller of a client whenever it likes.                        *)
TaskRuns ==
  /\ task = "queued" /\ task' = "running"
  /\ program = "voicebot-livekit" => main = "run"
  /\ UNCHANGED <<cancelled, endAsked, root>> /\ TaskOnly

(* The callback of the user's idle timer, or of the idle observer. *)
IdleStops ==
  /\ task = "running" /\ ~endAsked /\ endAsked' = TRUE
  /\ UNCHANGED <<task, cancelled, root>> /\ TaskOnly

(* SIGINT: the context of Run is over, and voicebot cancels all tasks.      *)
(* voicebot-livekit catches it once it has joined the room.                 *)
Signal ==
  /\ program = "voicebot-livekit" => main \notin {"connect", "store", "publish"}
  /\ ~root /\ root' = TRUE
  /\ cancelled' = (cancelled \/ program = "voicebot")
  /\ UNCHANGED <<task, endAsked>> /\ TaskOnly

(* Run waits for the goroutines of the processors. *)
TaskEnds ==
  /\ task = "running" /\ (cancelled \/ endAsked \/ root) /\ output = "idle"
  /\ task' = "ended"
  /\ UNCHANGED <<cancelled, endAsked, root>> /\ TaskOnly

-----------------------------------------------------------------------------
(* The transport's output *)

OutOnly == UNCHANGED <<program, main, reader, taskVars, peer, sock, conn, pcm, notified,
                       roomVars>>

OutputTakes_Unlocked ==
  /\ task = "running" /\ output = "idle" /\ speech > 0 /\ ~lock
  /\ output' = IF conn THEN "writing" ELSE "idle"
  /\ speech' = speech - 1
  /\ UNCHANGED lock /\ OutOnly

(* ws and client hold t.mu while they write. *)
OutputTakes ==
  /\ program # "voicebot-livekit"
  /\ task = "running" /\ output = "idle" /\ speech > 0 /\ ~lock
  /\ output' = IF conn THEN "writing" ELSE "idle"
  /\ lock' = conn
  /\ speech' = speech - 1
  /\ OutOnly

(* livekit holds it only to read t.localPCM. *)
LkOutputTakes ==
  /\ program = "voicebot-livekit"
  /\ task = "running" /\ output = "idle" /\ speech > 0
  /\ output' = IF pcm THEN "writing" ELSE "idle"
  /\ speech' = speech - 1
  /\ UNCHANGED lock /\ OutOnly

OutputWritten_KeepsLock ==
  /\ output = "writing" /\ output' = "idle"
  /\ lock' = (lock /\ peer = "gone")
  /\ UNCHANGED speech /\ OutOnly

(* The write returns, with an error if the peer is gone. *)
OutputWritten ==
  /\ output = "writing" /\ output' = "idle"
  /\ lock' = FALSE
  /\ UNCHANGED speech /\ OutOnly

-----------------------------------------------------------------------------
(* voicebot: runVoiceSession and, in it, HandleWebSocket *)

MainGoes(p, from, to) == program = p /\ main = from /\ main' = to
OnlyMain == UNCHANGED <<program, reader, taskVars, linkVars, outVars, notified, roomVars>>

WsUpgrade ==
  /\ \/ /\ MainGoes("voicebot", "connect", "store")
        /\ sock' = "open"
     \/ MainGoes("voicebot", "connect", "cancel") /\ UNCHANGED sock
  /\ UNCHANGED <<program, reader, taskVars, peer, conn, pcm, lock, outVars, notified, roomVars>>

(* setConn(c); the StartFrame is queued next. *)
WsSetConn ==
  /\ MainGoes("voicebot", "store", "read")
  /\ ~lock /\ conn' = TRUE
  /\ UNCHANGED <<program, reader, taskVars, peer, sock, pcm, lock, outVars, notified, roomVars>>

WsReadFails ==
  MainGoes("voicebot", "read", "clear") /\ peer = "gone" /\ OnlyMain

(* The deferred setConn(nil), Close and OnDisconnect, in this order. *)
WsClearConn ==
  /\ MainGoes("voicebot", "clear", "close")
  /\ ~lock /\ conn' = FALSE
  /\ UNCHANGED <<program, reader, taskVars, peer, sock, pcm, lock, outVars, notified, roomVars>>

WsClose ==
  /\ MainGoes("voicebot", "close", "notify")
  /\ sock' = "closed"
  /\ UNCHANGED <<program, reader, taskVars, peer, conn, pcm, lock, outVars, notified, roomVars>>

WsNotify ==
  /\ MainGoes("voicebot", "notify", "cancel")
  /\ notified' = notified + 1 /\ cancelled' = TRUE
  /\ UNCHANGED <<program, reader, task, endAsked, root, linkVars, outVars, roomVars>>

SessionCancels ==
  /\ MainGoes("voicebot", "cancel", "wait")
  /\ cancelled' = TRUE
  /\ UNCHANGED <<program, reader, task, endAsked, root, linkVars, outVars, notified, roomVars>>

(* It waits for Run, for 25 s at most. *)
SessionWaits ==
  /\ \/ MainGoes("voicebot", "wait", "returned") /\ task = "ended"
     \/ MainGoes("voicebot", "wait", "gaveUp") /\ task # "ended"
  /\ OnlyMain

-----------------------------------------------------------------------------
(* client: Connect, readLoop and Close *)

ClientConnect ==
  /\ \/ MainGoes("client", "connect", "store") /\ sock' = "open"
     \/ MainGoes("client", "connect", "returned") /\ UNCHANGED sock
  /\ UNCHANGED <<program, reader, taskVars, peer, conn, pcm, lock, outVars, notified, roomVars>>

ClientSetConn ==
  /\ MainGoes("client", "store", "connected")
  /\ ~lock /\ conn' = TRUE /\ reader' = "read"
  /\ UNCHANGED <<program, taskVars, peer, sock, pcm, lock, outVars, notified, roomVars>>

ClientClose ==
  /\ MainGoes("client", "connected", "closing")
  /\ ~lock /\ conn' = FALSE
  /\ UNCHANGED <<program, reader, taskVars, peer, sock, pcm, lock, outVars, notified, roomVars>>

ClientCloses ==
  /\ MainGoes("client", "closing", "returned")
  /\ sock' = "closed"
  /\ UNCHANGED <<program, reader, taskVars, peer, conn, pcm, lock, outVars, notified, roomVars>>

ReaderGoes(from, to) == reader = from /\ reader' = to
OnlyReader == UNCHANGED <<program, main, task, endAsked, root, peer, pcm, lock, outVars, roomVars>>

ReadLoopFails ==
  /\ ReaderGoes("read", "close") /\ (peer = "gone" \/ sock = "closed" \/ root)
  /\ UNCHANGED <<cancelled, sock, conn, notified>> /\ OnlyReader

ReadLoopCloses ==
  /\ ReaderGoes("close", "clear") /\ sock' = "closed"
  /\ UNCHANGED <<cancelled, conn, notified>> /\ OnlyReader

ReadLoopClears ==
  /\ ReaderGoes("clear", "notify") /\ ~lock /\ conn' = FALSE
  /\ UNCHANGED <<cancelled, sock, notified>> /\ OnlyReader

ReadLoopNotifies ==
  /\ ReaderGoes("notify", "done")
  /\ notified' = notified + 1 /\ cancelled' = TRUE
  /\ UNCHANGED <<sock, conn>> /\ OnlyReader

-----------------------------------------------------------------------------
(* voicebot-livekit: main, Connect and Disconnect *)

Lk(from, to) == MainGoes("voicebot-livekit", from, to)
OnlyLink == UNCHANGED <<program, reader, taskVars, peer, lock, outVars, notified, mic, tracks,
                        missed>>

(* From here on the room calls back. *)
LkJoin ==
  /\ \/ Lk("connect", "store") /\ sock' = "open"
     \/ Lk("connect", "fatal") /\ UNCHANGED sock
  /\ UNCHANGED <<conn, pcm, closing, callback>> /\ OnlyLink

LkStoreRoom ==
  /\ Lk("store", "publish") /\ conn' = TRUE
  /\ UNCHANGED <<sock, pcm, closing, callback>> /\ OnlyLink

LkPublish ==
  /\ \/ Lk("publish", "run") /\ pcm' = TRUE /\ UNCHANGED sock
     \/ Lk("publish", "fatal") /\ sock' = "closed" /\ UNCHANGED pcm
  /\ UNCHANGED <<conn, closing, callback>> /\ OnlyLink

(* After Run the program rests in the room until its signal. *)
LkRunReturns ==
  Lk("run", "rest") /\ task = "ended" /\ OnlyMain

LkDisconnect ==
  /\ Lk("rest", "take") /\ root
  /\ closing' = TRUE
  /\ UNCHANGED <<sock, conn, pcm, callback>> /\ OnlyLink

LkTake_Unmarks ==
  /\ Lk("take", "leaving") /\ conn' = FALSE /\ pcm' = FALSE /\ closing' = FALSE
  /\ UNCHANGED <<sock, callback>> /\ OnlyLink

LkTake ==
  /\ Lk("take", "leaving") /\ conn' = FALSE /\ pcm' = FALSE
  /\ UNCHANGED <<sock, closing, callback>> /\ OnlyLink

(* room.Disconnect: the room may call onRoomDisconnected before it returns. *)
LkLeave ==
  /\ program = "voicebot-livekit" /\ main = "leaving" /\ sock = "open" /\ sock' = "closed"
  /\ callback' \in {callback, IF callback = "none" THEN "asked" ELSE callback}
  /\ UNCHANGED <<main, conn, pcm, closing>> /\ OnlyLink

LkLeft ==
  /\ Lk("leaving", "returned") /\ sock = "closed" /\ callback # "asked"
  /\ closing' = FALSE
  /\ UNCHANGED <<sock, conn, pcm, callback>> /\ OnlyLink

(* Callbacks *)

CallbackOnly == UNCHANGED <<program, main, reader, task, endAsked, root, linkVars, outVars>>

(* The server drops the room: nobody asked for it. *)
RoomLost ==
  /\ program = "voicebot-livekit" /\ sock = "open" /\ callback = "none"
  /\ sock' = "closed" /\ callback' = "unasked"
  /\ UNCHANGED <<conn, pcm, main, closing>> /\ OnlyLink

(* onRoomDisconnected looks at closing, then fires. *)
OnRoomDisconnected ==
  /\ callback \in {"asked", "unasked"}
  /\ callback' = IF closing THEN "done" ELSE "fires"
  /\ UNCHANGED <<cancelled, notified, closing, mic, tracks, missed>> /\ CallbackOnly

FireOnDisconnect ==
  /\ callback = "fires" /\ callback' = "done"
  /\ notified' = notified + 1 /\ cancelled' = TRUE
  /\ UNCHANGED <<closing, mic, tracks, missed>> /\ CallbackOnly

(* onRemoteParticipantDisconnected: ignored while t.room is not set. *)
ParticipantLeaves ==
  /\ program = "voicebot-livekit" /\ sock = "open" /\ peer = "here" /\ peer' = "gone"
  /\ notified' = IF conn THEN notified + 1 ELSE notified
  /\ cancelled' = (cancelled \/ conn)
  /\ UNCHANGED <<program, main, reader, task, endAsked, root, sock, conn, pcm, lock, outVars,
                 roomVars>>

(* The first microphone track is wired, or fails to be; it is ignored while *)
(* t.room is not set.                                                       *)
OnTrackSubscribed ==
  /\ program = "voicebot-livekit" /\ sock = "open" /\ peer = "here" /\ tracks < Tracks
  /\ tracks' = tracks + 1
  /\ mic' \in IF conn /\ mic = "none" THEN {"wired", "failed"} ELSE {mic}
  /\ missed' = (missed \/ ~conn)
  /\ UNCHANGED <<cancelled, notified, closing, callback>> /\ CallbackOnly

-----------------------------------------------------------------------------
(* The client goes away, or the network between. *)
PeerGoes ==
  /\ program # "voicebot-livekit" /\ sock = "open" /\ peer = "here" /\ peer' = "gone"
  /\ UNCHANGED <<program, main, reader, taskVars, sock, conn, pcm, lock, outVars, notified,
                 roomVars>>

Voicebot == WsUpgrade \/ WsSetConn \/ WsReadFails \/ WsClearConn \/ WsClose \/ WsNotify
            \/ SessionCancels \/ SessionWaits
Client == ClientConnect \/ ClientSetConn \/ ClientCloses
Reader == ReadLoopFails \/ ReadLoopCloses \/ ReadLoopClears \/ ReadLoopNotifies
Livekit == LkJoin \/ LkStoreRoom \/ LkPublish \/ LkRunReturns \/ LkDisconnect \/ LkTake
           \/ LkLeave \/ LkLeft
(* A read is only sure to return when the connection is over. *)
ReaderGoesOn == Reader /\ (reader = "read" => peer = "gone" \/ sock = "closed")
Callbacks == OnRoomDisconnected \/ FireOnDisconnect
Output == OutputTakes \/ LkOutputTakes \/ OutputWritten

Next ==
  \/ TaskRuns \/ IdleStops \/ Signal \/ TaskEnds
  \/ Output \/ Voicebot \/ Client \/ ClientClose \/ Reader \/ Livekit \/ Callbacks
  \/ RoomLost \/ ParticipantLeaves \/ OnTrackSubscribed \/ PeerGoes

(* Goroutines are scheduled.  A write ends when the peer is gone or this    *)
(* end has closed the connection; while the peer is there but does not      *)
(* read, it may never end.                                                  *)
Fairness ==
  /\ WF_vars(TaskRuns) /\ WF_vars(TaskEnds)
  /\ WF_vars(Voicebot) /\ WF_vars(Client) /\ WF_vars(ReaderGoesOn) /\ WF_vars(Livekit)
  /\ WF_vars(Callbacks)
  /\ WF_vars(OutputWritten /\ (peer = "gone" \/ sock = "closed"))

Spec == Init /\ [][Next]_vars /\ Fairness

-----------------------------------------------------------------------------
(* A connection of ws or client is torn down in one order, however the end  *)
(* of the peer, a write that is under way, Close and the read loop meet:    *)
(* ws takes it away under the lock the writer holds and closes it after     *)
(* that, so that its output never writes to what its own side has closed    *)
(* (ws/transport.go:95-96); and OnDisconnect is called once, when the       *)
(* connection is closed and taken away (client/transport.go:72-106).        *)
TornDownInOrder ==
  /\ program = "voicebot" /\ sock = "closed" => output = "idle"
  /\ program # "voicebot-livekit" /\ notified > 0 => notified = 1 /\ sock = "closed" /\ ~conn

(* OnDisconnect of livekit is not called for a Disconnect of its own        *)
(* (livekit/transport.go:32): when the room has called back because it was  *)
(* asked to close, nothing fires.                                           *)
IntentIsSilent ==
  [][callback = "asked" => callback' # "fires"]_vars

(* When the peer of a connection goes, or livekit reports it, the task ends *)
(* although the output may be in the middle of a write, and voicebot leaves *)
(* the session.                                                             *)
SessionEnds ==
  /\ (program # "voicebot-livekit" /\ conn /\ peer = "gone") ~> (task = "ended")
  /\ (program = "voicebot" /\ peer = "gone") ~> (main \in {"returned", "gaveUp"})
  /\ (program = "voicebot-livekit" /\ main = "run" /\ notified > 0) ~> (task = "ended")
=============================================================================

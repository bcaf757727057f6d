---------------------------- MODULE PipelineTask ----------------------------
(***************************************************************************)
(* A PipelineTask that runs a chain of processors: the goroutine that      *)
(* calls Run, one goroutine per processor, a client that queues frames, a  *)
(* processor handle used from outside Process, and whoever calls Cancel or *)
(* ends the parent context (pipeline/task.go, pipeline/runtime.go).        *)
(*                                                                         *)
(* Each inbox is a value of InboxOps; a push that must wait keeps its      *)
(* goroutine where it is (module InboxCond shows that the code's waiting   *)
(* amounts to that).  What Process does is up to the processor: Behaviours *)
(* lists what the processors of an instance may do with a frame.           *)
(*   "relay"   passes it on the way it was going                           *)
(*   "down"    emits it downstream whatever its direction, the default     *)
(*             branch of every processor under aggregate/, audio/,         *)
(*             processors/, services/ and transport/                       *)
(*   "absorb"  emits nothing                                               *)
(*   "fail"    returns an error            "panic"  panics                 *)
(*   "hang"    returns only when its context is done                       *)
(***************************************************************************)
EXTENDS InboxOps, Functions

CONSTANTS
  N,             \* number of processors
  Script,        \* kinds of the frames the client queues, in order
  Behaviours,    \* what Process may do
  MayCancel,     \* somebody may call Cancel
  ParentMayEnd,  \* the context given to Run may end
  SetupMayFail,  \* a processor's Setup may return an error
  MaxRequests,   \* InterruptionTask frames pushed upstream by handles
  MaxFaults      \* bound on the Process calls that fail or panic

ASSUME TaskAssumption ==
  /\ N \in Nat \ {0}
  /\ Script \in Seq(FrameKinds)
  /\ Behaviours \subseteq {"relay", "down", "absorb", "fail", "panic", "hang"}
  /\ Behaviours # {}
  /\ {MayCancel, ParentMayEnd, SetupMayFail} \subseteq BOOLEAN
  /\ {MaxRequests, MaxFaults} \subseteq Nat

Procs == 1..N

VARIABLES
  inbox,       \* processor -> its inbox
  npc,         \* processor -> "off", "pop", "process", "hung", "deliver", "stopped"
  cur,         \* processor -> the item it handles, or NoItem
  out,         \* processor -> what it has still to deliver for that item
  rpc,         \* where Run is
  step,        \* the processor Run is at in Setup, pushing Cancel, Cleanup
  result,      \* what Run returns: "none", "nil", "canceled", "error"
  pre,         \* PipelineTask.pre: frames queued before accept
  batch,       \* the part of pre that flushPrequeue is pushing
  accept,      \* PipelineTask.accept
  cancelReq,   \* cancelReq is closed
  ended,       \* ended is closed
  startedSeen, \* startedSeen is closed
  ackOnce,     \* processors that have acknowledged a CancelFrame
  ackGot,      \* PipelineTask.ackGot
  rootDone,    \* the task context, every node's n.ctx, is done
  parentDone,  \* the context given to Run is done
  didSetup,    \* processors whose Setup returned nil
  cleaned,     \* processors cleaned up, in order
  sent,        \* frames of Script the client has handed to QueueFrames
  cpc,         \* "idle", or "push" while the client is inside inbox.push
  requests,    \* InterruptionTask frames pushed so far
  failures,    \* history: Process calls that returned an error
  panics,      \* history: Process calls that panicked
  unforwarded, \* history: client frames a Process or a drain did not pass on
  honored,     \* history: Interruptions pushed at the head by the source
  onErrors,    \* history: calls of the task's OnError
  arrived,     \* history: ids of client frames that reached the sink
  endSeen,     \* history: id of the End frame that reached the sink, or 0
  why          \* history: why Run stopped waiting in finishCancel

runVars    == <<rpc, step, result, batch, didSetup, cleaned, why>>
nodeVars   == <<npc, cur, out>>
signals    == <<cancelReq, ended, startedSeen, ackOnce, ackGot, onErrors, honored,
                arrived, endSeen>>
clientVars == <<sent, cpc>>
faults     == <<failures, panics, unforwarded>>
vars == <<inbox, npc, cur, out, rpc, step, result, pre, batch, accept,
          cancelReq, ended, startedSeen, ackOnce, ackGot, rootDone, parentDone,
          didSetup, cleaned, sent, cpc, requests, failures, panics, unforwarded, honored,
          onErrors, arrived, endSeen, why>>

Item(kind, dir, n) == [kind |-> kind, dir |-> dir, ctrl |-> "none", id |-> n]

NoItem == [kind |-> "none", dir |-> "down", ctrl |-> "none", id |-> 0]

Init ==
  /\ inbox = [n \in Procs |-> EmptyInbox]
  /\ npc = [n \in Procs |-> "off"]
  /\ cur = [n \in Procs |-> NoItem]
  /\ out = [n \in Procs |-> <<>>]
  /\ rpc = "new" /\ step = 0 /\ result = "none"
  /\ pre = <<>> /\ batch = <<>> /\ accept = FALSE
  /\ cancelReq = FALSE /\ ended = FALSE /\ startedSeen = FALSE
  /\ ackOnce = {} /\ ackGot = 0
  /\ rootDone = FALSE /\ parentDone = FALSE
  /\ didSetup = {} /\ cleaned = <<>>
  /\ sent = 0 /\ cpc = "idle" /\ requests = 0
  /\ failures = 0 /\ panics = 0 /\ unforwarded = {}
  /\ honored = 0 /\ onErrors = 0 /\ arrived = <<>> /\ endSeen = 0 /\ why = "none"

(* A push under a context succeeds, is refused, or does neither yet. *)
CanPush(n, q, done) == ~inbox[n].closed /\ ~done /\ ~Blocks(inbox[n], q)
IsRefused(n, done) == inbox[n].closed \/ done

Push(n, q) == inbox' = [inbox EXCEPT ![n] = Enqueue(@, q)]

-----------------------------------------------------------------------------
(* A node goroutine: runNode and onProc *)

NodePop(n) ==
  /\ npc[n] = "pop"
  /\ ~IsEmpty(inbox[n])
  /\ cur' = [cur EXCEPT ![n] = Front(inbox[n])]
  /\ inbox' = [inbox EXCEPT ![n] = PopFront(@)]
  /\ npc' = [npc EXCEPT ![n] = "process"]
  /\ UNCHANGED <<out, runVars, pre, accept, signals, rootDone, parentDone,
                 clientVars, requests, faults>>

NodeStop(n) ==
  /\ npc[n] = "pop"
  /\ IsEmpty(inbox[n])
  /\ inbox[n].closed \/ rootDone
  /\ npc' = [npc EXCEPT ![n] = "stopped"]
  /\ UNCHANGED <<inbox, cur, out, runVars, pre, accept, signals, rootDone,
                 parentDone, clientVars, requests, faults>>

(* What Process emits for an item, and what onProc adds after it: the       *)
(* error or panic report, and the frames it forwards when Process did not.  *)
Emit(to, q) == [to |-> to, q |-> Item(q.kind, to, q.id)]

Emitted(b, q) ==
  CASE b = "relay" -> <<Emit(q.dir, q)>>
    [] b = "down" -> <<Emit("down", q)>>
    [] b = "fail" -> <<Emit("up", Item("Error", "up", 0))>>
    [] b = "panic" -> <<Emit("up", Item("FatalError", "up", 0)), Emit("task", NoItem)>>
    [] b \in {"absorb", "hang"} -> <<>>

Forwarded(b, q) == b = "relay" \/ (b = "down" /\ q.dir = "down")

AutoForwarded_DownOnly(b, q) ==
  IF ~Forwarded(b, q) /\ q.dir = "down" /\ AutoForwardDown(q.kind)
  THEN <<Emit(q.dir, q)>> ELSE <<>>

AutoForwarded(b, q) ==
  IF /\ ~Forwarded(b, q)
     /\ \/ q.dir = "down" /\ AutoForwardDown(q.kind)
        \/ q.dir = "up" /\ AutoForwardUp(q.kind)
  THEN <<Emit(q.dir, q)>> ELSE <<>>

Deliveries(b, q) == Emitted(b, q) \o AutoForwarded(b, q)

NoteCancel_EveryFrame(n) ==
  IF cur[n].kind = "Cancel"
  THEN ackOnce' = ackOnce \cup {n} /\ ackGot' = ackGot + 1
  ELSE UNCHANGED <<ackOnce, ackGot>>

(* noteCancel: a node acknowledges once, however many CancelFrames it gets. *)
NoteCancel(n) ==
  IF cur[n].kind = "Cancel" /\ n \notin ackOnce
  THEN ackOnce' = ackOnce \cup {n} /\ ackGot' = ackGot + 1
  ELSE UNCHANGED <<ackOnce, ackGot>>

DrainedIds(n) ==
  IF cur[n].kind = "Interruption"
  THEN {inbox[n].down[i].id : i \in DOMAIN inbox[n].down \ KeptAt(inbox[n].down)}
  ELSE {}

NodeProcess(n) ==
  /\ npc[n] = "process"
  /\ IF cur[n].kind = "Interruption"
     THEN inbox' = [inbox EXCEPT ![n] = DrainInterruptible(@)]
     ELSE UNCHANGED inbox
  /\ NoteCancel(n)
  /\ \E b \in Behaviours :
       /\ out' = [out EXCEPT ![n] = Deliveries(b, cur[n])]
       /\ npc' = [npc EXCEPT ![n] = IF b = "hang" THEN "hung" ELSE "deliver"]
       /\ failures' = IF b = "fail" THEN failures + 1 ELSE failures
       /\ panics' = IF b = "panic" THEN panics + 1 ELSE panics
       /\ unforwarded' =
            unforwarded \cup DrainedIds(n) \cup
            (IF \E i \in DOMAIN out'[n] : out'[n][i].q.id = cur[n].id
             THEN {} ELSE {cur[n].id})
       /\ b \in {"fail", "panic"} => failures + panics < MaxFaults
  /\ UNCHANGED <<cur, runVars, pre, accept, cancelReq, ended, startedSeen, onErrors,
                 honored, arrived, endSeen, rootDone, parentDone, clientVars, requests>>

(* Process waited for its context. *)
NodeUnhang(n) ==
  /\ npc[n] = "hung"
  /\ rootDone
  /\ npc' = [npc EXCEPT ![n] = "deliver"]
  /\ UNCHANGED <<inbox, cur, out, runVars, pre, accept, signals, rootDone,
                 parentDone, clientVars, requests, faults>>

NextDelivery(n) == Head(out[n])

Delivered(n) == out' = [out EXCEPT ![n] = Tail(@)]

(* deliverDown and deliverUp between neighbours. *)
NodeDeliver(n) ==
  /\ npc[n] = "deliver" /\ out[n] # <<>>
  /\ LET m == IF NextDelivery(n).to = "down" THEN n + 1 ELSE n - 1
         q == NextDelivery(n).q
     IN /\ NextDelivery(n).to \in {"down", "up"} /\ m \in Procs
        /\ \/ CanPush(m, q, rootDone) /\ Push(m, q)
           \/ IsRefused(m, rootDone) /\ UNCHANGED inbox
  /\ Delivered(n)
  /\ UNCHANGED <<npc, cur, runVars, pre, accept, signals, rootDone, parentDone,
                 clientVars, requests, faults>>

(* onSink *)
NodeReachSink(n) ==
  /\ npc[n] = "deliver" /\ out[n] # <<>>
  /\ n = N /\ NextDelivery(n).to = "down"
  /\ LET q == NextDelivery(n).q
     IN /\ startedSeen' = (startedSeen \/ q.kind = "Start")
        /\ ended' = (ended \/ EndsTask(q.kind))
        /\ endSeen' = IF q.kind = "End" /\ endSeen = 0 THEN q.id ELSE endSeen
        /\ arrived' = IF q.id = 0 THEN arrived ELSE Append(arrived, q.id)
  /\ Delivered(n)
  /\ UNCHANGED <<inbox, npc, cur, runVars, pre, accept, cancelReq, ackOnce, ackGot,
                 onErrors, honored, rootDone, parentDone, clientVars, requests, faults>>

(* onSourceUpstream: an InterruptionTask becomes an Interruption at the     *)
(* head, a FatalError cancels the task, an Error is reported.               *)
AtSource(q) ==
  /\ IF q.kind = "InterruptionTask" /\ ~inbox[1].closed
     THEN Push(1, Item("Interruption", "down", 0)) ELSE UNCHANGED inbox
  /\ cancelReq' = (cancelReq \/ q.kind = "FatalError")
  /\ honored' = IF q.kind = "InterruptionTask" THEN honored + 1 ELSE honored
  /\ onErrors' = IF q.kind = "Error" THEN onErrors + 1 ELSE onErrors

NodeReachSource(n) ==
  /\ npc[n] = "deliver" /\ out[n] # <<>>
  /\ n = 1 /\ NextDelivery(n).to = "up"
  /\ AtSource(NextDelivery(n).q)
  /\ Delivered(n)
  /\ UNCHANGED <<npc, cur, runVars, pre, accept, ended, startedSeen, ackOnce,
                 ackGot, arrived, endSeen, rootDone, parentDone, clientVars,
                 requests, faults>>

(* The recovery of a panic calls Cancel. *)
NodeCancelsTask(n) ==
  /\ npc[n] = "deliver" /\ out[n] # <<>>
  /\ NextDelivery(n).to = "task"
  /\ cancelReq' = TRUE
  /\ Delivered(n)
  /\ UNCHANGED <<inbox, npc, cur, runVars, pre, accept, ended, startedSeen,
                 ackOnce, ackGot, onErrors, honored, arrived, endSeen,
                 rootDone, parentDone, clientVars, requests, faults>>

NodeDone(n) ==
  /\ npc[n] = "deliver" /\ out[n] = <<>>
  /\ npc' = [npc EXCEPT ![n] = "pop"]
  /\ cur' = [cur EXCEPT ![n] = NoItem]
  /\ UNCHANGED <<inbox, out, runVars, pre, accept, signals, rootDone, parentDone,
                 clientVars, requests, faults>>

NodeStep(n) ==
  \/ NodePop(n) \/ NodeStop(n) \/ NodeProcess(n) \/ NodeUnhang(n)
  \/ NodeDeliver(n) \/ NodeReachSink(n) \/ NodeReachSource(n)
  \/ NodeCancelsTask(n) \/ NodeDone(n)

-----------------------------------------------------------------------------
(* The goroutine that calls Run *)

RunGoto(label) == rpc' = label

(* Run refuses to start under a context that is done or after Cancel. *)
RunStart ==
  /\ rpc = "new"
  /\ IF parentDone \/ cancelReq
     THEN RunGoto("returned") /\ result' = "canceled" /\ UNCHANGED step
     ELSE RunGoto("setup") /\ step' = 1 /\ UNCHANGED result
  /\ rootDone' = parentDone
  /\ UNCHANGED <<inbox, nodeVars, pre, accept, batch, didSetup, cleaned, why,
                 signals, parentDone, clientVars, requests, faults>>

(* setupAll, one processor after the other; the first error ends it. *)
RunSetup ==
  /\ rpc = "setup" /\ step <= N
  /\ \/ /\ didSetup' = didSetup \cup {step}
        /\ step' = step + 1
        /\ UNCHANGED <<rpc, result>>
     \/ /\ SetupMayFail
        /\ RunGoto("cleanup") /\ step' = N /\ result' = "error"
        /\ UNCHANGED didSetup
  /\ UNCHANGED <<inbox, nodeVars, pre, accept, batch, cleaned, why, signals,
                 rootDone, parentDone, clientVars, requests, faults>>

RunSpawn ==
  /\ rpc = "setup" /\ step > N
  /\ npc' = [n \in Procs |-> "pop"]
  /\ RunGoto("flush")
  /\ UNCHANGED <<inbox, cur, out, step, result, pre, accept, batch, didSetup,
                 cleaned, why, signals, rootDone, parentDone, clientVars,
                 requests, faults>>

FlushTake_AcceptsFirst ==
  /\ rpc = "flush" /\ batch = <<>>
  /\ batch' = pre /\ pre' = <<>>
  /\ accept' = TRUE
  /\ IF pre = <<>> THEN RunGoto("select") ELSE UNCHANGED rpc
  /\ UNCHANGED <<inbox, nodeVars, step, result, didSetup, cleaned, why, signals,
                 rootDone, parentDone, clientVars, requests, faults>>

FlushTake_NeverAccepts ==
  /\ rpc = "flush" /\ batch = <<>>
  /\ batch' = pre /\ pre' = <<>>
  /\ IF pre = <<>> THEN RunGoto("select") ELSE UNCHANGED rpc
  /\ UNCHANGED <<inbox, nodeVars, step, result, didSetup, cleaned, why, signals,
                 accept, rootDone, parentDone, clientVars, requests, faults>>

(* flushPrequeue takes what was queued, or starts accepting when there is   *)
(* nothing, both under the task mutex.                                      *)
FlushTake ==
  /\ rpc = "flush" /\ batch = <<>>
  /\ batch' = pre /\ pre' = <<>>
  /\ IF pre = <<>> THEN accept' = TRUE /\ RunGoto("select")
     ELSE UNCHANGED <<accept, rpc>>
  /\ UNCHANGED <<inbox, nodeVars, step, result, didSetup, cleaned, why, signals,
                 rootDone, parentDone, clientVars, requests, faults>>

FlushPush ==
  /\ rpc = "flush" /\ batch # <<>>
  /\ \/ CanPush(1, Head(batch), rootDone) /\ Push(1, Head(batch))
     \/ IsRefused(1, rootDone) /\ UNCHANGED inbox
  /\ batch' = Tail(batch)
  /\ UNCHANGED <<nodeVars, rpc, step, result, pre, accept, didSetup, cleaned, why,
                 signals, rootDone, parentDone, clientVars, requests, faults>>

(* Run's select picks any case that is ready.  finishCancel first looks at  *)
(* the task context: if that is done it skips the CancelFrames.             *)
RunSelect ==
  /\ rpc = "select"
  /\ \/ ended /\ RunGoto("force") /\ result' = "nil" /\ UNCHANGED step
     \/ /\ cancelReq \/ rootDone
        /\ result' = "canceled"
        /\ IF rootDone THEN RunGoto("force") /\ UNCHANGED step
           ELSE RunGoto("cancel") /\ step' = 1
  /\ UNCHANGED <<inbox, nodeVars, pre, accept, batch, didSetup, cleaned, why,
                 signals, rootDone, parentDone, clientVars, requests, faults>>

(* finishCancel pushes a CancelFrame to every processor, then waits. *)
CancelPushFrame ==
  /\ rpc = "cancel"
  /\ Push(step, Item("Cancel", "down", 0))
  /\ IF step = N THEN RunGoto("await") ELSE UNCHANGED rpc
  /\ step' = step + 1
  /\ UNCHANGED <<nodeVars, result, pre, accept, batch, didSetup, cleaned, why,
                 signals, rootDone, parentDone, clientVars, requests, faults>>

CancelAwait_NoTimeout ==
  /\ rpc = "await"
  /\ \/ ackGot >= N /\ why' = "acks"
     \/ ended /\ why' = "ended"
     \/ rootDone /\ why' = "parent"
  /\ RunGoto("force")
  /\ UNCHANGED <<inbox, nodeVars, step, result, pre, accept, batch, didSetup,
                 cleaned, signals, rootDone, parentDone, clientVars, requests, faults>>

(* The wait ends; the timer may be first at any time. *)
CancelAwait ==
  /\ rpc = "await"
  /\ \/ ackGot >= N /\ why' = "acks"
     \/ ended /\ why' = "ended"
     \/ rootDone /\ why' = "parent"
     \/ why' = "timeout"
  /\ RunGoto("force")
  /\ UNCHANGED <<inbox, nodeVars, step, result, pre, accept, batch, didSetup,
                 cleaned, signals, rootDone, parentDone, clientVars, requests, faults>>

(* forceStop cancels the context and closes every inbox.  A node cannot     *)
(* tell the closes apart, since its pushes are refused from the first       *)
(* moment, and clients push to the head only: they are one step.            *)
ForceStop ==
  /\ rpc = "force"
  /\ rootDone' = TRUE
  /\ inbox' = [n \in Procs |-> Closed(inbox[n])]
  /\ RunGoto("join")
  /\ UNCHANGED <<nodeVars, step, result, pre, accept, batch, didSetup, cleaned,
                 why, signals, parentDone, clientVars, requests, faults>>

RunJoin_DoesNotWait ==
  /\ rpc = "join"
  /\ RunGoto("cleanup") /\ step' = N
  /\ UNCHANGED <<inbox, nodeVars, result, pre, accept, batch, didSetup, cleaned,
                 why, signals, rootDone, parentDone, clientVars, requests, faults>>

(* wg.Wait *)
RunJoin ==
  /\ rpc = "join"
  /\ \A n \in Procs : npc[n] = "stopped"
  /\ RunGoto("cleanup") /\ step' = N
  /\ UNCHANGED <<inbox, nodeVars, result, pre, accept, batch, didSetup, cleaned,
                 why, signals, rootDone, parentDone, clientVars, requests, faults>>

(* cleanupAll, last processor first, skipping those whose Setup failed or   *)
(* never ran; then Run returns, which also cancels the task context.        *)
RunCleanup ==
  /\ rpc = "cleanup"
  /\ cleaned' = IF step \in didSetup THEN Append(cleaned, step) ELSE cleaned
  /\ step' = step - 1
  /\ IF step = 1 THEN RunGoto("returned") /\ rootDone' = TRUE
     ELSE UNCHANGED <<rpc, rootDone>>
  /\ UNCHANGED <<inbox, nodeVars, result, pre, accept, batch, didSetup, why,
                 signals, parentDone, clientVars, requests, faults>>

RunStep ==
  \/ RunStart \/ RunSetup \/ RunSpawn \/ FlushTake \/ FlushPush \/ RunSelect
  \/ CancelPushFrame \/ CancelAwait \/ ForceStop \/ RunJoin \/ RunCleanup

-----------------------------------------------------------------------------
(* The client, the handle and the caller of Cancel *)

ClientQueue_PushesOnceStarted ==
  /\ cpc = "idle" /\ sent < Len(Script)
  /\ sent' = sent + 1
  /\ IF rpc \notin {"new", "setup"}
     THEN cpc' = "push" /\ UNCHANGED pre
     ELSE pre' = Append(pre, Item(Script[sent + 1], "down", sent + 1)) /\ UNCHANGED cpc
  /\ UNCHANGED <<inbox, nodeVars, runVars, accept, signals, rootDone, parentDone,
                 requests, faults>>

(* QueueFrames appends to pre under the task mutex, or goes on to push. *)
ClientQueue ==
  /\ cpc = "idle" /\ sent < Len(Script)
  /\ sent' = sent + 1
  /\ IF accept
     THEN cpc' = "push" /\ UNCHANGED pre
     ELSE pre' = Append(pre, Item(Script[sent + 1], "down", sent + 1)) /\ UNCHANGED cpc
  /\ UNCHANGED <<inbox, nodeVars, runVars, accept, signals, rootDone, parentDone,
                 requests, faults>>

(* Its push at the head, under a context that never ends. *)
ClientPush ==
  /\ cpc = "push"
  /\ LET q == Item(Script[sent], "down", sent)
     IN \/ CanPush(1, q, FALSE) /\ Push(1, q)
        \/ IsRefused(1, FALSE) /\ UNCHANGED inbox
  /\ cpc' = "idle"
  /\ UNCHANGED <<nodeVars, runVars, pre, accept, sent, signals, rootDone,
                 parentDone, requests, faults>>

(* A processor's handle pushes an InterruptionTask upstream. *)
HandleRequest(n) ==
  /\ requests < MaxRequests
  /\ requests' = requests + 1
  /\ LET q == Item("InterruptionTask", "up", 0)
     IN IF n = 1 THEN AtSource(q)
        ELSE /\ UNCHANGED <<cancelReq, onErrors, honored>>
             /\ IF inbox[n - 1].closed THEN UNCHANGED inbox ELSE Push(n - 1, q)
  /\ UNCHANGED <<nodeVars, runVars, pre, accept, ended, startedSeen, ackOnce,
                 ackGot, arrived, endSeen, rootDone, parentDone, clientVars, faults>>

Cancel ==
  /\ MayCancel /\ ~cancelReq
  /\ cancelReq' = TRUE
  /\ UNCHANGED <<inbox, nodeVars, runVars, pre, accept, ended, startedSeen, ackOnce,
                 ackGot, onErrors, honored, arrived, endSeen, rootDone,
                 parentDone, clientVars, requests, faults>>

(* The parent ends, and with it the task context derived from it. *)
ParentEnds ==
  /\ ParentMayEnd /\ ~parentDone
  /\ parentDone' = TRUE
  /\ rootDone' = (rpc # "new")
  /\ UNCHANGED <<inbox, nodeVars, runVars, pre, accept, signals, clientVars,
                 requests, faults>>

Next ==
  \/ RunStep
  \/ \E n \in Procs : NodeStep(n) \/ HandleRequest(n)
  \/ ClientQueue \/ ClientPush \/ Cancel \/ ParentEnds

(* Goroutines that can run do run and timers fire.  A push that waits for   *)
(* room competes only with pushes of other goroutines to the same inbox.    *)
Fairness ==
  /\ WF_vars(RunStep)
  /\ \A n \in Procs : WF_vars(NodeStep(n))
  /\ WF_vars(ClientPush)

Spec == Init /\ [][Next]_vars /\ Fairness

-----------------------------------------------------------------------------
ItemKinds == FrameKinds \cup {"none"}
Items == [kind : ItemKinds, dir : {"up", "down"}, ctrl : {"none"}, id : Nat]

(* Every variable has its type. *)
TypeOK ==
  /\ \A n \in Procs :
       /\ inbox[n].sys \in Seq(Items) /\ inbox[n].up \in Seq(Items)
       /\ inbox[n].down \in Seq(Items)
       /\ npc[n] \in {"off", "pop", "process", "hung", "deliver", "stopped"}
       /\ cur[n] \in Items \cup {NoItem}
       /\ \A i \in DOMAIN out[n] : out[n][i].to \in {"up", "down", "task"}
  /\ rpc \in {"new", "setup", "flush", "select", "cancel", "await", "force",
              "join", "cleanup", "returned"}
  /\ step \in 0..N + 1
  /\ result \in {"none", "nil", "canceled", "error"}
  /\ pre \in Seq(Items) /\ batch \in Seq(Items)
  /\ didSetup \subseteq Procs /\ ackOnce \subseteq Procs
  /\ ackGot \in 0..N
  /\ why \in {"none", "acks", "ended", "parent", "timeout"}

ItemsOf(n) ==
  {inbox[n].sys[i] : i \in DOMAIN inbox[n].sys}
    \cup {inbox[n].up[i] : i \in DOMAIN inbox[n].up}
    \cup {inbox[n].down[i] : i \in DOMAIN inbox[n].down}
    \cup {out[n][i].q : i \in DOMAIN out[n]}
    \cup (IF npc[n] = "process" THEN {cur[n]} ELSE {})

(* The client frames that are anywhere between QueueFrames and the sink. *)
Inside ==
  (UNION {{q.id : q \in ItemsOf(n)} : n \in Procs})
    \cup {pre[i].id : i \in DOMAIN pre} \cup {batch[i].id : i \in DOMAIN batch}
    \cup (IF cpc = "push" THEN {sent} ELSE {})

IsData(id) == ~IsSystem(Script[id])

(* End is last: when it reaches the sink, every frame the client queued     *)
(* before it has left the pipeline, whichever way it went (pre, the batch   *)
(* being flushed, directly) and whatever the processors did with it.        *)
EndIsLast == endSeen # 0 => \A id \in 1..endSeen - 1 : id \notin Inside

(* Frames reach the sink once, and data frames in the order they were       *)
(* queued, across the switch from pre to direct pushes.                     *)
ArrivalOrder ==
  \A i, j \in DOMAIN arrived :
    i < j => /\ arrived[i] # arrived[j]
             /\ IsData(arrived[i]) /\ IsData(arrived[j]) => arrived[i] < arrived[j]

(* If Run returns nil, no frame queued before the End was lost on the way:  *)
(* each reached the sink unless a Process kept it, an Interruption dropped  *)
(* it, or it is input audio, which a full inbox sheds.                      *)
NilMeansDelivered ==
  (result = "nil" /\ endSeen # 0) =>
    \A id \in 1..endSeen - 1 :
      \/ id \in {arrived[i] : i \in DOMAIN arrived} \cup unforwarded
      \/ Script[id] = "InputAudio"

(* Run takes the acknowledgements as complete only when every processor has *)
(* seen a CancelFrame, although each processor also gets the CancelFrames   *)
(* that those before it forward.                                            *)
AckedByAll == why = "acks" => ackOnce = Procs

(* Cleanup runs when no node goroutine is left, for exactly the processors  *)
(* that were set up, last first; Run returns after it has.                  *)
CleanupLast ==
  /\ cleaned # <<>> => \A n \in Procs : npc[n] \in {"off", "stopped"}
  /\ \A i, j \in DOMAIN cleaned : i < j => cleaned[i] > cleaned[j]
  /\ rpc = "returned" =>
       /\ {cleaned[i] : i \in DOMAIN cleaned} = didSetup
       /\ \A n \in Procs : npc[n] \in {"off", "stopped"}

ErrorsGoingUp ==
  LET Count(s) == Cardinality({i \in DOMAIN s : s[i].kind = "Error" /\ s[i].dir = "up"})
      At(n) == Count(inbox[n].sys)
               + Cardinality({i \in DOMAIN out[n] :
                   out[n][i].q.kind = "Error" /\ out[n][i].to = "up"})
               + (IF npc[n] = "process" /\ cur[n].kind = "Error" /\ cur[n].dir = "up"
                  THEN 1 ELSE 0)
  IN FoldFunction(LAMBDA x, y : x + y, 0, [n \in Procs |-> At(n)])

(* Each error a Process returns is reported to OnError once: until the task *)
(* context ends it is either reported or one ErrorFrame on its way up,      *)
(* whether the processors in between relay it, swallow it, or bounce a copy *)
(* downstream.                                                              *)
ErrorReportedOnce == ~rootDone => onErrors + ErrorsGoingUp = failures

(* A task whose processors were all set up refuses work once Run has        *)
(* returned, whichever way it ended: nothing is buffered for a flush that   *)
(* will not come, nothing enters an inbox nobody empties.                   *)
StoppedTaskRefuses ==
  [][(rpc = "returned" /\ didSetup = Procs) =>
       /\ pre' = pre
       /\ \A n \in Procs : ~(Len(inbox'[n].sys) + Len(inbox'[n].down)
                              > Len(inbox[n].sys) + Len(inbox[n].down))]_vars

(* Cancel stops a running task: once frames are accepted, Run returns after *)
(* Cancel even if a Process hangs until its context is done and even if a   *)
(* node waits for room behind it.                                           *)
CancelStops == (cancelReq /\ accept) ~> rpc = "returned"

(* StopWhenDone stops a task that has been started, unless some Process     *)
(* hangs: the End gets through every full lane and every processor.         *)
EndStops ==
  ((\E k \in 1..sent : Script[k] = "End") /\ rpc # "new")
     ~> (rpc = "returned" \/ \E n \in Procs : npc[n] = "hung")

=============================================================================

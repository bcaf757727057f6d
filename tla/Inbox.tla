-------------------------------- MODULE Inbox --------------------------------
(***************************************************************************)
(* One inbox with the goroutines that use it: any number of pushers (the   *)
(* neighbouring nodes, processor handles and task clients) and the single  *)
(* node goroutine that pops and handles items (pipeline/inbox.go and the   *)
(* part of runNode and onProc that concerns the node's own inbox).         *)
(*                                                                         *)
(* Waiting is abstract here: a push that may not proceed stays pending and *)
(* an empty pop stays idle.  InboxCond models the mutex, the condition     *)
(* variable and the context watchers, and implements this module.          *)
(*                                                                         *)
(* accepted, popped, drainedAt and stoppedAt record history; no action's   *)
(* guard reads them, except the bound MaxPushes on the number of pushes.   *)
(***************************************************************************)
EXTENDS InboxOps

CONSTANTS Pushers,    \* goroutines that push
          Offers,     \* the items (kind, dir, ctrl) they may push
          MaxPushes   \* bound on the pushes of one behaviour

ASSUME OffersAssumption ==
  /\ Offers \subseteq [kind : FrameKinds \cup {"none"}, dir : {"up", "down"},
                       ctrl : {"none", "barrier"}]
  /\ \A o \in Offers : (o.ctrl = "barrier") <=> (o.kind = "none")

ASSUME MaxPushesAssumption == MaxPushes \in Nat

VARIABLES
  inbox,      \* the inbox value
  pend,       \* pusher -> the item it is inside push with, or NoItem
  pushDone,   \* pusher -> the context of its push is done
  popDone,    \* the node's context is done
  cons,       \* "idle" in pop, "busy" handling held, "stopped" loop returned
  held,       \* the item being handled, or NoItem
  accepted,   \* history: the items that entered the inbox, in order
  popped,     \* history: ids of the items handed to the node
  drainedAt,  \* history: Len(accepted) at the last interruption drain
  stoppedAt   \* history: Len(accepted) when the loop returned

vars == <<inbox, pend, pushDone, popDone, cons, held,
          accepted, popped, drainedAt, stoppedAt>>

Item(o, n) == [kind |-> o.kind, dir |-> o.dir, ctrl |-> o.ctrl, id |-> n]

NoItem == [kind |-> "none", dir |-> "down", ctrl |-> "none", id |-> 0]

Pending == {p \in Pushers : pend[p] # NoItem}

Init ==
  /\ inbox = EmptyInbox
  /\ pend = [p \in Pushers |-> NoItem]
  /\ pushDone = [p \in Pushers |-> FALSE]
  /\ popDone = FALSE
  /\ cons = "idle"
  /\ held = NoItem
  /\ accepted = <<>>
  /\ popped = {}
  /\ drainedAt = 0
  /\ stoppedAt = 0

-----------------------------------------------------------------------------
(* A goroutine calls push; its context may already be done. *)
PushBegin(p) ==
  /\ pend[p] = NoItem
  /\ Len(accepted) + Cardinality(Pending) < MaxPushes
  /\ \E o \in Offers : pend' = [pend EXCEPT ![p] = Item(o, 0)]
  /\ \E done \in BOOLEAN : pushDone' = [pushDone EXCEPT ![p] = done]
  /\ UNCHANGED <<inbox, popDone, cons, held, accepted, popped, drainedAt, stoppedAt>>

(* The push finds room, an open inbox and a live context. *)
PushAccept(p) ==
  /\ pend[p] # NoItem
  /\ ~inbox.closed
  /\ ~pushDone[p]
  /\ ~Blocks(inbox, pend[p])
  /\ LET q == [pend[p] EXCEPT !.id = Len(accepted) + 1]
     IN /\ inbox' = Enqueue(inbox, q)
        /\ accepted' = Append(accepted, q)
  /\ pend' = [pend EXCEPT ![p] = NoItem]
  /\ UNCHANGED <<pushDone, popDone, cons, held, popped, drainedAt, stoppedAt>>

(* The push returns ErrClosed or its context's error. *)
PushRefuse(p) ==
  /\ pend[p] # NoItem
  /\ inbox.closed \/ pushDone[p]
  /\ pend' = [pend EXCEPT ![p] = NoItem]
  /\ UNCHANGED <<inbox, pushDone, popDone, cons, held, accepted, popped, drainedAt, stoppedAt>>

(* The node takes the next item; a closed inbox is emptied first. *)
Pop ==
  /\ cons = "idle"
  /\ ~IsEmpty(inbox)
  /\ inbox' = PopFront(inbox)
  /\ held' = Front(inbox)
  /\ popped' = popped \cup {Front(inbox).id}
  /\ cons' = "busy"
  /\ UNCHANGED <<pend, pushDone, popDone, accepted, drainedAt, stoppedAt>>

(* pop reports that there will be nothing more and the loop returns. *)
PopStop ==
  /\ cons = "idle"
  /\ IsEmpty(inbox)
  /\ inbox.closed \/ popDone
  /\ cons' = "stopped"
  /\ stoppedAt' = Len(accepted)
  /\ UNCHANGED <<inbox, pend, pushDone, popDone, held, accepted, popped, drainedAt>>

(* The node handles the item; an Interruption drains the node's inbox. *)
Handle ==
  /\ cons = "busy"
  /\ IF held.kind = "Interruption"
     THEN /\ inbox' = DrainInterruptible(inbox)
          /\ drainedAt' = Len(accepted)
     ELSE UNCHANGED <<inbox, drainedAt>>
  /\ cons' = "idle"
  /\ held' = NoItem
  /\ UNCHANGED <<pend, pushDone, popDone, accepted, popped, stoppedAt>>

(* forceStop closes the inbox. *)
Close ==
  /\ ~inbox.closed
  /\ inbox' = Closed(inbox)
  /\ UNCHANGED <<pend, pushDone, popDone, cons, held, accepted, popped, drainedAt, stoppedAt>>

(* The contexts end on their own: a turn is cancelled, the task is. *)
CancelPush(p) ==
  /\ pend[p] # NoItem
  /\ ~pushDone[p]
  /\ pushDone' = [pushDone EXCEPT ![p] = TRUE]
  /\ UNCHANGED <<inbox, pend, popDone, cons, held, accepted, popped, drainedAt, stoppedAt>>

CancelPop ==
  /\ ~popDone
  /\ popDone' = TRUE
  /\ UNCHANGED <<inbox, pend, pushDone, cons, held, accepted, popped, drainedAt, stoppedAt>>

Next ==
  \/ \E p \in Pushers : \/ PushBegin(p) \/ PushAccept(p)
                        \/ PushRefuse(p) \/ CancelPush(p)
  \/ Pop \/ PopStop \/ Handle \/ Close \/ CancelPop

(* The scheduler runs a goroutine that can run; callers and cancellation    *)
(* are the environment's and get no fairness.                               *)
Fairness ==
  /\ \A p \in Pushers : WF_vars(PushAccept(p)) /\ WF_vars(PushRefuse(p))
  /\ WF_vars(Pop) /\ WF_vars(PopStop) /\ WF_vars(Handle)

Spec == Init /\ [][Next]_vars /\ Fairness
-----------------------------------------------------------------------------
OfferOf(q) == [kind |-> q.kind, dir |-> q.dir, ctrl |-> q.ctrl]

ItemSet == {q \in [kind : FrameKinds \cup {"none"}, dir : {"up", "down"},
                   ctrl : {"none", "barrier"}, id : Nat] : OfferOf(q) \in Offers}

Lanes == <<inbox.sys, inbox.up, inbox.down>>
LaneNames == <<"sys", "up", "down">>

(* The ids of the items that wait in the inbox. *)
Waiting == UNION {{Lanes[l][i].id : i \in DOMAIN Lanes[l]} : l \in 1..3}

(* Every variable has its type: what waits in a lane, is pushed or handled  *)
(* is an item built from an offer.                                          *)
TypeOK ==
  /\ inbox \in [sys : Seq(ItemSet), up : Seq(ItemSet), down : Seq(ItemSet),
                audioN : Nat, closed : BOOLEAN, hiWater : Nat, audioDrop : Nat]
  /\ pend \in [Pushers -> ItemSet \cup {NoItem}]
  /\ pushDone \in [Pushers -> BOOLEAN]
  /\ popDone \in BOOLEAN
  /\ cons \in {"idle", "busy", "stopped"}
  /\ held \in ItemSet \cup {NoItem}
  /\ accepted \in Seq(ItemSet)
  /\ popped \in SUBSET Nat
  /\ drainedAt \in Nat
  /\ stoppedAt \in Nat

(* The counter the audio limit works with is exact: after any mix of        *)
(* pushes, pops and sheds audioN is the number of input-audio frames that   *)
(* wait, and that number never passes AudioSysQueueMax (inbox.push,         *)
(* dropOldestAudioLocked and pop each keep their own share of the count).   *)
AudioAccounted ==
  /\ inbox.audioN = Cardinality(AudioAt(inbox.sys))
  /\ inbox.audioN <= AudioMax

(* Backpressure holds: downstream data never passes DataQueueSize, whatever *)
(* wakes a blocked push, and stats never reports more than that.            *)
DownBounded == Len(inbox.down) <= DataMax /\ inbox.hiWater <= DataMax

(* Each lane is first in, first out across all pushers: items wait in the   *)
(* order they were accepted, and no item still waiting is older than one of *)
(* its lane that was already popped.  Draining and audio shedding remove    *)
(* items from the middle and must not disturb the rest.                     *)
LaneOrder ==
  \A l \in 1..3 : \A i \in DOMAIN Lanes[l] :
    /\ \A j \in DOMAIN Lanes[l] : i < j => Lanes[l][i].id < Lanes[l][j].id
    /\ \A t \in popped : Lane(accepted[t]) = LaneNames[l] => t < Lanes[l][i].id

(* Nothing stale after a barge-in: once the node has handled an             *)
(* Interruption, no interruptible frame accepted before that moment is      *)
(* waiting or being handled, in the up lane or the down lane.               *)
NothingStale ==
  /\ \A q \in {inbox.up[i] : i \in DOMAIN inbox.up}
           \cup {inbox.down[i] : i \in DOMAIN inbox.down} :
       Droppable(q) => q.id > drainedAt
  /\ (held # NoItem /\ Droppable(held)) => held.id > drainedAt

(* An accepted item may disappear in two ways only: an interruptible frame  *)
(* is dropped by a drain that came after it, and an input-audio frame is    *)
(* shed when AudioSysQueueMax newer ones arrived.  End, function results,   *)
(* barriers and all other system frames are never lost.                     *)
Excused(t) ==
  \/ Droppable(accepted[t]) /\ t <= drainedAt
  \/ /\ IsAudio(accepted[t])
     /\ Cardinality({u \in t+1..Len(accepted) : IsAudio(accepted[u])}) >= AudioMax

NothingLost ==
  \A t \in 1..Len(accepted) : t \in popped \/ t \in Waiting \/ Excused(t)

(* No push blocks forever: it returns once room is made, the inbox is       *)
(* closed or its context ends, unless the node loop has returned.  There    *)
(* are at most MaxPushes of them, so a push cannot lose every race.         *)
PushReturns ==
  \A p \in Pushers : pend[p] # NoItem ~> (pend[p] = NoItem \/ cons = "stopped")

(* Every item accepted while the node loop runs leaves the inbox in the     *)
(* end, also when the inbox is closed or the task context ends meanwhile.   *)
AcceptedLeaves ==
  \A t \in 1..MaxPushes : t \in Waiting /\ cons # "stopped" ~> t \notin Waiting
=============================================================================

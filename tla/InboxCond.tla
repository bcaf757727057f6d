------------------------------ MODULE InboxCond ------------------------------
(***************************************************************************)
(* How inbox.go waits: one mutex, one condition variable shared by the     *)
(* node that pops and every goroutine that pushes, and for each wait a     *)
(* watcher goroutine that turns the end of a context into a broadcast      *)
(* (push, pop and waitLocked, one action per stretch of code between two   *)
(* points where another goroutine can run).                                *)
(*                                                                         *)
(* The module implements Inbox, where waiting is abstract: Abs!Spec is a   *)
(* property of the specification.  A wakeup that is lost would show as a   *)
(* push or pop that Inbox says must return and that sleeps forever.        *)
(***************************************************************************)
EXTENDS InboxOps

CONSTANTS Pushers, Offers, MaxPushes, \* as in Inbox
          Node,                       \* the node goroutine
          Nobody                      \* the mutex is free

ASSUME NodeAssumption == Node \notin Pushers /\ Nobody \notin Pushers \cup {Node}

ASSUME OffersAssumption ==
  /\ Offers \subseteq [kind : FrameKinds \cup {"none"}, dir : {"up", "down"},
                       ctrl : {"none", "barrier"}]
  /\ \A o \in Offers : (o.ctrl = "barrier") <=> (o.kind = "none")

ASSUME MaxPushesAssumption == MaxPushes \in Nat

Goroutines == Pushers \cup {Node}

VARIABLES
  inbox, pend, pushDone, popDone, held,    \* as in Inbox
  accepted, popped, drainedAt, stoppedAt,  \* history, as in Inbox
  pc,        \* where each goroutine is, see TypeOK
  mutex,     \* the goroutine that holds inbox.mu, or Nobody
  sleepers,  \* goroutines in cond.Wait that no broadcast has woken yet
  watcher,   \* goroutine -> the watcher of its current wait
  stray      \* some watcher whose wait is over will still broadcast

data == <<inbox, held, accepted, popped, drainedAt, stoppedAt>>
vars == <<inbox, pend, pushDone, popDone, held, accepted, popped, drainedAt,
          stoppedAt, pc, mutex, sleepers, watcher, stray>>

Cons ==
  CASE pc[Node] = "handle" -> "busy"
    [] pc[Node] = "stopped" -> "stopped"
    [] OTHER -> "idle"

Abs == INSTANCE Inbox WITH cons <- Cons

Done(g) == IF g = Node THEN popDone ELSE pushDone[g]

Init ==
  /\ inbox = EmptyInbox
  /\ pend = [p \in Pushers |-> Abs!NoItem]
  /\ pushDone = [p \in Pushers |-> FALSE]
  /\ popDone = FALSE
  /\ held = Abs!NoItem
  /\ accepted = <<>>
  /\ popped = {}
  /\ drainedAt = 0
  /\ stoppedAt = 0
  /\ pc = [g \in Goroutines |-> IF g = Node THEN "lock" ELSE "out"]
  /\ mutex = Nobody
  /\ sleepers = {}
  /\ watcher = [g \in Goroutines |-> "off"]
  /\ stray = FALSE

Goto(g, label) == pc' = [pc EXCEPT ![g] = label]

Unlock == mutex' = Nobody
Broadcast == sleepers' = {}

-----------------------------------------------------------------------------
(* Every goroutine: taking the mutex and sleeping. *)

(* mu.Lock(), or the end of cond.Wait() once a broadcast has come. *)
Acquire(g) ==
  /\ mutex = Nobody
  /\ \/ pc[g] = "lock" /\ Goto(g, "check")
     \/ pc[g] = "asleep" /\ g \notin sleepers /\ Goto(g, "woken")
  /\ mutex' = g
  /\ UNCHANGED <<data, pend, pushDone, popDone, sleepers, watcher, stray>>

(* cond.Wait() releases the mutex and sleeps in one step. *)
Sleep(g) ==
  /\ pc[g] = "wait"
  /\ sleepers' = sleepers \cup {g}
  /\ Unlock
  /\ Goto(g, "asleep")
  /\ UNCHANGED <<data, pend, pushDone, popDone, watcher, stray>>

(* close(stop): the watcher ends, unless the context is done as well and    *)
(* its select picks that case, or has already picked it.                    *)
StopWatcher(g) ==
  /\ pc[g] = "woken"
  /\ \/ watcher[g] # "fired" /\ UNCHANGED stray
     \/ watcher[g] = "fired" /\ stray' = TRUE
     \/ watcher[g] = "armed" /\ Done(g) /\ stray' = TRUE
  /\ watcher' = [watcher EXCEPT ![g] = "off"]
  /\ Goto(g, "check")
  /\ UNCHANGED <<data, pend, pushDone, popDone, mutex, sleepers>>

(* The watcher of a wait sees the context end. *)
WatcherFires(g) ==
  /\ watcher[g] = "armed"
  /\ Done(g)
  /\ watcher' = [watcher EXCEPT ![g] = "fired"]
  /\ UNCHANGED <<data, pend, pushDone, popDone, pc, mutex, sleepers, stray>>

WatcherBroadcasts_Silent(g) ==
  /\ watcher[g] = "fired"
  /\ mutex = Nobody
  /\ watcher' = [watcher EXCEPT ![g] = "off"]
  /\ UNCHANGED <<data, pend, pushDone, popDone, pc, mutex, sleepers, stray>>

(* It gets the mutex and wakes everybody. *)
WatcherBroadcasts(g) ==
  /\ watcher[g] = "fired"
  /\ mutex = Nobody
  /\ Broadcast
  /\ watcher' = [watcher EXCEPT ![g] = "off"]
  /\ UNCHANGED <<data, pend, pushDone, popDone, pc, mutex, stray>>

(* So does a watcher whose wait is over; there may be more of them. *)
StrayBroadcasts ==
  /\ stray
  /\ mutex = Nobody
  /\ Broadcast
  /\ stray' \in BOOLEAN
  /\ UNCHANGED <<data, pend, pushDone, popDone, pc, mutex, watcher>>

-----------------------------------------------------------------------------
(* push *)

PushCall(p) ==
  /\ pc[p] = "out"
  /\ Len(accepted) + Cardinality({x \in Pushers : pend[x] # Abs!NoItem}) < MaxPushes
  /\ \E o \in Offers : pend' = [pend EXCEPT ![p] = Abs!Item(o, 0)]
  /\ \E done \in BOOLEAN : pushDone' = [pushDone EXCEPT ![p] = done]
  /\ Goto(p, "entry")
  /\ UNCHANGED <<data, popDone, mutex, sleepers, watcher, stray>>

PushReturnsError(p) ==
  /\ pend' = [pend EXCEPT ![p] = Abs!NoItem]
  /\ Goto(p, "out")
  /\ UNCHANGED <<data, pushDone, popDone, sleepers, watcher, stray>>

(* The context is tested once before the mutex is taken. *)
PushEntry(p) ==
  /\ pc[p] = "entry"
  /\ \/ pushDone[p] /\ PushReturnsError(p) /\ UNCHANGED mutex
     \/ /\ ~pushDone[p]
        /\ Goto(p, "lock")
        /\ UNCHANGED <<data, pend, pushDone, popDone, mutex, sleepers, watcher, stray>>

(* The loop finds no reason to return: waitLocked starts a watcher. *)
PushMustWait(p) ==
  /\ pc[p] = "check"
  /\ Blocks(inbox, pend[p]) /\ ~inbox.closed /\ ~pushDone[p]
  /\ watcher' = [watcher EXCEPT ![p] = "armed"]
  /\ Goto(p, "wait")
  /\ UNCHANGED <<data, pend, pushDone, popDone, mutex, sleepers, stray>>

PushFails(p) ==
  /\ pc[p] = "check"
  /\ inbox.closed \/ pushDone[p]
  /\ PushReturnsError(p)
  /\ Unlock

PushSucceeds_AlthoughClosed(p) ==
  /\ pc[p] = "check"
  /\ ~Blocks(inbox, pend[p]) /\ ~pushDone[p]
  /\ LET q == [pend[p] EXCEPT !.id = Len(accepted) + 1]
     IN inbox' = Enqueue(inbox, q) /\ accepted' = Append(accepted, q)
  /\ Broadcast
  /\ Unlock
  /\ pend' = [pend EXCEPT ![p] = Abs!NoItem]
  /\ Goto(p, "out")
  /\ UNCHANGED <<pushDone, popDone, held, popped, drainedAt, stoppedAt, watcher, stray>>

PushSucceeds_Silent(p) ==
  /\ pc[p] = "check"
  /\ ~Blocks(inbox, pend[p]) /\ ~inbox.closed /\ ~pushDone[p]
  /\ LET q == [pend[p] EXCEPT !.id = Len(accepted) + 1]
     IN inbox' = Enqueue(inbox, q) /\ accepted' = Append(accepted, q)
  /\ Unlock
  /\ pend' = [pend EXCEPT ![p] = Abs!NoItem]
  /\ Goto(p, "out")
  /\ UNCHANGED <<pushDone, popDone, held, popped, drainedAt, stoppedAt,
                 sleepers, watcher, stray>>

PushSucceeds(p) ==
  /\ pc[p] = "check"
  /\ ~Blocks(inbox, pend[p]) /\ ~inbox.closed /\ ~pushDone[p]
  /\ LET q == [pend[p] EXCEPT !.id = Len(accepted) + 1]
     IN inbox' = Enqueue(inbox, q) /\ accepted' = Append(accepted, q)
  /\ Broadcast
  /\ Unlock
  /\ pend' = [pend EXCEPT ![p] = Abs!NoItem]
  /\ Goto(p, "out")
  /\ UNCHANGED <<pushDone, popDone, held, popped, drainedAt, stoppedAt, watcher, stray>>

-----------------------------------------------------------------------------
(* pop, and the node loop around it *)

PopMustWait ==
  /\ pc[Node] = "check"
  /\ IsEmpty(inbox) /\ ~inbox.closed /\ ~popDone
  /\ watcher' = [watcher EXCEPT ![Node] = "armed"]
  /\ Goto(Node, "wait")
  /\ UNCHANGED <<data, pend, pushDone, popDone, mutex, sleepers, stray>>

PopEnds ==
  /\ pc[Node] = "check"
  /\ IsEmpty(inbox) /\ (inbox.closed \/ popDone)
  /\ stoppedAt' = Len(accepted)
  /\ Unlock
  /\ Goto(Node, "stopped")
  /\ UNCHANGED <<inbox, held, accepted, popped, drainedAt, pend, pushDone,
                 popDone, sleepers, watcher, stray>>

PopTakes_Silent ==
  /\ pc[Node] = "check"
  /\ ~IsEmpty(inbox)
  /\ inbox' = PopFront(inbox)
  /\ held' = Front(inbox)
  /\ popped' = popped \cup {Front(inbox).id}
  /\ Unlock
  /\ Goto(Node, "handle")
  /\ UNCHANGED <<accepted, drainedAt, stoppedAt, pend, pushDone, popDone,
                 sleepers, watcher, stray>>

(* Only a pop from the down lane makes room, so only that one broadcasts. *)
PopTakes ==
  /\ pc[Node] = "check"
  /\ ~IsEmpty(inbox)
  /\ inbox' = PopFront(inbox)
  /\ held' = Front(inbox)
  /\ popped' = popped \cup {Front(inbox).id}
  /\ IF NextLane(inbox) = "down" THEN Broadcast ELSE UNCHANGED sleepers
  /\ Unlock
  /\ Goto(Node, "handle")
  /\ UNCHANGED <<accepted, drainedAt, stoppedAt, pend, pushDone, popDone, watcher, stray>>

Handle_SilentDrain ==
  /\ pc[Node] = "handle"
  /\ \/ held.kind # "Interruption" /\ UNCHANGED <<inbox, drainedAt>>
     \/ /\ held.kind = "Interruption"
        /\ mutex = Nobody
        /\ inbox' = DrainInterruptible(inbox)
        /\ drainedAt' = Len(accepted)
  /\ held' = Abs!NoItem
  /\ Goto(Node, "lock")
  /\ UNCHANGED <<accepted, popped, stoppedAt, pend, pushDone, popDone, mutex,
                 sleepers, watcher, stray>>

(* The node handles the item; drainInterruptible broadcasts if it dropped   *)
(* anything.                                                                *)
Handle ==
  /\ pc[Node] = "handle"
  /\ \/ held.kind # "Interruption" /\ UNCHANGED <<inbox, drainedAt, sleepers>>
     \/ /\ held.kind = "Interruption"
        /\ mutex = Nobody
        /\ inbox' = DrainInterruptible(inbox)
        /\ drainedAt' = Len(accepted)
        /\ IF inbox' # inbox THEN Broadcast ELSE UNCHANGED sleepers
  /\ held' = Abs!NoItem
  /\ Goto(Node, "lock")
  /\ UNCHANGED <<accepted, popped, stoppedAt, pend, pushDone, popDone, mutex, watcher, stray>>

-----------------------------------------------------------------------------
Close ==
  /\ mutex = Nobody
  /\ ~inbox.closed
  /\ inbox' = Closed(inbox)
  /\ Broadcast
  /\ UNCHANGED <<pend, pushDone, popDone, held, accepted, popped, drainedAt,
                 stoppedAt, pc, mutex, watcher, stray>>

(* Contexts end at any moment, also while the mutex is held. *)
CancelPush(p) ==
  /\ pend[p] # Abs!NoItem
  /\ ~pushDone[p]
  /\ pushDone' = [pushDone EXCEPT ![p] = TRUE]
  /\ UNCHANGED <<data, pend, popDone, pc, mutex, sleepers, watcher, stray>>

CancelPop ==
  /\ ~popDone
  /\ popDone' = TRUE
  /\ UNCHANGED <<data, pend, pushDone, pc, mutex, sleepers, watcher, stray>>

PushStep(p) ==
  PushEntry(p) \/ PushMustWait(p) \/ PushFails(p) \/ PushSucceeds(p)

PopStep == PopMustWait \/ PopEnds \/ PopTakes

Next ==
  \/ \E g \in Goroutines : \/ Acquire(g) \/ Sleep(g) \/ StopWatcher(g)
                           \/ WatcherFires(g) \/ WatcherBroadcasts(g)
  \/ \E p \in Pushers : PushCall(p) \/ PushStep(p) \/ CancelPush(p)
  \/ PopStep \/ Handle \/ StrayBroadcasts \/ Close \/ CancelPop

(* Goroutines that can run do run, and sync.Mutex starves nobody (it hands  *)
(* itself over after a millisecond), hence strong fairness where a step     *)
(* needs the mutex.                                                         *)
Fairness ==
  /\ \A g \in Goroutines :
       /\ SF_vars(Acquire(g)) /\ SF_vars(WatcherBroadcasts(g))
       /\ WF_vars(Sleep(g)) /\ WF_vars(StopWatcher(g)) /\ WF_vars(WatcherFires(g))
  /\ \A p \in Pushers : WF_vars(PushStep(p))
  /\ WF_vars(PopStep) /\ SF_vars(Handle)

Spec == Init /\ [][Next]_vars /\ Fairness

-----------------------------------------------------------------------------
(* Every variable has its type, and the mutex is held exactly by the one   *)
(* goroutine that is between Lock and Unlock.                              *)
TypeOK ==
  /\ pc \in [Goroutines -> {"out", "entry", "lock", "check", "wait", "asleep",
                            "woken", "handle", "stopped"}]
  /\ mutex \in Goroutines \cup {Nobody}
  /\ sleepers \subseteq Goroutines
  /\ watcher \in [Goroutines -> {"off", "armed", "fired"}]
  /\ stray \in BOOLEAN
  /\ \A g \in Goroutines : mutex = g <=> pc[g] \in {"check", "wait", "woken"}

(* No wakeup is lost.  A goroutine that sleeps and that no broadcast is on  *)
(* its way to has nothing to do: its lane is still full, or the inbox still *)
(* empty, the inbox is open, and if its context is done its watcher has not *)
(* finished (push, pop, drainInterruptible and close each broadcast only    *)
(* where somebody may be waiting for it).                                   *)
NoLostWakeup ==
  \A g \in sleepers :
    /\ ~inbox.closed
    /\ Done(g) => watcher[g] # "off"
    /\ IF g = Node THEN IsEmpty(inbox) ELSE Blocks(inbox, pend[g])

(* Each step of the code is a step of Inbox or changes nothing Inbox sees. *)
ImplementsInbox == Abs!Init /\ [][Abs!Next]_(Abs!vars)

(* Waiting ends where Inbox says it must: whenever Inbox's pushers or node  *)
(* could go on for good, the sleeping goroutine behind them is woken, gets  *)
(* the mutex and goes on.                                                   *)
ImplementsFairness == Abs!Fairness

(* No push blocks forever in the code's own waiting: it returns once room   *)
(* is made, the inbox is closed or its context ends, unless the node loop   *)
(* has returned.                                                            *)
PushReturns == Abs!PushReturns

(* Every item accepted while the node loop runs leaves the inbox, also when *)
(* the inbox is closed or the task's context ends while the node sleeps.    *)
AcceptedLeaves == Abs!AcceptedLeaves
=============================================================================

-------------------------- MODULE InboxCondProofs --------------------------
(***************************************************************************)
(* The waiting of inbox.go is right for any number of pushers, any         *)
(* capacities and any number of pushes: no wakeup is lost, and every step  *)
(* of InboxCond is a step of Inbox or changes nothing Inbox sees, so that  *)
(* what is proved about Inbox holds of the code's own locking.             *)
(***************************************************************************)
EXTENDS InboxCond, TLAPS

(* The theorems about Inbox, of the values the code's variables stand for. *)
Promise == INSTANCE InboxProofs WITH cons <- Cons

(* The assumptions of Inbox are those of InboxCond. *)
LEMMA SameAssumptions ==
  Promise!BoundsAssumption /\ Promise!OffersAssumption /\ Promise!MaxPushesAssumption
  BY BoundsAssumption, OffersAssumption, MaxPushesAssumption
  DEF Promise!BoundsAssumption, Promise!OffersAssumption, Promise!MaxPushesAssumption,
      FrameKinds, Promise!FrameKinds, SystemKinds, Promise!SystemKinds,
      DataKinds, Promise!DataKinds

-----------------------------------------------------------------------------
(* At first nobody holds the mutex and every goroutine is outside. *)
LEMMA InitTyped == Init => TypeOK
  BY NodeAssumption, ZenonT(40) DEF Init, TypeOK, Goroutines

(* Only the goroutine that holds the mutex is between Lock and Unlock. *)
LEMMA NextTyped == TypeOK /\ [Next]_vars => TypeOK'
  <1> SUFFICES ASSUME TypeOK, [Next]_vars PROVE TypeOK'
    OBVIOUS
  <1>0. /\ \A p \in Pushers : p \in Goroutines /\ p # Node
        /\ Node \in Goroutines /\ Nobody \notin Goroutines
    BY NodeAssumption DEF Goroutines
  <1>1. ASSUME NEW g \in Goroutines, Acquire(g)
        PROVE  TypeOK'
    BY <1>0, <1>1 DEF Acquire, Goto, TypeOK
  <1>2. ASSUME NEW g \in Goroutines, Sleep(g)
        PROVE  TypeOK'
    BY <1>0, <1>2 DEF Sleep, Goto, Unlock, TypeOK
  <1>3. ASSUME NEW g \in Goroutines, StopWatcher(g)
        PROVE  TypeOK'
    BY <1>0, <1>3 DEF StopWatcher, Goto, TypeOK
  <1>4. ASSUME NEW g \in Goroutines, WatcherFires(g)
        PROVE  TypeOK'
    BY <1>0, <1>4 DEF WatcherFires, TypeOK
  <1>5. ASSUME NEW g \in Goroutines, WatcherBroadcasts(g)
        PROVE  TypeOK'
    BY <1>0, <1>5 DEF WatcherBroadcasts, Broadcast, TypeOK
  <1>6. ASSUME NEW p \in Pushers, PushCall(p)
        PROVE  TypeOK'
    BY <1>0, <1>6 DEF PushCall, Goto, TypeOK
  <1>7. ASSUME NEW p \in Pushers, PushEntry(p)
        PROVE  TypeOK'
    BY <1>0, <1>7 DEF PushEntry, PushReturnsError, Goto, TypeOK
  <1>8. ASSUME NEW p \in Pushers, PushMustWait(p)
        PROVE  TypeOK'
    BY <1>0, <1>8 DEF PushMustWait, Goto, TypeOK
  <1>9. ASSUME NEW p \in Pushers, PushFails(p)
        PROVE  TypeOK'
    BY <1>0, <1>9 DEF PushFails, PushReturnsError, Goto, Unlock, TypeOK
  <1>10. ASSUME NEW p \in Pushers, PushSucceeds(p)
         PROVE  TypeOK'
    BY <1>0, <1>10 DEF PushSucceeds, Goto, Unlock, Broadcast, TypeOK
  <1>11. ASSUME NEW p \in Pushers, CancelPush(p)
         PROVE  TypeOK'
    BY <1>11 DEF CancelPush, TypeOK
  <1>12. CASE PopMustWait
    BY <1>0, <1>12 DEF PopMustWait, Goto, TypeOK
  <1>13. CASE PopEnds
    BY <1>0, <1>13 DEF PopEnds, Goto, Unlock, TypeOK
  <1>14. CASE PopTakes
    BY <1>0, <1>14 DEF PopTakes, Goto, Unlock, Broadcast, TypeOK
  <1>15. CASE Handle
    BY <1>0, <1>15 DEF Handle, Goto, Broadcast, TypeOK
  <1>16. CASE StrayBroadcasts
    BY <1>16 DEF StrayBroadcasts, Broadcast, TypeOK
  <1>17. CASE Close
    BY <1>17 DEF Close, Broadcast, TypeOK
  <1>18. CASE CancelPop
    BY <1>18 DEF CancelPop, TypeOK
  <1>19. CASE UNCHANGED vars
    BY <1>19 DEF vars, TypeOK
  <1>20. QED
    BY <1>1, <1>2, <1>3, <1>4, <1>5, <1>6, <1>7, <1>8, <1>9, <1>10, <1>11, <1>12,
       <1>13, <1>14, <1>15, <1>16, <1>17, <1>18, <1>19
    DEF Next, PushStep, PopStep

(* Mutual exclusion: the mutex is held by exactly the goroutine that is     *)
(* between Lock and Unlock, however waits, watchers and broadcasts mix.     *)
THEOREM TypeCorrect == Spec => []TypeOK
  BY InitTyped, NextTyped, PTL DEF Spec

-----------------------------------------------------------------------------
(* The goroutines stay in their own code, and a pusher is inside push       *)
(* exactly while it has an item.                                            *)
Roles ==
  /\ pc[Node] \notin {"out", "entry"}
  /\ \A p \in Pushers :
       /\ pc[p] \notin {"handle", "stopped"}
       /\ pend[p] = Abs!NoItem <=> pc[p] = "out"
  /\ DOMAIN pend = Pushers

(* An item on offer is a frame or a barrier; NoItem is neither. *)
LEMMA OffersAreItems == \A o \in Offers : Abs!Item(o, 0) # Abs!NoItem
  <1>1. \A o \in Offers : (o.ctrl = "barrier") <=> (o.kind = "none")
    BY OffersAssumption
  <1>2. QED
    BY <1>1 DEF Abs!Item, Abs!NoItem

(* At first the pushers are outside push and the node asks for the mutex. *)
LEMMA InitRoles == Init => Roles
  BY NodeAssumption DEF Init, Roles, Goroutines

(* No step takes a goroutine into the code of another kind. *)
LEMMA NextRoles == TypeOK /\ Roles /\ [Next]_vars => Roles'
  <1> SUFFICES ASSUME TypeOK, Roles, [Next]_vars PROVE Roles'
    OBVIOUS
  <1>0. /\ \A p \in Pushers : p \in Goroutines /\ p # Node
        /\ Node \in Goroutines /\ DOMAIN pc = Goroutines
    BY NodeAssumption DEF Goroutines, TypeOK
  <1>1. ASSUME NEW g \in Goroutines, Acquire(g) \/ Sleep(g) \/ StopWatcher(g)
        PROVE  Roles'
    BY <1>0, <1>1 DEF Acquire, Sleep, StopWatcher, Goto, Roles, TypeOK
  <1>2. ASSUME NEW g \in Goroutines, WatcherFires(g) \/ WatcherBroadcasts(g)
        PROVE  Roles'
    BY <1>2 DEF WatcherFires, WatcherBroadcasts, Roles
  <1>3. ASSUME NEW p \in Pushers, PushCall(p)
        PROVE  Roles'
    BY <1>0, <1>3, OffersAreItems DEF PushCall, Goto, Roles, TypeOK
  <1>4. ASSUME NEW p \in Pushers, PushEntry(p) \/ PushFails(p)
        PROVE  Roles'
    BY <1>0, <1>4 DEF PushEntry, PushFails, PushReturnsError, Goto, Roles, TypeOK
  <1>5. ASSUME NEW p \in Pushers, PushMustWait(p) \/ PushSucceeds(p)
        PROVE  Roles'
    BY <1>0, <1>5 DEF PushMustWait, PushSucceeds, Goto, Roles, TypeOK
  <1>6. CASE PopStep \/ Handle
    BY <1>0, <1>6 DEF PopStep, PopMustWait, PopEnds, PopTakes, Handle, Goto, Roles, TypeOK
  <1>7. CASE \/ StrayBroadcasts \/ Close \/ CancelPop \/ UNCHANGED vars
             \/ \E p \in Pushers : CancelPush(p)
    BY <1>7 DEF StrayBroadcasts, Close, CancelPop, CancelPush, vars, Roles
  <1>8. QED
    BY <1>1, <1>2, <1>3, <1>4, <1>5, <1>6, <1>7 DEF Next, PushStep

-----------------------------------------------------------------------------
(* The operators of InboxOps are the same in InboxCond, in Abs and in       *)
(* Promise, one after the other up to the actions and the invariants.       *)
LEMMA SameCounting ==
  /\ \A S : Abs!Cardinality(S) = Cardinality(S)
  /\ \A S : Promise!Cardinality(S) = Cardinality(S)
  BY DEF Cardinality, Abs!Cardinality, Promise!Cardinality

(* Frame kinds are classified alike. *)
LEMMA SameKinds ==
  /\ \A k : Abs!IsSystem(k) = IsSystem(k) /\ Abs!Interruptible(k) = Interruptible(k)
  /\ \A k : Promise!IsSystem(k) = IsSystem(k) /\ Promise!Interruptible(k) = Interruptible(k)
  BY DEF IsSystem, Abs!IsSystem, Promise!IsSystem,
         Interruptible, Abs!Interruptible, Promise!Interruptible,
         SystemKinds, Abs!SystemKinds, Promise!SystemKinds,
         UninterruptibleKinds, Abs!UninterruptibleKinds, Promise!UninterruptibleKinds

(* So are items, by lane, as audio and as droppable. *)
LEMMA SameItems ==
  \A q : /\ Abs!Lane(q) = Lane(q) /\ Promise!Lane(q) = Lane(q)
         /\ Abs!IsAudio(q) = IsAudio(q) /\ Promise!IsAudio(q) = IsAudio(q)
         /\ Abs!Droppable(q) = Droppable(q) /\ Promise!Droppable(q) = Droppable(q)
  BY SameKinds
  DEF Lane, Abs!Lane, Promise!Lane, IsAudio, Abs!IsAudio, Promise!IsAudio,
      Droppable, Abs!Droppable, Promise!Droppable

(* Subsequences are the same. *)
LEMMA SameKeep ==
  \A s, K : Abs!KeepAt(s, K) = KeepAt(s, K) /\ Promise!KeepAt(s, K) = KeepAt(s, K)
  <1>1. \A K, i : Abs!Rank(K, i) = Rank(K, i) /\ Promise!Rank(K, i) = Rank(K, i)
    BY SameCounting DEF Rank, Abs!Rank, Promise!Rank
  <1>2. \A K, i : Abs!Nth(K, i) = Nth(K, i) /\ Promise!Nth(K, i) = Nth(K, i)
    BY <1>1 DEF Nth, Abs!Nth, Promise!Nth
  <1>3. QED
    BY <1>2, SameCounting DEF KeepAt, Abs!KeepAt, Promise!KeepAt

(* The shedding of old audio is the same, *)
LEMMA SameShed ==
  \A in : Abs!Shed(in) = Shed(in) /\ Promise!Shed(in) = Shed(in)
  <1>1. \A K, i : Abs!Rank(K, i) = Rank(K, i) /\ Promise!Rank(K, i) = Rank(K, i)
    BY SameCounting DEF Rank, Abs!Rank, Promise!Rank
  <1>2. \A s : Abs!AudioAt(s) = AudioAt(s) /\ Promise!AudioAt(s) = AudioAt(s)
    BY SameItems DEF AudioAt, Abs!AudioAt, Promise!AudioAt
  <1>3. \A in : Abs!ShedAt(in) = ShedAt(in) /\ Promise!ShedAt(in) = ShedAt(in)
    BY <1>1, <1>2 DEF ShedAt, Abs!ShedAt, Promise!ShedAt
  <1>4. QED
    BY <1>3, SameCounting, SameKeep DEF Shed, Abs!Shed, Promise!Shed

(* and so is the entry of an item into its lane, *)
LEMMA SameEnqueue ==
  \A in, q : Abs!Enqueue(in, q) = Enqueue(in, q) /\ Promise!Enqueue(in, q) = Enqueue(in, q)
  BY SameItems, SameShed, ZenonT(40) DEF Enqueue, Abs!Enqueue, Promise!Enqueue

(* the exit of the first one, *)
LEMMA SamePop ==
  \A in : /\ Abs!IsEmpty(in) = IsEmpty(in) /\ Promise!IsEmpty(in) = IsEmpty(in)
          /\ Abs!Front(in) = Front(in) /\ Promise!Front(in) = Front(in)
          /\ Abs!PopFront(in) = PopFront(in) /\ Promise!PopFront(in) = PopFront(in)
  <1>1. \A in : Abs!NextLane(in) = NextLane(in) /\ Promise!NextLane(in) = NextLane(in)
    BY DEF NextLane, Abs!NextLane, Promise!NextLane
  <1>2. QED
    BY <1>1, SameItems
    DEF IsEmpty, Abs!IsEmpty, Promise!IsEmpty, Front, Abs!Front, Promise!Front,
        PopFront, Abs!PopFront, Promise!PopFront

(* the drain of an interruption, *)
LEMMA SameDrain ==
  \A in : /\ Abs!DrainInterruptible(in) = DrainInterruptible(in)
          /\ Promise!DrainInterruptible(in) = DrainInterruptible(in)
  <1>1. \A s : Abs!KeptAt(s) = KeptAt(s) /\ Promise!KeptAt(s) = KeptAt(s)
    BY SameItems DEF KeptAt, Abs!KeptAt, Promise!KeptAt
  <1>2. QED
    BY <1>1, SameKeep
    DEF DrainInterruptible, Abs!DrainInterruptible, Promise!DrainInterruptible

(* the test of a full lane, and the close. *)
LEMMA SameRest ==
  /\ \A in, q : Abs!Blocks(in, q) = Blocks(in, q) /\ Promise!Blocks(in, q) = Blocks(in, q)
  /\ \A in : Abs!Closed(in) = Closed(in) /\ Promise!Closed(in) = Closed(in)
  BY SameItems DEF Blocks, Abs!Blocks, Promise!Blocks, Closed, Abs!Closed, Promise!Closed

(* Abs and Promise start alike and take the same steps. *)
LEMMA SameNext ==
  /\ Abs!Init <=> Promise!Init
  /\ [Abs!Next]_(Abs!vars) <=> [Promise!Next]_(Promise!vars)
  <1>1. /\ Abs!EmptyInbox = EmptyInbox /\ Promise!EmptyInbox = EmptyInbox
        /\ Abs!NoItem = Promise!NoItem
    BY DEF EmptyInbox, Abs!EmptyInbox, Promise!EmptyInbox, Abs!NoItem, Promise!NoItem
  <1>2. Abs!Init <=> Promise!Init
    BY <1>1 DEF Abs!Init, Promise!Init
  <1> HIDE DEF Cons
  <1>3. Abs!Pending = Promise!Pending
    BY <1>1 DEF Abs!Pending, Promise!Pending
  <1>4. \A p \in Pushers : Abs!PushBegin(p) <=> Promise!PushBegin(p)
    BY <1>1, <1>3, SameCounting DEF Abs!PushBegin, Promise!PushBegin, Abs!Item, Promise!Item
  <1>5. \A p \in Pushers : Abs!PushAccept(p) <=> Promise!PushAccept(p)
    BY <1>1, SameEnqueue, SameRest DEF Abs!PushAccept, Promise!PushAccept
  <1>6. \A p \in Pushers : /\ Abs!PushRefuse(p) <=> Promise!PushRefuse(p)
                           /\ Abs!CancelPush(p) <=> Promise!CancelPush(p)
    BY <1>1 DEF Abs!PushRefuse, Promise!PushRefuse, Abs!CancelPush, Promise!CancelPush
  <1>7. Abs!Pop <=> Promise!Pop
    BY SamePop DEF Abs!Pop, Promise!Pop
  <1>8. Abs!PopStop <=> Promise!PopStop
    BY SamePop DEF Abs!PopStop, Promise!PopStop
  <1>9. Abs!Handle <=> Promise!Handle
    BY <1>1, SameDrain DEF Abs!Handle, Promise!Handle
  <1>10. (Abs!Close <=> Promise!Close) /\ (Abs!CancelPop <=> Promise!CancelPop)
    BY SameRest DEF Abs!Close, Promise!Close, Abs!CancelPop, Promise!CancelPop
  <1>11. Abs!vars = Promise!vars
    BY DEF Abs!vars, Promise!vars
  <1>12. QED
    BY <1>2, <1>4, <1>5, <1>6, <1>7, <1>8, <1>9, <1>10, <1>11
    DEF Abs!Next, Promise!Next, Abs!vars, Promise!vars

(* They promise the same. *)
LEMMA SamePromises ==
  /\ Promise!AudioAccounted <=> Abs!AudioAccounted
  /\ Promise!DownBounded <=> Abs!DownBounded
  /\ Promise!LaneOrder <=> Abs!LaneOrder
  /\ Promise!NothingStale <=> Abs!NothingStale
  /\ Promise!NothingLost <=> Abs!NothingLost
  <1>1. Promise!AudioAccounted <=> Abs!AudioAccounted
    <2>1. Promise!AudioAt(inbox.sys) = Abs!AudioAt(inbox.sys)
      BY SameItems DEF Promise!AudioAt, Abs!AudioAt
    <2>2. QED
      BY <2>1, SameCounting DEF Promise!AudioAccounted, Abs!AudioAccounted
  <1>2. Promise!DownBounded <=> Abs!DownBounded
    BY DEF Promise!DownBounded, Abs!DownBounded
  <1>3. Promise!Lanes = Abs!Lanes /\ Promise!LaneNames = Abs!LaneNames
    BY DEF Promise!Lanes, Abs!Lanes, Promise!LaneNames, Abs!LaneNames
  <1>4. Promise!LaneOrder <=> Abs!LaneOrder
    BY <1>3, SameItems DEF Promise!LaneOrder, Abs!LaneOrder
  <1>5. Promise!NothingStale <=> Abs!NothingStale
    <2>1. Promise!NoItem = Abs!NoItem
      BY DEF Promise!NoItem, Abs!NoItem
    <2>2. QED
      BY <2>1, SameItems DEF Promise!NothingStale, Abs!NothingStale
  <1>6. Promise!NothingLost <=> Abs!NothingLost
    <2>1. Promise!Waiting = Abs!Waiting
      BY <1>3 DEF Promise!Waiting, Abs!Waiting
    <2>2. \A t \in 1..Len(accepted) : Promise!Excused(t) <=> Abs!Excused(t)
      <3>1. \A t : {u \in t+1..Len(accepted) : Promise!IsAudio(accepted[u])}
                    = {u \in t+1..Len(accepted) : Abs!IsAudio(accepted[u])}
        BY SameItems
      <3>2. QED
        BY <3>1, SameItems, SameCounting DEF Promise!Excused, Abs!Excused
    <2>3. QED
      BY <2>1, <2>2 DEF Promise!NothingLost, Abs!NothingLost
  <1>7. QED
    BY <1>1, <1>2, <1>4, <1>5, <1>6

-----------------------------------------------------------------------------
(* The code starts where Inbox does. *)
LEMMA InitMaps == Init => Abs!Init
  BY NodeAssumption DEF Init, Abs!Init, Cons, EmptyInbox, Abs!EmptyInbox,
     Abs!NoItem, Goroutines

(* Where a goroutine is does not matter to Inbox, unless it is the node and *)
(* enters or leaves the handling of an item or the loop.                    *)
LEMMA Stutters ==
  ASSUME UNCHANGED <<data, pend, pushDone, popDone>>, UNCHANGED Cons
  PROVE  UNCHANGED Abs!vars
  BY DEF data, Abs!vars

(* Every step of the code is a step of Inbox or invisible to it. *)
LEMMA NextMaps == TypeOK /\ Roles /\ [Next]_vars => [Abs!Next]_(Abs!vars)
  <1> SUFFICES ASSUME TypeOK, Roles, [Next]_vars PROVE [Abs!Next]_(Abs!vars)
    OBVIOUS
  <1>0. /\ \A p \in Pushers : p \in Goroutines /\ p # Node
        /\ Node \in Goroutines /\ DOMAIN pc = Goroutines
    BY NodeAssumption DEF Goroutines, TypeOK
  <1>1. ASSUME NEW g \in Goroutines,
               \/ Acquire(g) \/ Sleep(g) \/ StopWatcher(g)
               \/ WatcherFires(g) \/ WatcherBroadcasts(g)
        PROVE  UNCHANGED Abs!vars
    <2>1. UNCHANGED Cons
      BY <1>0, <1>1
      DEF Acquire, Sleep, StopWatcher, WatcherFires, WatcherBroadcasts, Goto, Cons, TypeOK
    <2>2. UNCHANGED <<data, pend, pushDone, popDone>>
      BY <1>1 DEF Acquire, Sleep, StopWatcher, WatcherFires, WatcherBroadcasts
    <2>3. QED
      BY <2>1, <2>2, Stutters
  <1>2. ASSUME NEW p \in Pushers, NEW label, Goto(p, label)
        PROVE  UNCHANGED Cons
    BY <1>0, <1>2 DEF Goto, Cons, TypeOK
  <1>3. ASSUME NEW p \in Pushers, PushCall(p)
        PROVE  Abs!PushBegin(p)
    <2>1. UNCHANGED Cons
      BY <1>2, <1>3 DEF PushCall
    <2>2. pend[p] = Abs!NoItem
      BY <1>3 DEF PushCall, Roles
    <2>3. QED
      BY <1>3, <2>1, <2>2, SameCounting DEF PushCall, Abs!PushBegin, Abs!Pending, data
  <1>4. ASSUME NEW p \in Pushers, PushEntry(p)
        PROVE  Abs!PushRefuse(p) \/ UNCHANGED Abs!vars
    <2>1. UNCHANGED Cons
      BY <1>2, <1>4 DEF PushEntry, PushReturnsError
    <2>2. pend[p] # Abs!NoItem
      BY <1>4 DEF PushEntry, Roles
    <2>3. CASE pushDone[p]
      BY <1>4, <2>1, <2>2, <2>3 DEF PushEntry, PushReturnsError, Abs!PushRefuse, data
    <2>4. CASE ~pushDone[p]
      BY <1>4, <2>1, <2>4, Stutters DEF PushEntry
    <2>5. QED
      BY <2>3, <2>4
  <1>5. ASSUME NEW p \in Pushers, PushMustWait(p)
        PROVE  UNCHANGED Abs!vars
    <2>1. UNCHANGED Cons
      BY <1>2, <1>5 DEF PushMustWait
    <2>2. QED
      BY <1>5, <2>1, Stutters DEF PushMustWait
  <1>6. ASSUME NEW p \in Pushers, PushFails(p)
        PROVE  Abs!PushRefuse(p)
    <2>1. UNCHANGED Cons
      BY <1>2, <1>6 DEF PushFails, PushReturnsError
    <2>2. pend[p] # Abs!NoItem
      BY <1>6 DEF PushFails, Roles
    <2>3. QED
      BY <1>6, <2>1, <2>2 DEF PushFails, PushReturnsError, Abs!PushRefuse, data
  <1>7. ASSUME NEW p \in Pushers, PushSucceeds(p)
        PROVE  Abs!PushAccept(p)
    <2>1. UNCHANGED Cons
      BY <1>2, <1>7 DEF PushSucceeds
    <2>2. pend[p] # Abs!NoItem
      BY <1>7 DEF PushSucceeds, Roles
    <2> DEFINE q == [pend[p] EXCEPT !.id = Len(accepted) + 1]
    <2>3. /\ inbox' = Enqueue(inbox, q) /\ accepted' = Append(accepted, q)
          /\ ~Blocks(inbox, pend[p]) /\ ~inbox.closed /\ ~pushDone[p]
          /\ pend' = [pend EXCEPT ![p] = Abs!NoItem]
          /\ UNCHANGED <<pushDone, popDone, held, popped, drainedAt, stoppedAt>>
      BY <1>7 DEF PushSucceeds
    <2>4. inbox' = Abs!Enqueue(inbox, q) /\ ~Abs!Blocks(inbox, pend[p])
      BY <2>3, SameEnqueue, SameRest
    <2>5. QED
      BY <2>1, <2>2, <2>3, <2>4, Zenon DEF Abs!PushAccept
  <1>8. CASE PopMustWait
    <2>1. UNCHANGED Cons
      BY <1>0, <1>8 DEF PopMustWait, Goto, Cons, TypeOK
    <2>2. QED
      BY <1>8, <2>1, Stutters DEF PopMustWait
  <1>9. CASE PopEnds
    <2>1. Cons = "idle" /\ Cons' = "stopped"
      BY <1>0, <1>9 DEF PopEnds, Goto, Cons, TypeOK
    <2>2. Abs!PopStop
      BY <1>9, <2>1, SamePop DEF PopEnds, Abs!PopStop
    <2>3. QED
      BY <2>2 DEF Abs!Next
  <1>10. CASE PopTakes
    <2>1. Cons = "idle" /\ Cons' = "busy"
      BY <1>0, <1>10 DEF PopTakes, Goto, Cons, TypeOK
    <2>2. Abs!Pop
      BY <1>10, <2>1, SamePop DEF PopTakes, Abs!Pop
    <2>3. QED
      BY <2>2 DEF Abs!Next
  <1>11. CASE Handle
    <2>1. Cons = "busy" /\ Cons' = "idle"
      BY <1>0, <1>11 DEF Handle, Goto, Cons, TypeOK
    <2>2. Abs!Handle
      BY <1>11, <2>1, SameDrain DEF Handle, Abs!Handle
    <2>3. QED
      BY <2>2 DEF Abs!Next
  <1>12. CASE StrayBroadcasts \/ UNCHANGED vars
    BY <1>12 DEF StrayBroadcasts, vars, data, Abs!vars, Cons
  <1>13. CASE Close
    <2>1. UNCHANGED Cons
      BY <1>13 DEF Close, Cons
    <2>2. Abs!Close
      BY <1>13, <2>1, SameRest DEF Close, Abs!Close
    <2>3. QED
      BY <2>2 DEF Abs!Next
  <1>14. ASSUME NEW p \in Pushers, CancelPush(p)
         PROVE  Abs!CancelPush(p)
    BY <1>14 DEF CancelPush, Abs!CancelPush, Cons, data
  <1>15. CASE CancelPop
    <2>1. Abs!CancelPop
      BY <1>15 DEF CancelPop, Abs!CancelPop, Cons, data
    <2>2. QED
      BY <2>1 DEF Abs!Next
  <1>16. QED
    BY <1>1, <1>3, <1>4, <1>5, <1>6, <1>7, <1>8, <1>9, <1>10, <1>11, <1>12, <1>13,
       <1>14, <1>15
    DEF Next, PushStep, PopStep, Abs!Next

(* The code's waiting implements the inbox: each critical section, wait,    *)
(* wakeup and watcher step of push, pop, drainInterruptible and close is an *)
(* atomic operation of Inbox or invisible to it.                            *)
THEOREM CodeImplementsInbox == Spec => ImplementsInbox
  <1>1. Init => TypeOK /\ Roles /\ Abs!Init
    BY InitTyped, InitRoles, InitMaps
  <1>2. (TypeOK /\ Roles) /\ [Next]_vars => (TypeOK /\ Roles)' /\ [Abs!Next]_(Abs!vars)
    BY NextTyped, NextRoles, NextMaps
  <1>3. QED
    BY <1>1, <1>2, PTL DEF Spec, ImplementsInbox

-----------------------------------------------------------------------------
(* What Inbox promises is kept by the code: its invariants hold of the      *)
(* lanes, whatever the locking and the waiting do.                          *)

Kept == Promise!TypeOK /\ Promise!AudioAccounted /\ Promise!DownBounded /\ Promise!Lanewise
        /\ Promise!DrainedBefore /\ Promise!NothingStale /\ Promise!NothingLost

(* What is proved of Inbox holds at first, *)
LEMMA InitKept == Abs!Init => Kept
  BY SameAssumptions, SameNext, Promise!InitTyped, Promise!InitBounded,
     Promise!InitAccounted, Promise!InitLanewise, Promise!InitStale, Promise!InitLost
  DEF Kept

(* and is kept by every step of Abs. *)
LEMMA NextKept == Kept /\ [Abs!Next]_(Abs!vars) => Kept'
  BY SameAssumptions, SameNext, Promise!NextTyped, Promise!NextBounded,
     Promise!NextAccounted, Promise!NextLanewise, Promise!NextDrainedBefore,
     Promise!NextStale, Promise!NextLost
  DEF Kept

(* Every invariant of Inbox is one of the code's own locking: exact audio   *)
(* count, backpressure, order, freshness after a drain, and no loss.        *)
THEOREM CodeKeepsPromises ==
  Spec => [](/\ Abs!AudioAccounted /\ Abs!DownBounded /\ Abs!LaneOrder
             /\ Abs!NothingStale /\ Abs!NothingLost)
  <1>1. Init => TypeOK /\ Roles /\ Kept
    BY InitTyped, InitRoles, InitMaps, InitKept
  <1>2. (TypeOK /\ Roles /\ Kept) /\ [Next]_vars => (TypeOK /\ Roles /\ Kept)'
    BY NextTyped, NextRoles, NextMaps, NextKept
  <1>3. Kept => /\ Abs!AudioAccounted /\ Abs!DownBounded /\ Abs!LaneOrder
                /\ Abs!NothingStale /\ Abs!NothingLost
    BY SameAssumptions, SamePromises, Promise!LanewiseOrder DEF Kept
  <1>4. QED
    BY <1>1, <1>2, <1>3, PTL DEF Spec

-----------------------------------------------------------------------------
(* A goroutine that sleeps, or is about to and holds the mutex, has nothing *)
(* to do and a watcher.  NoLostWakeup alone is not inductive: it says       *)
(* nothing of the moment between the test and the sleep.                    *)
Idle(g) ==
  /\ ~inbox.closed
  /\ watcher[g] # "off"
  /\ IF g = Node THEN IsEmpty(inbox) ELSE Blocks(inbox, pend[g])

SleepersIdle ==
  \A g \in Goroutines :
    /\ g \in sleepers => pc[g] = "asleep" /\ Idle(g)
    /\ pc[g] = "wait" => Idle(g)

(* At first nobody sleeps. *)
LEMMA InitSleepers == Init => SleepersIdle
  BY DEF Init, SleepersIdle, Goroutines

(* A broadcast wakes everybody; other steps leave the sleepers idle. *)
LEMMA StillIdle ==
  ASSUME SleepersIdle, UNCHANGED <<inbox, pend, watcher>>,
         \A g \in Goroutines : g \in sleepers' => g \in sleepers /\ pc'[g] = pc[g],
         \A g \in Goroutines : pc'[g] = "wait" => pc[g] = "wait"
  PROVE  SleepersIdle'
  BY DEF SleepersIdle, Idle

(* Whoever gives a sleeper something to do also wakes it. *)
LEMMA NextSleepers ==
  TypeOK /\ Roles /\ Kept /\ SleepersIdle /\ [Next]_vars => SleepersIdle'
  <1> SUFFICES ASSUME TypeOK, Roles, Kept, SleepersIdle, [Next]_vars PROVE SleepersIdle'
    OBVIOUS
  <1>0. /\ \A p \in Pushers : p \in Goroutines /\ p # Node
        /\ \A g \in Goroutines : g # Nobody /\ (g = Node \/ g \in Pushers)
        /\ Node \in Goroutines /\ DOMAIN pc = Goroutines /\ DOMAIN pend = Pushers
        /\ DOMAIN watcher = Goroutines
        /\ \A g \in Goroutines : mutex = g <=> pc[g] \in {"check", "wait", "woken"}
    BY NodeAssumption DEF Goroutines, TypeOK, Roles
  <1>1. ASSUME NEW g \in Goroutines, Acquire(g)
        PROVE  SleepersIdle'
    BY <1>0, <1>1, StillIdle DEF Acquire, Goto, SleepersIdle, data
  <1>2. ASSUME NEW g \in Goroutines, Sleep(g)
        PROVE  SleepersIdle'
    BY <1>0, <1>2 DEF Sleep, Goto, Unlock, SleepersIdle, Idle, data
  <1>3. ASSUME NEW g \in Goroutines, StopWatcher(g)
        PROVE  SleepersIdle'
    BY <1>0, <1>3 DEF StopWatcher, Goto, SleepersIdle, Idle, data
  <1>4. ASSUME NEW g \in Goroutines, WatcherFires(g)
        PROVE  SleepersIdle'
    BY <1>0, <1>4 DEF WatcherFires, SleepersIdle, Idle, data
  <1>5. ASSUME NEW g \in Goroutines, WatcherBroadcasts(g)
        PROVE  SleepersIdle'
    <2>1. \A x \in Goroutines : pc[x] # "wait"
      BY <1>0, <1>5 DEF WatcherBroadcasts
    <2>2. QED
      BY <1>5, <2>1 DEF WatcherBroadcasts, Broadcast, SleepersIdle
  <1>6. ASSUME NEW p \in Pushers, PushCall(p) \/ PushEntry(p)
        PROVE  SleepersIdle'
    <2>1. /\ pc[p] # "asleep" /\ pc[p] # "wait" /\ UNCHANGED <<inbox, sleepers, watcher>>
          /\ \A x \in Goroutines :
               x # p => pc'[x] = pc[x] /\ (x \in Pushers => pend'[x] = pend[x])
          /\ pc'[p] # "wait"
      BY <1>0, <1>6 DEF PushCall, PushEntry, PushReturnsError, Goto, data
    <2>2. QED
      BY <1>0, <2>1 DEF SleepersIdle, Idle
  <1>7. ASSUME NEW p \in Pushers, PushMustWait(p)
        PROVE  SleepersIdle'
    BY <1>0, <1>7 DEF PushMustWait, Goto, SleepersIdle, Idle, data
  <1>8. ASSUME NEW p \in Pushers, PushFails(p)
        PROVE  SleepersIdle'
    <2>1. /\ pc[p] = "check" /\ UNCHANGED <<inbox, sleepers, watcher>>
          /\ \A x \in Goroutines :
               x # p => pc'[x] = pc[x] /\ (x \in Pushers => pend'[x] = pend[x])
          /\ pc'[p] # "wait"
      BY <1>0, <1>8 DEF PushFails, PushReturnsError, Goto, data
    <2>2. QED
      BY <1>0, <2>1 DEF SleepersIdle, Idle
  <1>9. ASSUME NEW p \in Pushers, PushSucceeds(p)
        PROVE  SleepersIdle'
    <2>1. sleepers' = {} /\ pc[p] = "check" /\ Goto(p, "out")
      BY <1>9 DEF PushSucceeds, Broadcast
    <2>2. \A x \in Goroutines : pc'[x] # "wait"
      BY <1>0, <2>1 DEF Goto
    <2>3. QED
      BY <2>1, <2>2 DEF SleepersIdle
  <1>10. CASE PopMustWait
    BY <1>0, <1>10 DEF PopMustWait, Goto, SleepersIdle, Idle, data
  <1>11. CASE PopEnds
    BY <1>0, <1>11, StillIdle DEF PopEnds, Goto, SleepersIdle
  <1>12. CASE PopTakes
    <2>1. \A x \in Goroutines : pc'[x] # "wait"
      BY <1>0, <1>12 DEF PopTakes, Goto
    <2>2. CASE NextLane(inbox) = "down"
      BY <1>12, <2>1, <2>2 DEF PopTakes, Broadcast, SleepersIdle
    <2>3. CASE NextLane(inbox) # "down"
      <3>1. inbox \in [sys : Seq(Promise!ItemSet), up : Seq(Promise!ItemSet),
                       down : Seq(Promise!ItemSet), audioN : Nat, closed : BOOLEAN,
                       hiWater : Nat, audioDrop : Nat]
        BY DEF Kept, Promise!TypeOK
      <3>2. inbox'.down = inbox.down /\ inbox'.closed = inbox.closed
        BY <1>12, <2>3, <3>1 DEF PopTakes, PopFront, NextLane
      <3>3. sleepers' = sleepers /\ Node \notin sleepers
        BY <1>0, <1>12, <2>3 DEF PopTakes, SleepersIdle
      <3>4. \A x \in Goroutines : x # Node => pc'[x] = pc[x]
        BY <1>0, <1>12 DEF PopTakes, Goto
      <3>5. QED
        BY <1>0, <1>12, <2>1, <3>2, <3>3, <3>4 DEF PopTakes, SleepersIdle, Idle, Blocks
    <2>4. QED
      BY <2>2, <2>3
  <1>13. CASE Handle
    <2>1. CASE UNCHANGED <<inbox, sleepers>>
      <3>1. /\ \A x \in Goroutines : x # Node => pc'[x] = pc[x]
            /\ pc[Node] = "handle" /\ pc'[Node] = "lock"
        BY <1>0, <1>13 DEF Handle, Goto
      <3>2. UNCHANGED <<inbox, pend, watcher>>
        BY <1>13, <2>1 DEF Handle
      <3>3. QED
        BY <1>0, <2>1, <3>1, <3>2, StillIdle DEF SleepersIdle
    <2>2. CASE mutex = Nobody /\ sleepers' = {}
      <3>1. \A x \in Goroutines : pc'[x] # "wait"
        BY <1>0, <1>13, <2>2 DEF Handle, Goto
      <3>2. QED
        BY <2>2, <3>1 DEF SleepersIdle
    <2>3. QED
      BY <1>13, <2>1, <2>2 DEF Handle, Broadcast
  <1>14. CASE StrayBroadcasts \/ Close
    <2>1. \A x \in Goroutines : pc'[x] # "wait"
      BY <1>0, <1>14 DEF StrayBroadcasts, Close
    <2>2. QED
      BY <1>14, <2>1 DEF StrayBroadcasts, Close, Broadcast, SleepersIdle
  <1>15. CASE CancelPop \/ UNCHANGED vars \/ \E p \in Pushers : CancelPush(p)
    BY <1>15, StillIdle DEF CancelPop, CancelPush, vars, data
  <1>16. QED
    BY <1>1, <1>2, <1>3, <1>4, <1>5, <1>6, <1>7, <1>8, <1>9, <1>10, <1>11, <1>12,
       <1>13, <1>14, <1>15
    DEF Next, PushStep, PopStep

(* No wakeup is lost: with any number of pushers, a goroutine that sleeps   *)
(* has nothing to do, or a broadcast on its way to it.                      *)
THEOREM NoWakeupIsLost == Spec => []NoLostWakeup
  <1>1. Init => TypeOK /\ Roles /\ Kept /\ SleepersIdle
    BY InitTyped, InitRoles, InitMaps, InitKept, InitSleepers
  <1>2. (TypeOK /\ Roles /\ Kept /\ SleepersIdle) /\ [Next]_vars
          => (TypeOK /\ Roles /\ Kept /\ SleepersIdle)'
    BY NextTyped, NextRoles, NextMaps, NextKept, NextSleepers
  <1>3. TypeOK /\ SleepersIdle => NoLostWakeup
    BY DEF TypeOK, SleepersIdle, Idle, NoLostWakeup
  <1>4. QED
    BY <1>1, <1>2, <1>3, PTL DEF Spec
=============================================================================

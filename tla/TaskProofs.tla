----------------------------- MODULE TaskProofs -----------------------------
(***************************************************************************)
(* A PipelineTask, for any number of processors, any capacity of their     *)
(* inboxes, any script and any mix of behaviours.                          *)
(*   1. Its life: how Run orders setups, nodes, acknowledgements, closed   *)
(*      inboxes and cleanups.  Typed /\ Lifecycle is inductive.            *)
(*   2. Where a client's frames are on their way, and in what order: with  *)
(*      Typed and Lifecycle, InOrder is inductive, and with Endings so is  *)
(*      LostFirst: a frame that is refused stops all data behind it before *)
(*      the last processor.                                                *)
(*   3. The errors on their way up: as many as failed and are not yet      *)
(*      reported.                                                          *)
(***************************************************************************)
EXTENDS PipelineTask, InboxOpsProofs

(* What the items of a task are: those the client queued carry its script's *)
(* number and kind and go downstream.                                       *)
ItemSet ==
  {q \in Items : q.id # 0 => /\ q.id \in 1..Len(Script) /\ q.kind = Script[q.id]
                             /\ q.dir = "down"}

DeliverySet ==
  {e \in [to : {"up", "down", "task"},
          q : [kind : ItemKinds, dir : {"up", "down", "task"}, ctrl : {"none"}, id : Nat]] :
     /\ e.q.dir = e.to
     /\ e.to = "task" => e.q.id = 0
     /\ e.to # "task" => e.q \in ItemSet}

(* Every variable has its type, with what the goroutines' labels say of     *)
(* the counters.                                                            *)
InboxTyped == inbox \in [Procs -> InboxSet(ItemSet)]

NodesTyped ==
  /\ npc \in [Procs -> {"off", "pop", "process", "hung", "deliver", "stopped"}]
  /\ cur \in [Procs -> ItemSet]
  /\ out \in [Procs -> Seq(DeliverySet)]

RunTyped ==
  /\ rpc \in {"new", "setup", "flush", "select", "cancel", "await", "force",
              "join", "cleanup", "returned"}
  /\ step \in 0..N + 1
  /\ rpc = "setup" => step >= 1
  /\ rpc \in {"cancel", "cleanup"} => step \in 1..N
  /\ result \in {"none", "nil", "canceled", "error"}
  /\ didSetup \subseteq Procs /\ cleaned \in Seq(Procs)
  /\ why \in {"none", "acks", "ended", "parent", "timeout"}

QueueTyped ==
  /\ pre \in Seq(ItemSet) /\ batch \in Seq(ItemSet) /\ accept \in BOOLEAN
  /\ sent \in 0..Len(Script) /\ cpc \in {"idle", "push"}
  /\ cpc = "push" => sent # 0

SignalsTyped ==
  /\ cancelReq \in BOOLEAN /\ ended \in BOOLEAN
  /\ rootDone \in BOOLEAN /\ parentDone \in BOOLEAN
  /\ ackOnce \subseteq Procs /\ ackGot = Cardinality(ackOnce)
  /\ arrived \in Seq(1..Len(Script)) /\ endSeen \in 0..Len(Script)

Typed == InboxTyped /\ NodesTyped /\ RunTyped /\ QueueTyped /\ SignalsTyped

(* The constants, and what is finite.                                       *)
LEMMA Constants ==
  /\ N \in Nat /\ N >= 1 /\ 1 \in Procs /\ N \in Procs /\ Procs \subseteq Nat
  /\ Len(Script) \in Nat
  /\ \A k \in 1..Len(Script) : Script[k] \in FrameKinds
  /\ \A K \in SUBSET Procs : IsFiniteSet(K) /\ Cardinality(K) \in 0..N
  /\ Cardinality(Procs) = N
  <1>1. N \in Nat /\ N >= 1 /\ Script \in Seq(FrameKinds)
    BY TaskAssumption
  <1>2. Len(Script) \in Nat /\ \A k \in 1..Len(Script) : Script[k] \in FrameKinds
    BY <1>1, LenProperties, ElementOfSeq
  <1>3. IsFiniteSet(1..N) /\ Cardinality(1..N) = N
    BY <1>1, FS_Interval
  <1>4. \A K \in SUBSET Procs : IsFiniteSet(K) /\ Cardinality(K) \in 0..N
    BY <1>1, PositionsFinite DEF Procs
  <1>5. QED
    BY <1>1, <1>2, <1>3, <1>4 DEF Procs

(* The items the task itself makes, and those of the client.                *)
LEMMA ItemsMade ==
  /\ NoItem \in ItemSet
  /\ \A k \in FrameKinds, d \in {"up", "down"} : Item(k, d, 0) \in ItemSet
  /\ \A i \in 1..Len(Script) : Item(Script[i], "down", i) \in ItemSet
  /\ Item("Cancel", "down", 0) \in ItemSet
  /\ Item("Interruption", "down", 0) \in ItemSet
  /\ Item("InterruptionTask", "up", 0) \in ItemSet
  <1>1. {"Cancel", "Interruption", "InterruptionTask"} \subseteq FrameKinds
    BY DEF FrameKinds, SystemKinds
  <1>2. QED
    BY <1>1, Constants DEF ItemSet, Items, ItemKinds, NoItem, Item

(* A new inbox.                                                             *)
LEMMA EmptyTyped == EmptyInbox \in InboxSet(ItemSet)
  BY DEF EmptyInbox, InboxSet

(* The initial state has its types.                                         *)
LEMMA InitTyped == Init => Typed
  <1> SUFFICES ASSUME Init PROVE Typed
    OBVIOUS
  <1>1. Cardinality({}) = 0
    BY FS_EmptySet
  <1>2. /\ inbox \in [Procs -> InboxSet(ItemSet)]
        /\ cur \in [Procs -> ItemSet]
        /\ out \in [Procs -> Seq(DeliverySet)]
    BY EmptyTyped, ItemsMade DEF Init
  <1>3. npc \in [Procs -> {"off", "pop", "process", "hung", "deliver", "stopped"}]
    BY DEF Init
  <1>4. step \in 0..N + 1 /\ sent \in 0..Len(Script) /\ endSeen \in 0..Len(Script)
    BY Constants DEF Init
  <1>5. ackGot = Cardinality(ackOnce)
    BY <1>1 DEF Init
  <1>6. /\ pre \in Seq(ItemSet) /\ batch \in Seq(ItemSet)
        /\ cleaned \in Seq(Procs) /\ arrived \in Seq(1..Len(Script))
    BY DEF Init
  <1>7. didSetup \subseteq Procs /\ ackOnce \subseteq Procs
    BY DEF Init
  <1>8. QED
    BY <1>2, <1>3, <1>4, <1>5, <1>6, <1>7 DEF Init, Typed, InboxTyped, NodesTyped, RunTyped,
       QueueTyped, SignalsTyped

(* What a Process call leaves to deliver. *)
LEMMA DeliveriesType ==
  ASSUME NEW q \in ItemSet, NEW b \in Behaviours
  PROVE  /\ Deliveries(b, q) \in Seq(DeliverySet)
         /\ \A i \in DOMAIN Deliveries(b, q) :
              Deliveries(b, q)[i].q.id \in {0, q.id}
         /\ \A i, j \in DOMAIN Deliveries(b, q) :
              Deliveries(b, q)[i].q.id # 0 /\ Deliveries(b, q)[j].q.id # 0 => i = j
  <1>1. q \in Items /\ q.id \in Nat /\ q.dir \in {"up", "down"} /\ q.kind \in ItemKinds
    BY DEF ItemSet, Items
  <1>2. /\ {"Error", "FatalError"} \subseteq ItemKinds /\ "none" \in ItemKinds
    BY DEF ItemKinds, FrameKinds, SystemKinds
  <1>3. /\ Emit(q.dir, q) \in DeliverySet /\ Emit("down", q) \in DeliverySet
        /\ Emit("up", Item("Error", "up", 0)) \in DeliverySet
        /\ Emit("up", Item("FatalError", "up", 0)) \in DeliverySet
        /\ Emit("task", NoItem) \in DeliverySet
    BY <1>1, <1>2 DEF Emit, Item, NoItem, DeliverySet, ItemSet, Items
  <1>4. /\ Emit(q.dir, q).q.id = q.id /\ Emit("down", q).q.id = q.id
        /\ Emit("up", Item("Error", "up", 0)).q.id = 0
        /\ Emit("up", Item("FatalError", "up", 0)).q.id = 0
        /\ Emit("task", NoItem).q.id = 0
    BY DEF Emit, Item, NoItem
  <1> DEFINE E == Emit(q.dir, q)
             A == AutoForwarded(b, q)
             S == Emitted(b, q)
  <1>5. A = <<>> \/ (A = <<E>> /\ ~Forwarded(b, q))
    BY DEF AutoForwarded
  <1>6. q.dir = "up" => q.id = 0
    BY DEF ItemSet
  <1>7. \/ S = <<>> \/ (S = <<E>> /\ Forwarded(b, q))
        \/ (S = <<Emit("down", q)>> /\ (Forwarded(b, q) \/ q.id = 0))
        \/ S = <<Emit("up", Item("Error", "up", 0))>>
        \/ S = <<Emit("up", Item("FatalError", "up", 0)), Emit("task", NoItem)>>
    <2>1. b \in {"relay", "down", "absorb", "fail", "panic", "hang"}
      BY TaskAssumption
    <2>2. b = "relay" => S = <<E>> /\ Forwarded(b, q)
      BY DEF Emitted, Forwarded
    <2>3. b = "down" => S = <<Emit("down", q)>> /\ (Forwarded(b, q) \/ q.id = 0)
      BY <1>1, <1>6 DEF Emitted, Forwarded
    <2>4. b = "fail" => S = <<Emit("up", Item("Error", "up", 0))>>
      BY DEF Emitted
    <2>5. b = "panic" => S = <<Emit("up", Item("FatalError", "up", 0)), Emit("task", NoItem)>>
      BY DEF Emitted
    <2>6. b \in {"absorb", "hang"} => S = <<>>
      BY DEF Emitted
    <2>7. QED
      BY <2>1, <2>2, <2>3, <2>4, <2>5, <2>6
  <1>8. A \in Seq(DeliverySet) /\ S \in Seq(DeliverySet)
    <2>1. A = <<>> \/ A = <<E>>
      BY <1>5
    <2>2. /\ <<>> \in Seq(DeliverySet)
          /\ \A x \in DeliverySet : <<x>> \in Seq(DeliverySet)
          /\ \A x, y \in DeliverySet : <<x, y>> \in Seq(DeliverySet)
      OBVIOUS
    <2>3. E \in DeliverySet
      BY <1>3
    <2> HIDE DEF A, S, E
    <2>4. A \in Seq(DeliverySet)
      BY <2>2, <2>1, <2>3
    <2>5. S \in Seq(DeliverySet)
      BY <1>3, <1>7, <2>2, <2>3
    <2>6. QED
      BY <2>4, <2>5
  <1>9. /\ \A i \in DOMAIN S : S[i].q.id \in {0, q.id}
        /\ \A i, j \in DOMAIN S : S[i].q.id # 0 /\ S[j].q.id # 0 => i = j
        /\ A # <<>> => \A i \in DOMAIN S : S[i].q.id = 0
    <2>1. E.q.id = q.id
      BY <1>4
    <2>2. A # <<>> => ~Forwarded(b, q)
      BY <1>5
    <2> HIDE DEF A, S, E
    <2>3. QED
      BY <1>4, <1>7, <2>1, <2>2
  <1>10. \A i \in DOMAIN A : i = 1 /\ A[i].q.id = q.id
    <2>1. E.q.id = q.id /\ (A = <<>> \/ A = <<E>>)
      BY <1>4, <1>5
    <2> HIDE DEF A, S, E
    <2>2. QED
      BY <2>1
  <1>11. Deliveries(b, q) = S \o A
    BY DEF Deliveries
  <1> HIDE DEF E, A, S
  <1>12. /\ S \o A \in Seq(DeliverySet)
         /\ DOMAIN (S \o A) = 1..(Len(S) + Len(A))
         /\ DOMAIN S = 1..Len(S) /\ DOMAIN A = 1..Len(A) /\ Len(S) \in Nat /\ Len(A) \in Nat
         /\ \A i \in 1..Len(S) : (S \o A)[i] = S[i]
         /\ \A i \in Len(S) + 1..Len(S) + Len(A) : (S \o A)[i] = A[i - Len(S)]
    BY <1>8
  <1>13. Len(A) <= 1 /\ (Len(A) = 1 => A # <<>>)
    BY <1>8, <1>10, <1>12
  <1>14. \A i \in DOMAIN (S \o A) :
           \/ i \in DOMAIN S /\ (S \o A)[i] = S[i]
           \/ i = Len(S) + 1 /\ A # <<>> /\ (S \o A)[i] = A[1] /\ 1 \in DOMAIN A
    BY <1>12, <1>13
  <1>15. \A i \in DOMAIN (S \o A) : (S \o A)[i].q.id \in {0, q.id}
    BY <1>9, <1>10, <1>14
  <1>16. \A i, j \in DOMAIN (S \o A) :
           (S \o A)[i].q.id # 0 /\ (S \o A)[j].q.id # 0 => i = j
    BY <1>9, <1>10, <1>14
  <1>17. QED
    BY <1>11, <1>12, <1>15, <1>16

(* A push puts a task's item into one inbox. *)
LEMMA PushTyped ==
  ASSUME inbox \in [Procs -> InboxSet(ItemSet)],
         NEW n \in Procs, NEW q \in ItemSet, Push(n, q)
  PROVE  inbox' \in [Procs -> InboxSet(ItemSet)]
  <1>1. Enqueue(inbox[n], q) \in InboxSet(ItemSet)
    BY EnqueueType
  <1>2. QED
    BY <1>1 DEF Push

(* What a node has to deliver next, and what is left after it. *)
LEMMA DeliveryTyped ==
  ASSUME NodesTyped, NEW n \in Procs, out[n] # <<>>
  PROVE  /\ NextDelivery(n) \in DeliverySet
         /\ NextDelivery(n).to # "task" => NextDelivery(n).q \in ItemSet
         /\ Delivered(n) => out' \in [Procs -> Seq(DeliverySet)]
  <1>1. out[n] \in Seq(DeliverySet)
    BY DEF NodesTyped
  <1>2. Head(out[n]) \in DeliverySet /\ Tail(out[n]) \in Seq(DeliverySet)
    BY <1>1, HeadTailProperties
  <1>3. QED
    BY <1>2 DEF NodesTyped, NextDelivery, Delivered, DeliverySet

(* What the source does with what comes up to it. *)
LEMMA SourceTyped ==
  ASSUME InboxTyped, NEW q \in ItemSet, AtSource(q)
  PROVE  InboxTyped'
  BY PushTyped, ItemsMade, Constants DEF AtSource, InboxTyped

(* Every step keeps the types.                                              *)
LEMMA NextTyped == Typed /\ [Next]_vars => Typed'
  <1> SUFFICES ASSUME Typed, [Next]_vars PROVE Typed'
    OBVIOUS
  <1> USE DEF Typed, runVars, nodeVars, signals, clientVars, faults
  <1>1. ASSUME NEW n \in Procs, NodePop(n)
        PROVE  Typed'
    <2>1. Front(inbox[n]) \in ItemSet /\ PopFront(inbox[n]) \in InboxSet(ItemSet)
      BY <1>1, PopFrontType DEF InboxTyped, NodePop
    <2>2. InboxTyped'
      BY <1>1, <2>1 DEF InboxTyped, NodePop
    <2>3. NodesTyped'
      BY <1>1, <2>1 DEF NodesTyped, NodePop
    <2>4. QED
      BY <1>1, <2>2, <2>3 DEF NodePop, RunTyped, QueueTyped, SignalsTyped
  <1>2. ASSUME NEW n \in Procs, NodeStop(n) \/ NodeUnhang(n)
        PROVE  Typed'
    <2>1. NodesTyped'
      BY <1>2 DEF NodesTyped, NodeStop, NodeUnhang
    <2>2. QED
      BY <1>2, <2>1
      DEF NodeStop, NodeUnhang, InboxTyped, RunTyped, QueueTyped, SignalsTyped
  <1>3. ASSUME NEW n \in Procs, NodeProcess(n)
        PROVE  Typed'
    <2>1. InboxTyped'
      <3>1. DrainInterruptible(inbox[n]) \in InboxSet(ItemSet)
        BY DrainType DEF InboxTyped
      <3>2. QED
        BY <1>3, <3>1 DEF InboxTyped, NodeProcess
    <2>2. ackOnce' \subseteq Procs /\ ackGot' = Cardinality(ackOnce')
      <3>1. IsFiniteSet(ackOnce) /\ Cardinality(ackOnce \cup {n}) =
               IF n \in ackOnce THEN Cardinality(ackOnce) ELSE Cardinality(ackOnce) + 1
        BY Constants, FS_AddElement DEF SignalsTyped
      <3>2. NoteCancel(n)
        BY <1>3 DEF NodeProcess
      <3>3. QED
        BY <3>1, <3>2 DEF SignalsTyped, NoteCancel
    <2>3. SignalsTyped'
      BY <1>3, <2>2 DEF SignalsTyped, NodeProcess
    <2>4. NodesTyped'
      <3>1. PICK b \in Behaviours :
              /\ out' = [out EXCEPT ![n] = Deliveries(b, cur[n])]
              /\ npc' = [npc EXCEPT ![n] = IF b = "hang" THEN "hung" ELSE "deliver"]
        BY <1>3 DEF NodeProcess
      <3>2. Deliveries(b, cur[n]) \in Seq(DeliverySet)
        BY DeliveriesType DEF NodesTyped
      <3>3. QED
        BY <1>3, <3>1, <3>2 DEF NodesTyped, NodeProcess
    <2>5. QED
      BY <1>3, <2>1, <2>3, <2>4 DEF NodeProcess, RunTyped, QueueTyped
  <1>4. ASSUME NEW n \in Procs, NodeDeliver(n)
        PROVE  Typed'
    <2>1. InboxTyped'
      BY <1>4, PushTyped, DeliveryTyped DEF InboxTyped, NodeDeliver
    <2>2. NodesTyped'
      BY <1>4, DeliveryTyped DEF NodesTyped, NodeDeliver
    <2>3. QED
      BY <1>4, <2>1, <2>2 DEF NodeDeliver, RunTyped, QueueTyped, SignalsTyped
  <1>5. ASSUME NEW n \in Procs, NodeReachSink(n)
        PROVE  Typed'
    <2> DEFINE q == NextDelivery(n).q
    <2>1. q \in ItemSet
      BY <1>5, DeliveryTyped DEF NodeReachSink
    <2>2. q.id = 0 \/ q.id \in 1..Len(Script)
      BY <2>1 DEF ItemSet
    <2> HIDE DEF q
    <2>3. /\ ended' = (ended \/ EndsTask(q.kind))
          /\ endSeen' = IF q.kind = "End" /\ endSeen = 0 THEN q.id ELSE endSeen
          /\ arrived' = IF q.id = 0 THEN arrived ELSE Append(arrived, q.id)
      BY <1>5 DEF NodeReachSink, q
    <2>4. /\ arrived' \in Seq(1..Len(Script)) /\ endSeen' \in 0..Len(Script)
          /\ ended' \in BOOLEAN
      <3>1. arrived' \in Seq(1..Len(Script))
        BY <2>2, <2>3, AppendProperties DEF SignalsTyped
      <3>2. endSeen' \in 0..Len(Script)
        BY <2>2, <2>3, Constants DEF SignalsTyped
      <3>3. ended' \in BOOLEAN
        BY <2>3, Zenon DEF EndsTask
      <3>4. QED
        BY <3>1, <3>2, <3>3
    <2>5. NodesTyped'
      BY <1>5, DeliveryTyped DEF NodesTyped, NodeReachSink
    <2>6. SignalsTyped'
      BY <1>5, <2>4 DEF SignalsTyped, NodeReachSink
    <2>7. QED
      BY <1>5, <2>5, <2>6 DEF NodeReachSink, InboxTyped, RunTyped, QueueTyped
  <1>6. ASSUME NEW n \in Procs, NodeReachSource(n)
        PROVE  Typed'
    <2>1. NextDelivery(n).q \in ItemSet
      BY <1>6, DeliveryTyped DEF NodeReachSource
    <2>2. InboxTyped'
      BY <1>6, <2>1, SourceTyped DEF NodeReachSource
    <2>3. NodesTyped'
      BY <1>6, DeliveryTyped DEF NodesTyped, NodeReachSource
    <2>4. SignalsTyped'
      BY <1>6 DEF SignalsTyped, NodeReachSource, AtSource
    <2>5. QED
      BY <1>6, <2>2, <2>3, <2>4 DEF NodeReachSource, RunTyped, QueueTyped
  <1>7. ASSUME NEW n \in Procs, NodeCancelsTask(n)
        PROVE  Typed'
    <2>1. NodesTyped'
      BY <1>7, DeliveryTyped DEF NodesTyped, NodeCancelsTask
    <2>2. QED
      BY <1>7, <2>1 DEF NodeCancelsTask, InboxTyped, RunTyped, QueueTyped, SignalsTyped
  <1>8. ASSUME NEW n \in Procs, NodeDone(n)
        PROVE  Typed'
    <2>1. NodesTyped'
      BY <1>8, ItemsMade DEF NodesTyped, NodeDone
    <2>2. QED
      BY <1>8, <2>1 DEF NodeDone, InboxTyped, RunTyped, QueueTyped, SignalsTyped
  <1>9. CASE RunStart
    <2>1. RunTyped'
      BY <1>9, Constants DEF RunTyped, RunStart, RunGoto
    <2>2. QED
      BY <1>9, <2>1 DEF RunStart, InboxTyped, NodesTyped, QueueTyped, SignalsTyped
  <1>10. CASE RunSetup
    <2>1. step \in Procs /\ step + 1 \in 1..N + 1
      BY <1>10, Constants DEF RunTyped, RunSetup, Procs
    <2>2. RunTyped'
      <3>1. /\ rpc' \in {"setup", "cleanup"} /\ step' \in 1..N + 1
            /\ rpc' = "cleanup" => step' = N
            /\ result' \in {result, "error"} /\ didSetup' \subseteq didSetup \cup {step}
        BY <1>10, <2>1, Constants DEF RunSetup, RunGoto
      <3>2. UNCHANGED <<cleaned, why>>
        BY <1>10 DEF RunSetup
      <3>3. QED
        BY <2>1, <3>1, <3>2, Constants DEF RunTyped
    <2>3. QED
      BY <1>10, <2>2 DEF RunSetup, InboxTyped, NodesTyped, QueueTyped, SignalsTyped
  <1>11. CASE RunSpawn
    <2>1. RunTyped' /\ NodesTyped'
      BY <1>11 DEF RunTyped, NodesTyped, RunSpawn, RunGoto
    <2>2. QED
      BY <1>11, <2>1 DEF RunSpawn, InboxTyped, QueueTyped, SignalsTyped
  <1>12. CASE FlushTake
    <2>1. RunTyped' /\ QueueTyped'
      BY <1>12 DEF RunTyped, QueueTyped, FlushTake, RunGoto
    <2>2. QED
      BY <1>12, <2>1 DEF FlushTake, InboxTyped, NodesTyped, SignalsTyped
  <1>13. CASE FlushPush
    <2>1. Head(batch) \in ItemSet /\ Tail(batch) \in Seq(ItemSet)
      BY <1>13, HeadTailProperties DEF QueueTyped, FlushPush
    <2>2. InboxTyped'
      BY <1>13, <2>1, PushTyped, Constants DEF InboxTyped, FlushPush
    <2>3. QueueTyped'
      BY <1>13, <2>1 DEF QueueTyped, FlushPush
    <2>4. QED
      BY <1>13, <2>2, <2>3 DEF FlushPush, NodesTyped, RunTyped, SignalsTyped
  <1>14. CASE RunSelect
    <2>1. RunTyped'
      BY <1>14, Constants DEF RunTyped, RunSelect, RunGoto
    <2>2. QED
      BY <1>14, <2>1 DEF RunSelect, InboxTyped, NodesTyped, QueueTyped, SignalsTyped
  <1>15. CASE CancelPushFrame
    <2>1. InboxTyped'
      BY <1>15, PushTyped, ItemsMade DEF InboxTyped, RunTyped, CancelPushFrame, Procs
    <2>2. RunTyped'
      BY <1>15, Constants DEF RunTyped, CancelPushFrame, RunGoto
    <2>3. QED
      BY <1>15, <2>1, <2>2 DEF CancelPushFrame, NodesTyped, QueueTyped, SignalsTyped
  <1>16. CASE CancelAwait
    <2>1. RunTyped'
      BY <1>16 DEF RunTyped, CancelAwait, RunGoto
    <2>2. QED
      BY <1>16, <2>1 DEF CancelAwait, InboxTyped, NodesTyped, QueueTyped, SignalsTyped
  <1>17. CASE ForceStop
    <2>1. \A n \in Procs : Closed(inbox[n]) \in InboxSet(ItemSet)
      BY DEF InboxTyped, Closed, InboxSet
    <2>2. InboxTyped'
      BY <1>17, <2>1 DEF InboxTyped, ForceStop
    <2>3. QED
      BY <1>17, <2>2
      DEF ForceStop, RunGoto, NodesTyped, RunTyped, QueueTyped, SignalsTyped
  <1>18. CASE RunJoin
    <2>1. RunTyped'
      BY <1>18, Constants DEF RunTyped, RunJoin, RunGoto
    <2>2. QED
      BY <1>18, <2>1 DEF RunJoin, InboxTyped, NodesTyped, QueueTyped, SignalsTyped
  <1>19. CASE RunCleanup
    <2>1. cleaned' \in Seq(Procs)
      BY <1>19 DEF RunTyped, RunCleanup
    <2>2. RunTyped'
      BY <1>19, <2>1, Constants DEF RunTyped, RunCleanup, RunGoto
    <2>3. QED
      BY <1>19, <2>2 DEF RunCleanup, InboxTyped, NodesTyped, QueueTyped, SignalsTyped
  <1>20. CASE ClientQueue
    <2>1. /\ sent + 1 \in 1..Len(Script)
          /\ Item(Script[sent + 1], "down", sent + 1) \in ItemSet
      BY <1>20, ItemsMade, Constants DEF QueueTyped, ClientQueue
    <2>2. Append(pre, Item(Script[sent + 1], "down", sent + 1)) \in Seq(ItemSet)
      BY <2>1 DEF QueueTyped
    <2>3. QueueTyped'
      BY <1>20, <2>1, <2>2 DEF QueueTyped, ClientQueue
    <2>4. QED
      BY <1>20, <2>3 DEF ClientQueue, InboxTyped, NodesTyped, RunTyped, SignalsTyped
  <1>21. CASE ClientPush
    <2>1. Item(Script[sent], "down", sent) \in ItemSet
      BY <1>21, ItemsMade, Constants DEF QueueTyped, ClientPush
    <2>2. InboxTyped'
      BY <1>21, <2>1, PushTyped, Constants DEF InboxTyped, ClientPush
    <2>3. QED
      BY <1>21, <2>2 DEF ClientPush, NodesTyped, RunTyped, QueueTyped, SignalsTyped
  <1>22. ASSUME NEW n \in Procs, HandleRequest(n)
         PROVE  Typed'
    <2>1. InboxTyped' /\ cancelReq' \in BOOLEAN
      <3>1. CASE n = 1
        BY <1>22, <3>1, SourceTyped, ItemsMade DEF HandleRequest, AtSource, SignalsTyped
      <3>2. CASE n # 1
        <4>1. n - 1 \in Procs
          BY <3>2, Constants DEF Procs
        <4>2. QED
          BY <1>22, <3>2, <4>1, PushTyped, ItemsMade
          DEF HandleRequest, InboxTyped, SignalsTyped
      <3>3. QED
        BY <3>1, <3>2
    <2>2. SignalsTyped'
      BY <1>22, <2>1 DEF SignalsTyped, HandleRequest
    <2>3. QED
      BY <1>22, <2>1, <2>2 DEF HandleRequest, NodesTyped, RunTyped, QueueTyped
  <1>23. CASE Cancel \/ ParentEnds \/ UNCHANGED vars
    <2>1. SignalsTyped'
      BY <1>23 DEF SignalsTyped, Cancel, ParentEnds, vars
    <2>2. QED
      BY <1>23, <2>1
      DEF Cancel, ParentEnds, vars, InboxTyped, NodesTyped, RunTyped, QueueTyped
  <1>24. QED
    BY <1>1, <1>2, <1>3, <1>4, <1>5, <1>6, <1>7, <1>8, <1>9, <1>10, <1>11, <1>12, <1>13,
       <1>14, <1>15, <1>16, <1>17, <1>18, <1>19, <1>20, <1>21, <1>22, <1>23
    DEF Next, NodeStep, RunStep

-----------------------------------------------------------------------------
(* The life of a task: Run's labels order the setups, the acceptance of     *)
(* frames, the end of the nodes, the closed inboxes and the cleanups.       *)
Phases ==
  /\ rpc = "new" => ~rootDone
  /\ rpc \in {"new", "setup"} => ~accept /\ \A n \in Procs : npc[n] = "off"
  /\ rpc = "flush" => ~accept
  /\ rpc \in {"select", "cancel", "await", "force", "join"} => accept
  /\ rpc = "join" => rootDone /\ \A n \in Procs : inbox[n].closed
  /\ rpc \in {"cleanup", "returned"} => \A n \in Procs : npc[n] \in {"off", "stopped"}
  /\ rpc \in {"cleanup", "returned"} /\ didSetup = Procs =>
       accept /\ \A n \in Procs : inbox[n].closed
  /\ accept => didSetup = Procs
  /\ \A n \in Procs : inbox[n].closed => rootDone

Setups ==
  /\ rpc = "new" => didSetup = {}
  /\ rpc = "setup" => didSetup = 1..step - 1
  /\ rpc \in {"flush", "select", "cancel", "await", "force", "join"} => didSetup = Procs

Cleanups ==
  /\ rpc \notin {"cleanup", "returned"} => cleaned = <<>>
  /\ \A i, j \in DOMAIN cleaned : i < j => cleaned[i] > cleaned[j]
  /\ \A i \in DOMAIN cleaned : cleaned[i] \in didSetup
  /\ rpc = "cleanup" =>
       \A n \in didSetup : (\E i \in DOMAIN cleaned : cleaned[i] = n) <=> n > step
  /\ rpc = "returned" => \A n \in didSetup : \E i \in DOMAIN cleaned : cleaned[i] = n

Queueing ==
  /\ accept => pre = <<>> /\ batch = <<>>
  /\ batch # <<>> => rpc = "flush"
  /\ cpc = "push" => accept

Lifecycle == Phases /\ Setups /\ Cleanups /\ Queueing /\ AckedByAll

(* A task that has not been run.                                            *)
LEMMA InitLifecycle == Init => Lifecycle
  BY DEF Init, Lifecycle, Phases, Setups, Cleanups, Queueing, AckedByAll, EmptyInbox

(* Only forceStop closes an inbox, and nothing opens one. *)
LEMMA ClosedKept ==
  ASSUME NEW in \in InboxSet(ItemSet)
  PROVE  /\ \A q : Enqueue(in, q).closed = in.closed
         /\ ~IsEmpty(in) => PopFront(in).closed = in.closed
         /\ DrainInterruptible(in).closed = in.closed
         /\ Closed(in).closed
  <1>1. \A q : Enqueue(in, q).closed = in.closed
    <2> TAKE q
    <2>1. Shed(in) \in InboxSet(ItemSet) /\ Shed(in).closed = in.closed
      BY ShedType
    <2>2. CASE Lane(q) = "sys" /\ IsAudio(q)
      BY <2>1, <2>2 DEF Enqueue, InboxSet
    <2>3. CASE Lane(q) = "sys" /\ ~IsAudio(q)
      BY <2>3 DEF Enqueue, InboxSet
    <2>4. CASE Lane(q) = "up"
      BY <2>4 DEF Enqueue, InboxSet
    <2>5. CASE Lane(q) = "down"
      BY <2>5 DEF Enqueue, InboxSet
    <2>6. QED
      BY <2>2, <2>3, <2>4, <2>5, LaneNamesThree
  <1>2. PopFront(in).closed = in.closed
    <2>1. CASE NextLane(in) = "sys"
      BY <2>1 DEF PopFront, InboxSet
    <2>2. CASE NextLane(in) = "up"
      BY <2>2 DEF PopFront, InboxSet
    <2>3. CASE NextLane(in) = "down"
      BY <2>3 DEF PopFront, InboxSet
    <2>4. QED
      BY <2>1, <2>2, <2>3 DEF NextLane
  <1>3. DrainInterruptible(in).closed = in.closed /\ Closed(in).closed
    BY DEF DrainInterruptible, Closed, InboxSet
  <1>4. QED
    BY <1>1, <1>2, <1>3

(* A push closes and opens nothing.                                         *)
LEMMA PushClosedKept ==
  ASSUME InboxTyped, NEW n \in Procs, NEW q, Push(n, q)
  PROVE  \A m \in Procs : inbox'[m].closed = inbox[m].closed
  <1>1. inbox[n] \in InboxSet(ItemSet)
    BY DEF InboxTyped
  <1>2. Enqueue(inbox[n], q).closed = inbox[n].closed
    BY <1>1, ClosedKept
  <1>3. QED
    BY <1>2 DEF Push, InboxTyped

(* Every step but forceStop leaves each inbox as open or closed as it       *)
(* was.                                                                     *)
LEMMA OthersKeepClosed ==
  ASSUME Typed, [Next]_vars, ~ForceStop
  PROVE  \A m \in Procs : inbox'[m].closed = inbox[m].closed
  <1> USE DEF runVars, nodeVars, signals, clientVars, faults
  <1>1. InboxTyped /\ \A n \in Procs : inbox[n] \in InboxSet(ItemSet)
    BY DEF Typed, InboxTyped
  <1>2. ASSUME NEW n \in Procs, NodePop(n) \/ NodeProcess(n)
        PROVE  \A m \in Procs : inbox'[m].closed = inbox[m].closed
    <2>1. \/ UNCHANGED inbox
          \/ inbox' = [inbox EXCEPT ![n] = DrainInterruptible(@)]
          \/ ~IsEmpty(inbox[n]) /\ inbox' = [inbox EXCEPT ![n] = PopFront(@)]
      BY <1>2 DEF NodePop, NodeProcess
    <2>2. /\ DrainInterruptible(inbox[n]).closed = inbox[n].closed
          /\ ~IsEmpty(inbox[n]) => PopFront(inbox[n]).closed = inbox[n].closed
      BY <1>1, ClosedKept
    <2>3. QED
      BY <1>1, <2>1, <2>2 DEF InboxTyped
  <1>3. ASSUME NEW q, AtSource(q)
        PROVE  \A m \in Procs : inbox'[m].closed = inbox[m].closed
    BY <1>1, <1>3, PushClosedKept, Constants DEF AtSource
  <1>4. ASSUME NEW n \in Procs, NodeDeliver(n) \/ NodeReachSource(n)
        PROVE  \A m \in Procs : inbox'[m].closed = inbox[m].closed
    BY <1>1, <1>3, <1>4, PushClosedKept DEF NodeDeliver, NodeReachSource
  <1>5. ASSUME NEW n \in Procs, HandleRequest(n)
        PROVE  \A m \in Procs : inbox'[m].closed = inbox[m].closed
    <2>1. CASE n = 1
      BY <1>3, <1>5, <2>1 DEF HandleRequest
    <2>2. CASE n # 1
      <3>1. n - 1 \in Procs
        BY <2>2, Constants DEF Procs
      <3>2. QED
        BY <1>1, <1>5, <2>2, <3>1, PushClosedKept DEF HandleRequest
    <2>3. QED
      BY <2>1, <2>2
  <1>6. CASE FlushPush \/ CancelPushFrame \/ ClientPush
    <2>1. rpc = "cancel" => step \in Procs
      BY DEF Typed, RunTyped, Procs
    <2>2. QED
      BY <1>1, <1>6, <2>1, PushClosedKept, Constants DEF FlushPush, CancelPushFrame, ClientPush
  <1>7. CASE UNCHANGED inbox
    BY <1>7
  <1>8. QED
    BY <1>2, <1>4, <1>5, <1>6, <1>7
    DEF Next, NodeStep, NodeStop, NodeUnhang, NodeReachSink, NodeCancelsTask, NodeDone,
        RunStep, RunStart, RunSetup, RunSpawn, FlushTake, RunSelect, CancelAwait, RunJoin,
        RunCleanup, ClientQueue, Cancel, ParentEnds, vars

(* Only the goroutine of Run moves Run. *)
LEMMA OnlyRunRuns ==
  ASSUME [Next]_vars, ~RunStep
  PROVE  UNCHANGED <<runVars, accept>>
  BY ZenonT(40)
  DEF Next, vars, runVars, NodeStep, NodePop, NodeStop, NodeProcess, NodeUnhang, NodeDeliver,
     NodeReachSink, NodeReachSource, NodeCancelsTask, NodeDone, HandleRequest, ClientQueue,
     ClientPush, Cancel, ParentEnds

(* Which processors are set up follows from where Run is.                   *)
LEMMA NextSetups == Typed /\ Setups /\ [Next]_vars => Setups'
  <1> SUFFICES ASSUME Typed, Setups, [Next]_vars PROVE Setups'
    OBVIOUS
  <1>1. CASE ~RunStep
    BY <1>1, OnlyRunRuns DEF Setups, runVars
  <1>2. CASE RunStart
    <2>1. didSetup' = {} /\ (rpc' = "returned" \/ (rpc' = "setup" /\ step' = 1))
      BY <1>2 DEF RunStart, RunGoto, Setups
    <2>2. 1..1 - 1 = {}
      OBVIOUS
    <2>3. QED
      BY <2>1, <2>2 DEF Setups
  <1>3. CASE RunSetup
    <2>1. step \in Nat /\ step <= N /\ step >= 1 /\ didSetup = 1..step - 1 /\ rpc = "setup"
      BY <1>3, Constants DEF RunSetup, Setups, Typed, RunTyped
    <2>2. CASE didSetup' = didSetup \cup {step} /\ step' = step + 1 /\ rpc' = rpc
      <3>1. (1..step - 1) \cup {step} = 1..(step + 1) - 1
        BY <2>1
      <3>2. rpc' = "setup" /\ didSetup' = 1..step' - 1
        BY <2>1, <2>2, <3>1, Zenon
      <3>3. QED
        BY <3>2 DEF Setups
    <2>3. CASE rpc' = "cleanup"
      BY <2>3 DEF Setups
    <2>4. QED
      BY <1>3, <2>2, <2>3 DEF RunSetup, RunGoto
  <1>4. CASE RunSpawn
    <2>1. didSetup = Procs
      BY <1>4, Constants DEF RunSpawn, Setups, Typed, RunTyped, Procs
    <2>2. QED
      BY <1>4, <2>1 DEF RunSpawn, RunGoto, Setups, runVars
  <1>5. CASE FlushTake \/ FlushPush \/ RunSelect \/ CancelPushFrame \/ CancelAwait \/ ForceStop
    BY <1>5
    DEF FlushTake, FlushPush, RunSelect, CancelPushFrame, CancelAwait, ForceStop, RunGoto, Setups
  <1>6. CASE RunJoin \/ RunCleanup
    BY <1>6 DEF RunJoin, RunCleanup, RunGoto, Setups
  <1>7. QED
    BY <1>1, <1>2, <1>3, <1>4, <1>5, <1>6 DEF RunStep

(* Frames wait in pre, then in the batch, until frames are accepted.        *)
LEMMA NextQueueing == Typed /\ Phases /\ Queueing /\ [Next]_vars => Queueing'
  <1> SUFFICES ASSUME Typed, Phases, Queueing, [Next]_vars PROVE Queueing'
    OBVIOUS
  <1>1. CASE ClientQueue
    <2>1. accept \in BOOLEAN
      BY DEF Typed, QueueTyped
    <2>2. QED
      BY <1>1, <2>1 DEF ClientQueue, Queueing, runVars
  <1>2. CASE ClientPush
    BY <1>2 DEF ClientPush, Queueing, runVars
  <1>3. CASE FlushTake
    BY <1>3 DEF FlushTake, Queueing, RunGoto, clientVars, Phases
  <1>4. CASE FlushPush
    BY <1>4 DEF FlushPush, Queueing, clientVars
  <1>5. CASE UNCHANGED <<pre, batch, accept, cpc>> /\ (batch = <<>> \/ UNCHANGED rpc)
    BY <1>5 DEF Queueing
  <1>6. rpc # "flush" => batch = <<>>
    BY DEF Queueing
  <1>7. QED
    BY <1>1, <1>2, <1>3, <1>4, <1>5, <1>6
    DEF Next, NodeStep, NodePop, NodeStop, NodeProcess, NodeUnhang, NodeDeliver,
        NodeReachSink, NodeReachSource, NodeCancelsTask, NodeDone, HandleRequest, Cancel,
        ParentEnds, RunStep, RunStart, RunSetup, RunSpawn, RunSelect, CancelPushFrame,
        CancelAwait, ForceStop, RunJoin, RunCleanup, vars, runVars, clientVars

(* The processors cleaned up so far are those above the one Run is at.      *)
LEMMA NextCleanups == Typed /\ Setups /\ Cleanups /\ [Next]_vars => Cleanups'
  <1> SUFFICES ASSUME Typed, Setups, Cleanups, [Next]_vars PROVE Cleanups'
    OBVIOUS
  <1> USE DEF Typed, RunTyped
  <1>1. CASE ~RunStep
    BY <1>1, OnlyRunRuns DEF Cleanups, runVars
  <1>2. CASE RunStart
    BY <1>2 DEF RunStart, RunGoto, Cleanups, Setups
  <1>3. CASE RunSetup
    <2>1. cleaned = <<>> /\ cleaned' = <<>> /\ DOMAIN cleaned' = {}
      BY <1>3 DEF RunSetup, Cleanups
    <2>2. rpc' = "cleanup" => step' = N /\ didSetup' = didSetup
      BY <1>3 DEF RunSetup, RunGoto
    <2>3. rpc' \in {"setup", "cleanup"} /\ \A n \in didSetup : ~(n > N)
      BY <1>3, Constants DEF RunSetup, RunGoto, Procs
    <2>4. QED
      BY <2>1, <2>2, <2>3 DEF Cleanups
  <1>4. CASE RunSpawn \/ FlushTake \/ FlushPush \/ RunSelect \/ CancelPushFrame \/ CancelAwait
             \/ ForceStop
    BY <1>4
    DEF RunSpawn, FlushTake, FlushPush, RunSelect, CancelPushFrame, CancelAwait, ForceStop, RunGoto,
        Cleanups, runVars
  <1>5. CASE RunJoin
    <2>1. cleaned = <<>> /\ cleaned' = <<>> /\ DOMAIN cleaned' = {}
      BY <1>5 DEF RunJoin, Cleanups
    <2>2. rpc' = "cleanup" /\ step' = N /\ didSetup' = didSetup
      BY <1>5 DEF RunJoin, RunGoto
    <2>3. \A n \in didSetup : ~(n > N)
      BY Constants DEF Procs
    <2>4. QED
      BY <2>1, <2>2, <2>3 DEF Cleanups
  <1>6. CASE RunCleanup
    <2>1. /\ rpc = "cleanup" /\ step \in 1..N /\ step' = step - 1 /\ didSetup' = didSetup
          /\ (\A n \in didSetup : n \in 1..N) /\ cleaned \in Seq(Procs) /\ Len(cleaned) \in Nat
          /\ \A n \in didSetup : (\E i \in DOMAIN cleaned : cleaned[i] = n) <=> n > step
          /\ \A i \in DOMAIN cleaned : cleaned[i] \in didSetup
          /\ \A i, j \in DOMAIN cleaned : i < j => cleaned[i] > cleaned[j]
          /\ DOMAIN cleaned = 1..Len(cleaned)
      BY <1>6, Constants, LenProperties DEF RunCleanup, Cleanups, Procs
    <2>2. CASE step \in didSetup
      <3>1. /\ cleaned' = Append(cleaned, step) /\ DOMAIN cleaned' = 1..Len(cleaned) + 1
            /\ \A i \in DOMAIN cleaned : cleaned'[i] = cleaned[i]
            /\ cleaned'[Len(cleaned) + 1] = step
        BY <1>6, <2>1, <2>2 DEF RunCleanup
      <3>2. \A i \in DOMAIN cleaned : cleaned[i] > step
        BY <2>1
      <3>3. \A i, j \in DOMAIN cleaned' : i < j => cleaned'[i] > cleaned'[j]
        BY <2>1, <3>2, <3>1
      <3>4. \A i \in DOMAIN cleaned' : cleaned'[i] \in didSetup'
        BY <2>1, <2>2, <3>1
      <3>5. \A n \in didSetup' : (\E i \in DOMAIN cleaned' : cleaned'[i] = n) <=> n > step'
        <4>1. SUFFICES ASSUME NEW n \in didSetup
                       PROVE  (\E i \in DOMAIN cleaned' : cleaned'[i] = n) <=> n > step - 1
          BY <2>1
        <4>2. ASSUME NEW i \in DOMAIN cleaned', cleaned'[i] = n PROVE n > step - 1
          BY <2>1, <3>1, <4>2
        <4>3. ASSUME n > step - 1 PROVE \E i \in DOMAIN cleaned' : cleaned'[i] = n
          <5>1. CASE n = step
            BY <2>1, <3>1, <5>1
          <5>2. CASE n # step
            <6>1. PICK i \in DOMAIN cleaned : cleaned[i] = n
              BY <2>1, <4>3, <5>2
            <6>2. QED
              BY <2>1, <3>1, <6>1
          <5>3. QED
            BY <5>1, <5>2
        <4>4. QED
          BY <4>2, <4>3
      <3>6. QED
        <4>1. \/ rpc' = "cleanup"
              \/ (rpc' = "returned" /\ step' = 0)
          BY <1>6, <2>1 DEF RunCleanup, RunGoto
        <4>2. rpc' = "returned" => \A n \in didSetup' : \E i \in DOMAIN cleaned' : cleaned'[i] = n
          BY <2>1, <3>5, <4>1
        <4>3. QED
          BY <3>3, <3>4, <3>5, <4>1, <4>2 DEF Cleanups
    <2>3. CASE step \notin didSetup
      <3>1. cleaned' = cleaned /\ \A n \in didSetup : n > step <=> n > step - 1
        BY <1>6, <2>1, <2>3 DEF RunCleanup
      <3>2. \/ rpc' = "cleanup"
            \/ (rpc' = "returned" /\ step' = 0)
        BY <1>6, <2>1 DEF RunCleanup, RunGoto
      <3>3. \A n \in didSetup' : (\E i \in DOMAIN cleaned' : cleaned'[i] = n) <=> n > step'
        BY <2>1, <3>1
      <3>4. QED
        BY <2>1, <3>1, <3>2, <3>3 DEF Cleanups
    <2>4. QED
      BY <2>2, <2>3
  <1>7. QED
    BY <1>1, <1>2, <1>3, <1>4, <1>5, <1>6 DEF RunStep

(* Where Run is bounds what the nodes, the inboxes and the context can      *)
(* be.                                                                      *)
LEMMA NextPhases ==
  Typed /\ Phases /\ Setups /\ Queueing /\ [Next]_vars => Phases'
  <1> SUFFICES ASSUME Typed, Phases, Setups, Queueing, [Next]_vars PROVE Phases'
    OBVIOUS
  <1> USE DEF runVars, nodeVars, signals, clientVars, faults
  <1>1. ~ForceStop => \A m \in Procs : inbox'[m].closed = inbox[m].closed
    BY OthersKeepClosed
  <1>2. npc \in [Procs -> {"off", "pop", "process", "hung", "deliver", "stopped"}]
    BY DEF Typed, NodesTyped
  (* What moves one node moves it from where it neither is off nor stopped. *)
  <1>3. ASSUME NEW n \in Procs, npc[n] \notin {"off", "stopped"},
               \A m \in Procs \ {n} : npc'[m] = npc[m],
               UNCHANGED <<rpc, rootDone, accept, didSetup>>, ~ForceStop
        PROVE  Phases'
    <2>1. rpc \notin {"new", "setup", "cleanup", "returned"}
      BY <1>3 DEF Phases
    <2>2. QED
      BY <1>1, <1>3, <2>1 DEF Phases
  <1>4. ASSUME UNCHANGED <<npc, rpc, rootDone, accept, didSetup>>, ~ForceStop
        PROVE  Phases'
    BY <1>1, <1>4 DEF Phases
  <1>5. ForceStop => rpc = "force" /\ rpc' = "join"
    BY DEF ForceStop, RunGoto
  <1>6. ASSUME NEW n \in Procs, NodeStep(n)
        PROVE  Phases'
    <2>1. CASE NodePop(n) \/ NodeStop(n) \/ NodeProcess(n) \/ NodeUnhang(n) \/ NodeDone(n)
      <3>1. npc[n] \notin {"off", "stopped"} /\ \A m \in Procs \ {n} : npc'[m] = npc[m]
        BY <1>2, <2>1 DEF NodePop, NodeStop, NodeProcess, NodeUnhang, NodeDone
      <3>2. UNCHANGED <<rpc, rootDone, accept, didSetup>>
        BY <2>1 DEF NodePop, NodeStop, NodeProcess, NodeUnhang, NodeDone
      <3>3. QED
        BY <1>3, <1>5, <3>1, <3>2
    <2>2. CASE NodeDeliver(n) \/ NodeReachSink(n) \/ NodeReachSource(n) \/ NodeCancelsTask(n)
      <3>1. UNCHANGED <<npc, rpc, rootDone, accept, didSetup>>
        BY <2>2 DEF NodeDeliver, NodeReachSink, NodeReachSource, NodeCancelsTask
      <3>2. QED
        BY <1>4, <1>5, <3>1
    <2>3. QED
      BY <1>6, <2>1, <2>2 DEF NodeStep
  <1>7. CASE ClientQueue \/ ClientPush \/ Cancel \/ UNCHANGED vars
             \/ \E n \in Procs : HandleRequest(n)
    <2>1. UNCHANGED <<npc, rpc, rootDone, accept, didSetup>>
      BY <1>7 DEF ClientQueue, ClientPush, Cancel, HandleRequest, vars
    <2>2. QED
      BY <1>4, <1>5, <2>1
  <1>8. CASE ParentEnds
    <2>1. /\ UNCHANGED <<inbox, npc, rpc, accept, didSetup>>
          /\ rootDone' = (rpc # "new")
      BY <1>8 DEF ParentEnds
    <2>2. QED
      BY <2>1 DEF Phases
  <1>9. CASE FlushPush \/ CancelPushFrame
    <2>1. /\ UNCHANGED <<npc, rootDone, accept, didSetup>>
          /\ rpc' = rpc \/ (rpc = "cancel" /\ rpc' = "await")
          /\ ~ForceStop
      BY <1>9 DEF FlushPush, CancelPushFrame, RunGoto, ForceStop
    <2>2. QED
      BY <1>1, <2>1 DEF Phases
  <1>10. CASE RunStart
    <2>1. \A n \in Procs : npc'[n] = "off" /\ inbox'[n].closed = inbox[n].closed
      BY <1>10 DEF RunStart, Phases
    <2>2. didSetup' = {} /\ didSetup' # Procs /\ ~accept'
      BY <1>10, Constants DEF RunStart, Phases, Setups
    <2>3. \A n \in Procs : ~inbox[n].closed
      BY <1>10 DEF RunStart, Phases
    <2>4. QED
      BY <1>10, <2>1, <2>2, <2>3 DEF RunStart, RunGoto, Phases
  <1>11. CASE RunSetup
    <2>1. \/ rpc' = "setup" /\ ~accept
          \/ rpc' = "cleanup" /\ didSetup' = didSetup
      BY <1>11 DEF RunSetup, RunGoto, Phases
    <2>2. N \notin didSetup
      BY <1>11, Constants DEF RunSetup, Setups, Typed, RunTyped
    <2>3. UNCHANGED <<inbox, npc, accept, rootDone>> /\ \A n \in Procs : npc[n] = "off"
      BY <1>11 DEF RunSetup, Phases
    <2>4. QED
      BY <1>11, <2>1, <2>2, <2>3, Constants DEF RunSetup, Phases
  <1>12. CASE RunSpawn
    BY <1>12 DEF RunSpawn, RunGoto, Phases
  <1>13. CASE FlushTake
    <2>1. /\ UNCHANGED <<inbox, npc, rootDone, didSetup>> /\ rpc = "flush"
          /\ (rpc' = "flush" /\ accept' = accept) \/ (rpc' = "select" /\ accept')
      BY <1>13 DEF FlushTake, RunGoto
    <2>2. QED
      BY <2>1 DEF Phases, Setups
  <1>14. CASE RunSelect \/ CancelAwait
    <2>1. /\ UNCHANGED <<inbox, npc, rootDone, accept, didSetup>> /\ rpc \in {"select", "await"}
          /\ rpc' \in {"force", "cancel"}
      BY <1>14 DEF RunSelect, CancelAwait, RunGoto
    <2>2. QED
      BY <2>1 DEF Phases
  <1>15. CASE ForceStop
    <2>1. \A n \in Procs : inbox'[n].closed
      BY <1>15, ClosedKept DEF ForceStop, Typed, InboxTyped
    <2>2. QED
      BY <1>15, <2>1 DEF ForceStop, RunGoto, Phases
  <1>16. CASE RunJoin
    BY <1>16 DEF RunJoin, RunGoto, Phases
  <1>17. CASE RunCleanup
    <2>1. /\ UNCHANGED <<inbox, npc, accept, didSetup>> /\ rpc = "cleanup"
          /\ (rpc' = "cleanup" /\ rootDone' = rootDone) \/ (rpc' = "returned" /\ rootDone')
      BY <1>17 DEF RunCleanup, RunGoto
    <2>2. QED
      BY <2>1 DEF Phases
  <1>18. QED
    BY <1>6, <1>7, <1>8, <1>9, <1>10, <1>11, <1>12, <1>13, <1>14, <1>15, <1>16, <1>17
    DEF Next, RunStep

(* Each processor is counted once, and stays counted. *)
LEMMA NextAcked == Typed /\ AckedByAll /\ [Next]_vars => AckedByAll'
  <1> SUFFICES ASSUME Typed, AckedByAll, [Next]_vars PROVE AckedByAll'
    OBVIOUS
  <1> USE DEF Typed, SignalsTyped
  <1>1. CASE CancelAwait
    <2>1. why' = "acks" => Cardinality(ackOnce) >= N
      BY <1>1 DEF CancelAwait
    <2>2. Cardinality(ackOnce) >= N => ackOnce = Procs
      <3>1. IsFiniteSet(Procs) /\ ackOnce \in SUBSET Procs
        BY Constants
      <3>2. Cardinality(ackOnce) \in 0..N /\ Cardinality(Procs) = N /\ N \in Nat
        BY Constants
      <3>3. Cardinality(Procs) = Cardinality(ackOnce) => Procs = ackOnce
        BY <3>1, FS_Subset
      <3>4. QED
        BY <3>2, <3>3
    <2>3. QED
      BY <1>1, <2>1, <2>2 DEF CancelAwait, AckedByAll, signals
  <1>2. ASSUME NEW n \in Procs, NodeProcess(n)
        PROVE  AckedByAll'
    <2>1. NoteCancel(n) /\ UNCHANGED why
      BY <1>2 DEF NodeProcess, runVars
    <2>2. ackOnce \subseteq ackOnce' /\ ackOnce' \subseteq Procs
      BY <2>1 DEF NoteCancel
    <2>3. QED
      BY <2>1, <2>2 DEF AckedByAll
  <1>3. CASE UNCHANGED <<why, ackOnce>>
    BY <1>3 DEF AckedByAll
  <1>4. QED
    BY <1>1, <1>2, <1>3
    DEF Next, NodeStep, NodePop, NodeStop, NodeUnhang, NodeDeliver,
        NodeReachSink, NodeReachSource, NodeCancelsTask, NodeDone, HandleRequest, Cancel,
        ParentEnds, RunStep, RunStart, RunSetup, RunSpawn, RunSelect, CancelPushFrame,
        FlushTake, FlushPush, ForceStop, RunJoin, RunCleanup, ClientQueue, ClientPush,
        vars, runVars, signals

-----------------------------------------------------------------------------
(* All of it together is inductive.                                         *)
LEMMA NextLifecycle == Typed /\ Lifecycle /\ [Next]_vars => Typed' /\ Lifecycle'
  BY NextTyped, NextPhases, NextSetups, NextCleanups, NextQueueing, NextAcked DEF Lifecycle

(* Every variable of PipelineTask keeps its type, and the                   *)
(* acknowledgements counted are those of different processors, so never     *)
(* more than N.                                                             *)
THEOREM TypeCorrect == Spec => []TypeOK
  <1>1. Typed => TypeOK
    <2> SUFFICES ASSUME Typed PROVE TypeOK
      OBVIOUS
    <2>1. ASSUME NEW n \in Procs
          PROVE  /\ inbox[n].sys \in Seq(Items) /\ inbox[n].up \in Seq(Items)
                 /\ inbox[n].down \in Seq(Items)
                 /\ npc[n] \in {"off", "pop", "process", "hung", "deliver", "stopped"}
                 /\ cur[n] \in Items \cup {NoItem}
                 /\ \A i \in DOMAIN out[n] : out[n][i].to \in {"up", "down", "task"}
      <3>1. inbox[n] \in InboxSet(ItemSet) /\ ItemSet \subseteq Items
        BY DEF Typed, InboxTyped, ItemSet
      <3>2. /\ inbox[n].sys \in Seq(Items) /\ inbox[n].up \in Seq(Items)
            /\ inbox[n].down \in Seq(Items)
        BY <3>1 DEF InboxSet
      <3>3. \A i \in DOMAIN out[n] : out[n][i] \in DeliverySet
        BY ElementOfSeq, LenProperties DEF Typed, NodesTyped
      <3>4. QED
        BY <3>1, <3>2, <3>3 DEF Typed, NodesTyped, DeliverySet
    <2>2. pre \in Seq(Items) /\ batch \in Seq(Items)
      BY DEF Typed, QueueTyped, ItemSet
    <2>3. ackGot \in 0..N
      BY Constants DEF Typed, SignalsTyped
    <2>4. QED
      BY <2>1, <2>2, <2>3 DEF Typed, RunTyped, SignalsTyped, TypeOK
  <1>2. QED
    BY <1>1, InitTyped, NextTyped, PTL DEF Spec

(* No Cleanup runs beside a node goroutine; cleanups go last processor      *)
(* first, and when Run returns they were those of the processors set up,    *)
(* for any number of processors, wherever a Setup failed (cleanupAll).      *)
THEOREM CleanedUpLast == Spec => []CleanupLast
  <1>1. Typed /\ Lifecycle => CleanupLast
    <2> SUFFICES ASSUME Typed, Lifecycle PROVE CleanupLast
      OBVIOUS
    <2>1. cleaned # <<>> => rpc \in {"cleanup", "returned"}
      BY DEF Lifecycle, Cleanups
    <2>2. rpc = "returned" => {cleaned[i] : i \in DOMAIN cleaned} = didSetup
      BY DEF Lifecycle, Cleanups
    <2>3. QED
      BY <2>1, <2>2 DEF Lifecycle, Cleanups, Phases, CleanupLast
  <1>2. QED
    BY <1>1, InitTyped, InitLifecycle, NextLifecycle, PTL DEF Spec

(* When finishCancel stops waiting because of the acknowledgements, every   *)
(* processor has seen a CancelFrame, in a chain of any length.              *)
THEOREM AcknowledgedByAll == Spec => []AckedByAll
  <1>1. Typed /\ Lifecycle => AckedByAll
    BY DEF Lifecycle
  <1>2. QED
    BY <1>1, InitTyped, InitLifecycle, NextLifecycle, PTL DEF Spec

(* After Run has returned, nothing queued by a client or pushed by a        *)
(* handle is buffered any more, if the task had got as far as running.      *)
THEOREM StoppedTaskIsSilent == Spec => StoppedTaskRefuses
  <1>1. ASSUME Typed, Lifecycle, [Next]_vars, rpc = "returned", didSetup = Procs
        PROVE  pre' = pre /\ inbox' = inbox
    <2>1. /\ accept /\ \A n \in Procs : npc[n] \in {"off", "stopped"} /\ inbox[n].closed
      BY <1>1 DEF Lifecycle, Phases
    <2>2. ~RunStep
      BY <1>1
      DEF RunStep, RunStart, RunSetup, RunSpawn, FlushTake, FlushPush, RunSelect,
          CancelPushFrame, CancelAwait, ForceStop, RunJoin, RunCleanup
    <2>3. \A n \in Procs : ~NodeStep(n)
      BY <2>1
      DEF NodeStep, NodePop, NodeStop, NodeProcess, NodeUnhang, NodeDeliver, NodeReachSink,
          NodeReachSource, NodeCancelsTask, NodeDone
    <2>4. ASSUME NEW n \in Procs, HandleRequest(n)
          PROVE  pre' = pre /\ inbox' = inbox
      <3>1. n = 1 \/ n - 1 \in Procs
        BY Constants DEF Procs
      <3>2. QED
        BY <2>1, <2>4, <3>1 DEF HandleRequest, AtSource
    <2>5. CASE ClientQueue \/ ClientPush
      BY <2>1, <2>5, Constants DEF ClientQueue, ClientPush, CanPush
    <2>6. CASE Cancel \/ ParentEnds \/ UNCHANGED vars
      BY <2>6 DEF Cancel, ParentEnds, vars
    <2>7. QED
      BY <1>1, <2>2, <2>3, <2>4, <2>5, <2>6 DEF Next
  <1>2. ASSUME Typed, NEW n \in Procs
        PROVE  ~(Len(inbox[n].sys) + Len(inbox[n].down)
                   > Len(inbox[n].sys) + Len(inbox[n].down))
    <2>1. inbox[n].sys \in Seq(ItemSet) /\ inbox[n].down \in Seq(ItemSet)
      BY <1>2 DEF Typed, InboxTyped, InboxSet
    <2>2. Len(inbox[n].sys) \in Nat /\ Len(inbox[n].down) \in Nat
      BY <2>1, LenProperties
    <2>3. \A a, b \in Nat : ~(a + b > a + b)
      OBVIOUS
    <2>4. QED
      BY <2>2, <2>3, Zenon
  <1>3. Typed /\ Lifecycle /\ [Next]_vars =>
          ((rpc = "returned" /\ didSetup = Procs) =>
             /\ pre' = pre
             /\ \A n \in Procs : ~(Len(inbox'[n].sys) + Len(inbox'[n].down)
                                    > Len(inbox[n].sys) + Len(inbox[n].down)))
    <2> SUFFICES ASSUME Typed, Lifecycle, [Next]_vars, rpc = "returned", didSetup = Procs
                 PROVE  /\ pre' = pre
                        /\ \A n \in Procs : ~(Len(inbox'[n].sys) + Len(inbox'[n].down)
                                               > Len(inbox[n].sys) + Len(inbox[n].down))
      OBVIOUS
    <2>1. pre' = pre /\ inbox' = inbox
      BY <1>1
    <2>2. QED
      BY <1>2, <2>1, Zenon
  <1>4. QED
    BY <1>3, InitTyped, InitLifecycle, NextLifecycle, PTL DEF Spec, StoppedTaskRefuses

-----------------------------------------------------------------------------

(* The way of the client's frames, from the client to the sink, is a row of *)
(* places: 0 is before the pipeline, k is processor k with its inbox, N + 1 *)
(* is behind the sink.  IdsOf leaves out 0, the id of everything else.      *)
IdsOf(s) == {s[i].id : i \in DOMAIN s} \ {0}

InIds(in) == IdsOf(in.sys) \cup IdsOf(in.up) \cup IdsOf(in.down)

Hand(n) ==
  ({out[n][i].q.id : i \in DOMAIN out[n]}
     \cup (IF npc[n] = "process" THEN {cur[n].id} ELSE {})) \ {0}

Entry == IdsOf(pre) \cup IdsOf(batch) \cup (IF cpc = "push" THEN {sent} ELSE {})

Came == {arrived[i] : i \in DOMAIN arrived}

Place ==
  [k \in 0..N + 1 |->
     IF k = 0 THEN Entry ELSE IF k = N + 1 THEN Came ELSE Hand(k) \cup InIds(inbox[k])]

(* a must not come out after b: it was queued first, or is the same, and is *)
(* not a data frame behind a system frame.                                  *)
Before(a, b) == a <= b /\ (IsData(a) => IsData(b))

Ahead(A, B) == \A a \in A, b \in B : ~Before(b, a)

Ordered(P) == \A j, k \in 0..N + 1 : j < k => Ahead(P[k], P[j])

Ascending(s) ==
  \A i, j \in DOMAIN s : i < j /\ s[i].id # 0 /\ s[j].id # 0 => s[i].id < s[j].id

(* Client frames are in the lane of their kind, in the order they were queued. *)
Tidy(in) ==
  /\ Ascending(in.sys) /\ Ascending(in.down)
  /\ \A i \in DOMAIN in.sys : in.sys[i].id # 0 => ~IsData(in.sys[i].id)
  /\ \A i \in DOMAIN in.up : in.up[i].id = 0
  /\ \A i \in DOMAIN in.down : in.down[i].id # 0 => IsData(in.down[i].id)

(* A node has one client frame in hand at most, ahead of those in its inbox. *)
HandTidy(n) ==
  /\ npc[n] \in {"off", "pop", "process", "stopped"} => out[n] = <<>>
  /\ \A i, j \in DOMAIN out[n] : out[n][i].q.id # 0 /\ out[n][j].q.id # 0 => i = j
  /\ Ahead(Hand(n), InIds(inbox[n]))

EntryTidy ==
  /\ Ascending(pre) /\ Ascending(batch)
  /\ \A a \in IdsOf(batch), b \in IdsOf(pre) : a < b

EndTidy ==
  /\ \A i, j \in DOMAIN arrived : i < j => ~Before(arrived[j], arrived[i])
  /\ endSeen # 0 => endSeen \in Came /\ IsData(endSeen)

InOrder ==
  /\ Ordered(Place)
  /\ \A k \in 0..N + 1 : Place[k] \subseteq 1..sent
  /\ \A n \in Procs : Tidy(inbox[n]) /\ HandTidy(n)
  /\ EntryTidy /\ EndTidy

Audio(id) == Script[id] = "InputAudio"

-----------------------------------------------------------------------------
(* Ids of sequences, of inboxes, and their order. *)
LEMMA ItemIds ==
  \A q \in ItemSet :
    /\ q.id \in Nat
    /\ q.id # 0 => q.id \in 1..Len(Script) /\ q.kind = Script[q.id] /\ q.dir = "down"
                   /\ q.ctrl = "none"
    /\ q.id # 0 => (IsData(q.id) <=> Lane(q) = "down") /\ (~IsData(q.id) <=> Lane(q) = "sys")
  BY DEF ItemSet, Items, IsData, Lane

(* An item added at the end.                                                *)
LEMMA AppendIds ==
  ASSUME NEW s \in Seq(ItemSet), NEW q \in ItemSet
  PROVE  /\ IdsOf(Append(s, q)) = IdsOf(s) \cup ({q.id} \ {0})
         /\ \A i \in DOMAIN Append(s, q) : (i \in DOMAIN s /\ Append(s, q)[i] = s[i])
                                           \/ Append(s, q)[i] = q
         /\ Ascending(s) /\ (\A x \in IdsOf(s) : q.id # 0 => x < q.id)
              => Ascending(Append(s, q))
  <1>1. /\ Len(s) \in Nat /\ DOMAIN s = 1..Len(s) /\ DOMAIN Append(s, q) = 1..Len(s) + 1
        /\ \A i \in 1..Len(s) : Append(s, q)[i] = s[i]
        /\ Append(s, q)[Len(s) + 1] = q
    BY AppendProperties, LenProperties
  <1>2. \A i \in DOMAIN Append(s, q) : (i \in DOMAIN s /\ Append(s, q)[i] = s[i])
                                       \/ (i = Len(s) + 1 /\ Append(s, q)[i] = q)
    BY <1>1
  <1>3. IdsOf(Append(s, q)) = IdsOf(s) \cup ({q.id} \ {0})
    BY <1>1, <1>2 DEF IdsOf
  <1>4. ASSUME Ascending(s), \A x \in IdsOf(s) : q.id # 0 => x < q.id
        PROVE  Ascending(Append(s, q))
    <2> SUFFICES ASSUME NEW i \in DOMAIN Append(s, q), NEW j \in DOMAIN Append(s, q), i < j,
                        Append(s, q)[i].id # 0, Append(s, q)[j].id # 0
                 PROVE  Append(s, q)[i].id < Append(s, q)[j].id
      BY DEF Ascending
    <2>1. i \in DOMAIN s /\ Append(s, q)[i] = s[i]
      BY <1>1, <1>2
    <2>2. CASE j \in DOMAIN s /\ Append(s, q)[j] = s[j]
      BY <1>4, <2>1, <2>2 DEF Ascending
    <2>3. CASE Append(s, q)[j] = q
      BY <1>4, <2>1, <2>3 DEF IdsOf
    <2>4. QED
      BY <1>2, <2>2, <2>3
  <1>5. QED
    BY <1>2, <1>3, <1>4

(* The first item taken away.                                               *)
LEMMA TailIds ==
  ASSUME NEW s \in Seq(ItemSet), s # <<>>
  PROVE  /\ Head(s) \in ItemSet /\ Tail(s) \in Seq(ItemSet)
         /\ 1 \in DOMAIN s /\ Head(s) = s[1]
         /\ IdsOf(s) = IdsOf(Tail(s)) \cup ({Head(s).id} \ {0})
         /\ \A i \in DOMAIN Tail(s) : i + 1 \in DOMAIN s /\ Tail(s)[i] = s[i + 1]
         /\ Ascending(s) =>
              /\ Ascending(Tail(s))
              /\ \A x \in IdsOf(Tail(s)) : Head(s).id # 0 => Head(s).id < x
  <1>1. /\ Len(s) \in Nat /\ Len(s) # 0 /\ DOMAIN s = 1..Len(s) /\ Head(s) = s[1]
        /\ Head(s) \in ItemSet /\ Tail(s) \in Seq(ItemSet)
        /\ DOMAIN Tail(s) = 1..Len(s) - 1
        /\ \A i \in 1..Len(s) - 1 : Tail(s)[i] = s[i + 1]
    BY HeadTailProperties, LenProperties, EmptySeq
  <1>2. \A i \in DOMAIN Tail(s) : i + 1 \in DOMAIN s /\ Tail(s)[i] = s[i + 1]
    BY <1>1
  <1>3. \A i \in DOMAIN s : i = 1 \/ (i - 1 \in DOMAIN Tail(s) /\ s[i] = Tail(s)[i - 1])
    BY <1>1
  <1>4. IdsOf(s) = IdsOf(Tail(s)) \cup ({Head(s).id} \ {0})
    <2>1. \A x \in IdsOf(s) : x \in IdsOf(Tail(s)) \cup ({Head(s).id} \ {0})
      BY <1>1, <1>3 DEF IdsOf
    <2>2. \A x \in IdsOf(Tail(s)) \cup ({Head(s).id} \ {0}) : x \in IdsOf(s)
      BY <1>1, <1>2 DEF IdsOf
    <2>3. QED
      BY <2>1, <2>2
  <1>5. ASSUME Ascending(s)
        PROVE  /\ Ascending(Tail(s))
               /\ \A x \in IdsOf(Tail(s)) : Head(s).id # 0 => Head(s).id < x
    <2>1. Ascending(Tail(s))
      <3> SUFFICES ASSUME NEW i \in DOMAIN Tail(s), NEW j \in DOMAIN Tail(s), i < j,
                          Tail(s)[i].id # 0, Tail(s)[j].id # 0
                   PROVE  Tail(s)[i].id < Tail(s)[j].id
        BY DEF Ascending
      <3>1. i + 1 \in DOMAIN s /\ j + 1 \in DOMAIN s /\ i + 1 < j + 1
        BY <1>1
      <3>2. QED
        BY <1>2, <1>5, <3>1 DEF Ascending
    <2>2. ASSUME NEW x \in IdsOf(Tail(s)), Head(s).id # 0
          PROVE  Head(s).id < x
      <3>1. PICK i \in DOMAIN Tail(s) : x = Tail(s)[i].id /\ x # 0
        BY DEF IdsOf
      <3>2. i + 1 \in DOMAIN s /\ 1 < i + 1 /\ 1 \in DOMAIN s /\ x = s[i + 1].id
        BY <1>1, <3>1
      <3>3. QED
        BY <1>1, <1>5, <2>2, <3>1, <3>2 DEF Ascending
    <2>3. QED
      BY <2>1, <2>2
  <1>6. QED
    BY <1>1, <1>2, <1>4, <1>5

(* Items taken out of the middle.                                           *)
LEMMA KeepIds ==
  ASSUME NEW s \in Seq(ItemSet), NEW K \in SUBSET (DOMAIN s)
  PROVE  /\ IdsOf(KeepAt(s, K)) \subseteq IdsOf(s)
         /\ \A i \in DOMAIN KeepAt(s, K) : \E k \in DOMAIN s : KeepAt(s, K)[i] = s[k]
         /\ \A k \in K : s[k].id # 0 => s[k].id \in IdsOf(KeepAt(s, K))
         /\ Ascending(s) => Ascending(KeepAt(s, K))
  <1> DEFINE t == KeepAt(s, K)
  <1>1. /\ DOMAIN t = 1..Cardinality(K)
        /\ \A k \in 1..Cardinality(K) : Nth(K, k) \in K /\ t[k] = s[Nth(K, k)]
        /\ \A k, l \in 1..Cardinality(K) : k < l => Nth(K, k) < Nth(K, l)
        /\ \A i \in K : Rank(K, i) \in 1..Cardinality(K) /\ t[Rank(K, i)] = s[i]
    BY KeepAtSubsequence
  <1> HIDE DEF t
  <1>2. \A i \in DOMAIN t : \E k \in DOMAIN s : t[i] = s[k]
    BY <1>1
  <1>3. IdsOf(t) \subseteq IdsOf(s)
    BY <1>2 DEF IdsOf
  <1>4. \A k \in K : s[k].id # 0 => s[k].id \in IdsOf(t)
    BY <1>1 DEF IdsOf
  <1>5. Ascending(s) => Ascending(t)
    BY <1>1 DEF Ascending
  <1>6. QED
    BY <1>2, <1>3, <1>4, <1>5 DEF t

(* A push: what is in the inbox stays, but for audio that is shed. *)
LEMMA EnqueueIds ==
  ASSUME NEW in \in InboxSet(ItemSet), Tidy(in), NEW q \in ItemSet,
         \A x \in InIds(in) : q.id # 0 => ~Before(q.id, x)
  PROVE  /\ Tidy(Enqueue(in, q))
         /\ InIds(Enqueue(in, q)) \subseteq InIds(in) \cup ({q.id} \ {0})
         /\ \A x \in InIds(in) \cup ({q.id} \ {0}) : x \in InIds(Enqueue(in, q)) \/ Audio(x)
  <1> DEFINE e == Enqueue(in, q)
  <1>1. /\ in.sys \in Seq(ItemSet) /\ in.up \in Seq(ItemSet) /\ in.down \in Seq(ItemSet)
        /\ q.id \in Nat
    BY ItemIds DEF InboxSet
  <1>2. \A x \in IdsOf(in.sys) : x # 0 /\ ~IsData(x) /\ x \in Nat
    <2>1. \A i \in DOMAIN in.sys : in.sys[i] \in ItemSet
      BY <1>1, ElementOfSeq, LenProperties
    <2>2. QED
      BY <2>1, ItemIds DEF IdsOf, Tidy
  <1>3. \A x \in IdsOf(in.down) : x # 0 /\ IsData(x) /\ x \in Nat
    <2>1. \A i \in DOMAIN in.down : in.down[i] \in ItemSet
      BY <1>1, ElementOfSeq, LenProperties
    <2>2. QED
      BY <2>1, ItemIds DEF IdsOf, Tidy
  <1>4. IdsOf(in.up) = {}
    BY DEF IdsOf, Tidy
  <1>5. /\ (q.id # 0 /\ ~IsData(q.id)) => \A x \in IdsOf(in.sys) : x < q.id
        /\ (q.id # 0 /\ IsData(q.id)) => \A x \in IdsOf(in.down) : x < q.id
    BY <1>1, <1>2, <1>3 DEF Before, InIds
  <1>6. CASE Lane(q) = "sys"
    <2> DEFINE s == IF IsAudio(q) THEN KeepAt(in.sys, DOMAIN in.sys \ ShedAt(in)) ELSE in.sys
    <2>1. /\ e.sys = Append(s, q) /\ e.up = in.up /\ e.down = in.down
      <3>1. CASE IsAudio(q)
        BY <1>6, <3>1, ShedType DEF Enqueue, InboxSet
      <3>2. CASE ~IsAudio(q)
        BY <1>6, <3>2 DEF Enqueue, InboxSet
      <3>3. QED
        BY <3>1, <3>2
    <2> DEFINE K == DOMAIN in.sys \ ShedAt(in)
    <2>2. /\ KeepAt(in.sys, K) \in Seq(ItemSet)
          /\ IdsOf(KeepAt(in.sys, K)) \subseteq IdsOf(in.sys) /\ Ascending(KeepAt(in.sys, K))
          /\ \A i \in DOMAIN KeepAt(in.sys, K) :
               \E k \in DOMAIN in.sys : KeepAt(in.sys, K)[i] = in.sys[k]
          /\ \A k \in K : in.sys[k].id # 0 => in.sys[k].id \in IdsOf(KeepAt(in.sys, K))
      <3>1. K \in SUBSET (DOMAIN in.sys)
        OBVIOUS
      <3>2. Ascending(in.sys)
        BY DEF Tidy
      <3> HIDE DEF K
      <3>3. QED
        BY <1>1, <3>1, <3>2, KeepAtSubsequence, KeepIds
    <2>3. \A i \in DOMAIN in.sys : i \in K \/ in.sys[i].id = 0 \/ Audio(in.sys[i].id)
      <3> SUFFICES ASSUME NEW i \in DOMAIN in.sys, i \in ShedAt(in), in.sys[i].id # 0
                   PROVE  Audio(in.sys[i].id)
        OBVIOUS
      <3>1. in.sys[i].kind = "InputAudio" /\ in.sys[i] \in ItemSet
        BY <1>1, ElementOfSeq, LenProperties DEF ShedAt, AudioAt, IsAudio
      <3>2. QED
        BY <3>1, ItemIds DEF Audio
    <2> HIDE DEF K
    <2>4. s = KeepAt(in.sys, K) \/ s = in.sys
      BY DEF K
    <2> HIDE DEF s
    <2>5. /\ s \in Seq(ItemSet) /\ IdsOf(s) \subseteq IdsOf(in.sys) /\ Ascending(s)
           /\ \A i \in DOMAIN s : \E k \in DOMAIN in.sys : s[i] = in.sys[k]
      BY <1>1, <2>2, <2>4 DEF Tidy
    <2>6. \A x \in IdsOf(in.sys) : x \in IdsOf(s) \/ Audio(x)
      BY <2>2, <2>3, <2>4 DEF IdsOf
    <2> HIDE DEF s
    <2>7. q.id # 0 => ~IsData(q.id)
      BY <1>6, ItemIds
    <2>8. /\ IdsOf(e.sys) = IdsOf(s) \cup ({q.id} \ {0})
          /\ Ascending(e.sys)
          /\ \A i \in DOMAIN e.sys : (i \in DOMAIN s /\ e.sys[i] = s[i]) \/ e.sys[i] = q
      BY <1>5, <2>1, <2>5, <2>7, AppendIds
    <2>9. Tidy(e)
      BY <2>1, <2>5, <2>7, <2>8 DEF Tidy
    <2>10. /\ InIds(e) \subseteq InIds(in) \cup ({q.id} \ {0})
          /\ \A x \in InIds(in) \cup ({q.id} \ {0}) : x \in InIds(e) \/ Audio(x)
      BY <2>1, <2>5, <2>6, <2>8 DEF InIds
    <2>11. QED
      BY <2>9, <2>10
  <1>7. CASE Lane(q) = "up"
    <2>1. /\ e.up = Append(in.up, q) /\ e.sys = in.sys /\ e.down = in.down
      BY <1>7 DEF Enqueue, InboxSet
    <2>2. q.id = 0
      BY <1>7, ItemIds DEF IsData
    <2>3. /\ IdsOf(e.up) = IdsOf(in.up) \cup ({q.id} \ {0})
          /\ \A i \in DOMAIN e.up : (i \in DOMAIN in.up /\ e.up[i] = in.up[i]) \/ e.up[i] = q
      BY <1>1, <2>1, AppendIds
    <2>4. Tidy(e)
      BY <2>1, <2>2, <2>3 DEF Tidy
    <2>5. InIds(e) = InIds(in) \cup ({q.id} \ {0})
      BY <2>1, <2>3 DEF InIds
    <2>6. QED
      BY <2>4, <2>5
  <1>8. CASE Lane(q) = "down"
    <2>1. /\ e.down = Append(in.down, q) /\ e.up = in.up /\ e.sys = in.sys
      BY <1>8 DEF Enqueue, InboxSet
    <2>2. q.id # 0 => IsData(q.id)
      BY <1>8, ItemIds
    <2>3. /\ IdsOf(e.down) = IdsOf(in.down) \cup ({q.id} \ {0})
          /\ Ascending(e.down)
          /\ \A i \in DOMAIN e.down : (i \in DOMAIN in.down /\ e.down[i] = in.down[i])
                                      \/ e.down[i] = q
      BY <1>1, <1>5, <2>1, <2>2, AppendIds DEF Tidy
    <2>4. Tidy(e)
      BY <2>1, <2>2, <2>3 DEF Tidy
    <2>5. InIds(e) = InIds(in) \cup ({q.id} \ {0})
      BY <2>1, <2>3 DEF InIds
    <2>6. QED
      BY <2>4, <2>5
  <1>9. QED
    BY <1>6, <1>7, <1>8, LaneNamesThree

(* A pop takes a frame that no other in the inbox must come before. *)
LEMMA PopFrontIds ==
  ASSUME NEW in \in InboxSet(ItemSet), Tidy(in), ~IsEmpty(in)
  PROVE  /\ Tidy(PopFront(in))
         /\ InIds(in) = InIds(PopFront(in)) \cup ({Front(in).id} \ {0})
         /\ Ahead({Front(in).id} \ {0}, InIds(PopFront(in)))
  <1> DEFINE p == PopFront(in)
             x == Front(in).id
  <1>1. in.sys \in Seq(ItemSet) /\ in.up \in Seq(ItemSet) /\ in.down \in Seq(ItemSet)
    BY DEF InboxSet
  <1>2. \A y \in IdsOf(in.sys) : y # 0 /\ ~IsData(y) /\ y \in Nat
    <2>1. \A i \in DOMAIN in.sys : in.sys[i] \in ItemSet
      BY <1>1, ElementOfSeq, LenProperties
    <2>2. QED
      BY <2>1, ItemIds DEF IdsOf, Tidy
  <1>3. \A y \in IdsOf(in.down) : y # 0 /\ IsData(y) /\ y \in Nat
    <2>1. \A i \in DOMAIN in.down : in.down[i] \in ItemSet
      BY <1>1, ElementOfSeq, LenProperties
    <2>2. QED
      BY <2>1, ItemIds DEF IdsOf, Tidy
  <1>4. IdsOf(in.up) = {}
    BY DEF IdsOf, Tidy
  <1>5. CASE NextLane(in) = "sys"
    <2>1. /\ p.sys = Tail(in.sys) /\ p.up = in.up /\ p.down = in.down /\ x = Head(in.sys).id
          /\ in.sys # <<>>
      BY <1>5 DEF PopFront, Front, NextLane, InboxSet
    <2> HIDE DEF p, x
    <2>2. /\ IdsOf(in.sys) = IdsOf(p.sys) \cup ({x} \ {0})
          /\ Head(in.sys) = in.sys[1] /\ 1 \in DOMAIN in.sys
          /\ \A i \in DOMAIN p.sys : i + 1 \in DOMAIN in.sys /\ p.sys[i] = in.sys[i + 1]
          /\ Ascending(p.sys) /\ \A y \in IdsOf(p.sys) : x # 0 => x < y
      BY <1>1, <2>1, TailIds DEF Tidy
    <2>3. Tidy(p)
      BY <2>1, <2>2 DEF Tidy
    <2>4. InIds(in) = InIds(p) \cup ({x} \ {0})
      BY <2>1, <2>2 DEF InIds
    <2>5. x # 0 => ~IsData(x) /\ x \in Nat
      BY <1>2, <2>2
    <2>6. \A y \in InIds(p) : x # 0 => ~Before(y, x)
      BY <1>2, <1>3, <1>4, <2>1, <2>2, <2>5 DEF InIds, Before
    <2>7. QED
      BY <2>3, <2>4, <2>6 DEF Ahead, p, x
  <1>6. CASE NextLane(in) = "up"
    <2>1. /\ p.up = Tail(in.up) /\ p.sys = in.sys /\ p.down = in.down /\ x = Head(in.up).id
          /\ in.up # <<>>
      BY <1>6 DEF PopFront, Front, NextLane, InboxSet
    <2> HIDE DEF p, x
    <2>2. /\ IdsOf(in.up) = IdsOf(p.up) \cup ({x} \ {0})
          /\ Head(in.up) = in.up[1] /\ 1 \in DOMAIN in.up
          /\ \A i \in DOMAIN p.up : i + 1 \in DOMAIN in.up /\ p.up[i] = in.up[i + 1]
      BY <1>1, <2>1, TailIds
    <2>3. Tidy(p) /\ x = 0
      BY <2>1, <2>2 DEF Tidy
    <2>4. InIds(in) = InIds(p) \cup ({x} \ {0})
      BY <2>1, <2>2 DEF InIds
    <2>5. QED
      BY <2>3, <2>4 DEF Ahead, p, x
  <1>7. CASE NextLane(in) = "down"
    <2>1. /\ p.down = Tail(in.down) /\ p.sys = in.sys /\ p.up = in.up /\ x = Head(in.down).id
          /\ in.down # <<>> /\ in.sys = <<>>
      BY <1>7 DEF PopFront, Front, NextLane, IsEmpty, InboxSet
    <2> HIDE DEF p, x
    <2>2. /\ IdsOf(in.down) = IdsOf(p.down) \cup ({x} \ {0})
          /\ Head(in.down) = in.down[1] /\ 1 \in DOMAIN in.down
          /\ \A i \in DOMAIN p.down : i + 1 \in DOMAIN in.down /\ p.down[i] = in.down[i + 1]
          /\ Ascending(p.down) /\ \A y \in IdsOf(p.down) : x # 0 => x < y
      BY <1>1, <2>1, TailIds DEF Tidy
    <2>3. Tidy(p)
      BY <2>1, <2>2 DEF Tidy
    <2>4. InIds(in) = InIds(p) \cup ({x} \ {0})
      BY <2>1, <2>2 DEF InIds
    <2>5. IdsOf(p.sys) = {}
      BY <2>1 DEF IdsOf
    <2>6. x # 0 => x \in Nat
      BY <1>3, <2>2
    <2>7. \A y \in InIds(p) : x # 0 => ~Before(y, x)
      BY <1>3, <1>4, <2>1, <2>2, <2>5, <2>6 DEF InIds, Before
    <2>8. QED
      BY <2>3, <2>4, <2>7 DEF Ahead, p, x
  <1>8. QED
    BY <1>5, <1>6, <1>7 DEF NextLane

(* A drain takes data frames away and changes no order. *)
LEMMA DrainIds ==
  ASSUME NEW in \in InboxSet(ItemSet), Tidy(in)
  PROVE  /\ Tidy(DrainInterruptible(in))
         /\ InIds(DrainInterruptible(in)) \subseteq InIds(in)
         /\ \A x \in InIds(in) :
              \/ x \in InIds(DrainInterruptible(in))
              \/ x \in {in.down[i].id : i \in DOMAIN in.down \ KeptAt(in.down)}
  <1> DEFINE d == DrainInterruptible(in)
  <1>1. in.sys \in Seq(ItemSet) /\ in.up \in Seq(ItemSet) /\ in.down \in Seq(ItemSet)
    BY DEF InboxSet
  <1>2. /\ d.sys = in.sys /\ d.up = KeepAt(in.up, KeptAt(in.up))
        /\ d.down = KeepAt(in.down, KeptAt(in.down))
    BY DEF DrainInterruptible, InboxSet
  <1> HIDE DEF d
  <1>3. KeptAt(in.up) \in SUBSET (DOMAIN in.up) /\ KeptAt(in.down) \in SUBSET (DOMAIN in.down)
    BY DEF KeptAt
  <1>4. /\ IdsOf(d.up) \subseteq IdsOf(in.up) /\ IdsOf(d.down) \subseteq IdsOf(in.down)
        /\ \A i \in DOMAIN d.up : \E k \in DOMAIN in.up : d.up[i] = in.up[k]
        /\ \A i \in DOMAIN d.down : \E k \in DOMAIN in.down : d.down[i] = in.down[k]
        /\ \A k \in KeptAt(in.down) : in.down[k].id # 0 => in.down[k].id \in IdsOf(d.down)
        /\ Ascending(d.down)
    BY <1>1, <1>2, <1>3, KeepIds DEF Tidy
  <1>5. Tidy(d)
    BY <1>2, <1>4 DEF Tidy
  <1>6. InIds(d) \subseteq InIds(in)
    BY <1>2, <1>4 DEF InIds
  <1>7. IdsOf(in.up) = {}
    BY DEF IdsOf, Tidy
  <1>8. \A x \in IdsOf(in.down) : \/ x \in IdsOf(d.down)
                                  \/ x \in {in.down[i].id : i \in DOMAIN in.down \ KeptAt(in.down)}
    BY <1>4 DEF IdsOf
  <1>9. QED
    BY <1>2, <1>5, <1>6, <1>7, <1>8 DEF InIds, d

-----------------------------------------------------------------------------
(* Frames that leave, move on by one place, or enter keep the order. *)
LEMMA OrderShrinks ==
  ASSUME NEW P, NEW Q, Ordered(P), \A k \in 0..N + 1 : Q[k] \subseteq P[k]
  PROVE  Ordered(Q)
  BY DEF Ordered, Ahead

(* Frames that nobody is behind move on by one place.                       *)
LEMMA OrderMoves ==
  ASSUME NEW P, NEW Q, Ordered(P), NEW j \in 0..N, NEW X,
         X \subseteq P[j], Ahead(X, Q[j]),
         Q[j + 1] \subseteq P[j + 1] \cup X,
         \A k \in 0..N + 1 : k # j + 1 => Q[k] \subseteq P[k]
  PROVE  Ordered(Q)
  <1> SUFFICES ASSUME NEW k \in 0..N + 1, NEW l \in 0..N + 1, k < l,
                      NEW a \in Q[l], NEW b \in Q[k]
               PROVE  ~Before(b, a)
    BY DEF Ordered, Ahead
  <1>1. N \in Nat
    BY Constants
  <1>2. CASE l # j + 1 /\ k # j + 1
    BY <1>2 DEF Ordered, Ahead
  <1>3. CASE l = j + 1
    <2>1. b \in P[k]
      BY <1>1, <1>3
    <2>2. CASE a \in P[l]
      BY <2>1, <2>2 DEF Ordered, Ahead
    <2>3. CASE a \in X
      <3>1. CASE k = j
        BY <2>3, <3>1 DEF Ahead
      <3>2. CASE k # j
        BY <1>1, <1>3, <2>1, <2>3, <3>2 DEF Ordered, Ahead
      <3>3. QED
        BY <3>1, <3>2
    <2>4. QED
      BY <1>3, <2>2, <2>3
  <1>4. CASE k = j + 1
    <2>1. a \in P[l] /\ j < l /\ j \in 0..N + 1
      BY <1>1, <1>4
    <2>2. CASE b \in P[k]
      BY <2>1, <2>2 DEF Ordered, Ahead
    <2>3. CASE b \in X
      BY <2>1, <2>3 DEF Ordered, Ahead
    <2>4. QED
      BY <1>4, <2>2, <2>3
  <1>5. QED
    BY <1>2, <1>3, <1>4

(* A new frame comes after all that were queued before.                     *)
LEMMA OrderEnters ==
  ASSUME NEW P, NEW Q, Ordered(P), NEW x \in Nat,
         \A k \in 0..N + 1 : P[k] \subseteq 1..x - 1,
         Q[0] \subseteq P[0] \cup {x},
         \A k \in 1..N + 1 : Q[k] \subseteq P[k]
  PROVE  Ordered(Q)
  <1> SUFFICES ASSUME NEW k \in 0..N + 1, NEW l \in 0..N + 1, k < l,
                      NEW a \in Q[l], NEW b \in Q[k]
               PROVE  ~Before(b, a)
    BY DEF Ordered, Ahead
  <1>1. N \in Nat
    BY Constants
  <1>2. l \in 1..N + 1 /\ a \in P[l]
    BY <1>1
  <1>3. CASE b \in P[k]
    BY <1>2, <1>3 DEF Ordered, Ahead
  <1>4. CASE b = x
    <2>1. a \in 1..x - 1
      BY <1>2
    <2>2. QED
      BY <1>4, <2>1 DEF Before
  <1>5. QED
    BY <1>1, <1>3, <1>4

-----------------------------------------------------------------------------
(* The row of places, before and after a step. *)
LEMMA PlaceAt ==
  /\ Place[0] = Entry /\ Place[N + 1] = Came
  /\ \A n \in Procs : Place[n] = Hand(n) \cup InIds(inbox[n])
  /\ Place'[0] = Entry' /\ Place'[N + 1] = Came'
  /\ \A n \in Procs : Place'[n] = Hand(n)' \cup InIds(inbox'[n])
  /\ \A k \in 0..N + 1 : k = 0 \/ k = N + 1 \/ k \in Procs
  /\ \A n \in Procs : n # 0 /\ n # N + 1 /\ n \in 0..N + 1
  /\ 0 \in 0..N + 1 /\ N + 1 \in 0..N + 1
  <1>1. N \in Nat
    BY Constants
  <1>2. /\ \A k \in 0..N + 1 : k = 0 \/ k = N + 1 \/ k \in Procs
        /\ \A n \in Procs : n # 0 /\ n # N + 1 /\ n \in 0..N + 1
        /\ 0 \in 0..N + 1 /\ N + 1 \in 0..N + 1
        /\ N + 1 # 0
    BY <1>1 DEF Procs
  <1>3. /\ Place[0] = Entry /\ Place[N + 1] = Came
        /\ \A n \in Procs : Place[n] = Hand(n) \cup InIds(inbox[n])
    BY <1>2 DEF Place
  <1>4. /\ Place'[0] = Entry' /\ Place'[N + 1] = Came'
        /\ \A n \in Procs : Place'[n] = Hand(n)' \cup InIds(inbox'[n])
    BY <1>2 DEF Place
  <1>5. QED
    BY <1>2, <1>3, <1>4

(* A push into one inbox. *)
LEMMA PushIds ==
  ASSUME InboxTyped, \A m \in Procs : Tidy(inbox[m]),
         NEW n \in Procs, NEW q \in ItemSet, Push(n, q),
         \A x \in InIds(inbox[n]) : q.id # 0 => ~Before(q.id, x)
  PROVE  /\ \A m \in Procs : Tidy(inbox'[m])
         /\ \A m \in Procs : m # n => inbox'[m] = inbox[m]
         /\ InIds(inbox'[n]) \subseteq InIds(inbox[n]) \cup ({q.id} \ {0})
         /\ \A x \in InIds(inbox[n]) \cup ({q.id} \ {0}) : x \in InIds(inbox'[n]) \/ Audio(x)
  <1>1. inbox[n] \in InboxSet(ItemSet) /\ Tidy(inbox[n])
    BY DEF InboxTyped
  <1>2. inbox'[n] = Enqueue(inbox[n], q) /\ \A m \in Procs : m # n => inbox'[m] = inbox[m]
    BY DEF Push, InboxTyped
  <1>3. /\ Tidy(inbox'[n])
        /\ InIds(inbox'[n]) \subseteq InIds(inbox[n]) \cup ({q.id} \ {0})
        /\ \A x \in InIds(inbox[n]) \cup ({q.id} \ {0}) : x \in InIds(inbox'[n]) \/ Audio(x)
    BY <1>1, <1>2, EnqueueIds
  <1>4. QED
    BY <1>2, <1>3

(* A step that no frame of the client enters by, nor moves on by. *)
LEMMA StaysInOrder ==
  ASSUME InOrder, UNCHANGED <<pre, batch, cpc, sent, arrived, endSeen>>,
         \A m \in Procs : /\ Tidy(inbox'[m]) /\ HandTidy(m)'
                          /\ Hand(m)' \cup InIds(inbox'[m]) \subseteq Hand(m) \cup InIds(inbox[m])
  PROVE  InOrder'
  <1>1. Entry' = Entry /\ Came' = Came /\ EntryTidy' /\ EndTidy'
    BY DEF Entry, Came, InOrder, EntryTidy, EndTidy
  <1>2. \A k \in 0..N + 1 : Place'[k] \subseteq Place[k]
    BY <1>1, PlaceAt
  <1>3. Ordered(Place')
    BY <1>2, OrderShrinks DEF InOrder
  <1>4. \A k \in 0..N + 1 : Place'[k] \subseteq 1..sent'
    BY <1>2 DEF InOrder
  <1>5. QED
    BY <1>1, <1>3, <1>4 DEF InOrder, Ordered

(* A push of an item that is not the client's, with a delivery or without. *)
LEMMA OwnPushInOrder ==
  ASSUME Typed, InOrder, UNCHANGED <<npc, cur, pre, batch, cpc, sent, arrived, endSeen>>,
         UNCHANGED inbox \/ \E m \in Procs, q \in ItemSet : q.id = 0 /\ Push(m, q),
         NEW n \in Procs,
         UNCHANGED out \/ (out[n] # <<>> /\ Delivered(n))
  PROVE  InOrder'
  <1>1. InboxTyped /\ NodesTyped /\ \A m \in Procs : Tidy(inbox[m]) /\ HandTidy(m)
    BY DEF Typed, InOrder
  <1>2. \A m \in Procs : Tidy(inbox'[m]) /\ InIds(inbox'[m]) \subseteq InIds(inbox[m])
    <2>1. CASE UNCHANGED inbox
      BY <1>1, <2>1
    <2>2. ASSUME NEW m \in Procs, NEW q \in ItemSet, q.id = 0, Push(m, q)
          PROVE  \A l \in Procs : Tidy(inbox'[l]) /\ InIds(inbox'[l]) \subseteq InIds(inbox[l])
      <3>1. /\ \A l \in Procs : Tidy(inbox'[l])
            /\ \A l \in Procs : l # m => inbox'[l] = inbox[l]
            /\ InIds(inbox'[m]) \subseteq InIds(inbox[m]) \cup ({q.id} \ {0})
        BY <1>1, <2>2, PushIds
      <3>2. {q.id} \ {0} = {}
        BY <2>2
      <3>3. QED
        BY <3>1, <3>2
    <2>3. QED
      BY <2>1, <2>2
  <1>3. \A m \in Procs : out'[m] = out[m] \/ (out[m] # <<>> /\ out'[m] = Tail(out[m]))
    BY <1>1 DEF Delivered, NodesTyped
  <1>4. ASSUME NEW m \in Procs
        PROVE  HandTidy(m)' /\ Hand(m)' \subseteq Hand(m)
    <2>1. CASE out'[m] = out[m]
      <3>1. Hand(m)' = Hand(m)
        BY <2>1 DEF Hand
      <3>2. QED
        BY <1>1, <1>2, <2>1, <3>1 DEF HandTidy, Ahead
    <2>2. CASE out[m] # <<>> /\ out'[m] = Tail(out[m])
      <3>1. \A i \in DOMAIN out'[m] :
              i \in Nat /\ i + 1 \in DOMAIN out[m] /\ out'[m][i] = out[m][i + 1]
        <4>1. out[m] \in Seq(DeliverySet)
          BY <1>1 DEF NodesTyped
        <4>2. QED
          BY <2>2, <4>1, HeadTailProperties, LenProperties
      <3>2. Hand(m)' \subseteq Hand(m)
        BY <3>1 DEF Hand
      <3>3. \A i, j \in DOMAIN out'[m] : out'[m][i].q.id # 0 /\ out'[m][j].q.id # 0 => i = j
        <4>1. \A i, j \in Nat : i + 1 = j + 1 => i = j
          OBVIOUS
        <4>2. QED
          BY <1>1, <3>1, <4>1 DEF HandTidy
      <3>4. npc'[m] \notin {"off", "pop", "process", "stopped"}
        BY <1>1, <2>2 DEF HandTidy
      <3>5. QED
        BY <1>1, <1>2, <3>2, <3>3, <3>4 DEF HandTidy, Ahead
    <2>3. QED
      BY <1>3, <2>1, <2>2
  <1>5. QED
    BY <1>2, <1>4, StaysInOrder

(* A step that moves one frame on by one place. *)
LEMMA MovesOn ==
  ASSUME InOrder, sent' = sent, NEW j \in 0..N, NEW X,
         X \subseteq Place[j], Ahead(X, Place'[j]),
         Place'[j + 1] \subseteq Place[j + 1] \cup X,
         \A k \in 0..N + 1 : k # j + 1 => Place'[k] \subseteq Place[k]
  PROVE  Ordered(Place)' /\ \A k \in 0..N + 1 : Place'[k] \subseteq 1..sent'
  <1>1. Ordered(Place')
    BY OrderMoves DEF InOrder
  <1>2. ASSUME NEW k \in 0..N + 1
        PROVE  Place'[k] \subseteq 1..sent'
    <2>1. Place[k] \subseteq 1..sent /\ Place[j] \subseteq 1..sent
      <3>1. j \in 0..N + 1
        BY Constants
      <3>2. QED
        BY <3>1 DEF InOrder
    <2>2. QED
      BY <2>1
  <1>3. QED
    BY <1>1, <1>2 DEF Ordered

(* What is left of a node's hand after its delivery of a client's frame. *)
LEMMA HandEmptied ==
  ASSUME NodesTyped, NEW n \in Procs, HandTidy(n), out[n] # <<>>, Delivered(n),
         UNCHANGED <<npc, cur>>, NextDelivery(n).q.id # 0
  PROVE  /\ Hand(n)' = {} /\ Hand(n) = {NextDelivery(n).q.id}
         /\ \A m \in Procs : m # n => out'[m] = out[m] /\ Hand(m)' = Hand(m)
         /\ \A i, j \in DOMAIN out'[n] :
              out'[n][i].q.id # 0 /\ out'[n][j].q.id # 0 => i = j
  <1>1. /\ out[n] \in Seq(DeliverySet) /\ 1 \in DOMAIN out[n] /\ Head(out[n]) = out[n][1]
        /\ \A i \in DOMAIN Tail(out[n]) :
             \E k \in DOMAIN out[n] : k # 1 /\ Tail(out[n])[i] = out[n][k]
    <2>1. out[n] \in Seq(DeliverySet)
      BY DEF NodesTyped
    <2>2. QED
      BY <2>1, HeadTailProperties, LenProperties, EmptySeq
  <1>2. out' = [out EXCEPT ![n] = Tail(@)] /\ out'[n] = Tail(out[n])
    BY DEF Delivered, NodesTyped
  <1>3. out[n][1].q.id # 0 /\ \A i \in DOMAIN out[n] : out[n][i].q.id # 0 => i = 1
    BY <1>1 DEF HandTidy, NextDelivery
  <1>4. \A i \in DOMAIN out'[n] : out'[n][i].q.id = 0
    <2>1. \A i \in DOMAIN Tail(out[n]) : Tail(out[n])[i].q.id = 0
      BY <1>1, <1>3
    <2>2. QED
      BY <1>2, <2>1
  <1>5. npc[n] # "process"
    BY DEF HandTidy
  <1>6. Hand(n)' = {}
    BY <1>4, <1>5 DEF Hand
  <1>7. Hand(n) = {NextDelivery(n).q.id}
    BY <1>1, <1>3, <1>5 DEF Hand, NextDelivery
  <1>8. \A m \in Procs : m # n => out'[m] = out[m] /\ Hand(m)' = Hand(m)
    BY <1>2 DEF Hand, NodesTyped
  <1>9. QED
    BY <1>4, <1>6, <1>7, <1>8

(* There are no frames yet.                                                 *)
LEMMA InitInOrder == Init => InOrder
  <1> SUFFICES ASSUME Init PROVE InOrder
    OBVIOUS
  <1>1. Entry = {} /\ Came = {} /\ IdsOf(<<>>) = {}
    BY DEF Init, Entry, Came, IdsOf
  <1>2. \A n \in Procs : Hand(n) = {} /\ InIds(inbox[n]) = {}
    BY <1>1 DEF Init, Hand, InIds, EmptyInbox
  <1>3. \A k \in 0..N + 1 : Place[k] = {}
    BY <1>1, <1>2, PlaceAt
  <1>4. \A n \in Procs : Tidy(inbox[n]) /\ HandTidy(n)
    BY <1>2 DEF Init, Tidy, HandTidy, Ascending, EmptyInbox, Ahead
  <1>5. Ordered(Place)
    BY <1>3 DEF Ordered, Ahead
  <1>6. EntryTidy /\ EndTidy
    BY <1>1 DEF Init, EntryTidy, EndTidy, Ascending
  <1>7. QED
    BY <1>3, <1>4, <1>5, <1>6 DEF InOrder

(* A step of a node keeps the order.                                        *)
LEMMA NodeInOrder ==
  ASSUME Typed, Lifecycle, InOrder, NEW n \in Procs, NodeStep(n)
  PROVE  InOrder'
  <1> USE DEF runVars, nodeVars, signals, clientVars, faults
  <1>1. /\ InboxTyped /\ NodesTyped
        /\ \A m \in Procs : inbox[m] \in InboxSet(ItemSet) /\ Tidy(inbox[m]) /\ HandTidy(m)
    BY DEF Typed, InboxTyped, InOrder
  <1>2. CASE NodePop(n)
    <2>1. /\ npc[n] = "pop" /\ ~IsEmpty(inbox[n]) /\ out' = out
          /\ npc' = [npc EXCEPT ![n] = "process"] /\ cur' = [cur EXCEPT ![n] = Front(inbox[n])]
          /\ inbox' = [inbox EXCEPT ![n] = PopFront(@)]
          /\ UNCHANGED <<pre, batch, cpc, sent, arrived, endSeen>>
      BY <1>2 DEF NodePop
    <2>2. \A m \in Procs : m # n => /\ npc'[m] = npc[m] /\ cur'[m] = cur[m]
                                    /\ inbox'[m] = inbox[m]
      BY <1>1, <2>1 DEF InboxTyped, NodesTyped
    <2>3. npc'[n] = "process" /\ cur'[n] = Front(inbox[n]) /\ inbox'[n] = PopFront(inbox[n])
      BY <1>1, <2>1 DEF InboxTyped, NodesTyped
    <2>4. out[n] = <<>>
      BY <1>1, <2>1 DEF HandTidy
    <2>5. Hand(n)' = {Front(inbox[n]).id} \ {0} /\ Hand(n) = {}
      BY <2>1, <2>3, <2>4 DEF Hand
    <2>6. /\ Tidy(inbox'[n])
          /\ InIds(inbox[n]) = InIds(inbox'[n]) \cup ({Front(inbox[n]).id} \ {0})
          /\ Ahead({Front(inbox[n]).id} \ {0}, InIds(inbox'[n]))
      BY <1>1, <2>1, <2>3, PopFrontIds
    <2>7. HandTidy(n)'
      BY <2>1, <2>3, <2>4, <2>5, <2>6 DEF HandTidy
    <2>8. ASSUME NEW m \in Procs, m # n
          PROVE  HandTidy(m)' /\ Hand(m)' = Hand(m) /\ inbox'[m] = inbox[m]
      <3>1. Hand(m)' = Hand(m)
        BY <2>1, <2>2, <2>8 DEF Hand
      <3>2. QED
        BY <1>1, <2>1, <2>2, <2>8, <3>1 DEF HandTidy
    <2>9. QED
      BY <1>1, <2>1, <2>5, <2>6, <2>7, <2>8, StaysInOrder
  <1>3. CASE NodeStop(n) \/ NodeUnhang(n) \/ NodeDone(n)
    <2>1. /\ UNCHANGED <<inbox, out, pre, batch, cpc, sent, arrived, endSeen>>
          /\ \A m \in Procs : m # n => npc'[m] = npc[m] /\ cur'[m] = cur[m]
          /\ npc'[n] # "process" /\ npc[n] # "process"
          /\ npc'[n] \in {"pop", "stopped"} => out[n] = <<>>
          /\ npc'[n] \in {"pop", "stopped", "deliver"}
      BY <1>1, <1>3 DEF NodeStop, NodeUnhang, NodeDone, HandTidy, NodesTyped
    <2>2. \A m \in Procs : Hand(m)' = Hand(m)
      BY <2>1 DEF Hand
    <2>3. \A m \in Procs : HandTidy(m)'
      BY <1>1, <2>1, <2>2 DEF HandTidy
    <2>4. QED
      BY <1>1, <2>1, <2>2, <2>3, StaysInOrder
  <1>4. CASE NodeProcess(n)
    <2>1. PICK b \in Behaviours :
            /\ npc[n] = "process" /\ out' = [out EXCEPT ![n] = Deliveries(b, cur[n])]
            /\ npc' = [npc EXCEPT ![n] = IF b = "hang" THEN "hung" ELSE "deliver"]
            /\ UNCHANGED <<cur, pre, batch, cpc, sent, arrived, endSeen>>
            /\ inbox' = [inbox EXCEPT ![n] = DrainInterruptible(@)] \/ UNCHANGED inbox
      BY <1>4 DEF NodeProcess
    <2>2. /\ \A m \in Procs : m # n => /\ npc'[m] = npc[m] /\ out'[m] = out[m]
                                       /\ inbox'[m] = inbox[m]
          /\ npc'[n] \in {"hung", "deliver"} /\ out'[n] = Deliveries(b, cur[n])
          /\ inbox'[n] = DrainInterruptible(inbox[n]) \/ inbox'[n] = inbox[n]
      BY <1>1, <2>1 DEF InboxTyped, NodesTyped
    <2>3. cur[n] \in ItemSet
      BY <1>1 DEF NodesTyped
    <2>4. /\ \A i \in DOMAIN out'[n] : out'[n][i].q.id \in {0, cur[n].id}
          /\ \A i, j \in DOMAIN out'[n] :
               out'[n][i].q.id # 0 /\ out'[n][j].q.id # 0 => i = j
      BY <2>2, <2>3, DeliveriesType
    <2>5. Hand(n)' \subseteq Hand(n)
      BY <2>1, <2>2, <2>4 DEF Hand
    <2>6. Tidy(inbox'[n]) /\ InIds(inbox'[n]) \subseteq InIds(inbox[n])
      BY <1>1, <2>2, DrainIds
    <2>7. HandTidy(n)'
      BY <1>1, <2>2, <2>4, <2>5, <2>6 DEF HandTidy, Ahead
    <2>8. ASSUME NEW m \in Procs, m # n
          PROVE  HandTidy(m)' /\ Hand(m)' = Hand(m) /\ inbox'[m] = inbox[m]
      <3>1. Hand(m)' = Hand(m)
        BY <2>1, <2>2, <2>8 DEF Hand
      <3>2. QED
        BY <1>1, <2>1, <2>2, <2>8, <3>1 DEF HandTidy
    <2>9. QED
      BY <1>1, <2>1, <2>5, <2>6, <2>7, <2>8, StaysInOrder
  <1>5. CASE NodeDeliver(n)
    <2> DEFINE q == NextDelivery(n).q
               x == q.id
    <2>1. /\ out[n] # <<>> /\ Delivered(n) /\ NextDelivery(n).to \in {"down", "up"}
          /\ UNCHANGED <<npc, cur, pre, batch, cpc, sent, arrived, endSeen>>
      BY <1>5 DEF NodeDeliver
    <2>2. NextDelivery(n) \in DeliverySet /\ q \in ItemSet /\ q.dir = NextDelivery(n).to
      BY <1>1, <2>1, DeliveryTyped DEF DeliverySet
    <2>3. CASE x = 0 \/ UNCHANGED inbox
      <3>1. UNCHANGED inbox \/ \E m \in Procs, p \in ItemSet : p.id = 0 /\ Push(m, p)
        BY <1>5, <2>2, <2>3 DEF NodeDeliver
      <3>2. QED
        BY <2>1, <3>1, OwnPushInOrder
    <2>4. CASE x # 0 /\ ~UNCHANGED inbox
      <3>1. q.dir = "down"
        BY <2>2, <2>4 DEF ItemSet
      <3>2. n + 1 \in Procs /\ Push(n + 1, q) /\ n \in 0..N /\ n # n + 1
        BY <1>5, <2>2, <2>4, <3>1, Constants DEF NodeDeliver, Procs
      <3> HIDE DEF q
      <3> DEFINE m == n + 1
      <3>3. /\ Hand(n)' = {} /\ Hand(n) = {x}
            /\ \A l \in Procs : l # n => out'[l] = out[l] /\ Hand(l)' = Hand(l)
            /\ \A i, j \in DOMAIN out'[n] :
                 out'[n][i].q.id # 0 /\ out'[n][j].q.id # 0 => i = j
        BY <1>1, <2>1, <2>4, HandEmptied DEF q
      <3> HIDE DEF m, x
      <3>4. m \in Procs /\ Push(m, q) /\ m # n /\ m \in Nat /\ n \in Nat /\ n < m
        BY <3>2, Constants DEF m
      <3>5. Ahead(Place[m], Place[n])
        BY <3>4, PlaceAt DEF InOrder, Ordered
      <3>6. \A y \in InIds(inbox[m]) : q.id # 0 => ~Before(q.id, y)
        BY <3>4, <3>3, <3>5, PlaceAt DEF Ahead, x
      <3>7. /\ \A l \in Procs : Tidy(inbox'[l])
            /\ \A l \in Procs : l # m => inbox'[l] = inbox[l]
            /\ InIds(inbox'[m]) \subseteq InIds(inbox[m]) \cup {x}
        BY <1>1, <2>2, <3>4, <3>6, PushIds DEF x
      <3>8. /\ x \in Place[n] /\ Place'[n] = InIds(inbox[n])
            /\ Place'[m] \subseteq Place[m] \cup {x}
            /\ \A l \in Procs : l # m => Place'[l] \subseteq Place[l]
            /\ Place'[0] = Place[0] /\ Place'[N + 1] = Place[N + 1]
        <4>1. Place'[0] = Place[0] /\ Place'[N + 1] = Place[N + 1]
          BY <2>1, PlaceAt DEF Entry, Came
        <4>2. /\ Place[n] = Hand(n) \cup InIds(inbox[n])
              /\ Place'[n] = Hand(n)' \cup InIds(inbox'[n])
              /\ Place[m] = Hand(m) \cup InIds(inbox[m])
              /\ Place'[m] = Hand(m)' \cup InIds(inbox'[m])
          BY <3>4, PlaceAt
        <4>3. inbox'[n] = inbox[n] /\ Hand(m)' = Hand(m)
          BY <3>4, <3>3, <3>7
        <4>4. x \in Place[n] /\ Place'[n] = InIds(inbox[n])
          BY <3>3, <4>2, <4>3
        <4>5. Place'[m] \subseteq Place[m] \cup {x}
          BY <3>7, <4>2, <4>3
        <4>6. ASSUME NEW l \in Procs, l # m
              PROVE  Place'[l] \subseteq Place[l]
          <5>1. /\ Place[l] = Hand(l) \cup InIds(inbox[l])
                /\ Place'[l] = Hand(l)' \cup InIds(inbox'[l])
            BY PlaceAt
          <5>2. inbox'[l] = inbox[l] /\ (l # n => Hand(l)' = Hand(l))
            BY <3>3, <3>7, <4>6
          <5>3. l = n => Hand(l)' = {}
            BY <3>3
          <5>4. QED
            BY <5>1, <5>2, <5>3
        <4>7. QED
          BY <4>1, <4>4, <4>5, <4>6
      <3>9. Ahead({x}, Place'[n])
        BY <1>1, <3>3, <3>8 DEF HandTidy
      <3>10. Ordered(Place)' /\ \A k \in 0..N + 1 : Place'[k] \subseteq 1..sent'
        <4>1. \A k \in 0..N + 1 : k # n + 1 => Place'[k] \subseteq Place[k]
          BY <3>8, PlaceAt DEF m
        <4>2. Place'[n + 1] \subseteq Place[n + 1] \cup {x} /\ {x} \subseteq Place[n]
          BY <3>8 DEF m
        <4>3. QED
          BY <2>1, <3>2, <3>9, <4>1, <4>2, MovesOn
      <3>11. HandTidy(n)'
        <4>1. npc'[n] \notin {"off", "pop", "process", "stopped"}
          BY <1>1, <2>1 DEF HandTidy
        <4>2. QED
          BY <3>3, <4>1 DEF HandTidy, Ahead
      <3>12. HandTidy(m)'
        <4>1. Ahead(Hand(m), InIds(inbox[m]) \cup {x})
          BY <1>1, <3>4, <3>3, <3>5, PlaceAt DEF HandTidy, Ahead
        <4>2. QED
          BY <1>1, <2>1, <3>4, <3>3, <3>7, <4>1 DEF HandTidy, Ahead
      <3>13. ASSUME NEW l \in Procs, l # m, l # n
             PROVE  HandTidy(l)'
        BY <1>1, <2>1, <3>3, <3>7, <3>13 DEF HandTidy
      <3>14. EntryTidy' /\ EndTidy'
        BY <2>1 DEF InOrder, EntryTidy, EndTidy, Came
      <3>15. QED
        BY <3>7, <3>10, <3>11, <3>12, <3>13, <3>14 DEF InOrder
    <2>5. QED
      BY <2>3, <2>4
  <1>6. CASE NodeReachSink(n)
    <2> DEFINE q == NextDelivery(n).q
               x == q.id
    <2>1. /\ out[n] # <<>> /\ Delivered(n) /\ NextDelivery(n).to = "down" /\ n = N
          /\ UNCHANGED <<inbox, npc, cur, pre, batch, cpc, sent>>
          /\ endSeen' = IF q.kind = "End" /\ endSeen = 0 THEN q.id ELSE endSeen
          /\ arrived' = IF q.id = 0 THEN arrived ELSE Append(arrived, q.id)
      BY <1>6 DEF NodeReachSink
    <2>2. q \in ItemSet
      BY <1>1, <2>1, DeliveryTyped
    <2>3. CASE x = 0
      <3>1. UNCHANGED <<arrived, endSeen>>
        <4>1. endSeen \in Nat
          BY Constants DEF Typed, SignalsTyped
        <4>2. QED
          BY <2>1, <2>3, <4>1
      <3>2. QED
        BY <2>1, <3>1, OwnPushInOrder
    <2>4. CASE x # 0
      <3> HIDE DEF q
      <3>1. /\ Hand(n)' = {} /\ Hand(n) = {x}
            /\ \A l \in Procs : l # n => out'[l] = out[l] /\ Hand(l)' = Hand(l)
            /\ \A i, j \in DOMAIN out'[n] :
                 out'[n][i].q.id # 0 /\ out'[n][j].q.id # 0 => i = j
        BY <1>1, <2>1, <2>4, HandEmptied DEF q
      <3>2. arrived' = Append(arrived, x) /\ arrived \in Seq(1..Len(Script))
        BY <2>1, <2>4 DEF Typed, SignalsTyped
      <3>3. /\ DOMAIN arrived = 1..Len(arrived) /\ DOMAIN arrived' = 1..Len(arrived) + 1
            /\ Len(arrived) \in Nat /\ arrived'[Len(arrived) + 1] = x
            /\ \A i \in DOMAIN arrived : arrived'[i] = arrived[i]
        BY <2>2, <3>2, AppendProperties, LenProperties DEF x
      <3>4. x \in 1..Len(Script) /\ q.kind = Script[x]
        BY <2>2, <2>4, ItemIds DEF x
      <3> HIDE DEF x
      <3>5. Came' = Came \cup {x}
        BY <3>3 DEF Came
      <3>6. Ahead(Place[N + 1], Place[N])
        BY Constants, PlaceAt DEF InOrder, Ordered
      <3>7. \A y \in Came : ~Before(x, y)
        BY <2>1, <3>1, <3>6, PlaceAt DEF Ahead
      <3>8. EndTidy'
        <4>1. \A i, j \in DOMAIN arrived' : i < j => ~Before(arrived'[j], arrived'[i])
          <5> SUFFICES ASSUME NEW i \in DOMAIN arrived', NEW j \in DOMAIN arrived', i < j
                       PROVE  ~Before(arrived'[j], arrived'[i])
            OBVIOUS
          <5>1. i \in DOMAIN arrived
            BY <3>3
          <5>2. CASE j \in DOMAIN arrived
            BY <3>3, <5>1, <5>2 DEF InOrder, EndTidy
          <5>3. CASE j = Len(arrived) + 1
            BY <3>3, <3>7, <5>1, <5>3 DEF Came
          <5>4. QED
            BY <3>3, <5>2, <5>3
        <4>2. q.kind = "End" => IsData(x)
          BY <3>4 DEF IsData, IsSystem, SystemKinds
        <4>3. endSeen' # 0 => endSeen' \in Came' /\ IsData(endSeen')
          BY <2>1, <3>5, <4>2 DEF InOrder, EndTidy, x
        <4>4. QED
          BY <4>1, <4>3 DEF EndTidy
      <3>9. /\ x \in Place[N] /\ Place'[N] = InIds(inbox[n])
            /\ Place'[N + 1] = Place[N + 1] \cup {x}
            /\ \A k \in 0..N + 1 : k # N + 1 => Place'[k] \subseteq Place[k]
        <4>1. Place'[0] = Place[0]
          BY <2>1, PlaceAt DEF Entry
        <4>2. x \in Place[N] /\ Place'[N] = InIds(inbox[n])
          <5>1. inbox' = inbox
            BY <2>1
          <5>2. x \in Place[n]
            BY <3>1, PlaceAt
          <5>3. Place'[n] = Hand(n)' \cup InIds(inbox'[n])
            BY PlaceAt
          <5>4. Place'[n] = InIds(inbox[n])
            BY <3>1, <5>1, <5>3
          <5>5. QED
            BY <2>1, <5>2, <5>4
        <4>3. Place'[N + 1] = Place[N + 1] \cup {x}
          BY <3>5, PlaceAt
        <4>4. \A l \in Procs : Place'[l] \subseteq Place[l]
          BY <2>1, <3>1, PlaceAt
        <4>5. QED
          BY <4>1, <4>2, <4>3, <4>4, PlaceAt
      <3>10. Ahead({x}, Place'[N])
        BY <1>1, <3>1, <3>9 DEF HandTidy
      <3>11. Ordered(Place)' /\ \A k \in 0..N + 1 : Place'[k] \subseteq 1..sent'
        <4>1. N \in 0..N
          BY Constants
        <4>2. QED
          BY <2>1, <3>9, <3>10, <4>1, MovesOn
      <3>12. ASSUME NEW l \in Procs
             PROVE  HandTidy(l)'
        <4>1. npc'[n] \notin {"off", "pop", "process", "stopped"}
          BY <1>1, <2>1 DEF HandTidy
        <4>2. CASE l = n
          BY <3>1, <4>1, <4>2 DEF HandTidy, Ahead
        <4>3. CASE l # n
          BY <1>1, <2>1, <3>1, <4>3 DEF HandTidy
        <4>4. QED
          BY <4>2, <4>3
      <3>13. EntryTidy'
        BY <2>1 DEF InOrder, EntryTidy
      <3>14. QED
        BY <1>1, <2>1, <3>8, <3>11, <3>12, <3>13 DEF InOrder
    <2>5. QED
      BY <2>3, <2>4
  <1>7. CASE NodeReachSource(n) \/ NodeCancelsTask(n)
    <2>1. /\ out[n] # <<>> /\ Delivered(n)
          /\ UNCHANGED <<npc, cur, pre, batch, cpc, sent, arrived, endSeen>>
      BY <1>7 DEF NodeReachSource, NodeCancelsTask
    <2>2. UNCHANGED inbox \/ \E m \in Procs, p \in ItemSet : p.id = 0 /\ Push(m, p)
      <3>1. Item("Interruption", "down", 0).id = 0
        BY DEF Item
      <3>2. QED
        BY <1>7, <3>1, ItemsMade, Constants DEF NodeReachSource, NodeCancelsTask, AtSource
    <2>3. QED
      BY <2>1, <2>2, OwnPushInOrder
  <1>8. QED
    BY <1>2, <1>3, <1>4, <1>5, <1>6, <1>7 DEF NodeStep

(* A step of Run keeps the order: the batch goes in before what is queued   *)
(* later.                                                                   *)
LEMMA RunInOrder ==
  ASSUME Typed, Lifecycle, InOrder, RunStep
  PROVE  InOrder'
  <1> USE DEF runVars, nodeVars, signals, clientVars, faults
  <1>1. /\ InboxTyped /\ NodesTyped
        /\ \A m \in Procs : inbox[m] \in InboxSet(ItemSet) /\ Tidy(inbox[m]) /\ HandTidy(m)
    BY DEF Typed, InboxTyped, InOrder
  <1>2. CASE RunStart \/ RunSetup \/ RunSelect \/ CancelAwait \/ RunJoin \/ RunCleanup
    <2>1. UNCHANGED <<inbox, npc, cur, out, pre, batch, cpc, sent, arrived, endSeen>>
      BY <1>2 DEF RunStart, RunSetup, RunSelect, CancelAwait, RunJoin, RunCleanup
    <2>2. \A m \in Procs : Hand(m)' = Hand(m)
      BY <2>1 DEF Hand
    <2>3. \A m \in Procs : HandTidy(m)'
      BY <1>1, <2>1, <2>2 DEF HandTidy
    <2>4. QED
      BY <1>1, <2>1, <2>2, <2>3, StaysInOrder
  <1>3. CASE RunSpawn
    <2>1. /\ UNCHANGED <<inbox, cur, out, pre, batch, cpc, sent, arrived, endSeen>>
          /\ \A m \in Procs : npc[m] = "off" /\ npc'[m] = "pop"
      BY <1>3 DEF RunSpawn, Lifecycle, Phases
    <2>2. \A m \in Procs : Hand(m)' = Hand(m)
      BY <2>1 DEF Hand
    <2>3. \A m \in Procs : HandTidy(m)'
      BY <1>1, <2>1, <2>2 DEF HandTidy
    <2>4. QED
      BY <1>1, <2>1, <2>2, <2>3, StaysInOrder
  <1>4. CASE ForceStop
    <2>1. /\ UNCHANGED <<npc, cur, out, pre, batch, cpc, sent, arrived, endSeen>>
          /\ \A m \in Procs : inbox'[m] = Closed(inbox[m])
      BY <1>4 DEF ForceStop
    <2>2. \A m \in Procs : Tidy(inbox'[m]) /\ InIds(inbox'[m]) = InIds(inbox[m])
      <3> SUFFICES ASSUME NEW m \in Procs
                   PROVE  Tidy(inbox'[m]) /\ InIds(inbox'[m]) = InIds(inbox[m])
        OBVIOUS
      <3>1. /\ inbox'[m].sys = inbox[m].sys /\ inbox'[m].up = inbox[m].up
            /\ inbox'[m].down = inbox[m].down
        BY <1>1, <2>1 DEF Closed, InboxSet
      <3>2. QED
        BY <1>1, <3>1 DEF Tidy, InIds
    <2>3. \A m \in Procs : Hand(m)' = Hand(m)
      BY <2>1 DEF Hand
    <2>4. \A m \in Procs : HandTidy(m)'
      BY <1>1, <2>1, <2>2, <2>3 DEF HandTidy
    <2>5. QED
      BY <2>1, <2>2, <2>3, <2>4, StaysInOrder
  <1>5. CASE CancelPushFrame
    <2>1. step \in Procs
      BY <1>5 DEF CancelPushFrame, Typed, RunTyped, Procs
    <2>2. Item("Cancel", "down", 0) \in ItemSet /\ Item("Cancel", "down", 0).id = 0
      BY ItemsMade DEF Item
    <2>3. /\ UNCHANGED <<npc, cur, out, pre, batch, cpc, sent, arrived, endSeen>>
          /\ Push(step, Item("Cancel", "down", 0))
      BY <1>5 DEF CancelPushFrame
    <2>4. QED
      BY <2>1, <2>2, <2>3, OwnPushInOrder
  <1>6. CASE FlushTake
    <2>1. /\ UNCHANGED <<inbox, npc, cur, out, cpc, sent, arrived, endSeen>>
          /\ batch = <<>> /\ batch' = pre /\ pre' = <<>>
      BY <1>6 DEF FlushTake
    <2>2. IdsOf(<<>>) = {} /\ Ascending(<<>>)
      BY DEF IdsOf, Ascending
    <2>3. Entry' = Entry /\ Came' = Came
      BY <2>1, <2>2 DEF Entry, Came
    <2>4. EntryTidy' /\ EndTidy'
      BY <2>1, <2>2 DEF InOrder, EntryTidy, EndTidy, Came
    <2>5. \A m \in Procs : Hand(m)' = Hand(m)
      BY <2>1 DEF Hand
    <2>6. \A m \in Procs : HandTidy(m)'
      BY <1>1, <2>1, <2>5 DEF HandTidy
    <2>7. \A k \in 0..N + 1 : Place'[k] = Place[k]
      BY <2>1, <2>3, <2>5, PlaceAt
    <2>8. Ordered(Place') /\ \A k \in 0..N + 1 : Place'[k] \subseteq 1..sent'
      BY <2>1, <2>7, OrderShrinks DEF InOrder
    <2>9. QED
      BY <1>1, <2>1, <2>4, <2>6, <2>8 DEF InOrder, Ordered
  <1>7. CASE FlushPush
    <2> DEFINE q == Head(batch)
               X == {q.id} \ {0}
    <2>1. /\ batch # <<>> /\ batch' = Tail(batch)
          /\ UNCHANGED <<npc, cur, out, pre, cpc, sent, arrived, endSeen>>
          /\ UNCHANGED inbox \/ Push(1, q)
          /\ cpc # "push"
      BY <1>7 DEF FlushPush, Lifecycle, Phases, Queueing
    <2>2. batch \in Seq(ItemSet) /\ pre \in Seq(ItemSet) /\ Ascending(batch) /\ Ascending(pre)
      BY DEF Typed, QueueTyped, InOrder, EntryTidy
    <2>3. /\ q \in ItemSet /\ IdsOf(batch) = IdsOf(batch') \cup X
          /\ Ascending(batch') /\ \A y \in IdsOf(batch') : q.id # 0 => q.id < y
      BY <2>1, <2>2, TailIds
    <2> HIDE DEF q
    <2>4. /\ Entry = IdsOf(pre) \cup IdsOf(batch') \cup X
          /\ Entry' = IdsOf(pre) \cup IdsOf(batch')
      BY <2>1, <2>3 DEF Entry
    <2>5. EntryTidy' /\ EndTidy'
      BY <2>1, <2>3 DEF InOrder, EntryTidy, EndTidy, Came
    <2>6. X \subseteq Place[0] /\ Ahead(X, Place'[0])
      <3>1. \A y \in Entry' : y \in 1..sent /\ (q.id # 0 => q.id < y)
        <4>1. \A y \in Entry : y \in 1..sent
          BY PlaceAt DEF InOrder
        <4>2. \A y \in IdsOf(pre) : q.id # 0 => q.id < y
          BY <2>3 DEF InOrder, EntryTidy
        <4>3. QED
          BY <2>3, <2>4, <4>1, <4>2
      <3>2. q.id \in Nat /\ sent \in Nat
        BY <2>3, ItemIds, Constants DEF Typed, QueueTyped
      <3>3. Ahead(X, Entry')
        BY <3>1, <3>2 DEF Ahead, Before
      <3>4. QED
        BY <2>4, <3>3, PlaceAt
    <2>7. \A m \in Procs : Hand(m)' = Hand(m)
      BY <2>1 DEF Hand
    <2>8. Ahead(Place[1], Place[0])
      BY Constants, PlaceAt DEF InOrder, Ordered
    <2>9. /\ \A m \in Procs : Tidy(inbox'[m])
          /\ \A m \in Procs : m # 1 => inbox'[m] = inbox[m]
          /\ InIds(inbox'[1]) \subseteq InIds(inbox[1]) \cup X
      <3>1. CASE UNCHANGED inbox
        BY <1>1, <3>1
      <3>2. CASE Push(1, q)
        <4>1. \A y \in InIds(inbox[1]) : q.id # 0 => ~Before(q.id, y)
          BY <2>6, <2>8, Constants, PlaceAt DEF Ahead
        <4>2. QED
          BY <1>1, <2>3, <3>2, <4>1, Constants, PushIds
      <3>3. QED
        BY <2>1, <3>1, <3>2
    <2>10. /\ Place'[0] \subseteq Place[0] /\ Place'[N + 1] = Place[N + 1]
           /\ Place'[1] \subseteq Place[1] \cup X
           /\ \A m \in Procs : m # 1 => Place'[m] = Place[m]
      <3>1. Came' = Came
        BY <2>1 DEF Came
      <3>2. Place'[0] \subseteq Place[0] /\ Place'[N + 1] = Place[N + 1]
        BY <2>4, <3>1, PlaceAt
      <3>3. \A m \in Procs : m # 1 => Place'[m] = Place[m]
        BY <2>7, <2>9, PlaceAt
      <3>4. Place'[1] \subseteq Place[1] \cup X
        BY <2>7, <2>9, Constants, PlaceAt
      <3>5. QED
        BY <3>2, <3>3, <3>4
    <2>11. Ordered(Place)' /\ \A k \in 0..N + 1 : Place'[k] \subseteq 1..sent'
      <3>1. 0 \in 0..N /\ 0 + 1 = 1
        BY Constants
      <3>2. \A k \in 0..N + 1 : k # 1 => Place'[k] \subseteq Place[k]
        BY <2>10, PlaceAt
      <3>3. QED
        BY <2>1, <2>6, <2>10, <3>1, <3>2, MovesOn
    <2>12. ASSUME NEW m \in Procs
           PROVE  HandTidy(m)'
      <3>1. Ahead(Hand(m), InIds(inbox'[m]))
        <4>1. CASE m # 1
          BY <1>1, <2>9, <4>1 DEF HandTidy
        <4>2. CASE m = 1
          <5>1. Ahead(Hand(1), X)
            BY <2>6, <2>8, Constants, PlaceAt DEF Ahead
          <5>2. QED
            BY <1>1, <2>9, <4>2, <5>1 DEF HandTidy, Ahead
        <4>3. QED
          BY <4>1, <4>2
      <3>2. QED
        BY <1>1, <2>1, <2>7, <3>1 DEF HandTidy
    <2>13. QED
      BY <2>5, <2>9, <2>11, <2>12 DEF InOrder
  <1>8. QED
    BY <1>2, <1>3, <1>4, <1>5, <1>6, <1>7 DEF RunStep

(* So does the client, which pushes directly only when nothing waits in     *)
(* pre or in the batch.                                                     *)
LEMMA ClientInOrder ==
  ASSUME Typed, Lifecycle, InOrder, ClientQueue \/ ClientPush
  PROVE  InOrder'
  <1> USE DEF runVars, nodeVars, signals, clientVars, faults
  <1>1. /\ InboxTyped /\ NodesTyped
        /\ \A m \in Procs : inbox[m] \in InboxSet(ItemSet) /\ Tidy(inbox[m]) /\ HandTidy(m)
    BY DEF Typed, InboxTyped, InOrder
  <1>2. sent \in Nat
    BY Constants DEF Typed, QueueTyped
  <1>3. IdsOf(<<>>) = {} /\ Ascending(<<>>)
    BY DEF IdsOf, Ascending
  <1>4. CASE ClientQueue
    <2> DEFINE q == Item(Script[sent + 1], "down", sent + 1)
    <2>1. /\ UNCHANGED <<inbox, npc, cur, out, batch, arrived, endSeen>>
          /\ sent' = sent + 1 /\ cpc = "idle" /\ sent + 1 \in 1..Len(Script)
          /\ \/ accept /\ cpc' = "push" /\ pre' = pre
             \/ ~accept /\ cpc' = cpc /\ pre' = Append(pre, q)
      BY <1>2, <1>4, Constants DEF ClientQueue
    <2>2. pre \in Seq(ItemSet) /\ q \in ItemSet /\ q.id = sent + 1
      BY <2>1, ItemsMade DEF Typed, QueueTyped, Item
    <2>3. IdsOf(pre) \subseteq 1..sent /\ IdsOf(batch) \subseteq 1..sent
      BY PlaceAt DEF InOrder, Entry
    <2> HIDE DEF q
    <2>4. /\ IdsOf(pre') \subseteq IdsOf(pre) \cup {sent + 1} /\ Ascending(pre')
      <3>1. CASE pre' = pre
        BY <3>1 DEF InOrder, EntryTidy
      <3>2. CASE pre' = Append(pre, q)
        <4>1. \A x \in IdsOf(pre) : x < q.id
          BY <1>2, <2>2, <2>3
        <4>2. QED
          BY <2>2, <3>2, <4>1, AppendIds DEF InOrder, EntryTidy
      <3>3. QED
        BY <2>1, <3>1, <3>2
    <2>5. Entry' \subseteq Entry \cup {sent + 1}
      BY <2>1, <2>4 DEF Entry
    <2>6. EntryTidy'
      <3>1. Ascending(batch')
        BY <2>1 DEF InOrder, EntryTidy
      <3>2. \A a \in IdsOf(batch), b \in IdsOf(pre) \cup {sent + 1} : a < b
        BY <1>2, <2>3 DEF InOrder, EntryTidy
      <3>3. QED
        BY <2>1, <2>4, <3>1, <3>2 DEF EntryTidy
    <2>7. EndTidy' /\ Came' = Came
      BY <2>1 DEF InOrder, EndTidy, Came
    <2>8. \A m \in Procs : Hand(m)' = Hand(m)
      BY <2>1 DEF Hand
    <2>9. \A m \in Procs : HandTidy(m)'
      BY <1>1, <2>1, <2>8 DEF HandTidy
    <2>10. Place'[0] \subseteq Place[0] \cup {sent + 1}
      BY <2>5, PlaceAt
    <2>11. \A k \in 0..N + 1 : k # 0 => Place'[k] = Place[k]
      BY <2>1, <2>7, <2>8, PlaceAt
    <2>12. Ordered(Place')
      <3>1. \A k \in 0..N + 1 : Place[k] \subseteq 1..(sent + 1) - 1
        BY <1>2 DEF InOrder
      <3>2. sent + 1 \in Nat /\ \A k \in 1..N + 1 : k \in 0..N + 1 /\ k # 0
        BY <1>2, Constants
      <3>3. \A k \in 1..N + 1 : Place'[k] \subseteq Place[k]
        BY <2>11, <3>2
      <3>4. QED
        BY <2>10, <3>1, <3>2, <3>3, OrderEnters DEF InOrder
    <2>13. \A k \in 0..N + 1 : Place'[k] \subseteq 1..sent'
      <3>1. 1..sent \subseteq 1..sent' /\ sent + 1 \in 1..sent'
        BY <1>2, <2>1
      <3>2. \A k \in 0..N + 1 : Place'[k] \subseteq Place[k] \cup {sent + 1}
        BY <2>10, <2>11
      <3>3. QED
        BY <3>1, <3>2 DEF InOrder
    <2>14. QED
      BY <1>1, <2>1, <2>6, <2>7, <2>9, <2>12, <2>13 DEF InOrder, Ordered
  <1>5. CASE ClientPush
    <2> DEFINE q == Item(Script[sent], "down", sent)
    <2>1. /\ UNCHANGED <<npc, cur, out, pre, batch, sent, arrived, endSeen>>
          /\ cpc = "push" /\ cpc' = "idle" /\ pre = <<>> /\ batch = <<>>
          /\ UNCHANGED inbox \/ Push(1, q)
      BY <1>5 DEF ClientPush, Lifecycle, Queueing
    <2>2. q \in ItemSet /\ q.id = sent /\ sent # 0
      BY <2>1, ItemsMade, Constants DEF Typed, QueueTyped, Item
    <2> HIDE DEF q
    <2>3. Entry = {sent} /\ Entry' = {}
      BY <1>3, <2>1 DEF Entry
    <2>4. {sent} \subseteq Place[0] /\ Ahead({sent}, Place'[0])
      BY <2>3, PlaceAt DEF Ahead
    <2>5. EntryTidy' /\ EndTidy' /\ Came' = Came
      BY <2>1 DEF InOrder, EntryTidy, EndTidy, Came
    <2>6. \A m \in Procs : Hand(m)' = Hand(m)
      BY <2>1 DEF Hand
    <2>7. Ahead(Place[1], Place[0])
      BY Constants, PlaceAt DEF InOrder, Ordered
    <2>8. /\ \A m \in Procs : Tidy(inbox'[m])
          /\ \A m \in Procs : m # 1 => inbox'[m] = inbox[m]
          /\ InIds(inbox'[1]) \subseteq InIds(inbox[1]) \cup {sent}
      <3>1. CASE UNCHANGED inbox
        BY <1>1, <3>1
      <3>2. CASE Push(1, q)
        <4>1. \A y \in InIds(inbox[1]) : q.id # 0 => ~Before(q.id, y)
          BY <2>2, <2>4, <2>7, Constants, PlaceAt DEF Ahead
        <4>2. QED
          BY <1>1, <2>2, <3>2, <4>1, Constants, PushIds
      <3>3. QED
        BY <2>1, <3>1, <3>2
    <2>9. /\ Place'[0] \subseteq Place[0] /\ Place'[N + 1] = Place[N + 1]
          /\ Place'[1] \subseteq Place[1] \cup {sent}
          /\ \A m \in Procs : m # 1 => Place'[m] = Place[m]
      <3>1. Place'[0] \subseteq Place[0] /\ Place'[N + 1] = Place[N + 1]
        BY <2>3, <2>5, PlaceAt
      <3>2. \A m \in Procs : m # 1 => Place'[m] = Place[m]
        BY <2>6, <2>8, PlaceAt
      <3>3. Place'[1] \subseteq Place[1] \cup {sent}
        BY <2>6, <2>8, Constants, PlaceAt
      <3>4. QED
        BY <3>1, <3>2, <3>3
    <2>10. Ordered(Place)' /\ \A k \in 0..N + 1 : Place'[k] \subseteq 1..sent'
      <3>1. 0 \in 0..N /\ 0 + 1 = 1
        BY Constants
      <3>2. \A k \in 0..N + 1 : k # 1 => Place'[k] \subseteq Place[k]
        BY <2>9, PlaceAt
      <3>3. QED
        BY <2>1, <2>4, <2>9, <3>1, <3>2, MovesOn
    <2>11. ASSUME NEW m \in Procs
           PROVE  HandTidy(m)'
      <3>1. Ahead(Hand(m), InIds(inbox'[m]))
        <4>1. CASE m # 1
          BY <1>1, <2>8, <4>1 DEF HandTidy
        <4>2. CASE m = 1
          <5>1. Ahead(Hand(1), {sent})
            BY <2>4, <2>7, Constants, PlaceAt DEF Ahead
          <5>2. QED
            BY <1>1, <2>8, <4>2, <5>1 DEF HandTidy, Ahead
        <4>3. QED
          BY <4>1, <4>2
      <3>2. QED
        BY <1>1, <2>1, <2>6, <3>1 DEF HandTidy
    <2>12. QED
      BY <2>5, <2>8, <2>10, <2>11 DEF InOrder
  <1>6. QED
    BY <1>4, <1>5

(* The order is inductive.                                                  *)
LEMMA NextInOrder == Typed /\ Lifecycle /\ InOrder /\ [Next]_vars => InOrder'
  <1> SUFFICES ASSUME Typed, Lifecycle, InOrder, [Next]_vars PROVE InOrder'
    OBVIOUS
  <1> USE DEF runVars, nodeVars, signals, clientVars, faults
  <1>1. \A m \in Procs : Tidy(inbox[m]) /\ HandTidy(m)
    BY DEF InOrder
  <1>2. ASSUME NEW n \in Procs, HandleRequest(n)
        PROVE  InOrder'
    <2>1. /\ UNCHANGED <<npc, cur, out, pre, batch, cpc, sent, arrived, endSeen>>
      BY <1>2 DEF HandleRequest
    <2>2. UNCHANGED inbox \/ \E m \in Procs, p \in ItemSet : p.id = 0 /\ Push(m, p)
      <3>1. /\ Item("Interruption", "down", 0).id = 0
            /\ Item("InterruptionTask", "up", 0).id = 0
        BY DEF Item
      <3>2. CASE n = 1
        BY <1>2, <3>1, <3>2, ItemsMade, Constants DEF HandleRequest, AtSource
      <3>3. CASE n # 1
        <4>1. n - 1 \in Procs
          BY <3>3, Constants DEF Procs
        <4>2. QED
          BY <1>2, <3>1, <3>3, <4>1, ItemsMade DEF HandleRequest
      <3>4. QED
        BY <3>2, <3>3
    <2>3. QED
      BY <2>1, <2>2, OwnPushInOrder
  <1>3. CASE Cancel \/ ParentEnds \/ UNCHANGED vars
    <2>1. UNCHANGED <<inbox, npc, cur, out, pre, batch, cpc, sent, arrived, endSeen>>
      BY <1>3 DEF Cancel, ParentEnds, vars
    <2>2. \A m \in Procs : Hand(m)' = Hand(m)
      BY <2>1 DEF Hand
    <2>3. \A m \in Procs : HandTidy(m)'
      BY <1>1, <2>1, <2>2 DEF HandTidy
    <2>4. QED
      BY <1>1, <2>1, <2>2, <2>3, StaysInOrder
  <1>4. QED
    BY <1>2, <1>3, NodeInOrder, RunInOrder, ClientInOrder DEF Next

-----------------------------------------------------------------------------
(* Frames reach the sink once, and data frames in the order the client      *)
(* queued them, whatever the processors do and however the task ends.       *)
THEOREM ArrivesInOrder == Spec => []ArrivalOrder
  <1>1. Typed /\ InOrder => ArrivalOrder
    <2> SUFFICES ASSUME Typed, InOrder, NEW i \in DOMAIN arrived, NEW j \in DOMAIN arrived, i < j
                 PROVE  /\ arrived[i] # arrived[j]
                        /\ IsData(arrived[i]) /\ IsData(arrived[j]) => arrived[i] < arrived[j]
      BY DEF ArrivalOrder
    <2>1. arrived[i] \in Nat /\ arrived[j] \in Nat
      BY Constants, ElementOfSeq, LenProperties DEF Typed, SignalsTyped
    <2>2. ~Before(arrived[j], arrived[i])
      BY DEF InOrder, EndTidy
    <2>3. QED
      BY <2>1, <2>2 DEF Before
  <1>2. QED
    BY <1>1, InitTyped, InitLifecycle, InitInOrder, NextLifecycle, NextInOrder, PTL DEF Spec

(* When the End reaches the sink, no frame the client queued before it is   *)
(* left on the way.                                                         *)
THEOREM EndReachesSinkLast == Spec => []EndIsLast
  <1>1. Typed /\ Lifecycle /\ InOrder => EndIsLast
    <2> SUFFICES ASSUME Typed, Lifecycle, InOrder, endSeen # 0,
                        NEW id \in 1..endSeen - 1, id \in Inside
                 PROVE  FALSE
      BY DEF EndIsLast
    <2>1. /\ endSeen \in Nat /\ id \in Nat /\ id # 0 /\ id < endSeen
          /\ endSeen \in Place[N + 1] /\ IsData(endSeen)
      BY Constants, PlaceAt DEF Typed, SignalsTyped, InOrder, EndTidy
    <2>2. \E k \in 0..N : id \in Place[k]
      <3>1. CASE id \in Entry
        BY <3>1, PlaceAt, Constants
      <3>2. CASE \E n \in Procs : id \in {p.id : p \in ItemsOf(n)}
        <4>1. PICK n \in Procs : id \in {p.id : p \in ItemsOf(n)}
          BY <3>2
        <4>2. id \in Hand(n) \cup InIds(inbox[n])
          BY <2>1, <4>1 DEF ItemsOf, Hand, InIds, IdsOf
        <4>3. n \in 0..N
          BY Constants DEF Procs
        <4>4. QED
          BY <4>2, <4>3, PlaceAt
      <3>3. id \in Entry \/ \E n \in Procs : id \in {p.id : p \in ItemsOf(n)}
        <4>1. \/ id \in UNION {{q.id : q \in ItemsOf(n)} : n \in Procs}
              \/ id \in {pre[i].id : i \in DOMAIN pre} \cup {batch[i].id : i \in DOMAIN batch}
                          \cup (IF cpc = "push" THEN {sent} ELSE {})
          BY DEF Inside
        <4>2. id \in UNION {{q.id : q \in ItemsOf(n)} : n \in Procs}
                => \E n \in Procs : id \in {p.id : p \in ItemsOf(n)}
          BY Zenon
        <4>3. QED
          BY <2>1, <4>1, <4>2 DEF Entry, IdsOf
      <3>4. QED
        BY <3>1, <3>2, <3>3
    <2>3. PICK k \in 0..N : id \in Place[k]
      BY <2>2
    <2>4. Ahead(Place[N + 1], Place[k])
      BY Constants DEF InOrder, Ordered
    <2>5. QED
      BY <2>1, <2>3, <2>4 DEF Ahead, Before
  <1>2. QED
    BY <1>1, InitTyped, InitLifecycle, InitInOrder, NextLifecycle, NextInOrder, PTL DEF Spec

-----------------------------------------------------------------------------
(* What becomes of a frame that is nowhere any more.                        *)
On(x) == \E k \in 0..N + 1 : x \in Place[k]

Lost(id) == id \in 1..sent /\ ~Audio(id) /\ id \notin unforwarded /\ ~On(id)

(* What is lost was lost when the task context was done, and no data frame  *)
(* behind it got to the last processor.                                     *)
LostFirst ==
  \A id \in 1..sent :
    Lost(id) => /\ rootDone
                /\ \A d \in Place[N] \cup Place[N + 1] : IsData(d) => d < id

(* Why the task context is done. *)
Endings ==
  /\ parentDone => ParentMayEnd
  /\ rootDone => parentDone \/ rpc \in {"join", "cleanup", "returned"}

(* A push that is refused loses a frame before it gets to the last processor. *)
Refused(x) == rootDone /\ \E k \in 0..N - 1 : x \in Place[k]

(* A step that loses nothing but what a drain, a processor or a full audio  *)
(* lane drops.                                                              *)
LEMMA StaysOn ==
  ASSUME Entry \subseteq Entry', Came \subseteq Came', NEW U,
         \A m \in Procs : \A x \in Hand(m) \cup InIds(inbox[m]) :
           x \in Hand(m)' \cup InIds(inbox'[m]) \/ Audio(x) \/ x \in U,
         NEW x, On(x)
  PROVE  On(x)' \/ Audio(x) \/ x \in U
  <1>1. PICK k \in 0..N + 1 : x \in Place[k]
    BY DEF On
  <1>2. x \in Place'[k] \/ Audio(x) \/ x \in U
    <2>1. CASE k = 0
      BY <1>1, <2>1, PlaceAt
    <2>2. CASE k = N + 1
      BY <1>1, <2>2, PlaceAt
    <2>3. CASE k \in Procs
      BY <1>1, <2>3, PlaceAt
    <2>4. QED
      BY <2>1, <2>2, <2>3, PlaceAt
  <1>3. QED
    BY <1>2 DEF On

(* The same when nothing but audio is dropped.                              *)
LEMMA AllStayOn ==
  ASSUME Entry \subseteq Entry', Came \subseteq Came',
         \A m \in Procs : \A x \in Hand(m) \cup InIds(inbox[m]) :
           x \in Hand(m)' \cup InIds(inbox'[m]) \/ Audio(x),
         NEW x, On(x)
  PROVE  On(x)' \/ Audio(x)
  <1> DEFINE U == {}
  <1>1. x \notin U
    OBVIOUS
  <1> HIDE DEF U
  <1>2. On(x)' \/ Audio(x) \/ x \in U
    BY StaysOn
  <1>3. QED
    BY <1>1, <1>2

(* A delivery of an item that is not the client's. *)
LEMMA OwnDelivered ==
  ASSUME NodesTyped, NEW n \in Procs, out[n] # <<>>, Delivered(n), UNCHANGED <<npc, cur>>,
         NextDelivery(n).q.id = 0
  PROVE  \A m \in Procs : Hand(m) \subseteq Hand(m)'
  <1>1. \A i \in DOMAIN out[n] : out[n][i].q.id # 0 =>
          \E k \in DOMAIN Tail(out[n]) : Tail(out[n])[k] = out[n][i]
    <2>1. out[n] \in Seq(DeliverySet)
      BY DEF NodesTyped
    <2>2. /\ DOMAIN out[n] = 1..Len(out[n]) /\ Len(out[n]) \in Nat /\ Head(out[n]) = out[n][1]
          /\ DOMAIN Tail(out[n]) = 1..Len(out[n]) - 1
          /\ \A k \in 1..Len(out[n]) - 1 : Tail(out[n])[k] = out[n][k + 1]
      BY <2>1, HeadTailProperties, LenProperties, EmptySeq
    <2>3. ASSUME NEW i \in DOMAIN out[n], out[n][i].q.id # 0
          PROVE  i - 1 \in DOMAIN Tail(out[n]) /\ Tail(out[n])[i - 1] = out[n][i]
      <3>1. i # 1
        BY <2>2, <2>3 DEF NextDelivery
      <3>2. i - 1 \in 1..Len(out[n]) - 1 /\ (i - 1) + 1 = i
        BY <2>2, <3>1
      <3>3. QED
        BY <2>2, <3>2
    <2>4. QED
      BY <2>3
  <1>2. out'[n] = Tail(out[n]) /\ \A m \in Procs : m # n => out'[m] = out[m]
    BY DEF Delivered, NodesTyped
  <1>3. Hand(n) \subseteq Hand(n)'
    <2>1. \A x \in {out[n][i].q.id : i \in DOMAIN out[n]} : x # 0 =>
            x \in {Tail(out[n])[i].q.id : i \in DOMAIN Tail(out[n])}
      BY <1>1
    <2>2. QED
      BY <1>2, <2>1, SMTT(30) DEF Hand
  <1>4. \A m \in Procs : m # n => Hand(m)' = Hand(m)
    BY <1>2 DEF Hand
  <1>5. QED
    BY <1>3, <1>4

(* A push to an inbox takes away nothing but audio from any inbox. *)
LEMMA PushKeeps ==
  ASSUME InboxTyped, \A m \in Procs : Tidy(inbox[m]),
         UNCHANGED inbox \/ \E m \in Procs, q \in ItemSet : q.id = 0 /\ Push(m, q)
  PROVE  \A m \in Procs : \A x \in InIds(inbox[m]) : x \in InIds(inbox'[m]) \/ Audio(x)
  <1>1. ASSUME NEW m \in Procs, NEW q \in ItemSet, q.id = 0, Push(m, q)
        PROVE  \A l \in Procs : \A x \in InIds(inbox[l]) : x \in InIds(inbox'[l]) \/ Audio(x)
    <2>1. /\ \A l \in Procs : l # m => inbox'[l] = inbox[l]
          /\ \A x \in InIds(inbox[m]) \cup ({q.id} \ {0}) : x \in InIds(inbox'[m]) \/ Audio(x)
      BY <1>1, PushIds
    <2>2. QED
      BY <2>1
  <1>2. QED
    BY <1>1

(* What a node may lose: what Process or a drain drops, and what is         *)
(* refused.                                                                 *)
LEMMA NodeKeeps ==
  ASSUME Typed, Lifecycle, InOrder, NEW n \in Procs, NodeStep(n), NEW x, On(x)
  PROVE  On(x)' \/ Audio(x) \/ x \in unforwarded' \/ Refused(x)
  <1> USE DEF runVars, nodeVars, signals, clientVars, faults
  <1>1. /\ InboxTyped /\ NodesTyped
        /\ \A m \in Procs : inbox[m] \in InboxSet(ItemSet) /\ Tidy(inbox[m]) /\ HandTidy(m)
    BY DEF Typed, InboxTyped, InOrder
  <1>2. CASE NodePop(n)
    <2>1. /\ npc[n] = "pop" /\ ~IsEmpty(inbox[n]) /\ out' = out
          /\ npc' = [npc EXCEPT ![n] = "process"] /\ cur' = [cur EXCEPT ![n] = Front(inbox[n])]
          /\ inbox' = [inbox EXCEPT ![n] = PopFront(@)]
          /\ UNCHANGED <<pre, batch, cpc, sent, arrived>>
      BY <1>2 DEF NodePop
    <2>2. /\ \A m \in Procs : m # n => /\ npc'[m] = npc[m] /\ cur'[m] = cur[m]
                                       /\ inbox'[m] = inbox[m]
          /\ npc'[n] = "process" /\ cur'[n] = Front(inbox[n])
          /\ inbox'[n] = PopFront(inbox[n])
      BY <1>1, <2>1 DEF InboxTyped, NodesTyped
    <2>3. Hand(n) \subseteq Hand(n)' /\ {Front(inbox[n]).id} \ {0} \subseteq Hand(n)'
      BY <2>1, <2>2 DEF Hand
    <2>4. InIds(inbox[n]) = InIds(inbox'[n]) \cup ({Front(inbox[n]).id} \ {0})
      BY <1>1, <2>1, <2>2, PopFrontIds
    <2>5. \A m \in Procs : m # n => Hand(m)' = Hand(m) /\ inbox'[m] = inbox[m]
      BY <2>1, <2>2 DEF Hand
    <2>6. Entry' = Entry /\ Came' = Came
      BY <2>1 DEF Entry, Came
    <2>7. QED
      BY <2>3, <2>4, <2>5, <2>6, StaysOn
  <1>3. CASE NodeStop(n) \/ NodeUnhang(n) \/ NodeDone(n)
    <2>1. /\ UNCHANGED <<inbox, out, pre, batch, cpc, sent, arrived>>
          /\ \A m \in Procs : m # n => npc'[m] = npc[m] /\ cur'[m] = cur[m]
          /\ npc'[n] # "process" /\ npc[n] # "process"
      BY <1>1, <1>3 DEF NodeStop, NodeUnhang, NodeDone, NodesTyped
    <2>2. \A m \in Procs : Hand(m)' = Hand(m)
      BY <2>1 DEF Hand
    <2>3. Entry' = Entry /\ Came' = Came
      BY <2>1 DEF Entry, Came
    <2>4. QED
      BY <2>1, <2>2, <2>3, StaysOn
  <1>4. CASE NodeProcess(n)
    <2>1. /\ npc[n] = "process" /\ UNCHANGED <<cur, pre, batch, cpc, sent, arrived>>
          /\ \/ /\ cur[n].kind = "Interruption"
                /\ inbox' = [inbox EXCEPT ![n] = DrainInterruptible(@)]
             \/ UNCHANGED inbox
          /\ DrainedIds(n) \subseteq unforwarded'
          /\ (\E i \in DOMAIN out'[n] : out'[n][i].q.id = cur[n].id) \/ cur[n].id \in unforwarded'
      BY <1>4 DEF NodeProcess
    <2>2. \A m \in Procs : m # n => /\ npc'[m] = npc[m] /\ out'[m] = out[m]
                                    /\ inbox'[m] = inbox[m]
      BY <1>1, <1>4 DEF InboxTyped, NodesTyped, NodeProcess
    <2>3. out[n] = <<>>
      BY <1>1, <2>1 DEF HandTidy
    <2>4. Hand(n) \subseteq Hand(n)' \cup unforwarded'
      BY <2>1, <2>3 DEF Hand
    <2>5. \A y \in InIds(inbox[n]) : y \in InIds(inbox'[n]) \/ y \in unforwarded'
      <3>1. CASE UNCHANGED inbox
        BY <3>1
      <3>2. CASE /\ cur[n].kind = "Interruption"
                 /\ inbox' = [inbox EXCEPT ![n] = DrainInterruptible(@)]
        <4>1. inbox'[n] = DrainInterruptible(inbox[n])
          BY <1>1, <3>2 DEF InboxTyped
        <4>2. \A y \in InIds(inbox[n]) : y \in InIds(inbox'[n]) \/ y \in DrainedIds(n)
          BY <1>1, <3>2, <4>1, DrainIds DEF DrainedIds
        <4>3. QED
          BY <2>1, <4>2
      <3>3. QED
        BY <2>1, <3>1, <3>2
    <2>6. \A m \in Procs : m # n => Hand(m)' = Hand(m) /\ inbox'[m] = inbox[m]
      BY <2>1, <2>2 DEF Hand
    <2>7. Entry' = Entry /\ Came' = Came
      BY <2>1 DEF Entry, Came
    <2>8. QED
      BY <2>4, <2>5, <2>6, <2>7, StaysOn
  <1>5. CASE NodeDeliver(n)
    <2> DEFINE q == NextDelivery(n).q
    <2>1. /\ out[n] # <<>> /\ Delivered(n) /\ NextDelivery(n).to \in {"down", "up"}
          /\ UNCHANGED <<npc, cur, pre, batch, cpc, sent, arrived>>
      BY <1>5 DEF NodeDeliver
    <2>2. NextDelivery(n) \in DeliverySet /\ q \in ItemSet /\ q.dir = NextDelivery(n).to
      BY <1>1, <2>1, DeliveryTyped DEF DeliverySet
    <2>3. Entry' = Entry /\ Came' = Came
      BY <2>1 DEF Entry, Came
    <2>4. CASE q.id = 0
      <3>1. UNCHANGED inbox \/ \E m \in Procs, p \in ItemSet : p.id = 0 /\ Push(m, p)
        BY <1>5, <2>2, <2>4 DEF NodeDeliver
      <3>2. QED
        BY <1>1, <2>1, <2>3, <2>4, <3>1, OwnDelivered, PushKeeps, StaysOn
    <2>5. CASE q.id # 0
      <3>1. NextDelivery(n).to = "down"
        BY <2>2, <2>5 DEF ItemSet
      <3>2. /\ n + 1 \in Procs /\ n + 1 # n /\ n \in 0..N - 1
            /\ Push(n + 1, q) \/ (UNCHANGED inbox /\ IsRefused(n + 1, rootDone))
        BY <1>5, <3>1, Constants DEF NodeDeliver, Procs
      <3> HIDE DEF q
      <3> DEFINE k == n + 1
      <3>3. /\ Hand(n)' = {} /\ Hand(n) = {q.id}
            /\ \A l \in Procs : l # n => Hand(l)' = Hand(l)
        BY <1>1, <2>1, <2>5, HandEmptied DEF q
      <3> HIDE DEF k
      <3>4. k \in Procs /\ k # n /\ n < k /\ n \in 0..N + 1 /\ k \in 0..N + 1
        BY <3>2, Constants DEF k, Procs
      <3>5. CASE Push(k, q)
        <4>1. Ahead(Place[k], Place[n])
          BY <3>4 DEF InOrder, Ordered
        <4>2. \A y \in InIds(inbox[k]) : q.id # 0 => ~Before(q.id, y)
          BY <3>3, <3>4, <4>1, PlaceAt DEF Ahead
        <4>3. /\ \A l \in Procs : l # k => inbox'[l] = inbox[l]
              /\ \A y \in InIds(inbox[k]) \cup ({q.id} \ {0}) :
                   y \in InIds(inbox'[k]) \/ Audio(y)
          BY <1>1, <2>2, <3>4, <3>5, <4>2, PushIds
        <4>4. CASE x = q.id
          <5>1. x \in Place'[k] \/ Audio(x)
            BY <2>5, <3>4, <4>3, <4>4, PlaceAt
          <5>2. QED
            BY <3>4, <5>1 DEF On
        <4>5. CASE x # q.id
          <5>1. \A m \in Procs : \A y \in Hand(m) \cup InIds(inbox[m]) :
                  y \in Hand(m)' \cup InIds(inbox'[m]) \/ Audio(y) \/ y \in {q.id}
            BY <3>3, <3>4, <4>3
          <5>2. On(x)' \/ Audio(x) \/ x \in {q.id}
            BY <2>3, <5>1, StaysOn
          <5>3. QED
            BY <4>5, <5>2
        <4>6. QED
          BY <4>4, <4>5
      <3>6. CASE UNCHANGED inbox /\ IsRefused(k, rootDone)
        <4>1. rootDone
          BY <3>4, <3>6 DEF IsRefused, Lifecycle, Phases
        <4>2. \A m \in Procs : \A y \in Hand(m) \cup InIds(inbox[m]) :
                y \in Hand(m)' \cup InIds(inbox'[m]) \/ Audio(y) \/ y \in {q.id}
          BY <3>3, <3>4, <3>6
        <4>3. On(x)' \/ Audio(x) \/ x \in {q.id}
          BY <2>3, <4>2, StaysOn
        <4>4. q.id \in Place[n]
          BY <3>3, PlaceAt
        <4>5. QED
          BY <3>2, <4>1, <4>3, <4>4 DEF Refused
      <3>7. QED
        BY <3>2, <3>5, <3>6 DEF k
    <2>6. QED
      BY <2>4, <2>5
  <1>6. CASE NodeReachSink(n)
    <2> DEFINE q == NextDelivery(n).q
    <2>1. /\ out[n] # <<>> /\ Delivered(n) /\ NextDelivery(n).to = "down"
          /\ UNCHANGED <<inbox, npc, cur, pre, batch, cpc, sent>>
          /\ arrived' = IF q.id = 0 THEN arrived ELSE Append(arrived, q.id)
      BY <1>6 DEF NodeReachSink
    <2>2. q \in ItemSet /\ Entry' = Entry
      BY <1>1, <2>1, DeliveryTyped DEF Entry
    <2>3. CASE q.id = 0
      <3>1. Came' = Came
        BY <2>1, <2>3 DEF Came
      <3>2. QED
        BY <1>1, <2>1, <2>2, <2>3, <3>1, OwnDelivered, StaysOn
    <2>4. CASE q.id # 0
      <3> HIDE DEF q
      <3>1. /\ Hand(n)' = {} /\ Hand(n) = {q.id}
            /\ \A l \in Procs : l # n => Hand(l)' = Hand(l)
        BY <1>1, <2>1, <2>4, HandEmptied DEF q
      <3>2. Came \subseteq Came' /\ q.id \in Came'
        <4>1. arrived' = Append(arrived, q.id) /\ arrived \in Seq(1..Len(Script))
          BY <2>1, <2>4 DEF Typed, SignalsTyped
        <4>2. /\ DOMAIN arrived = 1..Len(arrived) /\ DOMAIN arrived' = 1..Len(arrived) + 1
              /\ Len(arrived) \in Nat /\ arrived'[Len(arrived) + 1] = q.id
              /\ \A i \in DOMAIN arrived : arrived'[i] = arrived[i]
          BY <2>2, <2>4, <4>1, ItemIds, AppendProperties, LenProperties
        <4>3. QED
          BY <4>2 DEF Came
      <3>3. \A m \in Procs : \A y \in Hand(m) \cup InIds(inbox[m]) :
              y \in Hand(m)' \cup InIds(inbox'[m]) \/ Audio(y) \/ y \in {q.id}
        BY <2>1, <3>1
      <3>4. On(x)' \/ Audio(x) \/ x \in {q.id}
        BY <2>2, <3>2, <3>3, StaysOn
      <3>5. q.id \in Place'[N + 1]
        BY <3>2, PlaceAt
      <3>6. QED
        BY <3>4, <3>5, PlaceAt DEF On
    <2>5. QED
      BY <2>3, <2>4
  <1>7. CASE NodeReachSource(n) \/ NodeCancelsTask(n)
    <2>1. /\ out[n] # <<>> /\ Delivered(n) /\ NextDelivery(n).to \in {"up", "task"}
          /\ UNCHANGED <<npc, cur, pre, batch, cpc, sent, arrived>>
      BY <1>7 DEF NodeReachSource, NodeCancelsTask
    <2>2. UNCHANGED inbox \/ \E m \in Procs, p \in ItemSet : p.id = 0 /\ Push(m, p)
      <3>1. Item("Interruption", "down", 0).id = 0
        BY DEF Item
      <3>2. QED
        BY <1>7, <3>1, ItemsMade, Constants DEF NodeReachSource, NodeCancelsTask, AtSource
    <2>3. NextDelivery(n).q.id = 0
      <3>1. NextDelivery(n) \in DeliverySet
        BY <1>1, <2>1, DeliveryTyped
      <3>2. QED
        BY <2>1, <3>1 DEF DeliverySet, ItemSet
    <2>4. Entry' = Entry /\ Came' = Came
      BY <2>1 DEF Entry, Came
    <2>5. QED
      BY <1>1, <2>1, <2>2, <2>3, <2>4, OwnDelivered, PushKeeps, StaysOn
  <1>8. QED
    BY <1>2, <1>3, <1>4, <1>5, <1>6, <1>7 DEF NodeStep

(* What the flush may lose: what is refused.                                *)
LEMMA RunKeeps ==
  ASSUME Typed, Lifecycle, InOrder, RunStep, NEW x, On(x)
  PROVE  On(x)' \/ Audio(x) \/ Refused(x)
  <1> USE DEF runVars, nodeVars, signals, clientVars, faults
  <1>1. /\ InboxTyped /\ NodesTyped
        /\ \A m \in Procs : inbox[m] \in InboxSet(ItemSet) /\ Tidy(inbox[m]) /\ HandTidy(m)
    BY DEF Typed, InboxTyped, InOrder
  <1>2. CASE RunStart \/ RunSetup \/ RunSelect \/ CancelAwait \/ RunJoin \/ RunCleanup
    <2>1. UNCHANGED <<inbox, npc, cur, out, pre, batch, cpc, sent, arrived>>
      BY <1>2 DEF RunStart, RunSetup, RunSelect, CancelAwait, RunJoin, RunCleanup
    <2>2. (\A m \in Procs : Hand(m)' = Hand(m)) /\ Entry' = Entry /\ Came' = Came
      BY <2>1 DEF Hand, Entry, Came
    <2>3. QED
      BY <2>1, <2>2, AllStayOn
  <1>3. CASE RunSpawn
    <2>1. /\ UNCHANGED <<inbox, cur, out, pre, batch, cpc, sent, arrived>>
          /\ \A m \in Procs : npc[m] = "off" /\ npc'[m] = "pop"
      BY <1>3 DEF RunSpawn, Lifecycle, Phases
    <2>2. (\A m \in Procs : Hand(m)' = Hand(m)) /\ Entry' = Entry /\ Came' = Came
      BY <2>1 DEF Hand, Entry, Came
    <2>3. QED
      BY <2>1, <2>2, AllStayOn
  <1>4. CASE ForceStop
    <2>1. /\ UNCHANGED <<npc, cur, out, pre, batch, cpc, sent, arrived>>
          /\ \A m \in Procs : inbox'[m] = Closed(inbox[m])
      BY <1>4 DEF ForceStop
    <2>2. \A m \in Procs : InIds(inbox'[m]) = InIds(inbox[m])
      BY <1>1, <2>1 DEF Closed, InboxSet, InIds
    <2>3. (\A m \in Procs : Hand(m)' = Hand(m)) /\ Entry' = Entry /\ Came' = Came
      BY <2>1 DEF Hand, Entry, Came
    <2>4. QED
      BY <2>2, <2>3, AllStayOn
  <1>5. CASE CancelPushFrame
    <2>1. step \in Procs
      BY <1>5 DEF CancelPushFrame, Typed, RunTyped, Procs
    <2>2. Item("Cancel", "down", 0) \in ItemSet /\ Item("Cancel", "down", 0).id = 0
      BY ItemsMade DEF Item
    <2>3. /\ UNCHANGED <<npc, cur, out, pre, batch, cpc, sent, arrived>>
          /\ Push(step, Item("Cancel", "down", 0))
      BY <1>5 DEF CancelPushFrame
    <2>4. (\A m \in Procs : Hand(m)' = Hand(m)) /\ Entry' = Entry /\ Came' = Came
      BY <2>3 DEF Hand, Entry, Came
    <2>5. \A m \in Procs : \A y \in InIds(inbox[m]) : y \in InIds(inbox'[m]) \/ Audio(y)
      BY <1>1, <2>1, <2>2, <2>3, PushKeeps
    <2>6. QED
      BY <2>4, <2>5, AllStayOn
  <1>6. CASE FlushTake
    <2>1. /\ UNCHANGED <<inbox, npc, cur, out, cpc, sent, arrived>>
          /\ batch = <<>> /\ batch' = pre /\ pre' = <<>>
      BY <1>6 DEF FlushTake
    <2>2. IdsOf(<<>>) = {}
      BY DEF IdsOf
    <2>3. (\A m \in Procs : Hand(m)' = Hand(m)) /\ Entry' = Entry /\ Came' = Came
      BY <2>1, <2>2 DEF Hand, Entry, Came
    <2>4. QED
      BY <2>1, <2>3, AllStayOn
  <1>7. CASE FlushPush
    <2> DEFINE q == Head(batch)
               X == {q.id} \ {0}
    <2>1. /\ batch # <<>> /\ batch' = Tail(batch)
          /\ UNCHANGED <<npc, cur, out, pre, cpc, sent, arrived>>
          /\ Push(1, q) \/ (UNCHANGED inbox /\ IsRefused(1, rootDone))
      BY <1>7 DEF FlushPush
    <2>2. q \in ItemSet /\ IdsOf(batch) = IdsOf(batch') \cup X
      BY <2>1, TailIds DEF Typed, QueueTyped
    <2> HIDE DEF q
    <2>3. Entry = Entry' \cup X
      BY <2>1, <2>2 DEF Entry
    <2>4. (\A m \in Procs : Hand(m)' = Hand(m)) /\ Came' = Came
      BY <2>1 DEF Hand, Came
    <2>5. 1 \in Procs /\ 1 \in 0..N + 1 /\ 0 \in 0..N + 1 /\ 0 \in 0..N - 1
      BY Constants
    <2>6. CASE UNCHANGED inbox /\ IsRefused(1, rootDone)
      <3>1. rootDone
        BY <2>5, <2>6 DEF IsRefused, Lifecycle, Phases
      <3>2. CASE x \in X
        BY <2>3, <2>5, <3>1, <3>2, PlaceAt DEF Refused
      <3>3. CASE x \notin X
        <4>1. PICK k \in 0..N + 1 : x \in Place[k]
          BY DEF On
        <4>2. x \in Place'[k]
          BY <2>3, <2>4, <2>6, <3>3, <4>1, PlaceAt
        <4>3. QED
          BY <4>2 DEF On
      <3>4. QED
        BY <3>2, <3>3
    <2>7. CASE Push(1, q)
      <3>1. Ahead(Place[1], Place[0])
        BY <2>5 DEF InOrder, Ordered
      <3>2. \A y \in InIds(inbox[1]) : q.id # 0 => ~Before(q.id, y)
        BY <2>2, <2>3, <2>5, <3>1, ItemIds, PlaceAt DEF Ahead
      <3>3. /\ \A l \in Procs : l # 1 => inbox'[l] = inbox[l]
            /\ \A y \in InIds(inbox[1]) \cup X : y \in InIds(inbox'[1]) \/ Audio(y)
        BY <1>1, <2>2, <2>5, <2>7, <3>2, PushIds
      <3>4. CASE x \in X
        BY <2>5, <3>3, <3>4, PlaceAt DEF On
      <3>5. CASE x \notin X
        <4>1. PICK k \in 0..N + 1 : x \in Place[k]
          BY DEF On
        <4>2. x \in Place'[k] \/ Audio(x)
          BY <2>3, <2>4, <3>3, <3>5, <4>1, PlaceAt
        <4>3. QED
          BY <4>2 DEF On
      <3>6. QED
        BY <3>4, <3>5
    <2>8. QED
      BY <2>1, <2>6, <2>7
  <1>8. QED
    BY <1>2, <1>3, <1>4, <1>5, <1>6, <1>7 DEF RunStep

(* What the client may lose: what is refused.                               *)
LEMMA ClientKeeps ==
  ASSUME Typed, Lifecycle, InOrder, ClientQueue \/ ClientPush, NEW x, On(x)
  PROVE  On(x)' \/ Audio(x) \/ Refused(x)
  <1> USE DEF runVars, nodeVars, signals, clientVars, faults
  <1>1. /\ InboxTyped /\ NodesTyped
        /\ \A m \in Procs : inbox[m] \in InboxSet(ItemSet) /\ Tidy(inbox[m])
        /\ sent \in Nat
    BY Constants DEF Typed, InboxTyped, InOrder, QueueTyped
  <1>2. CASE ClientQueue
    <2> DEFINE q == Item(Script[sent + 1], "down", sent + 1)
    <2>1. /\ UNCHANGED <<inbox, npc, cur, out, batch, arrived>>
          /\ cpc = "idle" /\ sent + 1 \in 1..Len(Script)
          /\ pre' = pre \/ pre' = Append(pre, q)
      BY <1>1, <1>2, Constants DEF ClientQueue
    <2>2. pre \in Seq(ItemSet) /\ q \in ItemSet
      BY <2>1, ItemsMade DEF Typed, QueueTyped
    <2> HIDE DEF q
    <2>3. IdsOf(pre) \subseteq IdsOf(pre')
      BY <2>1, <2>2, AppendIds
    <2>4. (\A m \in Procs : Hand(m)' = Hand(m)) /\ Came' = Came
      BY <2>1 DEF Hand, Came
    <2>5. Entry \subseteq Entry'
      BY <2>1, <2>3 DEF Entry
    <2>6. QED
      BY <2>1, <2>4, <2>5, AllStayOn
  <1>3. CASE ClientPush
    <2> DEFINE q == Item(Script[sent], "down", sent)
    <2>1. /\ UNCHANGED <<npc, cur, out, pre, batch, sent, arrived>>
          /\ cpc = "push" /\ cpc' = "idle"
          /\ Push(1, q) \/ (UNCHANGED inbox /\ inbox[1].closed)
      BY <1>3 DEF ClientPush, IsRefused
    <2>2. q \in ItemSet /\ q.id = sent /\ sent # 0
      BY <2>1, ItemsMade, Constants DEF Typed, QueueTyped, Item
    <2> HIDE DEF q
    <2>3. Entry \subseteq Entry' \cup {sent} /\ sent \in Entry
      BY <2>1 DEF Entry
    <2>4. (\A m \in Procs : Hand(m)' = Hand(m)) /\ Came' = Came
      BY <2>1 DEF Hand, Came
    <2>5. 1 \in Procs /\ 1 \in 0..N + 1 /\ 0 \in 0..N + 1 /\ 0 \in 0..N - 1
      BY Constants
    <2>6. CASE UNCHANGED inbox /\ inbox[1].closed
      <3>1. rootDone
        BY <2>5, <2>6 DEF Lifecycle, Phases
      <3>2. CASE x = sent
        BY <2>3, <2>5, <3>1, <3>2, PlaceAt DEF Refused
      <3>3. CASE x # sent
        <4>1. PICK k \in 0..N + 1 : x \in Place[k]
          BY DEF On
        <4>2. x \in Place'[k]
          BY <2>3, <2>4, <2>6, <3>3, <4>1, PlaceAt
        <4>3. QED
          BY <4>2 DEF On
      <3>4. QED
        BY <3>2, <3>3
    <2>7. CASE Push(1, q)
      <3>1. Ahead(Place[1], Place[0])
        BY <2>5 DEF InOrder, Ordered
      <3>2. \A y \in InIds(inbox[1]) : q.id # 0 => ~Before(q.id, y)
        BY <2>2, <2>3, <2>5, <3>1, PlaceAt DEF Ahead
      <3>3. /\ \A l \in Procs : l # 1 => inbox'[l] = inbox[l]
            /\ \A y \in InIds(inbox[1]) \cup ({q.id} \ {0}) : y \in InIds(inbox'[1]) \/ Audio(y)
        BY <1>1, <2>2, <2>5, <2>7, <3>2, PushIds
      <3>4. CASE x = sent
        BY <2>2, <2>5, <3>3, <3>4, PlaceAt DEF On
      <3>5. CASE x # sent
        <4>1. PICK k \in 0..N + 1 : x \in Place[k]
          BY DEF On
        <4>2. x \in Place'[k] \/ Audio(x)
          BY <2>3, <2>4, <3>3, <3>5, <4>1, PlaceAt
        <4>3. QED
          BY <4>2 DEF On
      <3>6. QED
        BY <3>4, <3>5
    <2>8. QED
      BY <2>1, <2>6, <2>7
  <1>4. QED
    BY <1>2, <1>3

(* Whatever the step, a frame is lost only by a refused push. *)
LEMMA NextKeeps ==
  ASSUME Typed, Lifecycle, InOrder, [Next]_vars, NEW x, On(x)
  PROVE  On(x)' \/ Audio(x) \/ x \in unforwarded' \/ Refused(x)
  <1> USE DEF runVars, nodeVars, signals, clientVars, faults
  <1>1. InboxTyped /\ \A m \in Procs : Tidy(inbox[m])
    BY DEF Typed, InOrder
  <1>2. ASSUME NEW n \in Procs, HandleRequest(n)
        PROVE  On(x)' \/ Audio(x)
    <2>1. UNCHANGED <<npc, cur, out, pre, batch, cpc, sent, arrived>>
      BY <1>2 DEF HandleRequest
    <2>2. UNCHANGED inbox \/ \E m \in Procs, p \in ItemSet : p.id = 0 /\ Push(m, p)
      <3>1. /\ Item("Interruption", "down", 0).id = 0
            /\ Item("InterruptionTask", "up", 0).id = 0
        BY DEF Item
      <3>2. CASE n = 1
        BY <1>2, <3>1, <3>2, ItemsMade, Constants DEF HandleRequest, AtSource
      <3>3. CASE n # 1
        <4>1. n - 1 \in Procs
          BY <3>3, Constants DEF Procs
        <4>2. QED
          BY <1>2, <3>1, <3>3, <4>1, ItemsMade DEF HandleRequest
      <3>4. QED
        BY <3>2, <3>3
    <2>3. \A m \in Procs : \A y \in InIds(inbox[m]) : y \in InIds(inbox'[m]) \/ Audio(y)
      BY <1>1, <2>2, PushKeeps
    <2>4. (\A m \in Procs : Hand(m)' = Hand(m)) /\ Entry' = Entry /\ Came' = Came
      BY <2>1 DEF Hand, Entry, Came
    <2>5. QED
      BY <2>3, <2>4, AllStayOn
  <1>3. CASE Cancel \/ ParentEnds \/ UNCHANGED vars
    <2>1. UNCHANGED <<inbox, npc, cur, out, pre, batch, cpc, sent, arrived>>
      BY <1>3 DEF Cancel, ParentEnds, vars
    <2>2. (\A m \in Procs : Hand(m)' = Hand(m)) /\ Entry' = Entry /\ Came' = Came
      BY <2>1 DEF Hand, Entry, Came
    <2>3. QED
      BY <2>1, <2>2, AllStayOn
  <1>4. QED
    BY <1>2, <1>3, NodeKeeps, RunKeeps, ClientKeeps DEF Next

-----------------------------------------------------------------------------
(* A context that is done stays done, and forceStop or the parent did it.   *)
LEMMA NextEndings ==
  Typed /\ Lifecycle /\ Endings /\ [Next]_vars => Endings' /\ (rootDone => rootDone')
  <1> SUFFICES ASSUME Typed, Lifecycle, Endings, [Next]_vars
               PROVE  Endings' /\ (rootDone => rootDone')
    OBVIOUS
  <1> USE DEF runVars, nodeVars, signals, clientVars, faults, Endings
  <1>1. CASE ~RunStep
    <2>1. UNCHANGED rpc
      BY <1>1, OnlyRunRuns
    <2>2. CASE ParentEnds
      BY <2>1, <2>2 DEF ParentEnds, Lifecycle, Phases
    <2>3. CASE UNCHANGED <<rootDone, parentDone>>
      BY <2>1, <2>3
    <2>4. QED
      BY <1>1, <2>2, <2>3, ZenonT(40)
      DEF Next, NodeStep, NodePop, NodeStop, NodeProcess, NodeUnhang, NodeDeliver,
          NodeReachSink, NodeReachSource, NodeCancelsTask, NodeDone, HandleRequest,
          ClientQueue, ClientPush, Cancel, vars
  <1>2. CASE RunStart
    BY <1>2 DEF RunStart, RunGoto, Lifecycle, Phases
  <1>3. CASE ForceStop
    BY <1>3 DEF ForceStop, RunGoto
  <1>4. CASE RunCleanup
    BY <1>4 DEF RunCleanup, RunGoto
  <1>5. CASE RunJoin
    BY <1>5 DEF RunJoin, RunGoto
  <1>6. CASE \/ RunSetup \/ RunSpawn \/ FlushTake \/ FlushPush \/ RunSelect
             \/ CancelPushFrame \/ CancelAwait
    BY <1>6 DEF RunSetup, RunSpawn, FlushTake, FlushPush, RunSelect, CancelPushFrame,
       CancelAwait, RunGoto
  <1>7. QED
    BY <1>1, <1>2, <1>3, <1>4, <1>5, <1>6 DEF RunStep

(* Deliveries only take things out of a hand. *)
LEMMA DeliveredShrinks ==
  ASSUME NodesTyped, NEW n \in Procs, out[n] # <<>>, Delivered(n), UNCHANGED <<npc, cur>>
  PROVE  \A m \in Procs : Hand(m)' \subseteq Hand(m)
  <1>1. out'[n] = Tail(out[n]) /\ \A m \in Procs : m # n => out'[m] = out[m]
    BY DEF Delivered, NodesTyped
  <1>2. \A i \in DOMAIN Tail(out[n]) : \E k \in DOMAIN out[n] : Tail(out[n])[i] = out[n][k]
    <2>1. out[n] \in Seq(DeliverySet)
      BY DEF NodesTyped
    <2>2. QED
      BY <2>1, HeadTailProperties, LenProperties, EmptySeq
  <1>3. {Tail(out[n])[i].q.id : i \in DOMAIN Tail(out[n])}
          \subseteq {out[n][i].q.id : i \in DOMAIN out[n]}
    BY <1>2
  <1>4. Hand(n)' \subseteq Hand(n)
    BY <1>1, <1>3 DEF Hand
  <1>5. \A m \in Procs : m # n => Hand(m)' = Hand(m)
    BY <1>1 DEF Hand
  <1>6. QED
    BY <1>4, <1>5

(* Once the task context is done no frame gets to the last processor: its   *)
(* predecessor's pushes and those of flushPrequeue are refused.  A task     *)
(* with a single processor is another matter, since its client pushes to    *)
(* that one under a context of its own until the inbox is closed.           *)
LEMMA LastShrinks ==
  ASSUME Typed, Lifecycle, Endings, InOrder, N > 1 \/ ~ParentMayEnd, [Next]_vars, rootDone
  PROVE  Place'[N] \cup Place'[N + 1] \subseteq Place[N] \cup Place[N + 1]
  <1> USE DEF runVars, nodeVars, signals, clientVars, faults
  <1>1. /\ InboxTyped /\ NodesTyped /\ N \in Procs
        /\ \A m \in Procs : inbox[m] \in InboxSet(ItemSet) /\ Tidy(inbox[m]) /\ HandTidy(m)
    BY Constants DEF Typed, InboxTyped, InOrder
  <1> DEFINE Here == Hand(N) \cup InIds(inbox[N])
  <1>2. SUFFICES /\ Hand(N)' \subseteq Here /\ InIds(inbox'[N]) \subseteq Here
                 /\ Came' \subseteq Came \cup Here
    <2>1. Place[N] = Here /\ Place'[N] = Hand(N)' \cup InIds(inbox'[N])
      BY <1>1, PlaceAt
    <2> HIDE DEF Here
    <2>2. QED
      BY <1>2, <2>1, PlaceAt
  <1>3. ASSUME UNCHANGED inbox \/ \E m \in Procs, p \in ItemSet : p.id = 0 /\ Push(m, p)
        PROVE  InIds(inbox'[N]) \subseteq Here
    <2>1. ASSUME NEW m \in Procs, NEW p \in ItemSet, p.id = 0, Push(m, p)
          PROVE  InIds(inbox'[N]) \subseteq InIds(inbox[N])
      <3>1. /\ \A l \in Procs : l # m => inbox'[l] = inbox[l]
            /\ InIds(inbox'[m]) \subseteq InIds(inbox[m]) \cup ({p.id} \ {0})
        BY <1>1, <2>1, PushIds
      <3>2. {p.id} \ {0} = {}
        BY <2>1
      <3>3. QED
        BY <1>1, <3>1, <3>2
    <2>2. QED
      BY <1>3, <2>1
  <1>4. ASSUME NEW n \in Procs, NodePop(n)
        PROVE  /\ Hand(N)' \subseteq Here /\ InIds(inbox'[N]) \subseteq Here /\ Came' = Came
    <2>1. /\ npc[n] = "pop" /\ ~IsEmpty(inbox[n]) /\ out' = out /\ arrived' = arrived
          /\ npc' = [npc EXCEPT ![n] = "process"] /\ cur' = [cur EXCEPT ![n] = Front(inbox[n])]
          /\ inbox' = [inbox EXCEPT ![n] = PopFront(@)]
      BY <1>4 DEF NodePop
    <2>2. /\ \A m \in Procs : m # n => /\ npc'[m] = npc[m] /\ cur'[m] = cur[m]
                                       /\ inbox'[m] = inbox[m]
          /\ npc'[n] = "process" /\ cur'[n] = Front(inbox[n])
          /\ inbox'[n] = PopFront(inbox[n]) /\ out[n] = <<>>
      BY <1>1, <2>1 DEF InboxTyped, NodesTyped, HandTidy
    <2>3. Hand(n)' = {Front(inbox[n]).id} \ {0}
      BY <2>1, <2>2 DEF Hand
    <2>4. InIds(inbox[n]) = InIds(inbox'[n]) \cup ({Front(inbox[n]).id} \ {0})
      BY <1>1, <2>1, <2>2, PopFrontIds
    <2>5. \A m \in Procs : m # n => Hand(m)' = Hand(m) /\ inbox'[m] = inbox[m]
      BY <2>1, <2>2 DEF Hand
    <2>6. Came' = Came
      BY <2>1 DEF Came
    <2>7. QED
      BY <1>1, <2>3, <2>4, <2>5, <2>6
  <1>5. ASSUME NEW n \in Procs, NodeStop(n) \/ NodeUnhang(n) \/ NodeDone(n)
        PROVE  /\ Hand(N)' = Hand(N) /\ inbox' = inbox /\ Came' = Came
    <2>1. /\ UNCHANGED <<inbox, out, arrived>>
          /\ \A m \in Procs : m # n => npc'[m] = npc[m] /\ cur'[m] = cur[m]
          /\ npc'[n] # "process" /\ npc[n] # "process"
      BY <1>1, <1>5 DEF NodeStop, NodeUnhang, NodeDone, NodesTyped
    <2>2. Hand(N)' = Hand(N)
      BY <1>1, <2>1 DEF Hand
    <2>3. QED
      BY <2>1, <2>2 DEF Came
  <1>6. ASSUME NEW n \in Procs, NodeProcess(n)
        PROVE  /\ Hand(N)' \subseteq Hand(N) /\ InIds(inbox'[N]) \subseteq Here /\ Came' = Came
    <2>1. PICK b \in Behaviours :
            /\ npc[n] = "process" /\ out' = [out EXCEPT ![n] = Deliveries(b, cur[n])]
            /\ npc' = [npc EXCEPT ![n] = IF b = "hang" THEN "hung" ELSE "deliver"]
            /\ UNCHANGED <<cur, arrived>>
            /\ inbox' = [inbox EXCEPT ![n] = DrainInterruptible(@)] \/ UNCHANGED inbox
      BY <1>6 DEF NodeProcess
    <2>2. /\ \A m \in Procs : m # n => /\ npc'[m] = npc[m] /\ out'[m] = out[m]
                                       /\ inbox'[m] = inbox[m]
          /\ npc'[n] \in {"hung", "deliver"} /\ out'[n] = Deliveries(b, cur[n])
          /\ inbox'[n] = DrainInterruptible(inbox[n]) \/ inbox'[n] = inbox[n]
      BY <1>1, <2>1 DEF InboxTyped, NodesTyped
    <2>3. \A i \in DOMAIN out'[n] : out'[n][i].q.id \in {0, cur[n].id}
      BY <1>1, <2>2, DeliveriesType DEF NodesTyped
    <2>4. Hand(n)' \subseteq Hand(n)
      BY <2>1, <2>2, <2>3 DEF Hand
    <2>5. InIds(inbox'[n]) \subseteq InIds(inbox[n])
      BY <1>1, <2>2, DrainIds
    <2>6. \A m \in Procs : m # n => Hand(m)' = Hand(m) /\ inbox'[m] = inbox[m]
      BY <2>1, <2>2 DEF Hand
    <2>7. Came' = Came
      BY <2>1 DEF Came
    <2>8. QED
      BY <1>1, <2>4, <2>5, <2>6, <2>7
  <1>7. ASSUME NEW n \in Procs, NodeDeliver(n)
        PROVE  /\ Hand(N)' \subseteq Hand(N) /\ InIds(inbox'[N]) \subseteq Here /\ Came' = Came
    <2>1. /\ out[n] # <<>> /\ Delivered(n) /\ UNCHANGED <<inbox, npc, cur, arrived>>
      BY <1>7 DEF NodeDeliver, CanPush
    <2>2. Hand(N)' \subseteq Hand(N)
      BY <1>1, <2>1, DeliveredShrinks
    <2>3. QED
      BY <2>1, <2>2 DEF Came
  <1>8. ASSUME NEW n \in Procs, NodeReachSource(n) \/ NodeCancelsTask(n)
        PROVE  /\ Hand(N)' \subseteq Hand(N) /\ InIds(inbox'[N]) \subseteq Here /\ Came' = Came
    <2>1. /\ out[n] # <<>> /\ Delivered(n) /\ UNCHANGED <<npc, cur, arrived>>
      BY <1>8 DEF NodeReachSource, NodeCancelsTask
    <2>2. UNCHANGED inbox \/ \E m \in Procs, p \in ItemSet : p.id = 0 /\ Push(m, p)
      <3>1. Item("Interruption", "down", 0).id = 0
        BY DEF Item
      <3>2. QED
        BY <1>8, <3>1, ItemsMade, Constants DEF NodeReachSource, NodeCancelsTask, AtSource
    <2>3. Hand(N)' \subseteq Hand(N)
      BY <1>1, <2>1, DeliveredShrinks
    <2>4. Came' = Came
      BY <2>1 DEF Came
    <2>5. QED
      BY <1>3, <2>2, <2>3, <2>4
  <1>9. ASSUME NEW n \in Procs, NodeReachSink(n)
        PROVE  /\ Hand(N)' \subseteq Hand(N) /\ inbox' = inbox /\ Came' \subseteq Came \cup Hand(N)
    <2> DEFINE x == NextDelivery(n).q.id
    <2>1. /\ out[n] # <<>> /\ Delivered(n) /\ UNCHANGED <<inbox, npc, cur>> /\ n = N
          /\ NextDelivery(n).to = "down"
          /\ arrived' = IF x = 0 THEN arrived ELSE Append(arrived, x)
      BY <1>9 DEF NodeReachSink
    <2>2. Hand(N)' \subseteq Hand(N)
      BY <1>1, <2>1, DeliveredShrinks
    <2>3. x = 0 => Came' = Came
      BY <2>1 DEF Came
    <2>4. x # 0 => x \in Hand(N)
      BY <1>1, <2>1, HandEmptied
    <2>5. x # 0 => x \in 1..Len(Script)
      BY <1>1, <2>1, DeliveryTyped DEF ItemSet
    <2> HIDE DEF x
    <2>6. x # 0 => Came' \subseteq Came \cup {x}
      <3>1. arrived \in Seq(1..Len(Script))
        BY DEF Typed, SignalsTyped
      <3>2. QED
        BY <2>1, <2>5, <3>1, AppendProperties, LenProperties DEF Came
    <2>7. QED
      BY <2>1, <2>2, <2>3, <2>4, <2>6
  <1>10. ASSUME NEW n \in Procs, HandleRequest(n)
        PROVE  /\ Hand(N)' = Hand(N) /\ InIds(inbox'[N]) \subseteq Here /\ Came' = Came
    <2>1. UNCHANGED inbox \/ \E m \in Procs, p \in ItemSet : p.id = 0 /\ Push(m, p)
      <3>1. /\ Item("Interruption", "down", 0).id = 0
            /\ Item("InterruptionTask", "up", 0).id = 0
        BY DEF Item
      <3>2. CASE n = 1
        BY <1>10, <3>1, <3>2, ItemsMade, Constants DEF HandleRequest, AtSource
      <3>3. CASE n # 1
        <4>1. n - 1 \in Procs
          BY <3>3, Constants DEF Procs
        <4>2. QED
          BY <1>10, <3>1, <3>3, <4>1, ItemsMade DEF HandleRequest
      <3>4. QED
        BY <3>2, <3>3
    <2>2. QED
      BY <1>3, <1>10, <2>1 DEF HandleRequest, Hand, Came
  <1>11. CASE ClientPush
    <2>1. /\ UNCHANGED <<npc, cur, out, arrived>> /\ cpc = "push"
          /\ (~inbox[1].closed /\ Push(1, Item(Script[sent], "down", sent))) \/ UNCHANGED inbox
      BY <1>11 DEF ClientPush, CanPush
    <2>2. N = 1 => inbox[1].closed
      <3> SUFFICES ASSUME N = 1 PROVE inbox[1].closed
        OBVIOUS
      <3>1. ~parentDone /\ accept
        BY <2>1 DEF Endings, Lifecycle, Queueing
      <3>2. rpc \in {"join", "cleanup", "returned"}
        BY <3>1 DEF Endings
      <3>3. QED
        BY <1>1, <3>1, <3>2 DEF Lifecycle, Phases
    <2>3. inbox'[N] = inbox[N]
      BY <1>1, <2>1, <2>2 DEF Push, InboxTyped
    <2>4. QED
      BY <2>1, <2>3 DEF Hand, Came
  <1>12. CASE RunSpawn
    <2>1. /\ UNCHANGED <<inbox, cur, out, arrived>> /\ npc[N] = "off" /\ npc'[N] = "pop"
      BY <1>1, <1>12 DEF RunSpawn, Lifecycle, Phases
    <2>2. QED
      BY <2>1 DEF Hand, Came
  <1>13. CASE ForceStop
    <2>1. UNCHANGED <<npc, cur, out, arrived>> /\ inbox'[N] = Closed(inbox[N])
      BY <1>1, <1>13 DEF ForceStop
    <2>2. InIds(inbox'[N]) = InIds(inbox[N])
      BY <1>1, <2>1 DEF Closed, InboxSet, InIds
    <2>3. QED
      BY <2>1, <2>2 DEF Hand, Came
  <1>14. CASE CancelPushFrame
    <2>1. step \in Procs
      BY <1>14 DEF CancelPushFrame, Typed, RunTyped, Procs
    <2>2. Item("Cancel", "down", 0) \in ItemSet /\ Item("Cancel", "down", 0).id = 0
      BY ItemsMade DEF Item
    <2>3. UNCHANGED <<npc, cur, out, arrived>> /\ Push(step, Item("Cancel", "down", 0))
      BY <1>14 DEF CancelPushFrame
    <2>4. QED
      BY <1>3, <2>1, <2>2, <2>3 DEF Hand, Came
  <1>15. CASE \/ RunStart \/ RunSetup \/ RunSelect \/ CancelAwait \/ RunJoin \/ RunCleanup
              \/ FlushTake \/ FlushPush \/ ClientQueue \/ Cancel \/ ParentEnds \/ UNCHANGED vars
    <2>1. UNCHANGED <<inbox, npc, cur, out, arrived>>
      BY <1>15 DEF RunStart, RunSetup, RunSelect, CancelAwait, RunJoin, RunCleanup, FlushTake,
         FlushPush, CanPush, ClientQueue, Cancel, ParentEnds, vars
    <2>2. QED
      BY <2>1 DEF Hand, Came
  <1>16. QED
    BY <1>4, <1>5, <1>6, <1>7, <1>8, <1>9, <1>10, <1>11, <1>12, <1>13, <1>14, <1>15
    DEF Next, NodeStep, RunStep

(* A frame lost stays behind every data frame at the end of the chain,      *)
(* since from then on none arrives there.                                   *)
LEMMA NextLostFirst ==
  ASSUME N > 1 \/ ~ParentMayEnd
  PROVE  Typed /\ Lifecycle /\ Endings /\ InOrder /\ LostFirst /\ [Next]_vars => LostFirst'
  <1> SUFFICES ASSUME Typed, Typed', Lifecycle, Endings, InOrder, LostFirst, [Next]_vars,
                      NEW id \in 1..sent', Lost(id)'
               PROVE  /\ rootDone'
                      /\ \A d \in Place'[N] \cup Place'[N + 1] : IsData(d) => d < id
    BY NextTyped DEF LostFirst
  <1>1. sent \in Nat /\ sent' \in Nat
    BY Constants DEF Typed, QueueTyped
  <1>2. ~On(id)' /\ ~Audio(id) /\ id \notin unforwarded'
    BY DEF Lost
  <1>3. id \in 1..sent /\ id \notin unforwarded
    <2>1. CASE ClientQueue
      <3>1. sent + 1 \in Entry'
        <4>1. CASE cpc' = "push"
          BY <2>1, <4>1 DEF ClientQueue, Entry
        <4>2. CASE pre' = Append(pre, Item(Script[sent + 1], "down", sent + 1))
          <5> DEFINE q == Item(Script[sent + 1], "down", sent + 1)
          <5>1. pre \in Seq(ItemSet) /\ sent + 1 \in 1..Len(Script)
            BY <2>1, Constants DEF Typed, QueueTyped, ClientQueue
          <5>2. q \in ItemSet /\ q.id = sent + 1
            BY <5>1, ItemsMade DEF Item
          <5> HIDE DEF q
          <5>3. IdsOf(Append(pre, q)) = IdsOf(pre) \cup ({q.id} \ {0})
            BY <5>1, <5>2, AppendIds
          <5>4. QED
            BY <1>1, <4>2, <5>2, <5>3 DEF Entry, q
        <4>3. QED
          BY <2>1, <4>1, <4>2 DEF ClientQueue
      <3>2. id # sent + 1
        BY <1>2, <3>1, PlaceAt DEF On
      <3>3. QED
        BY <1>1, <1>2, <2>1, <3>2 DEF ClientQueue, faults
    <2>2. CASE ~ClientQueue
      BY <1>2, <2>2, ZenonT(40)
      DEF Next, NodeStep, NodePop, NodeStop, NodeProcess, NodeUnhang, NodeDeliver,
          NodeReachSink, NodeReachSource, NodeCancelsTask, NodeDone, HandleRequest, Cancel,
          ParentEnds, RunStep, RunStart, RunSetup, RunSpawn, RunSelect, CancelPushFrame,
          CancelAwait, FlushTake, FlushPush, ForceStop, RunJoin, RunCleanup, ClientPush,
          vars, faults, clientVars
    <2>3. QED
      BY <2>1, <2>2
  <1>4. /\ rootDone
        /\ \A d \in Place[N] \cup Place[N + 1] : IsData(d) => d < id
    <2>1. CASE ~On(id)
      BY <1>2, <1>3, <2>1 DEF Lost, LostFirst
    <2>2. CASE On(id)
      <3>1. Refused(id)
        BY <1>2, <2>2, NextKeeps
      <3>2. PICK k \in 0..N - 1 : id \in Place[k]
        BY <3>1 DEF Refused
      <3>3. Ahead(Place[N], Place[k]) /\ Ahead(Place[N + 1], Place[k])
        BY Constants DEF InOrder, Ordered
      <3>4. \A d \in Place[N] \cup Place[N + 1] : d \in 1..sent /\ ~Before(id, d)
        BY <3>2, <3>3, Constants, PlaceAt DEF Ahead, InOrder
      <3>5. QED
        BY <1>1, <1>3, <3>1, <3>4 DEF Refused, Before
    <2>3. QED
      BY <2>1, <2>2
  <1>5. rootDone' /\ Place'[N] \cup Place'[N + 1] \subseteq Place[N] \cup Place[N + 1]
    BY <1>4, NextEndings, LastShrinks
  <1>6. QED
    BY <1>4, <1>5

(* A task that ends by its End has delivered what was queued before it,     *)
(* whatever was dropped on purpose apart.  The case left out is a single    *)
(* processor whose context may be ended from outside: flushPrequeue's push  *)
(* is then refused while a client's later push of the End still gets in.    *)
THEOREM EndMeansDelivered ==
  ASSUME N > 1 \/ ~ParentMayEnd
  PROVE  Spec => []NilMeansDelivered
  <1>1. Init => Endings /\ LostFirst
    BY Constants DEF Init, Endings, LostFirst, Lost
  <1>2. Typed /\ Lifecycle /\ InOrder /\ LostFirst => NilMeansDelivered
    <2> SUFFICES ASSUME Typed, InOrder, LostFirst, endSeen # 0, NEW id \in 1..endSeen - 1,
                        id \notin Came, id \notin unforwarded, ~Audio(id)
                 PROVE  FALSE
      BY DEF NilMeansDelivered, Came, Audio
    <2>1. /\ endSeen \in Nat /\ sent \in Nat /\ id \in Nat /\ id # 0 /\ id < endSeen
          /\ endSeen \in Place[N + 1] /\ IsData(endSeen) /\ endSeen \in 1..sent
      BY Constants, PlaceAt DEF Typed, SignalsTyped, QueueTyped, InOrder, EndTidy
    <2>2. ~On(id)
      <3>1. \A k \in 0..N : Ahead(Place[N + 1], Place[k])
        BY Constants DEF InOrder, Ordered
      <3>2. \A k \in 0..N : id \notin Place[k]
        BY <2>1, <3>1 DEF Ahead, Before
      <3>3. id \notin Place[N + 1]
        BY PlaceAt
      <3>4. QED
        BY <3>2, <3>3, Constants DEF On
    <2>3. Lost(id)
      BY <2>1, <2>2 DEF Lost
    <2>4. QED
      BY <2>1, <2>3 DEF LostFirst
  <1>3. QED
    BY <1>1, <1>2, InitTyped, InitLifecycle, InitInOrder, NextLifecycle, NextInOrder, NextEndings,
       NextLostFirst, PTL DEF Spec
-----------------------------------------------------------------------------

(* The errors that are on their way up at a processor: in its inbox, in     *)
(* what it has still to deliver, in its hand.                               *)
UpErrors == {q \in ItemSet : q.kind = "Error" /\ q.dir = "up"}

ErrorsLeaving == {e \in DeliverySet : e.q.kind = "Error" /\ e.to = "up"}

InHand(n) ==
  IF npc[n] = "process" /\ cur[n].kind = "Error" /\ cur[n].dir = "up" THEN 1 ELSE 0

ErrorsAt ==
  [n \in Procs |-> Cardinality(MarksAt(inbox[n].sys, UpErrors))
                     + Cardinality(MarksAt(out[n], ErrorsLeaving)) + InHand(n)]

(* No error is anywhere else, and a node has nothing to deliver before it   *)
(* has processed.                                                           *)
ErrorsPlaced ==
  /\ \A n \in Procs : /\ NoneBesides(inbox[n], ItemSet, UpErrors)
                      /\ npc[n] \in {"off", "pop", "process", "stopped"} => out[n] = <<>>
  /\ pre \in Seq(ItemSet \ UpErrors) /\ batch \in Seq(ItemSet \ UpErrors)
  /\ onErrors \in Nat /\ failures \in Nat

ErrorsCounted == ~rootDone => onErrors + Total(ErrorsAt) = failures

(* Errors are system frames and no audio.                                   *)
LEMMA ErrorsAreSystem ==
  /\ \A q \in UpErrors : Lane(q) = "sys" /\ ~IsAudio(q)
  /\ UpErrors \subseteq ItemSet
  BY DEF UpErrors, ItemSet, Items, Lane, IsAudio, IsSystem, SystemKinds

(* The counts are numbers, and their sum is the one the property states.    *)
CountsAreNumbers ==
  /\ ErrorsAt \in [Procs -> Nat]
  /\ \A n \in Procs : /\ Cardinality(MarksAt(inbox[n].sys, UpErrors)) \in Nat
                      /\ Cardinality(MarksAt(out[n], ErrorsLeaving)) \in Nat
                      /\ InHand(n) \in {0, 1}

LEMMA CountsTyped == InboxTyped /\ NodesTyped => CountsAreNumbers
  <1> SUFFICES ASSUME InboxTyped, NodesTyped PROVE CountsAreNumbers
    OBVIOUS
  <1>1. ASSUME NEW n \in Procs
        PROVE  /\ Cardinality(MarksAt(inbox[n].sys, UpErrors)) \in Nat
               /\ Cardinality(MarksAt(out[n], ErrorsLeaving)) \in Nat
               /\ InHand(n) \in {0, 1}
    <2>1. inbox[n].sys \in Seq(ItemSet) /\ out[n] \in Seq(DeliverySet)
      BY DEF InboxTyped, NodesTyped, InboxSet
    <2>2. /\ Cardinality(MarksAt(inbox[n].sys, UpErrors)) \in Nat
          /\ Cardinality(MarksAt(out[n], ErrorsLeaving)) \in Nat
      BY <2>1, MarksAfterKeep
    <2>3. QED
      BY <2>2 DEF InHand
  <1>2. QED
    BY <1>1 DEF ErrorsAt, CountsAreNumbers

LEMMA SumOfErrors ==
  ASSUME InboxTyped, NodesTyped
  PROVE  ErrorsGoingUp = Total(ErrorsAt)
  <1> DEFINE f == [n \in Procs |->
               Cardinality({i \in DOMAIN inbox[n].sys :
                   inbox[n].sys[i].kind = "Error" /\ inbox[n].sys[i].dir = "up"})
               + Cardinality({i \in DOMAIN out[n] :
                   out[n][i].q.kind = "Error" /\ out[n][i].to = "up"})
               + (IF npc[n] = "process" /\ cur[n].kind = "Error" /\ cur[n].dir = "up"
                  THEN 1 ELSE 0)]
  <1>1. ErrorsGoingUp = Total(f)
    BY DEF ErrorsGoingUp, Total, FoldFunction, FoldFunctionOnSet, MapThenFoldSet
  <1>2. f = ErrorsAt
    <2>1. ASSUME NEW n \in Procs
          PROVE  /\ MarksAt(inbox[n].sys, UpErrors) =
                      {i \in DOMAIN inbox[n].sys :
                         inbox[n].sys[i].kind = "Error" /\ inbox[n].sys[i].dir = "up"}
                 /\ MarksAt(out[n], ErrorsLeaving) =
                      {i \in DOMAIN out[n] :
                         out[n][i].q.kind = "Error" /\ out[n][i].to = "up"}
      <3>1. inbox[n].sys \in Seq(ItemSet) /\ out[n] \in Seq(DeliverySet)
        BY DEF InboxTyped, NodesTyped, InboxSet
      <3>2. /\ \A i \in DOMAIN inbox[n].sys : inbox[n].sys[i] \in ItemSet
            /\ \A i \in DOMAIN out[n] : out[n][i] \in DeliverySet
        BY <3>1, LenProperties, ElementOfSeq
      <3>3. QED
        BY <3>2 DEF MarksAt, UpErrors, ErrorsLeaving
    <2>2. QED
      BY <2>1 DEF ErrorsAt, InHand
  <1>3. QED
    BY <1>1, <1>2

(* A Process call passes on the error it handles, whatever it does, and     *)
(* makes one when it fails.                                                 *)
LEMMA DeliveredErrors ==
  ASSUME NEW q \in ItemSet, NEW b \in Behaviours
  PROVE  Cardinality(MarksAt(Deliveries(b, q), ErrorsLeaving)) =
           (IF q.kind = "Error" /\ q.dir = "up" THEN 1 ELSE 0) + (IF b = "fail" THEN 1 ELSE 0)
  <1> DEFINE C(s) == Cardinality(MarksAt(s, ErrorsLeaving))
             S == DeliverySet
             A == AutoForwarded(b, q)
             E == Emitted(b, q)
             up == IF q.kind = "Error" /\ q.dir = "up" THEN 1 ELSE 0
             x == Emit(q.dir, q)
             y == Emit("down", q)
             e == Emit("up", Item("Error", "up", 0))
             p == Emit("up", Item("FatalError", "up", 0))
             t == Emit("task", NoItem)
  <1>1. q \in Items /\ q.id \in Nat /\ q.dir \in {"up", "down"} /\ q.kind \in ItemKinds
    BY DEF ItemSet, Items
  <1>2. /\ {"Error", "FatalError"} \subseteq ItemKinds /\ "none" \in ItemKinds
    BY DEF ItemKinds, FrameKinds, SystemKinds
  <1>3. /\ x \in S /\ y \in S /\ e \in S /\ p \in S /\ t \in S
    BY <1>1, <1>2 DEF Emit, Item, NoItem, DeliverySet, ItemSet, Items
  <1>4. /\ x \in ErrorsLeaving <=> q.kind = "Error" /\ q.dir = "up"
        /\ y \notin ErrorsLeaving
        /\ e \in ErrorsLeaving
        /\ p \notin ErrorsLeaving
        /\ t \notin ErrorsLeaving
    BY <1>3 DEF ErrorsLeaving, Emit, Item, NoItem
  <1>5. b \in {"relay", "down", "absorb", "fail", "panic", "hang"}
    BY TaskAssumption
  <1>6. /\ b = "relay" => E = <<x>> /\ A = <<>>
        /\ b = "down" => E = <<y>>
        /\ b = "fail" => E = <<e>>
        /\ b = "panic" => E = <<p, t>>
        /\ b \in {"absorb", "hang"} => E = <<>>
    BY DEF Emitted, AutoForwarded, Forwarded
  <1>7. /\ A \in {<<>>, <<x>>}
        /\ b # "relay" /\ q.kind = "Error" /\ q.dir = "up" => A = <<x>>
    BY DEF AutoForwarded, Forwarded, AutoForwardUp
  <1>8. Deliveries(b, q) = E \o A
    BY DEF Deliveries
  <1> HIDE DEF x, y, e, p, t, A, E
  <1>9. C(<<>>) = 0
    <2>1. MarksAt(<<>>, ErrorsLeaving) = {}
      BY DEF MarksAt
    <2>2. QED
      BY <2>1, FS_EmptySet
  <1>10. \A s \in Seq(S), z \in S : /\ Append(s, z) \in Seq(S)
                                    /\ C(s) \in Nat
                                    /\ C(Append(s, z)) = C(s) + (IF z \in ErrorsLeaving THEN 1 ELSE 0)
    BY MarksAfterAppend, AppendProperties
  <1>11. /\ <<>> \in Seq(S) /\ <<x>> \in Seq(S) /\ <<y>> \in Seq(S) /\ <<e>> \in Seq(S)
         /\ <<p>> \in Seq(S) /\ <<p, t>> \in Seq(S)
         /\ <<x>> = Append(<<>>, x) /\ <<y>> = Append(<<>>, y) /\ <<e>> = Append(<<>>, e)
         /\ <<p>> = Append(<<>>, p) /\ <<p, t>> = Append(<<p>>, t)
    BY <1>3
  <1>12. /\ C(<<x>>) = up /\ C(<<y>>) = 0 /\ C(<<e>>) = 1 /\ C(<<p>>) = 0
    <2> HIDE DEF C
    <2>1. \A z \in S : C(Append(<<>>, z)) = C(<<>>) + (IF z \in ErrorsLeaving THEN 1 ELSE 0)
      BY <1>10, <1>11, Zenon
    <2>2. /\ C(<<x>>) = C(<<>>) + (IF x \in ErrorsLeaving THEN 1 ELSE 0)
          /\ C(<<y>>) = C(<<>>) + (IF y \in ErrorsLeaving THEN 1 ELSE 0)
          /\ C(<<e>>) = C(<<>>) + (IF e \in ErrorsLeaving THEN 1 ELSE 0)
          /\ C(<<p>>) = C(<<>>) + (IF p \in ErrorsLeaving THEN 1 ELSE 0)
      BY <1>3, <1>11, <2>1, Zenon
    <2>3. QED
      BY <1>4, <1>9, <2>2
  <1>13. C(<<p, t>>) = 0
    <2> HIDE DEF C
    <2>1. C(<<p, t>>) = C(<<p>>) + (IF t \in ErrorsLeaving THEN 1 ELSE 0)
      BY <1>3, <1>10, <1>11, Zenon
    <2>2. QED
      BY <1>4, <1>12, <2>1
  <1>14. /\ E \in Seq(S)
         /\ b = "relay" => C(E) = up
         /\ b = "fail" => C(E) = 1
         /\ b \notin {"relay", "fail"} => C(E) = 0
    BY <1>5, <1>6, <1>9, <1>11, <1>12, <1>13
  <1>15. E \o <<>> = E /\ E \o <<x>> = Append(E, x)
    BY <1>3, <1>14
  <1>16. C(E \o A) = C(E) + (IF A = <<>> THEN 0 ELSE up)
    <2>1. CASE A = <<>>
      BY <1>10, <1>14, <1>15, <2>1, <1>3
    <2>2. CASE A # <<>>
      <3>1. A = <<x>> /\ C(Append(E, x)) = C(E) + (IF x \in ErrorsLeaving THEN 1 ELSE 0)
        BY <1>3, <1>7, <1>10, <1>14, <2>2
      <3>2. QED
        BY <1>4, <1>15, <2>2, <3>1
    <2>3. QED
      BY <2>1, <2>2
  <1>17. /\ b = "relay" => A = <<>>
         /\ b # "relay" => (IF A = <<>> THEN 0 ELSE up) = up
    <2>1. up # 0 => q.kind = "Error" /\ q.dir = "up"
      OBVIOUS
    <2>2. <<x>> # <<>>
      OBVIOUS
    <2>3. QED
      BY <1>6, <1>7, <2>1, <2>2
  <1>18. up \in Nat
    OBVIOUS
  <1> HIDE DEF up, C
  <1>19. C(E \o A) = up + (IF b = "fail" THEN 1 ELSE 0)
    BY <1>14, <1>16, <1>17, <1>18
  <1>20. QED
    BY <1>8, <1>19 DEF up, C

(* The system lanes after a push.                                           *)
LEMMA PushErrors ==
  ASSUME InboxTyped, ErrorsPlaced, NEW n \in Procs, NEW q \in ItemSet, Push(n, q)
  PROVE  /\ \A m \in Procs : NoneBesides(inbox'[m], ItemSet, UpErrors)
         /\ \A m \in Procs \ {n} : inbox'[m] = inbox[m]
         /\ Cardinality(MarksAt(inbox'[n].sys, UpErrors)) =
              Cardinality(MarksAt(inbox[n].sys, UpErrors)) + (IF q \in UpErrors THEN 1 ELSE 0)
  <1>1. /\ inbox[n] \in InboxSet(ItemSet) /\ NoneBesides(inbox[n], ItemSet, UpErrors)
        /\ inbox' = [inbox EXCEPT ![n] = Enqueue(@, q)]
    BY DEF InboxTyped, ErrorsPlaced, Push
  <1>2. /\ NoneBesides(Enqueue(inbox[n], q), ItemSet, UpErrors)
        /\ Cardinality(MarksAt(Enqueue(inbox[n], q).sys, UpErrors)) =
             Cardinality(MarksAt(inbox[n].sys, UpErrors)) + (IF q \in UpErrors THEN 1 ELSE 0)
    <2> DEFINE in == inbox[n]
    <2>1. in \in InboxSet(ItemSet) /\ NoneBesides(in, ItemSet, UpErrors)
      BY <1>1
    <2> HIDE DEF in
    <2>2. \A r \in ItemSet :
            /\ NoneBesides(Enqueue(in, r), ItemSet, UpErrors)
            /\ Cardinality(MarksAt(Enqueue(in, r).sys, UpErrors)) =
                 Cardinality(MarksAt(in.sys, UpErrors)) + (IF r \in UpErrors THEN 1 ELSE 0)
      BY <2>1, ErrorsAreSystem, SystemMarks
    <2>3. QED
      BY <2>2, Zenon DEF in
  <1>3. QED
    BY <1>1, <1>2 DEF InboxTyped, ErrorsPlaced

(* What a delivery takes out of a node's hands.                             *)
LEMMA DeliveredError ==
  ASSUME NodesTyped, NEW n \in Procs, out[n] # <<>>
  PROVE  /\ NextDelivery(n).q \in UpErrors <=> NextDelivery(n) \in ErrorsLeaving
         /\ NextDelivery(n) \in ErrorsLeaving => NextDelivery(n).to = "up"
         /\ NextDelivery(n).to = "up" =>
              (NextDelivery(n) \in ErrorsLeaving <=> NextDelivery(n).q.kind = "Error")
         /\ Cardinality(MarksAt(Tail(out[n]), ErrorsLeaving)) \in Nat
         /\ Cardinality(MarksAt(out[n], ErrorsLeaving)) =
              Cardinality(MarksAt(Tail(out[n]), ErrorsLeaving))
                + (IF NextDelivery(n) \in ErrorsLeaving THEN 1 ELSE 0)
  <1>1. out[n] \in Seq(DeliverySet) /\ NextDelivery(n) = Head(out[n])
    BY DEF NodesTyped, NextDelivery
  <1>2. NextDelivery(n) \in DeliverySet
    BY DeliveryTyped
  <1>3. QED
    BY <1>1, <1>2, MarksAfterTail DEF ErrorsLeaving, UpErrors, DeliverySet

(* A push of an item that is no error changes no count.                     *)
LEMMA OtherPush ==
  ASSUME InboxTyped, NodesTyped, ErrorsPlaced, NEW n \in Procs, NEW q \in ItemSet \ UpErrors,
         Push(n, q), UNCHANGED <<npc, cur, out>>
  PROVE  ErrorsAt' = ErrorsAt
  <1>1. \A m \in Procs : Cardinality(MarksAt(inbox'[m].sys, UpErrors)) =
                           Cardinality(MarksAt(inbox[m].sys, UpErrors))
    BY PushErrors, CountsTyped DEF CountsAreNumbers
  <1>2. QED
    BY <1>1 DEF ErrorsAt, InHand

LEMMA InitErrors == Init => ErrorsPlaced /\ ErrorsCounted
  <1> SUFFICES ASSUME Init PROVE ErrorsPlaced /\ ErrorsCounted
    OBVIOUS
  <1>1. ErrorsPlaced
    <2>1. \A n \in Procs : inbox[n] = EmptyInbox /\ out[n] = <<>>
      BY DEF Init
    <2>2. NoneBesides(EmptyInbox, ItemSet, UpErrors)
      BY DEF NoneBesides, EmptyInbox
    <2>3. /\ pre \in Seq(ItemSet \ UpErrors) /\ batch \in Seq(ItemSet \ UpErrors)
          /\ onErrors \in Nat /\ failures \in Nat
      BY DEF Init
    <2>4. QED
      BY <2>1, <2>2, <2>3 DEF ErrorsPlaced
  <1>2. \A n \in Procs : ErrorsAt[n] = 0
    <2>1. MarksAt(<<>>, UpErrors) = {} /\ MarksAt(<<>>, ErrorsLeaving) = {} /\ Cardinality({}) = 0
      BY FS_EmptySet DEF MarksAt
    <2>2. \A n \in Procs : inbox[n].sys = <<>> /\ out[n] = <<>> /\ npc[n] = "off"
      BY DEF Init, EmptyInbox
    <2>3. ASSUME NEW n \in Procs
          PROVE  ErrorsAt[n] = 0
      <3>1. /\ Cardinality(MarksAt(inbox[n].sys, UpErrors)) = 0
            /\ Cardinality(MarksAt(out[n], ErrorsLeaving)) = 0
            /\ InHand(n) = 0
        BY <2>1, <2>2 DEF InHand
      <3>2. QED
        BY <3>1 DEF ErrorsAt
    <2>4. QED
      BY <2>3
  <1>3. ErrorsAt \in [Procs -> Nat] /\ IsFiniteSet(Procs)
    BY InitTyped, CountsTyped, Constants DEF Typed, CountsAreNumbers
  <1>4. Total(ErrorsAt) = 0
    BY <1>2, <1>3, TotalOfZeros
  <1>5. QED
    BY <1>1, <1>4 DEF Init, ErrorsCounted

(* What is on its way stays where errors may be.                            *)
LEMMA NextErrorsPlaced ==
  Typed /\ Phases /\ ErrorsPlaced /\ [Next]_vars => ErrorsPlaced'
  <1> SUFFICES ASSUME Typed, Phases, ErrorsPlaced, [Next]_vars PROVE ErrorsPlaced'
    OBVIOUS
  <1> USE DEF runVars, nodeVars, signals, clientVars, faults
  <1> DEFINE Clean(in) == NoneBesides(in, ItemSet, UpErrors)
             Idle == \A n \in Procs : npc[n] \in {"off", "pop", "process", "stopped"}
                                        => out[n] = <<>>
             Counts == onErrors \in Nat /\ failures \in Nat
             Queues == pre \in Seq(ItemSet \ UpErrors) /\ batch \in Seq(ItemSet \ UpErrors)
  <1>1. /\ InboxTyped /\ NodesTyped
        /\ \A n \in Procs : inbox[n] \in InboxSet(ItemSet) /\ Clean(inbox[n])
        /\ Idle /\ Counts /\ Queues
    BY DEF Typed, InboxTyped, ErrorsPlaced
  <1>2. \A n \in Procs :
          /\ ~IsEmpty(inbox[n]) => Clean(PopFront(inbox[n]))
          /\ Clean(DrainInterruptible(inbox[n])) /\ Clean(Closed(inbox[n]))
    <2> TAKE n \in Procs
    <2>1. inbox[n] \in InboxSet(ItemSet) /\ NoneBesides(inbox[n], ItemSet, UpErrors)
      BY <1>1
    <2>2. QED
      BY <2>1, ErrorsAreSystem, SystemMarks
  <1>3. ASSUME NEW n \in Procs, NEW q \in ItemSet, Push(n, q)
        PROVE  \A m \in Procs : Clean(inbox'[m])
    BY <1>1, <1>3, PushErrors
  <1>4. ASSUME NEW q \in ItemSet, AtSource(q)
        PROVE  (\A m \in Procs : Clean(inbox'[m])) /\ onErrors' \in Nat
    <2>1. onErrors' \in Nat
      BY <1>1, <1>4 DEF AtSource
    <2>2. \A m \in Procs : Clean(inbox'[m])
      BY <1>1, <1>3, <1>4, ItemsMade, Constants DEF AtSource
    <2>3. QED
      BY <2>1, <2>2
  <1>5. ASSUME \A m \in Procs : Clean(inbox'[m]), Idle', Counts', Queues'
        PROVE  ErrorsPlaced'
    BY <1>5 DEF ErrorsPlaced
  <1> HIDE DEF Clean
  <1>6. ASSUME NEW n \in Procs, NodeStep(n)
        PROVE  ErrorsPlaced'
    <2>1. UNCHANGED <<pre, batch>>
      BY <1>6
      DEF NodeStep, NodePop, NodeStop, NodeProcess, NodeUnhang, NodeDeliver, NodeReachSink,
          NodeReachSource, NodeCancelsTask, NodeDone
    <2>2. Queues'
      BY <1>1, <2>1
    <2>3. Counts'
      <3>1. CASE NodeReachSource(n)
        <4>1. NextDelivery(n).q \in ItemSet /\ AtSource(NextDelivery(n).q)
          BY <1>1, <3>1, DeliveryTyped DEF NodeReachSource
        <4>2. onErrors' \in Nat /\ failures' = failures
          BY <1>4, <3>1, <4>1 DEF NodeReachSource
        <4>3. QED
          BY <1>1, <4>2
      <3>2. CASE NodeProcess(n)
        <4>1. failures' \in {failures, failures + 1} /\ onErrors' = onErrors
          BY <3>2 DEF NodeProcess
        <4>2. QED
          BY <1>1, <4>1
      <3>3. CASE UNCHANGED <<failures, onErrors>>
        BY <1>1, <3>3
      <3>4. QED
        BY <1>6, <3>1, <3>2, <3>3
        DEF NodeStep, NodePop, NodeStop, NodeUnhang, NodeDeliver, NodeReachSink,
            NodeCancelsTask, NodeDone
    <2>4. \A m \in Procs : Clean(inbox'[m])
      <3>1. CASE NodePop(n)
        BY <1>1, <1>2, <3>1 DEF NodePop, InboxTyped
      <3>2. CASE NodeProcess(n)
        BY <1>1, <1>2, <3>2 DEF NodeProcess, InboxTyped
      <3>3. CASE NodeDeliver(n)
        <4>1. NextDelivery(n).q \in ItemSet
          BY <1>1, <3>3, DeliveryTyped DEF NodeDeliver
        <4>2. QED
          BY <1>1, <1>3, <3>3, <4>1 DEF NodeDeliver
      <3>4. CASE NodeReachSource(n)
        <4>1. NextDelivery(n).q \in ItemSet /\ AtSource(NextDelivery(n).q)
          BY <1>1, <3>4, DeliveryTyped DEF NodeReachSource
        <4>2. QED
          BY <1>4, <4>1
      <3>5. CASE UNCHANGED inbox
        BY <1>1, <3>5
      <3>6. QED
        BY <1>6, <3>1, <3>2, <3>3, <3>4, <3>5
        DEF NodeStep, NodeStop, NodeUnhang, NodeReachSink, NodeCancelsTask, NodeDone
    <2>5. Idle'
      <3>1. CASE NodePop(n) \/ NodeStop(n)
        <4>1. /\ npc[n] = "pop" /\ out' = out
              /\ \A m \in Procs \ {n} : npc'[m] = npc[m]
          BY <1>1, <3>1 DEF NodePop, NodeStop, NodesTyped
        <4>2. QED
          BY <1>1, <4>1
      <3>2. CASE NodeProcess(n) \/ NodeUnhang(n)
        <4>1. /\ npc'[n] \in {"hung", "deliver"}
              /\ \A m \in Procs \ {n} : npc'[m] = npc[m] /\ out'[m] = out[m]
          BY <1>1, <3>2 DEF NodeProcess, NodeUnhang, NodesTyped
        <4>2. QED
          BY <1>1, <4>1
      <3>3. CASE NodeDeliver(n) \/ NodeReachSink(n) \/ NodeReachSource(n) \/ NodeCancelsTask(n)
        <4>1. /\ npc[n] = "deliver" /\ npc' = npc
              /\ \A m \in Procs \ {n} : out'[m] = out[m]
          BY <1>1, <3>3 DEF NodeDeliver, NodeReachSink, NodeReachSource, NodeCancelsTask,
             Delivered, NodesTyped
        <4>2. QED
          BY <1>1, <4>1
      <3>4. CASE NodeDone(n)
        <4>1. /\ out[n] = <<>> /\ out' = out
              /\ \A m \in Procs \ {n} : npc'[m] = npc[m]
          BY <1>1, <3>4 DEF NodeDone, NodesTyped
        <4>2. QED
          BY <1>1, <4>1
      <3>5. QED
        BY <1>6, <3>1, <3>2, <3>3, <3>4 DEF NodeStep
    <2>6. QED
      BY <1>5, <2>2, <2>3, <2>4, <2>5
  <1>7. ASSUME NEW n \in Procs, HandleRequest(n)
        PROVE  ErrorsPlaced'
    <2>1. UNCHANGED <<npc, out, pre, batch, failures>>
      BY <1>7 DEF HandleRequest
    <2>2. (\A m \in Procs : Clean(inbox'[m])) /\ onErrors' \in Nat
      <3>1. CASE n = 1
        BY <1>4, <1>7, <3>1, ItemsMade DEF HandleRequest
      <3>2. CASE n # 1
        <4>1. n - 1 \in Procs
          BY <3>2, Constants DEF Procs
        <4>2. onErrors' = onErrors /\ (UNCHANGED inbox \/ Push(n - 1, Item("InterruptionTask", "up", 0)))
          BY <1>7, <3>2 DEF HandleRequest
        <4>3. QED
          BY <1>1, <1>3, <4>1, <4>2, ItemsMade
      <3>3. QED
        BY <3>1, <3>2
    <2>3. QED
      BY <1>1, <1>5, <2>1, <2>2
  <1>8. CASE FlushPush \/ CancelPushFrame \/ ClientPush
    <2>1. UNCHANGED <<npc, out, pre, onErrors, failures>>
      BY <1>8 DEF FlushPush, CancelPushFrame, ClientPush
    <2>2. batch' \in Seq(ItemSet \ UpErrors)
      <3>1. batch # <<>> => Tail(batch) \in Seq(ItemSet \ UpErrors)
        BY <1>1, HeadTailProperties
      <3>2. QED
        BY <1>1, <1>8, <3>1 DEF FlushPush, CancelPushFrame, ClientPush
    <2>3. \A m \in Procs : Clean(inbox'[m])
      <3>1. CASE FlushPush
        <4>1. Head(batch) \in ItemSet
          BY <1>1, <3>1, HeadTailProperties DEF FlushPush
        <4>2. QED
          BY <1>1, <1>3, <3>1, <4>1, Constants DEF FlushPush
      <3>2. CASE CancelPushFrame
        BY <1>3, <3>2, ItemsMade DEF CancelPushFrame, Typed, RunTyped, Procs
      <3>3. CASE ClientPush
        <4>1. Item(Script[sent], "down", sent) \in ItemSet
          BY <3>3, ItemsMade, Constants DEF Typed, QueueTyped, ClientPush
        <4>2. QED
          BY <1>1, <1>3, <3>3, <4>1, Constants DEF ClientPush
      <3>4. QED
        BY <1>8, <3>1, <3>2, <3>3
    <2>4. QED
      BY <1>1, <1>5, <2>1, <2>2, <2>3
  <1>9. CASE RunSpawn
    <2>1. \A n \in Procs : out'[n] = <<>> /\ inbox'[n] = inbox[n]
      BY <1>1, <1>9 DEF RunSpawn, Phases
    <2>2. UNCHANGED <<pre, batch, onErrors, failures>>
      BY <1>9 DEF RunSpawn
    <2>3. QED
      BY <1>1, <1>5, <2>1, <2>2
  <1>10. CASE FlushTake
    <2>1. UNCHANGED <<inbox, npc, out, onErrors, failures>> /\ pre' = <<>> /\ batch' = pre
      BY <1>10 DEF FlushTake
    <2>2. QED
      BY <1>1, <1>5, <2>1
  <1>11. CASE ForceStop
    <2>1. /\ UNCHANGED <<npc, out, pre, batch, onErrors, failures>>
          /\ inbox' = [n \in Procs |-> Closed(inbox[n])]
      BY <1>11 DEF ForceStop
    <2>2. QED
      BY <1>1, <1>2, <1>5, <2>1
  <1>12. CASE ClientQueue
    <2>1. /\ UNCHANGED <<inbox, npc, out, batch, onErrors, failures>>
          /\ pre' \in {pre, Append(pre, Item(Script[sent + 1], "down", sent + 1))}
      BY <1>12 DEF ClientQueue
    <2>2. Item(Script[sent + 1], "down", sent + 1) \in ItemSet \ UpErrors
      <3>1. sent + 1 \in 1..Len(Script)
        BY <1>12, Constants DEF Typed, QueueTyped, ClientQueue
      <3>2. QED
        BY <3>1, ItemsMade DEF UpErrors, Item
    <2>3. QED
      BY <1>1, <1>5, <2>1, <2>2, AppendProperties
  <1>13. CASE UNCHANGED <<inbox, npc, out, pre, batch, onErrors, failures>>
    BY <1>1, <1>5, <1>13
  <1>14. QED
    BY <1>6, <1>7, <1>8, <1>9, <1>10, <1>11, <1>12, <1>13
    DEF Next, RunStep, RunStart, RunSetup, RunSelect, CancelAwait, RunJoin, RunCleanup,
        Cancel, ParentEnds, vars

LEMMA CountsTypedNext == InboxTyped' /\ NodesTyped' => CountsAreNumbers'
  BY CountsTyped, PTL

(* Until the task context ends no inbox is closed, so every error that      *)
(* leaves a node enters the next inbox or is reported.                      *)
LEMMA NextErrorsCounted ==
  Typed /\ Phases /\ ErrorsPlaced /\ ErrorsCounted /\ [Next]_vars => ErrorsCounted'
  <1> SUFFICES ASSUME Typed, Phases, ErrorsPlaced, ErrorsCounted, [Next]_vars, ~rootDone'
               PROVE  onErrors' + Total(ErrorsAt') = failures'
    BY DEF ErrorsCounted
  <1> USE DEF runVars, nodeVars, signals, clientVars, faults
  <1>1. /\ InboxTyped /\ NodesTyped /\ InboxTyped' /\ NodesTyped'
    BY NextTyped DEF Typed
  <1>2. ~rootDone
    <2>1. rootDone => rpc # "new"
      BY DEF Phases
    <2>2. rootDone \in BOOLEAN
      BY DEF Typed, SignalsTyped
    <2>3. QED
      BY <2>1, <2>2
      DEF Next, NodeStep, NodePop, NodeStop, NodeProcess, NodeUnhang, NodeDeliver, NodeReachSink,
          NodeReachSource, NodeCancelsTask, NodeDone, RunStep, RunStart, RunSetup, RunSpawn,
          FlushTake, FlushPush, RunSelect, CancelPushFrame, CancelAwait, ForceStop, RunJoin,
          RunCleanup, HandleRequest, ClientQueue, ClientPush, Cancel, ParentEnds, vars
  <1>3. /\ \A m \in Procs : ~inbox[m].closed
        /\ onErrors + Total(ErrorsAt) = failures
    BY <1>2 DEF Phases, ErrorsCounted
  <1>4. /\ ErrorsAt \in [Procs -> Nat] /\ ErrorsAt' \in [Procs -> Nat] /\ IsFiniteSet(Procs)
        /\ onErrors \in Nat /\ failures \in Nat
    BY <1>1, CountsTyped, CountsTypedNext, Constants DEF ErrorsPlaced, CountsAreNumbers
  (* One place changes. *)
  <1>5. ASSUME NEW n \in Procs, NEW k \in Nat, \A m \in Procs \ {n} : ErrorsAt'[m] = ErrorsAt[m]
        PROVE  /\ Total(ErrorsAt) \in Nat /\ Total(ErrorsAt') \in Nat
               /\ ErrorsAt'[n] = ErrorsAt[n] + k => Total(ErrorsAt') = Total(ErrorsAt) + k
               /\ ErrorsAt[n] = ErrorsAt'[n] + k => Total(ErrorsAt) = Total(ErrorsAt') + k
    <2> DEFINE f == ErrorsAt
               g == ErrorsAt'
    <2>1. f \in [Procs -> Nat] /\ g \in [Procs -> Nat] /\ \A m \in Procs \ {n} : g[m] = f[m]
      BY <1>4, <1>5
    <2> HIDE DEF f, g
    <2>2. Total(f) \in Nat /\ Total(g) \in Nat /\ Total(g) + f[n] = Total(f) + g[n]
      BY <1>4, <2>1, TotalChange
    <2>3. f[n] \in Nat /\ g[n] \in Nat
      BY <2>1
    <2>4. /\ g[n] = f[n] + k => Total(g) = Total(f) + k
          /\ f[n] = g[n] + k => Total(f) = Total(g) + k
      BY <2>2, <2>3
    <2>5. QED
      BY <2>2, <2>4 DEF f, g
  (* Nothing changes. *)
  <1>6. ASSUME ErrorsAt' = ErrorsAt, onErrors' = onErrors, failures' = failures
        PROVE  onErrors' + Total(ErrorsAt') = failures'
    BY <1>3, <1>6
  <1> DEFINE Sys(n) == Cardinality(MarksAt(inbox[n].sys, UpErrors))
             Leaving(n) == Cardinality(MarksAt(out[n], ErrorsLeaving))
  <1>7. /\ \A n \in Procs : Sys(n) \in Nat /\ Leaving(n) \in Nat /\ InHand(n) \in {0, 1}
        /\ \A n \in Procs : Sys(n)' \in Nat /\ Leaving(n)' \in Nat /\ InHand(n)' \in {0, 1}
    BY <1>1, CountsTyped, CountsTypedNext DEF CountsAreNumbers
  <1>8. /\ \A n \in Procs : ErrorsAt[n] = Sys(n) + Leaving(n) + InHand(n)
        /\ \A n \in Procs : ErrorsAt'[n] = Sys(n)' + Leaving(n)' + InHand(n)'
    BY DEF ErrorsAt
  <1> HIDE DEF Sys, Leaving
  (* A place nothing happens to. *)
  <1>9. ASSUME NEW m \in Procs, Sys(m)' = Sys(m), out'[m] = out[m], npc'[m] = npc[m],
               cur'[m] = cur[m]
        PROVE  ErrorsAt'[m] = ErrorsAt[m]
    <2>1. Leaving(m)' = Leaving(m) /\ InHand(m)' = InHand(m)
      BY <1>9 DEF Leaving, InHand
    <2>2. QED
      BY <1>8, <1>9, <2>1
  <1>10. ASSUME NEW n \in Procs, NodePop(n)
         PROVE  onErrors' + Total(ErrorsAt') = failures'
    <2>1. /\ ~IsEmpty(inbox[n]) /\ npc[n] = "pop" /\ npc'[n] = "process"
          /\ cur'[n] = Front(inbox[n]) /\ inbox'[n] = PopFront(inbox[n])
          /\ out' = out
          /\ \A m \in Procs \ {n} : inbox'[m] = inbox[m] /\ npc'[m] = npc[m] /\ cur'[m] = cur[m]
      BY <1>1, <1>10 DEF NodePop, InboxTyped, NodesTyped
    <2>2. Sys(n) = Sys(n)' + (IF Front(inbox[n]) \in UpErrors THEN 1 ELSE 0)
      <3> DEFINE in == inbox[n]
      <3>1. in \in InboxSet(ItemSet) /\ NoneBesides(in, ItemSet, UpErrors) /\ ~IsEmpty(in)
        BY <1>1, <2>1 DEF InboxTyped, ErrorsPlaced
      <3> HIDE DEF in
      <3>2. ~IsEmpty(in) =>
              /\ NoneBesides(PopFront(in), ItemSet, UpErrors)
              /\ Cardinality(MarksAt(PopFront(in).sys, UpErrors)) \in Nat
              /\ Cardinality(MarksAt(in.sys, UpErrors)) =
                   Cardinality(MarksAt(PopFront(in).sys, UpErrors))
                     + (IF Front(in) \in UpErrors THEN 1 ELSE 0)
        BY <3>1, ErrorsAreSystem, SystemMarks
      <3>3. QED
        BY <2>1, <3>1, <3>2 DEF in, Sys
    <2>3. InHand(n) = 0 /\ InHand(n)' = IF Front(inbox[n]) \in UpErrors THEN 1 ELSE 0
      <3>1. Front(inbox[n]) \in ItemSet
        BY <1>1, <2>1, PopFrontType DEF InboxTyped
      <3>2. QED
        BY <2>1, <3>1 DEF InHand, UpErrors
    <2>4. ErrorsAt'[n] = ErrorsAt[n]
      <3>1. Leaving(n)' = Leaving(n)
        BY <2>1 DEF Leaving
      <3>2. QED
        BY <1>7, <1>8, <2>2, <2>3, <3>1
    <2>5. \A m \in Procs \ {n} : ErrorsAt'[m] = ErrorsAt[m]
      BY <1>9, <2>1 DEF Sys
    <2>6. ErrorsAt' = ErrorsAt /\ onErrors' = onErrors /\ failures' = failures
      BY <1>4, <1>10, <2>4, <2>5 DEF NodePop
    <2>7. QED
      BY <1>6, <2>6
  <1>11. ASSUME NEW n \in Procs, NodeStop(n) \/ NodeDone(n)
         PROVE  onErrors' + Total(ErrorsAt') = failures'
    <2>1. /\ npc[n] \in {"pop", "deliver"} /\ npc'[n] \in {"stopped", "pop"}
          /\ UNCHANGED <<inbox, out, onErrors, failures>>
          /\ \A m \in Procs \ {n} : npc'[m] = npc[m] /\ cur'[m] = cur[m]
      BY <1>1, <1>11 DEF NodeStop, NodeDone, NodesTyped
    <2>2. InHand(n) = 0 /\ InHand(n)' = 0 /\ Sys(n)' = Sys(n) /\ Leaving(n)' = Leaving(n)
      BY <2>1 DEF InHand, Sys, Leaving
    <2>3. \A m \in Procs \ {n} : ErrorsAt'[m] = ErrorsAt[m]
      BY <1>9, <2>1 DEF Sys
    <2>4. ErrorsAt'[n] = ErrorsAt[n]
      BY <1>8, <2>2
    <2>5. ErrorsAt' = ErrorsAt
      BY <1>4, <2>3, <2>4
    <2>6. QED
      BY <1>6, <2>1, <2>5
  <1>12. ASSUME NEW n \in Procs, NodeProcess(n)
         PROVE  onErrors' + Total(ErrorsAt') = failures'
    <2>1. PICK b \in Behaviours :
            /\ out' = [out EXCEPT ![n] = Deliveries(b, cur[n])]
            /\ npc' = [npc EXCEPT ![n] = IF b = "hang" THEN "hung" ELSE "deliver"]
            /\ failures' = IF b = "fail" THEN failures + 1 ELSE failures
      BY <1>12 DEF NodeProcess
    <2>2. /\ npc[n] = "process" /\ npc'[n] # "process" /\ out[n] = <<>>
          /\ out'[n] = Deliveries(b, cur[n]) /\ cur' = cur /\ onErrors' = onErrors
          /\ \A m \in Procs \ {n} : npc'[m] = npc[m] /\ out'[m] = out[m]
      BY <1>1, <1>12, <2>1 DEF NodeProcess, NodesTyped, ErrorsPlaced
    <2>3. \A m \in Procs : inbox'[m].sys = inbox[m].sys
      <3>1. DrainInterruptible(inbox[n]).sys = inbox[n].sys
        BY <1>1 DEF InboxTyped, InboxSet, DrainInterruptible
      <3>2. QED
        BY <1>1, <1>12, <3>1 DEF NodeProcess, InboxTyped
    <2>4. /\ Leaving(n) = 0
          /\ Leaving(n)' = InHand(n) + (IF b = "fail" THEN 1 ELSE 0)
          /\ InHand(n)' = 0 /\ Sys(n)' = Sys(n)
      <3>1. MarksAt(<<>>, ErrorsLeaving) = {} /\ Cardinality({}) = 0
        BY FS_EmptySet DEF MarksAt
      <3>2. Cardinality(MarksAt(Deliveries(b, cur[n]), ErrorsLeaving)) =
              (IF cur[n].kind = "Error" /\ cur[n].dir = "up" THEN 1 ELSE 0)
                + (IF b = "fail" THEN 1 ELSE 0)
        <4>1. cur[n] \in ItemSet
          BY <1>1 DEF NodesTyped
        <4>2. QED
          BY <4>1, DeliveredErrors
      <3>3. InHand(n) = IF cur[n].kind = "Error" /\ cur[n].dir = "up" THEN 1 ELSE 0
        BY <2>2 DEF InHand
      <3>4. QED
        BY <2>2, <2>3, <3>1, <3>2, <3>3 DEF Leaving, InHand, Sys
    <2>5. \A m \in Procs \ {n} : ErrorsAt'[m] = ErrorsAt[m]
      BY <1>9, <2>2, <2>3 DEF Sys
    <2> DEFINE k == IF b = "fail" THEN 1 ELSE 0
    <2>6. ErrorsAt'[n] = ErrorsAt[n] + k /\ k \in Nat
      BY <1>7, <1>8, <2>4
    <2>7. Total(ErrorsAt') = Total(ErrorsAt) + k /\ Total(ErrorsAt) \in Nat
      BY <1>5, <2>5, <2>6
    <2>8. failures' = failures + k
      BY <1>4, <2>1
    <2>9. QED
      BY <1>3, <1>4, <2>2, <2>6, <2>7, <2>8
  (* What a delivery leaves at the node that makes it. *)
  <1>13. ASSUME NEW n \in Procs, out[n] # <<>>, Delivered(n), UNCHANGED <<npc, cur>>
         PROVE  /\ \A m \in Procs \ {n} : out'[m] = out[m]
                /\ Leaving(n) = Leaving(n)'
                     + (IF NextDelivery(n) \in ErrorsLeaving THEN 1 ELSE 0)
                /\ \A m \in Procs : InHand(m)' = InHand(m)
    <2>1. out'[n] = Tail(out[n]) /\ \A m \in Procs \ {n} : out'[m] = out[m]
      BY <1>1, <1>13 DEF Delivered, NodesTyped
    <2>2. Leaving(n) = Leaving(n)'
                         + (IF NextDelivery(n) \in ErrorsLeaving THEN 1 ELSE 0)
      BY <1>1, <1>13, <2>1, DeliveredError DEF Leaving
    <2>3. \A m \in Procs : InHand(m)' = InHand(m)
      BY <1>13 DEF InHand
    <2>4. QED
      BY <2>1, <2>2, <2>3
  <1>14. ASSUME NEW n \in Procs, NodeDeliver(n)
         PROVE  onErrors' + Total(ErrorsAt') = failures'
    <2>1. /\ out[n] # <<>> /\ Delivered(n) /\ UNCHANGED <<npc, cur, onErrors, failures>>
          /\ NextDelivery(n).to # "task"
          /\ \E m \in Procs :
               /\ m = IF NextDelivery(n).to = "down" THEN n + 1 ELSE n - 1
               /\ Push(m, NextDelivery(n).q) \/ IsRefused(m, rootDone)
      BY <1>14 DEF NodeDeliver
    <2>2. PICK m \in Procs : /\ m = IF NextDelivery(n).to = "down" THEN n + 1 ELSE n - 1
                             /\ Push(m, NextDelivery(n).q) \/ IsRefused(m, rootDone)
      BY <2>1
    <2>3. PICK q : q = NextDelivery(n).q
      OBVIOUS
    <2> DEFINE k == IF q \in UpErrors THEN 1 ELSE 0
    <2>4. /\ m # n /\ q \in ItemSet /\ Push(m, q)
          /\ q \in UpErrors <=> NextDelivery(n) \in ErrorsLeaving
      <3>1. q \in ItemSet /\ (q \in UpErrors <=> NextDelivery(n) \in ErrorsLeaving)
        BY <1>1, <2>1, <2>3, DeliveryTyped, DeliveredError
      <3>2. m # n
        BY <2>2 DEF Procs
      <3>3. Push(m, q)
        BY <1>2, <1>3, <2>2, <2>3 DEF IsRefused
      <3>4. QED
        BY <3>1, <3>2, <3>3
    <2>5. /\ \A p \in Procs \ {m} : Sys(p)' = Sys(p)
          /\ Sys(m)' = Sys(m) + k
      BY <1>1, <2>4, PushErrors DEF Sys
    <2>6. /\ \A p \in Procs \ {n} : out'[p] = out[p]
          /\ Leaving(n) = Leaving(n)' + k
          /\ \A p \in Procs : InHand(p)' = InHand(p)
      BY <1>13, <2>1, <2>4
    <2>7. \A p \in Procs \ {n, m} : ErrorsAt'[p] = ErrorsAt[p]
      BY <1>9, <2>1, <2>5, <2>6
    <2>8. Leaving(m)' = Leaving(m) /\ Sys(n)' = Sys(n)
      BY <2>4, <2>5, <2>6 DEF Leaving
    <2>9. ErrorsAt[n] + ErrorsAt[m] = ErrorsAt'[n] + ErrorsAt'[m]
      <3>1. k \in Nat
        OBVIOUS
      <3>2. /\ Sys(n) \in Nat /\ Sys(m) \in Nat /\ Leaving(m) \in Nat /\ Leaving(n)' \in Nat
            /\ InHand(n) \in Nat /\ InHand(m) \in Nat
        BY <1>7
      <3>3. /\ ErrorsAt[n] = Sys(n) + (Leaving(n)' + k) + InHand(n)
            /\ ErrorsAt[m] = Sys(m) + Leaving(m) + InHand(m)
            /\ ErrorsAt'[n] = Sys(n) + Leaving(n)' + InHand(n)
            /\ ErrorsAt'[m] = (Sys(m) + k) + Leaving(m) + InHand(m)
        BY <1>8, <2>5, <2>6, <2>8
      <3> HIDE DEF k
      <3>4. QED
        BY <3>1, <3>2, <3>3
    <2>10. Total(ErrorsAt') = Total(ErrorsAt)
      <3> DEFINE f == ErrorsAt
                 g == ErrorsAt'
      <3>1. /\ f \in [Procs -> Nat] /\ g \in [Procs -> Nat] /\ f[n] + f[m] = g[n] + g[m]
            /\ \A p \in Procs \ {n, m} : g[p] = f[p]
        BY <1>4, <2>7, <2>9
      <3> HIDE DEF f, g
      <3>2. Total(g) = Total(f)
        BY <1>4, <2>4, <3>1, TotalMove
      <3>3. QED
        BY <3>2 DEF f, g
    <2>11. QED
      BY <1>3, <2>1, <2>10
  <1>15. ASSUME NEW n \in Procs, NodeReachSink(n) \/ NodeCancelsTask(n)
         PROVE  onErrors' + Total(ErrorsAt') = failures'
    <2>1. /\ out[n] # <<>> /\ Delivered(n) /\ UNCHANGED <<npc, cur, inbox, onErrors, failures>>
          /\ NextDelivery(n).to # "up"
      BY <1>15 DEF NodeReachSink, NodeCancelsTask
    <2>2. NextDelivery(n) \notin ErrorsLeaving
      BY <2>1 DEF ErrorsLeaving
    <2>3. \A p \in Procs : Sys(p)' = Sys(p)
      BY <2>1 DEF Sys
    <2>4. /\ Leaving(n) = Leaving(n)' /\ \A p \in Procs : InHand(p)' = InHand(p)
          /\ \A p \in Procs \ {n} : out'[p] = out[p]
      BY <1>7, <1>13, <2>1, <2>2
    <2>5. \A p \in Procs \ {n} : ErrorsAt'[p] = ErrorsAt[p]
      BY <1>9, <2>1, <2>3, <2>4
    <2>6. ErrorsAt'[n] = ErrorsAt[n]
      BY <1>8, <2>3, <2>4
    <2>7. ErrorsAt' = ErrorsAt
      BY <1>4, <2>5, <2>6
    <2>8. QED
      BY <1>6, <2>1, <2>7
  (* What comes up to the source: only an Error is counted, and an            *)
  (* Interruption that is pushed for a request is none.                       *)
  <1>16. ASSUME NEW q \in ItemSet, AtSource(q)
         PROVE  /\ \A p \in Procs : Sys(p)' = Sys(p)
                /\ onErrors' = onErrors + (IF q.kind = "Error" THEN 1 ELSE 0)
    <2>1. UNCHANGED inbox \/ Push(1, Item("Interruption", "down", 0))
      BY <1>16 DEF AtSource
    <2>2. Item("Interruption", "down", 0) \in ItemSet \ UpErrors /\ 1 \in Procs
      BY ItemsMade, Constants DEF Item, UpErrors
    <2>3. \A p \in Procs : Sys(p)' = Sys(p)
      <3>1. CASE UNCHANGED inbox
        BY <3>1 DEF Sys
      <3>2. CASE Push(1, Item("Interruption", "down", 0))
        BY <1>1, <1>7, <2>2, <3>2, PushErrors DEF Sys
      <3>3. QED
        BY <2>1, <3>1, <3>2
    <2>4. QED
      BY <1>4, <1>16, <2>3 DEF AtSource
  <1>17. ASSUME NEW n \in Procs, NodeReachSource(n)
         PROVE  onErrors' + Total(ErrorsAt') = failures'
    <2> DEFINE q == NextDelivery(n).q
               k == IF q.kind = "Error" THEN 1 ELSE 0
    <2>1. /\ out[n] # <<>> /\ Delivered(n) /\ UNCHANGED <<npc, cur, failures>>
          /\ NextDelivery(n).to = "up" /\ AtSource(q)
      BY <1>17 DEF NodeReachSource
    <2>2. q \in ItemSet /\ (q.kind = "Error" <=> NextDelivery(n) \in ErrorsLeaving)
      BY <1>1, <2>1, DeliveryTyped, DeliveredError
    <2> HIDE DEF q
    <2>3. (\A p \in Procs : Sys(p)' = Sys(p)) /\ onErrors' = onErrors + k
      BY <1>16, <2>1, <2>2
    <2>4. /\ Leaving(n) = Leaving(n)' + k /\ \A p \in Procs : InHand(p)' = InHand(p)
          /\ \A p \in Procs \ {n} : out'[p] = out[p]
      BY <1>13, <2>1, <2>2
    <2>5. \A p \in Procs \ {n} : ErrorsAt'[p] = ErrorsAt[p]
      BY <1>9, <2>1, <2>3, <2>4
    <2>6. ErrorsAt[n] = ErrorsAt'[n] + k /\ k \in Nat
      BY <1>7, <1>8, <2>3, <2>4
    <2>7. Total(ErrorsAt) = Total(ErrorsAt') + k /\ Total(ErrorsAt') \in Nat
      BY <1>5, <2>5, <2>6
    <2> HIDE DEF k
    <2>8. QED
      BY <1>3, <1>4, <2>1, <2>3, <2>6, <2>7
  (* Pushes of what is no error. *)
  <1>18. ASSUME UNCHANGED <<npc, cur, out, onErrors, failures>>,
                \/ UNCHANGED inbox
                \/ \E n \in Procs, q \in ItemSet \ UpErrors : Push(n, q)
         PROVE  onErrors' + Total(ErrorsAt') = failures'
    <2>1. ErrorsAt' = ErrorsAt
      <3>1. CASE UNCHANGED inbox
        BY <1>18, <3>1 DEF ErrorsAt, InHand
      <3>2. CASE \E n \in Procs, q \in ItemSet \ UpErrors : Push(n, q)
        BY <1>1, <1>18, <3>2, OtherPush
      <3>3. QED
        BY <1>18, <3>1, <3>2
    <2>2. QED
      BY <1>6, <1>18, <2>1
  <1>19. /\ Item("Cancel", "down", 0) \in ItemSet \ UpErrors
         /\ Item("InterruptionTask", "up", 0) \in ItemSet \ UpErrors
         /\ \A i \in 1..Len(Script) : Item(Script[i], "down", i) \in ItemSet \ UpErrors
    BY ItemsMade DEF Item, UpErrors
  <1>20. CASE FlushPush \/ CancelPushFrame \/ ClientPush
    <2>1. UNCHANGED <<npc, cur, out, onErrors, failures>>
      BY <1>20 DEF FlushPush, CancelPushFrame, ClientPush
    <2>2. UNCHANGED inbox \/ \E n \in Procs, q \in ItemSet \ UpErrors : Push(n, q)
      <3>1. CASE FlushPush
        <4>1. Head(batch) \in ItemSet \ UpErrors
          BY <3>1, HeadTailProperties DEF FlushPush, ErrorsPlaced
        <4>2. QED
          BY <3>1, <4>1, Constants DEF FlushPush
      <3>2. CASE CancelPushFrame
        BY <1>19, <3>2 DEF CancelPushFrame, Typed, RunTyped, Procs
      <3>3. CASE ClientPush
        <4>1. sent \in 1..Len(Script)
          BY <3>3, Constants DEF Typed, QueueTyped, ClientPush
        <4>2. QED
          BY <1>19, <3>3, <4>1, Constants DEF ClientPush
      <3>4. QED
        BY <1>20, <3>1, <3>2, <3>3
    <2>3. QED
      BY <1>18, <2>1, <2>2
  <1>21. ASSUME NEW n \in Procs, HandleRequest(n)
         PROVE  onErrors' + Total(ErrorsAt') = failures'
    <2>1. UNCHANGED <<npc, cur, out, failures>>
      BY <1>21 DEF HandleRequest
    <2> DEFINE q == Item("InterruptionTask", "up", 0)
    <2>2. CASE n = 1
      <3>1. AtSource(q) /\ q \in ItemSet /\ q.kind # "Error"
        BY <1>19, <1>21, <2>2 DEF HandleRequest, Item
      <3> HIDE DEF q
      <3>2. (\A p \in Procs : Sys(p)' = Sys(p)) /\ onErrors' = onErrors
        BY <1>4, <1>16, <3>1
      <3>3. \A p \in Procs : ErrorsAt'[p] = ErrorsAt[p]
        BY <1>9, <2>1, <3>2
      <3>4. QED
        BY <1>4, <1>6, <2>1, <3>2, <3>3
    <2>3. CASE n # 1
      <3>1. n - 1 \in Procs
        BY <2>3, Constants DEF Procs
      <3>2. onErrors' = onErrors /\ (UNCHANGED inbox \/ Push(n - 1, q))
        BY <1>21, <2>3 DEF HandleRequest
      <3>3. QED
        BY <1>18, <1>19, <2>1, <3>1, <3>2
    <2>4. QED
      BY <2>2, <2>3
  <1>22. CASE RunSpawn
    <2>1. \A n \in Procs : InHand(n) = 0 /\ InHand(n)' = 0
      BY <1>22 DEF RunSpawn, Phases, InHand
    <2>2. UNCHANGED <<inbox, out, onErrors, failures>>
      BY <1>22 DEF RunSpawn
    <2>3. \A n \in Procs : Sys(n)' = Sys(n) /\ Leaving(n)' = Leaving(n)
      BY <2>2 DEF Sys, Leaving
    <2>4. \A n \in Procs : ErrorsAt'[n] = ErrorsAt[n]
      BY <1>8, <2>1, <2>3
    <2>5. QED
      BY <1>4, <1>6, <2>2, <2>4
  <1>23. CASE UNCHANGED <<inbox, npc, cur, out, onErrors, failures>>
    BY <1>18, <1>23
  <1>24. ~ForceStop /\ \A n \in Procs : ~NodeUnhang(n)
    BY <1>2 DEF ForceStop, NodeUnhang
  <1>25. QED
    BY <1>10, <1>11, <1>12, <1>14, <1>15, <1>17, <1>20, <1>21, <1>22, <1>23, <1>24
    DEF Next, NodeStep, RunStep, RunStart, RunSetup, FlushTake, RunSelect, CancelAwait, RunJoin,
        RunCleanup, ClientQueue, Cancel, ParentEnds, vars

(* No error is lost or reported twice while a task runs, in a chain of any  *)
(* length, with inboxes of any capacity, whatever the processors between    *)
(* the one that failed and the source do with the ErrorFrame.               *)
THEOREM EachErrorReportedOnce == Spec => []ErrorReportedOnce
  <1> DEFINE Inv == Typed /\ Lifecycle /\ ErrorsPlaced /\ ErrorsCounted
  <1>1. Init => Inv
    BY InitTyped, InitLifecycle, InitErrors
  <1>2. Inv /\ [Next]_vars => Inv'
    BY NextLifecycle, NextErrorsPlaced, NextErrorsCounted DEF Lifecycle
  <1>3. Inv => ErrorReportedOnce
    BY SumOfErrors DEF Typed, ErrorsCounted, ErrorReportedOnce
  <1>4. QED
    BY <1>1, <1>2, <1>3, PTL DEF Spec
=============================================================================

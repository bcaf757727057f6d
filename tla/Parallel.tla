------------------------------ MODULE Parallel ------------------------------
(***************************************************************************)
(* A ParallelPipeline inside a task: fan-out nodes, the processors of the  *)
(* branches and join nodes, each with an inbox and a goroutine of its own  *)
(* (buildParallel, onFan, onJoin, onProc and the functions they call in    *)
(* pipeline/runtime.go).                                                   *)
(*                                                                         *)
(* A fan turns each frame into a wave: it sends the frame with the wave's  *)
(* epoch down every branch and a barrier behind it.  The join keeps what   *)
(* the branches made of a wave until all its barriers are in, and passes   *)
(* the waves on in order.                                                  *)
(*                                                                         *)
(* The nodes and how they are linked are CONSTANTS, so that one module     *)
(* serves flat and nested pipelines.  A goroutine's step is the handling   *)
(* of one item, or one push of what that handling sends; popping and       *)
(* handling are one step because a push that comes between them could as   *)
(* well have come before.                                                  *)
(***************************************************************************)
EXTENDS InboxOps

Seqs == INSTANCE SequencesExt
Fun == INSTANCE Functions

CONSTANTS
  Fans, Joins, Procs,  \* the nodes, by kind
  HeadNode,            \* the node that the client's frames enter
  Down,                \* node -> the nodes below it, in order; <<>>: the sink
  Up,                  \* node -> the node above it, or "source"
  BranchOf,            \* node -> which branch it is the last node of, or 0
  FanOf,               \* join -> its fan
  Width,               \* join -> number of branches
  Script,              \* kinds of the frames the client queues, in order
  Behaviours,          \* what Process may do, see NodeProcess
  MaxFaults            \* bound on the Process calls that fail

Nodes == Fans \cup Joins \cup Procs

ASSUME TopologyAssumption ==
  /\ Fans \cap Joins = {} /\ Fans \cap Procs = {} /\ Joins \cap Procs = {}
  /\ IsFiniteSet(Nodes) /\ Nodes \cap {"source", "sink", "client", "nobody", "none"} = {}
  /\ HeadNode \in Nodes
  /\ Down \in [Nodes -> Seq(Nodes)]
  /\ Up \in [Nodes -> Nodes \cup {"source"}]
  /\ BranchOf \in [Nodes -> Nat]
  /\ FanOf \in [Joins -> Fans]
  /\ Width \in [Joins -> Nat \ {0}]
  /\ \A j \in Joins : Len(Down[FanOf[j]]) = Width[j]
  /\ Script \in Seq(FrameKinds)
  /\ Behaviours \subseteq {"relay", "absorb", "side", "fail"} /\ Behaviours # {}
  /\ MaxFaults \in Nat

(* A flat pipeline is one ParallelPipeline: a fan at the head, a join at    *)
(* the end, and branches of processors between them, each processor in its  *)
(* place of its branch.                                                     *)
FlatWay(way) ==
  /\ Fans = {HeadNode} /\ \E j \in Joins : Joins = {j} /\ Down[j] = <<>>
  /\ \A i \in DOMAIN Down[HeadNode] :
       \/ Down[HeadNode][i] \in Joins /\ \A p \in Procs : way[p].branch # i
       \/ /\ Down[HeadNode][i] \in Procs
          /\ way[Down[HeadNode][i]] = [branch |-> i, place |-> 1]
  /\ \A p \in Procs :
       /\ Len(Down[p]) = 1
       /\ \A r \in Procs : way[r] = way[p] => r = p
       /\ \/ /\ Down[p][1] \in Joins /\ BranchOf[p] = way[p].branch
             /\ \A r \in Procs : way[r].branch = way[p].branch => way[r].place <= way[p].place
          \/ /\ Down[p][1] \in Procs
             /\ way[Down[p][1]] = [branch |-> way[p].branch, place |-> way[p].place + 1]

Ways == [Procs -> [branch : 1..Len(Down[HeadNode]), place : 1..Cardinality(Procs)]]

Flat == \E way \in Ways : FlatWay(way)

VARIABLES
  inbox,     \* node -> its inbox
  out,       \* node -> pushes it has still to do for the item it handles
  fanSeq,    \* fan -> the number of waves so far
  next,      \* join -> the wave it passes on next
  epochs,    \* join -> wave -> [per: branch -> frames, seen: branches done]
  foreign,   \* join -> <<fan, wave>> -> barriers of an outer wave so far
  sent,      \* frames of Script the client has pushed
  order,     \* history: fan -> the frames it made waves of, in order
  arrived,   \* history: the frames that reached the sink, in order
  onErrors,  \* history: calls of the task's OnError
  failures   \* history: Process calls that returned an error

vars == <<inbox, out, fanSeq, next, epochs, foreign, sent, order, arrived,
          onErrors, failures>>

(* A frame's identity (Meta.ID) is the client frame it is or comes from and *)
(* who made it.                                                             *)
Frame(kind, id, by) == [kind |-> kind, id |-> id, by |-> by]

Item(f, dir, ctrl, epoch, fan, branch) ==
  [kind |-> f.kind, id |-> f.id, by |-> f.by, dir |-> dir, ctrl |-> ctrl,
   epoch |-> epoch, fan |-> fan, branch |-> branch]

NoFrame == Frame("none", 0, "nobody")
NoFan == "none"

DownItem(f, epoch, fan, branch) == Item(f, "down", "none", epoch, fan, branch)
UpItem(f) == Item(f, "up", "none", 0, NoFan, 0)
Barrier(epoch, fan, branch) == Item(NoFrame, "down", "barrier", epoch, fan, branch)

FrameOf(q) == Frame(q.kind, q.id, q.by)

Init ==
  /\ inbox = [n \in Nodes |-> EmptyInbox]
  /\ out = [n \in Nodes |-> <<>>]
  /\ fanSeq = [n \in Fans |-> 0]
  /\ next = [n \in Joins |-> 1]
  /\ epochs = [n \in Joins |-> <<>>]
  /\ foreign = [n \in Joins |-> <<>>]
  /\ sent = 0
  /\ order = [n \in Fans |-> <<>>]
  /\ arrived = <<>>
  /\ onErrors = 0
  /\ failures = 0

-----------------------------------------------------------------------------
Push(to, q) == [to |-> to, q |-> q]

(* deliverDown: to every node below, or to the sink.  The last node of a    *)
(* branch marks what it sends to a join with its branch.                    *)
DeliverDown(n, q) ==
  IF Down[n] = <<>>
  THEN IF q.ctrl = "barrier" THEN <<>> ELSE <<Push("sink", q)>>
  ELSE [i \in DOMAIN Down[n] |->
          Push(Down[n][i],
               [q EXCEPT !.branch = IF Down[n][i] \in Joins THEN BranchOf[n] ELSE 0])]

(* deliverUp; a join sends upstream frames to the end of its first branch.  *)
DeliverUp(n, f) == <<Push(Up[n], UpItem(f))>>

(* runNode: the node is done with the last item and takes the next;         *)
(* handling it leads to the pushes p.                                       *)
CanTake(n) == out[n] = <<>> /\ ~IsEmpty(inbox[n])

Taken(n) == Front(inbox[n])
TakeAnd(n, p) == out' = [out EXCEPT ![n] = p]
PopOnly(n) == inbox' = [inbox EXCEPT ![n] = PopFront(@)]

-----------------------------------------------------------------------------
(* onFan *)

(* To branch i goes the item with its branch. *)
ToBranches(n, Of(_)) == [i \in DOMAIN Down[n] |-> Push(Down[n][i], Of(i))]

FanForwards(n) ==
  LET q == Taken(n)
  IN /\ q.dir = "up" \/ q.ctrl = "barrier"
     /\ TakeAnd(n, IF q.dir = "up" THEN DeliverUp(n, FrameOf(q))
                   ELSE ToBranches(n, LAMBDA i : [q EXCEPT !.branch = i]))
     /\ PopOnly(n)
     /\ UNCHANGED <<fanSeq, next, epochs, foreign, sent, order, arrived, onErrors, failures>>

FanWave_BarriersFirst(n) ==
  LET q == Taken(n)
      e == fanSeq[n] + 1
  IN /\ q.dir = "down" /\ q.ctrl = "none"
     /\ TakeAnd(n, ToBranches(n, LAMBDA i : Barrier(e, n, i)) \o
                   ToBranches(n, LAMBDA i : DownItem(FrameOf(q), e, n, i)))
     /\ PopOnly(n)
     /\ fanSeq' = [fanSeq EXCEPT ![n] = e]
     /\ order' = [order EXCEPT ![n] = Append(@, FrameOf(q))]
     /\ UNCHANGED <<next, epochs, foreign, sent, arrived, onErrors, failures>>

FanWave_EitherDirection(n) ==
  LET q == Taken(n)
      e == fanSeq[n] + 1
  IN /\ q.ctrl = "none"
     /\ TakeAnd(n, ToBranches(n, LAMBDA i : DownItem(FrameOf(q), e, n, i)) \o
                   ToBranches(n, LAMBDA i : Barrier(e, n, i)))
     /\ PopOnly(n)
     /\ fanSeq' = [fanSeq EXCEPT ![n] = e]
     /\ order' = [order EXCEPT ![n] = Append(@, FrameOf(q))]
     /\ UNCHANGED <<next, epochs, foreign, sent, arrived, onErrors, failures>>

(* A frame becomes a wave of this fan, whatever wave it belonged to. *)
FanWave(n) ==
  LET q == Taken(n)
      e == fanSeq[n] + 1
  IN /\ q.dir = "down" /\ q.ctrl = "none"
     /\ TakeAnd(n, ToBranches(n, LAMBDA i : DownItem(FrameOf(q), e, n, i)) \o
                   ToBranches(n, LAMBDA i : Barrier(e, n, i)))
     /\ PopOnly(n)
     /\ fanSeq' = [fanSeq EXCEPT ![n] = e]
     /\ order' = [order EXCEPT ![n] = Append(@, FrameOf(q))]
     /\ UNCHANGED <<next, epochs, foreign, sent, arrived, onErrors, failures>>

-----------------------------------------------------------------------------
(* onProc *)

NodeBarrier(n) ==
  /\ Taken(n).ctrl = "barrier"
  /\ TakeAnd(n, DeliverDown(n, Taken(n)))
  /\ PopOnly(n)
  /\ UNCHANGED <<fanSeq, next, epochs, foreign, sent, order, arrived, onErrors, failures>>

(* What Process emits for a frame:                                          *)
(*   "relay"  the frame itself, the way it was going                        *)
(*   "side"   the frame and one it makes itself, downstream                 *)
(*   "absorb" nothing                                                       *)
(*   "fail"   nothing, and it returns an error                              *)
(* The runtime forwards what must not be lost.                              *)
Relayed(b, q) ==
  \/ b \in {"relay", "side"}
  \/ q.dir = "down" /\ AutoForwardDown(q.kind)
  \/ q.dir = "up" /\ AutoForwardUp(q.kind)

SideFrame(n, q) == Frame("Text", q.id, n)

Emitted(n, b, q) ==
  (IF b = "side" /\ q.dir = "down"
   THEN DeliverDown(n, DownItem(SideFrame(n, q), q.epoch, q.fan, 0)) ELSE <<>>)
  \o (IF b = "fail" THEN DeliverUp(n, Frame("Error", 0, n)) ELSE <<>>)
  \o (CASE ~Relayed(b, q) -> <<>>
        [] Relayed(b, q) /\ q.dir = "up" -> DeliverUp(n, FrameOf(q))
        [] Relayed(b, q) /\ q.dir = "down" ->
             DeliverDown(n, DownItem(FrameOf(q), q.epoch, q.fan, 0)))

NodeProcess(n) ==
  LET q == Taken(n)
  IN /\ q.ctrl = "none"
     /\ \E b \in Behaviours :
          /\ TakeAnd(n, Emitted(n, b, q))
          /\ b = "fail" => failures < MaxFaults
          /\ failures' = IF b = "fail" THEN failures + 1 ELSE failures
     /\ inbox' = [inbox EXCEPT ![n] =
                    IF q.kind = "Interruption" THEN DrainInterruptible(PopFront(@))
                    ELSE PopFront(@)]
     /\ UNCHANGED <<fanSeq, next, epochs, foreign, sent, order, arrived, onErrors>>

-----------------------------------------------------------------------------
(* onJoin *)

(* mergeEpoch: the frames of all branches, branch by branch, each once; the *)
(* first Start, End or Cancel among them moves to the front or the end.     *)
DedupeFrames(s) ==
  KeepAt(s, {i \in DOMAIN s : \A j \in 1..i-1 : s[j] # s[i]})

MergeEpoch_KeepsCopies(per) ==
  LET all == Seqs!FlattenSeq(per)
      syncAt == {i \in DOMAIN all : IsSyncFrame(all[i].kind)}
      syncf == all[Nth(syncAt, 1)]
      others == KeepAt(all, {i \in DOMAIN all : all[i] # syncf})
  IN CASE syncAt = {} -> all
       [] syncAt # {} /\ syncf.kind = "Start" -> <<syncf>> \o others
       [] syncAt # {} /\ syncf.kind # "Start" -> Append(others, syncf)

MergeEpoch_SyncInPlace(per) == DedupeFrames(Seqs!FlattenSeq(per))

MergeEpoch(per) ==
  LET all == Seqs!FlattenSeq(per)
      syncAt == {i \in DOMAIN all : IsSyncFrame(all[i].kind)}
      syncf == all[Nth(syncAt, 1)]
      others == DedupeFrames(KeepAt(all, {i \in DOMAIN all : all[i] # syncf}))
  IN CASE syncAt = {} -> DedupeFrames(all)
       [] syncAt # {} /\ syncf.kind = "Start" -> <<syncf>> \o others
       [] syncAt # {} /\ syncf.kind # "Start" -> Append(others, syncf)

NoBuf(n) == [per |-> [b \in 1..Width[n] |-> <<>>], seen |-> {}]

Buf(n, e) == IF e \in DOMAIN epochs[n] THEN epochs[n][e] ELSE NoBuf(n)

(* The wave's buffer after the item: the code ignores branches out of range.*)
Buffered(n, q) ==
  LET b == Buf(n, q.epoch)
  IN IF q.branch \notin 1..Width[n] THEN b
     ELSE IF q.ctrl = "barrier" THEN [b EXCEPT !.seen = @ \cup {q.branch}]
     ELSE [b EXCEPT !.per[q.branch] = Append(@, FrameOf(q))]

Complete(n, b) == Cardinality(b.seen) >= Width[n]

(* Upstream frames go to the end of the first branch; a frame of no wave    *)
(* (one that a join above passed on, or a handle pushed) goes straight on.  *)
JoinForwards(n) ==
  LET q == Taken(n)
  IN /\ q.dir = "up" \/ (q.epoch = 0 /\ q.ctrl = "none")
     /\ TakeAnd(n, IF q.dir = "up" THEN DeliverUp(n, FrameOf(q))
                   ELSE DeliverDown(n, DownItem(FrameOf(q), 0, NoFan, 0)))
     /\ PopOnly(n)
     /\ UNCHANGED <<fanSeq, next, epochs, foreign, sent, order, arrived, onErrors, failures>>

(* forwardForeign: a barrier of an outer wave goes on once it has come      *)
(* through every branch.                                                    *)
JoinForeign(n) ==
  LET q == Taken(n)
      k == <<q.fan, q.epoch>>
      count == (IF k \in DOMAIN foreign[n] THEN foreign[n][k] ELSE 0) + 1
      others == DOMAIN foreign[n] \ {k}
  IN /\ q.ctrl = "barrier" /\ q.fan # FanOf[n]
     /\ TakeAnd(n, IF count >= Width[n]
                   THEN DeliverDown(n, Barrier(q.epoch, q.fan, 0)) ELSE <<>>)
     /\ PopOnly(n)
     /\ foreign' = [foreign EXCEPT ![n] =
                      [x \in others \cup (IF count >= Width[n] THEN {} ELSE {k}) |->
                         IF x = k THEN count ELSE @[x]]]
     /\ UNCHANGED <<fanSeq, next, epochs, sent, order, arrived, onErrors, failures>>

(* A frame or barrier of a wave: it is kept, and every complete wave whose  *)
(* turn it is goes on, as frames of no wave.                                *)
JoinWave_SystemFramesPass(n) ==
  LET q == Taken(n)
      b == Buffered(n, q)
      frames == MergeEpoch(b.per)
      Send(fs) == Seqs!FlattenSeq([i \in DOMAIN fs |->
                      DeliverDown(n, DownItem(fs[i], 0, NoFan, 0))])
      Set(bufs) == epochs' = [epochs EXCEPT ![n] = bufs]
      passes == q.ctrl = "none" /\ IsSystem(q.kind)
  IN /\ q.dir = "down" /\ q.epoch # 0 /\ ~(q.ctrl = "barrier" /\ q.fan # FanOf[n])
     /\ CASE passes -> TakeAnd(n, Send(<<FrameOf(q)>>)) /\ UNCHANGED <<epochs, next>>
          [] ~passes /\ Complete(n, b) ->
               /\ TakeAnd(n, Send(frames))
               /\ Set([e \in DOMAIN epochs[n] \ {q.epoch} |-> epochs[n][e]])
               /\ next' = [next EXCEPT ![n] = @ + 1]
          [] ~passes /\ ~Complete(n, b) ->
               /\ TakeAnd(n, <<>>)
               /\ Set([e \in DOMAIN epochs[n] \cup {q.epoch} |->
                         IF e = q.epoch THEN b ELSE epochs[n][e]])
               /\ UNCHANGED next
     /\ PopOnly(n)
     /\ UNCHANGED <<fanSeq, foreign, sent, order, arrived, onErrors, failures>>

JoinWave(n) ==
  LET q == Taken(n)
      bufs == [e \in DOMAIN epochs[n] \cup {q.epoch} |->
                 IF e = q.epoch THEN Buffered(n, q) ELSE epochs[n][e]]
      ready == {e \in DOMAIN bufs :
                  \A x \in next[n]..e : x \in DOMAIN bufs /\ Complete(n, bufs[x])}
               \ 1..next[n] - 1
      frames == Seqs!FlattenSeq([i \in 1..Cardinality(ready) |->
                              MergeEpoch(bufs[next[n] + i - 1].per)])
  IN /\ q.dir = "down" /\ q.epoch # 0 /\ ~(q.ctrl = "barrier" /\ q.fan # FanOf[n])
     /\ TakeAnd(n, Seqs!FlattenSeq([i \in DOMAIN frames |->
                       DeliverDown(n, DownItem(frames[i], 0, NoFan, 0))]))
     /\ PopOnly(n)
     /\ epochs' = [epochs EXCEPT ![n] = [e \in DOMAIN bufs \ ready |-> bufs[e]]]
     /\ next' = [next EXCEPT ![n] = @ + Cardinality(ready)]
     /\ UNCHANGED <<fanSeq, foreign, sent, order, arrived, onErrors, failures>>

-----------------------------------------------------------------------------
(* One push of what a node still has to send. *)
NodePush(n) ==
  /\ out[n] # <<>>
  /\ LET p == Head(out[n])
     IN \/ /\ p.to \in Nodes
           /\ ~Blocks(inbox[p.to], p.q)
           /\ inbox' = [inbox EXCEPT ![p.to] = Enqueue(@, p.q)]
           /\ UNCHANGED <<arrived, onErrors>>
        \/ /\ p.to = "sink"
           /\ arrived' = Append(arrived, FrameOf(p.q))
           /\ UNCHANGED <<inbox, onErrors>>
        \/ /\ p.to = "source"
           /\ onErrors' = IF p.q.kind = "Error" THEN onErrors + 1 ELSE onErrors
           /\ UNCHANGED <<inbox, arrived>>
  /\ out' = [out EXCEPT ![n] = Tail(@)]
  /\ UNCHANGED <<fanSeq, next, epochs, foreign, sent, order, failures>>

(* The client queues the frames of the script one after the other. *)
ClientPush ==
  /\ sent < Len(Script)
  /\ LET q == DownItem(Frame(Script[sent + 1], sent + 1, "client"), 0, NoFan, 0)
     IN /\ ~Blocks(inbox[HeadNode], q)
        /\ inbox' = [inbox EXCEPT ![HeadNode] = Enqueue(@, q)]
  /\ sent' = sent + 1
  /\ UNCHANGED <<out, fanSeq, next, epochs, foreign, order, arrived, onErrors, failures>>

NodeStep(n) ==
  \/ n \in Fans /\ CanTake(n) /\ (FanForwards(n) \/ FanWave(n))
  \/ n \in Procs /\ CanTake(n) /\ (NodeBarrier(n) \/ NodeProcess(n))
  \/ n \in Joins /\ CanTake(n) /\ (JoinForwards(n) \/ JoinForeign(n) \/ JoinWave(n))
  \/ NodePush(n)

Next == ClientPush \/ \E n \in Nodes : NodeStep(n)

(* While some node goroutine can run, one does: each handles finitely many  *)
(* items, so no fairness between them is needed.  The client may stop.      *)
Fairness == WF_vars(\E n \in Nodes : NodeStep(n))

Spec == Init /\ [][Next]_vars /\ Fairness

-----------------------------------------------------------------------------
ItemSet == [kind : FrameKinds \cup {"none"}, id : Nat, by : Nodes \cup {"client", "nobody"},
            dir : {"down", "up"}, ctrl : {"none", "barrier"},
            epoch : Nat, fan : Fans \cup {NoFan}, branch : Nat]

LaneItems(n) ==
  {inbox[n].sys[i] : i \in DOMAIN inbox[n].sys}
    \cup {inbox[n].up[i] : i \in DOMAIN inbox[n].up}
    \cup {inbox[n].down[i] : i \in DOMAIN inbox[n].down}

(* Everything on its way between two nodes. *)
Moving == UNION {LaneItems(n) \cup {out[n][i].q : i \in DOMAIN out[n]} : n \in Nodes}

(* Every variable has its type, and a join keeps no wave it has passed on:  *)
(* no frame or barrier comes after its wave was complete, so js.epochs does *)
(* not grow for good.                                                       *)
TypeOK ==
  /\ Moving \subseteq ItemSet
  /\ \A n \in Nodes : Len(inbox[n].down) <= DataMax
  /\ \A n \in Fans : fanSeq[n] \in Nat /\ Len(order[n]) = fanSeq[n]
  /\ \A n \in Joins :
       /\ next[n] \in 1..fanSeq[FanOf[n]] + 1
       /\ DOMAIN epochs[n] \subseteq next[n]..fanSeq[FanOf[n]]
  /\ sent \in 0..Len(Script)

(* The wave a frame belongs to, at the fan that is the head. *)
WaveOf(f) == CHOOSE e \in DOMAIN order[HeadNode] : order[HeadNode][e].id = f.id

(* The branches do not mix waves up: whatever one branch does faster than   *)
(* the other, frames leave the join in the order in which the fan took the  *)
(* frames they come from.                                                   *)
WavesInOrder ==
  \A i, j \in DOMAIN arrived : i < j => WaveOf(arrived[i]) <= WaveOf(arrived[j])

(* The join dedupes a wave: a frame that went through several branches      *)
(* leaves the parallel pipeline once (REFERENCE.md: "the join dedupes a     *)
(* wave by frames.Meta.ID").                                                *)
OncePerWave ==
  \A i, j \in DOMAIN arrived : i # j => arrived[i] # arrived[j]

(* Start comes before everything a branch made of it, End and Cancel after  *)
(* it: what a branch emits because the task ends still reaches the sink     *)
(* before the End that stops the task.                                      *)
SyncPlaced ==
  \A i, j \in DOMAIN arrived :
    (i < j /\ arrived[i].id = arrived[j].id) =>
      /\ arrived[i].kind \notin {"End", "Cancel"}
      /\ arrived[j].kind # "Start"

(* A join passes a wave on only when no part of it can still come: nothing  *)
(* of an earlier wave is in any inbox or about to be pushed, also when an   *)
(* Interruption overtook it and drained the branches.                       *)
WaveComplete ==
  \A n \in Joins : \A q \in Moving :
    (q.fan = FanOf[n] /\ q.epoch # 0) => q.epoch >= next[n]

(* No error is lost or doubled on its way up through a join and a branch    *)
(* (the join sends it into one branch only).                                *)
ErrorsGoingUp ==
  LET IsError(q) == q.kind = "Error" /\ q.dir = "up"
      Queued(n) == Cardinality({i \in DOMAIN inbox[n].sys : IsError(inbox[n].sys[i])})
      Leaving(n) == Cardinality({i \in DOMAIN out[n] : IsError(out[n][i].q)})
  IN [n \in Nodes |-> Queued(n) + Leaving(n)]

ErrorsReportedOnce ==
  failures = onErrors + Fun!FoldFunction(LAMBDA x, y : x + y, 0, ErrorsGoingUp)

(* Every wave is passed on in the end: no branch that drops a frame, fails  *)
(* or is drained by an Interruption makes the join wait forever, and no     *)
(* full lane stops the nodes for good.  The joins catch up with their fans  *)
(* again and again.                                                         *)
WavesReleased == []<>(\A n \in Joins : next[n] > fanSeq[FanOf[n]])
=============================================================================

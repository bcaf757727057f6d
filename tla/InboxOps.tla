------------------------------ MODULE InboxOps ------------------------------
(***************************************************************************)
(* The operations of one processor inbox (pipeline/inbox.go) as functions  *)
(* from inbox values to inbox values.  Every operation of the code runs    *)
(* with the inbox mutex held, so each is one indivisible change; the       *)
(* modules Inbox and InboxCond add the goroutines and the waiting, and     *)
(* PipelineTask, Parallel and VoiceTurn compose many inboxes.                *)
(*                                                                         *)
(* An item is a record with at least the fields                            *)
(*   kind  the frame's kind ("none" for a barrier, which has no frame),    *)
(*   dir   "down" or "up",                                                 *)
(*   ctrl  "none" or "barrier".                                            *)
(* The lanes are sequences, oldest item first.                             *)
(*                                                                         *)
(* An operator X_... is X with a plausible mistake in it.  Nothing uses    *)
(* it: putting it in X's place must make one of the properties fail.       *)
(***************************************************************************)
EXTENDS Integers, Sequences, FiniteSets, Frames

CONSTANTS DataMax,   \* TaskOptions.DataQueueSize: capacity of the down lane
          AudioMax   \* TaskOptions.AudioSysQueueMax: input-audio frames kept

ASSUME BoundsAssumption == DataMax \in Nat \ {0} /\ AudioMax \in Nat \ {0}

EmptyInbox ==
  [sys |-> <<>>, up |-> <<>>, down |-> <<>>,
   audioN |-> 0, closed |-> FALSE, hiWater |-> 0, audioDrop |-> 0]

-----------------------------------------------------------------------------
(* Subsequences.  SelectSeq is defined by recursion, which the proof system *)
(* cannot unfold for an arbitrary length, so a subsequence is described by  *)
(* the set K of positions it keeps: its k-th element is at the k-th         *)
(* smallest position.                                                       *)

Rank(K, i) == Cardinality({j \in K : j <= i})

Nth(K, k) == CHOOSE i \in K : Rank(K, i) = k

KeepAt(s, K) == [k \in 1..Cardinality(K) |-> s[Nth(K, k)]]

-----------------------------------------------------------------------------
Lane(q) ==
  IF q.ctrl = "none" /\ IsSystem(q.kind) THEN "sys"
  ELSE IF q.dir = "up" THEN "up" ELSE "down"

IsAudio(q) == q.kind = "InputAudio"

(* An interruption drain drops the item. *)
Droppable(q) == q.ctrl = "none" /\ Interruptible(q.kind)

Blocks_OffByOne(in, q) == Lane(q) = "down" /\ Len(in.down) > DataMax

Blocks(in, q) == Lane(q) = "down" /\ Len(in.down) >= DataMax

IsEmpty(in) == in.sys = <<>> /\ in.up = <<>> /\ in.down = <<>>

AudioAt(s) == {i \in DOMAIN s : IsAudio(s[i])}

ShedAt_OffByOne(in) == {i \in AudioAt(in.sys) :
                          Rank(AudioAt(in.sys), i) <= in.audioN - AudioMax}

(* The positions of the frames the loop around dropOldestAudioLocked        *)
(* removes: the oldest ones, one for each unit the counter is over          *)
(* AudioMax - 1, as long as there are any.                                  *)
ShedAt(in) == {i \in AudioAt(in.sys) :
                 Rank(AudioAt(in.sys), i) <= in.audioN - AudioMax + 1}

Shed(in) ==
  [in EXCEPT !.sys = KeepAt(@, DOMAIN in.sys \ ShedAt(in)),
             !.audioN = @ - Cardinality(ShedAt(in)),
             !.audioDrop = @ + Cardinality(ShedAt(in))]

(* The part of push that runs once the item may enter its lane. *)
Enqueue(in, q) ==
  CASE Lane(q) = "sys" /\ IsAudio(q) ->
         [Shed(in) EXCEPT !.audioN = @ + 1, !.sys = Append(@, q)]
    [] Lane(q) = "sys" /\ ~IsAudio(q) -> [in EXCEPT !.sys = Append(@, q)]
    [] Lane(q) = "up" -> [in EXCEPT !.up = Append(@, q)]
    [] Lane(q) = "down" ->
         [in EXCEPT !.down = Append(@, q),
                    !.hiWater = IF Len(in.down) + 1 > @
                                THEN Len(in.down) + 1 ELSE @]

(* pop: system frames first, then upstream, then downstream data. *)
NextLane(in) ==
  IF in.sys # <<>> THEN "sys" ELSE IF in.up # <<>> THEN "up" ELSE "down"

Front(in) ==
  CASE NextLane(in) = "sys" -> Head(in.sys)
    [] NextLane(in) = "up" -> Head(in.up)
    [] NextLane(in) = "down" -> Head(in.down)

PopFront(in) ==
  CASE NextLane(in) = "sys" ->
         [in EXCEPT !.sys = Tail(@),
                    !.audioN = IF IsAudio(Head(in.sys)) /\ @ > 0
                               THEN @ - 1 ELSE @]
    [] NextLane(in) = "up" -> [in EXCEPT !.up = Tail(@)]
    [] NextLane(in) = "down" -> [in EXCEPT !.down = Tail(@)]

KeptAt_BarriersOnly(s) == {i \in DOMAIN s : s[i].ctrl = "barrier"}

KeptAt_NoBarriers(s) == {i \in DOMAIN s : s[i].ctrl = "none" /\ ~Droppable(s[i])}

KeptAt(s) == {i \in DOMAIN s : ~Droppable(s[i])}

DrainInterruptible_DownOnly(in) ==
  [in EXCEPT !.down = KeepAt(@, KeptAt(@))]

DrainInterruptible_Reversed(in) ==
  LET KeptBackwards(s) ==
        [k \in 1..Cardinality(KeptAt(s)) |->
           s[Nth(KeptAt(s), Cardinality(KeptAt(s)) + 1 - k)]]
  IN [in EXCEPT !.down = KeptBackwards(@), !.up = KeptBackwards(@)]

DrainInterruptible(in) ==
  [in EXCEPT !.down = KeepAt(@, KeptAt(@)), !.up = KeepAt(@, KeptAt(@))]

Closed(in) == [in EXCEPT !.closed = TRUE]
=============================================================================

--------------------------- MODULE VoiceTurnProofs ---------------------------
(***************************************************************************)
(* What is said in a conversation, for any number of transcripts, interim  *)
(* transcripts, pieces of an answer and failing requests, and any capacity *)
(* of the inboxes: the old turn is silent after a barge-in, an answer is   *)
(* never made of two, and the bot is not taken to be speaking for good.    *)
(* The inductive invariant is ConversationInv, of these parts:             *)
(*   - Typed, FlagsTyped: every variable has its type, and whoever has     *)
(*     something to push holds frames for the inbox it pushes to;          *)
(*   - Turns: turns go down the chain one node at a time, so that a node is*)
(*     behind the one above it by the interruptions between the two, and   *)
(*     nothing on its way to a node is of an earlier turn than the node's; *)
(*   - InOrder: what the live completion has left to say, what is on its   *)
(*     way from it and what the two aggregators have collected make answers*)
(*     of one run each, in order, also when they are read as one stream;   *)
(*   - OneAlive: no completion is alive but the one LLM.cancel ends;       *)
(*   - Synthesizing: a synthesis that has made the bot speak has yet to    *)
(*     make it silent again.                                               *)
(***************************************************************************)
EXTENDS VoiceTurn, InboxOpsProofs

Kinds ==
  {"Interruption", "LLMRun", "InterimTranscription", "LLMFullResponseStart", "LLMText",
   "Text", "LLMFullResponseEnd", "TTSAudio", "BotSpeaking", "BotStoppedSpeaking", "Error"}

IsText(q) == q.kind \in {"LLMText", "Text"}
IsStart(q) == q.kind = "LLMFullResponseStart"

(* The frames of the conversation.  A piece of text is a frame of its own,  *)
(* and what is said with one frame is the text of one run.                  *)
ItemSet ==
  {q \in [kind : Kinds, run : 0..Transcripts, text : Texts, dir : {"down"}, ctrl : {"none"}] :
     /\ OfOneRun(q.text)
     /\ IsText(q) => Len(q.text) = 1
     /\ IsSystem(q.kind) => q.run = 0}

(* What the services' goroutines push; interruptions come from nodes only.  *)
ServiceItems == {q \in ItemSet : q.kind # "Interruption"}

(* What the user aggregator sends to the LLM, and the LLM's own node on.    *)
UserItems ==
  {q \in ItemSet : q.kind \in {"LLMRun", "Interruption", "InterimTranscription"}
                   /\ (q.kind # "LLMRun" => q.run = 0)}
PassedItems == {q \in ItemSet : q.run = 0 /\ ~IsText(q) /\ ~IsStart(q)}

ItemsAt(n) == IF n = "llm" THEN UserItems ELSE ItemSet

Pushes(n, S) == [op : {"push"}, to : {n}, q : S]
Accesses(ops) == {Do(op) : op \in ops}

OpsAt(n) ==
  CASE n = "agg" -> Pushes("llm", UserItems) \cup Accesses({"append"})
    [] n = "llm" -> Pushes("asst", PassedItems)
    [] n = "asst" -> Pushes("tts", ItemSet)
    [] n = "tts" -> Pushes("out", ItemSet)
    [] n = "out" -> {}

RunOps(r) == Pushes("asst", {q \in ServiceItems : q.run \in {0, r}})
SynthOps == Pushes("out", ServiceItems) \cup Accesses({"request", "speaking", "silent"})

(* An inbox whose priority lane holds the system frames among S and whose   *)
(* data lane the others; nothing goes upstream.                             *)
Systems(S) == {q \in S : IsSystem(q.kind)}
Data(S) == {q \in S : ~IsSystem(q.kind)}

Holds(in, S) ==
  in \in InboxSet(S) /\ in.up = <<>> /\ in.sys \in Seq(Systems(S)) /\ in.down \in Seq(Data(S))

(* Every variable has its type.                                             *)
InboxTyped == inbox = [n \in Nodes |-> inbox[n]] /\ \A n \in Nodes : Holds(inbox[n], ItemsAt(n))

TodoTyped ==
  /\ todo = [n \in Nodes \cup {"agg"} |-> todo[n]]
  /\ \A n \in Nodes \cup {"agg"} : todo[n] \in Seq(OpsAt(n))
  /\ \A n \in Nodes : Len(todo[n]) <= 1

RunSet(r) ==
  [state : {"none", "begin", "snapshot", "request", "push"}, turn : Nat,
   cancelled : BOOLEAN, known : Nat, todo : Seq(RunOps(r))]

RunsTyped ==
  /\ runs = [r \in Runs |-> runs[r]]
  /\ \A r \in Runs : runs[r] \in RunSet(r) /\ (runs[r].todo # <<>> => runs[r].state = "push")
  /\ cancel \in 0..Transcripts

SynthsTyped == synths \in Seq([turn : Nat, todo : Seq(SynthOps)])

TalkTyped ==
  /\ said \in 0..Transcripts /\ interims \in 0..Interims
  /\ turn \in [Nodes -> Nat]
  /\ messages \in Seq([role : {"user", "assistant"}, run : 0..Transcripts, text : Texts])
  /\ \A i \in DOMAIN messages : OfOneRun(messages[i].text)
  /\ partial \in Texts /\ buffer \in Texts
  /\ played \in Seq([run : 0..Transcripts, text : Texts])
  /\ \A i \in DOMAIN played : OfOneRun(played[i].text)

Typed == InboxTyped /\ TodoTyped /\ RunsTyped /\ SynthsTyped /\ TalkTyped

-----------------------------------------------------------------------------
(* Constants *)

LEMMA Chain ==
  /\ Nodes = {"llm", "asst", "tts", "out"}
  /\ Below["llm"] = "asst" /\ Below["asst"] = "tts" /\ Below["tts"] = "out"
  /\ Others["llm"] = FrameKinds \ {"Interruption", "LLMRun"}
  /\ Others["asst"] = FrameKinds \ {"Interruption", "LLMFullResponseStart", "LLMText",
                                    "LLMFullResponseEnd"}
  /\ Others["tts"] = FrameKinds \ {"Interruption", "LLMFullResponseStart", "LLMText", "Text",
                                   "LLMFullResponseEnd"}
  /\ Others["out"] = FrameKinds \ {"TTSAudio"}
  BY DEF Nodes, Below, Others

(* The system frames of the conversation; all the others can be dropped.    *)
LEMMA KindsAre ==
  ASSUME NEW q \in ItemSet
  PROVE  /\ q.kind \in FrameKinds
         /\ IsSystem(q.kind) <=>
              q.kind \in {"Interruption", "BotSpeaking", "BotStoppedSpeaking", "Error"}
         /\ Droppable(q) <=> ~IsSystem(q.kind)
         /\ ~IsAudio(q) /\ Lane(q) = IF IsSystem(q.kind) THEN "sys" ELSE "down"
  <1>1. q.kind \in Kinds /\ q.dir = "down" /\ q.ctrl = "none"
    BY DEF ItemSet
  <1>2. q.kind \in FrameKinds
    BY <1>1 DEF Kinds, FrameKinds, SystemKinds, DataKinds
  <1>3. IsSystem(q.kind) <=>
          q.kind \in {"Interruption", "BotSpeaking", "BotStoppedSpeaking", "Error"}
    BY <1>1 DEF Kinds, IsSystem, SystemKinds
  <1>4. Interruptible(q.kind) <=> ~IsSystem(q.kind)
    BY <1>1, <1>3 DEF Kinds, Interruptible, UninterruptibleKinds
  <1>5. Droppable(q) <=> ~IsSystem(q.kind)
    BY <1>1, <1>4 DEF Droppable
  <1>6. ~IsAudio(q)
    BY <1>1 DEF Kinds, IsAudio
  <1>7. Lane(q) = IF IsSystem(q.kind) THEN "sys" ELSE "down"
    BY <1>1 DEF Lane
  <1>8. QED
    BY <1>2, <1>3, <1>5, <1>6, <1>7

-----------------------------------------------------------------------------
(* What an append leaves as it was. *)
LEMMA AppendOnly ==
  ASSUME NEW S, NEW s \in Seq(S), NEW x \in S
  PROVE  /\ Append(s, x) \in Seq(S) /\ DOMAIN s = 1..Len(s) /\ Len(s) \in Nat
         /\ DOMAIN Append(s, x) = 1..Len(s) + 1 /\ Append(s, x)[Len(s) + 1] = x
         /\ \A i \in DOMAIN s : Append(s, x)[i] = s[i]
         /\ \A i \in DOMAIN Append(s, x) :
              Append(s, x)[i] = x \/ \E j \in DOMAIN s : Append(s, x)[i] = s[j]
  <1> DEFINE u == Append(s, x)
  <1>1. /\ u \in Seq(S) /\ Len(u) = Len(s) + 1 /\ u[Len(s) + 1] = x
        /\ \A i \in 1..Len(s) : u[i] = s[i]
    BY AppendProperties
  <1>2. DOMAIN s = 1..Len(s) /\ Len(s) \in Nat
    BY LenProperties
  <1> HIDE DEF u
  <1>3. DOMAIN u = 1..Len(s) + 1
    BY <1>1, LenProperties
  <1>4. \A i \in DOMAIN u : i = Len(s) + 1 \/ i \in DOMAIN s
    BY <1>2, <1>3
  <1>5. QED
    BY <1>1, <1>2, <1>3, <1>4 DEF u

-----------------------------------------------------------------------------
(* Inboxes *)

LEMMA EnqueueHolds ==
  ASSUME NEW S \in SUBSET ItemSet, NEW in, Holds(in, S), NEW q \in S
  PROVE  /\ Holds(Enqueue(in, q), S)
         /\ IsSystem(q.kind) =>
              Enqueue(in, q).sys = Append(in.sys, q) /\ Enqueue(in, q).down = in.down
         /\ ~IsSystem(q.kind) =>
              Enqueue(in, q).sys = in.sys /\ Enqueue(in, q).down = Append(in.down, q)
  <1>1. q \in ItemSet
    OBVIOUS
  <1>2. /\ IsSystem(q.kind) => Lane(q) = "sys" /\ ~IsAudio(q)
        /\ ~IsSystem(q.kind) => Lane(q) = "down"
    BY <1>1, KindsAre
  <1>3. in \in InboxSet(S)
    BY DEF Holds
  <1>4. Enqueue(in, q) \in InboxSet(S)
    BY <1>3, EnqueueType
  <1>5. CASE IsSystem(q.kind)
    <2>1. Enqueue(in, q) = [in EXCEPT !.sys = Append(@, q)]
      BY <1>2, <1>5 DEF Enqueue
    <2>2. /\ Enqueue(in, q).sys = Append(in.sys, q) /\ Enqueue(in, q).down = in.down
          /\ Enqueue(in, q).up = in.up
      BY <1>3, <2>1 DEF InboxSet
    <2>3. Append(in.sys, q) \in Seq(Systems(S))
      BY <1>5 DEF Holds, Systems
    <2>4. QED
      BY <1>4, <1>5, <2>2, <2>3 DEF Holds
  <1>6. CASE ~IsSystem(q.kind)
    <2>1. Enqueue(in, q) = [in EXCEPT !.down = Append(@, q),
                              !.hiWater = IF Len(in.down) + 1 > @
                                          THEN Len(in.down) + 1 ELSE @]
      BY <1>2, <1>6 DEF Enqueue
    <2>2. /\ Enqueue(in, q).sys = in.sys /\ Enqueue(in, q).down = Append(in.down, q)
          /\ Enqueue(in, q).up = in.up
      BY <1>3, <2>1 DEF InboxSet
    <2>3. Append(in.down, q) \in Seq(Data(S))
      BY <1>6 DEF Holds, Data
    <2>4. QED
      BY <1>4, <1>6, <2>2, <2>3 DEF Holds
  <1>7. QED
    BY <1>5, <1>6

LEMMA PopHolds ==
  ASSUME NEW S \in SUBSET ItemSet, NEW in, Holds(in, S), ~IsEmpty(in)
  PROVE  /\ Front(in) \in S
         /\ Holds(PopFront(in), S)
         /\ IsSystem(Front(in).kind) =>
              /\ in.sys # <<>> /\ Front(in) = Head(in.sys)
              /\ PopFront(in).sys = Tail(in.sys) /\ PopFront(in).down = in.down
         /\ ~IsSystem(Front(in).kind) =>
              /\ in.sys = <<>> /\ in.down # <<>> /\ Front(in) = Head(in.down)
              /\ PopFront(in).sys = <<>> /\ PopFront(in).down = Tail(in.down)
  <1>1. in \in InboxSet(S) /\ in.up = <<>>
        /\ in.sys \in Seq(Systems(S)) /\ in.down \in Seq(Data(S))
    BY DEF Holds
  <1>2. Front(in) \in S /\ PopFront(in) \in InboxSet(S)
    BY <1>1, PopFrontType
  <1>3. CASE in.sys # <<>>
    <2>1. NextLane(in) = "sys"
      BY <1>3 DEF NextLane
    <2>2. PopFront(in) = [in EXCEPT !.sys = Tail(@),
                            !.audioN = IF IsAudio(Head(in.sys)) /\ @ > 0 THEN @ - 1 ELSE @]
      BY <2>1 DEF PopFront
    <2>3. /\ Front(in) = Head(in.sys) /\ PopFront(in).sys = Tail(in.sys)
          /\ PopFront(in).down = in.down /\ PopFront(in).up = in.up
      BY <1>1, <2>1, <2>2 DEF Front, InboxSet
    <2>4. Head(in.sys) \in Systems(S) /\ Tail(in.sys) \in Seq(Systems(S))
      BY <1>1, <1>3, HeadTailProperties
    <2>5. IsSystem(Front(in).kind)
      BY <2>3, <2>4 DEF Systems
    <2>6. QED
      BY <1>1, <1>2, <1>3, <2>3, <2>4, <2>5 DEF Holds
  <1>4. CASE in.sys = <<>>
    <2>1. NextLane(in) = "down" /\ in.down # <<>>
      BY <1>1, <1>4 DEF NextLane, IsEmpty
    <2>2. PopFront(in) = [in EXCEPT !.down = Tail(@)]
      BY <2>1 DEF PopFront
    <2>3. /\ Front(in) = Head(in.down) /\ PopFront(in).sys = in.sys
          /\ PopFront(in).down = Tail(in.down) /\ PopFront(in).up = in.up
      BY <1>1, <2>1, <2>2 DEF Front, InboxSet
    <2>4. Head(in.down) \in Data(S) /\ Tail(in.down) \in Seq(Data(S))
      BY <1>1, <2>1, HeadTailProperties
    <2>5. ~IsSystem(Front(in).kind)
      BY <2>3, <2>4 DEF Data
    <2>6. QED
      BY <1>1, <1>2, <1>4, <2>1, <2>3, <2>4, <2>5 DEF Holds
  <1>5. QED
    BY <1>3, <1>4

LEMMA DrainHolds ==
  ASSUME NEW S \in SUBSET ItemSet, NEW in, Holds(in, S)
  PROVE  /\ Holds(DrainInterruptible(in), S)
         /\ DrainInterruptible(in).sys = in.sys /\ DrainInterruptible(in).down = <<>>
  <1>1. in \in InboxSet(S) /\ in.up = <<>> /\ in.down \in Seq(Data(S))
    BY DEF Holds
  <1>2. KeptAt(in.up) = {} /\ KeptAt(in.down) = {}
    <2>1. \A i \in DOMAIN in.down : in.down[i] \in ItemSet /\ ~IsSystem(in.down[i].kind)
      BY <1>1, ElementOfSeq, LenProperties DEF Data
    <2>2. \A i \in DOMAIN in.down : Droppable(in.down[i])
      BY <2>1, KindsAre
    <2>3. QED
      BY <1>1, <2>2 DEF KeptAt
  <1>3. \A s : KeepAt(s, {}) = <<>>
    <2>1. Cardinality({}) = 0
      BY FS_EmptySet
    <2>2. QED
      BY <2>1 DEF KeepAt
  <1>4. DrainInterruptible(in) = [in EXCEPT !.down = <<>>, !.up = <<>>]
    BY <1>2, <1>3 DEF DrainInterruptible
  <1>5. /\ DrainInterruptible(in).sys = in.sys /\ DrainInterruptible(in).down = <<>>
        /\ DrainInterruptible(in).up = <<>>
    BY <1>1, <1>4 DEF InboxSet
  <1>6. DrainInterruptible(in) \in InboxSet(S)
    BY <1>1, DrainType
  <1>7. QED
    BY <1>5, <1>6 DEF Holds

(* A push puts an item into one inbox. *)
LEMMA PushKeepsInboxes ==
  ASSUME InboxTyped, NEW n \in Nodes, NEW q \in ItemsAt(n),
         inbox' = [inbox EXCEPT ![n] = Enqueue(@, q)]
  PROVE  /\ InboxTyped'
         /\ \A m \in Nodes \ {n} : inbox'[m] = inbox[m]
         /\ IsSystem(q.kind) =>
              inbox'[n].sys = Append(inbox[n].sys, q) /\ inbox'[n].down = inbox[n].down
         /\ ~IsSystem(q.kind) =>
              inbox'[n].sys = inbox[n].sys /\ inbox'[n].down = Append(inbox[n].down, q)
  <1>1. ItemsAt(n) \in SUBSET ItemSet /\ Holds(inbox[n], ItemsAt(n))
    BY DEF InboxTyped, ItemsAt, UserItems
  <1>2. inbox = [m \in Nodes |-> inbox[m]]
    BY DEF InboxTyped
  <1>3. /\ inbox'[n] = Enqueue(inbox[n], q) /\ \A m \in Nodes \ {n} : inbox'[m] = inbox[m]
        /\ inbox' = [m \in Nodes |-> inbox'[m]]
    BY <1>2
  <1>4. Holds(inbox'[n], ItemsAt(n))
    BY <1>1, <1>3, EnqueueHolds
  <1>5. \A m \in Nodes : Holds(inbox'[m], ItemsAt(m))
    BY <1>3, <1>4 DEF InboxTyped
  <1>6. InboxTyped'
    BY <1>3, <1>5 DEF InboxTyped
  <1>7. /\ IsSystem(q.kind) => Enqueue(inbox[n], q).sys = Append(inbox[n].sys, q)
                               /\ Enqueue(inbox[n], q).down = inbox[n].down
        /\ ~IsSystem(q.kind) => Enqueue(inbox[n], q).sys = inbox[n].sys
                                /\ Enqueue(inbox[n], q).down = Append(inbox[n].down, q)
    BY <1>1, EnqueueHolds
  <1>8. QED
    BY <1>3, <1>6, <1>7

(* What a node's taking an item does to its inbox and its turn.             *)
LEMMA TakeKeepsInboxes ==
  ASSUME Typed, NEW n \in Nodes, NEW kinds, NEW ops, Takes(n, kinds), TakeAndEmit(n, ops)
  PROVE  /\ Taken(n) \in ItemsAt(n) /\ Taken(n) \in ItemSet /\ Taken(n).kind \in kinds
         /\ todo[n] = <<>> /\ todo' = [todo EXCEPT ![n] = ops]
         /\ InboxTyped'
         /\ \A m \in Nodes \ {n} : inbox'[m] = inbox[m] /\ turn'[m] = turn[m]
         /\ turn' \in [Nodes -> Nat]
         /\ turn'[n] = IF Taken(n).kind = "Interruption" THEN turn[n] + 1 ELSE turn[n]
         /\ IsSystem(Taken(n).kind) =>
              /\ inbox[n].sys # <<>> /\ Taken(n) = Head(inbox[n].sys)
              /\ inbox'[n].sys = Tail(inbox[n].sys)
              /\ inbox'[n].down = IF Taken(n).kind = "Interruption" THEN <<>>
                                  ELSE inbox[n].down
         /\ ~IsSystem(Taken(n).kind) =>
              /\ inbox[n].sys = <<>> /\ inbox[n].down # <<>> /\ Taken(n) = Head(inbox[n].down)
              /\ inbox'[n].sys = <<>> /\ inbox'[n].down = Tail(inbox[n].down)
  <1>1. ItemsAt(n) \in SUBSET ItemSet /\ Holds(inbox[n], ItemsAt(n)) /\ ~IsEmpty(inbox[n])
    BY DEF Typed, InboxTyped, ItemsAt, UserItems, Takes
  <1>2. inbox = [m \in Nodes |-> inbox[m]] /\ turn \in [Nodes -> Nat]
    BY DEF Typed, InboxTyped, TalkTyped
  <1> DEFINE P == PopFront(inbox[n])
             q == Front(inbox[n])
             D == DrainInterruptible(P)
  <1>3. /\ q \in ItemsAt(n) /\ Holds(P, ItemsAt(n))
        /\ IsSystem(q.kind) =>
              /\ inbox[n].sys # <<>> /\ q = Head(inbox[n].sys)
              /\ P.sys = Tail(inbox[n].sys) /\ P.down = inbox[n].down
        /\ ~IsSystem(q.kind) =>
              /\ inbox[n].sys = <<>> /\ inbox[n].down # <<>> /\ q = Head(inbox[n].down)
              /\ P.sys = <<>> /\ P.down = Tail(inbox[n].down)
    BY <1>1, PopHolds
  <1>4. Holds(D, ItemsAt(n)) /\ D.sys = P.sys /\ D.down = <<>>
    BY <1>1, <1>3, DrainHolds
  <1>5. Taken(n) = q
    BY DEF Taken
  <1> HIDE DEF P, q, D
  <1>6. q.kind = "Interruption" => IsSystem(q.kind)
    BY <1>1, <1>3, KindsAre
  <1>7. inbox' = [inbox EXCEPT ![n] = IF q.kind = "Interruption" THEN D ELSE P]
    BY <1>5 DEF TakeAndEmit, P, D
  <1>8. /\ inbox'[n] = IF q.kind = "Interruption" THEN D ELSE P
        /\ \A m \in Nodes \ {n} : inbox'[m] = inbox[m]
        /\ inbox' = [m \in Nodes |-> inbox'[m]]
    BY <1>2, <1>7
  <1>9. InboxTyped'
    <2>1. \A m \in Nodes \ {n} : Holds(inbox'[m], ItemsAt(m))
      BY <1>8 DEF Typed, InboxTyped
    <2>2. Holds(inbox'[n], ItemsAt(n))
      BY <1>3, <1>4, <1>8
    <2>3. \A m \in Nodes : Holds(inbox'[m], ItemsAt(m))
      BY <2>1, <2>2
    <2>4. QED
      BY <1>8, <2>3 DEF InboxTyped
  <1>10. /\ turn' \in [Nodes -> Nat]
         /\ turn'[n] = IF q.kind = "Interruption" THEN turn[n] + 1 ELSE turn[n]
         /\ \A m \in Nodes \ {n} : turn'[m] = turn[m]
    BY <1>2, <1>5 DEF TakeAndEmit
  <1>11. /\ todo[n] = <<>> /\ todo' = [todo EXCEPT ![n] = ops] /\ q.kind \in kinds
    BY <1>5 DEF TakeAndEmit, Takes, Taken
  <1>12. q \in ItemSet
    BY <1>1, <1>3
  <1>13. QED
    BY <1>3, <1>4, <1>5, <1>6, <1>8, <1>9, <1>10, <1>11, <1>12

-----------------------------------------------------------------------------
(* What is still to do *)

(* One operation is done, or a handler leaves at most one.                  *)
LEMMA TodoKeeps ==
  ASSUME TodoTyped, NEW n \in Nodes \cup {"agg"}, NEW ops \in Seq(OpsAt(n)),
         n # "agg" => Len(ops) <= 1, todo' = [todo EXCEPT ![n] = ops]
  PROVE  TodoTyped' /\ todo'[n] = ops /\ \A m \in (Nodes \cup {"agg"}) \ {n} : todo'[m] = todo[m]
  <1>1. todo = [m \in Nodes \cup {"agg"} |-> todo[m]]
    BY DEF TodoTyped
  <1>2. /\ todo' = [m \in Nodes \cup {"agg"} |-> todo'[m]]
        /\ todo'[n] = ops /\ \A m \in (Nodes \cup {"agg"}) \ {n} : todo'[m] = todo[m]
    BY <1>1
  <1>3. \A m \in Nodes \cup {"agg"} : todo'[m] \in Seq(OpsAt(m))
    BY <1>2 DEF TodoTyped
  <1>4. \A m \in Nodes : Len(todo'[m]) <= 1
    BY <1>2, Chain DEF TodoTyped
  <1>5. QED
    BY <1>2, <1>3, <1>4 DEF TodoTyped

(* What a node relays. *)
LEMMA RelayTyped ==
  ASSUME NEW n \in Nodes, NEW q \in ItemsAt(n), n = "llm" => q.kind # "LLMRun"
  PROVE  /\ Relay(n, q) \in Seq(OpsAt(n)) /\ Len(Relay(n, q)) <= 1
         /\ n # "out" => Relay(n, q) = <<PushTo(Below[n], q)>>
         /\ n = "out" => Relay(n, q) = <<>>
  <1>1. CASE n = "out"
    <2>1. Relay(n, q) = <<>>
      BY <1>1 DEF Relay
    <2>2. \A S : <<>> \in Seq(S) /\ Len(<<>>) = 0
      OBVIOUS
    <2>3. Relay(n, q) \in Seq(OpsAt(n)) /\ Len(Relay(n, q)) = 0
      BY <2>1, <2>2
    <2>4. QED
      BY <1>1, <2>1, <2>3
  <1>2. CASE n # "out"
    <2>1. Relay(n, q) = <<PushTo(Below[n], q)>>
      BY <1>2 DEF Relay
    <2>2. PushTo(Below[n], q) \in OpsAt(n)
      <3>1. n \in {"llm", "asst", "tts"}
        BY <1>2, Chain
      <3>2. CASE n = "llm"
        <4>1. q \in PassedItems
          BY <3>2 DEF ItemsAt, UserItems, PassedItems, IsText, IsStart
        <4>2. QED
          BY <3>2, <4>1, Chain DEF OpsAt, PushTo, Pushes
      <3>3. CASE n = "asst"
        BY <3>3, Chain DEF OpsAt, PushTo, Pushes, ItemsAt
      <3>4. CASE n = "tts"
        BY <3>4, Chain DEF OpsAt, PushTo, Pushes, ItemsAt
      <3>5. QED
        BY <3>1, <3>2, <3>3, <3>4
    <2>3. Relay(n, q) \in Seq(OpsAt(n)) /\ Len(Relay(n, q)) = 1
      <3>1. \A S : \A x \in S : <<x>> \in Seq(S) /\ Len(<<x>>) = 1
        OBVIOUS
      <3>2. QED
        BY <2>1, <2>2, <3>1
    <2>4. QED
      BY <1>2, <2>1, <2>3
  <1>3. QED
    BY <1>1, <1>2

(* What a node, a completion or a synthesis pushes next, and where.         *)
LEMMA NextPush ==
  ASSUME TodoTyped, NEW n \in Nodes \cup {"agg"}, todo[n] # <<>>, Head(todo[n]).op = "push"
  PROVE  LET p == Head(todo[n])
         IN /\ n # "out" /\ p.to \in Nodes /\ p.q \in ItemsAt(p.to)
            /\ n = "agg" => p.to = "llm"
            /\ n # "agg" => p.to = Below[n] /\ todo[n] = <<p>> /\ Tail(todo[n]) = <<>>
            /\ n = "llm" => p.q \in PassedItems
            /\ Tail(todo[n]) \in Seq(OpsAt(n))
  <1>1. todo[n] \in Seq(OpsAt(n))
    BY DEF TodoTyped
  <1> DEFINE p == Head(todo[n])
  <1>2. p \in OpsAt(n) /\ Tail(todo[n]) \in Seq(OpsAt(n))
    BY <1>1, HeadTailProperties
  <1>3. n # "agg" => todo[n] = <<p>> /\ Tail(todo[n]) = <<>>
    <2>1. n # "agg" => Len(todo[n]) <= 1
      BY DEF TodoTyped
    <2>2. QED
      BY <1>1, <2>1
  <1>4. p.op = "push"
    OBVIOUS
  <1> HIDE DEF p
  <1>5. /\ n # "out" /\ p.to \in Nodes /\ p.q \in ItemsAt(p.to)
        /\ n = "agg" => p.to = "llm"
        /\ n # "agg" => p.to = Below[n]
        /\ n = "llm" => p.q \in PassedItems
    <2>1. n \in {"agg", "llm", "asst", "tts", "out"} /\ n # "out"
      BY <1>2, Chain DEF OpsAt
    <2>2. CASE n = "agg"
      <3>1. p \in Pushes("llm", UserItems)
        BY <1>2, <1>4, <2>2 DEF OpsAt, Accesses, Do
      <3>2. QED
        BY <2>2, <3>1, Chain DEF Pushes, ItemsAt
    <2>3. CASE n = "llm"
      BY <1>2, <2>3, Chain DEF OpsAt, Pushes, PassedItems, ItemsAt
    <2>4. CASE n = "asst" \/ n = "tts"
      BY <1>2, <2>4, Chain DEF OpsAt, Pushes, ItemsAt
    <2>5. QED
      BY <2>1, <2>2, <2>3, <2>4
  <1>6. QED
    BY <1>2, <1>3, <1>5 DEF p

LEMMA RunNext ==
  ASSUME RunsTyped, NEW r \in Runs, runs[r].todo # <<>>
  PROVE  LET p == Head(runs[r].todo)
         IN /\ p.to = "asst" /\ p.q \in ItemSet /\ p.q.run \in {0, r}
            /\ p.q.kind # "Interruption"
            /\ Tail(runs[r].todo) \in Seq(RunOps(r)) /\ runs[r].state = "push"
  <1>1. runs[r].todo \in Seq(RunOps(r)) /\ runs[r].state = "push"
    BY DEF RunsTyped, RunSet
  <1>2. Head(runs[r].todo) \in RunOps(r) /\ Tail(runs[r].todo) \in Seq(RunOps(r))
    BY <1>1, HeadTailProperties
  <1>3. QED
    BY <1>1, <1>2 DEF RunOps, Pushes, ServiceItems

LEMMA SynthNext ==
  ASSUME SynthsTyped, NEW s \in DOMAIN synths, synths[s].todo # <<>>
  PROVE  LET p == Head(synths[s].todo)
         IN /\ p.op = "push" => p.to = "out" /\ p.q \in ItemSet /\ p.q.kind # "Interruption"
            /\ p \in SynthOps /\ Tail(synths[s].todo) \in Seq(SynthOps)
  <1>1. synths[s].todo \in Seq(SynthOps)
    <2>1. s \in 1..Len(synths)
      BY LenProperties DEF SynthsTyped
    <2>2. synths[s] \in [turn : Nat, todo : Seq(SynthOps)]
      BY <2>1, ElementOfSeq DEF SynthsTyped
    <2>3. QED
      BY <2>2
  <1>2. Head(synths[s].todo) \in SynthOps /\ Tail(synths[s].todo) \in Seq(SynthOps)
    BY <1>1, HeadTailProperties
  <1>3. QED
    BY <1>2 DEF SynthOps, Pushes, Accesses, Do, ServiceItems

(* One run changes, or one synthesis.                                       *)
LEMMA RunKeeps ==
  ASSUME RunsTyped, NEW r \in Runs, NEW x \in RunSet(r), x.todo # <<>> => x.state = "push",
         runs' = [runs EXCEPT ![r] = x], cancel' \in 0..Transcripts
  PROVE  RunsTyped' /\ runs'[r] = x /\ \A q \in Runs \ {r} : runs'[q] = runs[q]
  <1>1. runs = [q \in Runs |-> runs[q]]
    BY DEF RunsTyped
  <1>2. /\ runs'[r] = x /\ \A q \in Runs \ {r} : runs'[q] = runs[q]
        /\ runs' = [q \in Runs |-> runs'[q]]
    BY <1>1
  <1>3. QED
    BY <1>2 DEF RunsTyped

LEMMA SynthKeeps ==
  ASSUME SynthsTyped, NEW s \in DOMAIN synths, NEW ops \in Seq(SynthOps),
         synths' = [synths EXCEPT ![s].todo = ops]
  PROVE  /\ SynthsTyped' /\ DOMAIN synths' = DOMAIN synths
         /\ synths'[s].todo = ops /\ synths'[s].turn = synths[s].turn
         /\ \A t \in DOMAIN synths \ {s} : synths'[t] = synths[t]
  <1> DEFINE x == [synths[s] EXCEPT !.todo = ops]
             SynthSet == [turn : Nat, todo : Seq(SynthOps)]
  <1>1. synths \in Seq(SynthSet) /\ s \in 1..Len(synths)
    BY LenProperties DEF SynthsTyped
  <1>2. synths[s] \in SynthSet
    BY <1>1, ElementOfSeq
  <1>3. x \in SynthSet /\ x.todo = ops /\ x.turn = synths[s].turn
    BY <1>2
  <1>4. synths' = [synths EXCEPT ![s] = x]
    OBVIOUS
  <1> HIDE DEF x, SynthSet
  <1>5. /\ synths' \in Seq(SynthSet) /\ Len(synths') = Len(synths)
        /\ \A t \in 1..Len(synths) : synths'[t] = IF t = s THEN x ELSE synths[t]
    <2>1. x \in SynthSet
      BY <1>3
    <2>2. /\ [synths EXCEPT ![s] = x] \in Seq(SynthSet)
          /\ Len([synths EXCEPT ![s] = x]) = Len(synths)
          /\ \A t \in 1..Len(synths) :
               [synths EXCEPT ![s] = x][t] = IF t = s THEN x ELSE synths[t]
      BY <1>1, <2>1, ExceptSeq
    <2>3. QED
      BY <1>4, <2>2
  <1>6. QED
    BY <1>1, <1>3, <1>5, LenProperties DEF SynthsTyped, SynthSet

-----------------------------------------------------------------------------
(* Answers and syntheses *)

(* A piece of an answer, its place in the answer, and what goes before it.  *)
Spoken(v, r) ==
  \A i \in DOMAIN v :
    IsText(v[i].q) => i > 1 /\ IsStart(v[1].q) /\ v[i].q.text = <<<<r, i - 1>>>>

LEMMA ItemsMade ==
  /\ <<>> \in Texts /\ OfOneRun(<<>>)
  /\ \A k \in Kinds \ {"LLMText", "Text"}, r \in 0..Transcripts :
       (IsSystem(k) => r = 0) => Item(k, r, <<>>) \in ItemSet
  /\ \A r \in Runs, i \in 1..Pieces : Item("LLMText", r, <<<<r, i>>>>) \in ItemSet
  /\ \A r \in 0..Transcripts, t \in Texts : OfOneRun(t) => Item("TTSAudio", r, t) \in ItemSet
  /\ Interruption \in UserItems
  /\ Item("InterimTranscription", 0, <<>>) \in UserItems
  /\ \A r \in 0..Transcripts : Item("LLMRun", r, <<>>) \in UserItems
  /\ Item("Error", 0, <<>>) \in ItemSet
  /\ \A k, r, t : Item(k, r, t).kind = k /\ Item(k, r, t).run = r /\ Item(k, r, t).text = t
  <1>1. <<>> \in Texts /\ OfOneRun(<<>>)
    BY DEF Texts, OfOneRun
  <1>2. \A k, r, t : Item(k, r, t).kind = k /\ Item(k, r, t).run = r /\ Item(k, r, t).text = t
    BY DEF Item
  <1>3. \A k \in Kinds \ {"LLMText", "Text"}, r \in 0..Transcripts :
          (IsSystem(k) => r = 0) => Item(k, r, <<>>) \in ItemSet
    BY <1>1 DEF Item, ItemSet, IsText
  <1>4. ASSUME NEW r \in Runs, NEW i \in 1..Pieces
        PROVE  Item("LLMText", r, <<<<r, i>>>>) \in ItemSet
    <2>1. <<<<r, i>>>> \in Texts /\ Len(<<<<r, i>>>>) = 1 /\ DOMAIN <<<<r, i>>>> = {1}
      BY DEF Texts
    <2>2. OfOneRun(<<<<r, i>>>>)
      BY <2>1 DEF OfOneRun
    <2>3. r \in 0..Transcripts
      BY VoiceAssumption DEF Runs
    <2>4. ~IsSystem("LLMText")
      BY DEF IsSystem, SystemKinds
    <2>5. QED
      BY <2>1, <2>2, <2>3, <2>4 DEF Item, ItemSet, Kinds
  <1>5. \A r \in 0..Transcripts, t \in Texts : OfOneRun(t) => Item("TTSAudio", r, t) \in ItemSet
    BY DEF Item, ItemSet, Kinds, IsText, IsSystem, SystemKinds
  <1>6. 0 \in 0..Transcripts
    BY VoiceAssumption
  <1>7. \A k \in {"Interruption", "InterimTranscription", "LLMRun", "Error"} :
          k \in Kinds \ {"LLMText", "Text"} /\ (IsSystem(k) <=> k \in {"Interruption", "Error"})
    BY DEF Kinds, IsSystem, SystemKinds
  <1>8. /\ Interruption \in UserItems
        /\ Item("InterimTranscription", 0, <<>>) \in UserItems
        /\ \A r \in 0..Transcripts : Item("LLMRun", r, <<>>) \in UserItems
        /\ Item("Error", 0, <<>>) \in ItemSet
    BY <1>2, <1>3, <1>6, <1>7 DEF UserItems, Interruption
  <1>9. QED
    BY <1>1, <1>2, <1>3, <1>4, <1>5, <1>8

LEMMA ResponseIs ==
  ASSUME NEW r \in Runs, NEW pieces \in 0..Pieces
  PROVE  /\ Response(r, pieces) \in Seq(RunOps(r)) /\ Len(Response(r, pieces)) = pieces + 2
         /\ IsStart(Response(r, pieces)[1].q) /\ ~IsText(Response(r, pieces)[1].q)
         /\ \A i \in 2..pieces + 1 : Response(r, pieces)[i].q.text = <<<<r, i - 1>>>>
         /\ ~IsText(Response(r, pieces)[pieces + 2].q)
  <1> DEFINE a == PushTo("asst", Item("LLMFullResponseStart", r, <<>>))
             b == [i \in 1..pieces |-> PushTo("asst", Item("LLMText", r, <<<<r, i>>>>))]
             c == PushTo("asst", Item("LLMFullResponseEnd", r, <<>>))
  <1>0. pieces \in Nat /\ r \in 0..Transcripts /\ \A i \in 1..pieces : i \in 1..Pieces
    BY VoiceAssumption DEF Runs
  <1>1. /\ {"LLMFullResponseStart", "LLMFullResponseEnd"} \subseteq Kinds \ {"LLMText", "Text"}
        /\ ~IsSystem("LLMFullResponseStart") /\ ~IsSystem("LLMFullResponseEnd")
    BY DEF Kinds, IsSystem, SystemKinds
  <1>2. /\ Item("LLMFullResponseStart", r, <<>>) \in ItemSet
        /\ Item("LLMFullResponseEnd", r, <<>>) \in ItemSet
        /\ \A i \in 1..pieces : Item("LLMText", r, <<<<r, i>>>>) \in ItemSet
    BY <1>0, <1>1, ItemsMade
  <1>3. /\ a \in RunOps(r) /\ c \in RunOps(r)
        /\ \A i \in 1..pieces :
             PushTo("asst", Item("LLMText", r, <<<<r, i>>>>)) \in RunOps(r)
    BY <1>2, ItemsMade DEF RunOps, ServiceItems, Pushes, PushTo
  <1>4. /\ IsStart(a.q) /\ ~IsText(a.q) /\ ~IsText(c.q)
        /\ \A i \in 1..pieces :
             PushTo("asst", Item("LLMText", r, <<<<r, i>>>>)).q.text = <<<<r, i>>>>
    BY ItemsMade DEF IsStart, IsText, PushTo
  <1>5. b \in Seq(RunOps(r)) /\ Len(b) = pieces
        /\ \A i \in 1..pieces : b[i].q.text = <<<<r, i>>>>
    BY <1>0, <1>3, <1>4
  <1>6. Response(r, pieces) = <<a>> \o b \o <<c>>
    BY DEF Response
  <1> HIDE DEF a, b, c
  <1>7. /\ <<a>> \in Seq(RunOps(r)) /\ Len(<<a>>) = 1 /\ <<a>>[1] = a
        /\ <<c>> \in Seq(RunOps(r)) /\ Len(<<c>>) = 1 /\ <<c>>[1] = c
    BY <1>3
  <1>8. /\ <<a>> \o b \in Seq(RunOps(r)) /\ Len(<<a>> \o b) = pieces + 1
        /\ (<<a>> \o b)[1] = a
        /\ \A i \in 2..pieces + 1 : (<<a>> \o b)[i] = b[i - 1]
    BY <1>0, <1>5, <1>7, ConcatProperties
  <1>9. /\ (<<a>> \o b) \o <<c>> \in Seq(RunOps(r)) /\ Len((<<a>> \o b) \o <<c>>) = pieces + 2
        /\ ((<<a>> \o b) \o <<c>>)[pieces + 2] = c
        /\ \A i \in 1..pieces + 1 : ((<<a>> \o b) \o <<c>>)[i] = (<<a>> \o b)[i]
    BY <1>0, <1>7, <1>8, ConcatProperties
  <1>10. /\ Response(r, pieces)[1] = a
         /\ \A i \in 2..pieces + 1 : Response(r, pieces)[i] = b[i - 1] /\ i - 1 \in 1..pieces
    BY <1>0, <1>6, <1>8, <1>9
  <1>11. QED
    BY <1>4, <1>5, <1>6, <1>9, <1>10

(* Whatever service is asked, what a completion pushes in the end is an     *)
(* answer, cut short or with a report in it.                                *)
LEMMA AnswerIs ==
  ASSUME RunsTyped, NEW r \in Runs, RunRequest(r)
  PROVE  \E v \in Seq(RunOps(r)) :
           runs' = [runs EXCEPT ![r].state = "push", ![r].todo = v] /\ Spoken(v, r)
  <1>1. /\ Report("asst") \in Seq(RunOps(r)) /\ Spoken(Report("asst"), r)
        /\ Len(Report("asst")) = 1 /\ ~IsText(Report("asst")[1].q)
    <2>1. PushTo("asst", Item("Error", 0, <<>>)) \in RunOps(r)
      BY ItemsMade DEF RunOps, ServiceItems, Pushes, PushTo
    <2>2. ~IsText(PushTo("asst", Item("Error", 0, <<>>)).q)
      BY DEF IsText, PushTo, Item
    <2> DEFINE p == PushTo("asst", Item("Error", 0, <<>>))
    <2>3. Report("asst") = <<p>>
      BY DEF Report
    <2> HIDE DEF p
    <2>4. p \in RunOps(r) /\ ~IsText(p.q)
      BY <2>1, <2>2 DEF p
    <2>5. Report("asst") \in Seq(RunOps(r)) /\ DOMAIN Report("asst") = {1} /\ Report("asst")[1] = p
          /\ Len(Report("asst")) = 1
      <3>1. \A S : \A x \in S : /\ <<x>> \in Seq(S) /\ DOMAIN <<x>> = {1}
                                /\ <<x>>[1] = x /\ Len(<<x>>) = 1
        OBVIOUS
      <3>2. QED
        BY <2>3, <2>4, <3>1
    <2>6. QED
      BY <2>4, <2>5 DEF Spoken
  <1>2. ASSUME NEW pieces \in 0..Pieces
        PROVE  Response(r, pieces) \in Seq(RunOps(r)) /\ Spoken(Response(r, pieces), r)
    <2>1. pieces \in Nat
      BY VoiceAssumption
    <2> DEFINE v == Response(r, pieces)
    <2>2. /\ v \in Seq(RunOps(r)) /\ DOMAIN v = 1..pieces + 2
          /\ IsStart(v[1].q) /\ ~IsText(v[1].q) /\ ~IsText(v[pieces + 2].q)
          /\ \A i \in 2..pieces + 1 : v[i].q.text = <<<<r, i - 1>>>>
      BY ResponseIs, LenProperties
    <2> HIDE DEF v
    <2>3. ASSUME NEW i \in DOMAIN v, IsText(v[i].q)
          PROVE  i \in 2..pieces + 1
      BY <2>1, <2>2, <2>3
    <2>4. Spoken(v, r)
      BY <2>1, <2>2, <2>3 DEF Spoken
    <2>5. QED
      BY <2>2, <2>4 DEF v
  <1>3. ASSUME NEW pieces \in 0..Pieces, NEW report \in {<<>>, Report("asst")}
        PROVE  LET frames == Response(r, pieces)
                   v == SubSeq(frames, 1, pieces + 1) \o report \o <<Sequence!Last(frames)>>
               IN v \in Seq(RunOps(r)) /\ Spoken(v, r)
    <2>1. pieces \in Nat
      BY VoiceAssumption
    <2> DEFINE f == Response(r, pieces)
               u == SubSeq(f, 1, pieces + 1)
               z == Sequence!Last(f)
               v == u \o report \o <<z>>
               S == RunOps(r)
    <2>2. /\ f \in Seq(S) /\ Len(f) = pieces + 2
          /\ IsStart(f[1].q) /\ ~IsText(f[1].q) /\ ~IsText(f[pieces + 2].q)
          /\ \A i \in 2..pieces + 1 : f[i].q.text = <<<<r, i - 1>>>>
      BY ResponseIs
    <2>3. z = f[pieces + 2]
      BY <2>2 DEF Sequence!Last
    <2> HIDE DEF f, z, S
    <2>4. u \in Seq(S) /\ Len(u) = pieces + 1 /\ \A i \in 1..pieces + 1 : u[i] = f[i]
      BY <2>1, <2>2, SubSeqProperties
    <2> HIDE DEF u
    <2>5. report \in Seq(S) /\ Len(report) \in Nat /\ \A i \in 1..Len(report) : ~IsText(report[i].q)
      <3>1. /\ Report("asst") \in Seq(S) /\ Len(Report("asst")) = 1
            /\ ~IsText(Report("asst")[1].q)
        BY <1>1 DEF S
      <3>2. <<>> \in Seq(S) /\ Len(<<>>) = 0
        OBVIOUS
      <3>3. CASE report = <<>>
        BY <3>2, <3>3
      <3>4. CASE report = Report("asst")
        BY <3>1, <3>4
      <3>5. QED
        BY <3>3, <3>4
    <2>6. z \in S /\ ~IsText(z.q) /\ <<z>> \in Seq(S) /\ Len(<<z>>) = 1 /\ <<z>>[1] = z
      <3>1. z \in S
        BY <2>1, <2>2, <2>3, ElementOfSeq
      <3>2. QED
        BY <2>2, <2>3, <3>1
    <2>7. /\ u \o report \in Seq(S) /\ Len(u \o report) = pieces + 1 + Len(report)
          /\ \A i \in 1..pieces + 1 + Len(report) :
               (u \o report)[i] = IF i <= pieces + 1 THEN u[i] ELSE report[i - (pieces + 1)]
      <3>1. /\ u \o report \in Seq(S) /\ Len(u \o report) = Len(u) + Len(report)
            /\ \A i \in 1..Len(u) + Len(report) :
                 (u \o report)[i] = IF i <= Len(u) THEN u[i] ELSE report[i - Len(u)]
        BY <2>4, <2>5, ConcatProperties
      <3> DEFINE w == u \o report
      <3>2. w \in Seq(S) /\ Len(w) = Len(u) + Len(report) /\ Len(u) = pieces + 1
            /\ \A i \in 1..Len(u) + Len(report) :
                 w[i] = IF i <= Len(u) THEN u[i] ELSE report[i - Len(u)]
        BY <2>4, <3>1
      <3> HIDE DEF w
      <3>3. w \in Seq(S) /\ Len(w) = pieces + 1 + Len(report)
            /\ \A i \in 1..pieces + 1 + Len(report) :
                 w[i] = IF i <= pieces + 1 THEN u[i] ELSE report[i - (pieces + 1)]
        BY <3>2
      <3>4. QED
        BY <3>3 DEF w
    <2>8. /\ v \in Seq(S) /\ Len(v) = pieces + 2 + Len(report)
          /\ \A i \in 1..pieces + 2 + Len(report) :
               v[i] = IF i <= pieces + 1 + Len(report) THEN (u \o report)[i] ELSE z
      <3>1. /\ v \in Seq(S) /\ Len(v) = Len(u \o report) + 1
            /\ \A i \in 1..Len(u \o report) + 1 :
                 v[i] = IF i <= Len(u \o report) THEN (u \o report)[i]
                        ELSE <<z>>[i - Len(u \o report)]
        <4> DEFINE w == u \o report
        <4>1. w \in Seq(S) /\ <<z>> \in Seq(S) /\ Len(<<z>>) = 1
          BY <2>6, <2>7
        <4> HIDE DEF w
        <4>2. /\ w \o <<z>> \in Seq(S) /\ Len(w \o <<z>>) = Len(w) + Len(<<z>>)
              /\ \A i \in 1..Len(w) + Len(<<z>>) :
                   (w \o <<z>>)[i] = IF i <= Len(w) THEN w[i] ELSE <<z>>[i - Len(w)]
          BY <4>1, ConcatProperties
        <4>3. v = w \o <<z>>
          BY DEF w
        <4> HIDE DEF v
        <4>4. QED
          BY <4>1, <4>2, <4>3 DEF w
      <3>2. QED
        BY <2>1, <2>5, <2>6, <2>7, <3>1
    <2> HIDE DEF v
    <2>9. ASSUME NEW i \in DOMAIN v, IsText(v[i].q)
          PROVE  i \in 2..pieces + 1 /\ v[i] = f[i] /\ v[1] = f[1]
      <3>1. i \in 1..pieces + 2 + Len(report)
        BY <2>8, LenProperties
      <3>2. CASE i <= pieces + 1
        <4>1. v[i] = u[i] /\ u[i] = f[i] /\ v[1] = u[1] /\ u[1] = f[1]
          <5>1. \A k \in 1..pieces + 1 : v[k] = (u \o report)[k] /\ (u \o report)[k] = u[k]
            BY <2>1, <2>5, <2>7, <2>8
          <5>2. i \in 1..pieces + 1 /\ 1 \in 1..pieces + 1
            BY <2>1, <3>1, <3>2
          <5>3. QED
            BY <2>4, <5>1, <5>2
        <4>2. i # 1
          BY <2>2, <2>9, <4>1
        <4>3. QED
          BY <2>1, <3>1, <3>2, <4>1, <4>2
      <3>3. CASE i > pieces + 1 /\ i <= pieces + 1 + Len(report)
        <4>1. v[i] = (u \o report)[i]
          BY <2>1, <2>5, <2>8, <3>1, <3>3
        <4>2. (u \o report)[i] = report[i - (pieces + 1)] /\ i - (pieces + 1) \in 1..Len(report)
          BY <2>1, <2>5, <2>7, <3>1, <3>3
        <4>3. QED
          BY <2>5, <2>9, <4>1, <4>2
      <3>4. CASE i > pieces + 1 + Len(report)
        <4>1. v[i] = z
          BY <2>1, <2>5, <2>8, <3>1, <3>4
        <4>2. QED
          BY <2>6, <2>9, <4>1
      <3>5. QED
        BY <2>1, <2>5, <3>1, <3>2, <3>3, <3>4
    <2>10. Spoken(v, r)
      <3>1. ASSUME NEW i \in DOMAIN v, IsText(v[i].q)
            PROVE  i > 1 /\ IsStart(v[1].q) /\ v[i].q.text = <<<<r, i - 1>>>>
        <4>1. i \in 2..pieces + 1 /\ v[i] = f[i] /\ v[1] = f[1]
          BY <2>9, <3>1
        <4>2. i > 1 /\ f[i].q.text = <<<<r, i - 1>>>>
          BY <2>1, <2>2, <4>1
        <4>3. QED
          BY <2>2, <4>1, <4>2
      <3>2. QED
        BY <3>1 DEF Spoken
    <2>11. QED
      BY <2>8, <2>10 DEF v, u, z, f, S
  <1>4. \/ OpenAICompletes(r) \/ GoogleCompletes(r) \/ Answer(r, Report("asst"), FALSE)
    BY DEF RunRequest, AnthropicCompletes
  <1>5. \A v \in Seq(RunOps(r)) : \A failed : Answer(r, v, failed) =>
          runs' = [runs EXCEPT ![r].state = "push", ![r].todo = v]
    BY DEF Answer
  <1>6. CASE OpenAICompletes(r) \/ Answer(r, Report("asst"), FALSE)
    BY <1>1, <1>2, <1>5, <1>6 DEF OpenAICompletes
  <1>7. CASE GoogleCompletes(r)
    BY <1>3, <1>5, <1>7 DEF GoogleCompletes
  <1>8. QED
    BY <1>4, <1>6, <1>7

(* What is left of a synthesis after its request: the rest of it, perhaps   *)
(* without the audio, or only reports and its last operation.               *)
LeftOf(v, ops) ==
  \/ /\ Len(v) = Len(ops) - 1
     /\ \A i \in DOMAIN v : v[i].op = ops[i + 1].op /\ v[i].q.run = ops[i + 1].q.run
  \/ \A i \in DOMAIN v : (v[i].op = "push" /\ v[i].q.run = 0) \/ v[i] = ops[Len(ops)]

LEMMA SynthIs ==
  ASSUME SynthsTyped, NEW s \in DOMAIN synths, SynthRequest(s)
  PROVE  \E v \in Seq(SynthOps) :
           synths' = [synths EXCEPT ![s].todo = v] /\ LeftOf(v, synths[s].todo)
  <1> DEFINE ops == synths[s].todo
             rest == [i \in 1..(Len(ops) - 1) |-> IF ops[i + 1].q.kind = "TTSAudio"
                                                THEN [ops[i + 1] EXCEPT !.q.text = <<>>]
                                                ELSE ops[i + 1]]
  <1>1. /\ ops \in Seq(SynthOps) /\ ops # <<>> /\ Tail(ops) \in Seq(SynthOps)
    <2>1. s \in 1..Len(synths)
      BY LenProperties DEF SynthsTyped
    <2>2. synths[s] \in [turn : Nat, todo : Seq(SynthOps)]
      BY <2>1, ElementOfSeq DEF SynthsTyped
    <2>3. ops # <<>>
      BY DEF SynthRequest, SynthAt
    <2>4. QED
      BY <2>2, <2>3, HeadTailProperties
  <1> HIDE DEF ops
  <1>2. /\ Len(ops) \in Nat /\ Len(ops) >= 1 /\ Len(Tail(ops)) = Len(ops) - 1
        /\ \A i \in 1..Len(ops) : ops[i] \in SynthOps
        /\ \A i \in 1..Len(ops) - 1 : Tail(ops)[i] = ops[i + 1]
    BY <1>1, EmptySeq, LenProperties, ElementOfSeq, HeadTailProperties
  <1>3. LeftOf(Tail(ops), ops)
    BY <1>1, <1>2, LenProperties DEF LeftOf
  <1>4. ASSUME NEW report \in {<<>>, Report("out")}
        PROVE  LET v == report \o <<Sequence!Last(ops)>>
               IN v \in Seq(SynthOps) /\ LeftOf(v, ops)
    <2> DEFINE p == PushTo("out", Item("Error", 0, <<>>))
               z == Sequence!Last(ops)
    <2>1. p \in SynthOps /\ p.op = "push" /\ p.q.run = 0
      BY ItemsMade DEF SynthOps, ServiceItems, Pushes, PushTo
    <2>2. z = ops[Len(ops)] /\ z \in SynthOps
      BY <1>2 DEF Sequence!Last
    <2>3. report = <<>> \/ report = <<p>>
      BY DEF Report
    <2> HIDE DEF p, z
    <2>4. CASE report = <<>>
      <3>1. <<>> \o <<z>> = <<z>> /\ <<z>> \in Seq(SynthOps) /\ DOMAIN <<z>> = {1} /\ <<z>>[1] = z
        BY <2>2
      <3>2. LeftOf(<<z>>, ops)
        BY <2>2, <3>1 DEF LeftOf
      <3>3. QED
        BY <2>4, <3>1, <3>2 DEF z
    <2>5. CASE report = <<p>>
      <3> DEFINE v == <<p>> \o <<z>>
      <3>1. /\ <<p>> \in Seq(SynthOps) /\ Len(<<p>>) = 1 /\ <<p>>[1] = p
            /\ <<z>> \in Seq(SynthOps) /\ Len(<<z>>) = 1 /\ <<z>>[1] = z
        BY <2>1, <2>2
      <3>2. v \in Seq(SynthOps) /\ Len(v) = 2 /\ v[1] = p /\ v[2] = z
        BY <3>1, ConcatProperties
      <3> HIDE DEF v
      <3>3. \A i \in DOMAIN v : v[i] = p \/ v[i] = z
        BY <3>2, LenProperties
      <3>4. LeftOf(v, ops)
        BY <2>1, <2>2, <3>3 DEF LeftOf
      <3>5. QED
        BY <2>5, <3>2, <3>4 DEF z, v
    <2>6. QED
      BY <2>3, <2>4, <2>5
  <1>5. rest \in Seq(SynthOps) /\ LeftOf(rest, ops)
    <2>1. ASSUME NEW x \in SynthOps, x.q.kind = "TTSAudio"
          PROVE  LET y == [x EXCEPT !.q.text = <<>>]
                 IN y \in SynthOps /\ y.op = x.op /\ y.q.run = x.q.run
      <3>1. x \in Pushes("out", ServiceItems)
        BY <2>1 DEF SynthOps, Accesses, Do, Item
      <3>2. /\ [x.q EXCEPT !.text = <<>>] \in ServiceItems
            /\ [x.q EXCEPT !.text = <<>>].run = x.q.run
        BY <2>1, <3>1, ItemsMade DEF Pushes, ServiceItems, ItemSet, IsText
      <3> DEFINE t == [x.q EXCEPT !.text = <<>>]
      <3>3. [x EXCEPT !.q.text = <<>>] = [x EXCEPT !.q = t]
        OBVIOUS
      <3>4. t \in ServiceItems /\ t.run = x.q.run
        BY <3>2
      <3> HIDE DEF t
      <3>5. /\ [x EXCEPT !.q = t] \in SynthOps /\ [x EXCEPT !.q = t].op = x.op
            /\ [x EXCEPT !.q = t].q.run = x.q.run
        BY <3>1, <3>4 DEF Pushes, SynthOps
      <3>6. QED
        BY <3>3, <3>5
    <2>2. \A i \in 1..Len(ops) - 1 : /\ rest[i] \in SynthOps /\ rest[i].op = ops[i + 1].op
                                     /\ rest[i].q.run = ops[i + 1].q.run
      <3> SUFFICES ASSUME NEW i \in 1..Len(ops) - 1
                   PROVE  /\ rest[i] \in SynthOps /\ rest[i].op = ops[i + 1].op
                          /\ rest[i].q.run = ops[i + 1].q.run
        OBVIOUS
      <3> DEFINE x == ops[i + 1]
      <3>1. x \in SynthOps
        BY <1>2
      <3>2. rest[i] = IF x.q.kind = "TTSAudio" THEN [x EXCEPT !.q.text = <<>>] ELSE x
        OBVIOUS
      <3> HIDE DEF x, rest
      <3>3. rest[i] \in SynthOps /\ rest[i].op = x.op /\ rest[i].q.run = x.q.run
        BY <2>1, <3>1, <3>2
      <3>4. QED
        BY <3>3 DEF x
    <2>3. rest = [i \in 1..(Len(ops) - 1) |-> rest[i]]
      OBVIOUS
    <2> HIDE DEF rest
    <2>4. rest \in [1..(Len(ops) - 1) -> SynthOps] /\ Len(ops) - 1 \in Nat
      BY <1>2, <2>2, <2>3
    <2>5. rest \in Seq(SynthOps)
      BY <2>4, SeqDef
    <2>6. DOMAIN rest = 1..(Len(ops) - 1) /\ Len(rest) = Len(ops) - 1
      BY <2>4, <2>5, LenProperties
    <2>7. QED
      BY <2>2, <2>5, <2>6 DEF LeftOf
  <1>6. \/ synths' = [synths EXCEPT ![s].todo = Tail(ops)]
        \/ \E report \in {<<>>, Report("out")} :
             synths' = [synths EXCEPT ![s].todo = report \o <<Sequence!Last(ops)>>]
        \/ synths' = [synths EXCEPT ![s].todo = rest]
    BY DEF SynthRequest, ElevenLabsSpeaks, SarvamSpeaks, OpenAISpeaks, SynthAnswered,
           SynthGoesOn, SaysNothing, ops
  <1> HIDE DEF rest
  <1>7. QED
    BY <1>1, <1>3, <1>4, <1>5, <1>6 DEF ops

LEMMA SynthesisIs ==
  ASSUME NEW f \in ServiceItems, NEW text \in Texts, OfOneRun(text)
  PROVE  LET v == Synthesis(f, text)
         IN /\ v \in Seq(SynthOps) /\ Len(v) = 7
            /\ v[1].op = "request" /\ v[2].op = "speaking" /\ v[6].op = "silent"
            /\ \A i \in {3, 4, 5, 7} : v[i].op = "push"
            /\ \A i \in 1..7 : v[i].q.run \in {0, f.run}
  <1> DEFINE a == PushTo("out", Item("BotSpeaking", 0, <<>>))
             b == PushTo("out", Item("TTSAudio", f.run, text))
             c == PushTo("out", Item("BotStoppedSpeaking", 0, <<>>))
             d == PushTo("out", f)
             x == Do("request")
             y == Do("speaking")
             z == Do("silent")
  <1>1. {a, b, c, d} \subseteq Pushes("out", ServiceItems)
    <2>1. f.run \in 0..Transcripts /\ 0 \in 0..Transcripts
      BY VoiceAssumption DEF ItemSet, ServiceItems
    <2>2. {"BotSpeaking", "BotStoppedSpeaking"} \subseteq Kinds \ {"LLMText", "Text"}
      BY DEF Kinds
    <2>3. /\ Item("BotSpeaking", 0, <<>>) \in ItemSet /\ Item("TTSAudio", f.run, text) \in ItemSet
          /\ Item("BotStoppedSpeaking", 0, <<>>) \in ItemSet
      BY <2>1, <2>2, ItemsMade
    <2>4. QED
      BY <2>3, ItemsMade DEF PushTo, Pushes, ServiceItems
  <1>2. {x, y, z} \subseteq Accesses({"request", "speaking", "silent"})
    BY DEF Accesses
  <1>3. {a, b, c, d, x, y, z} \subseteq SynthOps
    BY <1>1, <1>2 DEF SynthOps
  <1>4. /\ x.op = "request" /\ y.op = "speaking" /\ z.op = "silent"
        /\ \A p \in {a, b, c, d} : p.op = "push"
        /\ \A p \in {a, b, c, d, x, y, z} : p.q.run \in {0, f.run}
    BY DEF Do, Item, PushTo
  <1>5. Synthesis(f, text) = <<x, y, a, b, c, z, d>>
    BY DEF Synthesis
  <1> HIDE DEF a, b, c, d, x, y, z
  <1>6. <<x, y, a, b, c, z, d>> \in Seq(SynthOps) /\ Len(<<x, y, a, b, c, z, d>>) = 7
    BY <1>3
  <1>7. \A i \in 1..7 : <<x, y, a, b, c, z, d>>[i] \in {a, b, c, d, x, y, z}
    OBVIOUS
  <1> DEFINE v == <<x, y, a, b, c, z, d>>
  <1>8. v[1] = x /\ v[2] = y /\ v[3] = a /\ v[4] = b /\ v[5] = c /\ v[6] = z /\ v[7] = d
    OBVIOUS
  <1>9. v \in Seq(SynthOps) /\ Len(v) = 7 /\ \A i \in 1..7 : v[i] \in {a, b, c, d, x, y, z}
    BY <1>6, <1>7
  <1> HIDE DEF v
  <1>10. /\ v \in Seq(SynthOps) /\ Len(v) = 7
         /\ v[1].op = "request" /\ v[2].op = "speaking" /\ v[6].op = "silent"
         /\ \A i \in {3, 4, 5, 7} : v[i].op = "push"
         /\ \A i \in 1..7 : v[i].q.run \in {0, f.run}
    BY <1>4, <1>8, <1>9
  <1>11. QED
    BY <1>5, <1>10 DEF v

-----------------------------------------------------------------------------
(* Types *)

LEMMA InitTyped == Init => Typed
  <1> SUFFICES ASSUME Init PROVE Typed
    OBVIOUS
  <1>1. EmptyInbox.up = <<>> /\ \A S : Holds(EmptyInbox, S)
    BY DEF EmptyInbox, Holds, InboxSet
  <1>2. InboxTyped
    BY <1>1 DEF Init, InboxTyped
  <1>3. TodoTyped
    <2>1. todo = [n \in Nodes \cup {"agg"} |-> <<>>]
      BY DEF Init
    <2>2. \A S : <<>> \in Seq(S) /\ Len(<<>>) = 0
      OBVIOUS
    <2>3. \A n \in Nodes \cup {"agg"} : todo[n] = <<>>
      BY <2>1
    <2>4. QED
      BY <2>1, <2>2, <2>3 DEF TodoTyped
  <1>4. RunsTyped
    <2>1. \A r \in Runs : NoRun \in RunSet(r) /\ NoRun.todo = <<>>
      BY DEF NoRun, RunSet
    <2>2. 0 \in 0..Transcripts
      BY VoiceAssumption
    <2>3. QED
      BY <2>1, <2>2 DEF Init, RunsTyped
  <1>5. SynthsTyped
    BY DEF Init, SynthsTyped
  <1>6. TalkTyped
    BY VoiceAssumption, ItemsMade DEF Init, TalkTyped, Texts
  <1>7. QED
    BY <1>2, <1>3, <1>4, <1>5, <1>6 DEF Typed

(* The user aggregator. *)
LEMMA AggregatorTyped ==
  ASSUME Typed, Transcription \/ InterimTranscription \/ AppendUser
  PROVE  Typed'
  <1> USE DEF Typed
  <1>1. ASSUME NEW b \in Barges
        PROVE  InterruptIf(b) \in Seq(OpsAt("agg"))
    <2>1. PushTo("llm", Interruption) \in OpsAt("agg")
      BY ItemsMade DEF OpsAt, PushTo, Pushes
    <2>2. QED
      BY <2>1 DEF InterruptIf
  <1>2. ASSUME Transcription
        PROVE  TodoTyped' /\ TalkTyped'
    <2>1. PICK b \in Barges : todo' = [todo EXCEPT !["agg"] =
                     InterruptIf(b) \o
                     <<Do("append"), PushTo("llm", Item("LLMRun", said + 1, <<>>))>>]
      BY <1>2 DEF Transcription
    <2>2. said + 1 \in 0..Transcripts
      BY <1>2, VoiceAssumption DEF Transcription, TalkTyped
    <2>3. /\ Do("append") \in OpsAt("agg")
          /\ PushTo("llm", Item("LLMRun", said + 1, <<>>)) \in OpsAt("agg")
      BY <2>2, ItemsMade DEF OpsAt, PushTo, Pushes, Accesses
    <2> DEFINE x == Do("append")
               y == PushTo("llm", Item("LLMRun", said + 1, <<>>))
    <2>4. x \in OpsAt("agg") /\ y \in OpsAt("agg")
      BY <2>3
    <2> HIDE DEF x, y
    <2>5. <<x, y>> \in Seq(OpsAt("agg"))
      BY <2>4
    <2>6. InterruptIf(b) \o <<x, y>> \in Seq(OpsAt("agg"))
      BY <1>1, <2>5, ConcatProperties
    <2>7. todo' = [todo EXCEPT !["agg"] = InterruptIf(b) \o <<x, y>>]
      BY <2>1 DEF x, y
    <2>8. TodoTyped'
      BY <2>6, <2>7, TodoKeeps
    <2>9. TalkTyped'
      BY <1>2, <2>2 DEF Transcription, TalkTyped, userVars, asstVars, ttsVars
    <2>10. QED
      BY <2>8, <2>9
  <1>3. ASSUME InterimTranscription
        PROVE  TodoTyped' /\ TalkTyped'
    <2> DEFINE y == PushTo("llm", Item("InterimTranscription", 0, <<>>))
    <2>1. PICK b \in Barges : todo' = [todo EXCEPT !["agg"] = InterruptIf(b) \o <<y>>]
      BY <1>3 DEF InterimTranscription
    <2>2. y \in OpsAt("agg")
      BY ItemsMade DEF OpsAt, PushTo, Pushes
    <2> HIDE DEF y
    <2>3. InterruptIf(b) \o <<y>> \in Seq(OpsAt("agg"))
      <3>1. <<y>> \in Seq(OpsAt("agg"))
        BY <2>2
      <3>2. QED
        BY <1>1, <3>1, ConcatProperties
    <2>4. TodoTyped'
      BY <2>1, <2>3, TodoKeeps
    <2>5. TalkTyped'
      BY <1>3, VoiceAssumption DEF InterimTranscription, TalkTyped, asstVars, ttsVars
    <2>6. QED
      BY <2>4, <2>5
  <1>4. ASSUME AppendUser
        PROVE  TodoTyped' /\ TalkTyped'
    <2>1. todo["agg"] \in Seq(OpsAt("agg")) /\ todo["agg"] # <<>>
      BY <1>4 DEF AppendUser, TodoTyped
    <2>2. Tail(todo["agg"]) \in Seq(OpsAt("agg"))
      BY <2>1, HeadTailProperties
    <2>3. TodoTyped'
      BY <1>4, <2>2, TodoKeeps DEF AppendUser
    <2> DEFINE m == [role |-> "user", run |-> said, text |-> <<>>]
               M == [role : {"user", "assistant"}, run : 0..Transcripts, text : Texts]
    <2>4. m \in M /\ OfOneRun(m.text)
      BY ItemsMade DEF TalkTyped
    <2>5. messages \in Seq(M) /\ messages' = Append(messages, m)
      BY <1>4 DEF TalkTyped, AppendUser
    <2> HIDE DEF m, M
    <2>6. /\ messages' \in Seq(M)
          /\ \A i \in DOMAIN messages' :
               messages'[i] = m \/ \E j \in DOMAIN messages : messages'[i] = messages[j]
      BY <2>4, <2>5, AppendOnly
    <2>7. \A i \in DOMAIN messages' : OfOneRun(messages'[i].text)
      BY <2>4, <2>6 DEF TalkTyped
    <2>8. TalkTyped'
      BY <1>4, <2>6, <2>7 DEF AppendUser, TalkTyped, asstVars, ttsVars, M
    <2>9. QED
      BY <2>3, <2>8
  <1>5. UNCHANGED <<inbox, runs, cancel, synths>>
    BY DEF Transcription, InterimTranscription, AppendUser, llmVars, ttsVars
  <1>6. InboxTyped' /\ RunsTyped' /\ SynthsTyped'
    BY <1>5 DEF InboxTyped, RunsTyped, SynthsTyped
  <1>7. QED
    BY <1>2, <1>3, <1>4, <1>6

(* A node's taking an item, whatever its handler emits.                     *)
LEMMA TakeTyped ==
  ASSUME Typed, NEW n \in Nodes, NEW kinds, NEW ops \in Seq(OpsAt(n)), Len(ops) <= 1,
         Takes(n, kinds), TakeAndEmit(n, ops)
  PROVE  /\ InboxTyped' /\ TodoTyped' /\ turn' \in [Nodes -> Nat]
         /\ todo'[n] = ops /\ \A m \in (Nodes \cup {"agg"}) \ {n} : todo'[m] = todo[m]
  <1>1. InboxTyped' /\ turn' \in [Nodes -> Nat] /\ todo' = [todo EXCEPT ![n] = ops]
    BY TakeKeepsInboxes
  <1>2. TodoTyped /\ n \in Nodes \cup {"agg"}
    BY DEF Typed
  <1>3. /\ TodoTyped' /\ todo'[n] = ops
        /\ \A m \in (Nodes \cup {"agg"}) \ {n} : todo'[m] = todo[m]
    BY <1>1, <1>2, TodoKeeps
  <1>4. QED
    BY <1>1, <1>3

LEMMA RelayTakeTyped ==
  ASSUME Typed, NEW n \in Nodes, NEW kinds, n = "llm" => "LLMRun" \notin kinds,
         Takes(n, kinds), TakeAndRelay(n)
  PROVE  /\ InboxTyped' /\ TodoTyped' /\ turn' \in [Nodes -> Nat]
         /\ todo'[n] = Relay(n, Taken(n))
         /\ \A m \in (Nodes \cup {"agg"}) \ {n} : todo'[m] = todo[m]
         /\ n # "out" => todo'[n] = <<PushTo(Below[n], Taken(n))>>
         /\ n = "out" => todo'[n] = <<>>
  <1>1. TakeAndEmit(n, Relay(n, Taken(n)))
    BY DEF TakeAndRelay
  <1>2. Taken(n) \in ItemsAt(n) /\ Taken(n).kind \in kinds
    BY <1>1, TakeKeepsInboxes
  <1>3. Relay(n, Taken(n)) \in Seq(OpsAt(n)) /\ Len(Relay(n, Taken(n))) <= 1
    BY <1>2, RelayTyped
  <1>4. /\ n # "out" => Relay(n, Taken(n)) = <<PushTo(Below[n], Taken(n))>>
        /\ n = "out" => Relay(n, Taken(n)) = <<>>
    BY <1>2, RelayTyped
  <1>5. /\ InboxTyped' /\ TodoTyped' /\ turn' \in [Nodes -> Nat]
        /\ todo'[n] = Relay(n, Taken(n))
        /\ \A m \in (Nodes \cup {"agg"}) \ {n} : todo'[m] = todo[m]
    BY <1>1, <1>3, TakeTyped
  <1>6. QED
    BY <1>4, <1>5

(* A node that passes an item on, and its next push.                        *)
LEMMA NodeTyped ==
  ASSUME Typed, NEW n \in Nodes \cup {"agg"}, (n \in Nodes /\ NodeRelays(n)) \/ NodePush(n)
  PROVE  Typed'
  <1> USE DEF Typed
  <1>1. /\ UNCHANGED <<userVars, llmVars, asstVars, ttsVars, played>>
        /\ InboxTyped' /\ TodoTyped' /\ turn' \in [Nodes -> Nat]
    <2>1. CASE n \in Nodes /\ NodeRelays(n)
      <3>1. n = "llm" => "LLMRun" \notin Others[n]
        BY Chain
      <3>2. Takes(n, Others[n]) /\ TakeAndRelay(n)
        BY <2>1 DEF NodeRelays
      <3>3. InboxTyped' /\ TodoTyped' /\ turn' \in [Nodes -> Nat]
        BY <2>1, <3>1, <3>2, RelayTakeTyped
      <3>4. QED
        BY <2>1, <3>3 DEF NodeRelays
    <2>2. CASE NodePush(n)
      <3> DEFINE p == Head(todo[n])
      <3>1. /\ todo[n] # <<>> /\ p.op = "push"
            /\ inbox' = [inbox EXCEPT ![p.to] = Enqueue(@, p.q)]
            /\ todo' = [todo EXCEPT ![n] = Tail(@)]
        BY <2>2 DEF NodePush
      <3>2. /\ p.to \in Nodes /\ p.q \in ItemsAt(p.to)
            /\ n # "agg" => Tail(todo[n]) = <<>>
            /\ Tail(todo[n]) \in Seq(OpsAt(n))
        BY <3>1, NextPush
      <3> HIDE DEF p
      <3>3. InboxTyped'
        BY <3>1, <3>2, PushKeepsInboxes
      <3>4. n # "agg" => Len(Tail(todo[n])) <= 1
        <4>1. Len(<<>>) <= 1
          OBVIOUS
        <4>2. QED
          BY <3>2, <4>1, Zenon
      <3>5. TodoTyped'
        BY <3>1, <3>2, <3>4, TodoKeeps
      <3>6. QED
        BY <2>2, <3>3, <3>5 DEF NodePush, TalkTyped
    <2>3. QED
      BY <2>1, <2>2
  <1>2. RunsTyped' /\ SynthsTyped' /\ TalkTyped'
    BY <1>1 DEF userVars, llmVars, asstVars, ttsVars, RunsTyped, SynthsTyped, TalkTyped
  <1>3. QED
    BY <1>1, <1>2

(* The LLM service. *)
LEMMA LLMTyped ==
  ASSUME Typed, LLMStep
  PROVE  Typed'
  <1> USE DEF Typed
  <1>0. "llm" \in Nodes
    BY Chain
  <1>1. ASSUME LLMInterrupted
        PROVE  InboxTyped' /\ TodoTyped' /\ turn' \in [Nodes -> Nat] /\ RunsTyped'
    <2>1. Takes("llm", {"Interruption"}) /\ TakeAndRelay("llm")
      BY <1>1 DEF LLMInterrupted
    <2>2. "llm" = "llm" => "LLMRun" \notin {"Interruption"}
      OBVIOUS
    <2>3. InboxTyped' /\ TodoTyped' /\ turn' \in [Nodes -> Nat]
      BY <1>0, <2>1, <2>2, RelayTakeTyped
    <2>4. cancel' = 0 /\ cancel' \in 0..Transcripts
      BY <1>1, VoiceAssumption DEF LLMInterrupted
    <2>5. CASE cancel = 0
      BY <1>1, <2>3, <2>4, <2>5 DEF LLMInterrupted, RunsTyped
    <2>6. CASE cancel # 0
      <3>1. cancel \in Runs
        BY <2>6, VoiceAssumption DEF RunsTyped, Runs
      <3> DEFINE x == [runs[cancel] EXCEPT !.cancelled = TRUE]
      <3>2. runs' = [runs EXCEPT ![cancel] = x]
        BY <1>1, <2>6 DEF LLMInterrupted
      <3>3. x \in RunSet(cancel) /\ (x.todo # <<>> => x.state = "push")
        BY <3>1 DEF RunsTyped, RunSet
      <3> HIDE DEF x
      <3>4. QED
        BY <2>3, <2>4, <3>1, <3>2, <3>3, RunKeeps
    <2>7. QED
      BY <2>5, <2>6
  <1>2. ASSUME LLMStartsRun
        PROVE  InboxTyped' /\ TodoTyped' /\ turn' \in [Nodes -> Nat] /\ RunsTyped'
    <2>1. <<>> \in Seq(OpsAt("llm")) /\ Len(<<>>) <= 1
      OBVIOUS
    <2>2. Takes("llm", {"LLMRun"}) /\ TakeAndEmit("llm", <<>>)
      BY <1>2 DEF LLMStartsRun
    <2>3. InboxTyped' /\ TodoTyped' /\ turn' \in [Nodes -> Nat]
      BY <1>0, <2>1, <2>2, TakeTyped
    <2>4. cancel' \in 0..Transcripts
      BY <1>2 DEF LLMStartsRun, RunsTyped
    <2> DEFINE r == Taken("llm").run
               x == [NoRun EXCEPT !.state = "begin", !.turn = turn["llm"]]
    <2>5. runs' = [runs EXCEPT ![r] = x]
      BY <1>2 DEF LLMStartsRun
    <2>6. x.todo = <<>> /\ \A q \in Runs : x \in RunSet(q)
      <3>1. turn["llm"] \in Nat
        BY <1>0 DEF TalkTyped
      <3>2. \A q \in Runs : NoRun \in RunSet(q) /\ NoRun.todo = <<>>
        BY DEF NoRun, RunSet
      <3>3. \A q \in Runs : x \in RunSet(q)
        BY <3>1, <3>2 DEF RunSet
      <3>4. NoRun \in [state : {"none"}, turn : {0}, cancelled : {FALSE}, known : {0},
                       todo : {<<>>}]
        BY DEF NoRun
      <3>5. x.todo = <<>>
        BY <3>4
      <3>6. QED
        BY <3>3, <3>5
    <2> HIDE DEF r, x
    <2>7. CASE r \in Runs
      BY <2>3, <2>4, <2>5, <2>6, <2>7, RunKeeps
    <2>8. CASE r \notin Runs
      <3>1. runs' = runs
        BY <2>5, <2>8 DEF RunsTyped
      <3>2. QED
        BY <2>3, <2>4, <3>1 DEF RunsTyped
    <2>9. QED
      BY <2>7, <2>8
  <1>3. UNCHANGED <<userVars, asstVars, ttsVars, played>>
    BY DEF LLMStep, LLMInterrupted, LLMStartsRun
  <1>4. SynthsTyped'
    BY <1>3 DEF SynthsTyped, ttsVars
  <1>5. InboxTyped' /\ TodoTyped' /\ turn' \in [Nodes -> Nat] /\ RunsTyped'
    BY <1>1, <1>2 DEF LLMStep
  <1>6. TalkTyped'
    BY <1>3, <1>5 DEF userVars, asstVars, ttsVars, TalkTyped
  <1>7. QED
    BY <1>4, <1>5, <1>6

(* The completions. *)
LEMMA RunTyped ==
  ASSUME Typed, NEW r \in Runs, RunStep(r)
  PROVE  Typed'
  <1> USE DEF Typed
  <1>1. runs = [q \in Runs |-> runs[q]] /\ runs[r] \in RunSet(r) /\ r \in 0..Transcripts
    BY VoiceAssumption DEF RunsTyped, Runs
  <1>2. ASSUME RunBegin(r)
        PROVE  RunsTyped'
    <2>1. runs' = [q \in Runs |-> IF q = r THEN [runs[q] EXCEPT !.state = "snapshot"]
                                  ELSE IF q = cancel THEN [runs[q] EXCEPT !.cancelled = TRUE]
                                  ELSE runs[q]]
      BY <1>2 DEF RunBegin
    <2>2. cancel' \in 0..Transcripts
      BY <1>1, <1>2 DEF RunBegin
    <2>3. ASSUME NEW q \in Runs
          PROVE  runs'[q] \in RunSet(q) /\ (runs'[q].todo # <<>> => runs'[q].state = "push")
      <3>1. runs[q] \in RunSet(q) /\ (runs[q].todo # <<>> => runs[q].state = "push")
        BY DEF RunsTyped
      <3>2. CASE q = r
        <4>1. runs[r].todo = <<>>
          BY <1>2, <3>1, <3>2 DEF RunBegin
        <4>2. runs'[q] = [runs[q] EXCEPT !.state = "snapshot"]
          BY <2>1, <3>2
        <4>3. QED
          BY <3>1, <3>2, <4>1, <4>2 DEF RunSet
      <3>3. CASE q # r /\ q = cancel
        <4>1. runs'[q] = [runs[q] EXCEPT !.cancelled = TRUE]
          BY <2>1, <3>3
        <4>2. QED
          BY <3>1, <4>1 DEF RunSet
      <3>4. CASE q # r /\ q # cancel
        BY <2>1, <3>1, <3>4
      <3>5. QED
        BY <3>2, <3>3, <3>4
    <2>4. runs' = [q \in Runs |-> runs'[q]]
      BY <2>1
    <2>5. QED
      BY <2>2, <2>3, <2>4 DEF RunsTyped
  <1>3. ASSUME RunSnapshot(r)
        PROVE  RunsTyped'
    <2> DEFINE k == Cardinality({i \in DOMAIN messages : messages[i].role = "user"})
               x == [runs[r] EXCEPT !.state = "request", !.known = k]
    <2>1. k \in Nat
      <3>1. Len(messages) \in Nat /\ DOMAIN messages = 1..Len(messages)
        BY LenProperties DEF TalkTyped
      <3>2. {i \in DOMAIN messages : messages[i].role = "user"} \in SUBSET (1..Len(messages))
        BY <3>1
      <3>3. QED
        BY <3>1, <3>2, PositionsFinite
    <2>2. runs' = [runs EXCEPT ![r] = x] /\ cancel' = cancel
      BY <1>3 DEF RunSnapshot
    <2> HIDE DEF k
    <2>3. x \in RunSet(r)
      BY <1>1, <2>1 DEF RunSet
    <2>4. x.todo = <<>>
      <3>1. x.todo = runs[r].todo
        BY <1>1 DEF RunSet
      <3>2. QED
        BY <1>3, <3>1 DEF RunSnapshot, RunsTyped
    <2> HIDE DEF x
    <2>5. QED
      BY <2>2, <2>3, <2>4, RunKeeps DEF RunsTyped
  <1>4. ASSUME RunRequest(r)
        PROVE  RunsTyped'
    <2>1. PICK v \in Seq(RunOps(r)) : runs' = [runs EXCEPT ![r].state = "push", ![r].todo = v]
      BY <1>4, AnswerIs
    <2> DEFINE x == [runs[r] EXCEPT !.state = "push", !.todo = v]
    <2>2. runs' = [runs EXCEPT ![r] = x] /\ cancel' = cancel
      BY <1>4, <2>1 DEF RunRequest
    <2>3. x \in RunSet(r) /\ x.state = "push"
      BY <1>1 DEF RunSet
    <2> HIDE DEF x
    <2>4. QED
      BY <2>2, <2>3, RunKeeps DEF RunsTyped
  <1>5. ASSUME RunPush(r)
        PROVE  InboxTyped' /\ RunsTyped'
    <2> DEFINE p == Head(runs[r].todo)
               v == Tail(runs[r].todo)
               x == [runs[r] EXCEPT !.todo = v]
    <2>1. /\ runs[r].todo # <<>> /\ runs' = [runs EXCEPT ![r] = x] /\ cancel' = cancel
          /\ inbox' = [inbox EXCEPT ![p.to] = Enqueue(@, p.q)] \/ inbox' = inbox
      BY <1>5 DEF RunPush
    <2>2. p.to = "asst" /\ p.q \in ItemSet /\ v \in Seq(RunOps(r)) /\ runs[r].state = "push"
      BY <2>1, RunNext
    <2> HIDE DEF p, v
    <2>3. x \in RunSet(r) /\ x.state = "push"
      BY <1>1, <2>2 DEF RunSet
    <2> HIDE DEF x
    <2>4. RunsTyped'
      BY <2>1, <2>3, RunKeeps DEF RunsTyped
    <2>5. "asst" \in Nodes /\ ItemsAt("asst") = ItemSet
      BY Chain DEF ItemsAt
    <2>6. InboxTyped'
      <3>1. CASE inbox' = inbox
        BY <3>1 DEF InboxTyped
      <3>2. CASE inbox' = [inbox EXCEPT !["asst"] = Enqueue(@, p.q)]
        BY <2>2, <2>5, <3>2, PushKeepsInboxes
      <3>3. QED
        BY <2>1, <2>2, <3>1, <3>2
    <2>7. QED
      BY <2>4, <2>6
  <1>6. RunsTyped' /\ InboxTyped'
    BY <1>2, <1>3, <1>4, <1>5
    DEF RunStep, RunBegin, RunSnapshot, RunRequest, InboxTyped
  <1>7. UNCHANGED <<todo, userVars, turn, asstVars, ttsVars, played>>
    BY DEF RunStep, RunBegin, RunSnapshot, RunRequest, RunPush
  <1>8. QED
    BY <1>6, <1>7 DEF TodoTyped, SynthsTyped, TalkTyped, userVars, asstVars, ttsVars

-----------------------------------------------------------------------------
(* The assistant aggregator; it commits what it has collected. *)
LEMMA AssistantTyped ==
  ASSUME Typed, OfOneRun(partial), AssistantStep
  PROVE  Typed'
  <1> USE DEF Typed
  <1>0. "asst" \in Nodes /\ ItemsAt("asst") = ItemSet /\ ("asst" = "llm" => FALSE)
    BY Chain DEF ItemsAt
  <1>1. ASSUME AssistantResets
        PROVE  InboxTyped' /\ TodoTyped' /\ TalkTyped'
    <2>1. /\ Takes("asst", {"LLMFullResponseStart", "Interruption"}) /\ TakeAndRelay("asst")
          /\ partial' = <<>> /\ UNCHANGED <<userVars, llmVars, ttsVars, played>>
      BY <1>1 DEF AssistantResets
    <2>2. InboxTyped' /\ TodoTyped' /\ turn' \in [Nodes -> Nat]
      BY <1>0, <2>1, RelayTakeTyped
    <2>3. QED
      BY <2>1, <2>2, ItemsMade DEF TalkTyped, userVars, ttsVars
  <1>2. ASSUME AssistantCollects
        PROVE  InboxTyped' /\ TodoTyped' /\ TalkTyped'
    <2> DEFINE x == [Taken("asst") EXCEPT !.kind = "Text"]
    <2>1. /\ Takes("asst", {"LLMText"}) /\ TakeAndEmit("asst", Relay("asst", x))
          /\ partial' = partial \o Taken("asst").text
          /\ UNCHANGED <<userVars, llmVars, ttsVars, played>>
      BY <1>2 DEF AssistantCollects
    <2>2. Taken("asst") \in ItemSet /\ Taken("asst").kind = "LLMText"
      BY <1>0, <2>1, TakeKeepsInboxes
    <2>3. x \in ItemSet /\ Taken("asst").text \in Texts
      BY <2>2 DEF ItemSet, IsText, Kinds, IsSystem, SystemKinds
    <2> HIDE DEF x
    <2>4. Relay("asst", x) \in Seq(OpsAt("asst")) /\ Len(Relay("asst", x)) <= 1
      BY <1>0, <2>3, RelayTyped
    <2>5. InboxTyped' /\ TodoTyped' /\ turn' \in [Nodes -> Nat]
      BY <1>0, <2>1, <2>4, TakeTyped
    <2>6. partial' \in Texts
      BY <2>1, <2>3, ConcatProperties DEF TalkTyped, Texts
    <2>7. QED
      BY <2>1, <2>5, <2>6 DEF TalkTyped, userVars, ttsVars
  <1>3. ASSUME AssistantCommits
        PROVE  InboxTyped' /\ TodoTyped' /\ TalkTyped'
    <2> DEFINE m == [role |-> "assistant", run |-> Taken("asst").run, text |-> partial]
               M == [role : {"user", "assistant"}, run : 0..Transcripts, text : Texts]
    <2>1. /\ Takes("asst", {"LLMFullResponseEnd"}) /\ TakeAndRelay("asst")
          /\ messages' = (IF partial = <<>> THEN messages ELSE Append(messages, m))
          /\ partial' = <<>>
          /\ UNCHANGED <<said, interims, buffer, played>>
      BY <1>3 DEF AssistantCommits, ttsVars
    <2>2. InboxTyped' /\ TodoTyped' /\ turn' \in [Nodes -> Nat]
      BY <1>0, <2>1, RelayTakeTyped
    <2>3. Taken("asst") \in ItemSet
      BY <1>0, <2>1, TakeKeepsInboxes DEF TakeAndRelay
    <2>4. m \in M /\ OfOneRun(m.text) /\ messages \in Seq(M)
      BY <2>3 DEF TalkTyped, ItemSet
    <2> HIDE DEF m, M
    <2>5. messages' \in Seq(M) /\ \A i \in DOMAIN messages' : OfOneRun(messages'[i].text)
      <3>1. CASE partial = <<>>
        BY <2>1, <2>4, <3>1 DEF TalkTyped
      <3>2. CASE messages' = Append(messages, m)
        <4>1. /\ messages' \in Seq(M)
              /\ \A i \in DOMAIN messages' :
                   messages'[i] = m \/ \E j \in DOMAIN messages : messages'[i] = messages[j]
          BY <2>4, <3>2, AppendOnly
        <4>2. QED
          BY <2>4, <4>1 DEF TalkTyped
      <3>3. QED
        BY <2>1, <3>1, <3>2
    <2>6. QED
      BY <2>1, <2>2, <2>5, ItemsMade DEF TalkTyped, M
  <1>4. UNCHANGED <<llmVars, ttsVars>>
    BY DEF AssistantStep, AssistantResets, AssistantCollects, AssistantCommits
  <1>5. QED
    BY <1>1, <1>2, <1>3, <1>4 DEF AssistantStep, llmVars, ttsVars, RunsTyped, SynthsTyped

(* The TTS service's node; it speaks what it has collected. *)
LEMMA TTSTyped ==
  ASSUME Typed, OfOneRun(buffer), TTSStep
  PROVE  Typed'
  <1> USE DEF Typed
  <1>0. "tts" \in Nodes /\ ItemsAt("tts") = ItemSet /\ ("tts" = "llm" => FALSE)
    BY Chain DEF ItemsAt
  <1>1. ASSUME TTSResets
        PROVE  /\ InboxTyped' /\ TodoTyped' /\ turn' \in [Nodes -> Nat]
               /\ SynthsTyped' /\ buffer' \in Texts
    <2>1. /\ Takes("tts", {"LLMFullResponseStart", "Interruption"}) /\ TakeAndRelay("tts")
          /\ buffer' = <<>> /\ synths' = synths
      BY <1>1 DEF TTSResets
    <2>2. InboxTyped' /\ TodoTyped' /\ turn' \in [Nodes -> Nat]
      BY <1>0, <2>1, RelayTakeTyped
    <2>3. QED
      BY <2>1, <2>2, ItemsMade DEF SynthsTyped
  <1>2. ASSUME TTSCollects
        PROVE  /\ InboxTyped' /\ TodoTyped' /\ turn' \in [Nodes -> Nat]
               /\ SynthsTyped' /\ buffer' \in Texts
    <2>1. /\ Takes("tts", {"LLMText", "Text"}) /\ TakeAndRelay("tts")
          /\ buffer' = buffer \o Taken("tts").text /\ synths' = synths
      BY <1>2 DEF TTSCollects
    <2>2. InboxTyped' /\ TodoTyped' /\ turn' \in [Nodes -> Nat]
      BY <1>0, <2>1, RelayTakeTyped
    <2>3. Taken("tts") \in ItemSet
      BY <1>0, <2>1, TakeKeepsInboxes DEF TakeAndRelay
    <2>4. buffer' \in Texts
      BY <2>1, <2>3, ConcatProperties DEF TalkTyped, Texts, ItemSet
    <2>5. QED
      BY <2>1, <2>2, <2>4 DEF SynthsTyped
  <1>3. ASSUME TTSStartsSynthesis
        PROVE  /\ InboxTyped' /\ TodoTyped' /\ turn' \in [Nodes -> Nat]
               /\ SynthsTyped' /\ buffer' \in Texts
    <2> DEFINE ops == IF canceling \/ buffer = <<>> THEN <<PushTo("out", Taken("tts"))>>
                      ELSE Synthesis(Taken("tts"), buffer)
    <2>1. /\ Takes("tts", {"LLMFullResponseEnd"}) /\ TakeAndEmit("tts", <<>>)
          /\ synths' = Append(synths, [turn |-> turn["tts"], todo |-> ops])
          /\ buffer' = <<>>
      BY <1>3 DEF TTSStartsSynthesis
    <2>2. <<>> \in Seq(OpsAt("tts")) /\ Len(<<>>) <= 1
      OBVIOUS
    <2>3. InboxTyped' /\ TodoTyped' /\ turn' \in [Nodes -> Nat]
      BY <1>0, <2>1, <2>2, TakeTyped
    <2>4. Taken("tts") \in ServiceItems
      BY <1>0, <2>1, TakeKeepsInboxes DEF ServiceItems
    <2>5. PushTo("out", Taken("tts")) \in SynthOps
      BY <2>4 DEF PushTo, SynthOps, Pushes
    <2>6. Synthesis(Taken("tts"), buffer) \in Seq(SynthOps)
      BY <2>4, SynthesisIs DEF TalkTyped
    <2>7. \A S : \A x \in S : <<x>> \in Seq(S)
      OBVIOUS
    <2>8. ops \in Seq(SynthOps)
      BY <2>5, <2>6, <2>7
    <2> HIDE DEF ops
    <2>9. turn["tts"] \in Nat
      BY <1>0 DEF TalkTyped
    <2>10. [turn |-> turn["tts"], todo |-> ops] \in [turn : Nat, todo : Seq(SynthOps)]
      BY <2>8, <2>9
    <2>11. SynthsTyped'
      BY <2>1, <2>10, AppendProperties DEF SynthsTyped
    <2>12. QED
      BY <2>1, <2>3, <2>11, ItemsMade
  <1>4. UNCHANGED <<userVars, llmVars, asstVars, played>>
    BY DEF TTSStep, TTSResets, TTSCollects, TTSStartsSynthesis
  <1>5. /\ InboxTyped' /\ TodoTyped' /\ turn' \in [Nodes -> Nat]
        /\ SynthsTyped' /\ buffer' \in Texts
    BY <1>1, <1>2, <1>3 DEF TTSStep
  <1>6. QED
    BY <1>4, <1>5 DEF userVars, llmVars, asstVars, RunsTyped, TalkTyped

(* The syntheses. *)
LEMMA SynthTyped ==
  ASSUME Typed, NEW s \in DOMAIN synths, SynthStep(s)
  PROVE  Typed'
  <1> USE DEF Typed
  <1>1. "out" \in Nodes /\ ItemsAt("out") = ItemSet
    BY Chain DEF ItemsAt
  <1>2. ASSUME SynthRequest(s)
        PROVE  SynthsTyped'
    BY <1>2, SynthIs, SynthKeeps
  <1>3. ASSUME SynthFlag(s) \/ SynthPush(s)
        PROVE  SynthsTyped' /\ InboxTyped'
    <2> DEFINE p == Head(synths[s].todo)
               v == Tail(synths[s].todo)
    <2>1. /\ synths[s].todo # <<>> /\ synths' = [synths EXCEPT ![s].todo = v]
          /\ \/ inbox' = inbox
             \/ p.op = "push" /\ inbox' = [inbox EXCEPT ![p.to] = Enqueue(@, p.q)]
      BY <1>3 DEF SynthFlag, SynthPush, SynthAt, SynthGoesOn
    <2>2. v \in Seq(SynthOps) /\ (p.op = "push" => p.to = "out" /\ p.q \in ItemSet)
      BY <2>1, SynthNext
    <2> HIDE DEF p, v
    <2>3. SynthsTyped'
      BY <2>1, <2>2, SynthKeeps
    <2>4. InboxTyped'
      <3>1. CASE inbox' = inbox
        BY <3>1 DEF InboxTyped
      <3>2. CASE p.op = "push" /\ inbox' = [inbox EXCEPT !["out"] = Enqueue(@, p.q)]
        BY <1>1, <2>2, <3>2, PushKeepsInboxes
      <3>3. QED
        BY <2>1, <2>2, <3>1, <3>2
    <2>5. QED
      BY <2>3, <2>4
  <1>4. UNCHANGED <<todo, userVars, turn, llmVars, asstVars, buffer, played>>
    BY DEF SynthStep, SynthRequest, SynthFlag, SynthPush
  <1>5. SynthRequest(s) => inbox' = inbox
    BY DEF SynthRequest
  <1>6. InboxTyped' /\ SynthsTyped'
    BY <1>2, <1>3, <1>5 DEF SynthStep, InboxTyped
  <1>7. QED
    BY <1>4, <1>6 DEF TodoTyped, RunsTyped, TalkTyped, userVars, llmVars, asstVars

(* The output. *)
LEMMA OutputTyped ==
  ASSUME Typed, OutputSends
  PROVE  Typed'
  <1> USE DEF Typed
  <1>0. "out" \in Nodes /\ ("out" = "llm" => FALSE)
    BY Chain
  <1> DEFINE m == [run |-> Taken("out").run, text |-> Taken("out").text]
             M == [run : 0..Transcripts, text : Texts]
  <1>1. /\ Takes("out", {"TTSAudio"}) /\ TakeAndRelay("out") /\ played' = Append(played, m)
        /\ UNCHANGED <<userVars, llmVars, asstVars, ttsVars>>
    BY DEF OutputSends
  <1>2. InboxTyped' /\ TodoTyped' /\ turn' \in [Nodes -> Nat]
    BY <1>0, <1>1, RelayTakeTyped
  <1>3. Taken("out") \in ItemSet
    BY <1>0, <1>1, TakeKeepsInboxes DEF TakeAndRelay
  <1>4. m \in M /\ OfOneRun(m.text) /\ played \in Seq(M)
    BY <1>3 DEF ItemSet, TalkTyped
  <1> HIDE DEF m, M
  <1>5. /\ played' \in Seq(M)
        /\ \A i \in DOMAIN played' :
             played'[i] = m \/ \E j \in DOMAIN played : played'[i] = played[j]
    BY <1>1, <1>4, AppendOnly
  <1>6. \A i \in DOMAIN played' : OfOneRun(played'[i].text)
    BY <1>4, <1>5 DEF TalkTyped
  <1>7. TalkTyped'
    BY <1>1, <1>2, <1>5, <1>6 DEF TalkTyped, userVars, asstVars, ttsVars, M
  <1>8. QED
    BY <1>1, <1>2, <1>7 DEF llmVars, ttsVars, RunsTyped, SynthsTyped

(* Every step keeps the types, as long as no answer is made of two.         *)
LEMMA NextTyped ==
  ASSUME Typed, OfOneRun(partial), OfOneRun(buffer), [Next]_vars
  PROVE  Typed'
  <1>1. CASE UNCHANGED vars
    BY <1>1 DEF vars, Typed, InboxTyped, TodoTyped, RunsTyped, SynthsTyped, TalkTyped
  <1>2. CASE Transcription \/ InterimTranscription \/ AppendUser
    BY <1>2, AggregatorTyped
  <1>3. CASE LLMStep
    BY <1>3, LLMTyped
  <1>4. CASE AssistantStep
    BY <1>4, AssistantTyped
  <1>5. CASE TTSStep
    BY <1>5, TTSTyped
  <1>6. CASE OutputSends
    BY <1>6, OutputTyped
  <1>7. CASE \E n \in Nodes : NodeRelays(n)
    BY <1>7, NodeTyped
  <1>8. CASE \E n \in Nodes \cup {"agg"} : NodePush(n)
    BY <1>8, NodeTyped
  <1>9. CASE \E r \in Runs : RunStep(r)
    BY <1>9, RunTyped
  <1>10. CASE \E s \in DOMAIN synths : SynthStep(s)
    BY <1>10, SynthTyped
  <1>11. QED
    BY <1>1, <1>2, <1>3, <1>4, <1>5, <1>6, <1>7, <1>8, <1>9, <1>10 DEF Next, Work

-----------------------------------------------------------------------------
(* Turns.  An interruption goes down the chain node by node, each of which  *)
(* begins a new turn with it; so a node is in an earlier turn than the one  *)
(* above it by the interruptions that are still between the two, and what   *)
(* it has yet to handle is of its own turn or of a later one.               *)
Waiting(n) == Cardinality(KindAt(inbox[n].sys, "Interruption"))

Passing(n) ==
  IF todo[n] # <<>> /\ Head(todo[n]).q.kind = "Interruption" THEN 1 ELSE 0

TurnsFall ==
  \A n \in Nodes \ {"out"} : turn[Below[n]] + Waiting(Below[n]) + Passing(n) <= turn[n]

(* The run an item is of, if any, was started in turn t or later.           *)
Since(rs, q, t) == q.run # 0 => rs[q.run].turn >= t

RunsBegun == \A r \in Runs : runs[r].turn <= turn["llm"]

LanesSince ==
  \A n \in Nodes \ {"llm"} : \A i \in DOMAIN inbox[n].down :
    Since(runs, inbox[n].down[i], turn[n])

TodoSince ==
  \A n \in {"asst", "tts"} : \A i \in DOMAIN todo[n] : Since(runs, todo[n][i].q, turn[n])

SynthsSince ==
  \A s \in DOMAIN synths : \A i \in DOMAIN synths[s].todo :
    Since(runs, synths[s].todo[i].q, synths[s].turn)

Turns == TurnsFall /\ RunsBegun /\ LanesSince /\ TodoSince /\ SynthsSince

(* A run that is replaced by a later one of the same transcript.            *)
RunsGrow == \A r \in Runs : runs'[r].turn >= runs[r].turn

LEMMA RunTurns ==
  ASSUME Typed, NEW r \in Runs
  PROVE  runs[r].turn \in Nat
  BY DEF Typed, RunsTyped, RunSet

LEMMA SinceLater ==
  ASSUME Typed, Typed', RunsGrow, NEW q \in ItemSet, NEW t \in Nat, Since(runs, q, t)
  PROVE  Since(runs', q, t)
  <1>1. CASE q.run = 0
    BY <1>1 DEF Since
  <1>2. CASE q.run # 0
    <2>1. q.run \in Runs
      BY <1>2, VoiceAssumption DEF ItemSet, Runs
    <2>2. runs[q.run].turn \in Nat /\ runs'[q.run].turn \in Nat
      BY <2>1 DEF Typed, RunsTyped, RunSet
    <2>3. QED
      BY <1>2, <2>1, <2>2 DEF Since, RunsGrow
  <1>3. QED
    BY <1>1, <1>2

LEMMA SinceEarlier ==
  ASSUME Typed, NEW q \in ItemSet, NEW t \in Nat, NEW u \in Nat, u <= t, Since(runs, q, t)
  PROVE  Since(runs, q, u)
  <1>1. CASE q.run = 0
    BY <1>1 DEF Since
  <1>2. CASE q.run # 0
    <2>1. q.run \in Runs
      BY <1>2, VoiceAssumption DEF ItemSet, Runs
    <2>2. QED
      BY <1>2, <2>1, RunTurns DEF Since
  <1>3. QED
    BY <1>1, <1>2

(* What is in an inbox, and how many interruptions.                         *)
LEMMA LanesAre ==
  ASSUME Typed, NEW n \in Nodes
  PROVE  /\ Waiting(n) \in Nat /\ Passing(n) \in {0, 1} /\ turn[n] \in Nat
         /\ inbox[n].sys \in Seq(Systems(ItemsAt(n))) /\ inbox[n].down \in Seq(Data(ItemsAt(n)))
         /\ inbox[n].sys \in Seq(ItemSet) /\ inbox[n].down \in Seq(ItemSet)
         /\ \A i \in DOMAIN inbox[n].sys :
              inbox[n].sys[i] \in ItemSet /\ inbox[n].sys[i].run = 0
         /\ \A i \in DOMAIN inbox[n].down : inbox[n].down[i] \in ItemSet
  <1>1. /\ inbox[n].sys \in Seq(Systems(ItemsAt(n))) /\ inbox[n].down \in Seq(Data(ItemsAt(n)))
        /\ Systems(ItemsAt(n)) \subseteq ItemSet /\ Data(ItemsAt(n)) \subseteq ItemSet
        /\ \A q \in Systems(ItemsAt(n)) : q.run = 0
    <2>1. Holds(inbox[n], ItemsAt(n))
      BY DEF Typed, InboxTyped
    <2>2. ItemsAt(n) \subseteq ItemSet
      BY DEF ItemsAt, UserItems
    <2>3. QED
      BY <2>1, <2>2 DEF Holds, Systems, Data, ItemSet
  <1>2. /\ \A i \in DOMAIN inbox[n].sys : inbox[n].sys[i] \in Systems(ItemsAt(n))
        /\ \A i \in DOMAIN inbox[n].down : inbox[n].down[i] \in Data(ItemsAt(n))
    BY <1>1, ElementOfSeq, LenProperties
  <1>3. inbox[n].sys \in Seq(ItemSet) /\ inbox[n].down \in Seq(ItemSet)
    BY <1>1
  <1>4. Waiting(n) \in Nat
    <2>1. Len(inbox[n].sys) \in Nat /\ DOMAIN inbox[n].sys = 1..Len(inbox[n].sys)
      BY <1>1, LenProperties
    <2>2. KindAt(inbox[n].sys, "Interruption") \in SUBSET (1..Len(inbox[n].sys))
      BY <2>1 DEF KindAt
    <2>3. QED
      BY <2>1, <2>2, PositionsFinite DEF Waiting
  <1>5. turn[n] \in Nat /\ Passing(n) \in {0, 1}
    BY DEF Typed, TalkTyped, Passing
  <1>6. QED
    BY <1>1, <1>2, <1>3, <1>4, <1>5

(* A node is never in a later turn than the one above it. *)
LEMMA TurnBelow ==
  ASSUME Typed, TurnsFall, NEW n \in Nodes, n # "out"
  PROVE  Below[n] \in Nodes /\ turn[Below[n]] + Passing(n) <= turn[n]
  <1>1. Below[n] \in Nodes
    BY Chain
  <1>2. turn[Below[n]] + Waiting(Below[n]) + Passing(n) <= turn[n]
    BY DEF TurnsFall
  <1>3. QED
    BY <1>1, <1>2, LanesAre

(* An item is put into an inbox. *)
LEMMA PushTurns ==
  ASSUME Typed, Typed', Turns, RunsGrow, NEW n \in Nodes, NEW q \in ItemsAt(n),
         inbox' = [inbox EXCEPT ![n] = Enqueue(@, q)], UNCHANGED turn,
         n # "llm" => Since(runs, q, turn[n])
  PROVE  /\ LanesSince'
         /\ \A m \in Nodes : Waiting(m)' =
              IF m = n /\ q.kind = "Interruption" THEN Waiting(m) + 1 ELSE Waiting(m)
  <1>1. /\ \A m \in Nodes \ {n} : inbox'[m] = inbox[m]
        /\ IsSystem(q.kind) => /\ inbox'[n].sys = Append(inbox[n].sys, q)
                               /\ inbox'[n].down = inbox[n].down
        /\ ~IsSystem(q.kind) => /\ inbox'[n].sys = inbox[n].sys
                                /\ inbox'[n].down = Append(inbox[n].down, q)
    BY PushKeepsInboxes DEF Typed
  <1>2. q \in ItemSet /\ inbox[n].sys \in Seq(ItemSet) /\ inbox[n].down \in Seq(ItemSet)
    BY LanesAre DEF ItemsAt, UserItems
  <1>3. ASSUME NEW m \in Nodes \ {"llm"}, NEW i \in DOMAIN inbox'[m].down
        PROVE  Since(runs', inbox'[m].down[i], turn'[m])
    <2>1. turn[m] \in Nat /\ turn'[m] = turn[m]
      BY LanesAre
    <2>2. CASE i \in DOMAIN inbox[m].down /\ inbox'[m].down[i] = inbox[m].down[i]
      <3>1. inbox[m].down[i] \in ItemSet /\ Since(runs, inbox[m].down[i], turn[m])
        BY <2>2, LanesAre DEF Turns, LanesSince
      <3>2. QED
        BY <2>1, <2>2, <3>1, SinceLater
    <2>3. CASE m = n /\ inbox'[m].down[i] = q
      BY <1>2, <2>1, <2>3, SinceLater
    <2>4. \/ i \in DOMAIN inbox[m].down /\ inbox'[m].down[i] = inbox[m].down[i]
          \/ m = n /\ inbox'[m].down[i] = q
      <3>1. CASE m # n \/ IsSystem(q.kind)
        BY <1>1, <3>1
      <3>2. CASE m = n /\ ~IsSystem(q.kind)
        <4>1. inbox'[n].down = Append(inbox[n].down, q) /\ i \in DOMAIN inbox'[n].down
          BY <1>1, <3>2
        <4>2. QED
          BY <1>2, <3>2, <4>1, AppendOnly
      <3>3. QED
        BY <3>1, <3>2
    <2>5. QED
      BY <2>2, <2>3, <2>4
  <1>4. ASSUME NEW m \in Nodes
        PROVE  Waiting(m)' = IF m = n /\ q.kind = "Interruption" THEN Waiting(m) + 1
                             ELSE Waiting(m)
    <2>1. Waiting(m)' = Cardinality(KindAt(inbox'[m].sys, "Interruption"))
      BY DEF Waiting
    <2>2. CASE m # n \/ ~IsSystem(q.kind)
      <3>1. q.kind = "Interruption" => IsSystem(q.kind)
        BY <1>2, KindsAre
      <3>2. inbox'[m].sys = inbox[m].sys
        BY <1>1, <2>2
      <3>3. Waiting(m)' = Waiting(m)
        BY <2>1, <3>2 DEF Waiting
      <3>4. QED
        BY <2>2, <3>1, <3>3
    <2>3. CASE m = n /\ IsSystem(q.kind)
      <3>1. inbox'[m].sys = Append(inbox[m].sys, q)
        BY <1>1, <2>3
      <3>2. Waiting(m) \in Nat
        BY LanesAre
      <3>3. Cardinality(KindAt(Append(inbox[m].sys, q), "Interruption")) =
              Cardinality(KindAt(inbox[m].sys, "Interruption"))
                + (IF q.kind = "Interruption" THEN 1 ELSE 0)
        BY <1>2, <2>3, KindAfterAppend
      <3>4. Waiting(m) = Cardinality(KindAt(inbox[m].sys, "Interruption"))
        BY DEF Waiting
      <3>5. Waiting(m)' = Cardinality(KindAt(Append(inbox[m].sys, q), "Interruption"))
        BY <2>1, <3>1, Zenon
      <3>6. QED
        BY <2>3, <3>2, <3>3, <3>4, <3>5
    <2>4. QED
      BY <2>2, <2>3
  <1>5. LanesSince'
    BY <1>3 DEF LanesSince
  <1>6. QED
    BY <1>4, <1>5

(* What a node emits for an item it has taken, if anything, is of the same  *)
(* run, and an interruption if the item is one.                             *)
PassesOn(n, ops) ==
  \/ ops = <<>>
  \/ \E q \in ItemSet : /\ ops = <<PushTo(Below[n], q)>> /\ q.run = Taken(n).run
                        /\ (q.kind = "Interruption" <=> Taken(n).kind = "Interruption")

(* What a node takes is of its turn, and so is what it passes on.           *)
LEMMA TakeTurns ==
  ASSUME Typed, Typed', Turns, RunsGrow, NEW n \in Nodes, NEW kinds, NEW ops,
         Takes(n, kinds), TakeAndEmit(n, ops), PassesOn(n, ops)
  PROVE  /\ TurnsFall' /\ LanesSince' /\ TodoSince'
         /\ \A m \in Nodes : turn'[m] >= turn[m]
         /\ n # "llm" => Since(runs, Taken(n), turn[n])
  <1> DEFINE x == Taken(n)
             cut == x.kind = "Interruption"
  <1>1. /\ x \in ItemSet /\ todo[n] = <<>> /\ todo' = [todo EXCEPT ![n] = ops]
        /\ \A m \in Nodes \ {n} : inbox'[m] = inbox[m] /\ turn'[m] = turn[m]
        /\ turn'[n] = IF cut THEN turn[n] + 1 ELSE turn[n]
        /\ IsSystem(x.kind) =>
              /\ inbox[n].sys # <<>> /\ x = Head(inbox[n].sys)
              /\ inbox'[n].sys = Tail(inbox[n].sys)
              /\ inbox'[n].down = IF cut THEN <<>> ELSE inbox[n].down
        /\ ~IsSystem(x.kind) =>
              /\ inbox[n].sys = <<>> /\ inbox[n].down # <<>> /\ x = Head(inbox[n].down)
              /\ inbox'[n].sys = <<>> /\ inbox'[n].down = Tail(inbox[n].down)
    BY TakeKeepsInboxes
  <1>2. /\ inbox[n].sys \in Seq(ItemSet) /\ inbox[n].down \in Seq(ItemSet)
        /\ \A i \in DOMAIN inbox[n].down : inbox[n].down[i] \in ItemSet
        /\ \A m \in Nodes : turn[m] \in Nat /\ Waiting(m) \in Nat
    BY LanesAre
  <1>3. \/ ops = <<>>
        \/ \E q \in ItemSet : /\ ops = <<PushTo(Below[n], q)>> /\ q.run = x.run
                              /\ (q.kind = "Interruption" <=> cut)
    BY DEF PassesOn
  <1>4. todo = [m \in Nodes \cup {"agg"} |-> todo[m]]
    BY DEF Typed, TodoTyped
  <1>5. /\ IsSystem(x.kind) => x.run = 0
        /\ cut => IsSystem(x.kind)
    BY <1>1, KindsAre DEF ItemSet
  <1> HIDE DEF x, cut
  <1>6. \A m \in Nodes : turn'[m] >= turn[m] /\ (~cut => turn'[m] = turn[m])
    BY <1>1, <1>2
  <1>7. n # "llm" => Since(runs, x, turn[n])
    <2>1. CASE IsSystem(x.kind)
      BY <1>5, <2>1 DEF Since
    <2>2. CASE ~IsSystem(x.kind)
      <3>1. 1 \in DOMAIN inbox[n].down /\ Head(inbox[n].down) = inbox[n].down[1]
        BY <1>1, <1>2, <2>2, EmptySeq, LenProperties
      <3>2. QED
        BY <1>1, <2>2, <3>1 DEF Turns, LanesSince
    <2>3. QED
      BY <2>1, <2>2
  <1>8. LanesSince'
    <2>1. ASSUME NEW m \in Nodes \ {"llm"}, NEW i \in DOMAIN inbox'[m].down
          PROVE  Since(runs', inbox'[m].down[i], turn'[m])
      <3>1. turn'[m] = turn[m] /\ \E j \in DOMAIN inbox[m].down :
              inbox'[m].down[i] = inbox[m].down[j]
        <4>1. CASE m # n
          BY <1>1, <4>1
        <4>2. CASE m = n /\ cut
          BY <1>1, <1>5, <4>2
        <4>3. CASE m = n /\ ~cut /\ IsSystem(x.kind)
          BY <1>1, <1>6, <4>3
        <4>4. CASE m = n /\ ~IsSystem(x.kind)
          <5>1. inbox[n].down # <<>> /\ inbox'[n].down = Tail(inbox[n].down)
            BY <1>1, <4>4
          <5>2. /\ Tail(inbox[n].down) \in Seq(ItemSet)
                /\ Len(Tail(inbox[n].down)) = Len(inbox[n].down) - 1
                /\ \A k \in 1..Len(inbox[n].down) - 1 :
                     Tail(inbox[n].down)[k] = inbox[n].down[k + 1]
                /\ Len(inbox[n].down) \in Nat /\ DOMAIN inbox[n].down = 1..Len(inbox[n].down)
            BY <1>2, <5>1, HeadTailProperties, LenProperties
          <5>3. i \in 1..Len(inbox[n].down) - 1
            BY <4>4, <5>1, <5>2, LenProperties
          <5>4. i + 1 \in DOMAIN inbox[n].down /\ inbox'[n].down[i] = inbox[n].down[i + 1]
            BY <5>1, <5>2, <5>3
          <5>5. QED
            BY <1>5, <1>6, <4>4, <5>4
        <4>5. QED
          BY <4>1, <4>2, <4>3, <4>4
      <3>2. PICK j \in DOMAIN inbox[m].down : inbox'[m].down[i] = inbox[m].down[j]
        BY <3>1
      <3>3. inbox[m].down[j] \in ItemSet /\ turn[m] \in Nat
        BY LanesAre
      <3>4. Since(runs, inbox[m].down[j], turn[m])
        BY DEF Turns, LanesSince
      <3>5. QED
        BY <3>1, <3>2, <3>3, <3>4, SinceLater
    <2>2. QED
      BY <2>1 DEF LanesSince
  <1>9. TodoSince'
    <2>1. ASSUME NEW m \in {"asst", "tts"}, NEW i \in DOMAIN todo'[m]
          PROVE  Since(runs', todo'[m][i].q, turn'[m])
      <3>1. m \in Nodes /\ m # "llm"
        BY DEF Nodes
      <3>2. CASE m # n
        <4>1. todo'[m] = todo[m] /\ turn'[m] = turn[m]
          BY <1>1, <1>4, <3>1, <3>2
        <4>2. todo[m] \in Seq(OpsAt(m)) /\ \A p \in OpsAt(m) : p.q \in ItemSet
          BY <3>1 DEF Typed, TodoTyped, OpsAt, Pushes
        <4>3. todo[m][i] \in OpsAt(m)
          BY <4>1, <4>2, ElementOfSeq, LenProperties
        <4>4. Since(runs, todo[m][i].q, turn[m]) /\ turn[m] \in Nat
          BY <1>2, <3>1, <4>1 DEF Turns, TodoSince
        <4>5. QED
          BY <4>1, <4>2, <4>3, <4>4, SinceLater
      <3>3. CASE m = n
        <4>1. todo'[n] = ops
          BY <1>1, <1>4
        <4>2. PICK q \in ItemSet : /\ ops = <<PushTo(Below[n], q)>> /\ q.run = x.run
                                   /\ (q.kind = "Interruption" <=> cut)
          BY <1>3, <3>3, <4>1
        <4>3. todo'[n][i].q = q
          BY <3>3, <4>1, <4>2 DEF PushTo
        <4>4. Since(runs, q, turn'[n]) /\ turn'[n] \in Nat
          BY <1>1, <1>2, <1>5, <1>6, <1>7, <3>1, <3>3, <4>2 DEF Since
        <4>5. QED
          BY <3>3, <4>3, <4>4, SinceLater
      <3>4. QED
        BY <3>2, <3>3
    <2>2. QED
      BY <2>1 DEF TodoSince
  <1>10. TurnsFall'
    <2>1. \A m \in Nodes \ {n} : Waiting(m)' = Waiting(m) /\ Passing(m)' = Passing(m)
      BY <1>1, <1>4 DEF Waiting, Passing
    <2>2. Passing(n) = 0 /\ Passing(n)' \in {0, IF cut THEN 1 ELSE 0}
      <3>1. Passing(n) = 0
        BY <1>1 DEF Passing
      <3>2. Passing(n)' = IF ops # <<>> /\ Head(ops).q.kind = "Interruption" THEN 1 ELSE 0
        BY <1>1, <1>4 DEF Passing
      <3>3. CASE ops = <<>>
        BY <3>1, <3>2, <3>3
      <3>4. CASE \E q \in ItemSet : /\ ops = <<PushTo(Below[n], q)>>
                                    /\ q.kind = "Interruption" <=> cut
        <4>1. PICK q \in ItemSet : /\ ops = <<PushTo(Below[n], q)>>
                                   /\ q.kind = "Interruption" <=> cut
          BY <3>4
        <4>2. Head(ops).q = q
          BY <4>1 DEF PushTo
        <4>3. QED
          BY <3>1, <3>2, <4>1, <4>2
      <3>5. QED
        BY <1>3, <3>3, <3>4
    <2>3. Waiting(n)' \in Nat /\ Waiting(n)' + turn'[n] = Waiting(n) + turn[n]
      <3>1. /\ Waiting(n) = Cardinality(KindAt(inbox[n].sys, "Interruption"))
            /\ Waiting(n)' = Cardinality(KindAt(inbox'[n].sys, "Interruption"))
        BY DEF Waiting
      <3>2. CASE IsSystem(x.kind)
        <4>1. /\ Cardinality(KindAt(Tail(inbox[n].sys), "Interruption")) \in Nat
              /\ Cardinality(KindAt(inbox[n].sys, "Interruption")) =
                   Cardinality(KindAt(Tail(inbox[n].sys), "Interruption"))
                     + (IF Head(inbox[n].sys).kind = "Interruption" THEN 1 ELSE 0)
          BY <1>1, <1>2, <3>2, KindAfterTail
        <4>2. Head(inbox[n].sys).kind = "Interruption" <=> cut
          BY <1>1, <3>2 DEF cut
        <4>3. inbox'[n].sys = Tail(inbox[n].sys)
          BY <1>1, <3>2
        <4>4. Waiting(n)' = Cardinality(KindAt(Tail(inbox[n].sys), "Interruption"))
          BY <3>1, <4>3, Zenon
        <4>5. turn'[n] = turn[n] + (IF cut THEN 1 ELSE 0) /\ turn[n] \in Nat
          BY <1>1, <1>2
        <4>6. QED
          BY <3>1, <4>1, <4>2, <4>4, <4>5
      <3>3. CASE ~IsSystem(x.kind)
        <4>1. inbox'[n].sys = inbox[n].sys /\ turn'[n] = turn[n]
          BY <1>1, <1>5, <3>3
        <4>2. Waiting(n)' = Waiting(n)
          BY <3>1, <4>1 DEF Waiting
        <4>3. QED
          BY <1>2, <4>1, <4>2
      <3>4. QED
        BY <3>2, <3>3
    <2>4. ASSUME NEW m \in Nodes \ {"out"}
          PROVE  turn'[Below[m]] + Waiting(Below[m])' + Passing(m)' <= turn'[m]
      <3>1. Below[m] \in Nodes /\ Below[m] # m
        BY Chain
      <3>2. turn[Below[m]] + Waiting(Below[m]) + Passing(m) <= turn[m]
        BY DEF Turns, TurnsFall
      <3>3. Passing(m) \in {0, 1} /\ turn'[Below[m]] \in Nat
        BY <3>1, LanesAre DEF Typed, TalkTyped
      <3>4. turn[m] \in Nat /\ turn[Below[m]] \in Nat /\ Waiting(Below[m]) \in Nat
        BY <1>2, <3>1
      <3>5. CASE m = n
        <4>1. turn'[Below[m]] = turn[Below[m]] /\ Waiting(Below[m])' = Waiting(Below[m])
          BY <1>1, <2>1, <3>1, <3>5
        <4>2. Passing(m) = 0 /\ Passing(m)' \in {0, IF cut THEN 1 ELSE 0}
          BY <2>2, <3>5
        <4>3. turn'[m] = turn[m] + IF cut THEN 1 ELSE 0
          BY <1>1, <3>4, <3>5
        <4>4. QED
          BY <3>2, <3>4, <4>1, <4>2, <4>3
      <3>6. CASE Below[m] = n
        <4>1. m # n /\ turn'[m] = turn[m] /\ Passing(m)' = Passing(m)
          BY <1>1, <2>1, <3>1, <3>6
        <4>2. QED
          BY <2>3, <3>2, <3>3, <3>4, <3>6, <4>1
      <3>7. CASE m # n /\ Below[m] # n
        BY <1>1, <2>1, <3>1, <3>2, <3>7
      <3>8. QED
        BY <3>5, <3>6, <3>7
    <2>5. QED
      BY <2>4 DEF TurnsFall
  <1>11. QED
    BY <1>6, <1>7, <1>8, <1>9, <1>10 DEF x

LEMMA SynthItem ==
  ASSUME SynthsTyped, NEW s \in DOMAIN synths
  PROVE  /\ synths[s].turn \in Nat /\ synths[s].todo \in Seq(SynthOps)
         /\ \A i \in DOMAIN synths[s].todo :
              /\ synths[s].todo[i] \in SynthOps
              /\ synths[s].todo[i].q \in ItemSet \/ synths[s].todo[i].q.run = 0
  <1>1. synths[s].turn \in Nat /\ synths[s].todo \in Seq(SynthOps)
    <2>1. s \in 1..Len(synths)
      BY LenProperties DEF SynthsTyped
    <2>2. synths[s] \in [turn : Nat, todo : Seq(SynthOps)]
      BY <2>1, ElementOfSeq DEF SynthsTyped
    <2>3. QED
      BY <2>2
  <1>2. \A i \in DOMAIN synths[s].todo : synths[s].todo[i] \in SynthOps
    BY <1>1, ElementOfSeq, LenProperties
  <1>3. \A p \in SynthOps : p.q \in ItemSet \/ p.q.run = 0
    BY DEF SynthOps, Pushes, Accesses, Do, Item, ServiceItems
  <1>4. QED
    BY <1>1, <1>2, <1>3

(* What a step leaves alone. *)
LEMMA TurnsKeep ==
  ASSUME Typed, Typed', Turns, RunsGrow
  PROVE  /\ UNCHANGED <<inbox, turn>> => LanesSince'
         /\ (UNCHANGED turn /\ \A n \in {"asst", "tts"} : todo'[n] = todo[n] \/ todo'[n] = <<>>)
              => TodoSince'
         /\ UNCHANGED synths => SynthsSince'
  <1>1. ASSUME UNCHANGED <<inbox, turn>>
        PROVE  LanesSince'
    <2>1. ASSUME NEW n \in Nodes \ {"llm"}, NEW i \in DOMAIN inbox[n].down
          PROVE  Since(runs', inbox[n].down[i], turn[n])
      <3>1. inbox[n].down[i] \in ItemSet /\ turn[n] \in Nat
        BY LanesAre
      <3>2. QED
        BY <3>1, SinceLater DEF Turns, LanesSince
    <2>2. QED
      BY <1>1, <2>1 DEF LanesSince
  <1>2. ASSUME UNCHANGED turn, \A n \in {"asst", "tts"} : todo'[n] = todo[n] \/ todo'[n] = <<>>
        PROVE  TodoSince'
    <2>1. ASSUME NEW n \in {"asst", "tts"}, NEW i \in DOMAIN todo[n]
          PROVE  Since(runs', todo[n][i].q, turn[n])
      <3>1. n \in Nodes
        BY DEF Nodes
      <3>2. todo[n] \in Seq(OpsAt(n)) /\ \A p \in OpsAt(n) : p.q \in ItemSet
        BY <3>1 DEF Typed, TodoTyped, OpsAt, Pushes
      <3>3. todo[n][i] \in OpsAt(n)
        BY <3>2, ElementOfSeq, LenProperties
      <3>4. turn[n] \in Nat
        BY <3>1, LanesAre
      <3>5. QED
        BY <3>2, <3>3, <3>4, SinceLater DEF Turns, TodoSince
    <2>2. QED
      BY <1>2, <2>1 DEF TodoSince
  <1>3. ASSUME UNCHANGED synths
        PROVE  SynthsSince'
    <2>1. ASSUME NEW s \in DOMAIN synths, NEW i \in DOMAIN synths[s].todo
          PROVE  Since(runs', synths[s].todo[i].q, synths[s].turn)
      <3>1. synths[s].todo[i].q \in ItemSet \/ synths[s].todo[i].q.run = 0
        BY SynthItem DEF Typed
      <3>2. synths[s].turn \in Nat
        BY SynthItem DEF Typed
      <3>3. CASE synths[s].todo[i].q \in ItemSet
        BY <3>2, <3>3, SinceLater DEF Turns, SynthsSince
      <3>4. CASE synths[s].todo[i].q.run = 0
        BY <3>4 DEF Since
      <3>5. QED
        BY <3>1, <3>3, <3>4
    <2>2. QED
      BY <1>3, <2>1 DEF SynthsSince
  <1>4. QED
    BY <1>1, <1>2, <1>3

(* Only the user aggregator moves. *)
LEMMA AggregatorTurns ==
  ASSUME Typed, Typed', Turns, Transcription \/ InterimTranscription \/ AppendUser
  PROVE  Turns'
  <1>1. /\ UNCHANGED <<inbox, turn, runs, synths>>
        /\ \E ops : todo' = [todo EXCEPT !["agg"] = ops]
    BY DEF Transcription, InterimTranscription, AppendUser, llmVars, ttsVars
  <1>2. \A n \in Nodes : todo'[n] = todo[n]
    BY <1>1, Chain DEF Typed, TodoTyped
  <1>3. RunsGrow
    <2>1. \A r \in Runs : runs[r].turn \in Nat
      BY RunTurns
    <2>2. QED
      BY <1>1, <2>1 DEF RunsGrow
  <1>4. LanesSince' /\ TodoSince' /\ SynthsSince'
    <2>1. {"asst", "tts"} \subseteq Nodes
      BY DEF Nodes
    <2>2. QED
      BY <1>1, <1>2, <1>3, <2>1, TurnsKeep
  <1>5. TurnsFall'
    <2>1. \A n \in Nodes : Waiting(n)' = Waiting(n) /\ Passing(n)' = Passing(n)
      BY <1>1, <1>2 DEF Waiting, Passing
    <2>2. QED
      BY <1>1, <2>1, Chain DEF Turns, TurnsFall
  <1>6. RunsBegun'
    BY <1>1 DEF Turns, RunsBegun
  <1>7. QED
    BY <1>4, <1>5, <1>6 DEF Turns

(* A node passes on what it takes. *)
LEMMA RelayTurns ==
  ASSUME Typed, Typed', Turns, RunsGrow, NEW n \in Nodes, NEW kinds,
         Takes(n, kinds), TakeAndRelay(n)
  PROVE  TurnsFall' /\ LanesSince' /\ TodoSince' /\ \A m \in Nodes : turn'[m] >= turn[m]
  <1>1. TakeAndEmit(n, Relay(n, Taken(n)))
    BY DEF TakeAndRelay
  <1>2. Taken(n) \in ItemSet
    BY <1>1, TakeKeepsInboxes
  <1>3. PassesOn(n, Relay(n, Taken(n)))
    BY <1>2 DEF Relay, PassesOn
  <1>4. QED
    BY <1>1, <1>2, <1>3, TakeTurns

(* No run is started, and no turn goes back. *)
LEMMA RunsStay ==
  ASSUME Typed, Typed', Turns, UNCHANGED runs
  PROVE  RunsGrow /\ (turn'["llm"] >= turn["llm"] => RunsBegun')
  <1>1. \A r \in Runs : runs[r].turn \in Nat
    BY RunTurns
  <1>2. turn["llm"] \in Nat /\ turn'["llm"] \in Nat
    BY Chain DEF Typed, TalkTyped
  <1>3. QED
    BY <1>1, <1>2 DEF RunsGrow, RunsBegun, Turns

LEMMA LLMTurns ==
  ASSUME Typed, Typed', Turns, LLMStep
  PROVE  Turns'
  <1>0. /\ "llm" \in Nodes /\ turn["llm"] \in Nat
        /\ \A r \in Runs : runs[r].turn \in Nat /\ runs[r].turn <= turn["llm"]
        /\ runs = [r \in Runs |-> runs[r]] /\ \A r \in Runs : runs[r] \in RunSet(r)
        /\ UNCHANGED synths
    BY Chain, LanesAre, RunTurns
    DEF Turns, RunsBegun, Typed, RunsTyped, LLMStep, LLMInterrupted, LLMStartsRun, ttsVars
  <1>1. CASE LLMInterrupted
    <2>1. \A r \in Runs : runs'[r].turn = runs[r].turn
      <3>1. CASE cancel = 0
        BY <1>1, <3>1 DEF LLMInterrupted
      <3>2. CASE cancel # 0
        <4> DEFINE x == [runs[cancel] EXCEPT !.cancelled = TRUE]
        <4>1. cancel \in Runs
          BY <3>2, VoiceAssumption DEF Typed, RunsTyped, Runs
        <4>2. x.turn = runs[cancel].turn
          BY <1>0, <4>1 DEF RunSet
        <4>3. runs' = [runs EXCEPT ![cancel] = x]
          BY <1>1, <3>2 DEF LLMInterrupted
        <4> HIDE DEF x
        <4>4. QED
          BY <1>0, <4>1, <4>2, <4>3
      <3>3. QED
        BY <3>1, <3>2
    <2>2. RunsGrow
      BY <1>0, <2>1 DEF RunsGrow
    <2>3. /\ TurnsFall' /\ LanesSince' /\ TodoSince' /\ turn'["llm"] >= turn["llm"]
      BY <1>0, <1>1, <2>2, RelayTurns DEF LLMInterrupted
    <2>4. turn'["llm"] \in Nat
      BY <1>0 DEF Typed, TalkTyped
    <2>5. RunsBegun'
      BY <1>0, <2>1, <2>3, <2>4 DEF RunsBegun
    <2>6. SynthsSince'
      BY <1>0, <2>2, TurnsKeep
    <2>7. QED
      BY <2>3, <2>5, <2>6 DEF Turns
  <1>2. CASE LLMStartsRun
    <2>1. Takes("llm", {"LLMRun"}) /\ TakeAndEmit("llm", <<>>) /\ PassesOn("llm", <<>>)
      BY <1>2 DEF LLMStartsRun, PassesOn
    <2> DEFINE r == Taken("llm").run
               x == [NoRun EXCEPT !.state = "begin", !.turn = turn["llm"]]
    <2>2. runs' = [runs EXCEPT ![r] = x] /\ x.turn = turn["llm"]
      BY <1>2 DEF LLMStartsRun, NoRun
    <2> HIDE DEF r, x
    <2>3. \A q \in Runs : runs'[q].turn = runs[q].turn \/ runs'[q].turn = turn["llm"]
      BY <1>0, <2>2
    <2>4. RunsGrow
      BY <1>0, <2>3 DEF RunsGrow
    <2>5. /\ TurnsFall' /\ LanesSince' /\ TodoSince' /\ turn'["llm"] >= turn["llm"]
      BY <1>0, <2>1, <2>4, TakeTurns
    <2>6. turn'["llm"] \in Nat
      BY <1>0 DEF Typed, TalkTyped
    <2>7. RunsBegun'
      BY <1>0, <2>3, <2>5, <2>6 DEF RunsBegun
    <2>8. SynthsSince'
      BY <1>0, <2>4, TurnsKeep
    <2>9. QED
      BY <2>5, <2>7, <2>8 DEF Turns
  <1>3. QED
    BY <1>1, <1>2 DEF LLMStep

(* The nodes that pass on what they take, perhaps with another kind.        *)
LEMMA NodeTurns ==
  ASSUME Typed, Typed', Turns,
         \/ \E n \in Nodes : NodeRelays(n)
         \/ AssistantStep \/ TTSResets \/ TTSCollects \/ OutputSends
  PROVE  Turns'
  <1>1. UNCHANGED runs /\ UNCHANGED synths
    BY DEF NodeRelays, AssistantStep, AssistantResets, AssistantCollects, AssistantCommits,
           TTSResets, TTSCollects, OutputSends, llmVars, ttsVars
  <1>2. RunsGrow /\ (turn'["llm"] >= turn["llm"] => RunsBegun')
    BY <1>1, RunsStay
  <1>3. TurnsFall' /\ LanesSince' /\ TodoSince' /\ \A m \in Nodes : turn'[m] >= turn[m]
    <2>1. CASE AssistantCollects
      <3> DEFINE x == [Taken("asst") EXCEPT !.kind = "Text"]
      <3>1. Takes("asst", {"LLMText"}) /\ TakeAndEmit("asst", Relay("asst", x)) /\ "asst" \in Nodes
        BY <2>1, Chain DEF AssistantCollects
      <3>2. Taken("asst") \in ItemSet /\ Taken("asst").kind = "LLMText"
        BY <3>1, TakeKeepsInboxes
      <3>3. /\ x \in ItemSet /\ x.run = Taken("asst").run
            /\ x.kind # "Interruption" /\ Taken("asst").kind # "Interruption"
        BY <3>2 DEF ItemSet, IsText, Kinds, IsSystem, SystemKinds
      <3> HIDE DEF x
      <3>4. PassesOn("asst", Relay("asst", x))
        BY <3>3 DEF Relay, PassesOn
      <3>5. QED
        BY <1>2, <3>1, <3>4, TakeTurns
    <2>2. CASE \E n \in Nodes : NodeRelays(n)
      BY <1>2, <2>2, RelayTurns DEF NodeRelays
    <2>3. CASE AssistantResets \/ AssistantCommits
      BY <1>2, <2>3, RelayTurns, Chain DEF AssistantResets, AssistantCommits
    <2>4. CASE TTSResets \/ TTSCollects
      BY <1>2, <2>4, RelayTurns, Chain DEF TTSResets, TTSCollects
    <2>5. CASE OutputSends
      BY <1>2, <2>5, RelayTurns, Chain DEF OutputSends
    <2>6. QED
      BY <2>1, <2>2, <2>3, <2>4, <2>5 DEF AssistantStep
  <1>4. SynthsSince'
    BY <1>1, <1>2, TurnsKeep
  <1>5. QED
    BY <1>2, <1>3, <1>4, Chain DEF Turns

(* A synthesis is of the response it is started for, and of its turn.       *)
LEMMA SpeakTurns ==
  ASSUME Typed, Typed', OfOneRun(buffer), Turns, TTSStartsSynthesis
  PROVE  Turns'
  <1> DEFINE f == Taken("tts")
             ops == IF canceling \/ buffer = <<>> THEN <<PushTo("out", f)>>
                    ELSE Synthesis(f, buffer)
             y == [turn |-> turn["tts"], todo |-> ops]
  <1>1. /\ Takes("tts", {"LLMFullResponseEnd"}) /\ TakeAndEmit("tts", <<>>) /\ "tts" \in Nodes
        /\ synths' = Append(synths, y) /\ UNCHANGED runs /\ "tts" # "llm"
    BY Chain DEF TTSStartsSynthesis, llmVars
  <1>2. RunsGrow /\ (turn'["llm"] >= turn["llm"] => RunsBegun')
    BY <1>1, RunsStay
  <1>3. /\ TurnsFall' /\ LanesSince' /\ TodoSince' /\ \A m \in Nodes : turn'[m] >= turn[m]
        /\ Since(runs, f, turn["tts"])
    <2>1. PassesOn("tts", <<>>)
      BY DEF PassesOn
    <2>2. QED
      BY <1>1, <1>2, <2>1, TakeTurns
  <1>4. f \in ServiceItems /\ turn["tts"] \in Nat /\ buffer \in Texts
    BY <1>1, TakeKeepsInboxes DEF ServiceItems, Typed, TalkTyped
  <1> HIDE DEF f
  <1>5. \A i \in DOMAIN ops : ops[i].q.run \in {0, f.run}
    <2>1. CASE ops = <<PushTo("out", f)>>
      BY <2>1 DEF PushTo
    <2>2. CASE ops = Synthesis(f, buffer)
      <3>1. /\ Synthesis(f, buffer) \in Seq(SynthOps) /\ Len(Synthesis(f, buffer)) = 7
            /\ \A i \in 1..7 : Synthesis(f, buffer)[i].q.run \in {0, f.run}
        BY <1>4, SynthesisIs
      <3>2. QED
        BY <2>2, <3>1, LenProperties
    <2>3. QED
      BY <2>1, <2>2
  <1> HIDE DEF ops
  <1>6. y.turn = turn["tts"] /\ y.todo = ops
    OBVIOUS
  <1> HIDE DEF y
  <1>7. \A i \in DOMAIN y.todo : Since(runs, y.todo[i].q, y.turn)
    BY <1>3, <1>5, <1>6 DEF Since
  <1>8. runs' = runs
    BY <1>1
  <1>9. SynthsSince'
    <2>1. synths \in Seq([turn : Nat, todo : Seq(SynthOps)]) /\ synths' = Append(synths, y)
      BY <1>1 DEF Typed, SynthsTyped
    <2> DEFINE R == [turn : Nat, todo : Seq(SynthOps)]
               S == {y} \cup R
    <2>2. synths \in Seq(R)
      BY <2>1
    <2> HIDE DEF R
    <2>3. synths \in Seq(S) /\ y \in S
      BY <2>2
    <2> HIDE DEF S
    <2>4. \A s \in DOMAIN synths' :
            synths'[s] = y \/ \E t \in DOMAIN synths : synths'[s] = synths[t]
      BY <2>1, <2>3, AppendOnly
    <2>5. QED
      BY <1>7, <1>8, <2>4 DEF SynthsSince, Turns
  <1>10. QED
    BY <1>1, <1>2, <1>3, <1>9, Chain DEF Turns

(* A node pushes what it has to. *)
LEMMA PushedTurns ==
  ASSUME Typed, Typed', Turns, NEW n \in Nodes \cup {"agg"}, NodePush(n)
  PROVE  Turns'
  <1>0. PICK p, m, q : p = Head(todo[n]) /\ m = p.to /\ q = p.q
    OBVIOUS
  <1>1. /\ todo[n] # <<>> /\ p.op = "push"
        /\ inbox' = [inbox EXCEPT ![m] = Enqueue(@, q)]
        /\ todo' = [todo EXCEPT ![n] = Tail(@)]
        /\ UNCHANGED <<turn, runs, synths>>
    BY <1>0 DEF NodePush, llmVars, ttsVars
  <1>2. /\ n # "out" /\ m \in Nodes /\ q \in ItemsAt(m)
        /\ n = "agg" => m = "llm"
        /\ n # "agg" => m = Below[n] /\ todo[n] = <<p>> /\ Tail(todo[n]) = <<>>
        /\ n = "llm" => q \in PassedItems
    BY <1>0, <1>1, NextPush DEF Typed
  <1>3. \A k \in Nodes : todo'[k] = IF k = n THEN <<>> ELSE todo[k]
    BY <1>1, <1>2, Chain DEF Typed, TodoTyped
  <1>4. RunsGrow /\ RunsBegun'
    <2>1. turn'["llm"] >= turn["llm"]
      BY <1>1, LanesAre, Chain
    <2>2. QED
      BY <1>1, <2>1, RunsStay
  <1>5. Passing(n) = (IF q.kind = "Interruption" THEN 1 ELSE 0)
    BY <1>0, <1>1 DEF Passing
  <1>6. ASSUME m # "llm"
        PROVE  Since(runs, q, turn[m])
    <2>1. n \in {"llm", "asst", "tts"} /\ m = Below[n] /\ todo[n] = <<p>>
      BY <1>2, <1>6, Chain
    <2>2. CASE n = "llm"
      BY <1>2, <2>2 DEF Since, PassedItems
    <2>3. CASE n \in {"asst", "tts"}
      <3>1. DOMAIN todo[n] = {1} /\ todo[n][1].q = q
        BY <1>0, <2>1
      <3>2. Since(runs, q, turn[n])
        BY <2>3, <3>1 DEF Turns, TodoSince
      <3>3. turn[m] <= turn[n] /\ turn[m] \in Nat /\ turn[n] \in Nat
        <4>1. n \in Nodes
          BY <2>1, Chain
        <4>2. turn[m] + Passing(n) <= turn[n] /\ Passing(n) \in {0, 1}
          BY <1>2, <2>1, <4>1, TurnBelow, LanesAre DEF Turns
        <4>3. turn[m] \in Nat /\ turn[n] \in Nat
          BY <1>2, <4>1, LanesAre
        <4>4. QED
          BY <4>2, <4>3
      <3>4. q \in ItemSet
        BY <1>2 DEF ItemsAt, UserItems
      <3>5. QED
        BY <3>2, <3>3, <3>4, SinceEarlier
    <2>4. QED
      BY <2>1, <2>2, <2>3
  <1>7. /\ LanesSince'
        /\ \A k \in Nodes : Waiting(k)' =
             IF k = m /\ q.kind = "Interruption" THEN Waiting(k) + 1 ELSE Waiting(k)
    BY <1>1, <1>2, <1>4, <1>6, PushTurns
  <1>8. TodoSince' /\ SynthsSince'
    <2>1. \A k \in {"asst", "tts"} : todo'[k] = todo[k] \/ todo'[k] = <<>>
      BY <1>3 DEF Nodes
    <2>2. QED
      BY <1>1, <1>4, <2>1, TurnsKeep
  <1>9. TurnsFall'
    <2>1. ASSUME NEW k \in Nodes \ {"out"}
          PROVE  turn'[Below[k]] + Waiting(Below[k])' + Passing(k)' <= turn'[k]
      <3>1. turn[Below[k]] + Waiting(Below[k]) + Passing(k) <= turn[k] /\ Below[k] \in Nodes
        BY Chain DEF Turns, TurnsFall
      <3>2. /\ turn[Below[k]] \in Nat /\ Waiting(Below[k]) \in Nat /\ turn[k] \in Nat
            /\ Passing(k) \in {0, 1}
        BY <3>1, LanesAre
      <3>3. Passing(k)' = IF k = n THEN 0 ELSE Passing(k)
        BY <1>3 DEF Passing
      <3>4. turn' = turn
        BY <1>1
      <3>5. CASE Below[k] = m
        <4>1. k = n /\ Waiting(m)' = Waiting(m) + Passing(n)
          <5>1. k = n
            BY <1>2, <3>5, Chain
          <5>2. Waiting(m)' = IF q.kind = "Interruption" THEN Waiting(m) + 1 ELSE Waiting(m)
            BY <1>2, <1>7
          <5>3. QED
            BY <1>5, <3>2, <3>5, <5>1, <5>2
        <4>2. QED
          BY <3>1, <3>2, <3>3, <3>4, <3>5, <4>1
      <3>6. CASE Below[k] # m
        <4>1. Waiting(Below[k])' = Waiting(Below[k])
          BY <1>7, <3>1, <3>6
        <4>2. k # n
          BY <1>2, <3>6, Chain
        <4>3. QED
          BY <3>1, <3>2, <3>3, <3>4, <4>1, <4>2
      <3>7. QED
        BY <3>5, <3>6
    <2>2. QED
      BY <2>1 DEF TurnsFall
  <1>10. QED
    BY <1>4, <1>7, <1>8, <1>9 DEF Turns

(* What a service pushes while its context has not ended.                   *)
LEMMA ServiceTurns ==
  ASSUME Typed, Typed', Turns, RunsGrow, UNCHANGED <<todo, turn>>,
         \/ UNCHANGED inbox
         \/ \E n \in Nodes \ {"llm"} : \E q \in ServiceItems :
              inbox' = [inbox EXCEPT ![n] = Enqueue(@, q)] /\ Since(runs, q, turn[n])
  PROVE  TurnsFall' /\ LanesSince' /\ TodoSince'
  <1>1. TodoSince'
    BY TurnsKeep
  <1>2. LanesSince' /\ \A m \in Nodes : Waiting(m)' = Waiting(m)
    <2>1. CASE UNCHANGED inbox
      BY <2>1, TurnsKeep DEF Waiting
    <2>2. CASE \E n \in Nodes \ {"llm"} : \E q \in ServiceItems :
                 inbox' = [inbox EXCEPT ![n] = Enqueue(@, q)] /\ Since(runs, q, turn[n])
      <3>1. PICK n \in Nodes \ {"llm"}, q \in ServiceItems :
              inbox' = [inbox EXCEPT ![n] = Enqueue(@, q)] /\ Since(runs, q, turn[n])
        BY <2>2
      <3>2. q \in ItemsAt(n) /\ q.kind # "Interruption"
        BY DEF ServiceItems, ItemsAt
      <3>3. /\ LanesSince'
            /\ \A m \in Nodes : Waiting(m)' =
                 IF m = n /\ q.kind = "Interruption" THEN Waiting(m) + 1 ELSE Waiting(m)
        BY <3>1, <3>2, PushTurns
      <3>4. QED
        BY <3>2, <3>3
    <2>3. QED
      BY <2>1, <2>2
  <1>3. \A m \in Nodes : Passing(m)' = Passing(m)
    BY DEF Passing
  <1>4. TurnsFall'
    BY <1>2, <1>3, Chain DEF Turns, TurnsFall
  <1>5. QED
    BY <1>1, <1>2, <1>4

(* A completion pushes under the turn it was started in.                    *)
LEMMA CompletionTurns ==
  ASSUME Typed, Typed', Turns, NEW r \in Runs, RunStep(r)
  PROVE  Turns'
  <1>1. UNCHANGED <<todo, turn, synths>> /\ (~RunPush(r) => UNCHANGED inbox)
    BY DEF RunStep, RunBegin, RunSnapshot, RunRequest, RunPush, ttsVars
  <1>2. runs = [q \in Runs |-> runs[q]] /\ \A q \in Runs : runs[q] \in RunSet(q)
    BY DEF Typed, RunsTyped
  <1>3. \A q \in Runs : runs'[q].turn = runs[q].turn
    <2>1. CASE RunBegin(r)
      <3>1. \A q \in Runs : runs'[q] = IF q = r THEN [runs[q] EXCEPT !.state = "snapshot"]
                                       ELSE IF q = cancel
                                            THEN [runs[q] EXCEPT !.cancelled = TRUE]
                                       ELSE runs[q]
        BY <2>1 DEF RunBegin
      <3>2. \A q \in Runs : /\ [runs[q] EXCEPT !.state = "snapshot"].turn = runs[q].turn
                            /\ [runs[q] EXCEPT !.cancelled = TRUE].turn = runs[q].turn
        BY <1>2 DEF RunSet
      <3>3. QED
        BY <3>1, <3>2
    <2>2. ASSUME NEW x, x.turn = runs[r].turn, runs' = [runs EXCEPT ![r] = x]
          PROVE  \A q \in Runs : runs'[q].turn = runs[q].turn
      BY <1>2, <2>2
    <2>3. CASE RunSnapshot(r)
      <3> DEFINE k == Cardinality({i \in DOMAIN messages : messages[i].role = "user"})
                 x == [runs[r] EXCEPT !.state = "request", !.known = k]
      <3>1. runs' = [runs EXCEPT ![r] = x]
        BY <2>3 DEF RunSnapshot
      <3> HIDE DEF k
      <3>2. x.turn = runs[r].turn
        BY <1>2 DEF RunSet
      <3> HIDE DEF x
      <3>3. QED
        BY <2>2, <3>1, <3>2
    <2>4. CASE RunRequest(r)
      <3>1. PICK v \in Seq(RunOps(r)) : runs' = [runs EXCEPT ![r].state = "push", ![r].todo = v]
        BY <2>4, AnswerIs DEF Typed
      <3> DEFINE x == [runs[r] EXCEPT !.state = "push", !.todo = v]
      <3>2. runs' = [runs EXCEPT ![r] = x]
        BY <3>1
      <3>3. x.turn = runs[r].turn
        BY <1>2 DEF RunSet
      <3> HIDE DEF x
      <3>4. QED
        BY <2>2, <3>2, <3>3
    <2>5. CASE RunPush(r)
      <3> DEFINE x == [runs[r] EXCEPT !.todo = Tail(@)]
      <3>1. runs' = [runs EXCEPT ![r] = x]
        BY <2>5 DEF RunPush
      <3>2. x.turn = runs[r].turn
        BY <1>2 DEF RunSet
      <3> HIDE DEF x
      <3>3. QED
        BY <2>2, <3>1, <3>2
    <2>6. QED
      BY <2>1, <2>3, <2>4, <2>5 DEF RunStep
  <1>4. RunsGrow /\ RunsBegun'
    <2>1. \A q \in Runs : runs[q].turn \in Nat
      BY RunTurns
    <2>2. QED
      BY <1>1, <1>3, <2>1 DEF RunsGrow, RunsBegun, Turns
  <1>5. \/ UNCHANGED inbox
        \/ \E n \in Nodes \ {"llm"} : \E q \in ServiceItems :
             inbox' = [inbox EXCEPT ![n] = Enqueue(@, q)] /\ Since(runs, q, turn[n])
    <2>1. CASE RunPush(r) /\ ~UNCHANGED inbox
      <3>1. PICK p : p = Head(runs[r].todo)
        OBVIOUS
      <3>2. /\ runs[r].todo # <<>> /\ ~RunIsOver(r)
            /\ inbox' = [inbox EXCEPT ![p.to] = Enqueue(@, p.q)]
        BY <2>1, <3>1 DEF RunPush
      <3>3. p.to = "asst" /\ p.q \in ServiceItems /\ p.q.run \in {0, r}
        BY <3>1, <3>2, RunNext DEF Typed, ServiceItems
      <3>4. "asst" \in Nodes \ {"llm"} /\ "llm" \in Nodes \ {"out"} /\ Below["llm"] = "asst"
        BY Chain
      <3>5. turn["asst"] <= turn["llm"] /\ turn["asst"] \in Nat /\ turn["llm"] \in Nat
        <4>1. turn["asst"] + Passing("llm") <= turn["llm"]
          BY <3>4, TurnBelow DEF Turns
        <4>2. Passing("llm") \in {0, 1} /\ turn["asst"] \in Nat /\ turn["llm"] \in Nat
          BY <3>4, LanesAre
        <4>3. QED
          BY <4>1, <4>2
      <3>6. runs[r].turn >= turn["llm"] /\ runs[r].turn \in Nat
        BY <3>2, <3>5, RunTurns DEF RunIsOver
      <3>7. Since(runs, p.q, turn["asst"])
        BY <3>3, <3>5, <3>6 DEF Since
      <3>8. QED
        BY <3>2, <3>3, <3>4, <3>7
    <2>2. QED
      BY <1>1, <2>1
  <1>6. TurnsFall' /\ LanesSince' /\ TodoSince'
    BY <1>1, <1>4, <1>5, ServiceTurns
  <1>7. SynthsSince'
    BY <1>1, <1>4, TurnsKeep
  <1>8. QED
    BY <1>4, <1>6, <1>7 DEF Turns

(* And so does a synthesis. *)
LEMMA SynthTurns ==
  ASSUME Typed, Typed', Turns, NEW s \in DOMAIN synths, SynthStep(s)
  PROVE  Turns'
  <1>1. UNCHANGED <<todo, turn, runs>> /\ (~SynthPush(s) => UNCHANGED inbox)
    BY DEF SynthStep, SynthRequest, SynthFlag, SynthPush, llmVars
  <1>2. RunsGrow /\ RunsBegun'
    <2>1. turn'["llm"] >= turn["llm"]
      BY <1>1, LanesAre, Chain
    <2>2. QED
      BY <1>1, <2>1, RunsStay
  <1>3. synths[s].todo \in Seq(SynthOps) /\ synths[s].turn \in Nat
    BY SynthItem DEF Typed
  <1>4. \E v \in Seq(SynthOps) :
          /\ synths' = [synths EXCEPT ![s].todo = v]
          /\ \A i \in DOMAIN v : \/ v[i].q.run = 0
                                 \/ \E j \in DOMAIN synths[s].todo :
                                      v[i].q.run = synths[s].todo[j].q.run
    <2> DEFINE ops == synths[s].todo
    <2>1. CASE SynthRequest(s)
      <3>1. PICK v \in Seq(SynthOps) : synths' = [synths EXCEPT ![s].todo = v] /\ LeftOf(v, ops)
        BY <2>1, SynthIs DEF Typed
      <3>2. ops # <<>> /\ ops \in Seq(SynthOps)
        BY <1>3, <2>1 DEF SynthRequest, SynthAt
      <3> HIDE DEF ops
      <3>3. Len(ops) \in DOMAIN ops /\ DOMAIN ops = 1..Len(ops) /\ Len(ops) \in Nat
        BY <3>2, EmptySeq, LenProperties
      <3>4. DOMAIN v = 1..Len(v) /\ Len(v) \in Nat
        BY LenProperties
      <3>5. \A i \in DOMAIN v : v[i].q.run = 0 \/ \E j \in DOMAIN ops : v[i].q.run = ops[j].q.run
        <4>1. CASE /\ Len(v) = Len(ops) - 1
                   /\ \A i \in DOMAIN v : v[i].op = ops[i + 1].op /\ v[i].q.run = ops[i + 1].q.run
          <5>1. \A i \in DOMAIN v : i + 1 \in DOMAIN ops
            BY <3>3, <3>4, <4>1
          <5>2. QED
            BY <4>1, <5>1
        <4>2. CASE \A i \in DOMAIN v : (v[i].op = "push" /\ v[i].q.run = 0) \/ v[i] = ops[Len(ops)]
          BY <3>3, <4>2
        <4>3. QED
          BY <3>1, <4>1, <4>2 DEF LeftOf
      <3>6. QED
        BY <3>1, <3>5 DEF ops
    <2>2. CASE SynthFlag(s) \/ SynthPush(s)
      <3>1. synths[s].todo # <<>> /\ synths' = [synths EXCEPT ![s].todo = Tail(ops)]
        BY <2>2 DEF SynthFlag, SynthPush, SynthAt, SynthGoesOn
      <3>2. ops # <<>> /\ ops \in Seq(SynthOps)
        BY <1>3, <3>1
      <3> HIDE DEF ops
      <3>3. /\ Tail(ops) \in Seq(SynthOps) /\ Len(Tail(ops)) = Len(ops) - 1
            /\ \A i \in 1..Len(ops) - 1 : Tail(ops)[i] = ops[i + 1]
            /\ DOMAIN ops = 1..Len(ops) /\ Len(ops) \in Nat
        BY <3>2, HeadTailProperties, LenProperties
      <3>4. DOMAIN Tail(ops) = 1..Len(ops) - 1
        BY <3>3, LenProperties
      <3>5. \A i \in DOMAIN Tail(ops) : i + 1 \in DOMAIN ops /\ Tail(ops)[i] = ops[i + 1]
        BY <3>3, <3>4
      <3> DEFINE v == Tail(ops)
      <3>6. /\ v \in Seq(SynthOps)
            /\ \A i \in DOMAIN v : \E j \in DOMAIN ops : v[i].q.run = ops[j].q.run
        BY <3>3, <3>5
      <3>7. synths' = [synths EXCEPT ![s].todo = v]
        BY <3>1
      <3> HIDE DEF v
      <3>8. QED
        BY <3>6, <3>7 DEF ops
    <2>3. QED
      BY <2>1, <2>2 DEF SynthStep
  <1>5. PICK v \in Seq(SynthOps) :
          /\ synths' = [synths EXCEPT ![s].todo = v]
          /\ \A i \in DOMAIN v : \/ v[i].q.run = 0
                                 \/ \E j \in DOMAIN synths[s].todo :
                                      v[i].q.run = synths[s].todo[j].q.run
    BY <1>4
  <1>6. /\ DOMAIN synths' = DOMAIN synths
        /\ synths'[s].todo = v /\ synths'[s].turn = synths[s].turn
        /\ \A t \in DOMAIN synths \ {s} : synths'[t] = synths[t]
    BY <1>5, SynthKeeps DEF Typed
  <1>7. SynthsSince'
    <2>1. ASSUME NEW t \in DOMAIN synths', NEW i \in DOMAIN synths'[t].todo
          PROVE  Since(runs', synths'[t].todo[i].q, synths'[t].turn)
      <3>1. CASE t # s
        BY <1>1, <1>6, <3>1 DEF Turns, SynthsSince
      <3>2. CASE t = s
        <4>1. synths'[t].todo[i] = v[i] /\ i \in DOMAIN v
          BY <1>6, <3>2
        <4>2. CASE v[i].q.run = 0
          BY <4>1, <4>2 DEF Since
        <4>3. CASE \E j \in DOMAIN synths[s].todo : v[i].q.run = synths[s].todo[j].q.run
          BY <1>1, <1>6, <3>2, <4>1, <4>3 DEF Turns, SynthsSince, Since
        <4>4. QED
          BY <1>5, <4>1, <4>2, <4>3
      <3>3. QED
        BY <3>1, <3>2
    <2>2. QED
      BY <2>1 DEF SynthsSince
  <1>8. \/ UNCHANGED inbox
        \/ \E n \in Nodes \ {"llm"} : \E q \in ServiceItems :
             inbox' = [inbox EXCEPT ![n] = Enqueue(@, q)] /\ Since(runs, q, turn[n])
    <2>1. CASE SynthPush(s) /\ ~UNCHANGED inbox
      <3>1. PICK p : p = Head(synths[s].todo)
        OBVIOUS
      <3>2. /\ synths[s].todo # <<>> /\ ~SynthIsOver(s) /\ p.op = "push"
            /\ inbox' = [inbox EXCEPT ![p.to] = Enqueue(@, p.q)]
        BY <2>1, <3>1 DEF SynthPush, SynthAt
      <3>3. p.to = "out" /\ p.q \in ServiceItems
        BY <3>1, <3>2, SynthNext DEF Typed, ServiceItems
      <3>4. "out" \in Nodes \ {"llm"} /\ "tts" \in Nodes \ {"out"} /\ Below["tts"] = "out"
        BY Chain
      <3>5. turn["out"] <= turn["tts"] /\ turn["out"] \in Nat /\ turn["tts"] \in Nat
        <4>1. turn["out"] + Passing("tts") <= turn["tts"]
          BY <3>4, TurnBelow DEF Turns
        <4>2. Passing("tts") \in {0, 1} /\ turn["out"] \in Nat /\ turn["tts"] \in Nat
          BY <3>4, LanesAre
        <4>3. QED
          BY <4>1, <4>2
      <3>6. turn["out"] <= synths[s].turn
        BY <1>3, <3>2, <3>5 DEF SynthIsOver
      <3>7. Since(runs, p.q, synths[s].turn)
        <4>1. 1 \in DOMAIN synths[s].todo /\ p = synths[s].todo[1]
          BY <1>3, <3>1, <3>2, EmptySeq, LenProperties
        <4>2. QED
          BY <4>1 DEF Turns, SynthsSince
      <3>8. p.q \in ItemSet
        BY <3>3 DEF ServiceItems
      <3>9. Since(runs, p.q, turn["out"])
        BY <1>3, <3>5, <3>6, <3>7, <3>8, SinceEarlier
      <3>10. QED
        BY <3>2, <3>3, <3>4, <3>9
    <2>2. QED
      BY <1>1, <2>1
  <1>9. TurnsFall' /\ LanesSince' /\ TodoSince'
    BY <1>1, <1>2, <1>8, ServiceTurns
  <1>10. QED
    BY <1>2, <1>7, <1>9 DEF Turns

LEMMA InitTurns == Init => Turns
  <1> SUFFICES ASSUME Init PROVE Turns
    OBVIOUS
  <1>1. Typed
    BY InitTyped
  <1>2. /\ \A n \in Nodes : turn[n] = 0 /\ inbox[n] = EmptyInbox /\ todo[n] = <<>>
        /\ \A r \in Runs : runs[r].turn = 0
        /\ synths = <<>>
    BY DEF Init, NoRun
  <1>3. EmptyInbox.sys = <<>> /\ EmptyInbox.down = <<>>
    BY DEF EmptyInbox
  <1>4. \A n \in Nodes : Waiting(n) = 0 /\ Passing(n) = 0
    <2>1. KindAt(<<>>, "Interruption") = {}
      BY DEF KindAt
    <2>2. Cardinality({}) = 0
      BY FS_EmptySet
    <2>3. \A n \in Nodes : inbox[n].sys = <<>>
      BY <1>2, <1>3
    <2>4. QED
      BY <1>2, <2>1, <2>2, <2>3 DEF Waiting, Passing
  <1>5. TurnsFall
    BY <1>2, <1>4, Chain DEF TurnsFall
  <1>6. RunsBegun
    BY <1>2, Chain DEF RunsBegun
  <1>7. LanesSince
    BY <1>2, <1>3 DEF LanesSince
  <1>8. TodoSince
    BY <1>2 DEF TodoSince, Nodes
  <1>9. SynthsSince
    BY <1>2 DEF SynthsSince
  <1>10. QED
    BY <1>5, <1>6, <1>7, <1>8, <1>9 DEF Turns

LEMMA NextTurns ==
  ASSUME Typed, Typed', OfOneRun(buffer), Turns, [Next]_vars
  PROVE  Turns'
  <1>1. CASE UNCHANGED vars
    BY <1>1 DEF vars, Turns, TurnsFall, RunsBegun, LanesSince, TodoSince, SynthsSince,
                Waiting, Passing
  <1>2. CASE Transcription \/ InterimTranscription \/ AppendUser
    BY <1>2, AggregatorTurns
  <1>3. CASE LLMStep
    BY <1>3, LLMTurns
  <1>4. CASE TTSStartsSynthesis
    BY <1>4, SpeakTurns
  <1>5. CASE \/ \E n \in Nodes : NodeRelays(n)
             \/ AssistantStep \/ TTSResets \/ TTSCollects \/ OutputSends
    BY <1>5, NodeTurns
  <1>6. CASE \E n \in Nodes \cup {"agg"} : NodePush(n)
    BY <1>6, PushedTurns
  <1>7. CASE \E r \in Runs : RunStep(r)
    BY <1>7, CompletionTurns
  <1>8. CASE \E s \in DOMAIN synths : SynthStep(s)
    BY <1>8, SynthTurns
  <1>9. QED
    BY <1>1, <1>2, <1>3, <1>4, <1>5, <1>6, <1>7, <1>8 DEF Next, Work, TTSStep

(* What a node below the LLM has yet to handle is of its turn or later.     *)
LEMMA TurnsSilence == Typed /\ Turns => OldTurnSilent
  <1> SUFFICES ASSUME Typed, Turns, NEW n \in Nodes \ {"llm"}, NEW q \in LaneItems(n),
                      q.run # 0
               PROVE  runs[q.run].turn >= turn[n]
    BY DEF OldTurnSilent
  <1>1. CASE \E i \in DOMAIN inbox[n].sys : q = inbox[n].sys[i]
    BY <1>1, LanesAre
  <1>2. CASE \E i \in DOMAIN inbox[n].down : q = inbox[n].down[i]
    BY <1>2 DEF Turns, LanesSince, Since
  <1>3. QED
    BY <1>1, <1>2 DEF LaneItems

-----------------------------------------------------------------------------
(* Syntheses.  One that has yet to ask, or to set the BotState, will reset  *)
(* it; and while the BotState is set some synthesis that has asked is still *)
(* to reset it.                                                             *)
SilencesAt(v) == {i \in DOMAIN v : v[i].op = "silent"}

Speech(v) ==
  /\ \A i \in DOMAIN v : v[i].op = "request" => i = 1
  /\ \A i \in DOMAIN v : v[i].op \in {"request", "speaking"} => \E j \in SilencesAt(v) : j > i
  /\ v # <<>> => v[Len(v)].op = "push"

StillSpeaks(v) == SilencesAt(v) # {} /\ v[1].op # "request"

Synthesizing ==
  /\ \A s \in DOMAIN synths : Speech(synths[s].todo)
  /\ speaking => \E s \in DOMAIN synths : StillSpeaks(synths[s].todo)

(* What is left when the first operation is done.                           *)
LEMMA SpeechShifted ==
  ASSUME NEW ops \in Seq(SynthOps), ops # <<>>, Speech(ops), NEW v \in Seq(SynthOps),
         Len(v) = Len(ops) - 1, \A i \in DOMAIN v : v[i].op = ops[i + 1].op
  PROVE  /\ Speech(v) /\ \A i \in DOMAIN v : v[i].op # "request"
         /\ (SilencesAt(ops) # {} /\ ops[1].op # "silent") => StillSpeaks(v)
  <1>1. /\ DOMAIN ops = 1..Len(ops) /\ Len(ops) \in Nat /\ Len(ops) >= 1
        /\ DOMAIN v = 1..Len(ops) - 1
    BY EmptySeq, LenProperties
  <1>2. \A j \in DOMAIN ops : j # 1 => j - 1 \in DOMAIN v /\ v[j - 1].op = ops[j].op
    <2>1. ASSUME NEW j \in DOMAIN ops, j # 1
          PROVE  j - 1 \in DOMAIN v /\ v[j - 1].op = ops[j].op
      <3>1. j - 1 \in DOMAIN v /\ (j - 1) + 1 = j
        BY <1>1, <2>1
      <3>2. QED
        BY <3>1
    <2>2. QED
      BY <2>1
  <1>3. \A i \in DOMAIN v : i + 1 \in DOMAIN ops /\ i + 1 # 1 /\ v[i].op = ops[i + 1].op
    BY <1>1
  <1>4. \A i \in DOMAIN v : v[i].op # "request"
    BY <1>3 DEF Speech
  <1>5. ASSUME NEW i \in DOMAIN v, v[i].op \in {"request", "speaking"}
        PROVE  \E j \in SilencesAt(v) : j > i
    <2>1. PICK j \in SilencesAt(ops) : j > i + 1
      BY <1>3, <1>5 DEF Speech
    <2>2. j \in DOMAIN ops /\ ops[j].op = "silent" /\ j # 1 /\ j - 1 > i
      BY <1>1, <2>1 DEF SilencesAt
    <2>3. j - 1 \in SilencesAt(v)
      BY <1>2, <2>2 DEF SilencesAt
    <2>4. QED
      BY <2>2, <2>3
  <1>6. ASSUME v # <<>>
        PROVE  v[Len(v)].op = "push"
    <2>1. Len(v) \in DOMAIN v /\ Len(v) + 1 = Len(ops)
      BY <1>1, <1>6, EmptySeq, LenProperties
    <2>2. ops[Len(ops)].op = "push"
      BY DEF Speech
    <2>3. QED
      BY <1>3, <2>1, <2>2
  <1>7. ASSUME SilencesAt(ops) # {}, ops[1].op # "silent"
        PROVE  StillSpeaks(v)
    <2>1. PICK j \in DOMAIN ops : ops[j].op = "silent" /\ j # 1
      BY <1>7 DEF SilencesAt
    <2>2. j - 1 \in SilencesAt(v) /\ 1 \in DOMAIN v
      BY <1>1, <1>2, <2>1 DEF SilencesAt
    <2>3. QED
      BY <1>4, <2>2 DEF StillSpeaks
  <1>8. QED
    BY <1>4, <1>5, <1>6, <1>7 DEF Speech

LEMMA SpeechLeft ==
  ASSUME NEW ops \in Seq(SynthOps), ops # <<>>, Speech(ops), NEW v \in Seq(SynthOps),
         LeftOf(v, ops)
  PROVE  Speech(v)
  <1>1. CASE /\ Len(v) = Len(ops) - 1
             /\ \A i \in DOMAIN v : v[i].op = ops[i + 1].op /\ v[i].q.run = ops[i + 1].q.run
    BY <1>1, SpeechShifted
  <1>2. CASE \A i \in DOMAIN v : (v[i].op = "push" /\ v[i].q.run = 0) \/ v[i] = ops[Len(ops)]
    <2>1. \A i \in DOMAIN v : v[i].op = "push"
      BY <1>2 DEF Speech
    <2>2. v # <<>> => Len(v) \in DOMAIN v
      BY EmptySeq, LenProperties
    <2>3. QED
      BY <2>1, <2>2 DEF Speech
  <1>3. QED
    BY <1>1, <1>2 DEF LeftOf

LEMMA SpeechBegins ==
  ASSUME NEW f \in ServiceItems, NEW text \in Texts, OfOneRun(text)
  PROVE  Speech(Synthesis(f, text)) /\ Speech(<<PushTo("out", f)>>)
  <1> DEFINE v == Synthesis(f, text)
             p == PushTo("out", f)
  <1>1. /\ v \in Seq(SynthOps) /\ Len(v) = 7
        /\ v[1].op = "request" /\ v[2].op = "speaking" /\ v[6].op = "silent"
        /\ \A i \in {3, 4, 5, 7} : v[i].op = "push"
    BY SynthesisIs
  <1>2. p.op = "push"
    BY DEF PushTo
  <1> HIDE DEF v, p
  <1>3. DOMAIN v = 1..7
    BY <1>1, LenProperties
  <1>4. 6 \in SilencesAt(v) /\ v # <<>>
    <2>1. v # <<>>
      <3>1. Len(v) # Len(<<>>)
        BY <1>1
      <3>2. QED
        BY <3>1, Zenon
    <2>2. QED
      BY <1>1, <1>3, <2>1 DEF SilencesAt
  <1>5. \A i \in DOMAIN v : i \notin {1, 2, 6} => v[i].op = "push"
    BY <1>1, <1>3
  <1>6. \A i \in DOMAIN v : /\ v[i].op = "request" => i = 1
                            /\ v[i].op = "speaking" => i = 2
    BY <1>1, <1>5
  <1>7. Speech(v)
    BY <1>1, <1>3, <1>4, <1>6 DEF Speech
  <1>8. Speech(<<p>>)
    BY <1>2 DEF Speech
  <1>9. QED
    BY <1>7, <1>8 DEF v, p

LEMMA NextSynthesizing ==
  ASSUME Typed, OfOneRun(buffer), Synthesizing, [Next]_vars
  PROVE  Synthesizing'
  <1>1. CASE UNCHANGED <<synths, speaking>>
    BY <1>1 DEF Synthesizing
  <1>2. CASE TTSStartsSynthesis
    <2> DEFINE f == Taken("tts")
               ops == IF canceling \/ buffer = <<>> THEN <<PushTo("out", f)>>
                      ELSE Synthesis(f, buffer)
               y == [turn |-> turn["tts"], todo |-> ops]
    <2>1. /\ Takes("tts", {"LLMFullResponseEnd"}) /\ TakeAndEmit("tts", <<>>) /\ "tts" \in Nodes
          /\ synths' = Append(synths, y) /\ speaking' = speaking
      BY <1>2, Chain DEF TTSStartsSynthesis
    <2>2. f \in ServiceItems /\ buffer \in Texts
      BY <2>1, TakeKeepsInboxes DEF ServiceItems, Typed, TalkTyped
    <2> HIDE DEF f
    <2>3. Speech(ops) /\ y.todo = ops
      BY <2>2, SpeechBegins
    <2> HIDE DEF ops, y
    <2> DEFINE R == [turn : Nat, todo : Seq(SynthOps)]
               S == {y} \cup R
    <2>4. synths \in Seq(R)
      BY DEF Typed, SynthsTyped
    <2> HIDE DEF R
    <2>5. synths \in Seq(S) /\ y \in S
      BY <2>4
    <2> HIDE DEF S
    <2>6. /\ \A s \in DOMAIN synths' :
               synths'[s] = y \/ \E t \in DOMAIN synths : synths'[s] = synths[t]
          /\ \A s \in DOMAIN synths : s \in DOMAIN synths' /\ synths'[s] = synths[s]
      <3>1. /\ DOMAIN synths = 1..Len(synths) /\ Len(synths) \in Nat
            /\ DOMAIN synths' = 1..Len(synths) + 1
        BY <2>1, <2>5, AppendOnly
      <3>2. DOMAIN synths \subseteq DOMAIN synths'
        BY <3>1
      <3>3. QED
        BY <2>1, <2>5, <3>2, AppendOnly
    <2>7. \A s \in DOMAIN synths' : Speech(synths'[s].todo)
      BY <2>3, <2>6 DEF Synthesizing
    <2>8. speaking' => \E s \in DOMAIN synths' : StillSpeaks(synths'[s].todo)
      BY <2>1, <2>6 DEF Synthesizing
    <2>9. QED
      BY <2>7, <2>8 DEF Synthesizing
  <1>3. CASE \E s \in DOMAIN synths : SynthStep(s)
    <2>1. PICK s \in DOMAIN synths : SynthStep(s)
      BY <1>3
    <2>2. PICK ops : ops = synths[s].todo
      OBVIOUS
    <2>3. ops \in Seq(SynthOps) /\ ops # <<>> /\ Speech(ops)
      <3>1. ops # <<>>
        BY <2>1, <2>2 DEF SynthStep, SynthRequest, SynthFlag, SynthPush, SynthAt
      <3>2. QED
        BY <2>2, <3>1, SynthItem DEF Typed, Synthesizing
    <2>4. Head(ops) = ops[1] /\ 1 \in DOMAIN ops
      BY <2>3, EmptySeq, LenProperties
    <2>5. ASSUME NEW v \in Seq(SynthOps), synths' = [synths EXCEPT ![s].todo = v], Speech(v),
                 speaking' => (speaking /\ (StillSpeaks(ops) => StillSpeaks(v))) \/ StillSpeaks(v)
          PROVE  Synthesizing'
      <3>1. /\ DOMAIN synths' = DOMAIN synths /\ synths'[s].todo = v
            /\ \A t \in DOMAIN synths \ {s} : synths'[t] = synths[t]
        BY <2>5, SynthKeeps DEF Typed
      <3>2. \A t \in DOMAIN synths' : Speech(synths'[t].todo)
        BY <2>5, <3>1 DEF Synthesizing
      <3>3. speaking' => \E t \in DOMAIN synths' : StillSpeaks(synths'[t].todo)
        <4>1. CASE StillSpeaks(v)
          BY <3>1, <4>1
        <4>2. CASE speaking' /\ speaking /\ (StillSpeaks(ops) => StillSpeaks(v))
          <5>1. PICK t \in DOMAIN synths : StillSpeaks(synths[t].todo)
            BY <4>2 DEF Synthesizing
          <5>2. CASE t = s
            BY <2>2, <3>1, <4>2, <5>1, <5>2
          <5>3. CASE t # s
            BY <3>1, <5>1, <5>3
          <5>4. QED
            BY <5>2, <5>3
        <4>3. QED
          BY <2>5, <4>1, <4>2
      <3>4. QED
        BY <3>2, <3>3 DEF Synthesizing
    <2>6. CASE SynthRequest(s)
      <3>1. PICK v \in Seq(SynthOps) : synths' = [synths EXCEPT ![s].todo = v] /\ LeftOf(v, ops)
        BY <2>2, <2>6, SynthIs DEF Typed
      <3>2. Speech(v)
        BY <2>3, <3>1, SpeechLeft
      <3>3. ops[1].op = "request" /\ speaking' = speaking
        BY <2>2, <2>4, <2>6 DEF SynthRequest, SynthAt
      <3>4. QED
        BY <2>5, <3>1, <3>2, <3>3 DEF StillSpeaks
    <2>7. CASE SynthFlag(s) \/ SynthPush(s)
      <3>1. PICK v : v = Tail(ops)
        OBVIOUS
      <3>2. /\ v \in Seq(SynthOps) /\ Len(v) = Len(ops) - 1
            /\ \A i \in DOMAIN v : v[i].op = ops[i + 1].op
        <4>1. /\ Tail(ops) \in Seq(SynthOps) /\ Len(Tail(ops)) = Len(ops) - 1
              /\ \A i \in 1..Len(ops) - 1 : Tail(ops)[i] = ops[i + 1]
          BY <2>3, HeadTailProperties
        <4>2. QED
          BY <3>1, <4>1, LenProperties
      <3>3. /\ Speech(v)
            /\ (SilencesAt(ops) # {} /\ ops[1].op # "silent") => StillSpeaks(v)
        BY <2>3, <3>2, SpeechShifted
      <3>4. synths' = [synths EXCEPT ![s].todo = v]
        BY <2>2, <2>7, <3>1 DEF SynthFlag, SynthPush, SynthGoesOn
      <3>5. CASE SynthPush(s)
        <4>1. ops[1].op = "push" /\ speaking' = speaking
          BY <2>2, <2>4, <3>5 DEF SynthPush, SynthAt
        <4>2. QED
          BY <2>5, <3>2, <3>3, <3>4, <4>1 DEF StillSpeaks
      <3>6. CASE SynthFlag(s) /\ ops[1].op = "speaking"
        <4>1. SilencesAt(ops) # {}
          BY <2>3, <2>4, <3>6 DEF Speech
        <4>2. QED
          BY <2>5, <3>2, <3>3, <3>4, <3>6, <4>1
      <3>7. CASE SynthFlag(s) /\ ops[1].op # "speaking"
        <4>1. ~speaking'
          BY <2>2, <2>4, <3>7 DEF SynthFlag, SynthAt
        <4>2. QED
          BY <2>5, <3>2, <3>3, <3>4, <4>1
      <3>8. QED
        BY <2>7, <3>5, <3>6, <3>7
    <2>8. QED
      BY <2>1, <2>6, <2>7 DEF SynthStep
  <1>4. QED
    <2>1. CASE UNCHANGED vars
      BY <1>1, <2>1 DEF vars
    <2>2. CASE Transcription \/ InterimTranscription \/ AppendUser
      BY <1>1, <2>2 DEF Transcription, InterimTranscription, AppendUser, ttsVars
    <2>3. CASE LLMStep \/ AssistantStep \/ OutputSends \/ TTSResets \/ TTSCollects
      BY <1>1, <2>3 DEF LLMStep, LLMInterrupted, LLMStartsRun, AssistantStep, AssistantResets,
                        AssistantCollects, AssistantCommits, OutputSends, TTSResets,
                        TTSCollects, ttsVars
    <2>4. CASE (\E n \in Nodes : NodeRelays(n)) \/ (\E n \in Nodes \cup {"agg"} : NodePush(n))
      BY <1>1, <2>4 DEF NodeRelays, NodePush, ttsVars
    <2>5. CASE \E r \in Runs : RunStep(r)
      BY <1>1, <2>5 DEF RunStep, RunBegin, RunSnapshot, RunRequest, RunPush, ttsVars
    <2>6. QED
      BY <1>2, <1>3, <2>1, <2>2, <2>3, <2>4, <2>5 DEF Next, Work, TTSStep

(* When nothing is being spoken, the BotState is not set. *)
LEMMA SynthesizingQuiet == Synthesizing => QuietWhenIdle
  <1> SUFFICES ASSUME Synthesizing, \A s \in DOMAIN synths : synths[s].todo = <<>>
               PROVE  ~speaking
    BY DEF QuietWhenIdle
  <1>1. \A s \in DOMAIN synths : SilencesAt(synths[s].todo) = {}
    BY DEF SilencesAt
  <1>2. QED
    BY <1>1 DEF Synthesizing, StillSpeaks

-----------------------------------------------------------------------------
(* Streams.  The frames that are on their way to a node, the next one first. *)
(* A node that collects text begins anew at a Start; so of a stream only    *)
(* this counts for what comes before and after it: what it says before its  *)
(* first Start, what it has said since its last one, whether it has a Start, *)
(* and whether it is in order itself.                                       *)
Less(x, y) == x[1] = y[1] /\ x[2] < y[2]

Before(X, Y) == \A x \in X, y \in Y : Less(x, y)

Starts(s) == \E k \in DOMAIN s : IsStart(s[k])

SaidFirst(s) ==
  {s[i].text[1] : i \in {j \in DOMAIN s : /\ IsText(s[j])
                                         /\ \A k \in 1..j - 1 : ~IsStart(s[k])}}

SaidLast(s) ==
  {s[i].text[1] : i \in {j \in DOMAIN s : /\ IsText(s[j])
                                         /\ \A k \in j + 1..Len(s) : ~IsStart(s[k])}}

Ordered(s) ==
  \A i, j \in DOMAIN s :
    (i < j /\ IsText(s[i]) /\ IsText(s[j])) =>
      (\E k \in i + 1..j - 1 : IsStart(s[k])) \/ Less(s[i].text[1], s[j].text[1])

SaidBy(t) == {t[i] : i \in DOMAIN t}

(* The stream s can be added to the text t.                                 *)
Orderly(t, s) == OfOneRun(t) /\ Before(SaidBy(t), SaidFirst(s)) /\ Ordered(s)

Streams == Seq(ItemSet)

(* One stream after another. *)
LEMMA Joined ==
  ASSUME NEW s \in Streams, NEW u \in Streams
  PROVE  /\ s \o u \in Streams
         /\ Starts(s \o u) <=> Starts(s) \/ Starts(u)
         /\ SaidFirst(s \o u) = SaidFirst(s) \cup (IF Starts(s) THEN {} ELSE SaidFirst(u))
         /\ SaidLast(s \o u) = SaidLast(u) \cup (IF Starts(u) THEN {} ELSE SaidLast(s))
         /\ Ordered(s \o u) <=> Ordered(s) /\ Ordered(u) /\ Before(SaidLast(s), SaidFirst(u))
  <1> DEFINE w == s \o u
             n == Len(s)
             m == Len(u)
  <1>1. /\ w \in Streams /\ DOMAIN w = 1..Len(w) /\ Len(w) = n + m
        /\ n \in Nat /\ m \in Nat /\ DOMAIN s = 1..n /\ DOMAIN u = 1..m
        /\ \A i \in 1..n + m : w[i] = IF i <= n THEN s[i] ELSE u[i - n]
    BY ConcatProperties, LenProperties DEF Streams
  <1> HIDE DEF w, n, m
  <1>2. /\ \A i \in 1..n : i \in 1..n + m /\ w[i] = s[i]
        /\ \A j \in 1..m : n + j \in 1..n + m /\ w[n + j] = u[j]
        /\ \A i \in 1..n + m : i \in 1..n \/ \E j \in 1..m : i = n + j
    <2>1. \A i \in 1..n : i \in 1..n + m /\ w[i] = s[i]
      BY <1>1
    <2>2. ASSUME NEW j \in 1..m
          PROVE  n + j \in 1..n + m /\ w[n + j] = u[j]
      <3>1. n + j \in 1..n + m /\ ~(n + j <= n) /\ (n + j) - n = j
        BY <1>1
      <3>2. QED
        BY <1>1, <3>1
    <2>3. ASSUME NEW i \in 1..n + m, i \notin 1..n
          PROVE  \E j \in 1..m : i = n + j
      <3>1. i - n \in 1..m /\ i = n + (i - n)
        BY <1>1, <2>3
      <3>2. QED
        BY <3>1
    <2>4. QED
      BY <2>1, <2>2, <2>3
  <1>3. Starts(w) <=> Starts(s) \/ Starts(u)
    <2>1. ASSUME NEW i \in 1..n + m, IsStart(w[i])
          PROVE  Starts(s) \/ Starts(u)
      <3>1. i \in 1..n \/ \E j \in 1..m : i = n + j
        BY <1>2
      <3>2. CASE i \in 1..n
        <4>1. i \in DOMAIN s /\ IsStart(s[i])
          BY <1>1, <1>2, <2>1, <3>2, Zenon
        <4>2. QED
          BY <4>1, Zenon DEF Starts
      <3>3. CASE \E j \in 1..m : i = n + j
        <4>1. PICK j \in 1..m : i = n + j
          BY <3>3
        <4>2. j \in DOMAIN u /\ IsStart(u[j])
          BY <1>1, <1>2, <2>1, <4>1, Zenon
        <4>3. QED
          BY <4>2, Zenon DEF Starts
      <3>4. QED
        BY <3>1, <3>2, <3>3
    <2>2. \A i \in 1..n : IsStart(s[i]) => Starts(w)
      BY <1>1, <1>2 DEF Starts
    <2>3. \A j \in 1..m : IsStart(u[j]) => Starts(w)
      BY <1>1, <1>2 DEF Starts
    <2>4. QED
      BY <1>1, <2>1, <2>2, <2>3 DEF Starts
  <1>4. SaidFirst(w) = SaidFirst(s) \cup (IF Starts(s) THEN {} ELSE SaidFirst(u))
    <2>1. ASSUME NEW i \in 1..n
          PROVE  (\A k \in 1..i - 1 : ~IsStart(w[k])) <=> (\A k \in 1..i - 1 : ~IsStart(s[k]))
      <3>1. \A k \in 1..i - 1 : k \in 1..n
        BY <1>1
      <3>2. QED
        BY <1>2, <3>1
    <2>2. ASSUME NEW j \in 1..m
          PROVE  (\A k \in 1..(n + j) - 1 : ~IsStart(w[k])) <=>
                   ~Starts(s) /\ \A k \in 1..j - 1 : ~IsStart(u[k])
      <3>1. ASSUME \A k \in 1..(n + j) - 1 : ~IsStart(w[k])
            PROVE  ~Starts(s) /\ \A k \in 1..j - 1 : ~IsStart(u[k])
        <4>1. \A k \in 1..n : k \in 1..(n + j) - 1
          BY <1>1
        <4>2. \A k \in 1..j - 1 : k \in 1..m /\ n + k \in 1..(n + j) - 1
          BY <1>1
        <4>3. QED
          BY <1>1, <1>2, <3>1, <4>1, <4>2 DEF Starts
      <3>2. ASSUME ~Starts(s), \A k \in 1..j - 1 : ~IsStart(u[k]), NEW k \in 1..(n + j) - 1
            PROVE  ~IsStart(w[k])
        <4>1. k \in 1..n \/ k - n \in 1..j - 1
          BY <1>1
        <4>2. CASE k \in 1..n
          BY <1>1, <1>2, <3>2, <4>2 DEF Starts
        <4>3. CASE k - n \in 1..j - 1
          <5>1. k - n \in 1..m /\ n + (k - n) = k
            BY <1>1, <4>3
          <5>2. QED
            BY <1>2, <3>2, <4>3, <5>1
        <4>4. QED
          BY <4>1, <4>2, <4>3
      <3>3. QED
        BY <3>1, <3>2
    <2>3. ASSUME NEW y \in SaidFirst(w)
          PROVE  y \in SaidFirst(s) \cup (IF Starts(s) THEN {} ELSE SaidFirst(u))
      <3>1. PICK i \in DOMAIN w : /\ y = w[i].text[1] /\ IsText(w[i])
                                  /\ \A k \in 1..i - 1 : ~IsStart(w[k])
        BY DEF SaidFirst
      <3>2. CASE i \in 1..n
        BY <1>1, <1>2, <2>1, <3>1, <3>2 DEF SaidFirst
      <3>3. CASE i \notin 1..n
        <4>1. PICK j \in 1..m : i = n + j
          BY <1>1, <1>2, <3>3
        <4>2. ~Starts(s) /\ \A k \in 1..j - 1 : ~IsStart(u[k])
          BY <2>2, <3>1, <4>1
        <4>3. y \in SaidFirst(u)
          BY <1>1, <1>2, <3>1, <4>1, <4>2 DEF SaidFirst
        <4>4. QED
          BY <4>2, <4>3
      <3>4. QED
        BY <3>2, <3>3
    <2>4. ASSUME NEW y \in SaidFirst(s)
          PROVE  y \in SaidFirst(w)
      <3>1. PICK i \in 1..n : /\ y = s[i].text[1] /\ IsText(s[i])
                              /\ \A k \in 1..i - 1 : ~IsStart(s[k])
        BY <1>1 DEF SaidFirst
      <3>2. i \in DOMAIN w /\ w[i] = s[i] /\ \A k \in 1..i - 1 : ~IsStart(w[k])
        BY <1>1, <1>2, <2>1, <3>1
      <3>3. QED
        BY <3>1, <3>2 DEF SaidFirst
    <2>5. ASSUME ~Starts(s), NEW y \in SaidFirst(u)
          PROVE  y \in SaidFirst(w)
      <3>1. PICK j \in 1..m : /\ y = u[j].text[1] /\ IsText(u[j])
                              /\ \A k \in 1..j - 1 : ~IsStart(u[k])
        BY <1>1 DEF SaidFirst
      <3>2. n + j \in DOMAIN w /\ w[n + j] = u[j] /\ \A k \in 1..(n + j) - 1 : ~IsStart(w[k])
        BY <1>1, <1>2, <2>2, <2>5, <3>1
      <3>3. QED
        BY <3>1, <3>2 DEF SaidFirst
    <2>6. QED
      BY <2>3, <2>4, <2>5
  <1>5. SaidLast(w) = SaidLast(u) \cup (IF Starts(u) THEN {} ELSE SaidLast(s))
    <2>1. ASSUME NEW j \in 1..m
          PROVE  (\A k \in (n + j) + 1..Len(w) : ~IsStart(w[k])) <=>
                   (\A k \in j + 1..Len(u) : ~IsStart(u[k]))
      <3>1. \A k \in j + 1..m : k \in 1..m /\ n + k \in (n + j) + 1..n + m
        BY <1>1
      <3>2. \A k \in (n + j) + 1..n + m : k - n \in j + 1..m /\ k - n \in 1..m /\ n + (k - n) = k
        BY <1>1
      <3>3. Len(u) = m
        BY DEF m
      <3>4. QED
        BY <1>1, <1>2, <3>1, <3>2, <3>3
    <2>2. ASSUME NEW i \in 1..n
          PROVE  (\A k \in i + 1..Len(w) : ~IsStart(w[k])) <=>
                   ~Starts(u) /\ \A k \in i + 1..Len(s) : ~IsStart(s[k])
      <3>1. Len(s) = n /\ Len(w) = n + m
        BY <1>1 DEF n
      <3>2. ASSUME \A k \in i + 1..n + m : ~IsStart(w[k])
            PROVE  ~Starts(u) /\ \A k \in i + 1..n : ~IsStart(s[k])
        <4>1. \A k \in i + 1..n : k \in i + 1..n + m /\ k \in 1..n
          BY <1>1
        <4>2. \A k \in 1..m : n + k \in i + 1..n + m
          BY <1>1
        <4>3. QED
          BY <1>1, <1>2, <3>2, <4>1, <4>2 DEF Starts
      <3>3. ASSUME ~Starts(u), \A k \in i + 1..n : ~IsStart(s[k]), NEW k \in i + 1..n + m
            PROVE  ~IsStart(w[k])
        <4>1. CASE k <= n
          <5>1. k \in i + 1..n /\ k \in 1..n
            BY <1>1, <4>1
          <5>2. QED
            BY <1>2, <3>3, <5>1
        <4>2. CASE ~(k <= n)
          <5>1. k - n \in 1..m /\ n + (k - n) = k
            BY <1>1, <4>2
          <5>2. QED
            BY <1>1, <1>2, <3>3, <5>1 DEF Starts
        <4>3. QED
          BY <4>1, <4>2
      <3>4. QED
        BY <3>1, <3>2, <3>3
    <2>3. ASSUME NEW y \in SaidLast(w)
          PROVE  y \in SaidLast(u) \cup (IF Starts(u) THEN {} ELSE SaidLast(s))
      <3>1. PICK i \in DOMAIN w : /\ y = w[i].text[1] /\ IsText(w[i])
                                  /\ \A k \in i + 1..Len(w) : ~IsStart(w[k])
        BY DEF SaidLast
      <3>2. CASE i \in 1..n
        <4>1. ~Starts(u) /\ \A k \in i + 1..Len(s) : ~IsStart(s[k])
          BY <2>2, <3>1, <3>2
        <4>2. y \in SaidLast(s)
          BY <1>1, <1>2, <3>1, <3>2, <4>1 DEF SaidLast
        <4>3. QED
          BY <4>1, <4>2
      <3>3. CASE i \notin 1..n
        <4>1. PICK j \in 1..m : i = n + j
          BY <1>1, <1>2, <3>3
        <4>2. y \in SaidLast(u)
          BY <1>1, <1>2, <2>1, <3>1, <4>1 DEF SaidLast
        <4>3. QED
          BY <4>2
      <3>4. QED
        BY <3>2, <3>3
    <2>4. ASSUME NEW y \in SaidLast(u)
          PROVE  y \in SaidLast(w)
      <3>1. PICK j \in 1..m : /\ y = u[j].text[1] /\ IsText(u[j])
                              /\ \A k \in j + 1..Len(u) : ~IsStart(u[k])
        BY <1>1 DEF SaidLast
      <3>2. n + j \in DOMAIN w /\ w[n + j] = u[j] /\ \A k \in (n + j) + 1..Len(w) : ~IsStart(w[k])
        BY <1>1, <1>2, <2>1, <3>1
      <3>3. QED
        BY <3>1, <3>2 DEF SaidLast
    <2>5. ASSUME ~Starts(u), NEW y \in SaidLast(s)
          PROVE  y \in SaidLast(w)
      <3>1. PICK i \in 1..n : /\ y = s[i].text[1] /\ IsText(s[i])
                              /\ \A k \in i + 1..Len(s) : ~IsStart(s[k])
        BY <1>1 DEF SaidLast
      <3>2. i \in DOMAIN w /\ w[i] = s[i] /\ \A k \in i + 1..Len(w) : ~IsStart(w[k])
        BY <1>1, <1>2, <2>2, <2>5, <3>1
      <3>3. QED
        BY <3>1, <3>2 DEF SaidLast
    <2>6. QED
      BY <2>3, <2>4, <2>5
  <1>6. ASSUME Ordered(w)
        PROVE  Ordered(s) /\ Ordered(u) /\ Before(SaidLast(s), SaidFirst(u))
    <2>1. ASSUME NEW i \in 1..n, NEW j \in 1..n, i < j, IsText(s[i]), IsText(s[j])
          PROVE  (\E k \in i + 1..j - 1 : IsStart(s[k])) \/ Less(s[i].text[1], s[j].text[1])
      <3>1. (\E k \in i + 1..j - 1 : IsStart(w[k])) \/ Less(w[i].text[1], w[j].text[1])
        BY <1>1, <1>2, <1>6, <2>1 DEF Ordered
      <3>2. \A k \in i + 1..j - 1 : k \in 1..n
        BY <1>1
      <3>3. QED
        BY <1>2, <3>1, <3>2
    <2>2. ASSUME NEW i \in 1..m, NEW j \in 1..m, i < j, IsText(u[i]), IsText(u[j])
          PROVE  (\E k \in i + 1..j - 1 : IsStart(u[k])) \/ Less(u[i].text[1], u[j].text[1])
      <3>1. n + i \in DOMAIN w /\ n + j \in DOMAIN w /\ n + i < n + j
        BY <1>1, <1>2, <2>2
      <3>2. \/ \E k \in (n + i) + 1..(n + j) - 1 : IsStart(w[k])
            \/ Less(w[n + i].text[1], w[n + j].text[1])
        BY <1>2, <1>6, <2>2, <3>1 DEF Ordered
      <3>3. \A k \in (n + i) + 1..(n + j) - 1 :
              k - n \in i + 1..j - 1 /\ k - n \in 1..m /\ n + (k - n) = k
        BY <1>1
      <3>4. QED
        BY <1>2, <3>2, <3>3
    <2>3. ASSUME NEW x \in SaidLast(s), NEW y \in SaidFirst(u)
          PROVE  Less(x, y)
      <3>1. PICK i \in 1..n : /\ x = s[i].text[1] /\ IsText(s[i])
                              /\ \A k \in i + 1..n : ~IsStart(s[k])
        BY <1>1 DEF SaidLast, n
      <3>2. PICK j \in 1..m : /\ y = u[j].text[1] /\ IsText(u[j])
                              /\ \A k \in 1..j - 1 : ~IsStart(u[k])
        BY <1>1 DEF SaidFirst
      <3>3. i \in DOMAIN w /\ n + j \in DOMAIN w /\ i < n + j
        BY <1>1
      <3>4. (\E k \in i + 1..(n + j) - 1 : IsStart(w[k])) \/ Less(x, y)
        BY <1>2, <1>6, <3>1, <3>2, <3>3 DEF Ordered
      <3>5. ASSUME NEW k \in i + 1..(n + j) - 1
            PROVE  ~IsStart(w[k])
        <4>1. CASE k <= n
          <5>1. k \in i + 1..n /\ k \in 1..n
            BY <1>1, <4>1
          <5>2. QED
            BY <1>2, <3>1, <5>1
        <4>2. CASE ~(k <= n)
          <5>1. k - n \in 1..j - 1 /\ k - n \in 1..m /\ n + (k - n) = k
            BY <1>1, <4>2
          <5>2. QED
            BY <1>2, <3>2, <5>1
        <4>3. QED
          BY <4>1, <4>2
      <3>6. QED
        BY <3>4, <3>5
    <2>4. QED
      BY <1>1, <2>1, <2>2, <2>3 DEF Ordered, Before
  <1>7. ASSUME Ordered(s), Ordered(u), Before(SaidLast(s), SaidFirst(u)),
               NEW i \in 1..n + m, NEW j \in 1..n + m, i < j, IsText(w[i]), IsText(w[j])
        PROVE  (\E k \in i + 1..j - 1 : IsStart(w[k])) \/ Less(w[i].text[1], w[j].text[1])
    <2>1. CASE j \in 1..n
      <3>1. i \in 1..n /\ \A k \in i + 1..j - 1 : k \in 1..n
        BY <1>1, <1>7, <2>1
      <3>2. (\E k \in i + 1..j - 1 : IsStart(s[k])) \/ Less(s[i].text[1], s[j].text[1])
        BY <1>1, <1>2, <1>7, <2>1, <3>1 DEF Ordered
      <3>3. QED
        BY <1>2, <2>1, <3>1, <3>2
    <2>2. CASE i \notin 1..n
      <3>1. /\ i - n \in 1..m /\ j - n \in 1..m /\ n + (i - n) = i /\ n + (j - n) = j
            /\ i - n < j - n
        BY <1>1, <1>7, <2>2
      <3>2. w[i] = u[i - n] /\ w[j] = u[j - n]
        BY <1>2, <3>1
      <3>3. \/ \E k \in (i - n) + 1..(j - n) - 1 : IsStart(u[k])
            \/ Less(u[i - n].text[1], u[j - n].text[1])
        BY <1>1, <1>7, <3>1, <3>2 DEF Ordered
      <3>4. \A k \in (i - n) + 1..(j - n) - 1 : k \in 1..m /\ n + k \in i + 1..j - 1
        BY <1>1, <3>1
      <3>5. QED
        BY <1>2, <3>2, <3>3, <3>4
    <2>3. CASE i \in 1..n /\ j \notin 1..n
      <3>1. j - n \in 1..m /\ n + (j - n) = j
        BY <1>1, <2>3
      <3>2. w[i] = s[i] /\ w[j] = u[j - n]
        BY <1>2, <2>3, <3>1
      <3>3. CASE /\ \A k \in i + 1..Len(s) : ~IsStart(s[k])
                 /\ \A k \in 1..(j - n) - 1 : ~IsStart(u[k])
        <4>1. s[i].text[1] \in SaidLast(s) /\ u[j - n].text[1] \in SaidFirst(u)
          BY <1>1, <1>7, <2>3, <3>1, <3>2, <3>3 DEF SaidLast, SaidFirst
        <4>2. QED
          BY <1>7, <3>2, <4>1 DEF Before
      <3>4. CASE \E k \in i + 1..Len(s) : IsStart(s[k])
        <4>1. PICK k \in i + 1..n : IsStart(s[k])
          BY <3>4 DEF n
        <4>2. k \in 1..n /\ k \in i + 1..j - 1
          BY <1>1, <3>1
        <4>3. QED
          BY <1>2, <4>1, <4>2
      <3>5. CASE \E k \in 1..(j - n) - 1 : IsStart(u[k])
        <4>1. PICK k \in 1..(j - n) - 1 : IsStart(u[k])
          BY <3>5
        <4>2. k \in 1..m /\ n + k \in i + 1..j - 1
          BY <1>1, <2>3, <3>1
        <4>3. QED
          BY <1>2, <4>1, <4>2
      <3>6. QED
        BY <3>3, <3>4, <3>5
    <2>4. QED
      BY <2>1, <2>2, <2>3
  <1>8. Ordered(w) <=> Ordered(s) /\ Ordered(u) /\ Before(SaidLast(s), SaidFirst(u))
    <2>1. ASSUME Ordered(s) /\ Ordered(u) /\ Before(SaidLast(s), SaidFirst(u))
          PROVE  Ordered(w)
      BY <1>1, <1>7, <2>1 DEF Ordered
    <2>2. QED
      BY <1>6, <2>1
  <1>9. QED
    BY <1>1, <1>3, <1>4, <1>5, <1>8 DEF w

LEMMA Alone ==
  /\ <<>> \in Streams /\ ~Starts(<<>>) /\ SaidFirst(<<>>) = {} /\ SaidLast(<<>>) = {}
  /\ Ordered(<<>>) /\ SaidBy(<<>>) = {}
  /\ \A x \in ItemSet :
       /\ <<x>> \in Streams /\ (Starts(<<x>>) <=> IsStart(x)) /\ ~(IsText(x) /\ IsStart(x))
       /\ SaidFirst(<<x>>) = (IF IsText(x) THEN {x.text[1]} ELSE {})
       /\ SaidLast(<<x>>) = (IF IsText(x) THEN {x.text[1]} ELSE {})
       /\ Ordered(<<x>>)
  <1>1. /\ <<>> \in Streams /\ ~Starts(<<>>) /\ SaidFirst(<<>>) = {} /\ SaidLast(<<>>) = {}
        /\ Ordered(<<>>) /\ SaidBy(<<>>) = {}
    BY DEF Streams, Starts, SaidFirst, SaidLast, Ordered, SaidBy
  <1>2. ASSUME NEW x \in ItemSet
        PROVE  /\ <<x>> \in Streams /\ (Starts(<<x>>) <=> IsStart(x)) /\ ~(IsText(x) /\ IsStart(x))
               /\ SaidFirst(<<x>>) = (IF IsText(x) THEN {x.text[1]} ELSE {})
               /\ SaidLast(<<x>>) = (IF IsText(x) THEN {x.text[1]} ELSE {})
               /\ Ordered(<<x>>)
    <2>1. PICK s : s = <<x>>
      OBVIOUS
    <2>2. s \in Streams /\ DOMAIN s = {1} /\ Len(s) = 1 /\ s[1] = x
      BY <2>1 DEF Streams
    <2>3. ~(IsText(x) /\ IsStart(x))
      BY DEF IsText, IsStart
    <2>4. Starts(s) <=> IsStart(x)
      BY <2>2 DEF Starts
    <2>5. SaidFirst(s) = IF IsText(x) THEN {x.text[1]} ELSE {}
      <3>1. \A j \in DOMAIN s : j = 1 /\ 1..j - 1 = {}
        BY <2>2
      <3>2. QED
        BY <2>2, <3>1 DEF SaidFirst
    <2>6. SaidLast(s) = IF IsText(x) THEN {x.text[1]} ELSE {}
      <3>1. \A j \in DOMAIN s : j = 1 /\ j + 1..Len(s) = {}
        BY <2>2
      <3>2. QED
        BY <2>2, <3>1 DEF SaidLast
    <2>7. Ordered(s)
      BY <2>2 DEF Ordered
    <2>8. QED
      BY <2>1, <2>2, <2>3, <2>4, <2>5, <2>6, <2>7
  <1>3. QED
    BY <1>1, <1>2

(* Two streams that do the same to what comes before and after them.        *)
Alike(s, u) ==
  /\ Starts(s) <=> Starts(u)
  /\ SaidFirst(s) = SaidFirst(u) /\ SaidLast(s) = SaidLast(u)
  /\ Ordered(s) <=> Ordered(u)

LEMMA AlikeJoined ==
  ASSUME NEW s \in Streams, NEW u \in Streams, NEW v \in Streams, NEW w \in Streams,
         Alike(s, v), Alike(u, w)
  PROVE  Alike(s \o u, v \o w)
  <1>1. PICK a, b : a = s \o u /\ b = v \o w
    OBVIOUS
  <1>2. /\ Starts(s) <=> Starts(v)
        /\ Starts(u) <=> Starts(w)
        /\ SaidFirst(s) = SaidFirst(v) /\ SaidFirst(u) = SaidFirst(w)
        /\ SaidLast(s) = SaidLast(v) /\ SaidLast(u) = SaidLast(w)
        /\ Ordered(s) <=> Ordered(v)
        /\ Ordered(u) <=> Ordered(w)
    BY DEF Alike
  <1>3. /\ Starts(a) <=> Starts(s) \/ Starts(u)
        /\ SaidFirst(a) = SaidFirst(s) \cup (IF Starts(s) THEN {} ELSE SaidFirst(u))
        /\ SaidLast(a) = SaidLast(u) \cup (IF Starts(u) THEN {} ELSE SaidLast(s))
        /\ Ordered(a) <=> Ordered(s) /\ Ordered(u) /\ Before(SaidLast(s), SaidFirst(u))
    BY <1>1, Joined, Zenon
  <1>4. /\ Starts(b) <=> Starts(v) \/ Starts(w)
        /\ SaidFirst(b) = SaidFirst(v) \cup (IF Starts(v) THEN {} ELSE SaidFirst(w))
        /\ SaidLast(b) = SaidLast(w) \cup (IF Starts(w) THEN {} ELSE SaidLast(v))
        /\ Ordered(b) <=> Ordered(v) /\ Ordered(w) /\ Before(SaidLast(v), SaidFirst(w))
    BY <1>1, Joined, Zenon
  <1>5. Starts(a) <=> Starts(b)
    BY <1>2, <1>3, <1>4
  <1>6. SaidFirst(a) = SaidFirst(b)
    BY <1>2, <1>3, <1>4
  <1>7. SaidLast(a) = SaidLast(b)
    BY <1>2, <1>3, <1>4
  <1>8. Ordered(a) <=> Ordered(b)
    BY <1>2, <1>3, <1>4
  <1>9. Alike(a, b)
    BY <1>5, <1>6, <1>7, <1>8 DEF Alike
  <1>10. QED
    BY <1>1, <1>9

LEMMA IdleBetween ==
  ASSUME NEW s \in Streams, NEW u \in Streams, NEW x \in ItemSet, ~IsText(x), ~IsStart(x)
  PROVE  Alike(s \o (<<x>> \o u), s \o u) /\ Alike(<<x>> \o u, u)
  <1>1. /\ <<x>> \in Streams /\ ~Starts(<<x>>) /\ Ordered(<<x>>)
        /\ SaidFirst(<<x>>) = {} /\ SaidLast(<<x>>) = {}
    BY Alone
  <1>2. PICK z \in Streams : z = <<x>>
    BY <1>1
  <1>3. z \o u \in Streams /\ Alike(z \o u, u)
    <2>1. PICK a : a = z \o u
      OBVIOUS
    <2>2. /\ a \in Streams
          /\ Starts(a) <=> Starts(z) \/ Starts(u)
          /\ SaidFirst(a) = SaidFirst(z) \cup (IF Starts(z) THEN {} ELSE SaidFirst(u))
          /\ SaidLast(a) = SaidLast(u) \cup (IF Starts(u) THEN {} ELSE SaidLast(z))
          /\ Ordered(a) <=> Ordered(z) /\ Ordered(u) /\ Before(SaidLast(z), SaidFirst(u))
      BY <2>1, Joined, Zenon
    <2>3. ~Starts(z) /\ Ordered(z) /\ SaidFirst(z) = {} /\ SaidLast(z) = {}
      BY <1>1, <1>2
    <2>4. Before(SaidLast(z), SaidFirst(u))
      BY <2>3 DEF Before
    <2>5. /\ Starts(a) <=> Starts(u)
          /\ Ordered(a) <=> Ordered(u)
      BY <2>2, <2>3, <2>4
    <2>6. SaidFirst(a) = SaidFirst(u) /\ SaidLast(a) = SaidLast(u)
      BY <2>2, <2>3
    <2>7. Alike(a, u)
      BY <2>5, <2>6 DEF Alike
    <2>8. QED
      BY <2>1, <2>2, <2>7
  <1>4. Alike(s, s)
    BY DEF Alike
  <1>5. Alike(s \o (z \o u), s \o u)
    BY <1>3, <1>4, AlikeJoined
  <1>6. QED
    BY <1>2, <1>3, <1>5

LEMMA SameSaid ==
  ASSUME NEW x \in ItemSet, NEW y \in ItemSet, IsText(x) <=> IsText(y),
         IsStart(x) <=> IsStart(y), x.text = y.text
  PROVE  Alike(<<x>>, <<y>>)
  BY Alone DEF Alike

LEMMA HeadAndTail ==
  ASSUME NEW S, NEW s \in Seq(S), s # <<>>
  PROVE  /\ Head(s) \in S /\ <<Head(s)>> \in Seq(S) /\ Tail(s) \in Seq(S)
         /\ s = <<Head(s)>> \o Tail(s)
  <1>1. /\ Head(s) \in S /\ Tail(s) \in Seq(S) /\ Len(Tail(s)) = Len(s) - 1
        /\ \A i \in 1..Len(Tail(s)) : Tail(s)[i] = s[i + 1]
    BY HeadTailProperties
  <1>2. Len(s) \in Nat /\ Len(s) >= 1 /\ Head(s) = s[1]
    BY EmptySeq, LenProperties
  <1>3. PICK h, v : h = <<Head(s)>> /\ v = Tail(s)
    OBVIOUS
  <1>4. h \in Seq(S) /\ Len(h) = 1 /\ h[1] = s[1]
    BY <1>1, <1>2, <1>3
  <1>5. /\ v \in Seq(S) /\ Len(v) = Len(s) - 1
        /\ \A i \in 1..Len(s) - 1 : v[i] = s[i + 1]
    BY <1>1, <1>3
  <1>6. /\ h \o v \in Seq(S) /\ Len(h \o v) = 1 + (Len(s) - 1)
        /\ \A i \in 1..1 + (Len(s) - 1) : (h \o v)[i] = IF i <= 1 THEN h[i] ELSE v[i - 1]
    <2>1. h \in Seq(S) /\ v \in Seq(S)
      BY <1>4, <1>5
    <2>2. /\ h \o v \in Seq(S) /\ Len(h \o v) = Len(h) + Len(v)
          /\ \A i \in 1..Len(h) + Len(v) :
               (h \o v)[i] = IF i <= Len(h) THEN h[i] ELSE v[i - Len(h)]
      BY <2>1, ConcatProperties
    <2>3. Len(h) = 1 /\ Len(v) = Len(s) - 1
      BY <1>4, <1>5
    <2>4. QED
      BY <2>2, <2>3
  <1>7. PICK w : w = h \o v
    OBVIOUS
  <1>8. w \in Seq(S) /\ Len(w) = Len(s) /\ \A i \in 1..Len(s) : w[i] = s[i]
    <2>1. w \in Seq(S) /\ Len(w) = Len(s)
      BY <1>2, <1>6, <1>7
    <2>2. ASSUME NEW i \in 1..Len(s)
          PROVE  w[i] = s[i]
      <3>1. CASE i = 1
        BY <1>2, <1>4, <1>6, <1>7, <3>1
      <3>2. CASE i # 1
        <4>1. i \in 1..1 + (Len(s) - 1) /\ ~(i <= 1) /\ i - 1 \in 1..Len(s) - 1 /\ (i - 1) + 1 = i
          BY <1>2, <3>2
        <4>2. QED
          BY <1>5, <1>6, <1>7, <4>1
      <3>3. QED
        BY <3>1, <3>2
    <2>3. QED
      BY <2>1, <2>2
  <1>9. w = s
    BY <1>8, SeqEqual
  <1>10. QED
    BY <1>1, <1>3, <1>4, <1>7, <1>9

LEMMA OrderlyParts ==
  ASSUME NEW t, NEW s \in Streams, NEW u \in Streams, Orderly(t, s \o u)
  PROVE  Orderly(t, s) /\ Orderly(<<>>, u)
  <1>1. Ordered(s) /\ Ordered(u) /\ SaidFirst(s) \subseteq SaidFirst(s \o u)
    BY Joined DEF Orderly
  <1>2. Before(SaidBy(t), SaidFirst(s)) /\ Before(SaidBy(<<>>), SaidFirst(u))
    BY <1>1, Alone DEF Orderly, Before
  <1>3. QED
    BY <1>1, <1>2, ItemsMade DEF Orderly

(* The next frame of a stream is handled.                                   *)
LEMMA OrderlyNext ==
  ASSUME NEW t \in Texts, NEW x \in ItemSet, NEW s \in Streams, Orderly(t, <<x>> \o s)
  PROVE  /\ Orderly(<<>>, s)
         /\ ~IsStart(x) => Orderly(t, s)
         /\ IsText(x) => Orderly(t \o x.text, s)
  <1>1. PICK z \in Streams : z = <<x>>
    BY Alone
  <1>2. /\ Starts(z) <=> IsStart(x)
        /\ IsText(x) => ~IsStart(x) /\ SaidFirst(z) = {x.text[1]} /\ SaidLast(z) = {x.text[1]}
    BY <1>1, Alone
  <1>3. /\ OfOneRun(t) /\ Before(SaidBy(t), SaidFirst(z \o s)) /\ Ordered(s)
        /\ Before(SaidLast(z), SaidFirst(s))
        /\ SaidFirst(z \o s) = SaidFirst(z) \cup (IF Starts(z) THEN {} ELSE SaidFirst(s))
    BY <1>1, Joined DEF Orderly
  <1>4. Orderly(<<>>, s)
    BY <1>3, Alone, ItemsMade DEF Orderly, Before
  <1>5. ~IsStart(x) => Orderly(t, s)
    BY <1>2, <1>3 DEF Orderly, Before
  <1>6. ASSUME IsText(x)
        PROVE  Orderly(t \o x.text, s)
    <2>1. x.text \in Texts /\ Len(x.text) = 1 /\ DOMAIN x.text = {1}
      BY <1>6 DEF ItemSet, Texts
    <2>2. \A i \in DOMAIN t : Less(t[i], x.text[1])
      BY <1>2, <1>3, <1>6 DEF Before, SaidBy
    <2>3. PICK v \in Texts : v = x.text
      BY <2>1
    <2>4. PICK w : w = t \o v
      OBVIOUS
    <2>5. /\ w \in Texts /\ Len(w) = Len(t) + 1 /\ Len(t) \in Nat
          /\ DOMAIN t = 1..Len(t) /\ DOMAIN w = 1..Len(t) + 1
          /\ \A i \in 1..Len(t) + 1 : w[i] = IF i <= Len(t) THEN t[i] ELSE v[i - Len(t)]
      <3>1. t \in Seq(Runs \X (1..Pieces)) /\ v \in Seq(Runs \X (1..Pieces))
        BY <2>3 DEF Texts
      <3>2. /\ w \in Seq(Runs \X (1..Pieces)) /\ Len(w) = Len(t) + Len(v)
            /\ \A i \in 1..Len(t) + Len(v) : w[i] = IF i <= Len(t) THEN t[i] ELSE v[i - Len(t)]
        BY <2>4, <3>1, ConcatProperties
      <3>3. Len(v) = 1
        BY <2>1, <2>3
      <3>4. /\ Len(w) = Len(t) + 1
            /\ \A i \in 1..Len(t) + 1 : w[i] = IF i <= Len(t) THEN t[i] ELSE v[i - Len(t)]
        BY <3>2, <3>3
      <3>5. w \in Texts
        BY <3>2 DEF Texts
      <3>6. /\ Len(t) \in Nat /\ DOMAIN t = 1..Len(t) /\ DOMAIN w = 1..Len(w)
        BY <3>1, <3>2, LenProperties
      <3>7. DOMAIN w = 1..Len(t) + 1
        BY <3>4, <3>6
      <3>8. QED
        BY <3>4, <3>5, <3>6, <3>7
    <2>6. \A i \in DOMAIN w : \/ i \in DOMAIN t /\ w[i] = t[i]
                              \/ i = Len(t) + 1 /\ w[i] = v[1]
      BY <2>5
    <2>7. OfOneRun(w)
      <3>1. ASSUME NEW i \in DOMAIN w, NEW j \in DOMAIN w, i < j
            PROVE  Less(w[i], w[j])
        <4>1. i \in DOMAIN t /\ w[i] = t[i]
          BY <2>5, <2>6, <3>1
        <4>2. CASE j \in DOMAIN t /\ w[j] = t[j]
          BY <1>3, <3>1, <4>1, <4>2 DEF OfOneRun, Less
        <4>3. CASE w[j] = v[1]
          BY <2>2, <2>3, <4>1, <4>3
        <4>4. QED
          BY <2>6, <4>2, <4>3
      <3>2. QED
        BY <3>1 DEF OfOneRun, Less
    <2>8. Before(SaidBy(w), SaidFirst(s))
      <3>1. SaidBy(w) \subseteq SaidBy(t) \cup {x.text[1]}
        BY <2>3, <2>6 DEF SaidBy
      <3>2. Before(SaidBy(t), SaidFirst(s)) /\ Before({x.text[1]}, SaidFirst(s))
        BY <1>2, <1>3, <1>6 DEF Before
      <3>3. QED
        BY <3>1, <3>2 DEF Before
    <2>9. QED
      BY <1>3, <2>3, <2>4, <2>7, <2>8 DEF Orderly
  <1>7. QED
    BY <1>4, <1>5, <1>6

(* Another answer, or the report of a failure, follows what is on its way.  *)
LEMMA OrderlyMore ==
  ASSUME NEW t, NEW s \in Streams, NEW v \in Streams, Orderly(t, s),
         SaidFirst(v) = {}, Ordered(v)
  PROVE  Orderly(t, s \o v)
  BY Joined DEF Orderly, Before

LEMMA Grouped ==
  /\ \A s \in Streams : <<>> \o s = s /\ s \o <<>> = s
  /\ \A s, u, v \in Streams : (s \o u) \o v = s \o (u \o v)
  /\ \A s, u \in Streams : s \o u \in Streams
  BY ConcatEmptySeq, ConcatAssociative, ConcatProperties DEF Streams

LEMMA OrderlyAlike ==
  ASSUME NEW t, NEW s, NEW u, Alike(s, u)
  PROVE  Orderly(t, s) <=> Orderly(t, u)
  BY DEF Orderly, Alike

(* What a node that has collected t holds when it has handled x.            *)
Collected(t, x, u) ==
  \/ u = <<>>
  \/ ~IsStart(x) /\ u = t
  \/ IsText(x) /\ u = t \o x.text

LEMMA OrderlyTaken ==
  ASSUME NEW t \in Texts, NEW x \in ItemSet, NEW s \in Streams, Orderly(t, <<x>> \o s),
         NEW u, Collected(t, x, u)
  PROVE  Orderly(u, s)
  <1>1. /\ Orderly(<<>>, s)
        /\ ~IsStart(x) => Orderly(t, s)
        /\ IsText(x) => Orderly(t \o x.text, s)
    BY OrderlyNext
  <1>2. QED
    BY <1>1, Zenon DEF Collected

-----------------------------------------------------------------------------
(* What is said flows from the live completion (its frames L) through the   *)
(* assistant aggregator (its data lane A, the text p that it collects, its  *)
(* push F) to the TTS service (its data lane T, the text b that it collects, *)
(* its priority lane S).                                                    *)
Cut(s) == KindAt(s, "Interruption") # {}

Flows(p, b, F, A, L, T, S) ==
  /\ Orderly(p, A \o L)
  /\ Orderly(<<>>, F \o (A \o L))
  /\ OfOneRun(b)
  /\ ~Cut(S) => Orderly(b, T)
  /\ ~Cut(S) /\ ~Cut(F) => Orderly(b, T \o (F \o (A \o L)))

LEMMA CutsAre ==
  /\ ~Cut(<<>>)
  /\ \A x : Cut(<<x>>) <=> x.kind = "Interruption"
  /\ \A S : \A s \in Seq(S), x \in S : Cut(Append(s, x)) <=> Cut(s) \/ x.kind = "Interruption"
  /\ \A S : \A s \in Seq(S) : s # <<>> =>
       (Cut(s) <=> Cut(Tail(s)) \/ Head(s).kind = "Interruption")
  <1>1. ~Cut(<<>>)
    BY DEF Cut, KindAt
  <1>2. ASSUME NEW x
        PROVE  Cut(<<x>>) <=> x.kind = "Interruption"
    <2>1. DOMAIN <<x>> = {1} /\ <<x>>[1] = x
      OBVIOUS
    <2>2. QED
      BY <2>1 DEF Cut, KindAt
  <1>3. ASSUME NEW S, NEW s \in Seq(S), NEW x \in S
        PROVE  Cut(Append(s, x)) <=> Cut(s) \/ x.kind = "Interruption"
    <2> DEFINE u == Append(s, x)
    <2>1. /\ DOMAIN u = 1..Len(s) + 1 /\ u[Len(s) + 1] = x /\ \A i \in 1..Len(s) : u[i] = s[i]
          /\ DOMAIN s = 1..Len(s) /\ Len(s) \in Nat
      BY AppendProperties, LenProperties
    <2> HIDE DEF u
    <2>2. \A i \in DOMAIN u : i = Len(s) + 1 \/ i \in DOMAIN s
      BY <2>1
    <2>3. DOMAIN s \subseteq DOMAIN u /\ Len(s) + 1 \in DOMAIN u
      BY <2>1
    <2>4. Cut(u) <=> Cut(s) \/ x.kind = "Interruption"
      BY <2>1, <2>2, <2>3 DEF Cut, KindAt
    <2>5. QED
      BY <2>4 DEF u
  <1>4. ASSUME NEW S, NEW s \in Seq(S), s # <<>>
        PROVE  Cut(s) <=> Cut(Tail(s)) \/ Head(s).kind = "Interruption"
    <2> DEFINE u == Tail(s)
    <2>1. /\ Len(s) \in Nat /\ Len(s) >= 1 /\ DOMAIN s = 1..Len(s) /\ Head(s) = s[1]
          /\ u \in Seq(S) /\ Len(u) = Len(s) - 1 /\ \A i \in 1..Len(s) - 1 : u[i] = s[i + 1]
      <3>1. /\ u \in Seq(S) /\ Len(u) = Len(s) - 1 /\ \A i \in 1..Len(u) : u[i] = s[i + 1]
        BY <1>4, HeadTailProperties
      <3>2. Len(s) \in Nat /\ Len(s) >= 1 /\ DOMAIN s = 1..Len(s) /\ Head(s) = s[1]
        BY <1>4, EmptySeq, LenProperties
      <3> HIDE DEF u
      <3>3. QED
        BY <3>1, <3>2
    <2> HIDE DEF u
    <2>2. DOMAIN u = 1..Len(s) - 1
      BY <2>1, LenProperties
    <2>3. \A i \in DOMAIN s : i = 1 \/ (i - 1 \in DOMAIN u /\ u[i - 1] = s[i])
      BY <2>1, <2>2
    <2>4. 1 \in DOMAIN s /\ \A i \in DOMAIN u : i + 1 \in DOMAIN s /\ u[i] = s[i + 1]
      BY <2>1, <2>2
    <2>5. ASSUME NEW i \in DOMAIN s, s[i].kind = "Interruption"
          PROVE  Cut(u) \/ Head(s).kind = "Interruption"
      BY <2>1, <2>3, <2>5 DEF Cut, KindAt
    <2>6. \A i \in DOMAIN u : u[i].kind = "Interruption" => Cut(s)
      BY <2>4 DEF Cut, KindAt
    <2>7. Head(s).kind = "Interruption" => Cut(s)
      BY <2>1, <2>4 DEF Cut, KindAt
    <2>8. Cut(s) <=> Cut(u) \/ Head(s).kind = "Interruption"
      BY <2>5, <2>6, <2>7 DEF Cut, KindAt
    <2>9. QED
      BY <2>8 DEF u
  <1>5. QED
    BY <1>1, <1>2, <1>3, <1>4, Zenon

(* Streams can be grouped in either way.  The equation has a name of its own *)
(* so that an instance of it can be cited without being expanded.           *)
Regroups(s, u, v) == (s \o u) \o v = s \o (u \o v)

LEMMA Regrouped == \A s, u, v \in Streams : Regroups(s, u, v)
  BY ConcatAssociative DEF Streams, Regroups

(* The assistant aggregator takes a data frame x and emits y.               *)
LEMMA FlowsTaken ==
  ASSUME NEW p \in Texts, NEW b, NEW A, NEW B \in Streams, NEW L \in Streams,
         NEW T \in Streams, NEW S, NEW x \in ItemSet, NEW y \in ItemSet, A = <<x>> \o B,
         Flows(p, b, <<>>, A, L, T, S), Alike(<<x>>, <<y>>), NEW u, Collected(p, x, u)
  PROVE  Flows(u, b, <<y>>, B, L, T, S)
  <1>1. PICK X, Y, Z : X = <<x>> /\ Y = <<y>> /\ Z = B \o L
    OBVIOUS
  <1>2. X \in Streams /\ Y \in Streams /\ Z \in Streams /\ Alike(X, Y)
    BY <1>1, Alone, Grouped, Zenon
  <1>3. X \o Z \in Streams /\ Y \o Z \in Streams /\ X \o Z = A \o L
    <2>1. X \o Z \in Streams /\ Y \o Z \in Streams
      BY <1>2, Grouped, Zenon
    <2>2. (X \o B) \o L = X \o (B \o L)
      <3>1. Regroups(X, B, L)
        BY <1>2, Regrouped
      <3>2. QED
        BY <3>1 DEF Regroups
    <2>3. A = X \o B
      BY <1>1, Zenon
    <2>4. QED
      BY <1>1, <2>1, <2>2, <2>3, Zenon
  <1>4. <<>> \o (A \o L) = X \o Z
    BY <1>3, Grouped, Zenon
  <1>5. /\ Orderly(p, X \o Z) /\ Orderly(<<>>, X \o Z) /\ OfOneRun(b)
        /\ ~Cut(S) => Orderly(b, T) /\ Orderly(b, T \o (X \o Z))
    BY <1>3, <1>4, CutsAre, Zenon DEF Flows
  <1>6. Orderly(u, Z)
    BY <1>1, <1>2, <1>5, OrderlyTaken, Zenon
  <1>7. Alike(X \o Z, Y \o Z)
    <2>1. Alike(Z, Z)
      BY DEF Alike
    <2>2. QED
      BY <1>2, <2>1, AlikeJoined, Zenon
  <1>8. Alike(T \o (X \o Z), T \o (Y \o Z))
    <2>1. Alike(T, T)
      BY DEF Alike
    <2>2. QED
      BY <1>3, <1>7, <2>1, AlikeJoined, Zenon
  <1>9. /\ Orderly(<<>>, Y \o Z)
        /\ ~Cut(S) => Orderly(b, T \o (Y \o Z))
    BY <1>5, <1>7, <1>8, OrderlyAlike, Zenon
  <1>10. QED
    BY <1>1, <1>5, <1>6, <1>9, Zenon DEF Flows

(* It takes a system frame and emits it.                                    *)
LEMMA FlowsReported ==
  ASSUME NEW p, NEW b, NEW A \in Streams, NEW L \in Streams, NEW T \in Streams, NEW S,
         NEW y \in ItemSet, ~IsText(y), ~IsStart(y), Flows(p, b, <<>>, A, L, T, S)
  PROVE  Flows(p, b, <<y>>, A, L, T, S)
  <1>1. PICK Y, Z : Y = <<y>> /\ Z = A \o L
    OBVIOUS
  <1>2. Z \in Streams /\ <<>> \o Z = Z
    BY <1>1, Grouped, Zenon
  <1>3. /\ Orderly(p, Z) /\ Orderly(<<>>, Z) /\ OfOneRun(b)
        /\ ~Cut(S) => Orderly(b, T) /\ Orderly(b, T \o Z)
    BY <1>1, <1>2, CutsAre, Zenon DEF Flows
  <1>4. Alike(T \o (Y \o Z), T \o Z) /\ Alike(Y \o Z, Z)
    BY <1>1, <1>2, IdleBetween, Zenon
  <1>5. /\ Orderly(<<>>, Y \o Z)
        /\ ~Cut(S) => Orderly(b, T \o (Y \o Z))
    BY <1>3, <1>4, OrderlyAlike, Zenon
  <1>6. QED
    BY <1>1, <1>3, <1>5, Zenon DEF Flows

(* With an Interruption it loses what waits and forgets what it collected.  *)
LEMMA FlowsCut ==
  ASSUME NEW p, NEW b, NEW A \in Streams, NEW L \in Streams, NEW T \in Streams, NEW S,
         NEW y \in ItemSet, y.kind = "Interruption", Flows(p, b, <<y>>, A, L, T, S)
  PROVE  Flows(<<>>, b, <<y>>, <<>>, L, T, S)
  <1>1. PICK Y : Y = <<y>>
    OBVIOUS
  <1>2. Cut(Y) /\ <<>> \o L = L /\ ~IsText(y) /\ ~IsStart(y)
    BY <1>1, CutsAre, Grouped DEF IsText, IsStart
  <1>3. Orderly(p, A \o L) /\ OfOneRun(b) /\ ~Cut(S) => Orderly(b, T)
    BY Zenon DEF Flows
  <1>4. OfOneRun(b) /\ Orderly(<<>>, L)
    <2>1. Orderly(p, A \o L) /\ OfOneRun(b)
      BY Zenon DEF Flows
    <2>2. QED
      BY <2>1, OrderlyParts, Zenon
  <1>5. Alike(Y \o L, L)
    BY <1>1, <1>2, IdleBetween, Alone, Zenon
  <1>6. Orderly(<<>>, Y \o L)
    BY <1>4, <1>5, OrderlyAlike, Zenon
  <1>7. ~Cut(S) => Orderly(b, T)
    BY Zenon DEF Flows
  <1>8. QED
    BY <1>1, <1>2, <1>4, <1>6, <1>7, Zenon DEF Flows

(* It pushes a data frame to the TTS service, or a system frame.            *)
LEMMA FlowsPushed ==
  ASSUME NEW p, NEW b, NEW A \in Streams, NEW L \in Streams, NEW T \in Streams, NEW S,
         NEW x \in ItemSet, x.kind # "Interruption", Flows(p, b, <<x>>, A, L, T, S)
  PROVE  Flows(p, b, <<>>, A, L, Append(T, x), S)
  <1>1. PICK X, Z, U : X = <<x>> /\ Z = A \o L /\ U = Append(T, x)
    OBVIOUS
  <1>2. X \in Streams /\ Z \in Streams /\ ~Cut(X) /\ <<>> \o Z = Z
    BY <1>1, Alone, Grouped, CutsAre, Zenon
  <1>3. U = T \o X
    BY <1>1, AppendIsConcat DEF Streams
  <1>4. T \o X \in Streams /\ (T \o X) \o Z = T \o (X \o Z)
    <2>1. T \o X \in Streams
      BY <1>2, Grouped, Zenon
    <2>2. (T \o X) \o Z = T \o (X \o Z)
      BY <1>2, Regrouped, Zenon DEF Regroups
    <2>3. QED
      BY <2>1, <2>2, Zenon
  <1>5. /\ Orderly(p, Z) /\ Orderly(<<>>, X \o Z) /\ OfOneRun(b)
        /\ ~Cut(S) => Orderly(b, (T \o X) \o Z)
    BY <1>1, <1>2, <1>4, Zenon DEF Flows
  <1>6. Orderly(<<>>, Z)
    BY <1>2, <1>5, OrderlyParts, Zenon
  <1>7. ~Cut(S) => Orderly(b, U) /\ Orderly(b, U \o Z)
    BY <1>2, <1>3, <1>4, <1>5, OrderlyParts, Zenon
  <1>8. QED
    BY <1>1, <1>2, <1>5, <1>6, <1>7, Zenon DEF Flows

LEMMA FlowsPassed ==
  ASSUME NEW p, NEW b, NEW A \in Streams, NEW L \in Streams, NEW T \in Streams, NEW S,
         NEW x \in ItemSet, ~IsText(x), ~IsStart(x), NEW R,
         Cut(R) <=> Cut(S) \/ x.kind = "Interruption", Flows(p, b, <<x>>, A, L, T, S)
  PROVE  Flows(p, b, <<>>, A, L, T, R)
  <1>1. PICK X, Z : X = <<x>> /\ Z = A \o L
    OBVIOUS
  <1>2. Z \in Streams /\ <<>> \o Z = Z /\ (Cut(X) <=> x.kind = "Interruption")
    BY <1>1, Grouped, CutsAre, Zenon
  <1>3. /\ Orderly(p, Z) /\ Orderly(<<>>, X \o Z) /\ OfOneRun(b)
        /\ ~Cut(R) => Orderly(b, T) /\ Orderly(b, T \o (X \o Z))
    BY <1>1, <1>2, Zenon DEF Flows
  <1>4. Alike(T \o (X \o Z), T \o Z) /\ Alike(X \o Z, Z)
    BY <1>1, <1>2, IdleBetween, Zenon
  <1>5. /\ Orderly(<<>>, Z)
        /\ ~Cut(R) => Orderly(b, T \o Z)
    BY <1>3, <1>4, OrderlyAlike, Zenon
  <1>6. QED
    BY <1>1, <1>2, <1>3, <1>5, Zenon DEF Flows

(* The LLM's node passes on a frame that is not of an answer.               *)
LEMMA FlowsMore ==
  ASSUME NEW p, NEW b, NEW F \in Streams, NEW A \in Streams, NEW L \in Streams,
         NEW T \in Streams, NEW S, NEW x \in ItemSet, ~IsText(x), ~IsStart(x),
         Flows(p, b, F, A, L, T, S)
  PROVE  Flows(p, b, F, Append(A, x), L, T, S)
  <1>1. PICK X, Z, N : X = <<x>> /\ Z = A \o L /\ N = Append(A, x) \o L
    OBVIOUS
  <1>2. X \in Streams /\ Z \in Streams
    BY <1>1, Alone, Grouped, Zenon
  <1>3. N = A \o (X \o L)
    <2>1. Append(A, x) = A \o X
      BY <1>1, AppendIsConcat DEF Streams
    <2>2. (A \o X) \o L = A \o (X \o L)
      <3>1. Regroups(A, X, L)
        BY <1>2, Regrouped
      <3>2. QED
        BY <3>1 DEF Regroups
    <2>3. QED
      BY <1>1, <2>1, <2>2, Zenon
  <1>4. Alike(N, Z) /\ N \in Streams
    <2>1. Alike(A \o (X \o L), A \o L)
      BY <1>1, IdleBetween, Zenon
    <2>2. X \o L \in Streams
      BY <1>2, Grouped, Zenon
    <2>3. A \o (X \o L) \in Streams
      BY <2>2, Grouped, Zenon
    <2>4. QED
      BY <1>1, <1>3, <2>1, <2>3, Zenon
  <1>5. Alike(F, F) /\ Alike(T, T)
    BY DEF Alike
  <1>6. Alike(F \o N, F \o Z) /\ F \o N \in Streams /\ F \o Z \in Streams
    BY <1>2, <1>4, <1>5, AlikeJoined, Grouped, Zenon
  <1>7. Alike(T \o (F \o N), T \o (F \o Z))
    BY <1>5, <1>6, AlikeJoined, Zenon
  <1>8. /\ Orderly(p, Z) /\ Orderly(<<>>, F \o Z) /\ OfOneRun(b)
        /\ ~Cut(S) => Orderly(b, T)
        /\ (~Cut(S) /\ ~Cut(F)) => Orderly(b, T \o (F \o Z))
    BY <1>1, Zenon DEF Flows
  <1>9. /\ Orderly(p, N) /\ Orderly(<<>>, F \o N)
        /\ (~Cut(S) /\ ~Cut(F)) => Orderly(b, T \o (F \o N))
    BY <1>4, <1>6, <1>7, <1>8, OrderlyAlike, Zenon
  <1>10. QED
    BY <1>1, <1>8, <1>9, Zenon DEF Flows

(* The TTS service takes a data frame.                                      *)
LEMMA FlowsSpoken ==
  ASSUME NEW p, NEW b \in Texts, NEW F \in Streams, NEW A \in Streams, NEW L \in Streams,
         NEW T, NEW U \in Streams, NEW S, NEW x \in ItemSet, T = <<x>> \o U, ~Cut(S),
         NEW v, Collected(b, x, v), Flows(p, b, F, A, L, T, S), NEW R
  PROVE  Flows(p, v, F, A, L, U, R)
  <1>1. PICK X, Z, N : X = <<x>> /\ Z = A \o L /\ N = F \o Z
    OBVIOUS
  <1>2. X \in Streams /\ Z \in Streams
    BY <1>1, Alone, Grouped, Zenon
  <1>3. N \in Streams
    BY <1>1, <1>2, Grouped, Zenon
  <1>4. (X \o U) \o N = X \o (U \o N)
    <2>1. Regroups(X, U, N)
      BY <1>2, <1>3, Regrouped
    <2>2. QED
      BY <2>1 DEF Regroups
  <1>5. T \o N = X \o (U \o N)
    <2>1. T = X \o U
      BY <1>1, Zenon
    <2>2. QED
      BY <1>4, <2>1, Zenon
  <1>6. /\ Orderly(p, Z) /\ Orderly(<<>>, N) /\ Orderly(b, X \o U)
        /\ ~Cut(F) => Orderly(b, X \o (U \o N))
    BY <1>1, <1>5, Zenon DEF Flows
  <1>7. Orderly(v, U)
    BY <1>1, <1>6, OrderlyTaken, Zenon
  <1>8. U \o N \in Streams
    BY <1>3, Grouped, Zenon
  <1>9. ~Cut(F) => Orderly(v, U \o N)
    BY <1>1, <1>6, <1>8, OrderlyTaken, Zenon
  <1>10. OfOneRun(v)
    BY <1>7, Zenon DEF Orderly
  <1>11. QED
    BY <1>1, <1>6, <1>7, <1>9, <1>10, Zenon DEF Flows

(* With an Interruption it loses what waits and forgets what it collected.  *)
LEMMA FlowsHushed ==
  ASSUME NEW p, NEW b, NEW F \in Streams, NEW A \in Streams, NEW L \in Streams,
         NEW T, NEW S, Flows(p, b, F, A, L, T, S), NEW R
  PROVE  Flows(p, <<>>, F, A, L, <<>>, R)
  <1>1. PICK N : N = F \o (A \o L)
    OBVIOUS
  <1>2. N \in Streams
    <2>1. A \o L \in Streams
      BY Grouped, Zenon
    <2>2. QED
      BY <1>1, <2>1, Grouped, Zenon
  <1>3. <<>> \o N = N
    BY <1>2, Grouped, Zenon
  <1>4. Orderly(p, A \o L) /\ Orderly(<<>>, N)
    BY <1>1, Zenon DEF Flows
  <1>5. OfOneRun(<<>>) /\ Orderly(<<>>, <<>>)
    BY Alone, ItemsMade DEF Orderly, Before
  <1>6. QED
    BY <1>1, <1>3, <1>4, <1>5, Zenon DEF Flows

(* The live completion is cancelled, or another one takes its place.        *)
LEMMA FlowsStopped ==
  ASSUME NEW p, NEW b, NEW F \in Streams, NEW A \in Streams, NEW L \in Streams,
         NEW T \in Streams, NEW S, Flows(p, b, F, A, L, T, S)
  PROVE  Flows(p, b, F, A, <<>>, T, S)
  <1>1. A \o <<>> = A
    BY Grouped, Zenon
  <1>2. PICK N, M : N = F \o A /\ M = T \o (F \o A)
    OBVIOUS
  <1>3. N \in Streams
    BY <1>2, Grouped, Zenon
  <1>4. M \in Streams
    BY <1>2, <1>3, Grouped, Zenon
  <1>5. F \o (A \o L) = N \o L
    <2>1. Regroups(F, A, L)
      BY Regrouped
    <2>2. QED
      BY <1>2, <2>1, Zenon DEF Regroups
  <1>6. T \o (F \o (A \o L)) = M \o L
    <2>1. Regroups(T, N, L)
      BY <1>3, Regrouped
    <2>2. QED
      BY <1>2, <1>5, <2>1, Zenon DEF Regroups
  <1>7. /\ Orderly(p, A \o L) /\ Orderly(<<>>, N \o L) /\ OfOneRun(b)
        /\ ~Cut(S) => Orderly(b, T)
        /\ (~Cut(S) /\ ~Cut(F)) => Orderly(b, M \o L)
    BY <1>5, <1>6, Zenon DEF Flows
  <1>8. /\ Orderly(p, A) /\ Orderly(<<>>, N)
        /\ (~Cut(S) /\ ~Cut(F)) => Orderly(b, M)
    BY <1>3, <1>4, <1>7, OrderlyParts, Zenon
  <1>9. QED
    BY <1>1, <1>2, <1>7, <1>8, Zenon DEF Flows

(* The live completion gets its answer.                                     *)
LEMMA FlowsAnswered ==
  ASSUME NEW p, NEW b, NEW F \in Streams, NEW A \in Streams, NEW L \in Streams,
         NEW T \in Streams, NEW S, Flows(p, b, F, A, <<>>, T, S),
         SaidFirst(L) = {}, Ordered(L)
  PROVE  Flows(p, b, F, A, L, T, S)
  <1>1. A \o <<>> = A
    BY Grouped, Zenon
  <1>2. PICK N, M : N = F \o A /\ M = T \o (F \o A)
    OBVIOUS
  <1>3. N \in Streams
    BY <1>2, Grouped, Zenon
  <1>4. M \in Streams
    BY <1>2, <1>3, Grouped, Zenon
  <1>5. F \o (A \o L) = N \o L
    <2>1. Regroups(F, A, L)
      BY Regrouped
    <2>2. QED
      BY <1>2, <2>1, Zenon DEF Regroups
  <1>6. T \o (F \o (A \o L)) = M \o L
    <2>1. Regroups(T, N, L)
      BY <1>3, Regrouped
    <2>2. QED
      BY <1>2, <1>5, <2>1, Zenon DEF Regroups
  <1>7. /\ Orderly(p, A) /\ Orderly(<<>>, N) /\ OfOneRun(b)
        /\ ~Cut(S) => Orderly(b, T)
        /\ (~Cut(S) /\ ~Cut(F)) => Orderly(b, M)
    BY <1>1, <1>2, Zenon DEF Flows
  <1>8. /\ Orderly(p, A \o L) /\ Orderly(<<>>, N \o L)
        /\ (~Cut(S) /\ ~Cut(F)) => Orderly(b, M \o L)
    BY <1>3, <1>4, <1>7, OrderlyMore, Zenon
  <1>9. QED
    BY <1>5, <1>6, <1>7, <1>8, Zenon DEF Flows

(* The live completion pushes a data frame, or a system frame.              *)
LEMMA FlowsGiven ==
  ASSUME NEW p, NEW b, NEW F, NEW A \in Streams, NEW L, NEW M \in Streams, NEW T,
         NEW S, NEW x \in ItemSet, L = <<x>> \o M, Flows(p, b, F, A, L, T, S)
  PROVE  Flows(p, b, F, Append(A, x), M, T, S)
  <1>1. PICK X : X = <<x>>
    OBVIOUS
  <1>2. X \in Streams
    BY <1>1, Alone, Zenon
  <1>3. Append(A, x) = A \o X
    BY <1>1, AppendIsConcat DEF Streams
  <1>4. (A \o X) \o M = A \o (X \o M)
    BY <1>2, Regrouped, Zenon DEF Regroups
  <1>5. Append(A, x) \o M = A \o L
    BY <1>1, <1>3, <1>4, Zenon
  <1>6. QED
    BY <1>5, Zenon DEF Flows

LEMMA FlowsWarned ==
  ASSUME NEW p, NEW b, NEW F \in Streams, NEW A \in Streams, NEW L, NEW M \in Streams,
         NEW T \in Streams, NEW S, NEW x \in ItemSet, ~IsText(x), ~IsStart(x),
         L = <<x>> \o M, Flows(p, b, F, A, L, T, S)
  PROVE  Flows(p, b, F, A, M, T, S)
  <1>1. PICK Z, N : Z = A \o M /\ N = A \o L
    OBVIOUS
  <1>2. Alike(N, Z)
    BY <1>1, IdleBetween, Zenon
  <1>3. <<x>> \o M \in Streams
    BY Alone, Grouped, Zenon
  <1>4. Z \in Streams /\ N \in Streams
    BY <1>1, <1>3, Grouped, Zenon
  <1>5. Alike(F, F) /\ Alike(T, T)
    BY DEF Alike
  <1>6. Alike(F \o N, F \o Z) /\ F \o N \in Streams /\ F \o Z \in Streams
    BY <1>2, <1>4, <1>5, AlikeJoined, Grouped, Zenon
  <1>7. Alike(T \o (F \o N), T \o (F \o Z))
    BY <1>5, <1>6, AlikeJoined, Zenon
  <1>8. /\ Orderly(p, N) /\ Orderly(<<>>, F \o N) /\ OfOneRun(b)
        /\ ~Cut(S) => Orderly(b, T)
        /\ (~Cut(S) /\ ~Cut(F)) => Orderly(b, T \o (F \o N))
    BY <1>1, Zenon DEF Flows
  <1>9. /\ Orderly(p, Z) /\ Orderly(<<>>, F \o Z)
        /\ (~Cut(S) /\ ~Cut(F)) => Orderly(b, T \o (F \o Z))
    BY <1>2, <1>6, <1>7, <1>8, OrderlyAlike, Zenon
  <1>10. QED
    BY <1>1, <1>8, <1>9, Zenon DEF Flows

-----------------------------------------------------------------------------
(* The flow of the conversation. *)

FramesOf(ops) == [i \in DOMAIN ops |-> ops[i].q]

Live ==
  IF cancel = 0 THEN <<>>
  ELSE IF RunIsOver(cancel) THEN <<>> ELSE FramesOf(runs[cancel].todo)

InOrder ==
  Flows(partial, buffer, FramesOf(todo["asst"]), inbox["asst"].down, Live,
        inbox["tts"].down, inbox["tts"].sys)

(* No completion that has begun is alive but the one to be cancelled next.  *)
OneAlive ==
  \A r \in Runs :
    (runs[r].state \in {"snapshot", "request", "push"} /\ ~RunIsOver(r)) => r = cancel

LEMMA FramesAre ==
  ASSUME NEW S, \A p \in S : p.q \in ItemSet, NEW ops \in Seq(S)
  PROVE  /\ FramesOf(ops) \in Streams /\ DOMAIN FramesOf(ops) = DOMAIN ops
         /\ \A i \in DOMAIN ops : FramesOf(ops)[i] = ops[i].q
         /\ ops = <<>> => FramesOf(ops) = <<>>
         /\ ops # <<>> => /\ Head(ops).q \in ItemSet /\ FramesOf(Tail(ops)) \in Streams
                          /\ FramesOf(ops) = <<Head(ops).q>> \o FramesOf(Tail(ops))
  <1>1. ASSUME NEW v \in Seq(S)
        PROVE  /\ FramesOf(v) \in Streams /\ DOMAIN FramesOf(v) = DOMAIN v
               /\ Len(FramesOf(v)) = Len(v) /\ \A i \in DOMAIN v : FramesOf(v)[i] = v[i].q
    <2>1. DOMAIN v = 1..Len(v) /\ Len(v) \in Nat /\ \A i \in 1..Len(v) : v[i] \in S
      BY <1>1, LenProperties, ElementOfSeq
    <2> DEFINE f == FramesOf(v)
    <2>2. DOMAIN f = DOMAIN v /\ \A i \in DOMAIN v : f[i] = v[i].q
      BY DEF FramesOf
    <2>3. f = [i \in 1..Len(v) |-> f[i]]
      BY <2>1, <2>2 DEF FramesOf
    <2> HIDE DEF f
    <2>4. f \in [1..Len(v) -> ItemSet]
      BY <2>1, <2>2, <2>3
    <2>5. f \in Seq(ItemSet)
      BY <2>1, <2>4, SeqDef
    <2>6. Len(f) = Len(v)
      BY <2>1, <2>2, <2>5, LenProperties
    <2>7. QED
      BY <2>2, <2>5, <2>6 DEF f, Streams
  <1>2. ops = <<>> => FramesOf(ops) = <<>>
    BY DEF FramesOf
  <1>3. ASSUME ops # <<>>
        PROVE  /\ Head(ops).q \in ItemSet /\ FramesOf(Tail(ops)) \in Streams
               /\ FramesOf(ops) = <<Head(ops).q>> \o FramesOf(Tail(ops))
    <2>1. PICK f, g : f = FramesOf(ops) /\ g = FramesOf(Tail(ops))
      OBVIOUS
    <2>2. /\ Head(ops) \in S /\ Head(ops) = ops[1] /\ Tail(ops) \in Seq(S)
          /\ Len(Tail(ops)) = Len(ops) - 1
          /\ \A i \in 1..Len(Tail(ops)) : Tail(ops)[i] = ops[i + 1]
          /\ Len(ops) \in Nat /\ Len(ops) >= 1
      BY <1>3, HeadTailProperties, EmptySeq, LenProperties
    <2>3. /\ f \in Seq(ItemSet) /\ Len(f) = Len(ops) /\ DOMAIN f = 1..Len(ops)
          /\ \A i \in 1..Len(ops) : f[i] = ops[i].q
      BY <1>1, <2>1, LenProperties DEF Streams
    <2>4. /\ g \in Seq(ItemSet) /\ Len(g) = Len(ops) - 1
          /\ \A i \in 1..Len(ops) - 1 : g[i] = ops[i + 1].q
      <3>1. /\ g \in Seq(ItemSet) /\ Len(g) = Len(Tail(ops))
            /\ \A i \in DOMAIN Tail(ops) : g[i] = Tail(ops)[i].q
        <4>1. PICK v : v = Tail(ops)
          OBVIOUS
        <4>2. v \in Seq(S) /\ g = FramesOf(v)
          BY <2>1, <2>2, <4>1
        <4>3. /\ g \in Streams /\ Len(g) = Len(v)
              /\ \A i \in DOMAIN v : g[i] = v[i].q
          BY <1>1, <4>2
        <4>4. QED
          BY <4>1, <4>3 DEF Streams
      <3>2. DOMAIN Tail(ops) = 1..Len(ops) - 1
        BY <2>2, LenProperties
      <3>3. QED
        BY <2>2, <3>1, <3>2
    <2>5. f # <<>>
      BY <2>2, <2>3
    <2>6. f = <<Head(f)>> \o Tail(f) /\ Tail(f) \in Seq(ItemSet)
      BY <2>3, <2>5, HeadAndTail
    <2>7. Head(f) = Head(ops).q
      BY <2>2, <2>3
    <2>8. Tail(f) = g
      <3>1. /\ Len(Tail(f)) = Len(f) - 1
            /\ \A i \in 1..Len(Tail(f)) : Tail(f)[i] = f[i + 1]
        BY <2>3, <2>5, HeadTailProperties
      <3>2. PICK h : h = Tail(f)
        OBVIOUS
      <3>3. h \in Seq(ItemSet) /\ Len(h) = Len(ops) - 1
        BY <2>3, <2>6, <3>1, <3>2
      <3>4. \A i \in 1..Len(ops) - 1 : h[i] = f[i + 1]
        BY <2>3, <3>1, <3>2, <3>3
      <3>5. \A i \in 1..Len(ops) - 1 : h[i] = g[i]
        BY <2>2, <2>3, <2>4, <3>4
      <3>6. h = g
        BY <2>4, <3>3, <3>5, SeqEqual
      <3>7. QED
        BY <3>2, <3>6
    <2>9. Head(ops).q \in ItemSet /\ g \in Streams
      BY <2>2, <2>4 DEF Streams
    <2>10. QED
      BY <2>1, <2>6, <2>7, <2>8, <2>9, Zenon
  <1>4. QED
    BY <1>1, <1>2, <1>3

LEMMA FrameOne ==
  ASSUME NEW n, NEW q \in ItemSet
  PROVE  FramesOf(<<PushTo(n, q)>>) = <<q>>
  <1>1. PICK p : p = PushTo(n, q)
    OBVIOUS
  <1>2. p.q = q
    BY <1>1 DEF PushTo
  <1>3. \A S : \A x \in S : /\ <<x>> \in Seq(S) /\ <<x>> # <<>>
                             /\ Head(<<x>>) = x /\ Tail(<<x>>) = <<>>
    OBVIOUS
  <1>4. /\ <<p>> \in Seq({p}) /\ Head(<<p>>) = p /\ Tail(<<p>>) = <<>> /\ <<p>> # <<>>
    BY <1>3
  <1>5. \A x \in {p} : x.q \in ItemSet
    BY <1>2
  <1>6. FramesOf(<<p>>) = <<p.q>> \o FramesOf(<<>>)
    <2>1. PICK ops : ops = <<p>>
      OBVIOUS
    <2>2. ops \in Seq({p}) /\ Head(ops) = p /\ Tail(ops) = <<>> /\ ops # <<>>
      BY <1>4, <2>1
    <2>3. FramesOf(ops) = <<Head(ops).q>> \o FramesOf(Tail(ops))
      BY <1>5, <2>2, FramesAre
    <2>4. QED
      BY <2>1, <2>2, <2>3, Zenon
  <1>7. FramesOf(<<>>) = <<>>
    BY DEF FramesOf
  <1>8. <<q>> \o <<>> = <<q>>
    BY Alone, Grouped
  <1>9. QED
    BY <1>1, <1>2, <1>6, <1>7, <1>8, Zenon

(* An answer starts anew, and its pieces are in order.                      *)
LEMMA SpokenOrdered ==
  ASSUME NEW r \in Runs, NEW v \in Seq(RunOps(r)), Spoken(v, r)
  PROVE  FramesOf(v) \in Streams /\ SaidFirst(FramesOf(v)) = {} /\ Ordered(FramesOf(v))
  <1>1. \A p \in RunOps(r) : p.q \in ItemSet
    BY DEF RunOps, Pushes, ServiceItems
  <1>2. PICK f : f = FramesOf(v)
    OBVIOUS
  <1>3. f \in Streams /\ DOMAIN f = DOMAIN v /\ \A i \in DOMAIN v : f[i] = v[i].q
    BY <1>1, <1>2, FramesAre
  <1>4. DOMAIN v = 1..Len(v) /\ Len(v) \in Nat
    BY LenProperties
  <1>5. ASSUME NEW i \in DOMAIN f, IsText(f[i])
        PROVE  i > 1 /\ IsStart(f[1]) /\ f[i].text[1] = <<r, i - 1>>
    <2>1. i > 1 /\ IsStart(v[1].q) /\ v[i].q.text = <<<<r, i - 1>>>>
      BY <1>3, <1>5 DEF Spoken
    <2>2. 1 \in DOMAIN v
      BY <1>3, <1>4, <2>1
    <2>3. f[1] = v[1].q /\ f[i] = v[i].q
      BY <1>3, <1>5, <2>2
    <2>4. QED
      BY <2>1, <2>3
  <1>6. SaidFirst(f) = {}
    <2>1. ASSUME NEW j \in DOMAIN f, IsText(f[j])
          PROVE  \E k \in 1..j - 1 : IsStart(f[k])
      <3>1. j > 1 /\ IsStart(f[1]) /\ j \in Int
        BY <1>3, <1>4, <1>5, <2>1
      <3>2. 1 \in 1..j - 1
        BY <3>1
      <3>3. QED
        BY <3>1, <3>2
    <2>2. QED
      BY <2>1 DEF SaidFirst
  <1>7. Ordered(f)
    <2>1. ASSUME NEW i \in DOMAIN f, NEW j \in DOMAIN f, i < j, IsText(f[i]), IsText(f[j])
          PROVE  Less(f[i].text[1], f[j].text[1])
      <3>1. f[i].text[1] = <<r, i - 1>> /\ f[j].text[1] = <<r, j - 1>>
        BY <1>5, <2>1
      <3>2. i \in Int /\ j \in Int
        BY <1>3, <1>4
      <3>3. QED
        BY <2>1, <3>1, <3>2 DEF Less
    <2>2. QED
      BY <2>1 DEF Ordered
  <1>8. QED
    BY <1>2, <1>3, <1>6, <1>7

(* The flow's parts have their types.                                       *)
LEMMA FlowTyped ==
  ASSUME Typed
  PROVE  /\ "asst" \in Nodes /\ "tts" \in Nodes
         /\ todo["asst"] \in Seq(OpsAt("asst")) /\ \A p \in OpsAt("asst") : p.q \in ItemSet
         /\ FramesOf(todo["asst"]) \in Streams
         /\ inbox["asst"].down \in Streams /\ inbox["asst"].sys \in Streams
         /\ inbox["tts"].down \in Streams /\ inbox["tts"].sys \in Streams
         /\ partial \in Texts /\ buffer \in Texts
         /\ Live \in Streams
         /\ cancel # 0 => cancel \in Runs
  <1>1. "asst" \in Nodes /\ "tts" \in Nodes /\ ItemsAt("asst") = ItemSet /\ ItemsAt("tts") = ItemSet
    BY Chain DEF ItemsAt
  <1>2. todo["asst"] \in Seq(OpsAt("asst"))
    BY <1>1 DEF Typed, TodoTyped
  <1>3. \A p \in OpsAt("asst") : p.q \in ItemSet
    BY DEF OpsAt, Pushes
  <1>4. FramesOf(todo["asst"]) \in Streams
    BY <1>2, <1>3, FramesAre
  <1>5. ASSUME NEW n \in {"asst", "tts"}
        PROVE  inbox[n].down \in Streams /\ inbox[n].sys \in Streams
    <2>1. Holds(inbox[n], ItemSet)
      BY <1>1, <1>5 DEF Typed, InboxTyped
    <2>2. inbox[n] \in InboxSet(ItemSet)
      BY <2>1 DEF Holds
    <2>3. QED
      BY <2>2 DEF InboxSet, Streams
  <1>6. cancel # 0 => cancel \in Runs
    BY VoiceAssumption DEF Typed, RunsTyped, Runs
  <1>7. Live \in Streams
    <2>1. CASE cancel # 0
      <3>1. runs[cancel].todo \in Seq(RunOps(cancel))
        BY <1>6, <2>1 DEF Typed, RunsTyped, RunSet
      <3>2. \A p \in RunOps(cancel) : p.q \in ItemSet
        BY DEF RunOps, Pushes, ServiceItems
      <3>3. FramesOf(runs[cancel].todo) \in Streams
        BY <3>1, <3>2, FramesAre
      <3>4. QED
        BY <3>3, Alone DEF Live
    <2>2. QED
      BY <2>1, Alone DEF Live
  <1>8. QED
    BY <1>1, <1>2, <1>3, <1>4, <1>5, <1>6, <1>7 DEF Typed, TalkTyped

-----------------------------------------------------------------------------
(* The steps of the flow. *)
LEMMA LiveStays ==
  ASSUME UNCHANGED <<runs, cancel>>, turn'["llm"] = turn["llm"]
  PROVE  Live' = Live /\ (OneAlive => OneAlive')
  <1>1. \A r \in Runs \cup {cancel} : RunIsOver(r)' <=> RunIsOver(r)
    BY DEF RunIsOver
  <1>2. Live' = Live
    BY <1>1 DEF Live
  <1>3. OneAlive => OneAlive'
    BY <1>1 DEF OneAlive
  <1>4. QED
    BY <1>2, <1>3

LEMMA FlowStays ==
  ASSUME InOrder, partial' = partial, buffer' = buffer, todo'["asst"] = todo["asst"],
         inbox'["asst"].down = inbox["asst"].down, Live' = Live,
         inbox'["tts"].down = inbox["tts"].down, inbox'["tts"].sys = inbox["tts"].sys
  PROVE  InOrder'
  BY DEF InOrder

LEMMA FlowsAs ==
  ASSUME NEW p, NEW b, NEW F, NEW A, NEW L, NEW T, NEW S, NEW R, Cut(R) <=> Cut(S),
         Flows(p, b, F, A, L, T, S)
  PROVE  Flows(p, b, F, A, L, T, R)
  BY Zenon DEF Flows

(* The assistant aggregator takes an item and emits one.                    *)
LEMMA AssistantTakes ==
  ASSUME Typed, InOrder, NEW kinds, NEW y \in ItemSet, Takes("asst", kinds),
         TakeAndEmit("asst", <<PushTo("tts", y)>>),
         IsText(Taken("asst")) <=> IsText(y), IsStart(Taken("asst")) <=> IsStart(y),
         Taken("asst").text = y.text, IsSystem(Taken("asst").kind) => y = Taken("asst"),
         Collected(partial, Taken("asst"), partial'),
         IsSystem(Taken("asst").kind) =>
           partial' = (IF Taken("asst").kind = "Interruption" THEN <<>> ELSE partial),
         UNCHANGED <<runs, cancel, buffer>>
  PROVE  InOrder' /\ (OneAlive => OneAlive')
  <1>1. PICK x : x = Taken("asst")
    OBVIOUS
  <1>2. PICK A, S, T, sys : /\ A = inbox["asst"].down /\ S = inbox["tts"].sys
                            /\ T = inbox["tts"].down /\ sys = inbox["asst"].sys
    OBVIOUS
  <1>3. /\ A \in Streams /\ S \in Streams /\ T \in Streams /\ Live \in Streams
        /\ partial \in Texts /\ todo["asst"] = <<>>
    BY <1>2, FlowTyped DEF Takes
  <1>4. /\ x \in ItemSet
        /\ IsSystem(x.kind) =>
             inbox'["asst"].down = IF x.kind = "Interruption" THEN <<>> ELSE A
        /\ ~IsSystem(x.kind) =>
             A # <<>> /\ x = Head(A) /\ inbox'["asst"].down = Tail(A)
    BY <1>1, <1>2, FlowTyped, TakeKeepsInboxes
  <1>5. inbox'["tts"] = inbox["tts"] /\ turn'["llm"] = turn["llm"]
    <2>1. \A m \in Nodes \ {"asst"} : inbox'[m] = inbox[m] /\ turn'[m] = turn[m]
      BY FlowTyped, TakeKeepsInboxes
    <2>2. QED
      BY <2>1, Chain
  <1>6. Live' = Live /\ (OneAlive => OneAlive')
    BY <1>5, LiveStays
  <1>7. FramesOf(todo["asst"]) = <<>> /\ FramesOf(todo'["asst"]) = <<y>>
    <2>1. FramesOf(todo["asst"]) = <<>>
      BY <1>3 DEF FramesOf
    <2>2. todo'["asst"] = <<PushTo("tts", y)>>
      <3>1. todo = [m \in Nodes \cup {"agg"} |-> todo[m]] /\ "asst" \in Nodes \cup {"agg"}
        BY Chain DEF Typed, TodoTyped
      <3>2. todo' = [todo EXCEPT !["asst"] = <<PushTo("tts", y)>>]
        BY DEF TakeAndEmit
      <3>3. PICK ops : ops = <<PushTo("tts", y)>>
        OBVIOUS
      <3>4. QED
        BY <3>1, <3>2, <3>3
    <2>3. QED
      BY <2>1, <2>2, FrameOne
  <1>8. Flows(partial, buffer, <<>>, A, Live, T, S)
    BY <1>2, <1>7, Zenon DEF InOrder
  <1>9. \E B : /\ inbox'["asst"].down = B
               /\ Flows(partial', buffer, <<y>>, B, Live, T, S)
    <2>1. CASE ~IsSystem(x.kind)
      <3>1. Tail(A) \in Streams /\ A = <<Head(A)>> \o Tail(A)
        BY <1>3, <1>4, <2>1, HeadAndTail DEF Streams
      <3>2. PICK B : B = Tail(A)
        OBVIOUS
      <3>3. B \in Streams /\ A = <<x>> \o B
        BY <1>4, <2>1, <3>1, <3>2, Zenon
      <3>4. Alike(<<x>>, <<y>>)
        BY <1>1, <1>4, SameSaid
      <3>5. Flows(partial', buffer, <<y>>, B, Live, T, S)
        BY <1>1, <1>3, <1>4, <1>8, <3>3, <3>4, FlowsTaken, Zenon
      <3>6. QED
        BY <1>4, <2>1, <3>2, <3>5
    <2>2. CASE IsSystem(x.kind)
      <3>1. y = x /\ ~IsText(y) /\ ~IsStart(y)
        <4>1. y = x
          BY <1>1, <2>2
        <4>2. y.kind \in {"Interruption", "BotSpeaking", "BotStoppedSpeaking", "Error"}
          BY <2>2, <4>1, KindsAre
        <4>3. QED
          BY <4>1, <4>2 DEF IsText, IsStart
      <3>2. Flows(partial, buffer, <<y>>, A, Live, T, S)
        BY <1>3, <1>8, <3>1, FlowsReported, Zenon
      <3>3. CASE x.kind = "Interruption"
        <4>1. Flows(<<>>, buffer, <<y>>, <<>>, Live, T, S)
          BY <1>3, <3>1, <3>2, <3>3, FlowsCut, Zenon
        <4>2. partial' = <<>> /\ inbox'["asst"].down = <<>>
          BY <1>1, <1>4, <2>2, <3>3
        <4>3. QED
          BY <4>1, <4>2, Zenon
      <3>4. CASE x.kind # "Interruption"
        <4>1. partial' = partial /\ inbox'["asst"].down = A
          BY <1>1, <1>4, <2>2, <3>4
        <4>2. QED
          BY <3>2, <4>1, Zenon
      <3>5. QED
        BY <3>3, <3>4
    <2>3. QED
      BY <2>1, <2>2
  <1>10. Flows(partial', buffer, <<y>>, inbox'["asst"].down, Live, T, S)
    BY <1>9, Zenon
  <1>11. /\ buffer' = buffer /\ inbox'["tts"].down = T /\ inbox'["tts"].sys = S
    BY <1>2, <1>5
  <1>12. InOrder'
    BY <1>6, <1>7, <1>10, <1>11, Zenon DEF InOrder
  <1>13. QED
    BY <1>6, <1>12

(* The TTS service's node takes an item.                                    *)
LEMMA TTSTakes ==
  ASSUME Typed, InOrder, NEW kinds, NEW ops, Takes("tts", kinds), TakeAndEmit("tts", ops),
         Collected(buffer, Taken("tts"), buffer'),
         IsSystem(Taken("tts").kind) =>
           buffer' = (IF Taken("tts").kind = "Interruption" THEN <<>> ELSE buffer),
         UNCHANGED <<runs, cancel, partial>>
  PROVE  InOrder' /\ (OneAlive => OneAlive')
  <1>1. PICK x : x = Taken("tts")
    OBVIOUS
  <1>2. PICK A, F, S, T : /\ A = inbox["asst"].down /\ F = FramesOf(todo["asst"])
                          /\ S = inbox["tts"].sys /\ T = inbox["tts"].down
    OBVIOUS
  <1>3. /\ A \in Streams /\ S \in Streams /\ T \in Streams /\ Live \in Streams
        /\ F \in Streams /\ buffer \in Texts
    BY <1>2, FlowTyped
  <1>4. /\ x \in ItemSet
        /\ IsSystem(x.kind) =>
             /\ S # <<>> /\ x = Head(S) /\ inbox'["tts"].sys = Tail(S)
             /\ inbox'["tts"].down = IF x.kind = "Interruption" THEN <<>> ELSE T
        /\ ~IsSystem(x.kind) =>
             S = <<>> /\ T # <<>> /\ x = Head(T) /\ inbox'["tts"].down = Tail(T)
    BY <1>1, <1>2, FlowTyped, TakeKeepsInboxes
  <1>5. /\ inbox'["asst"] = inbox["asst"] /\ turn'["llm"] = turn["llm"]
        /\ todo'["asst"] = todo["asst"]
    <2>1. /\ \A m \in Nodes \ {"tts"} : inbox'[m] = inbox[m] /\ turn'[m] = turn[m]
          /\ todo' = [todo EXCEPT !["tts"] = ops]
      BY FlowTyped, TakeKeepsInboxes
    <2>2. todo'["asst"] = todo["asst"]
      BY <2>1, Chain DEF Typed, TodoTyped
    <2>3. QED
      BY <2>1, <2>2, Chain
  <1>6. Live' = Live /\ (OneAlive => OneAlive')
    BY <1>5, LiveStays
  <1>7. Flows(partial, buffer, F, A, Live, T, S)
    BY <1>2, Zenon DEF InOrder
  <1>8. Flows(partial, buffer', F, A, Live, inbox'["tts"].down, inbox'["tts"].sys)
    <2>1. CASE ~IsSystem(x.kind)
      <3>1. Tail(T) \in Streams /\ T = <<Head(T)>> \o Tail(T)
        BY <1>3, <1>4, <2>1, HeadAndTail DEF Streams
      <3>2. PICK U : U = Tail(T)
        OBVIOUS
      <3>3. U \in Streams /\ T = <<x>> \o U /\ ~Cut(S)
        BY <1>4, <2>1, <3>1, <3>2, CutsAre, Zenon
      <3>4. \A R : Flows(partial, buffer', F, A, Live, U, R)
        BY <1>1, <1>3, <1>4, <1>7, <3>3, FlowsSpoken, Zenon
      <3>5. QED
        BY <1>4, <2>1, <3>2, <3>4, Zenon
    <2>2. CASE IsSystem(x.kind) /\ x.kind = "Interruption"
      <3>1. \A R : Flows(partial, <<>>, F, A, Live, <<>>, R)
        BY <1>3, <1>7, FlowsHushed, Zenon
      <3>2. buffer' = <<>> /\ inbox'["tts"].down = <<>>
        BY <1>1, <1>4, <2>2
      <3>3. QED
        BY <3>1, <3>2, Zenon
    <2>3. CASE IsSystem(x.kind) /\ x.kind # "Interruption"
      <3>1. buffer' = buffer /\ inbox'["tts"].down = T /\ inbox'["tts"].sys = Tail(S)
        BY <1>1, <1>4, <2>3
      <3>2. Cut(Tail(S)) <=> Cut(S)
        <4>1. S \in Seq(ItemSet) /\ S # <<>> /\ Head(S).kind # "Interruption"
          BY <1>3, <1>4, <2>3 DEF Streams
        <4>2. Cut(S) <=> Cut(Tail(S)) \/ Head(S).kind = "Interruption"
          BY <4>1, CutsAre, Zenon
        <4>3. QED
          BY <4>1, <4>2
      <3>3. Flows(partial, buffer, F, A, Live, T, Tail(S))
        BY <1>7, <3>2, FlowsAs, Zenon
      <3>4. QED
        BY <3>1, <3>3, Zenon
    <2>4. QED
      BY <2>1, <2>2, <2>3
  <1>9. /\ partial' = partial /\ FramesOf(todo'["asst"]) = F /\ inbox'["asst"].down = A
    BY <1>2, <1>5
  <1>10. InOrder'
    BY <1>6, <1>8, <1>9, Zenon DEF InOrder
  <1>11. QED
    BY <1>6, <1>10

(* A node's push, or the user aggregator's. *)
LEMMA NodePushFlow ==
  ASSUME Typed, InOrder, NEW n \in Nodes \cup {"agg"}, NodePush(n)
  PROVE  InOrder' /\ (OneAlive => OneAlive')
  <1>1. PICK p : p = Head(todo[n])
    OBVIOUS
  <1>2. /\ todo[n] # <<>> /\ p.op = "push"
        /\ inbox' = [inbox EXCEPT ![p.to] = Enqueue(@, p.q)]
        /\ todo' = [todo EXCEPT ![n] = Tail(@)]
        /\ UNCHANGED <<runs, cancel, turn, partial, buffer>>
    BY <1>1 DEF NodePush, llmVars, asstVars, ttsVars
  <1>3. /\ n # "out" /\ p.to \in Nodes /\ p.q \in ItemsAt(p.to)
        /\ n = "agg" => p.to = "llm"
        /\ n # "agg" => p.to = Below[n] /\ todo[n] = <<p>> /\ Tail(todo[n]) = <<>>
        /\ n = "llm" => p.q \in PassedItems
    BY <1>1, <1>2, NextPush DEF Typed
  <1>4. /\ \A m \in Nodes \ {p.to} : inbox'[m] = inbox[m]
        /\ IsSystem(p.q.kind) =>
             /\ inbox'[p.to].sys = Append(inbox[p.to].sys, p.q)
             /\ inbox'[p.to].down = inbox[p.to].down
        /\ ~IsSystem(p.q.kind) =>
             /\ inbox'[p.to].sys = inbox[p.to].sys
             /\ inbox'[p.to].down = Append(inbox[p.to].down, p.q)
    BY <1>2, <1>3, PushKeepsInboxes DEF Typed
  <1>5. todo'[n] = Tail(todo[n]) /\ \A m \in (Nodes \cup {"agg"}) \ {n} : todo'[m] = todo[m]
    BY <1>2 DEF Typed, TodoTyped
  <1>6. Live' = Live /\ (OneAlive => OneAlive')
    BY <1>2, LiveStays
  <1>7. PICK A, F, S, T : /\ A = inbox["asst"].down /\ F = FramesOf(todo["asst"])
                          /\ S = inbox["tts"].sys /\ T = inbox["tts"].down
    OBVIOUS
  <1>8. /\ A \in Streams /\ S \in Streams /\ T \in Streams /\ Live \in Streams
        /\ F \in Streams
    BY <1>7, FlowTyped
  <1>9. Flows(partial, buffer, F, A, Live, T, S)
    BY <1>7, Zenon DEF InOrder
  <1>10. n \in {"agg", "llm", "asst", "tts"} /\ "asst" \in Nodes /\ "tts" \in Nodes
    BY <1>3, Chain
  <1>11. CASE n = "agg" \/ n = "tts"
    <2>1. /\ todo'["asst"] = todo["asst"]
          /\ inbox'["asst"] = inbox["asst"] /\ inbox'["tts"] = inbox["tts"]
      BY <1>3, <1>4, <1>5, <1>10, <1>11, Chain
    <2>2. InOrder'
      BY <1>2, <1>6, <2>1, FlowStays
    <2>3. QED
      BY <1>6, <2>2
  <1>12. CASE n = "llm"
    <2>1. p.to = "asst" /\ p.q \in ItemSet /\ ~IsText(p.q) /\ ~IsStart(p.q)
      BY <1>3, <1>12, Chain DEF PassedItems
    <2>2. todo'["asst"] = todo["asst"] /\ inbox'["tts"] = inbox["tts"]
      BY <1>4, <1>5, <1>10, <1>12, <2>1
    <2>3. CASE IsSystem(p.q.kind)
      <3>1. inbox'["asst"].down = inbox["asst"].down
        BY <1>4, <2>1, <2>3
      <3>2. InOrder'
        BY <1>2, <1>6, <2>2, <3>1, FlowStays
      <3>3. QED
        BY <1>6, <3>2
    <2>4. CASE ~IsSystem(p.q.kind)
      <3>1. inbox'["asst"].down = Append(A, p.q)
        BY <1>4, <1>7, <2>1, <2>4
      <3>2. Flows(partial, buffer, F, Append(A, p.q), Live, T, S)
        BY <1>8, <1>9, <2>1, FlowsMore, Zenon
      <3>3. /\ partial' = partial /\ buffer' = buffer /\ FramesOf(todo'["asst"]) = F
            /\ inbox'["tts"].down = T /\ inbox'["tts"].sys = S
        BY <1>2, <1>7, <2>2
      <3>4. InOrder'
        BY <1>6, <3>1, <3>2, <3>3, Zenon DEF InOrder
      <3>5. QED
        BY <1>6, <3>4
    <2>5. QED
      BY <2>3, <2>4
  <1>13. CASE n = "asst"
    <2>1. /\ p.to = "tts" /\ p.q \in ItemSet /\ todo["asst"] = <<p>> /\ todo'["asst"] = <<>>
      BY <1>3, <1>5, <1>13, Chain DEF ItemsAt
    <2>2. F = <<p.q>> /\ FramesOf(todo'["asst"]) = <<>>
      <3>1. FramesOf(<<>>) = <<>>
        BY DEF FramesOf
      <3>2. PICK ops : ops = todo["asst"]
        OBVIOUS
      <3>3. /\ ops \in Seq(OpsAt("asst")) /\ ops # <<>>
            /\ Head(ops) = p /\ Tail(ops) = <<>>
        BY <1>1, <1>2, <1>3, <1>13, <3>2, FlowTyped
      <3>4. F = <<Head(ops).q>> \o FramesOf(Tail(ops))
        BY <1>7, <3>2, <3>3, FramesAre, FlowTyped
      <3>5. F = <<p.q>> \o <<>>
        BY <3>1, <3>3, <3>4, Zenon
      <3>6. <<p.q>> \o <<>> = <<p.q>>
        BY <2>1, Alone, Grouped
      <3>7. QED
        BY <2>1, <3>1, <3>5, <3>6, Zenon
    <2>3. Flows(partial, buffer, <<p.q>>, A, Live, T, S)
      BY <1>9, <2>2, Zenon
    <2>4. inbox'["asst"] = inbox["asst"]
      BY <1>4, <1>10, <2>1
    <2>5. Flows(partial, buffer, <<>>, A, Live, inbox'["tts"].down, inbox'["tts"].sys)
      <3>1. CASE ~IsSystem(p.q.kind)
        <4>1. p.q.kind # "Interruption"
          BY <2>1, <3>1, KindsAre
        <4>2. Flows(partial, buffer, <<>>, A, Live, Append(T, p.q), S)
          BY <1>8, <2>1, <2>3, <4>1, FlowsPushed, Zenon
        <4>3. inbox'["tts"].down = Append(T, p.q) /\ inbox'["tts"].sys = S
          BY <1>4, <1>7, <2>1, <3>1
        <4>4. QED
          BY <4>2, <4>3, Zenon
      <3>2. CASE IsSystem(p.q.kind)
        <4>1. ~IsText(p.q) /\ ~IsStart(p.q)
          BY <2>1, <3>2, KindsAre DEF IsText, IsStart
        <4>2. Cut(Append(S, p.q)) <=> Cut(S) \/ p.q.kind = "Interruption"
          BY <1>8, <2>1, CutsAre DEF Streams
        <4>3. Flows(partial, buffer, <<>>, A, Live, T, Append(S, p.q))
          BY <1>8, <2>1, <2>3, <4>1, <4>2, FlowsPassed, Zenon
        <4>4. inbox'["tts"].down = T /\ inbox'["tts"].sys = Append(S, p.q)
          BY <1>4, <1>7, <2>1, <3>2
        <4>5. QED
          BY <4>3, <4>4, Zenon
      <3>3. QED
        BY <3>1, <3>2
    <2>6. partial' = partial /\ buffer' = buffer /\ inbox'["asst"].down = A
      BY <1>2, <1>7, <2>4
    <2>7. InOrder'
      BY <1>6, <2>2, <2>5, <2>6, Zenon DEF InOrder
    <2>8. QED
      BY <1>6, <2>7
  <1>14. QED
    BY <1>10, <1>11, <1>12, <1>13

(* The live completion is no more, or has not got an answer yet.            *)
LEMMA FlowEnds ==
  ASSUME Typed, InOrder, UNCHANGED <<partial, buffer>>, todo'["asst"] = todo["asst"],
         inbox'["asst"] = inbox["asst"], inbox'["tts"] = inbox["tts"],
         Live' = <<>> \/ Live' = Live
  PROVE  InOrder'
  <1>1. CASE Live' = Live
    BY <1>1, FlowStays
  <1>2. CASE Live' = <<>>
    <2>1. PICK A, F, S, T : /\ A = inbox["asst"].down /\ F = FramesOf(todo["asst"])
                            /\ S = inbox["tts"].sys /\ T = inbox["tts"].down
      OBVIOUS
    <2>2. /\ A \in Streams /\ S \in Streams /\ T \in Streams /\ Live \in Streams
          /\ F \in Streams
      BY <2>1, FlowTyped
    <2>3. Flows(partial, buffer, F, A, Live, T, S)
      BY <2>1, Zenon DEF InOrder
    <2>4. Flows(partial, buffer, F, A, <<>>, T, S)
      BY <2>2, <2>3, FlowsStopped, Zenon
    <2>5. /\ partial' = partial /\ buffer' = buffer /\ FramesOf(todo'["asst"]) = F
          /\ inbox'["asst"].down = A /\ inbox'["tts"].down = T /\ inbox'["tts"].sys = S
      BY <2>1
    <2>6. QED
      BY <1>2, <2>4, <2>5, Zenon DEF InOrder
  <1>3. QED
    BY <1>1, <1>2

(* The LLM service's node: an interruption ends every completion.           *)
LEMMA LLMFlow ==
  ASSUME Typed, Typed', Turns, InOrder, OneAlive, LLMStep
  PROVE  InOrder' /\ OneAlive'
  <1>1. /\ "llm" \in Nodes /\ "asst" \in Nodes \ {"llm"} /\ "tts" \in Nodes \ {"llm"}
        /\ runs = [r \in Runs |-> runs[r]] /\ \A r \in Runs : runs[r] \in RunSet(r)
        /\ \A r \in Runs : runs[r].turn \in Nat /\ runs[r].turn <= turn["llm"]
        /\ turn["llm"] \in Nat
    BY Chain, RunTurns DEF Turns, RunsBegun, Typed, RunsTyped, TalkTyped
  <1>2. UNCHANGED <<partial, buffer>>
    BY DEF LLMStep, LLMInterrupted, LLMStartsRun, asstVars, ttsVars
  <1>3. ASSUME NEW kinds, NEW ops, Takes("llm", kinds), TakeAndEmit("llm", ops)
        PROVE  /\ Taken("llm").kind \in kinds /\ todo'["asst"] = todo["asst"]
               /\ inbox'["asst"] = inbox["asst"] /\ inbox'["tts"] = inbox["tts"]
               /\ turn'["llm"] = IF Taken("llm").kind = "Interruption" THEN turn["llm"] + 1
                                 ELSE turn["llm"]
    <2>1. /\ Taken("llm").kind \in kinds /\ todo' = [todo EXCEPT !["llm"] = ops]
          /\ \A m \in Nodes \ {"llm"} : inbox'[m] = inbox[m]
          /\ turn'["llm"] = IF Taken("llm").kind = "Interruption" THEN turn["llm"] + 1
                            ELSE turn["llm"]
      BY <1>1, <1>3, TakeKeepsInboxes
    <2>2. todo'["asst"] = todo["asst"]
      BY <1>1, <2>1 DEF Typed, TodoTyped
    <2>3. QED
      BY <1>1, <2>1, <2>2
  <1>4. CASE LLMInterrupted
    <2>1. Takes("llm", {"Interruption"}) /\ TakeAndEmit("llm", Relay("llm", Taken("llm")))
      BY <1>4 DEF LLMInterrupted, TakeAndRelay
    <2>2. /\ todo'["asst"] = todo["asst"] /\ turn'["llm"] = turn["llm"] + 1
          /\ inbox'["asst"] = inbox["asst"] /\ inbox'["tts"] = inbox["tts"]
      BY <1>3, <2>1
    <2>3. cancel' = 0 /\ Live' = <<>>
      BY <1>4 DEF LLMInterrupted, Live
    <2>4. InOrder'
      BY <1>2, <2>2, <2>3, FlowEnds
    <2>5. \A r \in Runs : runs'[r].turn = runs[r].turn
      <3>1. CASE cancel = 0
        BY <1>4, <3>1 DEF LLMInterrupted
      <3>2. CASE cancel # 0
        <4> DEFINE x == [runs[cancel] EXCEPT !.cancelled = TRUE]
        <4>1. cancel \in Runs
          BY <3>2, FlowTyped
        <4>2. x.turn = runs[cancel].turn
          BY <1>1, <4>1 DEF RunSet
        <4>3. runs' = [runs EXCEPT ![cancel] = x]
          BY <1>4, <3>2 DEF LLMInterrupted
        <4> HIDE DEF x
        <4>4. QED
          BY <1>1, <4>1, <4>2, <4>3
      <3>3. QED
        BY <3>1, <3>2
    <2>6. \A r \in Runs : runs'[r].turn < turn'["llm"]
      BY <1>1, <2>2, <2>5
    <2>7. OneAlive'
      BY <2>6 DEF OneAlive, RunIsOver
    <2>8. QED
      BY <2>4, <2>7
  <1>5. CASE LLMStartsRun
    <2>1. Takes("llm", {"LLMRun"}) /\ TakeAndEmit("llm", <<>>)
      BY <1>5 DEF LLMStartsRun
    <2>2. /\ todo'["asst"] = todo["asst"] /\ turn'["llm"] = turn["llm"]
          /\ inbox'["asst"] = inbox["asst"] /\ inbox'["tts"] = inbox["tts"]
      BY <1>3, <2>1
    <2> DEFINE k == Taken("llm").run
               x == [NoRun EXCEPT !.state = "begin", !.turn = turn["llm"]]
    <2>3. runs' = [runs EXCEPT ![k] = x] /\ cancel' = cancel
      BY <1>5 DEF LLMStartsRun
    <2>4. x.state = "begin" /\ x.todo = <<>>
      BY DEF NoRun
    <2> HIDE DEF k, x
    <2>5. \A r \in Runs : runs'[r] = IF r = k THEN x ELSE runs[r]
      BY <1>1, <2>3
    <2>6. \A r \in Runs \ {k} : RunIsOver(r)' <=> RunIsOver(r)
      BY <2>2, <2>5 DEF RunIsOver
    <2>7. Live' = <<>> \/ Live' = Live
      <3>1. CASE cancel = 0
        BY <2>3, <3>1 DEF Live
      <3>2. CASE cancel # 0 /\ cancel # k
        <4>1. cancel \in Runs \ {k}
          BY <3>2, FlowTyped
        <4>2. QED
          BY <2>3, <2>5, <2>6, <3>2, <4>1 DEF Live
      <3>3. CASE cancel # 0 /\ cancel = k
        <4>1. runs'[cancel].todo = <<>>
          BY <2>4, <2>5, <3>3, FlowTyped
        <4>2. FramesOf(runs'[cancel].todo) = <<>>
          BY <4>1 DEF FramesOf
        <4>3. QED
          BY <2>3, <3>3, <4>2 DEF Live
      <3>4. QED
        BY <3>1, <3>2, <3>3
    <2>8. InOrder'
      BY <1>2, <2>2, <2>7, FlowEnds
    <2>9. OneAlive'
      <3>1. ASSUME NEW r \in Runs, runs'[r].state \in {"snapshot", "request", "push"},
                   ~RunIsOver(r)'
            PROVE  r = cancel'
        <4>1. r # k
          BY <2>4, <2>5, <3>1
        <4>2. runs[r].state \in {"snapshot", "request", "push"} /\ ~RunIsOver(r)
          BY <2>5, <2>6, <3>1, <4>1
        <4>3. QED
          BY <2>3, <4>2 DEF OneAlive
      <3>2. QED
        BY <3>1 DEF OneAlive
    <2>10. QED
      BY <2>8, <2>9
  <1>6. QED
    BY <1>4, <1>5 DEF LLMStep

(* One completion goes a step further.                                      *)
LEMMA RunMoves ==
  ASSUME Typed, OneAlive, NEW r \in Runs, NEW x, runs' = [runs EXCEPT ![r] = x],
         x.turn = runs[r].turn, x.cancelled = runs[r].cancelled,
         runs[r].state \in {"snapshot", "request", "push"}, UNCHANGED <<cancel, turn>>
  PROVE  /\ OneAlive'
         /\ r # cancel \/ RunIsOver(r) => Live' = Live
         /\ ~RunIsOver(r) => Live = FramesOf(runs[r].todo) /\ Live' = FramesOf(x.todo)
         /\ x.todo = runs[r].todo => Live' = Live
  <1>1. \A q \in Runs : runs'[q] = IF q = r THEN x ELSE runs[q]
    BY DEF Typed, RunsTyped
  <1>2. \A q \in Runs : RunIsOver(q)' <=> RunIsOver(q)
    BY <1>1 DEF RunIsOver
  <1>3. OneAlive'
    <2>1. ASSUME NEW q \in Runs, runs'[q].state \in {"snapshot", "request", "push"},
                 ~RunIsOver(q)'
          PROVE  q = cancel'
      <3>1. runs[q].state \in {"snapshot", "request", "push"} /\ ~RunIsOver(q)
        BY <1>1, <1>2, <2>1
      <3>2. QED
        BY <3>1 DEF OneAlive
    <2>2. QED
      BY <2>1 DEF OneAlive
  <1>4. cancel # 0 => cancel \in Runs
    BY FlowTyped
  <1>5. r # cancel \/ RunIsOver(r) => Live' = Live
    BY <1>1, <1>2, <1>4 DEF Live
  <1>6. ASSUME ~RunIsOver(r)
        PROVE  Live = FramesOf(runs[r].todo) /\ Live' = FramesOf(x.todo)
    <2>1. r = cancel /\ cancel # 0
      BY <1>6 DEF OneAlive, Runs
    <2>2. QED
      BY <1>1, <1>2, <1>6, <2>1 DEF Live
  <1>7. x.todo = runs[r].todo => Live' = Live
    BY <1>5, <1>6
  <1>8. QED
    BY <1>3, <1>5, <1>6, <1>7

LEMMA CompletionFlow ==
  ASSUME Typed, InOrder, OneAlive, NEW r \in Runs, RunStep(r)
  PROVE  InOrder' /\ OneAlive'
  <1>1. /\ runs = [q \in Runs |-> runs[q]] /\ \A q \in Runs : runs[q] \in RunSet(q)
        /\ runs[r] \in RunSet(r) /\ r # 0
        /\ \A q \in Runs : runs[q].todo # <<>> => runs[q].state = "push"
    BY DEF Typed, RunsTyped, Runs
  <1>2. UNCHANGED <<todo, turn, partial, buffer>> /\ (~RunPush(r) => UNCHANGED inbox)
    BY DEF RunStep, RunBegin, RunSnapshot, RunRequest, RunPush, asstVars, ttsVars
  <1>3. PICK A, F, S, T : /\ A = inbox["asst"].down /\ F = FramesOf(todo["asst"])
                          /\ S = inbox["tts"].sys /\ T = inbox["tts"].down
    OBVIOUS
  <1>4. /\ A \in Streams /\ S \in Streams /\ T \in Streams /\ Live \in Streams
        /\ F \in Streams
    BY <1>3, FlowTyped
  <1>5. Flows(partial, buffer, F, A, Live, T, S)
    BY <1>3, Zenon DEF InOrder
  <1>6. CASE RunBegin(r)
    <2>1. /\ \A q \in Runs : runs'[q] = IF q = r THEN [runs[q] EXCEPT !.state = "snapshot"]
                                        ELSE IF q = cancel
                                             THEN [runs[q] EXCEPT !.cancelled = TRUE]
                                        ELSE runs[q]
          /\ cancel' = r /\ UNCHANGED <<inbox, todo>> /\ runs[r].state = "begin"
      BY <1>6 DEF RunBegin
    <2>2. Live' = <<>>
      <3>1. runs'[r].todo = <<>>
        BY <1>1, <2>1 DEF RunSet
      <3>2. FramesOf(runs'[r].todo) = <<>>
        BY <3>1 DEF FramesOf
      <3>3. QED
        BY <2>1, <3>2 DEF Live
    <2>3. InOrder'
      BY <1>2, <2>1, <2>2, FlowEnds
    <2>4. OneAlive'
      <3>1. ASSUME NEW q \in Runs, q # r, runs'[q].state \in {"snapshot", "request", "push"},
                   ~RunIsOver(q)'
            PROVE  FALSE
        <4>1. CASE q = cancel
          <5>1. runs'[q] = [runs[q] EXCEPT !.cancelled = TRUE]
            BY <2>1, <3>1, <4>1
          <5>2. runs'[q].cancelled
            BY <1>1, <5>1 DEF RunSet
          <5>3. QED
            BY <3>1, <5>2 DEF RunIsOver
        <4>2. CASE q # cancel
          <5>1. runs'[q] = runs[q]
            BY <2>1, <3>1, <4>2
          <5>2. runs[q].state \in {"snapshot", "request", "push"} /\ ~RunIsOver(q)
            BY <1>2, <3>1, <5>1 DEF RunIsOver
          <5>3. QED
            BY <4>2, <5>2 DEF OneAlive
        <4>3. QED
          BY <4>1, <4>2
      <3>2. QED
        BY <2>1, <3>1 DEF OneAlive
    <2>5. QED
      BY <2>3, <2>4
  <1>7. CASE RunSnapshot(r)
    <2> DEFINE k == Cardinality({i \in DOMAIN messages : messages[i].role = "user"})
               x == [runs[r] EXCEPT !.state = "request", !.known = k]
    <2>1. runs' = [runs EXCEPT ![r] = x] /\ UNCHANGED <<cancel, turn, inbox>>
          /\ runs[r].state = "snapshot"
      BY <1>7 DEF RunSnapshot
    <2> HIDE DEF k
    <2>2. x.turn = runs[r].turn /\ x.cancelled = runs[r].cancelled /\ x.todo = runs[r].todo
      BY <1>1 DEF RunSet
    <2> HIDE DEF x
    <2>3. OneAlive' /\ Live' = Live
      BY <2>1, <2>2, RunMoves
    <2>4. InOrder'
      BY <1>2, <2>1, <2>3, FlowEnds
    <2>5. QED
      BY <2>3, <2>4
  <1>8. CASE RunRequest(r)
    <2>1. PICK v \in Seq(RunOps(r)) : /\ runs' = [runs EXCEPT ![r].state = "push", ![r].todo = v]
                                      /\ Spoken(v, r)
      BY <1>8, AnswerIs DEF Typed
    <2> DEFINE x == [runs[r] EXCEPT !.state = "push", !.todo = v]
    <2>2. runs' = [runs EXCEPT ![r] = x] /\ UNCHANGED <<cancel, turn, inbox>>
          /\ runs[r].state = "request"
      BY <1>8, <2>1 DEF RunRequest
    <2>3. x.turn = runs[r].turn /\ x.cancelled = runs[r].cancelled /\ x.todo = v
      BY <1>1 DEF RunSet
    <2> HIDE DEF x
    <2>4. /\ OneAlive'
          /\ r # cancel \/ RunIsOver(r) => Live' = Live
          /\ ~RunIsOver(r) => Live = FramesOf(runs[r].todo) /\ Live' = FramesOf(v)
      <3>1. runs[r].state \in {"snapshot", "request", "push"}
        BY <2>2
      <3>2. /\ OneAlive'
            /\ r # cancel \/ RunIsOver(r) => Live' = Live
            /\ ~RunIsOver(r) => Live = FramesOf(runs[r].todo) /\ Live' = FramesOf(x.todo)
        BY <2>2, <2>3, <3>1, RunMoves
      <3>3. QED
        BY <2>3, <3>2
    <2>5. CASE RunIsOver(r)
      <3>1. InOrder'
        BY <1>2, <2>2, <2>4, <2>5, FlowEnds
      <3>2. QED
        BY <2>4, <3>1
    <2>6. CASE ~RunIsOver(r)
      <3>1. runs[r].todo = <<>>
        BY <1>1, <2>2
      <3>2. Live = <<>>
        <4>1. FramesOf(<<>>) = <<>>
          BY DEF FramesOf
        <4>2. QED
          BY <2>4, <2>6, <3>1, <4>1, Zenon
      <3>3. PICK L : L = FramesOf(v)
        OBVIOUS
      <3>4. L \in Streams /\ SaidFirst(L) = {} /\ Ordered(L)
        BY <2>1, <3>3, SpokenOrdered
      <3>5. Flows(partial, buffer, F, A, <<>>, T, S)
        BY <1>5, <3>2, Zenon
      <3>6. Flows(partial, buffer, F, A, L, T, S)
        BY <1>4, <3>4, <3>5, FlowsAnswered, Zenon
      <3>7. /\ partial' = partial /\ buffer' = buffer /\ FramesOf(todo'["asst"]) = F
            /\ inbox'["asst"].down = A /\ inbox'["tts"].down = T /\ inbox'["tts"].sys = S
            /\ Live' = L
        BY <1>2, <1>3, <2>2, <2>4, <2>6, <3>3
      <3>8. InOrder'
        BY <3>6, <3>7, Zenon DEF InOrder
      <3>9. QED
        BY <2>4, <3>8
    <2>7. QED
      BY <2>5, <2>6
  <1>9. CASE RunPush(r)
    <2>1. PICK p, v : p = Head(runs[r].todo) /\ v = Tail(runs[r].todo)
      OBVIOUS
    <2> DEFINE x == [runs[r] EXCEPT !.todo = v]
    <2>2. /\ runs[r].todo # <<>> /\ runs' = [runs EXCEPT ![r] = x] /\ UNCHANGED <<cancel, turn>>
          /\ \/ ~RunIsOver(r) /\ inbox' = [inbox EXCEPT ![p.to] = Enqueue(@, p.q)]
             \/ RunIsOver(r) /\ UNCHANGED inbox
      BY <1>9, <2>1 DEF RunPush
    <2>3. /\ p.to = "asst" /\ p.q \in ItemSet /\ p.q.kind # "Interruption"
          /\ runs[r].state = "push"
      BY <2>1, <2>2, RunNext DEF Typed
    <2>4. x.turn = runs[r].turn /\ x.cancelled = runs[r].cancelled /\ x.todo = v
      BY <1>1 DEF RunSet
    <2> HIDE DEF x
    <2>5. /\ OneAlive'
          /\ r # cancel \/ RunIsOver(r) => Live' = Live
          /\ ~RunIsOver(r) => Live = FramesOf(runs[r].todo) /\ Live' = FramesOf(v)
      <3>1. runs[r].state \in {"snapshot", "request", "push"}
        BY <2>3
      <3>2. /\ OneAlive'
            /\ r # cancel \/ RunIsOver(r) => Live' = Live
            /\ ~RunIsOver(r) => Live = FramesOf(runs[r].todo) /\ Live' = FramesOf(x.todo)
        BY <2>2, <2>4, <3>1, RunMoves
      <3>3. QED
        BY <2>4, <3>2
    <2>6. CASE RunIsOver(r)
      <3>1. UNCHANGED inbox
        BY <2>2, <2>6
      <3>2. InOrder'
        BY <1>2, <2>5, <2>6, <3>1, FlowEnds
      <3>3. QED
        BY <2>5, <3>2
    <2>7. CASE ~RunIsOver(r)
      <3>1. PICK M : M = FramesOf(v)
        OBVIOUS
      <3>2. M \in Streams /\ Live = <<p.q>> \o M /\ Live' = M
        <4>1. PICK ops : ops = runs[r].todo
          OBVIOUS
        <4>2. ops \in Seq(RunOps(r)) /\ ops # <<>> /\ p = Head(ops) /\ v = Tail(ops)
          BY <1>1, <2>1, <2>2, <4>1 DEF RunSet
        <4>3. \A q \in RunOps(r) : q.q \in ItemSet
          BY DEF RunOps, Pushes, ServiceItems
        <4>4. FramesOf(Tail(ops)) \in Streams
              /\ FramesOf(ops) = <<Head(ops).q>> \o FramesOf(Tail(ops))
          BY <4>2, <4>3, FramesAre
        <4>5. Live = FramesOf(ops) /\ Live' = FramesOf(v)
          BY <2>5, <2>7, <4>1
        <4>6. QED
          BY <3>1, <4>2, <4>4, <4>5, Zenon
      <3>3. "asst" \in Nodes /\ "tts" \in Nodes /\ p.q \in ItemsAt("asst")
        BY <2>3, Chain DEF ItemsAt
      <3>4. inbox' = [inbox EXCEPT !["asst"] = Enqueue(@, p.q)]
        BY <2>2, <2>3, <2>7
      <3>5. /\ inbox'["tts"] = inbox["tts"]
            /\ IsSystem(p.q.kind) => inbox'["asst"].down = A
            /\ ~IsSystem(p.q.kind) => inbox'["asst"].down = Append(A, p.q)
        <4>1. InboxTyped
          BY Zenon DEF Typed
        <4>2. PICK q : q = p.q
          OBVIOUS
        <4>3. /\ q \in ItemsAt("asst")
              /\ inbox' = [inbox EXCEPT !["asst"] = Enqueue(@, q)]
          BY <3>3, <3>4, <4>2, Zenon
        <4>4. /\ \A m \in Nodes \ {"asst"} : inbox'[m] = inbox[m]
              /\ IsSystem(q.kind) => inbox'["asst"].down = inbox["asst"].down
              /\ ~IsSystem(q.kind) => inbox'["asst"].down = Append(inbox["asst"].down, q)
          BY <3>3, <4>1, <4>3, PushKeepsInboxes
        <4>5. QED
          BY <1>3, <3>3, <4>2, <4>4
      <3>6. Flows(partial, buffer, F, inbox'["asst"].down, M, T, S)
        <4>1. CASE IsSystem(p.q.kind)
          <5>1. ~IsText(p.q) /\ ~IsStart(p.q)
            BY <2>3, <4>1, KindsAre DEF IsText, IsStart
          <5>2. Flows(partial, buffer, F, A, M, T, S)
            BY <1>4, <1>5, <2>3, <3>2, <5>1, FlowsWarned, Zenon
          <5>3. QED
            BY <3>5, <4>1, <5>2, Zenon
        <4>2. CASE ~IsSystem(p.q.kind)
          <5>1. Flows(partial, buffer, F, Append(A, p.q), M, T, S)
            BY <1>4, <1>5, <2>3, <3>2, FlowsGiven, Zenon
          <5>2. QED
            BY <3>5, <4>2, <5>1, Zenon
        <4>3. QED
          BY <4>1, <4>2
      <3>7. /\ partial' = partial /\ buffer' = buffer /\ FramesOf(todo'["asst"]) = F
            /\ inbox'["tts"].down = T /\ inbox'["tts"].sys = S
        BY <1>2, <1>3, <3>5
      <3>8. InOrder'
        BY <3>2, <3>6, <3>7, Zenon DEF InOrder
      <3>9. QED
        BY <2>5, <3>8
    <2>8. QED
      BY <2>6, <2>7
  <1>10. QED
    BY <1>6, <1>7, <1>8, <1>9 DEF RunStep

(* The nodes that take an item. *)
LEMMA AssistantFlow ==
  ASSUME Typed, InOrder, AssistantStep \/ NodeRelays("asst")
  PROVE  InOrder' /\ (OneAlive => OneAlive')
  <1>1. "asst" \in Nodes /\ Below["asst"] = "tts" /\ ("asst" = "out" => FALSE)
    BY Chain
  <1>2. PICK x : x = Taken("asst")
    OBVIOUS
  <1>3. UNCHANGED <<runs, cancel, buffer>>
    BY DEF AssistantStep, AssistantResets, AssistantCollects, AssistantCommits, NodeRelays,
           llmVars, ttsVars
  <1>4. CASE AssistantCollects
    <2> DEFINE y == [Taken("asst") EXCEPT !.kind = "Text"]
    <2>1. /\ Takes("asst", {"LLMText"}) /\ TakeAndEmit("asst", <<PushTo("tts", y)>>)
          /\ partial' = partial \o x.text
      BY <1>1, <1>2, <1>4 DEF AssistantCollects, Relay
    <2>2. x \in ItemSet /\ x.kind = "LLMText"
      BY <1>1, <1>2, <2>1, TakeKeepsInboxes
    <2>3. y \in ItemSet /\ y.kind = "Text" /\ y.text = x.text
      BY <1>2, <2>2 DEF ItemSet, IsText, Kinds, IsSystem, SystemKinds
    <2> HIDE DEF y
    <2>4. ~IsSystem(x.kind) /\ IsText(x) /\ IsText(y) /\ ~IsStart(x) /\ ~IsStart(y)
      BY <2>2, <2>3 DEF IsSystem, SystemKinds, IsText, IsStart
    <2>5. Collected(partial, x, partial')
      BY <2>1, <2>4 DEF Collected
    <2>6. QED
      BY <1>2, <1>3, <2>1, <2>3, <2>4, <2>5, AssistantTakes
  <1>5. ASSUME NEW kinds, Takes("asst", kinds), TakeAndRelay("asst"),
               Collected(partial, x, partial'),
               x.kind \in kinds /\ IsSystem(x.kind) =>
                 partial' = (IF x.kind = "Interruption" THEN <<>> ELSE partial)
        PROVE  InOrder' /\ (OneAlive => OneAlive')
    <2>1. TakeAndEmit("asst", <<PushTo("tts", x)>>)
      BY <1>1, <1>2, <1>5 DEF TakeAndRelay, Relay
    <2>2. x \in ItemSet /\ x.kind \in kinds
      BY <1>1, <1>2, <1>5, <2>1, TakeKeepsInboxes
    <2>3. QED
      BY <1>2, <1>3, <1>5, <2>1, <2>2, AssistantTakes
  <1>6. CASE AssistantResets
    <2>1. /\ Takes("asst", {"LLMFullResponseStart", "Interruption"}) /\ TakeAndRelay("asst")
          /\ partial' = <<>>
      BY <1>6 DEF AssistantResets
    <2>2. x.kind \in {"LLMFullResponseStart", "Interruption"} /\ IsSystem(x.kind)
            => x.kind = "Interruption"
      BY DEF IsSystem, SystemKinds
    <2>3. Collected(partial, x, partial')
      BY <2>1 DEF Collected
    <2>4. QED
      BY <1>5, <2>1, <2>2, <2>3
  <1>7. CASE AssistantCommits
    <2>1. /\ Takes("asst", {"LLMFullResponseEnd"}) /\ TakeAndRelay("asst") /\ partial' = <<>>
      BY <1>7 DEF AssistantCommits
    <2>2. ~(x.kind \in {"LLMFullResponseEnd"} /\ IsSystem(x.kind))
      BY DEF IsSystem, SystemKinds
    <2>3. Collected(partial, x, partial')
      BY <2>1 DEF Collected
    <2>4. QED
      BY <1>5, <2>1, <2>2, <2>3
  <1>8. CASE NodeRelays("asst")
    <2>1. /\ Takes("asst", Others["asst"]) /\ TakeAndRelay("asst") /\ partial' = partial
      BY <1>8 DEF NodeRelays, asstVars
    <2>2. x.kind \in Others["asst"] => x.kind # "Interruption" /\ x.kind # "LLMFullResponseStart"
      BY Chain
    <2>3. x.kind \in Others["asst"]
      BY <1>2, <2>1 DEF Takes, Taken
    <2>4. Collected(partial, x, partial')
      BY <2>1, <2>2, <2>3 DEF Collected, IsStart
    <2>5. QED
      BY <1>5, <2>1, <2>2, <2>4
  <1>9. QED
    BY <1>4, <1>6, <1>7, <1>8 DEF AssistantStep

LEMMA TTSFlow ==
  ASSUME Typed, InOrder, TTSStep \/ NodeRelays("tts")
  PROVE  InOrder' /\ (OneAlive => OneAlive')
  <1>1. PICK x : x = Taken("tts")
    OBVIOUS
  <1>2. UNCHANGED <<runs, cancel, partial>>
    BY DEF TTSStep, TTSResets, TTSCollects, TTSStartsSynthesis, NodeRelays, llmVars, asstVars
  <1>3. ASSUME NEW kinds, NEW ops, Takes("tts", kinds), TakeAndEmit("tts", ops),
               Collected(buffer, x, buffer'),
               x.kind \in kinds /\ IsSystem(x.kind) =>
                 buffer' = (IF x.kind = "Interruption" THEN <<>> ELSE buffer)
        PROVE  InOrder' /\ (OneAlive => OneAlive')
    <2>1. x.kind \in kinds
      BY <1>1, <1>3 DEF Takes, Taken
    <2>2. QED
      BY <1>1, <1>2, <1>3, <2>1, TTSTakes
  <1>4. CASE TTSResets
    <2>1. /\ Takes("tts", {"LLMFullResponseStart", "Interruption"})
          /\ TakeAndEmit("tts", Relay("tts", Taken("tts"))) /\ buffer' = <<>>
      BY <1>4 DEF TTSResets, TakeAndRelay
    <2>2. x.kind \in {"LLMFullResponseStart", "Interruption"} /\ IsSystem(x.kind)
            => x.kind = "Interruption"
      BY DEF IsSystem, SystemKinds
    <2>3. Collected(buffer, x, buffer')
      BY <2>1 DEF Collected
    <2>4. QED
      BY <1>3, <2>1, <2>2, <2>3
  <1>5. CASE TTSCollects
    <2>1. /\ Takes("tts", {"LLMText", "Text"})
          /\ TakeAndEmit("tts", Relay("tts", Taken("tts"))) /\ buffer' = buffer \o x.text
      BY <1>1, <1>5 DEF TTSCollects, TakeAndRelay
    <2>2. x.kind \in {"LLMText", "Text"}
      BY <1>1, <2>1 DEF Takes, Taken
    <2>3. ~IsSystem(x.kind) /\ IsText(x)
      BY <2>2 DEF IsSystem, SystemKinds, IsText
    <2>4. Collected(buffer, x, buffer')
      BY <2>1, <2>3 DEF Collected
    <2>5. QED
      BY <1>3, <2>1, <2>3, <2>4
  <1>6. CASE TTSStartsSynthesis
    <2>1. Takes("tts", {"LLMFullResponseEnd"}) /\ TakeAndEmit("tts", <<>>) /\ buffer' = <<>>
      BY <1>6 DEF TTSStartsSynthesis
    <2>2. ~(x.kind \in {"LLMFullResponseEnd"} /\ IsSystem(x.kind))
      BY DEF IsSystem, SystemKinds
    <2>3. Collected(buffer, x, buffer')
      BY <2>1 DEF Collected
    <2>4. QED
      BY <1>3, <2>1, <2>2, <2>3
  <1>7. CASE NodeRelays("tts")
    <2>1. /\ Takes("tts", Others["tts"])
          /\ TakeAndEmit("tts", Relay("tts", Taken("tts"))) /\ buffer' = buffer
      BY <1>7 DEF NodeRelays, TakeAndRelay, ttsVars
    <2>2. x.kind \in Others["tts"] => x.kind # "Interruption" /\ x.kind # "LLMFullResponseStart"
      BY Chain
    <2>3. x.kind \in Others["tts"]
      BY <1>1, <2>1 DEF Takes, Taken
    <2>4. Collected(buffer, x, buffer')
      BY <2>1, <2>2, <2>3 DEF Collected, IsStart
    <2>5. QED
      BY <1>3, <2>1, <2>2, <2>4
  <1>8. QED
    BY <1>4, <1>5, <1>6, <1>7 DEF TTSStep

(* The first and the last in the chain, the user aggregator and the         *)
(* syntheses have nothing to do with the flow.                              *)
LEMMA OtherFlow ==
  ASSUME Typed, InOrder,
         \/ Transcription \/ InterimTranscription \/ AppendUser
         \/ NodeRelays("llm") \/ NodeRelays("out") \/ OutputSends
         \/ \E s \in DOMAIN synths : SynthStep(s)
  PROVE  InOrder' /\ (OneAlive => OneAlive')
  <1>1. /\ {"llm", "asst", "tts", "out"} = Nodes
        /\ todo = [m \in Nodes \cup {"agg"} |-> todo[m]]
    BY Chain DEF Typed, TodoTyped
  <1>2. UNCHANGED <<runs, cancel, partial, buffer>>
    BY DEF Transcription, InterimTranscription, AppendUser, NodeRelays, OutputSends, SynthStep,
           SynthRequest, SynthFlag, SynthPush, llmVars, asstVars, ttsVars
  <1>3. CASE Transcription \/ InterimTranscription \/ AppendUser
    <2>1. /\ UNCHANGED <<inbox, turn>>
          /\ \E ops : todo' = [todo EXCEPT !["agg"] = ops]
      BY <1>3 DEF Transcription, InterimTranscription, AppendUser
    <2>2. todo'["asst"] = todo["asst"]
      BY <1>1, <2>1
    <2>3. QED
      BY <1>2, <2>1, <2>2, LiveStays, FlowStays
  <1>4. ASSUME NEW n \in {"llm", "out"}, NEW kinds, Takes(n, kinds), TakeAndRelay(n),
               n = "llm" => "Interruption" \notin kinds
        PROVE  InOrder' /\ (OneAlive => OneAlive')
    <2>1. TakeAndEmit(n, Relay(n, Taken(n))) /\ n \in Nodes
      BY <1>1, <1>4 DEF TakeAndRelay
    <2>2. /\ \A m \in Nodes \ {n} : inbox'[m] = inbox[m] /\ turn'[m] = turn[m]
          /\ turn'[n] = IF Taken(n).kind = "Interruption" THEN turn[n] + 1 ELSE turn[n]
          /\ todo' = [todo EXCEPT ![n] = Relay(n, Taken(n))] /\ Taken(n).kind \in kinds
      BY <1>4, <2>1, TakeKeepsInboxes
    <2>3. turn'["llm"] = turn["llm"]
      BY <1>1, <1>4, <2>2
    <2>4. /\ inbox'["asst"] = inbox["asst"] /\ inbox'["tts"] = inbox["tts"]
          /\ todo'["asst"] = todo["asst"]
      BY <1>1, <1>4, <2>2
    <2>5. QED
      BY <1>2, <2>3, <2>4, LiveStays, FlowStays
  <1>5. CASE NodeRelays("llm")
    <2>1. Takes("llm", Others["llm"]) /\ TakeAndRelay("llm") /\ "Interruption" \notin Others["llm"]
      BY <1>5, Chain DEF NodeRelays
    <2>2. QED
      BY <1>4, <2>1
  <1>6. CASE NodeRelays("out")
    <2>1. Takes("out", Others["out"]) /\ TakeAndRelay("out") /\ ("out" = "llm" => FALSE)
      BY <1>6 DEF NodeRelays
    <2>2. QED
      BY <1>4, <2>1
  <1>7. CASE OutputSends
    <2>1. Takes("out", {"TTSAudio"}) /\ TakeAndRelay("out") /\ ("out" = "llm" => FALSE)
      BY <1>7 DEF OutputSends
    <2>2. QED
      BY <1>4, <2>1
  <1>8. ASSUME NEW s \in DOMAIN synths, SynthStep(s)
        PROVE  InOrder' /\ (OneAlive => OneAlive')
    <2>1. UNCHANGED <<todo, turn>>
      BY <1>8 DEF SynthStep, SynthRequest, SynthFlag, SynthPush
    <2>2. UNCHANGED inbox \/ \E q : inbox' = [inbox EXCEPT !["out"] = Enqueue(@, q)]
      <3>1. CASE SynthPush(s) /\ ~UNCHANGED inbox
        <4>1. PICK p : p = Head(synths[s].todo)
          OBVIOUS
        <4>2. /\ synths[s].todo # <<>> /\ p.op = "push"
              /\ inbox' = [inbox EXCEPT ![p.to] = Enqueue(@, p.q)]
          BY <3>1, <4>1 DEF SynthPush, SynthAt
        <4>3. p.to = "out"
          BY <4>1, <4>2, SynthNext DEF Typed
        <4>4. QED
          BY <4>2, <4>3
      <3>2. QED
        BY <1>8, <3>1 DEF SynthStep, SynthRequest, SynthFlag
    <2>3. inbox'["asst"] = inbox["asst"] /\ inbox'["tts"] = inbox["tts"]
      BY <1>1, <2>2 DEF Typed, InboxTyped
    <2>4. QED
      BY <1>2, <2>1, <2>3, LiveStays, FlowStays
  <1>9. QED
    BY <1>3, <1>5, <1>6, <1>7, <1>8

LEMMA NextFlow ==
  ASSUME Typed, Typed', Turns, InOrder, OneAlive, [Next]_vars
  PROVE  InOrder' /\ OneAlive'
  <1>1. CASE UNCHANGED vars
    <2>1. UNCHANGED <<runs, cancel, turn, todo, inbox, partial, buffer>>
      BY <1>1 DEF vars
    <2>2. QED
      BY <2>1, LiveStays, FlowStays
  <1>2. CASE LLMStep
    BY <1>2, LLMFlow
  <1>3. CASE AssistantStep \/ NodeRelays("asst")
    BY <1>3, AssistantFlow
  <1>4. CASE TTSStep \/ NodeRelays("tts")
    BY <1>4, TTSFlow
  <1>5. CASE \/ Transcription \/ InterimTranscription \/ AppendUser
             \/ NodeRelays("llm") \/ NodeRelays("out") \/ OutputSends
             \/ \E s \in DOMAIN synths : SynthStep(s)
    BY <1>5, OtherFlow
  <1>6. CASE \E n \in Nodes \cup {"agg"} : NodePush(n)
    BY <1>6, NodePushFlow
  <1>7. CASE \E r \in Runs : RunStep(r)
    BY <1>7, CompletionFlow
  <1>8. QED
    BY <1>1, <1>2, <1>3, <1>4, <1>5, <1>6, <1>7 DEF Next, Work, Nodes

LEMMA InitFlow == Init => InOrder /\ OneAlive
  <1> SUFFICES ASSUME Init PROVE InOrder /\ OneAlive
    OBVIOUS
  <1>1. /\ todo["asst"] = <<>> /\ cancel = 0 /\ partial = <<>> /\ buffer = <<>>
        /\ \A n \in {"asst", "tts"} : inbox[n].down = <<>> /\ inbox[n].sys = <<>>
        /\ \A r \in Runs : runs[r].state = "none"
    BY DEF Init, Nodes, EmptyInbox, NoRun
  <1>2. FramesOf(todo["asst"]) = <<>> /\ Live = <<>>
    BY <1>1 DEF FramesOf, Live
  <1>3. <<>> \o <<>> = <<>>
    BY Alone, Grouped
  <1>4. OfOneRun(<<>>) /\ Orderly(<<>>, <<>>)
    BY Alone, ItemsMade DEF Orderly, Before
  <1>5. Flows(<<>>, <<>>, <<>>, <<>>, <<>>, <<>>, <<>>)
    BY <1>3, <1>4, Zenon DEF Flows
  <1>6. InOrder
    BY <1>1, <1>2, <1>5 DEF InOrder
  <1>7. OneAlive
    BY <1>1 DEF OneAlive
  <1>8. QED
    BY <1>6, <1>7

-----------------------------------------------------------------------------
(* The inductive invariant. *)
FlagsTyped == speaking \in BOOLEAN /\ canceling \in BOOLEAN

ConversationInv == Typed /\ FlagsTyped /\ Turns /\ InOrder /\ OneAlive /\ Synthesizing

LEMMA NextFlags ==
  ASSUME FlagsTyped, [Next]_vars
  PROVE  FlagsTyped'
  <1> DEFINE Same == UNCHANGED <<speaking, canceling>>
  <1>1. CASE UNCHANGED vars \/ Transcription \/ InterimTranscription \/ AppendUser
    <2>1. Same
      BY <1>1 DEF vars, Transcription, InterimTranscription, AppendUser, ttsVars
    <2>2. QED
      BY <2>1 DEF FlagsTyped
  <1>2. CASE LLMStep \/ AssistantStep \/ OutputSends
    <2>1. Same
      BY <1>2 DEF LLMStep, LLMInterrupted, LLMStartsRun, AssistantStep, AssistantResets,
                  AssistantCollects, AssistantCommits, OutputSends, ttsVars
    <2>2. QED
      BY <2>1 DEF FlagsTyped
  <1>3. CASE TTSStep
    <2>1. speaking' = speaking
      BY <1>3 DEF TTSStep, TTSResets, TTSCollects, TTSStartsSynthesis
    <2>2. canceling' = (Taken("tts").kind = "Interruption") \/ canceling' = canceling
      BY <1>3, Zenon DEF TTSStep, TTSResets, TTSCollects, TTSStartsSynthesis
    <2>3. (Taken("tts").kind = "Interruption") \in BOOLEAN
      BY Zenon
    <2>4. canceling' \in BOOLEAN
      BY <2>2, <2>3, Zenon DEF FlagsTyped
    <2>5. QED
      BY <2>1, <2>4, Zenon DEF FlagsTyped
  <1>4. CASE \/ \E n \in Nodes : NodeRelays(n)
             \/ \E n \in Nodes \cup {"agg"} : NodePush(n)
             \/ \E r \in Runs : RunStep(r)
    <2>1. Same
      BY <1>4 DEF NodeRelays, NodePush, RunStep, RunBegin, RunSnapshot, RunRequest, RunPush,
                  ttsVars
    <2>2. QED
      BY <2>1 DEF FlagsTyped
  <1>5. CASE \E s \in DOMAIN synths : SynthStep(s)
    <2>1. canceling' = canceling
      BY <1>5 DEF SynthStep, SynthRequest, SynthFlag, SynthPush
    <2>2. speaking' = TRUE \/ speaking' = FALSE \/ speaking' = speaking
      BY <1>5, Zenon DEF SynthStep, SynthRequest, SynthFlag, SynthPush
    <2>3. QED
      BY <2>1, <2>2, Zenon DEF FlagsTyped
  <1>6. QED
    BY <1>1, <1>2, <1>3, <1>4, <1>5, Zenon DEF Next, Work

LEMMA InitConversation == Init => ConversationInv
  <1> SUFFICES ASSUME Init PROVE ConversationInv
    OBVIOUS
  <1>1. synths = <<>> /\ speaking = FALSE /\ canceling = FALSE
    BY Zenon DEF Init
  <1>2. FlagsTyped
    BY <1>1, Zenon DEF FlagsTyped
  <1>3. DOMAIN synths = {} /\ ~speaking
    BY <1>1
  <1>4. Synthesizing
    BY <1>3 DEF Synthesizing
  <1>5. QED
    BY <1>2, <1>4, InitTyped, InitTurns, InitFlow, Zenon DEF ConversationInv

LEMMA NextConversation == ConversationInv /\ [Next]_vars => ConversationInv'
  <1> SUFFICES ASSUME ConversationInv, [Next]_vars PROVE ConversationInv'
    OBVIOUS
  <1>1. Typed /\ FlagsTyped /\ Turns /\ InOrder /\ OneAlive /\ Synthesizing
    BY Zenon DEF ConversationInv
  <1>2. OfOneRun(partial) /\ OfOneRun(buffer)
    BY <1>1, Zenon DEF InOrder, Flows, Orderly
  <1>3. Typed'
    BY <1>1, <1>2, NextTyped
  <1>4. Turns'
    BY <1>1, <1>2, <1>3, NextTurns
  <1>5. InOrder' /\ OneAlive'
    BY <1>1, <1>3, NextFlow
  <1>6. Synthesizing'
    BY <1>1, <1>2, NextSynthesizing
  <1>7. FlagsTyped'
    BY <1>1, NextFlags
  <1>8. QED
    BY <1>3, <1>4, <1>5, <1>6, <1>7, Zenon DEF ConversationInv

LEMMA ConversationHolds == Spec => []ConversationInv
  BY InitConversation, NextConversation, PTL DEF Spec

(* Every frame, text and completion is of its type, and a completion that   *)
(* has begun and that neither its turn nor LLM.cancel has ended is the one  *)
(* whose context LLM.cancel ends (runCompletion of services/openai/llm.go   *)
(* and its counterparts).                                                   *)
THEOREM EveryRunCanBeCancelled == Spec => []TypeOK
  <1>1. ASSUME ConversationInv
        PROVE  TypeOK
    <2>1. Typed /\ FlagsTyped /\ OneAlive
      BY <1>1, Zenon DEF ConversationInv
    <2>2. ASSUME NEW n \in Nodes, NEW q \in LaneItems(n)
          PROVE  q.kind \in FrameKinds /\ q.run \in 0..Transcripts /\ q.text \in Texts
      <3>1. q \in ItemSet
        BY <2>1, <2>2, LanesAre DEF LaneItems
      <3>2. q.kind \in FrameKinds
        BY <3>1, KindsAre
      <3>3. QED
        BY <3>1, <3>2 DEF ItemSet
    <2>3. \A i \in DOMAIN messages : messages[i].text \in Texts
      <3> DEFINE M == [role : {"user", "assistant"}, run : 0..Transcripts, text : Texts]
      <3>1. messages \in Seq(M)
        BY <2>1 DEF Typed, TalkTyped
      <3>2. \A i \in DOMAIN messages : messages[i] \in M
        BY <3>1, ElementOfSeq, LenProperties
      <3>3. QED
        BY <3>2
    <2>4. \A r \in Runs : runs[r].state \in {"none", "begin", "snapshot", "request", "push"}
      BY <2>1 DEF Typed, RunsTyped, RunSet
    <2>5. /\ said \in 0..Transcripts /\ interims \in 0..Interims
          /\ partial \in Texts /\ buffer \in Texts /\ cancel \in 0..Transcripts
      BY <2>1 DEF Typed, TalkTyped, RunsTyped
    <2>6. speaking \in BOOLEAN /\ canceling \in BOOLEAN
      BY <2>1, Zenon DEF FlagsTyped
    <2>7. QED
      BY <2>1, <2>2, <2>3, <2>4, <2>5, <2>6, Zenon DEF TypeOK, OneAlive
  <1>2. QED
    BY <1>1, ConversationHolds, PTL

(* After a barge-in nothing interruptible of a turn that is over reaches a  *)
(* node that has handled the Interruption, whatever the completions and the *)
(* syntheses of that turn still push (the turn contexts of                  *)
(* pipeline/runtime.go and DrainInterruptible of pipeline/priority_inbox.go). *)
THEOREM OldTurnIsSilent == Spec => []OldTurnSilent
  <1>1. ConversationInv => OldTurnSilent
    BY TurnsSilence, Zenon DEF ConversationInv
  <1>2. QED
    BY <1>1, ConversationHolds, PTL

(* Every answer that is committed to the context or sent as audio is the    *)
(* text of one completion and in order, although completions replace each   *)
(* other at any moment and what they have pushed stays in the inboxes       *)
(* (aggregate/assistant.go, services/elevenlabs/tts.go).                    *)
THEOREM AnswersAreNotMixed == Spec => []OneRunPerAnswer
  <1>1. ConversationInv => OneRunPerAnswer
    BY Zenon DEF ConversationInv, Typed, TalkTyped, OneRunPerAnswer
  <1>2. QED
    BY <1>1, ConversationHolds, PTL

(* The BotState is not left set: once no synthesis is going on, the bot is  *)
(* not taken to be speaking, however requests fail and turns end meanwhile  *)
(* (speak of services/elevenlabs/tts.go and its counterparts).              *)
THEOREM BotFallsSilent == Spec => []QuietWhenIdle
  <1>1. ConversationInv => QuietWhenIdle
    BY SynthesizingQuiet, Zenon DEF ConversationInv
  <1>2. QED
    BY <1>1, ConversationHolds, PTL
=============================================================================

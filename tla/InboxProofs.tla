---------------------------- MODULE InboxProofs ----------------------------
(***************************************************************************)
(* What Inbox promises for any number of pushers, any capacities and any   *)
(* number of pushes.  The invariants are inductive one on top of the       *)
(* other: TypeOK by itself, AudioAccounted and DownBounded with TypeOK;    *)
(* then Lanewise, which LaneOrder and NothingStale need, and NothingLost   *)
(* on top of all of them.                                                  *)
(***************************************************************************)
EXTENDS Inbox, InboxOpsProofs

(* A frame on offer becomes an item, whatever id it gets. *)
LEMMA ItemsAreTyped ==
  /\ \A o \in Offers, n \in Nat : Item(o, n) \in ItemSet
  /\ \A q \in ItemSet, n \in Nat : [q EXCEPT !.id = n] \in ItemSet
  <1>1. ASSUME NEW o \in Offers, NEW n \in Nat
        PROVE  Item(o, n) \in ItemSet
    <2>1. o \in [kind : FrameKinds \cup {"none"}, dir : {"up", "down"},
                 ctrl : {"none", "barrier"}]
      BY OffersAssumption
    <2>2. OfferOf(Item(o, n)) = o
      BY <2>1 DEF OfferOf, Item
    <2>3. QED
      BY <2>1, <2>2 DEF Item, ItemSet
  <1>2. ASSUME NEW q \in ItemSet, NEW n \in Nat
        PROVE  [q EXCEPT !.id = n] \in ItemSet
    BY DEF ItemSet, OfferOf
  <1>3. QED
    BY <1>1, <1>2

LEMMA InitTyped == Init => TypeOK
  <1> SUFFICES ASSUME Init PROVE TypeOK
    OBVIOUS
  <1>1. <<>> \in Seq(ItemSet)
    BY EmptySeq
  <1>2. EmptyInbox \in InboxSet(ItemSet)
    BY <1>1 DEF EmptyInbox, InboxSet
  <1>3. QED
    BY <1>1, <1>2 DEF Init, TypeOK, InboxSet

LEMMA NextTyped == TypeOK /\ [Next]_vars => TypeOK'
  <1> SUFFICES ASSUME TypeOK, [Next]_vars PROVE TypeOK'
    OBVIOUS
  <1>0. /\ inbox \in InboxSet(ItemSet)
        /\ accepted \in Seq(ItemSet) /\ Len(accepted) \in Nat
        /\ Len(accepted) + 1 \in Nat
    BY LenProperties DEF TypeOK, InboxSet
  <1>1. ASSUME NEW p \in Pushers, PushBegin(p)
        PROVE  TypeOK'
    <2>1. pend' \in [Pushers -> ItemSet \cup {NoItem}]
      <3>1. \A o \in Offers : Item(o, 0) \in ItemSet
        BY ItemsAreTyped
      <3>2. QED
        BY <1>1, <3>1 DEF PushBegin, TypeOK
    <2>2. QED
      BY <1>1, <2>1 DEF PushBegin, TypeOK
  <1>2. ASSUME NEW p \in Pushers, PushAccept(p)
        PROVE  TypeOK'
    <2> DEFINE q == [pend[p] EXCEPT !.id = Len(accepted) + 1]
    <2>1. q \in ItemSet
      <3>1. pend[p] \in ItemSet
        BY <1>2 DEF PushAccept, TypeOK
      <3>2. QED
        BY <1>0, <3>1, ItemsAreTyped
    <2>2. inbox' = Enqueue(inbox, q) /\ accepted' = Append(accepted, q)
      BY <1>2 DEF PushAccept
    <2> HIDE DEF q
    <2>3. inbox' \in InboxSet(ItemSet)
      BY <1>0, <2>1, <2>2, EnqueueType
    <2>4. accepted' \in Seq(ItemSet)
      BY <1>0, <2>1, <2>2, AppendProperties
    <2>5. pend' \in [Pushers -> ItemSet \cup {NoItem}]
      BY <1>2 DEF PushAccept, TypeOK
    <2>6. QED
      BY <1>2, <2>3, <2>4, <2>5 DEF PushAccept, TypeOK, InboxSet
  <1>3. ASSUME NEW p \in Pushers, PushRefuse(p)
        PROVE  TypeOK'
    BY <1>3 DEF PushRefuse, TypeOK
  <1>4. ASSUME NEW p \in Pushers, CancelPush(p)
        PROVE  TypeOK'
    BY <1>4 DEF CancelPush, TypeOK
  <1>5. CASE Pop
    <2>1. Front(inbox) \in ItemSet /\ PopFront(inbox) \in InboxSet(ItemSet)
      BY <1>0, <1>5, PopFrontType DEF Pop
    <2>2. Front(inbox).id \in Nat
      BY <2>1 DEF ItemSet
    <2>3. QED
      BY <1>5, <2>1, <2>2 DEF Pop, TypeOK, InboxSet
  <1>6. CASE PopStop
    BY <1>0, <1>6 DEF PopStop, TypeOK
  <1>7. CASE Handle
    <2>1. inbox' \in InboxSet(ItemSet)
      BY <1>0, <1>7, DrainType DEF Handle
    <2>2. drainedAt' \in Nat
      BY <1>0, <1>7 DEF Handle, TypeOK
    <2>3. QED
      BY <1>7, <2>1, <2>2 DEF Handle, TypeOK, InboxSet
  <1>8. CASE Close
    <2>1. Closed(inbox) \in InboxSet(ItemSet)
      BY <1>0 DEF Closed, InboxSet
    <2>2. QED
      BY <1>8, <2>1 DEF Close, TypeOK, InboxSet
  <1>9. CASE CancelPop
    BY <1>9 DEF CancelPop, TypeOK
  <1>10. CASE UNCHANGED vars
    BY <1>10 DEF vars, TypeOK
  <1>11. QED
    BY <1>1, <1>2, <1>3, <1>4, <1>5, <1>6, <1>7, <1>8, <1>9, <1>10 DEF Next

(* Type correctness: in every reachable state the lanes hold accepted items *)
(* and every variable is in its set, for any Pushers and capacities.        *)
THEOREM TypeCorrect == Spec => []TypeOK
  BY InitTyped, NextTyped, PTL DEF Spec

-----------------------------------------------------------------------------
LEMMA InitBounded == Init => DownBounded
  <1>1. Len(<<>>) = 0 /\ DataMax \in Nat \ {0}
    BY BoundsAssumption
  <1>2. QED
    BY <1>1 DEF Init, EmptyInbox, DownBounded

(* Only a push makes the down lane longer or moves its high-water mark, and *)
(* a push into a full down lane waits.                                      *)
LEMMA NextBounded == TypeOK /\ DownBounded /\ [Next]_vars => DownBounded'
  <1> SUFFICES ASSUME TypeOK, DownBounded, [Next]_vars PROVE DownBounded'
    OBVIOUS
  <1>0. /\ inbox \in InboxSet(ItemSet) /\ inbox.down \in Seq(ItemSet)
        /\ Len(inbox.down) \in Nat /\ inbox.hiWater \in Nat
        /\ DataMax \in Nat \ {0}
    BY LenProperties, BoundsAssumption DEF TypeOK, InboxSet
  <1>1. ASSUME NEW p \in Pushers, PushAccept(p)
        PROVE  DownBounded'
    <2> DEFINE q == [pend[p] EXCEPT !.id = Len(accepted) + 1]
    <2>1. inbox' = Enqueue(inbox, q) /\ ~Blocks(inbox, pend[p])
      BY <1>1 DEF PushAccept
    <2>2. pend[p] \in ItemSet
      BY <1>1 DEF PushAccept, TypeOK
    <2>3. Lane(q) = Lane(pend[p])
      BY <2>2 DEF Lane, ItemSet
    <2>4. q \in ItemSet
      <3>1. Len(accepted) + 1 \in Nat
        BY LenProperties DEF TypeOK
      <3>2. QED
        BY <2>2, <3>1, ItemsAreTyped
    <2> HIDE DEF q
    <2>5. CASE Lane(q) = "sys" /\ IsAudio(q)
      <3>1. Shed(inbox) \in InboxSet(ItemSet)
        BY <1>0, ShedType
      <3>2. inbox'.down = Shed(inbox).down /\ inbox'.hiWater = Shed(inbox).hiWater
        BY <2>1, <2>5, <3>1 DEF Enqueue, InboxSet
      <3>3. QED
        BY <1>0, <3>2, ShedType DEF DownBounded
    <2>6. CASE Lane(q) = "sys" /\ ~IsAudio(q)
      BY <1>0, <2>1, <2>6 DEF Enqueue, DownBounded, InboxSet
    <2>7. CASE Lane(q) = "up"
      BY <1>0, <2>1, <2>7 DEF Enqueue, DownBounded, InboxSet
    <2>8. CASE Lane(q) = "down"
      <3>1. Len(inbox.down) < DataMax
        BY <1>0, <2>1, <2>3, <2>8 DEF Blocks
      <3>2. Len(Append(inbox.down, q)) = Len(inbox.down) + 1
        BY <1>0, <2>4, AppendProperties
      <3>3. /\ inbox'.down = Append(inbox.down, q)
            /\ inbox'.hiWater \in {inbox.hiWater, Len(inbox.down) + 1}
        BY <1>0, <2>1, <2>8 DEF Enqueue, InboxSet
      <3>4. QED
        BY <1>0, <3>1, <3>2, <3>3 DEF DownBounded
    <2>9. QED
      BY <2>5, <2>6, <2>7, <2>8, LaneNamesThree
  <1>2. CASE Pop
    <2>1. CASE NextLane(inbox) = "down"
      <3>1. inbox.down # <<>>
        BY <1>2, <2>1 DEF Pop, IsEmpty, NextLane
      <3>2. Len(Tail(inbox.down)) = Len(inbox.down) - 1
        BY <1>0, <3>1, HeadTailProperties
      <3>3. inbox'.down = Tail(inbox.down) /\ inbox'.hiWater = inbox.hiWater
        BY <1>0, <1>2, <2>1 DEF Pop, PopFront, InboxSet
      <3>4. QED
        BY <1>0, <3>2, <3>3 DEF DownBounded
    <2>2. CASE NextLane(inbox) \in {"sys", "up"}
      BY <1>0, <1>2, <2>2 DEF Pop, PopFront, DownBounded, InboxSet
    <2>3. QED
      BY <2>1, <2>2 DEF NextLane
  <1>3. CASE Handle
    <2>1. Len(DrainInterruptible(inbox).down) <= Len(inbox.down)
      BY <1>0, DrainType
    <2>2. DrainInterruptible(inbox).hiWater = inbox.hiWater
      BY <1>0 DEF DrainInterruptible, InboxSet
    <2>3. DrainInterruptible(inbox) \in InboxSet(ItemSet)
      BY <1>0, DrainType
    <2>4. Len(DrainInterruptible(inbox).down) \in Nat
      BY <2>3, LenProperties DEF InboxSet
    <2>5. QED
      BY <1>0, <1>3, <2>1, <2>2, <2>4 DEF Handle, DownBounded
  <1>4. CASE Close
    BY <1>0, <1>4 DEF Close, Closed, DownBounded, InboxSet
  <1>5. CASE UNCHANGED inbox
    BY <1>5 DEF DownBounded
  <1>6. QED
    BY <1>1, <1>2, <1>3, <1>4, <1>5
    DEF Next, vars, PushBegin, PushRefuse, CancelPush, PopStop, CancelPop

(* Backpressure: no schedule of pushers, drains and wakeups puts more than  *)
(* DataQueueSize frames in the downstream lane or in the statistics.        *)
THEOREM Backpressure == Spec => []DownBounded
  <1>1. TypeOK /\ DownBounded /\ [Next]_vars => DownBounded'
    BY NextBounded
  <1>2. QED
    BY <1>1, InitBounded, TypeCorrect, PTL DEF Spec

-----------------------------------------------------------------------------
LEMMA InitAccounted == Init => AudioAccounted
  <1>1. AudioAt(<<>>) = {} /\ Cardinality({}) = 0 /\ 0 <= AudioMax
    BY FS_EmptySet, BoundsAssumption DEF AudioAt
  <1>2. Init => inbox.sys = <<>> /\ inbox.audioN = 0
    BY DEF Init, EmptyInbox
  <1>3. QED
    BY <1>1, <1>2 DEF AudioAccounted

(* A push of an audio frame sheds one frame exactly when the counter is at  *)
(* AudioMax, and a pop takes one off it exactly when it takes audio.        *)
LEMMA NextAccounted == TypeOK /\ AudioAccounted /\ [Next]_vars => AudioAccounted'
  <1> SUFFICES ASSUME TypeOK, AudioAccounted, [Next]_vars PROVE AudioAccounted'
    OBVIOUS
  <1>0. /\ inbox \in InboxSet(ItemSet) /\ inbox.sys \in Seq(ItemSet)
        /\ inbox.audioN \in Nat /\ AudioMax \in Nat \ {0}
    BY BoundsAssumption DEF TypeOK, InboxSet
  <1>1. ASSUME NEW p \in Pushers, PushAccept(p)
        PROVE  AudioAccounted'
    <2> DEFINE q == [pend[p] EXCEPT !.id = Len(accepted) + 1]
    <2>1. inbox' = Enqueue(inbox, q)
      BY <1>1 DEF PushAccept
    <2>2. q \in ItemSet
      <3>1. pend[p] \in ItemSet
        BY <1>1 DEF PushAccept, TypeOK
      <3>2. Len(accepted) + 1 \in Nat
        BY LenProperties DEF TypeOK
      <3>3. QED
        BY <3>1, <3>2, ItemsAreTyped
    <2> HIDE DEF q
    <2>3. CASE Lane(q) = "sys" /\ IsAudio(q)
      <3> DEFINE s == Shed(inbox).sys
                 n == Cardinality(ShedAt(inbox))
      <3>1. /\ Shed(inbox) \in InboxSet(ItemSet)
            /\ s = KeepAt(inbox.sys, DOMAIN inbox.sys \ ShedAt(inbox))
            /\ Shed(inbox).audioN = inbox.audioN - n
        BY <1>0, ShedType
      <3>2. /\ ShedAt(inbox) \in SUBSET AudioAt(inbox.sys) /\ n \in Nat
            /\ inbox.audioN < AudioMax => n = 0
            /\ inbox.audioN = AudioMax => n = 1
        BY <1>0, ShedCount DEF AudioAccounted
      <3>3. Cardinality(AudioAt(s)) = inbox.audioN - n
        BY <1>0, <3>1, <3>2, AudioAfterShed DEF AudioAccounted
      <3>4. s \in Seq(ItemSet)
        BY <3>1 DEF InboxSet
      <3>5. /\ inbox'.sys = Append(s, q)
            /\ inbox'.audioN = Shed(inbox).audioN + 1
        BY <2>1, <2>3, <3>1 DEF Enqueue, InboxSet
      <3>6. Cardinality(AudioAt(Append(s, q))) = Cardinality(AudioAt(s)) + 1
        BY <2>2, <2>3, <3>4, AudioAfterAppend
      <3>7. inbox.audioN <= AudioMax
        BY DEF AudioAccounted
      <3> HIDE DEF s, n
      <3>8. QED
        BY <1>0, <3>1, <3>2, <3>3, <3>5, <3>6, <3>7 DEF AudioAccounted
    <2>4. CASE Lane(q) = "sys" /\ ~IsAudio(q)
      <3>1. inbox'.sys = Append(inbox.sys, q) /\ inbox'.audioN = inbox.audioN
        BY <1>0, <2>1, <2>4 DEF Enqueue, InboxSet
      <3>2. Cardinality(AudioAt(Append(inbox.sys, q))) = Cardinality(AudioAt(inbox.sys)) + 0
        BY <1>0, <2>2, <2>4, AudioAfterAppend
      <3>3. QED
        BY <1>0, <3>1, <3>2 DEF AudioAccounted
    <2>5. CASE Lane(q) \in {"up", "down"}
      BY <1>0, <2>1, <2>5 DEF Enqueue, AudioAccounted, InboxSet
    <2>6. QED
      BY <2>3, <2>4, <2>5, LaneNamesThree
  <1>2. CASE Pop
    <2>1. CASE NextLane(inbox) = "sys"
      <3>1. inbox.sys # <<>>
        BY <2>1 DEF NextLane
      <3>2. /\ Cardinality(AudioAt(Tail(inbox.sys))) \in Nat
            /\ Cardinality(AudioAt(inbox.sys)) =
                 Cardinality(AudioAt(Tail(inbox.sys)))
                   + (IF IsAudio(Head(inbox.sys)) THEN 1 ELSE 0)
        BY <1>0, <3>1, AudioAfterTail
      <3>3. /\ inbox'.sys = Tail(inbox.sys)
            /\ inbox'.audioN = IF IsAudio(Head(inbox.sys)) /\ inbox.audioN > 0
                               THEN inbox.audioN - 1 ELSE inbox.audioN
        BY <1>0, <1>2, <2>1 DEF Pop, PopFront, InboxSet
      <3>4. QED
        BY <1>0, <3>2, <3>3 DEF AudioAccounted
    <2>2. CASE NextLane(inbox) \in {"up", "down"}
      BY <1>0, <1>2, <2>2 DEF Pop, PopFront, AudioAccounted, InboxSet
    <2>3. QED
      BY <2>1, <2>2 DEF NextLane
  <1>3. CASE Handle
    BY <1>0, <1>3 DEF Handle, DrainInterruptible, AudioAccounted, InboxSet
  <1>4. CASE Close
    BY <1>0, <1>4 DEF Close, Closed, AudioAccounted, InboxSet
  <1>5. CASE UNCHANGED inbox
    BY <1>5 DEF AudioAccounted
  <1>6. QED
    BY <1>1, <1>2, <1>3, <1>4, <1>5
    DEF Next, vars, PushBegin, PushRefuse, CancelPush, PopStop, CancelPop

(* The audio counter never drifts from what waits in the system lane, and   *)
(* the limit it enforces holds, whatever is pushed, popped and shed.        *)
THEOREM AudioCounter == Spec => []AudioAccounted
  <1>1. TypeOK /\ AudioAccounted /\ [Next]_vars => AudioAccounted'
    BY NextAccounted
  <1>2. QED
    BY <1>1, InitAccounted, TypeCorrect, PTL DEF Spec

-----------------------------------------------------------------------------
(***************************************************************************)
(* The order of the lanes                                                  *)
(*                                                                         *)
(* LaneOrder speaks of ids and does not say where they come from, so it is *)
(* not inductive.  The strengthening Lanewise says of each lane that its   *)
(* items are the accepted ones of their ids, in increasing order, and      *)
(* younger than everything of the lane that was popped.  NothingStale is   *)
(* inductive on top of it.                                                 *)
(***************************************************************************)

(* The items s of a lane, seen from what was accepted and popped. *)
OfLane(s, name, acc) ==
  \A i \in DOMAIN s : /\ s[i].id \in 1..Len(acc)
                      /\ acc[s[i].id] = s[i]
                      /\ Lane(s[i]) = name

Increasing(s) == \A i, j \in DOMAIN s : i < j => s[i].id < s[j].id

Younger(s, name, acc, pop) ==
  \A i \in DOMAIN s : \A t \in pop : Lane(acc[t]) = name => t < s[i].id

LaneIs(s, name, acc, pop) ==
  OfLane(s, name, acc) /\ Increasing(s) /\ Younger(s, name, acc, pop)

Lanewise ==
  /\ LaneIs(inbox.sys, "sys", accepted, popped)
  /\ LaneIs(inbox.up, "up", accepted, popped)
  /\ LaneIs(inbox.down, "down", accepted, popped)
  /\ popped \subseteq 1..Len(accepted)

-----------------------------------------------------------------------------
(* A lane keeps its order when items are taken from its middle. *)
LEMMA KeepAtLane ==
  ASSUME NEW s \in Seq(ItemSet), NEW K \in SUBSET (DOMAIN s), NEW name,
         NEW acc, NEW pop, LaneIs(s, name, acc, pop)
  PROVE  LaneIs(KeepAt(s, K), name, acc, pop)
  <1> DEFINE r == KeepAt(s, K)
  <1>1. /\ DOMAIN r = 1..Cardinality(K)
        /\ \A k \in 1..Cardinality(K) : Nth(K, k) \in K /\ r[k] = s[Nth(K, k)]
        /\ \A k, l \in 1..Cardinality(K) : k < l => Nth(K, k) < Nth(K, l)
    BY KeepAtSubsequence
  <1>2. \A k \in DOMAIN r : Nth(K, k) \in DOMAIN s /\ r[k] = s[Nth(K, k)]
    BY <1>1
  <1> HIDE DEF r
  <1>3. OfLane(r, name, acc)
    BY <1>2 DEF LaneIs, OfLane
  <1>4. Increasing(r)
    BY <1>1, <1>2 DEF LaneIs, Increasing
  <1>5. Younger(r, name, acc, pop)
    BY <1>2 DEF LaneIs, Younger
  <1>6. QED
    BY <1>3, <1>4, <1>5 DEF LaneIs, r

(* A new item at the end of its lane... *)
LEMMA AppendLane ==
  ASSUME NEW s \in Seq(ItemSet), NEW acc \in Seq(ItemSet), NEW q \in ItemSet,
         NEW pop \in SUBSET (1..Len(acc)),
         q.id = Len(acc) + 1, LaneIs(s, Lane(q), acc, pop)
  PROVE  LaneIs(Append(s, q), Lane(q), Append(acc, q), pop)
  <1> DEFINE r == Append(s, q)
             a == Append(acc, q)
  <1>1. /\ Len(s) \in Nat /\ DOMAIN s = 1..Len(s) /\ DOMAIN r = 1..(Len(s) + 1)
        /\ \A i \in 1..Len(s) : r[i] = s[i]
        /\ r[Len(s) + 1] = q
    BY AppendProperties, LenProperties
  <1>2. /\ Len(acc) \in Nat /\ Len(a) = Len(acc) + 1
        /\ \A t \in 1..Len(acc) : a[t] = acc[t]
        /\ a[Len(acc) + 1] = q
    BY AppendProperties, LenProperties
  <1>3. \A i \in 1..Len(s) : s[i].id \in 1..Len(acc)
    BY <1>1 DEF LaneIs, OfLane
  <1>4. \A i \in DOMAIN r : i \in 1..Len(s) \/ i = Len(s) + 1
    BY <1>1
  <1> HIDE DEF r, a
  <1>5. OfLane(r, Lane(q), a)
    <2>1. ASSUME NEW i \in DOMAIN r
          PROVE  r[i].id \in 1..Len(a) /\ a[r[i].id] = r[i] /\ Lane(r[i]) = Lane(q)
      <3>1. CASE i \in 1..Len(s)
        <4>1. /\ r[i] = s[i] /\ s[i].id \in 1..Len(acc)
              /\ acc[s[i].id] = s[i] /\ Lane(s[i]) = Lane(q)
          BY <1>1, <3>1 DEF LaneIs, OfLane
        <4>2. a[s[i].id] = acc[s[i].id] /\ s[i].id \in 1..Len(a)
          BY <1>2, <4>1
        <4>3. QED
          BY <4>1, <4>2
      <3>2. CASE i = Len(s) + 1
        BY <1>1, <1>2, <3>2
      <3>3. QED
        BY <1>4, <3>1, <3>2
    <2>2. QED
      BY <2>1 DEF OfLane
  <1>6. Increasing(r)
    <2>1. ASSUME NEW i \in DOMAIN r, NEW j \in DOMAIN r, i < j
          PROVE  r[i].id < r[j].id
      <3>1. i \in 1..Len(s)
        BY <1>1, <2>1
      <3>2. CASE j \in 1..Len(s)
        BY <1>1, <2>1, <3>1, <3>2 DEF LaneIs, Increasing
      <3>3. CASE j = Len(s) + 1
        BY <1>1, <1>2, <1>3, <3>1, <3>3
      <3>4. QED
        BY <1>4, <3>2, <3>3
    <2>2. QED
      BY <2>1 DEF Increasing
  <1>7. Younger(r, Lane(q), a, pop)
    <2>1. ASSUME NEW i \in DOMAIN r, NEW t \in pop, Lane(a[t]) = Lane(q)
          PROVE  t < r[i].id
      <3>1. t \in 1..Len(acc) /\ a[t] = acc[t]
        BY <1>2
      <3>2. CASE i \in 1..Len(s)
        BY <1>1, <2>1, <3>1, <3>2 DEF LaneIs, Younger
      <3>3. CASE i = Len(s) + 1
        BY <1>1, <1>2, <3>1, <3>3
      <3>4. QED
        BY <1>4, <3>2, <3>3
    <2>2. QED
      BY <2>1 DEF Younger
  <1>8. QED
    BY <1>5, <1>6, <1>7 DEF LaneIs, r, a

(* ... leaves the other lanes as they are. *)
LEMMA OtherLane ==
  ASSUME NEW s \in Seq(ItemSet), NEW acc \in Seq(ItemSet), NEW q \in ItemSet,
         NEW pop \in SUBSET (1..Len(acc)), NEW name, LaneIs(s, name, acc, pop)
  PROVE  LaneIs(s, name, Append(acc, q), pop)
  <1> DEFINE a == Append(acc, q)
  <1>1. /\ Len(acc) \in Nat /\ Len(a) = Len(acc) + 1
        /\ \A t \in 1..Len(acc) : a[t] = acc[t]
    BY AppendProperties, LenProperties
  <1> HIDE DEF a
  <1>2. OfLane(s, name, a)
    BY <1>1 DEF LaneIs, OfLane
  <1>3. Younger(s, name, a, pop)
    BY <1>1 DEF LaneIs, Younger
  <1>4. QED
    BY <1>2, <1>3 DEF LaneIs, a

(* The head of a lane is popped: what stays is younger, in its lane... *)
LEMMA TailLane ==
  ASSUME NEW s \in Seq(ItemSet), s # <<>>, NEW acc, NEW pop, NEW name,
         LaneIs(s, name, acc, pop)
  PROVE  LaneIs(Tail(s), name, acc, pop \cup {Head(s).id})
  <1> DEFINE r == Tail(s)
  <1>1. /\ Len(s) \in Nat /\ Len(s) >= 1 /\ DOMAIN s = 1..Len(s)
        /\ Head(s) = s[1] /\ DOMAIN r = 1..(Len(s) - 1)
        /\ \A i \in 1..(Len(s) - 1) : r[i] = s[i + 1]
    BY HeadTailProperties, LenProperties, EmptySeq
  <1>2. \A i \in DOMAIN r : i + 1 \in DOMAIN s /\ 1 < i + 1 /\ r[i] = s[i + 1]
    BY <1>1
  <1>3. 1 \in DOMAIN s /\ \A i \in DOMAIN r : i \in Int
    BY <1>1
  <1> HIDE DEF r
  <1>4. OfLane(r, name, acc)
    BY <1>2 DEF LaneIs, OfLane
  <1>5. Increasing(r)
    <2>1. \A i, j \in DOMAIN r : i < j => i + 1 < j + 1
      BY <1>3
    <2>2. QED
      BY <1>2, <2>1 DEF LaneIs, Increasing
  <1>6. Younger(r, name, acc, pop \cup {Head(s).id})
    <2>1. \A i \in DOMAIN r : Head(s).id < r[i].id
      BY <1>1, <1>2, <1>3 DEF LaneIs, Increasing
    <2>2. QED
      BY <1>2, <2>1 DEF LaneIs, Younger
  <1>7. QED
    BY <1>4, <1>5, <1>6 DEF LaneIs, r

(* ... and the item is none of the other lanes'. *)
LEMMA PopOtherLane ==
  ASSUME NEW s, NEW acc, NEW pop, NEW name, NEW q, LaneIs(s, name, acc, pop),
         acc[q.id] = q, Lane(q) # name
  PROVE  LaneIs(s, name, acc, pop \cup {q.id})
  BY DEF LaneIs, Younger
-----------------------------------------------------------------------------
(* Empty lanes are in order. *)
LEMMA InitLanewise == Init => Lanewise
  <1> SUFFICES ASSUME Init PROVE Lanewise
    OBVIOUS
  <1>1. /\ inbox.sys = <<>> /\ inbox.up = <<>> /\ inbox.down = <<>>
        /\ accepted = <<>> /\ popped = {}
    BY DEF Init, EmptyInbox
  <1>2. \A name : LaneIs(<<>>, name, accepted, popped)
    BY DEF LaneIs, OfLane, Increasing, Younger
  <1>3. QED
    BY <1>1, <1>2 DEF Lanewise

(* A push appends to one lane and sheds from one, a pop takes the head of   *)
(* one, a drain takes from the middle of two.                               *)
LEMMA NextLanewise == TypeOK /\ Lanewise /\ [Next]_vars => Lanewise'
  <1> SUFFICES ASSUME TypeOK, Lanewise, [Next]_vars PROVE Lanewise'
    OBVIOUS
  <1>0. /\ inbox \in InboxSet(ItemSet)
        /\ inbox.sys \in Seq(ItemSet) /\ inbox.up \in Seq(ItemSet)
        /\ inbox.down \in Seq(ItemSet)
        /\ accepted \in Seq(ItemSet) /\ Len(accepted) \in Nat
        /\ popped \in SUBSET (1..Len(accepted))
    BY LenProperties DEF TypeOK, InboxSet, Lanewise
  <1>1. ASSUME NEW p \in Pushers, PushAccept(p)
        PROVE  Lanewise'
    <2> DEFINE q == [pend[p] EXCEPT !.id = Len(accepted) + 1]
    <2>1. /\ inbox' = Enqueue(inbox, q) /\ accepted' = Append(accepted, q)
          /\ popped' = popped
      BY <1>1 DEF PushAccept
    <2>2. q \in ItemSet /\ q.id = Len(accepted) + 1
      <3>1. pend[p] \in ItemSet
        BY <1>1 DEF PushAccept, TypeOK
      <3>2. Len(accepted) + 1 \in Nat
        BY <1>0
      <3>3. [pend[p] EXCEPT !.id = Len(accepted) + 1] \in ItemSet
        BY <3>1, <3>2, ItemsAreTyped
      <3>4. QED
        BY <3>1, <3>3 DEF ItemSet
    <2> HIDE DEF q
    <2>3. popped \subseteq 1..Len(accepted')
      <3>1. Len(accepted') = Len(accepted) + 1
        BY <1>0, <2>1, <2>2, AppendProperties
      <3>2. QED
        BY <1>0, <3>1
    <2>4. /\ LaneIs(inbox.sys, "sys", accepted', popped)
             \/ Lane(q) = "sys"
          /\ LaneIs(inbox.up, "up", accepted', popped)
          /\ LaneIs(inbox.down, "down", accepted', popped)
      BY <1>0, <2>1, <2>2, OtherLane DEF Lanewise
    <2>5. CASE Lane(q) = "sys"
      <3> DEFINE K == DOMAIN inbox.sys \ ShedAt(inbox)
                 s == IF IsAudio(q) THEN KeepAt(inbox.sys, K) ELSE inbox.sys
      <3>1. s \in Seq(ItemSet) /\ LaneIs(s, "sys", accepted, popped)
        <4>1. /\ KeepAt(inbox.sys, K) \in Seq(ItemSet)
              /\ LaneIs(KeepAt(inbox.sys, K), "sys", accepted, popped)
          <5>1. K \in SUBSET (DOMAIN inbox.sys)
            OBVIOUS
          <5> HIDE DEF K
          <5>2. QED
            BY <1>0, <5>1, KeepAtSubsequence, KeepAtLane DEF Lanewise
        <4>2. QED
          BY <1>0, <4>1 DEF Lanewise
      <3>2. /\ inbox'.sys = Append(s, q)
            /\ inbox'.up = inbox.up /\ inbox'.down = inbox.down
        <4>1. CASE IsAudio(q)
          <5>1. /\ Shed(inbox) \in InboxSet(ItemSet)
                /\ Shed(inbox).sys = s
                /\ Shed(inbox).up = inbox.up /\ Shed(inbox).down = inbox.down
            BY <1>0, <4>1, ShedType
          <5> HIDE DEF s
          <5>2. QED
            BY <2>1, <2>5, <4>1, <5>1 DEF Enqueue, InboxSet
        <4>2. CASE ~IsAudio(q)
          BY <1>0, <2>1, <2>5, <4>2 DEF Enqueue, InboxSet
        <4>3. QED
          BY <4>1, <4>2
      <3> HIDE DEF s
      <3>3. LaneIs(Append(s, q), "sys", accepted', popped)
        BY <1>0, <2>1, <2>2, <2>5, <3>1, AppendLane
      <3>4. QED
        BY <2>1, <2>3, <2>4, <3>2, <3>3 DEF Lanewise
    <2>6. CASE Lane(q) = "up"
      <3>1. /\ inbox'.up = Append(inbox.up, q)
            /\ inbox'.sys = inbox.sys /\ inbox'.down = inbox.down
        BY <1>0, <2>1, <2>6 DEF Enqueue, InboxSet
      <3>2. LaneIs(Append(inbox.up, q), "up", accepted', popped)
        BY <1>0, <2>1, <2>2, <2>6, AppendLane DEF Lanewise
      <3>3. QED
        BY <2>1, <2>3, <2>4, <2>6, <3>1, <3>2 DEF Lanewise
    <2>7. CASE Lane(q) = "down"
      <3>1. /\ inbox'.down = Append(inbox.down, q)
            /\ inbox'.sys = inbox.sys /\ inbox'.up = inbox.up
        BY <1>0, <2>1, <2>7 DEF Enqueue, InboxSet
      <3>2. LaneIs(Append(inbox.down, q), "down", accepted', popped)
        BY <1>0, <2>1, <2>2, <2>7, AppendLane DEF Lanewise
      <3>3. QED
        BY <2>1, <2>3, <2>4, <2>7, <3>1, <3>2 DEF Lanewise
    <2>8. QED
      BY <2>5, <2>6, <2>7, LaneNamesThree
  <1>2. CASE Pop
    <2> DEFINE q == Front(inbox)
               pop == popped \cup {q.id}
    <2>1. /\ ~IsEmpty(inbox) /\ inbox' = PopFront(inbox)
          /\ popped' = pop /\ accepted' = accepted
      BY <1>2 DEF Pop
    <2>2. \A name, s : LaneIs(s, name, accepted, popped) /\ s \in Seq(ItemSet) /\ s # <<>>
                         => /\ Head(s).id \in 1..Len(accepted)
                            /\ accepted[Head(s).id] = Head(s)
                            /\ Lane(Head(s)) = name
                            /\ LaneIs(Tail(s), name, accepted, popped \cup {Head(s).id})
      <3> TAKE name, s
      <3> HAVE LaneIs(s, name, accepted, popped) /\ s \in Seq(ItemSet) /\ s # <<>>
      <3>1. LaneIs(Tail(s), name, accepted, popped \cup {Head(s).id})
        BY TailLane
      <3>2. 1 \in DOMAIN s /\ Head(s) = s[1]
        BY HeadTailProperties, LenProperties, EmptySeq
      <3>3. QED
        BY <3>1, <3>2 DEF LaneIs, OfLane
    <2>3. \A name, s : LaneIs(s, name, accepted, popped) /\ accepted[q.id] = q /\ Lane(q) # name
                         => LaneIs(s, name, accepted, pop)
      BY PopOtherLane
    <2>4. CASE NextLane(inbox) = "sys"
      <3>1. /\ q = Head(inbox.sys) /\ inbox.sys # <<>> /\ inbox'.sys = Tail(inbox.sys)
            /\ inbox'.up = inbox.up /\ inbox'.down = inbox.down
        BY <1>0, <2>1, <2>4 DEF Front, PopFront, NextLane, InboxSet
      <3> HIDE DEF q
      <3>2. QED
        BY <1>0, <2>1, <2>2, <2>3, <3>1, ZenonT(40) DEF Lanewise
    <2>5. CASE NextLane(inbox) = "up"
      <3>1. /\ q = Head(inbox.up) /\ inbox.up # <<>> /\ inbox'.up = Tail(inbox.up)
            /\ inbox'.sys = inbox.sys /\ inbox'.down = inbox.down
        BY <1>0, <2>1, <2>5 DEF Front, PopFront, NextLane, InboxSet
      <3> HIDE DEF q
      <3>2. QED
        BY <1>0, <2>1, <2>2, <2>3, <3>1, ZenonT(40) DEF Lanewise
    <2>6. CASE NextLane(inbox) = "down"
      <3>1. /\ q = Head(inbox.down) /\ inbox.down # <<>> /\ inbox'.down = Tail(inbox.down)
            /\ inbox'.sys = inbox.sys /\ inbox'.up = inbox.up
        BY <1>0, <2>1, <2>6 DEF Front, PopFront, NextLane, InboxSet, IsEmpty
      <3> HIDE DEF q
      <3>2. QED
        BY <1>0, <2>1, <2>2, <2>3, <3>1, ZenonT(40) DEF Lanewise
    <2>7. QED
      BY <2>4, <2>5, <2>6 DEF NextLane
  <1>3. CASE Handle
    <2>1. accepted' = accepted /\ popped' = popped
      BY <1>3 DEF Handle
    <2>2. CASE inbox' = inbox
      BY <2>1, <2>2 DEF Lanewise
    <2>3. CASE inbox' = DrainInterruptible(inbox)
      <3>1. /\ KeptAt(inbox.up) \in SUBSET (DOMAIN inbox.up)
            /\ KeptAt(inbox.down) \in SUBSET (DOMAIN inbox.down)
        BY DEF KeptAt
      <3>2. /\ inbox'.sys = inbox.sys
            /\ inbox'.up = KeepAt(inbox.up, KeptAt(inbox.up))
            /\ inbox'.down = KeepAt(inbox.down, KeptAt(inbox.down))
        BY <1>0, <2>3 DEF DrainInterruptible, InboxSet
      <3>3. /\ LaneIs(inbox'.up, "up", accepted, popped)
            /\ LaneIs(inbox'.down, "down", accepted, popped)
        BY <1>0, <3>1, <3>2, KeepAtLane DEF Lanewise
      <3>4. QED
        BY <2>1, <3>2, <3>3 DEF Lanewise
    <2>4. QED
      BY <1>3, <2>2, <2>3 DEF Handle
  <1>4. CASE Close
    <2>1. /\ inbox'.sys = inbox.sys /\ inbox'.up = inbox.up /\ inbox'.down = inbox.down
          /\ accepted' = accepted /\ popped' = popped
      BY <1>0, <1>4 DEF Close, Closed, InboxSet
    <2>2. QED
      BY <2>1 DEF Lanewise
  <1>5. CASE UNCHANGED <<inbox, accepted, popped>>
    BY <1>5 DEF Lanewise
  <1>6. QED
    BY <1>1, <1>2, <1>3, <1>4, <1>5
    DEF Next, vars, PushBegin, PushRefuse, CancelPush, PopStop, CancelPop

(* LaneOrder is what Lanewise says of the ids. *)
LEMMA LanewiseOrder == Lanewise => LaneOrder
  <1> SUFFICES ASSUME Lanewise PROVE LaneOrder
    OBVIOUS
  <1>1. ASSUME NEW l \in 1..3
        PROVE  LaneIs(Lanes[l], LaneNames[l], accepted, popped)
    <2>1. CASE l = 1
      BY <2>1 DEF Lanewise, Lanes, LaneNames
    <2>2. CASE l = 2
      BY <2>2 DEF Lanewise, Lanes, LaneNames
    <2>3. CASE l = 3
      BY <2>3 DEF Lanewise, Lanes, LaneNames
    <2>4. QED
      BY <2>1, <2>2, <2>3
  <1>2. QED
    BY <1>1 DEF LaneOrder, LaneIs, Increasing, Younger

(* Each lane is first in, first out across all pushers, whatever is drained *)
(* and shed from its middle (inbox.go: push, pop, drainInterruptible).      *)
THEOREM FirstInFirstOut == Spec => []LaneOrder
  <1>1. TypeOK /\ Lanewise /\ [Next]_vars => Lanewise'
    BY NextLanewise
  <1>2. QED
    BY <1>1, InitLanewise, LanewiseOrder, TypeCorrect, PTL DEF Spec

-----------------------------------------------------------------------------
(* Drains look at what was accepted so far, so all that enters later is new.*)
DrainedBefore == drainedAt <= Len(accepted)

(* Nothing has been drained and nothing waits. *)
LEMMA InitStale == Init => DrainedBefore /\ NothingStale
  <1> SUFFICES ASSUME Init PROVE DrainedBefore /\ NothingStale
    OBVIOUS
  <1>1. /\ inbox.up = <<>> /\ inbox.down = <<>> /\ held = NoItem
        /\ drainedAt = 0 /\ accepted = <<>>
    BY DEF Init, EmptyInbox
  <1>2. Len(<<>>) = 0
    OBVIOUS
  <1>3. QED
    BY <1>1, <1>2 DEF DrainedBefore, NothingStale

(* No droppable item of the lane s is as old as the drain at d. *)
Fresh(s, d) == \A i \in DOMAIN s : Droppable(s[i]) => s[i].id > d

(* NothingStale, lane by lane. *)
LEMMA FreshLanes ==
  NothingStale <=> /\ Fresh(inbox.up, drainedAt) /\ Fresh(inbox.down, drainedAt)
                   /\ (held # NoItem /\ Droppable(held)) => held.id > drainedAt
  BY DEF NothingStale, Fresh

(* A lane stays fresh when an item younger than the drain is appended... *)
LEMMA FreshAppend ==
  ASSUME NEW s \in Seq(ItemSet), NEW q \in ItemSet, NEW d, Fresh(s, d), q.id > d
  PROVE  Fresh(Append(s, q), d)
  <1>1. /\ Len(s) \in Nat /\ DOMAIN s = 1..Len(s) /\ DOMAIN Append(s, q) = 1..(Len(s) + 1)
        /\ \A i \in 1..Len(s) : Append(s, q)[i] = s[i]
        /\ Append(s, q)[Len(s) + 1] = q
    BY AppendProperties, LenProperties
  <1>2. \A i \in 1..(Len(s) + 1) : i \in 1..Len(s) \/ i = Len(s) + 1
    BY <1>1
  <1>3. QED
    BY <1>1, <1>2 DEF Fresh

(* ... and when its head is taken, which was fresh itself. *)
LEMMA FreshTail ==
  ASSUME NEW s \in Seq(ItemSet), s # <<>>, NEW d, Fresh(s, d)
  PROVE  Fresh(Tail(s), d) /\ (Droppable(Head(s)) => Head(s).id > d)
  <1>1. /\ Len(s) \in Nat /\ Len(s) >= 1 /\ DOMAIN s = 1..Len(s) /\ Head(s) = s[1]
        /\ DOMAIN Tail(s) = 1..(Len(s) - 1)
        /\ \A i \in 1..(Len(s) - 1) : Tail(s)[i] = s[i + 1]
    BY HeadTailProperties, LenProperties, EmptySeq
  <1>2. \A i \in 1..(Len(s) - 1) : i + 1 \in 1..Len(s)
    BY <1>1
  <1>3. 1 \in DOMAIN s
    BY <1>1
  <1>4. QED
    BY <1>1, <1>2, <1>3 DEF Fresh

(* What a drain leaves in a lane is not droppable at all. *)
LEMMA FreshDrain ==
  ASSUME NEW s \in Seq(ItemSet), NEW d
  PROVE  Fresh(KeepAt(s, KeptAt(s)), d)
  <1>1. KeptAt(s) \in SUBSET (DOMAIN s)
    BY DEF KeptAt
  <1>2. /\ DOMAIN KeepAt(s, KeptAt(s)) = 1..Cardinality(KeptAt(s))
        /\ \A k \in 1..Cardinality(KeptAt(s)) :
             /\ Nth(KeptAt(s), k) \in KeptAt(s)
             /\ KeepAt(s, KeptAt(s))[k] = s[Nth(KeptAt(s), k)]
    BY <1>1, KeepAtSubsequence
  <1>3. \A i \in KeptAt(s) : ~Droppable(s[i])
    BY DEF KeptAt
  <1>4. QED
    BY <1>2, <1>3 DEF Fresh

(* A drain is as old as what was accepted before it, which only grows. *)
LEMMA NextDrainedBefore == TypeOK /\ DrainedBefore /\ [Next]_vars => DrainedBefore'
  <1> SUFFICES ASSUME TypeOK, DrainedBefore, [Next]_vars PROVE DrainedBefore'
    OBVIOUS
  <1>0. accepted \in Seq(ItemSet) /\ Len(accepted) \in Nat /\ drainedAt \in Nat
    BY LenProperties DEF TypeOK
  <1>1. ASSUME NEW p \in Pushers, PushAccept(p)
        PROVE  DrainedBefore'
    <2>1. [pend[p] EXCEPT !.id = Len(accepted) + 1] \in ItemSet
      <3>1. pend[p] \in ItemSet /\ Len(accepted) + 1 \in Nat
        BY <1>0, <1>1 DEF PushAccept, TypeOK
      <3>2. QED
        BY <3>1, ItemsAreTyped
    <2>2. Len(accepted') = Len(accepted) + 1 /\ drainedAt' = drainedAt
      BY <1>0, <1>1, <2>1, AppendProperties DEF PushAccept
    <2>3. QED
      BY <1>0, <2>2 DEF DrainedBefore
  <1>2. CASE Handle
    BY <1>0, <1>2 DEF Handle, DrainedBefore
  <1>3. CASE UNCHANGED <<accepted, drainedAt>>
    BY <1>3 DEF DrainedBefore
  <1>4. QED
    BY <1>1, <1>2, <1>3
    DEF Next, vars, PushBegin, PushRefuse, CancelPush, Pop, PopStop, Close, CancelPop

(* A push adds what is younger than any drain; a pop from the system lane   *)
(* yields nothing droppable; a drain leaves nothing droppable, and the node *)
(* is done with the item it held.                                           *)
LEMMA NextStale ==
  TypeOK /\ Lanewise /\ DrainedBefore /\ NothingStale /\ [Next]_vars => NothingStale'
  <1> SUFFICES ASSUME TypeOK, Lanewise, DrainedBefore, NothingStale, [Next]_vars
               PROVE  NothingStale'
    OBVIOUS
  <1>0. /\ inbox \in InboxSet(ItemSet)
        /\ inbox.sys \in Seq(ItemSet) /\ inbox.up \in Seq(ItemSet)
        /\ inbox.down \in Seq(ItemSet)
        /\ Len(accepted) \in Nat /\ drainedAt \in Nat
    BY LenProperties DEF TypeOK, InboxSet
  <1>f. /\ Fresh(inbox.up, drainedAt) /\ Fresh(inbox.down, drainedAt)
        /\ (held # NoItem /\ Droppable(held)) => held.id > drainedAt
    BY FreshLanes
  <1>g. ASSUME Fresh(inbox.up, drainedAt)', Fresh(inbox.down, drainedAt)',
               (held' # NoItem /\ Droppable(held')) => held'.id > drainedAt'
        PROVE  NothingStale'
    BY <1>g DEF NothingStale, Fresh
  <1>1. ASSUME NEW p \in Pushers, PushAccept(p)
        PROVE  NothingStale'
    <2> DEFINE q == [pend[p] EXCEPT !.id = Len(accepted) + 1]
    <2>1. inbox' = Enqueue(inbox, q) /\ drainedAt' = drainedAt /\ held' = held
      BY <1>1 DEF PushAccept
    <2>2. q \in ItemSet /\ q.id = Len(accepted) + 1
      <3>1. pend[p] \in ItemSet /\ Len(accepted) + 1 \in Nat
        BY <1>0, <1>1 DEF PushAccept, TypeOK
      <3>2. [pend[p] EXCEPT !.id = Len(accepted) + 1] \in ItemSet
        BY <3>1, ItemsAreTyped
      <3>3. QED
        BY <3>1, <3>2 DEF ItemSet
    <2> HIDE DEF q
    <2>3. q.id > drainedAt
      BY <1>0, <2>2 DEF DrainedBefore
    <2>4. /\ inbox'.up \in {inbox.up, Append(inbox.up, q)}
          /\ inbox'.down \in {inbox.down, Append(inbox.down, q)}
      <3>1. CASE Lane(q) = "sys" /\ IsAudio(q)
        <4>1. /\ Shed(inbox) \in InboxSet(ItemSet)
              /\ Shed(inbox).up = inbox.up /\ Shed(inbox).down = inbox.down
          BY <1>0, ShedType
        <4>2. QED
          BY <2>1, <3>1, <4>1 DEF Enqueue, InboxSet
      <3>2. CASE ~(Lane(q) = "sys" /\ IsAudio(q))
        BY <1>0, <2>1, <3>2, LaneNamesThree DEF Enqueue, InboxSet
      <3>3. QED
        BY <3>1, <3>2
    <2>5. Fresh(Append(inbox.up, q), drainedAt) /\ Fresh(Append(inbox.down, q), drainedAt)
      BY <1>0, <1>f, <2>2, <2>3, FreshAppend
    <2>6. QED
      BY <1>f, <1>g, <2>1, <2>4, <2>5
  <1>2. CASE Pop
    <2>1. /\ ~IsEmpty(inbox) /\ inbox' = PopFront(inbox) /\ held' = Front(inbox)
          /\ drainedAt' = drainedAt
      BY <1>2 DEF Pop
    <2>2. CASE NextLane(inbox) = "sys"
      <3>1. /\ inbox.sys # <<>> /\ held' = Head(inbox.sys)
            /\ inbox'.up = inbox.up /\ inbox'.down = inbox.down
        BY <1>0, <2>1, <2>2 DEF Front, PopFront, NextLane, InboxSet
      <3>2. Lane(Head(inbox.sys)) = "sys"
        <4>1. 1 \in DOMAIN inbox.sys /\ Head(inbox.sys) = inbox.sys[1]
          BY <1>0, <3>1, HeadTailProperties, LenProperties, EmptySeq
        <4>2. QED
          BY <4>1 DEF Lanewise, LaneIs, OfLane
      <3>3. ~Droppable(held')
        BY <3>1, <3>2 DEF Lane, Droppable, Interruptible
      <3>4. QED
        BY <1>f, <1>g, <2>1, <3>1, <3>3
    <2>3. CASE NextLane(inbox) = "up"
      <3>1. /\ inbox.up # <<>> /\ held' = Head(inbox.up)
            /\ inbox'.up = Tail(inbox.up) /\ inbox'.down = inbox.down
        BY <1>0, <2>1, <2>3 DEF Front, PopFront, NextLane, InboxSet
      <3>2. QED
        BY <1>0, <1>f, <1>g, <2>1, <3>1, FreshTail
    <2>4. CASE NextLane(inbox) = "down"
      <3>1. /\ inbox.down # <<>> /\ held' = Head(inbox.down)
            /\ inbox'.down = Tail(inbox.down) /\ inbox'.up = inbox.up
        BY <1>0, <2>1, <2>4 DEF Front, PopFront, NextLane, InboxSet, IsEmpty
      <3>2. QED
        BY <1>0, <1>f, <1>g, <2>1, <3>1, FreshTail
    <2>5. QED
      BY <2>2, <2>3, <2>4 DEF NextLane
  <1>3. CASE Handle
    <2>1. held' = NoItem
      BY <1>3 DEF Handle
    <2>2. CASE inbox' = DrainInterruptible(inbox)
      <3>1. /\ inbox'.up = KeepAt(inbox.up, KeptAt(inbox.up))
            /\ inbox'.down = KeepAt(inbox.down, KeptAt(inbox.down))
        BY <1>0, <2>2 DEF DrainInterruptible, InboxSet
      <3>2. /\ Fresh(KeepAt(inbox.up, KeptAt(inbox.up)), drainedAt')
            /\ Fresh(KeepAt(inbox.down, KeptAt(inbox.down)), drainedAt')
        BY <1>0, FreshDrain
      <3>3. QED
        BY <1>g, <2>1, <3>1, <3>2
    <2>3. CASE inbox' = inbox /\ drainedAt' = drainedAt
      BY <1>f, <1>g, <2>1, <2>3
    <2>4. QED
      BY <1>3, <2>2, <2>3 DEF Handle
  <1>4. CASE Close
    <2>1. /\ inbox'.up = inbox.up /\ inbox'.down = inbox.down
          /\ held' = held /\ drainedAt' = drainedAt
      BY <1>0, <1>4 DEF Close, Closed, InboxSet
    <2>2. QED
      BY <1>f, <1>g, <2>1
  <1>5. CASE UNCHANGED <<inbox, held, drainedAt>>
    BY <1>5 DEF NothingStale
  <1>6. QED
    BY <1>1, <1>2, <1>3, <1>4, <1>5
    DEF Next, vars, PushBegin, PushRefuse, CancelPush, PopStop, CancelPop

(* After a node has handled an Interruption nothing interruptible that came *)
(* before waits for it or is in its hands (runtime.go:503-504).             *)
THEOREM NothingStaleAfterDrain == Spec => []NothingStale
  <1>1. Init => Lanewise /\ DrainedBefore /\ NothingStale
    BY InitLanewise, InitStale
  <1>2. TypeOK /\ (Lanewise /\ DrainedBefore /\ NothingStale) /\ [Next]_vars
          => (Lanewise /\ DrainedBefore /\ NothingStale)'
    BY NextLanewise, NextDrainedBefore, NextStale
  <1>3. QED
    BY <1>1, <1>2, TypeCorrect, PTL DEF Spec

-----------------------------------------------------------------------------
(***************************************************************************)
(* Nothing is lost without an excuse                                       *)
(*                                                                         *)
(* The heart of it is ShedIsOld: AudioAccounted says that the counter by   *)
(* which push sheds is exact, so one frame is shed and AudioMax - 1 others *)
(* wait; Lanewise says that those were accepted after it.                  *)
(***************************************************************************)
(* The item with id t waits in the lane s. *)
IsIn(t, s) == \E i \in DOMAIN s : s[i].id = t

(* An item waits if it is in one of the three lanes. *)
LEMMA WaitingLanes ==
  \A t : t \in Waiting <=> IsIn(t, inbox.sys) \/ IsIn(t, inbox.up) \/ IsIn(t, inbox.down)
  <1> TAKE t
  <1>1. t \in Waiting <=> \E l \in 1..3 : \E i \in DOMAIN Lanes[l] : Lanes[l][i].id = t
    BY DEF Waiting
  <1>2. \A l \in 1..3 : l = 1 \/ l = 2 \/ l = 3
    OBVIOUS
  <1>3. Lanes[1] = inbox.sys /\ Lanes[2] = inbox.up /\ Lanes[3] = inbox.down
    BY DEF Lanes
  <1>4. QED
    BY <1>1, <1>2, <1>3 DEF IsIn

(* An appended item is in its lane, with all that were there... *)
LEMMA IsInAppend ==
  ASSUME NEW s \in Seq(ItemSet), NEW q \in ItemSet
  PROVE  IsIn(q.id, Append(s, q)) /\ \A t : IsIn(t, s) => IsIn(t, Append(s, q))
  <1>1. /\ Len(s) \in Nat /\ DOMAIN s = 1..Len(s) /\ DOMAIN Append(s, q) = 1..(Len(s) + 1)
        /\ \A i \in 1..Len(s) : Append(s, q)[i] = s[i]
        /\ Append(s, q)[Len(s) + 1] = q
    BY AppendProperties, LenProperties
  <1>2. Len(s) + 1 \in 1..(Len(s) + 1) /\ \A i \in 1..Len(s) : i \in 1..(Len(s) + 1)
    BY <1>1
  <1>3. QED
    BY <1>1, <1>2 DEF IsIn

(* ... and a pop removes the head only. *)
LEMMA IsInTail ==
  ASSUME NEW s \in Seq(ItemSet), s # <<>>, NEW t, IsIn(t, s), t # Head(s).id
  PROVE  IsIn(t, Tail(s))
  <1>1. /\ Len(s) \in Nat /\ DOMAIN s = 1..Len(s) /\ Head(s) = s[1]
        /\ DOMAIN Tail(s) = 1..(Len(s) - 1)
        /\ \A i \in 1..(Len(s) - 1) : Tail(s)[i] = s[i + 1]
    BY HeadTailProperties, LenProperties, EmptySeq
  <1>2. PICK i \in 1..Len(s) : s[i].id = t
    BY <1>1 DEF IsIn
  <1>3. i # 1
    BY <1>1, <1>2
  <1>4. i - 1 \in 1..(Len(s) - 1) /\ (i - 1) + 1 = i
    BY <1>1, <1>3
  <1>5. Tail(s)[i - 1].id = t
    BY <1>1, <1>2, <1>4
  <1>6. QED
    BY <1>1, <1>4, <1>5 DEF IsIn

(* Of a lane only the items at other positions than K are gone. *)
LEMMA IsInKeepAt ==
  ASSUME NEW s \in Seq(ItemSet), NEW K \in SUBSET (DOMAIN s), NEW i \in K
  PROVE  IsIn(s[i].id, KeepAt(s, K))
  <1>1. /\ DOMAIN KeepAt(s, K) = 1..Cardinality(K)
        /\ Rank(K, i) \in 1..Cardinality(K)
        /\ KeepAt(s, K)[Rank(K, i)] = s[i]
    BY KeepAtSubsequence
  <1>2. QED
    BY <1>1 DEF IsIn

-----------------------------------------------------------------------------
(* Excuses last: what was accepted stays accepted. *)

NewerAudio(t, acc) == {u \in t+1..Len(acc) : IsAudio(acc[u])}

(* The audio accepted after an item is a finite set. *)
LEMMA NewerAudioFinite ==
  ASSUME NEW acc \in Seq(ItemSet), NEW t \in Nat
  PROVE  /\ NewerAudio(t, acc) \in SUBSET (1..Len(acc))
         /\ IsFiniteSet(NewerAudio(t, acc)) /\ Cardinality(NewerAudio(t, acc)) \in Nat
  <1>1. Len(acc) \in Nat
    BY LenProperties
  <1>2. NewerAudio(t, acc) \in SUBSET (1..Len(acc))
    BY <1>1 DEF NewerAudio
  <1>3. QED
    BY <1>1, <1>2, PositionsFinite

(* A new item adds to the newer audio of every older one if it is audio.    *)
LEMMA NewerAudioGrows ==
  ASSUME NEW acc \in Seq(ItemSet), NEW q \in ItemSet, NEW t \in 1..Len(acc)
  PROVE  /\ Cardinality(NewerAudio(t, acc)) \in Nat
         /\ Cardinality(NewerAudio(t, Append(acc, q))) =
              Cardinality(NewerAudio(t, acc)) + (IF IsAudio(q) THEN 1 ELSE 0)
  <1> DEFINE a == Append(acc, q)
             n == Len(acc) + 1
  <1>1. /\ Len(acc) \in Nat /\ Len(a) = n /\ t \in Nat /\ n \in Nat
        /\ \A u \in 1..Len(acc) : a[u] = acc[u]
        /\ a[n] = q
    BY AppendProperties, LenProperties
  <1>2. /\ IsFiniteSet(NewerAudio(t, acc)) /\ Cardinality(NewerAudio(t, acc)) \in Nat
        /\ n \notin NewerAudio(t, acc)
    <2>1. IsFiniteSet(NewerAudio(t, acc)) /\ Cardinality(NewerAudio(t, acc)) \in Nat
      BY <1>1, NewerAudioFinite
    <2>2. n \notin NewerAudio(t, acc)
      BY <1>1 DEF NewerAudio
    <2>3. QED
      BY <2>1, <2>2
  <1>3. \A u : u \in t+1..n <=> u \in t+1..Len(acc) \/ u = n
    BY <1>1
  <1>4. \A u \in t+1..Len(acc) : a[u] = acc[u]
    BY <1>1
  <1> HIDE DEF a, n
  <1>5. NewerAudio(t, a) = IF IsAudio(q) THEN NewerAudio(t, acc) \cup {n}
                           ELSE NewerAudio(t, acc)
    BY <1>1, <1>3, <1>4 DEF NewerAudio
  <1>6. Cardinality(NewerAudio(t, acc) \cup {n}) = Cardinality(NewerAudio(t, acc)) + 1
    BY <1>2, FS_AddElement
  <1>7. CASE IsAudio(q)
    BY <1>2, <1>5, <1>6, <1>7 DEF a
  <1>8. CASE ~IsAudio(q)
    BY <1>2, <1>5, <1>8 DEF a
  <1>9. QED
    BY <1>7, <1>8

(* Where an item with an id went: taken by the node, waiting, or excused.   *)
Accounted(t, in, acc, pop, d) ==
  \/ t \in pop
  \/ IsIn(t, in.sys) \/ IsIn(t, in.up) \/ IsIn(t, in.down)
  \/ Droppable(acc[t]) /\ t <= d
  \/ IsAudio(acc[t]) /\ Cardinality(NewerAudio(t, acc)) >= AudioMax

(* NothingLost says that every accepted item is accounted for. *)
LEMMA LostAccounted ==
  NothingLost <=>
    \A t \in 1..Len(accepted) : Accounted(t, inbox, accepted, popped, drainedAt)
  BY WaitingLanes DEF NothingLost, Accounted, Excused, NewerAudio

(* What a push sheds is the oldest of AudioMax audio frames that wait, so   *)
(* with the frame that is pushed AudioMax newer ones were accepted.         *)
LEMMA ShedIsOld ==
  ASSUME TypeOK, Lanewise, AudioAccounted,
         NEW q \in ItemSet, IsAudio(q), NEW i \in ShedAt(inbox)
  PROVE  /\ inbox.sys[i].id \in 1..Len(accepted)
         /\ IsAudio(accepted[inbox.sys[i].id])
         /\ Cardinality(NewerAudio(inbox.sys[i].id, Append(accepted, q))) >= AudioMax
  <1> DEFINE s == inbox.sys
             A == AudioAt(s)
             t == s[i].id
             B == A \ {i}
             U == NewerAudio(t, accepted)
             f == [j \in B |-> s[j].id]
  <1>0. /\ inbox \in InboxSet(ItemSet) /\ s \in Seq(ItemSet)
        /\ accepted \in Seq(ItemSet) /\ Len(accepted) \in Nat
        /\ AudioMax \in Nat /\ inbox.audioN \in Nat
    BY LenProperties, BoundsAssumption DEF TypeOK, InboxSet
  <1>1. /\ A \in SUBSET (1..Len(s)) /\ Len(s) \in Nat /\ ShedAt(inbox) \subseteq A
        /\ IsFiniteSet(A) /\ Cardinality(A) \in Nat
        /\ inbox.audioN < AudioMax => ShedAt(inbox) = {}
    BY <1>0, ShedCount
  <1>2. /\ Cardinality(A) = AudioMax /\ inbox.audioN = AudioMax
    BY <1>0, <1>1 DEF AudioAccounted
  <1>3. i \in A /\ Rank(A, i) <= 1
    BY <1>0, <1>1, <1>2 DEF ShedAt
  <1>4. \A j \in B : i < j
    <2>1. /\ \A j \in A : Rank(A, j) \in 1..Cardinality(A)
          /\ \A j, k \in A : j < k => Rank(A, j) < Rank(A, k)
      BY <1>1, RankIncreases
    <2>2. ASSUME NEW j \in B
          PROVE  i < j
      <3>1. j \in A /\ j # i /\ i \in Int /\ j \in Int
        BY <1>1, <1>3
      <3>2. Rank(A, j) \in Int /\ Rank(A, j) >= 1 /\ Rank(A, i) \in Int
        BY <1>1, <1>3, <2>1, <3>1
      <3>3. ~(j < i)
        BY <1>3, <2>1, <3>1, <3>2
      <3>4. QED
        BY <3>1, <3>3
    <2>3. QED
      BY <2>2
  <1>5. \A j \in A : /\ j \in DOMAIN s /\ s[j].id \in 1..Len(accepted)
                     /\ accepted[s[j].id] = s[j] /\ IsAudio(s[j])
    BY DEF AudioAt, Lanewise, LaneIs, OfLane
  <1>6. t \in 1..Len(accepted) /\ IsAudio(accepted[t])
    BY <1>3, <1>5
  <1>7. \A j \in B : f[j] \in U
    <2>1. ASSUME NEW j \in B
          PROVE  f[j] \in U
      <3>1. t < s[j].id
        BY <1>3, <1>4, <1>5, <2>1 DEF Lanewise, LaneIs, Increasing
      <3>2. s[j].id \in t+1..Len(accepted) /\ IsAudio(accepted[s[j].id])
        BY <1>0, <1>5, <1>6, <2>1, <3>1
      <3>3. QED
        BY <2>1, <3>2 DEF NewerAudio
    <2>2. QED
      BY <2>1
  <1>8. \A j, k \in B : f[j] = f[k] => j = k
    <2>1. ASSUME NEW j \in B, NEW k \in B, s[j].id = s[k].id
          PROVE  j = k
      <3>1. j \in DOMAIN s /\ k \in DOMAIN s /\ j \in Int /\ k \in Int
        BY <1>1, <1>5
      <3>2. s[j].id \in Int /\ s[k].id \in Int
        BY <1>5
      <3>3. ~(j < k) /\ ~(k < j)
        BY <2>1, <3>1, <3>2 DEF Lanewise, LaneIs, Increasing
      <3>4. QED
        BY <3>1, <3>3
    <2>2. QED
      BY <2>1
  <1>9. f \in Injection(B, U)
    BY <1>7, <1>8 DEF Injection, IsInjective
  <1>10. IsFiniteSet(U) /\ Cardinality(U) \in Nat
    <2>1. t \in Nat
      BY <1>0, <1>6
    <2> HIDE DEF t
    <2>2. QED
      BY <1>0, <2>1, NewerAudioFinite
  <1>11. IsFiniteSet(B) /\ Cardinality(B) = AudioMax - 1
    BY <1>1, <1>2, <1>3, FS_RemoveElement
  <1>12. Cardinality(B) <= Cardinality(U)
    BY <1>9, <1>10, FS_Injection
  <1>13. Cardinality(NewerAudio(t, Append(accepted, q))) = Cardinality(U) + 1
    BY <1>0, <1>6, NewerAudioGrows
  <1> HIDE DEF U
  <1>14. Cardinality(NewerAudio(t, Append(accepted, q))) >= AudioMax
    BY <1>0, <1>10, <1>11, <1>12, <1>13
  <1>15. QED
    BY <1>6, <1>14

(* Nothing was accepted yet. *)
LEMMA InitLost == Init => NothingLost
  <1> SUFFICES ASSUME Init PROVE NothingLost
    OBVIOUS
  <1>1. Len(accepted) = 0 /\ 1..0 = {}
    BY DEF Init
  <1>2. QED
    BY <1>1 DEF NothingLost

(* An item leaves by a pop, by a drain younger than it, or by a shed.       *)
LEMMA NextLost ==
  TypeOK /\ Lanewise /\ AudioAccounted /\ NothingLost /\ [Next]_vars => NothingLost'
  <1> SUFFICES ASSUME TypeOK, Lanewise, AudioAccounted, NothingLost, [Next]_vars
               PROVE  NothingLost'
    OBVIOUS
  <1>0. /\ inbox \in InboxSet(ItemSet)
        /\ inbox.sys \in Seq(ItemSet) /\ inbox.up \in Seq(ItemSet)
        /\ inbox.down \in Seq(ItemSet)
        /\ accepted \in Seq(ItemSet) /\ Len(accepted) \in Nat
        /\ AudioMax \in Nat
    BY LenProperties, BoundsAssumption DEF TypeOK, InboxSet
  <1>a. \A t \in 1..Len(accepted) : Accounted(t, inbox, accepted, popped, drainedAt)
    BY LostAccounted
  <1>g. ASSUME \A t \in 1..Len(accepted') :
                 Accounted(t, inbox', accepted', popped', drainedAt')
        PROVE  NothingLost'
    <2>1. \A t : t \in Waiting' <=>
                   IsIn(t, inbox'.sys) \/ IsIn(t, inbox'.up) \/ IsIn(t, inbox'.down)
      <3> TAKE t
      <3>1. t \in Waiting' <=> \E l \in 1..3 : \E i \in DOMAIN Lanes'[l] : Lanes'[l][i].id = t
        BY DEF Waiting
      <3>2. \A l \in 1..3 : l = 1 \/ l = 2 \/ l = 3
        OBVIOUS
      <3>3. Lanes'[1] = inbox'.sys /\ Lanes'[2] = inbox'.up /\ Lanes'[3] = inbox'.down
        BY DEF Lanes
      <3>4. QED
        BY <3>1, <3>2, <3>3 DEF IsIn
    <2>2. QED
      BY <1>g, <2>1 DEF NothingLost, Accounted, Excused, NewerAudio
  <1>1. ASSUME NEW p \in Pushers, PushAccept(p)
        PROVE  NothingLost'
    <2> DEFINE q == [pend[p] EXCEPT !.id = Len(accepted) + 1]
    <2>1. /\ inbox' = Enqueue(inbox, q) /\ accepted' = Append(accepted, q)
          /\ popped' = popped /\ drainedAt' = drainedAt
      BY <1>1 DEF PushAccept
    <2>2. q \in ItemSet /\ q.id = Len(accepted) + 1
      <3>1. pend[p] \in ItemSet /\ Len(accepted) + 1 \in Nat
        BY <1>0, <1>1 DEF PushAccept, TypeOK
      <3>2. [pend[p] EXCEPT !.id = Len(accepted) + 1] \in ItemSet
        BY <3>1, ItemsAreTyped
      <3>3. QED
        BY <3>1, <3>2 DEF ItemSet
    <2> HIDE DEF q
    <2>3. /\ Len(accepted') = Len(accepted) + 1
          /\ \A t \in 1..Len(accepted) : accepted'[t] = accepted[t]
          /\ \A t \in 1..Len(accepted') : t \in 1..Len(accepted) \/ t = q.id
      <3>1. /\ Len(accepted') = Len(accepted) + 1
            /\ \A t \in 1..Len(accepted) : accepted'[t] = accepted[t]
        BY <1>0, <2>1, <2>2, AppendProperties
      <3>2. QED
        BY <1>0, <2>2, <3>1
    <2>4. /\ IsIn(q.id, inbox'.sys) \/ IsIn(q.id, inbox'.up) \/ IsIn(q.id, inbox'.down)
          /\ \A t : IsIn(t, inbox.up) => IsIn(t, inbox'.up)
          /\ \A t : IsIn(t, inbox.down) => IsIn(t, inbox'.down)
          /\ \A t : IsIn(t, inbox.sys) =>
               \/ IsIn(t, inbox'.sys)
               \/ IsAudio(accepted'[t]) /\ Cardinality(NewerAudio(t, accepted')) >= AudioMax
      <3>1. CASE Lane(q) = "sys" /\ IsAudio(q)
        <4> DEFINE K == DOMAIN inbox.sys \ ShedAt(inbox)
                   s == KeepAt(inbox.sys, K)
        <4>1. /\ Shed(inbox) \in InboxSet(ItemSet)
              /\ Shed(inbox).up = inbox.up /\ Shed(inbox).down = inbox.down
              /\ Shed(inbox).sys = s
          BY <1>0, ShedType
        <4>2. s \in Seq(ItemSet)
          BY <4>1 DEF InboxSet
        <4> HIDE DEF s
        <4>3. /\ inbox'.sys = Append(s, q) /\ inbox'.up = inbox.up
              /\ inbox'.down = inbox.down
          BY <2>1, <3>1, <4>1 DEF Enqueue, InboxSet
        <4>4. IsIn(q.id, inbox'.sys) /\ \A t : IsIn(t, s) => IsIn(t, inbox'.sys)
          BY <2>2, <4>2, <4>3, IsInAppend
        <4>5. ASSUME NEW t, IsIn(t, inbox.sys)
              PROVE  \/ IsIn(t, inbox'.sys)
                     \/ /\ IsAudio(accepted'[t])
                        /\ Cardinality(NewerAudio(t, accepted')) >= AudioMax
          <5>1. PICK i \in DOMAIN inbox.sys : inbox.sys[i].id = t
            BY <4>5 DEF IsIn
          <5>2. CASE i \in K
            <6>1. K \in SUBSET (DOMAIN inbox.sys)
              OBVIOUS
            <6> HIDE DEF K
            <6>2. IsIn(t, s)
              BY <1>0, <5>1, <5>2, <6>1, IsInKeepAt DEF s
            <6>3. QED
              BY <4>4, <6>2
          <5>3. CASE i \in ShedAt(inbox)
            <6>1. /\ t \in 1..Len(accepted) /\ IsAudio(accepted[t])
                  /\ Cardinality(NewerAudio(t, Append(accepted, q))) >= AudioMax
              BY <2>2, <3>1, <5>1, <5>3, ShedIsOld
            <6>2. QED
              BY <2>1, <2>3, <6>1
          <5>4. QED
            BY <5>1, <5>2, <5>3
        <4>6. QED
          BY <4>3, <4>4, <4>5
      <3>2. CASE Lane(q) = "sys" /\ ~IsAudio(q)
        <4>1. /\ inbox'.sys = Append(inbox.sys, q) /\ inbox'.up = inbox.up
              /\ inbox'.down = inbox.down
          BY <1>0, <2>1, <3>2 DEF Enqueue, InboxSet
        <4>2. QED
          BY <1>0, <2>2, <4>1, IsInAppend
      <3>3. CASE Lane(q) = "up"
        <4>1. /\ inbox'.up = Append(inbox.up, q) /\ inbox'.sys = inbox.sys
              /\ inbox'.down = inbox.down
          BY <1>0, <2>1, <3>3 DEF Enqueue, InboxSet
        <4>2. QED
          BY <1>0, <2>2, <4>1, IsInAppend
      <3>4. CASE Lane(q) = "down"
        <4>1. /\ inbox'.down = Append(inbox.down, q) /\ inbox'.sys = inbox.sys
              /\ inbox'.up = inbox.up
          BY <1>0, <2>1, <3>4 DEF Enqueue, InboxSet
        <4>2. QED
          BY <1>0, <2>2, <4>1, IsInAppend
      <3>5. QED
        BY <3>1, <3>2, <3>3, <3>4, LaneNamesThree
    <2>5. ASSUME NEW t \in 1..Len(accepted')
          PROVE  Accounted(t, inbox', accepted', popped', drainedAt')
      <3>1. CASE t = q.id
        BY <2>4, <3>1 DEF Accounted
      <3>2. CASE t \in 1..Len(accepted)
        <4>1. Accounted(t, inbox, accepted, popped, drainedAt)
          BY <1>a, <3>2
        <4>2. /\ Cardinality(NewerAudio(t, accepted)) \in Nat
              /\ Cardinality(NewerAudio(t, accepted')) \in Nat
              /\ Cardinality(NewerAudio(t, accepted')) >= Cardinality(NewerAudio(t, accepted))
          <5>1. /\ Cardinality(NewerAudio(t, accepted)) \in Nat
                /\ Cardinality(NewerAudio(t, accepted')) =
                     Cardinality(NewerAudio(t, accepted)) + (IF IsAudio(q) THEN 1 ELSE 0)
            BY <1>0, <2>1, <2>2, <3>2, NewerAudioGrows
          <5>2. QED
            BY <5>1
        <4>3. Cardinality(NewerAudio(t, accepted)) >= AudioMax
                => Cardinality(NewerAudio(t, accepted')) >= AudioMax
          BY <1>0, <4>2
        <4>4. accepted'[t] = accepted[t]
          BY <2>3, <3>2
        <4>5. QED
          BY <2>1, <2>4, <4>1, <4>3, <4>4 DEF Accounted
      <3>3. QED
        BY <2>3, <3>1, <3>2
    <2>6. QED
      BY <1>g, <2>5
  <1>2. CASE Pop
    <2> DEFINE q == Front(inbox)
    <2>1. /\ ~IsEmpty(inbox) /\ inbox' = PopFront(inbox) /\ popped' = popped \cup {q.id}
          /\ accepted' = accepted /\ drainedAt' = drainedAt
      BY <1>2 DEF Pop
    <2>2. \A s : s \in Seq(ItemSet) /\ s # <<>> /\ q = Head(s) =>
            \A t : IsIn(t, s) => t = q.id \/ IsIn(t, Tail(s))
      BY IsInTail
    <2>3. \A t : IsIn(t, inbox.sys) \/ IsIn(t, inbox.up) \/ IsIn(t, inbox.down)
                   => \/ t = q.id
                      \/ IsIn(t, inbox'.sys) \/ IsIn(t, inbox'.up) \/ IsIn(t, inbox'.down)
      <3>1. CASE NextLane(inbox) = "sys"
        <4>1. /\ q = Head(inbox.sys) /\ inbox.sys # <<>> /\ inbox'.sys = Tail(inbox.sys)
              /\ inbox'.up = inbox.up /\ inbox'.down = inbox.down
          BY <1>0, <2>1, <3>1 DEF Front, PopFront, NextLane, InboxSet
        <4> HIDE DEF q
        <4>2. QED
          BY <1>0, <2>2, <4>1
      <3>2. CASE NextLane(inbox) = "up"
        <4>1. /\ q = Head(inbox.up) /\ inbox.up # <<>> /\ inbox'.up = Tail(inbox.up)
              /\ inbox'.sys = inbox.sys /\ inbox'.down = inbox.down
          BY <1>0, <2>1, <3>2 DEF Front, PopFront, NextLane, InboxSet
        <4> HIDE DEF q
        <4>2. QED
          BY <1>0, <2>2, <4>1
      <3>3. CASE NextLane(inbox) = "down"
        <4>1. /\ q = Head(inbox.down) /\ inbox.down # <<>> /\ inbox'.down = Tail(inbox.down)
              /\ inbox'.sys = inbox.sys /\ inbox'.up = inbox.up
          BY <1>0, <2>1, <3>3 DEF Front, PopFront, NextLane, InboxSet, IsEmpty
        <4> HIDE DEF q
        <4>2. QED
          BY <1>0, <2>2, <4>1
      <3>4. QED
        BY <3>1, <3>2, <3>3 DEF NextLane
    <2> HIDE DEF q
    <2>4. QED
      BY <1>a, <1>g, <2>1, <2>3 DEF Accounted
  <1>3. CASE Handle
    <2>1. accepted' = accepted /\ popped' = popped
      BY <1>3 DEF Handle
    <2>2. CASE inbox' = DrainInterruptible(inbox) /\ drainedAt' = Len(accepted)
      <3>1. /\ inbox'.sys = inbox.sys
            /\ inbox'.up = KeepAt(inbox.up, KeptAt(inbox.up))
            /\ inbox'.down = KeepAt(inbox.down, KeptAt(inbox.down))
        BY <1>0, <2>2 DEF DrainInterruptible, InboxSet
      <3>2. ASSUME NEW s \in Seq(ItemSet), NEW name, LaneIs(s, name, accepted, popped),
                   NEW t \in 1..Len(accepted), IsIn(t, s)
            PROVE  IsIn(t, KeepAt(s, KeptAt(s))) \/ Droppable(accepted[t])
        <4>1. PICK i \in DOMAIN s : s[i].id = t
          BY <3>2 DEF IsIn
        <4>2. accepted[t] = s[i]
          BY <3>2, <4>1 DEF LaneIs, OfLane
        <4>3. CASE i \in KeptAt(s)
          <5>1. KeptAt(s) \in SUBSET (DOMAIN s)
            BY DEF KeptAt
          <5>2. QED
            BY <4>1, <4>3, <5>1, IsInKeepAt
        <4>4. CASE i \notin KeptAt(s)
          BY <4>2, <4>4 DEF KeptAt
        <4>5. QED
          BY <4>3, <4>4
      <3>3. ASSUME NEW t \in 1..Len(accepted)
            PROVE  Accounted(t, inbox', accepted', popped', drainedAt')
        <4>1. Accounted(t, inbox, accepted, popped, drainedAt)
          BY <1>a
        <4>2. t <= drainedAt'
          BY <1>0, <2>2
        <4>3. IsIn(t, inbox.up) => IsIn(t, inbox'.up) \/ Droppable(accepted[t])
          BY <1>0, <3>1, <3>2 DEF Lanewise
        <4>4. IsIn(t, inbox.down) => IsIn(t, inbox'.down) \/ Droppable(accepted[t])
          BY <1>0, <3>1, <3>2 DEF Lanewise
        <4>5. QED
          BY <2>1, <3>1, <4>1, <4>2, <4>3, <4>4 DEF Accounted
      <3>4. QED
        BY <1>g, <2>1, <3>3
    <2>3. CASE inbox' = inbox /\ drainedAt' = drainedAt
      BY <1>a, <1>g, <2>1, <2>3
    <2>4. QED
      BY <1>3, <2>2, <2>3 DEF Handle
  <1>4. CASE Close
    <2>1. /\ inbox'.sys = inbox.sys /\ inbox'.up = inbox.up /\ inbox'.down = inbox.down
          /\ accepted' = accepted /\ popped' = popped /\ drainedAt' = drainedAt
      BY <1>0, <1>4 DEF Close, Closed, InboxSet
    <2>2. QED
      BY <1>a, <1>g, <2>1 DEF Accounted
  <1>5. CASE UNCHANGED <<inbox, accepted, popped, drainedAt>>
    BY <1>a, <1>g, <1>5
  <1>6. QED
    BY <1>1, <1>2, <1>3, <1>4, <1>5
    DEF Next, vars, PushBegin, PushRefuse, CancelPush, PopStop, CancelPop

(* Nothing that entered an inbox disappears but by a drain that came after  *)
(* it or, if it is input audio, by AudioSysQueueMax newer frames of audio   *)
(* (inbox.go: dropOldestAudioLocked, drainInterruptible).                   *)
THEOREM NothingLostWithoutExcuse == Spec => []NothingLost
  <1>1. Init => Lanewise /\ NothingLost
    BY InitLanewise, InitLost
  <1>2. TypeOK /\ AudioAccounted /\ (Lanewise /\ NothingLost) /\ [Next]_vars
          => (Lanewise /\ NothingLost)'
    BY NextLanewise, NextLost
  <1>3. QED
    BY <1>1, <1>2, TypeCorrect, AudioCounter, PTL DEF Spec
=============================================================================

--------------------------- MODULE VoicebotProofs ---------------------------
(***************************************************************************)
(* Proofs about Voicebot: about the chain of Listening first, then Idle,   *)
(* then Realtime.  They hold for every number of chunks, utterances,       *)
(* interruptions, flushes and messages, every timeout, and every capacity  *)
(* of the inboxes.                                                         *)
(*                                                                         *)
(* Listening: what is in the inboxes of the tracker and of the STT service *)
(* is one row, the oldest frame first.  The steps append to it, move its   *)
(* middle, take its head, and lose audio anywhere in it (the shedding of a *)
(* push).  The invariant says of the row that its starts and stops         *)
(* alternate, that no chunk is in it and behind it, and that every stop    *)
(* has the chunks of its utterance between itself and the start before it, *)
(* or behind the row, or ignored.  A first part shows what a thinned, an   *)
(* appended to and a shortened row keep of that, a second what the steps   *)
(* do to the row.                                                          *)
(*                                                                         *)
(* Idle: every timer runs out a Timeout after the last activity at the     *)
(* earliest, and a frame of a timer that fired waits no longer than the    *)
(* instant of its firing.                                                  *)
(*                                                                         *)
(* Realtime: only the last dial can live; until it has a connection that   *)
(* it reads from, nothing has been heard of any; and what its goroutine    *)
(* still has to push continues what the bot has said.                      *)
(***************************************************************************)
EXTENDS Voicebot, InboxOpsProofs

(* The inboxes of Listening are those of InboxOps. *)
LEMMA ListeningInboxes ==
  /\ \A q : L!Lane(q) = Lane(q) /\ L!IsAudio(q) = IsAudio(q)
  /\ \A in : L!IsEmpty(in) = IsEmpty(in) /\ L!Front(in) = Front(in)
             /\ L!PopFront(in) = PopFront(in)
  /\ \A in, q : L!Enqueue(in, q) = Enqueue(in, q)
  <1>1. /\ \A q : L!Lane(q) = Lane(q) /\ L!IsAudio(q) = IsAudio(q)
        /\ \A in : L!IsEmpty(in) = IsEmpty(in)
    BY DEF L!Lane, Lane, L!IsSystem, IsSystem, L!SystemKinds, SystemKinds, L!IsAudio, IsAudio,
           L!IsEmpty, IsEmpty
  <1>2. \A in : L!NextLane(in) = NextLane(in)
    BY DEF L!NextLane, NextLane
  <1>3. \A in : L!Front(in) = Front(in)
    BY <1>2, Zenon DEF L!Front, Front
  <1>4. \A in : L!PopFront(in) = PopFront(in)
    BY <1>1, <1>2, Zenon DEF L!PopFront, PopFront
  <1>5. \A K : L!Cardinality(K) = Cardinality(K)
    BY DEF L!Cardinality, Cardinality
  <1>6. \A K, i : L!Rank(K, i) = Rank(K, i)
    BY <1>5, Zenon DEF L!Rank, Rank
  <1>7. \A s : L!AudioAt(s) = AudioAt(s)
    BY <1>1, Zenon DEF L!AudioAt, AudioAt
  <1>8. \A s, K : L!KeepAt(s, K) = KeepAt(s, K)
    <2>1. \A K, i : L!Nth(K, i) = Nth(K, i)
      BY <1>6, Zenon DEF L!Nth, Nth
    <2>2. QED
      BY <1>5, <2>1, Zenon DEF L!KeepAt, KeepAt
  <1>9. \A in : L!ShedAt(in) = ShedAt(in)
    BY <1>6, <1>7, Zenon DEF L!ShedAt, ShedAt
  <1>10. \A in : L!Shed(in) = Shed(in)
    BY <1>5, <1>8, <1>9, Zenon DEF L!Shed, Shed
  <1>11. \A in, q : L!Enqueue(in, q) = Enqueue(in, q)
    BY <1>1, <1>10, Zenon DEF L!Enqueue, Enqueue
  <1>12. QED
    BY <1>1, <1>3, <1>4, <1>11

-----------------------------------------------------------------------------
(* The items of the row. *)

MicKinds == {"UserStartedSpeaking", "UserStoppedSpeaking", "InputAudio", "Interruption"}

MicItem == [kind : MicKinds, n : Nat, utterance : SUBSET Nat, dir : {"down"}, ctrl : {"none"}]

IsStart(q) == q.kind = "UserStartedSpeaking"
IsStop(q) == q.kind = "UserStoppedSpeaking"

(* f embeds t in s: what it misses is audio, of chunks in lost. *)
Embeds(f, s, t, lost) ==
  /\ f \in [DOMAIN t -> DOMAIN s]
  /\ \A i, j \in DOMAIN t : i < j => f[i] < f[j]
  /\ \A i \in DOMAIN t : t[i] = s[f[i]]
  /\ \A i \in DOMAIN s : (\E k \in DOMAIN t : f[k] = i) \/ (IsAudio(s[i]) /\ s[i].n \in lost)

(* t is s without some audio. *)
Thinned(s, t, lost) == \E f : Embeds(f, s, t, lost)

(* Chunks that are at most once in s. *)
Distinct(s) == \A i, j \in AudioAt(s) : s[i].n = s[j].n => i = j

ChunksIn(s) == {s[i].n : i \in AudioAt(s)}

(* Starts and stops alternate in s, with one more start in front of it if  *)
(* a is true and one more behind it if b is.                               *)
Opens(s, a, b) ==
  {i \in DOMAIN s : IsStart(s[i])} \cup (IF a THEN {0} ELSE {})
    \cup (IF b THEN {Len(s) + 1} ELSE {})

Alternating(s, a, b) ==
  \A i, j \in Opens(s, a, b) :
    i < j => \E k \in DOMAIN s : i < k /\ k < j /\ IsStop(s[k])

(* The chunks of s between two positions. *)
Between(s, i, j) == {s[k].n : k \in {l \in AudioAt(s) : i < l /\ l < j}}

(* The utterance that is ended at k, where h is the one not yet ended. *)
EndedAt(s, h, k) ==
  IF k = Len(s) + 1 THEN h ELSE IF IsStop(s[k]) THEN s[k].utterance ELSE {}

(* Each utterance lies before its end and after the start before that,     *)
(* apart from what is past and what was ignored.                           *)
Whole(s, h, past, missed) ==
  \A k \in 1..Len(s) + 1 :
    /\ EndedAt(s, h, k) \subseteq Between(s, 0, k) \cup past
    /\ \A j \in DOMAIN s : j < k /\ IsStart(s[j]) =>
         EndedAt(s, h, k) \subseteq Between(s, j, k) \cup missed

-----------------------------------------------------------------------------
(* A sequence thinned: what holds of the row still does. *)
LEMMA ThinKeeps ==
  ASSUME NEW s \in Seq(MicItem), NEW t \in Seq(MicItem), NEW X, Thinned(s, t, X)
  PROVE  /\ \A a, b \in BOOLEAN : Alternating(s, a, b) => Alternating(t, a, b)
         /\ Distinct(s) => Distinct(t)
         /\ ChunksIn(t) \subseteq ChunksIn(s) /\ ChunksIn(s) \subseteq ChunksIn(t) \cup X
         /\ \A h, past, missed :
              Whole(s, h, past, missed) => Whole(t, h, past \cup X, missed \cup X)
  <1>1. PICK f : Embeds(f, s, t, X)
    BY DEF Thinned
  <1>2. /\ Len(s) \in Nat /\ DOMAIN s = 1..Len(s) /\ Len(t) \in Nat /\ DOMAIN t = 1..Len(t)
        /\ \A i \in DOMAIN s : s[i] \in MicItem
        /\ \A i \in DOMAIN t : t[i] \in MicItem
    BY LenProperties, ElementOfSeq
  <1>3. /\ f \in [DOMAIN t -> DOMAIN s]
        /\ \A i, j \in DOMAIN t : i < j => f[i] < f[j]
        /\ \A i \in DOMAIN t : t[i] = s[f[i]]
        /\ \A i \in DOMAIN s :
             (\E k \in DOMAIN t : f[k] = i) \/ (IsAudio(s[i]) /\ s[i].n \in X)
    BY <1>1 DEF Embeds
  <1> DEFINE g == [i \in 0..Len(t) + 1 |->
                     IF i = 0 THEN 0 ELSE IF i = Len(t) + 1 THEN Len(s) + 1 ELSE f[i]]
  <1>4. /\ g \in [0..Len(t) + 1 -> 0..Len(s) + 1]
        /\ g[0] = 0 /\ g[Len(t) + 1] = Len(s) + 1
        /\ \A x \in DOMAIN t : g[x] = f[x]
    BY <1>2, <1>3
  <1>5. \A x, y \in 0..Len(t) + 1 : x < y => g[x] < g[y]
    <2> SUFFICES ASSUME NEW x \in 0..Len(t) + 1, NEW y \in 0..Len(t) + 1, x < y
                 PROVE  g[x] < g[y]
      OBVIOUS
    <2> HIDE DEF g
    <2>1. x = 0 \/ x \in DOMAIN t
      BY <1>2
    <2>2. y = Len(t) + 1 \/ y \in DOMAIN t
      BY <1>2
    <2>3. \A i \in DOMAIN t : f[i] \in 1..Len(s)
      BY <1>2, <1>3
    <2>4. QED
      BY <1>2, <1>3, <1>4, <2>1, <2>2, <2>3
  <1> HIDE DEF g
  <1>6. \A x, y \in 0..Len(t) + 1 : g[x] < g[y] => x < y
    <2> SUFFICES ASSUME NEW x \in 0..Len(t) + 1, NEW y \in 0..Len(t) + 1, g[x] < g[y], ~(x < y)
                 PROVE  FALSE
      OBVIOUS
    <2>1. x = y \/ y < x
      BY <1>2
    <2>2. g[x] \in Nat /\ g[y] \in Nat
      BY <1>2, <1>4
    <2>3. QED
      BY <1>5, <2>1, <2>2
  <1>7. ASSUME NEW a \in BOOLEAN, NEW b \in BOOLEAN, Alternating(s, a, b)
        PROVE  Alternating(t, a, b)
    <2> SUFFICES ASSUME NEW i \in Opens(t, a, b), NEW j \in Opens(t, a, b), i < j
                 PROVE  \E k \in DOMAIN t : i < k /\ k < j /\ IsStop(t[k])
      BY DEF Alternating
    <2>1. i \in 0..Len(t) + 1 /\ j \in 0..Len(t) + 1
      BY <1>2 DEF Opens
    <2>2. \A x \in Opens(t, a, b) : g[x] \in Opens(s, a, b)
      BY <1>2, <1>3, <1>4 DEF Opens
    <2>3. \A x, y \in 0..Len(t) + 1 : x < y => g[x] < g[y]
      BY <1>5
    <2>4. PICK l \in DOMAIN s : g[i] < l /\ l < g[j] /\ IsStop(s[l])
      BY <1>7, <2>1, <2>2, <2>3 DEF Alternating
    <2>5. PICK k \in DOMAIN t : f[k] = l
      BY <1>3, <2>4 DEF IsStop, IsAudio
    <2>6. g[k] = l /\ t[k] = s[l] /\ k \in 0..Len(t) + 1
      BY <1>2, <1>3, <1>4, <2>5
    <2>7. i < k /\ k < j
      BY <1>6, <2>1, <2>4, <2>6
    <2>8. QED
      BY <2>4, <2>6, <2>7
  <1>8. \A i \in DOMAIN t : i \in AudioAt(t) <=> f[i] \in AudioAt(s)
    BY <1>3 DEF AudioAt
  <1>9. Distinct(s) => Distinct(t)
    <2> SUFFICES ASSUME Distinct(s), NEW i \in AudioAt(t), NEW j \in AudioAt(t), t[i].n = t[j].n
                 PROVE  i = j
      BY DEF Distinct
    <2>1. i \in DOMAIN t /\ j \in DOMAIN t /\ f[i] \in AudioAt(s) /\ f[j] \in AudioAt(s)
      BY <1>8 DEF AudioAt
    <2>2. f[i] = f[j]
      BY <1>3, <2>1 DEF Distinct
    <2>3. QED
      BY <1>2, <1>3, <2>1, <2>2
  <1>10. ChunksIn(t) \subseteq ChunksIn(s)
    BY <1>3, <1>8 DEF ChunksIn, AudioAt
  <1>11. ChunksIn(s) \subseteq ChunksIn(t) \cup X
    BY <1>3, <1>8 DEF ChunksIn, AudioAt
  <1>12. ASSUME NEW h, NEW past, NEW missed, Whole(s, h, past, missed)
         PROVE  Whole(t, h, past \cup X, missed \cup X)
    <2>1. \A x, y \in 0..Len(t) + 1 : x < y => g[x] < g[y]
      BY <1>5
    <2>2. \A x, y \in 0..Len(t) + 1 : Between(s, g[x], g[y]) \subseteq Between(t, x, y) \cup X
      <3> SUFFICES ASSUME NEW x \in 0..Len(t) + 1, NEW y \in 0..Len(t) + 1,
                          NEW l \in AudioAt(s), g[x] < l, l < g[y], s[l].n \notin X
                   PROVE  s[l].n \in Between(t, x, y)
        BY DEF Between
      <3>1. PICK k \in DOMAIN t : f[k] = l
        BY <1>3 DEF AudioAt
      <3>2. k \in AudioAt(t) /\ t[k] = s[l] /\ g[k] = l /\ k \in 0..Len(t) + 1
        BY <1>2, <1>3, <1>4, <1>8, <3>1
      <3>3. x < k /\ k < y
        BY <1>6, <3>2
      <3>4. QED
        BY <3>2, <3>3 DEF Between
    <2>3. \A k \in 1..Len(t) + 1 : EndedAt(t, h, k) = EndedAt(s, h, g[k]) /\ g[k] \in 1..Len(s) + 1
      <3> SUFFICES ASSUME NEW k \in 1..Len(t) + 1
                   PROVE  EndedAt(t, h, k) = EndedAt(s, h, g[k]) /\ g[k] \in 1..Len(s) + 1
        OBVIOUS
      <3>1. CASE k = Len(t) + 1
        BY <1>2, <1>4, <3>1 DEF EndedAt
      <3>2. CASE k # Len(t) + 1
        <4>1. k \in DOMAIN t /\ g[k] = f[k] /\ f[k] \in DOMAIN s /\ t[k] = s[f[k]]
          BY <1>2, <1>3, <1>4, <3>2
        <4>2. g[k] # Len(s) + 1 /\ g[k] \in 1..Len(s) + 1
          BY <1>2, <4>1
        <4>3. QED
          BY <3>2, <4>1, <4>2 DEF EndedAt
      <3>3. QED
        BY <3>1, <3>2
    <2>4. ASSUME NEW k \in 1..Len(t) + 1
          PROVE  EndedAt(t, h, k) \subseteq Between(t, 0, k) \cup past \cup X
      <3>1. EndedAt(s, h, g[k]) \subseteq Between(s, 0, g[k]) \cup past
        BY <1>12, <2>3 DEF Whole
      <3>2. g[0] = 0 /\ 0 \in 0..Len(t) + 1 /\ k \in 0..Len(t) + 1
        BY <1>2, <1>4
      <3>3. QED
        BY <2>2, <2>3, <3>1, <3>2
    <2>5. ASSUME NEW k \in 1..Len(t) + 1, NEW j \in DOMAIN t, j < k, IsStart(t[j])
          PROVE  EndedAt(t, h, k) \subseteq Between(t, j, k) \cup missed \cup X
      <3>1. g[j] = f[j] /\ f[j] \in DOMAIN s /\ IsStart(s[f[j]]) /\ g[j] < g[k]
            /\ j \in 0..Len(t) + 1 /\ k \in 0..Len(t) + 1
        BY <1>2, <1>3, <1>4, <2>1, <2>5
      <3>2. EndedAt(s, h, g[k]) \subseteq Between(s, g[j], g[k]) \cup missed
        BY <1>12, <2>3, <3>1 DEF Whole
      <3>3. QED
        BY <2>2, <2>3, <3>1, <3>2
    <2>6. QED
      BY <2>4, <2>5 DEF Whole
  <1>13. QED
    BY <1>7, <1>9, <1>10, <1>11, <1>12

(* An item appended. *)
LEMMA AppendKeeps ==
  ASSUME NEW s \in Seq(MicItem), NEW q \in MicItem
  PROVE  /\ Append(s, q) \in Seq(MicItem)
         /\ \A a, b \in BOOLEAN : Alternating(s, a, b) =>
              /\ ~IsStart(q) => Alternating(Append(s, q), a, b)
              /\ IsStop(q) => Alternating(Append(s, q), a, TRUE)
              /\ IsStart(q) /\ b => Alternating(Append(s, q), a, FALSE)
         /\ Distinct(s) /\ (IsAudio(q) => q.n \notin ChunksIn(s)) => Distinct(Append(s, q))
         /\ ChunksIn(Append(s, q)) = ChunksIn(s) \cup (IF IsAudio(q) THEN {q.n} ELSE {})
         /\ \A h, past, missed : Whole(s, h, past, missed) =>
              /\ \A h2 : (/\ ~IsStart(q) /\ (IsStop(q) => q.utterance \subseteq h)
                          /\ h2 \subseteq h \cup (IF IsAudio(q) THEN {q.n} ELSE {}))
                       => Whole(Append(s, q), h2, past, missed)
              /\ IsStart(q) => Whole(Append(s, q), {}, past, missed)
  <1> DEFINE t == Append(s, q)
  <1>1. /\ Len(s) \in Nat /\ DOMAIN s = 1..Len(s) /\ Len(t) = Len(s) + 1
        /\ DOMAIN t = 1..Len(s) + 1 /\ t \in Seq(MicItem)
        /\ \A i \in DOMAIN s : t[i] = s[i] /\ i # Len(s) + 1
        /\ t[Len(s) + 1] = q
        /\ \A i \in DOMAIN t : i \in DOMAIN s \/ i = Len(s) + 1
    BY AppendProperties, LenProperties
  <1> HIDE DEF t
  <1>2. ASSUME NEW a \in BOOLEAN, NEW b \in BOOLEAN, Alternating(s, a, b)
        PROVE  /\ ~IsStart(q) => Alternating(t, a, b)
               /\ IsStop(q) => Alternating(t, a, TRUE)
               /\ IsStart(q) /\ b => Alternating(t, a, FALSE)
    <2>1. ASSUME ~IsStart(q) PROVE Alternating(t, a, b)
      <3> SUFFICES ASSUME NEW i \in Opens(t, a, b), NEW j \in Opens(t, a, b), i < j
                   PROVE  \E k \in DOMAIN t : i < k /\ k < j /\ IsStop(t[k])
        BY DEF Alternating
      <3>1. i \in Opens(s, a, b)
        BY <1>1, <2>1 DEF Opens
      <3>2. PICK l \in Opens(s, a, b) : i < l /\ l <= j
        BY <1>1, <2>1 DEF Opens
      <3>3. PICK k \in DOMAIN s : i < k /\ k < l /\ IsStop(s[k])
        BY <1>2, <3>1, <3>2 DEF Alternating
      <3>4. l \in Int /\ j \in Int
        BY <1>1 DEF Opens
      <3>5. QED
        BY <1>1, <3>2, <3>3, <3>4
    <2>2. ASSUME IsStop(q) PROVE Alternating(t, a, TRUE)
      <3> SUFFICES ASSUME NEW i \in Opens(t, a, TRUE), NEW j \in Opens(t, a, TRUE), i < j
                   PROVE  \E k \in DOMAIN t : i < k /\ k < j /\ IsStop(t[k])
        BY DEF Alternating
      <3>1. ~IsStart(q)
        BY <2>2 DEF IsStart, IsStop
      <3>2. i \in Opens(s, a, b) /\ i \in Int /\ j \in Int /\ i < Len(s) + 1
        BY <1>1, <3>1 DEF Opens
      <3>3. CASE j = Len(t) + 1
        BY <1>1, <2>2, <3>2, <3>3
      <3>4. CASE j # Len(t) + 1
        <4>1. j \in Opens(s, a, b)
          BY <1>1, <3>1, <3>4 DEF Opens
        <4>2. QED
          BY <1>1, <1>2, <3>2, <4>1 DEF Alternating
      <3>5. QED
        BY <3>3, <3>4
    <2>3. ASSUME IsStart(q), b PROVE Alternating(t, a, FALSE)
      <3> SUFFICES ASSUME NEW i \in Opens(t, a, FALSE), NEW j \in Opens(t, a, FALSE), i < j
                   PROVE  \E k \in DOMAIN t : i < k /\ k < j /\ IsStop(t[k])
        BY DEF Alternating
      <3>1. i \in Opens(s, a, b) /\ j \in Opens(s, a, b)
        BY <1>1, <2>3 DEF Opens
      <3>2. QED
        BY <1>1, <1>2, <3>1 DEF Alternating
    <2>4. QED
      BY <2>1, <2>2, <2>3
  <1>3. AudioAt(t) = AudioAt(s) \cup (IF IsAudio(q) THEN {Len(s) + 1} ELSE {})
    BY <1>1 DEF AudioAt
  <1>4. ChunksIn(t) = ChunksIn(s) \cup (IF IsAudio(q) THEN {q.n} ELSE {})
    BY <1>1, <1>3 DEF ChunksIn, AudioAt
  <1>5. Distinct(s) /\ (IsAudio(q) => q.n \notin ChunksIn(s)) => Distinct(t)
    BY <1>1, <1>3 DEF ChunksIn, AudioAt, Distinct
  <1>6. \A i, j \in 0..Len(s) + 1 : Between(s, i, j) \subseteq Between(t, i, j)
    BY <1>1, <1>3 DEF Between, AudioAt
  <1>7. \A i \in 0..Len(s) : Between(t, i, Len(s) + 2) =
                                 Between(s, i, Len(s) + 1) \cup (IF IsAudio(q) THEN {q.n} ELSE {})
    BY <1>1, <1>3 DEF Between, AudioAt
  <1>8. ASSUME NEW h, NEW past, NEW missed, Whole(s, h, past, missed)
        PROVE  /\ \A k \in 1..Len(s) : EndedAt(t, {}, k) = EndedAt(s, h, k)
               /\ \A k \in 1..Len(s) : \A h2 : EndedAt(t, h2, k) = EndedAt(s, h, k)
               /\ EndedAt(s, h, Len(s) + 1) = h
               /\ \A h2 : EndedAt(t, h2, Len(s) + 2) = h2
               /\ \A h2 : EndedAt(t, h2, Len(s) + 1) = IF IsStop(q) THEN q.utterance ELSE {}
    BY <1>1 DEF EndedAt
  <1>9. ASSUME NEW h, NEW past, NEW missed, Whole(s, h, past, missed), NEW h2,
               ~IsStart(q), IsStop(q) => q.utterance \subseteq h,
               h2 \subseteq h \cup (IF IsAudio(q) THEN {q.n} ELSE {})
        PROVE  Whole(t, h2, past, missed)
    <2>1. \A j \in DOMAIN t : IsStart(t[j]) => j \in DOMAIN s /\ IsStart(s[j])
      BY <1>1, <1>9
    <2>2. \A k \in 1..Len(s) + 1 : /\ EndedAt(s, h, k) \subseteq Between(s, 0, k) \cup past
                                  /\ \A j \in DOMAIN s : j < k /\ IsStart(s[j]) =>
                                       EndedAt(s, h, k) \subseteq Between(s, j, k) \cup missed
      BY <1>9 DEF Whole
    <2>3. ASSUME NEW k \in 1..Len(t) + 1
          PROVE  /\ EndedAt(t, h2, k) \subseteq Between(t, 0, k) \cup past
                 /\ \A j \in DOMAIN t : j < k /\ IsStart(t[j]) =>
                      EndedAt(t, h2, k) \subseteq Between(t, j, k) \cup missed
      <3>1. CASE k \in 1..Len(s)
        <4>1. EndedAt(t, h2, k) = EndedAt(s, h, k) /\ k \in 0..Len(s) + 1 /\ k \in 1..Len(s) + 1
          BY <1>8, <1>9, <3>1, <1>1
        <4>2. 0 \in 0..Len(s) + 1 /\ \A j \in DOMAIN s : j \in 0..Len(s) + 1
          BY <1>1
        <4>3. QED
          BY <4>1, <4>2, <1>6, <2>1, <2>2
      <3>2. CASE k = Len(s) + 1
        <4>1. EndedAt(t, h2, k) \subseteq h /\ EndedAt(s, h, k) = h
          BY <1>8, <1>9, <3>2
        <4>2. 0 \in 0..Len(s) + 1 /\ \A j \in DOMAIN s : j \in 0..Len(s) + 1
          BY <1>1
        <4>3. k \in 0..Len(s) + 1 /\ k \in 1..Len(s) + 1
          BY <1>1, <3>2
        <4>4. QED
          BY <4>1, <4>2, <4>3, <1>6, <2>1, <2>2
      <3>3. CASE k = Len(s) + 2
        <4>1. EndedAt(t, h2, k) = h2 /\ EndedAt(s, h, Len(s) + 1) = h
          BY <1>8, <1>9, <3>3
        <4>2. 0 \in 0..Len(s) /\ \A j \in DOMAIN s : j \in 0..Len(s) /\ j < Len(s) + 1
          BY <1>1
        <4>3. Len(s) + 1 \in 1..Len(s) + 1
          BY <1>1
        <4>4. QED
          BY <4>1, <4>2, <4>3, <1>7, <1>9, <2>1, <2>2, <3>3
      <3>4. QED
        BY <1>1, <3>1, <3>2, <3>3
    <2>4. QED
      BY <2>3 DEF Whole
  <1>10. ASSUME NEW h, NEW past, NEW missed, Whole(s, h, past, missed), IsStart(q)
         PROVE  Whole(t, {}, past, missed)
    <2>1. \A k \in 1..Len(s) + 1 : /\ EndedAt(s, h, k) \subseteq Between(s, 0, k) \cup past
                                  /\ \A j \in DOMAIN s : j < k /\ IsStart(s[j]) =>
                                       EndedAt(s, h, k) \subseteq Between(s, j, k) \cup missed
      BY <1>10 DEF Whole
    <2>2. ASSUME NEW k \in 1..Len(t) + 1
          PROVE  /\ EndedAt(t, {}, k) \subseteq Between(t, 0, k) \cup past
                 /\ \A j \in DOMAIN t : j < k /\ IsStart(t[j]) =>
                      EndedAt(t, {}, k) \subseteq Between(t, j, k) \cup missed
      <3>1. CASE k \in 1..Len(s)
        <4>1. EndedAt(t, {}, k) = EndedAt(s, h, k) /\ k \in 0..Len(s) + 1 /\ k \in 1..Len(s) + 1
          BY <1>8, <1>10, <3>1, <1>1
        <4>2. 0 \in 0..Len(s) + 1 /\ \A j \in DOMAIN s : j \in 0..Len(s) + 1
          BY <1>1
        <4>3. \A j \in DOMAIN t : j < k => j \in DOMAIN s /\ t[j] = s[j]
          BY <1>1, <3>1
        <4>4. QED
          BY <4>1, <4>2, <4>3, <1>6, <2>1
      <3>2. CASE k \in {Len(s) + 1, Len(s) + 2}
        <4>1. ~IsStop(q)
          BY <1>10 DEF IsStart, IsStop
        <4>2. EndedAt(t, {}, k) = {}
          BY <1>1, <3>2, <4>1 DEF EndedAt
        <4>3. QED
          BY <4>2
      <3>3. QED
        BY <1>1, <3>1, <3>2
    <2>3. QED
      BY <2>2 DEF Whole
  <1>11. QED
    BY <1>1, <1>2, <1>4, <1>5, <1>9, <1>10 DEF t

(* The first item taken. *)
LEMMA TailKeeps ==
  ASSUME NEW s \in Seq(MicItem), s # <<>>
  PROVE  /\ Head(s) \in MicItem /\ Tail(s) \in Seq(MicItem)
         /\ \A a, b \in BOOLEAN : Alternating(s, a, b) =>
              /\ IsStart(Head(s)) => ~a /\ Alternating(Tail(s), TRUE, b)
              /\ Alternating(Tail(s), FALSE, b)
              /\ IsAudio(Head(s)) => Alternating(Tail(s), a, b)
         /\ Distinct(s) => /\ Distinct(Tail(s))
                           /\ IsAudio(Head(s)) => Head(s).n \notin ChunksIn(Tail(s))
         /\ ChunksIn(s) = ChunksIn(Tail(s)) \cup (IF IsAudio(Head(s)) THEN {Head(s).n} ELSE {})
         /\ \A h, past, missed : Whole(s, h, past, missed) =>
              /\ Whole(Tail(s), h, past \cup (IF IsAudio(Head(s)) THEN {Head(s).n} ELSE {}), missed)
              /\ IsStop(Head(s)) => Head(s).utterance \subseteq past
              /\ IsStart(Head(s)) => Whole(Tail(s), h, missed, missed)
  <1> DEFINE t == Tail(s)
             q == Head(s)
  <1>1. /\ Len(s) \in Nat /\ DOMAIN s = 1..Len(s) /\ Len(s) # 0 /\ Len(t) = Len(s) - 1
        /\ DOMAIN t = 1..Len(s) - 1 /\ t \in Seq(MicItem) /\ q \in MicItem
        /\ \A i \in DOMAIN t : t[i] = s[i + 1] /\ i + 1 \in DOMAIN s
        /\ q = s[1] /\ 1 \in DOMAIN s
        /\ \A i \in DOMAIN s : i = 1 \/ (i - 1 \in DOMAIN t /\ s[i] = t[i - 1])
    <2>1. /\ Len(s) \in Nat /\ DOMAIN s = 1..Len(s) /\ Len(s) # 0 /\ Len(t) = Len(s) - 1
          /\ \A i \in 1..Len(t) : t[i] = s[i + 1]
          /\ t \in Seq(MicItem) /\ q \in MicItem
      BY HeadTailProperties, LenProperties, EmptySeq
    <2>2. DOMAIN t = 1..Len(s) - 1
      BY <2>1, LenProperties
    <2>3. q = s[1]
      OBVIOUS
    <2> HIDE DEF t, q
    <2>4. QED
      BY <2>1, <2>2, <2>3
  <1> HIDE DEF t, q
  <1>2. ASSUME NEW a \in BOOLEAN, NEW b \in BOOLEAN, Alternating(s, a, b)
        PROVE  /\ IsStart(q) => ~a /\ Alternating(t, TRUE, b)
               /\ Alternating(t, FALSE, b)
               /\ IsAudio(q) => Alternating(t, a, b)
    <2>1. \A x \in Opens(t, FALSE, b) : x + 1 \in Opens(s, a, b) /\ x \in Nat
      BY <1>1 DEF Opens
    <2>2. ASSUME NEW i \in Nat, NEW j \in Nat, i + 1 \in Opens(s, a, b), j + 1 \in Opens(s, a, b),
                 i < j
          PROVE  \E k \in DOMAIN t : i < k /\ k < j /\ IsStop(t[k])
      <3>1. PICK k \in DOMAIN s : i + 1 < k /\ k < j + 1 /\ IsStop(s[k])
        BY <1>2, <2>2 DEF Alternating
      <3>2. k - 1 \in DOMAIN t /\ i < k - 1 /\ k - 1 < j /\ t[k - 1] = s[k]
        BY <1>1, <3>1
      <3>3. QED
        BY <3>1, <3>2
    <2>3. Alternating(t, FALSE, b)
      BY <2>1, <2>2 DEF Alternating
    <2>4. ASSUME IsStart(q) PROVE ~a /\ Alternating(t, TRUE, b)
      <3>1. 1 \in Opens(s, a, b)
        BY <1>1, <2>4 DEF Opens
      <3>2. ~a
        <4> SUFFICES ASSUME a PROVE FALSE
          OBVIOUS
        <4>1. 0 \in Opens(s, a, b)
          BY DEF Opens
        <4>2. \E k \in DOMAIN s : 0 < k /\ k < 1 /\ IsStop(s[k])
          <5>1. 0 < 1
            OBVIOUS
          <5>2. QED
            BY <1>2, <3>1, <4>1, <5>1, Zenon DEF Alternating
        <4>3. QED
          BY <1>1, <4>2
      <3>3. \A x \in Opens(t, TRUE, b) : x \in Opens(t, FALSE, b) \/ x = 0
        BY DEF Opens
      <3>4. \A x \in Opens(t, TRUE, b) : x + 1 \in Opens(s, a, b) /\ x \in Nat
        <4>1. 0 + 1 \in Opens(s, a, b) /\ 0 \in Nat
          <5>1. 0 + 1 = 1
            OBVIOUS
          <5>2. QED
            BY <3>1, <5>1, Zenon
        <4>2. QED
          BY <2>1, <3>3, <4>1, Zenon
      <3>5. QED
        BY <2>2, <3>2, <3>4 DEF Alternating
    <2>5. ASSUME IsAudio(q) PROVE Alternating(t, a, b)
      <3> SUFFICES ASSUME NEW i \in Opens(t, a, b), NEW j \in Opens(t, a, b), i < j
                   PROVE  \E k \in DOMAIN t : i < k /\ k < j /\ IsStop(t[k])
        BY DEF Alternating
      <3>1. (i = 0 /\ a) \/ i \in Opens(t, FALSE, b)
        BY DEF Opens
      <3>2. j \in Opens(t, FALSE, b)
        BY <1>1, <3>1, <2>1 DEF Opens
      <3>3. CASE i = 0 /\ a
        <4>1. 0 \in Opens(s, a, b) /\ j + 1 \in Opens(s, a, b) /\ j \in Nat
          BY <2>1, <3>2, <3>3 DEF Opens
        <4>2. PICK k \in DOMAIN s : 0 < k /\ k < j + 1 /\ IsStop(s[k])
          BY <1>2, <4>1 DEF Alternating
        <4>3. k # 1
          BY <1>1, <2>5, <4>2 DEF IsStop, IsAudio
        <4>4. k - 1 \in DOMAIN t /\ 0 < k - 1 /\ k - 1 < j /\ t[k - 1] = s[k]
          BY <1>1, <4>1, <4>2, <4>3
        <4>5. QED
          BY <3>3, <4>2, <4>4
      <3>4. CASE i \in Opens(t, FALSE, b)
        BY <2>1, <2>2, <3>2, <3>4
      <3>5. QED
        BY <3>1, <3>3, <3>4
    <2>6. QED
      BY <2>3, <2>4, <2>5
  <1>3. /\ \A i \in AudioAt(t) : i \in DOMAIN t /\ i + 1 \in AudioAt(s) /\ s[i + 1] = t[i]
        /\ \A i \in AudioAt(s) :
             i \in DOMAIN s /\ (i = 1 \/ (i - 1 \in AudioAt(t) /\ t[i - 1] = s[i]))
        /\ 1 \in AudioAt(s) <=> IsAudio(q)
    BY <1>1 DEF AudioAt
  <1>4. ChunksIn(s) = ChunksIn(t) \cup (IF IsAudio(q) THEN {q.n} ELSE {})
    <2>1. \A x \in ChunksIn(s) : x \in ChunksIn(t) \/ (IsAudio(q) /\ x = q.n)
      <3> SUFFICES ASSUME NEW i \in AudioAt(s)
                   PROVE  s[i].n \in ChunksIn(t) \/ (IsAudio(q) /\ s[i].n = q.n)
        BY DEF ChunksIn
      <3>1. CASE i = 1
        BY <1>1, <1>3, <3>1
      <3>2. CASE i - 1 \in AudioAt(t) /\ t[i - 1] = s[i]
        BY <3>2 DEF ChunksIn
      <3>3. QED
        BY <1>3, <3>1, <3>2
    <2>2. \A x \in ChunksIn(t) : x \in ChunksIn(s)
      <3> SUFFICES ASSUME NEW i \in AudioAt(t) PROVE t[i].n \in ChunksIn(s)
        BY DEF ChunksIn
      <3>1. i + 1 \in AudioAt(s) /\ s[i + 1] = t[i]
        BY <1>3
      <3>2. QED
        BY <3>1 DEF ChunksIn
    <2>3. IsAudio(q) => q.n \in ChunksIn(s)
      BY <1>1, <1>3 DEF ChunksIn
    <2>4. QED
      BY <2>1, <2>2, <2>3
  <1>5. ASSUME Distinct(s)
        PROVE  Distinct(t) /\ (IsAudio(q) => q.n \notin ChunksIn(t))
    <2>1. Distinct(t)
      <3> SUFFICES ASSUME NEW i \in AudioAt(t), NEW j \in AudioAt(t), t[i].n = t[j].n
                   PROVE  i = j
        BY DEF Distinct
      <3>1. i + 1 = j + 1
        BY <1>3, <1>5 DEF Distinct
      <3>2. QED
        BY <1>1, <1>3, <3>1
    <2>2. ASSUME IsAudio(q), q.n \in ChunksIn(t) PROVE FALSE
      <3>1. PICK i \in AudioAt(t) : t[i].n = q.n
        BY <2>2 DEF ChunksIn
      <3>2. i + 1 = 1
        BY <1>1, <1>3, <1>5, <2>2, <3>1 DEF Distinct
      <3>3. QED
        BY <1>1, <1>3, <3>2
    <2>3. QED
      BY <2>1, <2>2
  <1>6. \A i, j \in 1..Len(s) + 1 : Between(s, i, j) \subseteq Between(t, i - 1, j - 1)
    <2> SUFFICES ASSUME NEW i \in 1..Len(s) + 1, NEW j \in 1..Len(s) + 1,
                        NEW k \in AudioAt(s), i < k, k < j
                 PROVE  s[k].n \in Between(t, i - 1, j - 1)
      BY DEF Between
    <2>1. k - 1 \in AudioAt(t) /\ t[k - 1] = s[k] /\ k \in Int
      BY <1>1, <1>3
    <2>2. i - 1 < k - 1 /\ k - 1 < j - 1
      BY <1>1, <2>1
    <2>3. QED
      BY <2>1, <2>2 DEF Between
  <1>7. \A j \in 1..Len(s) + 1 : Between(s, 0, j) \subseteq
                      Between(t, 0, j - 1) \cup (IF IsAudio(q) THEN {q.n} ELSE {})
    <2> SUFFICES ASSUME NEW j \in 1..Len(s) + 1, NEW k \in AudioAt(s), 0 < k, k < j
                 PROVE  s[k].n \in Between(t, 0, j - 1) \cup (IF IsAudio(q) THEN {q.n} ELSE {})
      BY DEF Between
    <2>1. CASE k = 1
      BY <1>1, <1>3, <2>1
    <2>2. CASE k # 1
      <3>1. k - 1 \in AudioAt(t) /\ t[k - 1] = s[k] /\ k \in Int /\ 0 < k - 1 /\ k - 1 < j - 1
        BY <1>1, <1>3, <2>2
      <3>2. QED
        BY <3>1 DEF Between
    <2>3. QED
      BY <2>1, <2>2
  <1>8. ASSUME NEW h, NEW k \in 1..Len(t) + 1
        PROVE  EndedAt(t, h, k) = EndedAt(s, h, k + 1)
    <2>1. CASE k = Len(t) + 1
      BY <1>1, <2>1 DEF EndedAt
    <2>2. CASE k # Len(t) + 1
      <3>1. k \in DOMAIN t /\ k + 1 # Len(s) + 1 /\ t[k] = s[k + 1]
        <4>1. Len(s) \in Nat /\ Len(t) = Len(s) - 1 /\ DOMAIN t = 1..Len(s) - 1
          BY <1>1
        <4>2. k \in 1..Len(s) /\ k # Len(s)
          BY <4>1, <2>2
        <4>3. k \in DOMAIN t /\ k + 1 # Len(s) + 1
          BY <4>1, <4>2
        <4>4. QED
          BY <1>1, <4>3
      <3>2. QED
        BY <2>2, <3>1 DEF EndedAt
    <2>3. QED
      BY <2>1, <2>2
  <1>9. ASSUME NEW h, NEW past, NEW missed, Whole(s, h, past, missed)
        PROVE  /\ Whole(t, h, past \cup (IF IsAudio(q) THEN {q.n} ELSE {}), missed)
               /\ IsStop(q) => q.utterance \subseteq past
               /\ IsStart(q) => Whole(t, h, missed, missed)
    <2>1. \A k \in 1..Len(s) + 1 : /\ EndedAt(s, h, k) \subseteq Between(s, 0, k) \cup past
                                  /\ \A j \in DOMAIN s : j < k /\ IsStart(s[j]) =>
                                       EndedAt(s, h, k) \subseteq Between(s, j, k) \cup missed
      BY <1>9 DEF Whole
    <2>2. \A k \in 1..Len(t) + 1 : \A j \in DOMAIN t : j < k /\ IsStart(t[j]) =>
                                       EndedAt(t, h, k) \subseteq Between(t, j, k) \cup missed
      <3> SUFFICES ASSUME NEW k \in 1..Len(t) + 1, NEW j \in DOMAIN t, j < k, IsStart(t[j])
                   PROVE  EndedAt(t, h, k) \subseteq Between(t, j, k) \cup missed
        OBVIOUS
      <3>1. /\ k + 1 \in 1..Len(s) + 1 /\ j + 1 \in DOMAIN s /\ j + 1 < k + 1
            /\ IsStart(s[j + 1]) /\ j + 1 \in 1..Len(s) + 1
            /\ (k + 1) - 1 = k /\ (j + 1) - 1 = j
        BY <1>1
      <3>2. EndedAt(s, h, k + 1) \subseteq Between(s, j + 1, k + 1) \cup missed
        BY <2>1, <3>1
      <3>3. Between(s, j + 1, k + 1) \subseteq Between(t, (j + 1) - 1, (k + 1) - 1)
        BY <1>6, <3>1
      <3>4. QED
        BY <1>8, <3>1, <3>2, <3>3
    <2>3. \A k \in 1..Len(t) + 1 : EndedAt(t, h, k) \subseteq
             Between(t, 0, k) \cup past \cup (IF IsAudio(q) THEN {q.n} ELSE {})
      <3> SUFFICES ASSUME NEW k \in 1..Len(t) + 1
                   PROVE  EndedAt(t, h, k) \subseteq
                            Between(t, 0, k) \cup past \cup (IF IsAudio(q) THEN {q.n} ELSE {})
        OBVIOUS
      <3>1. k + 1 \in 1..Len(s) + 1 /\ (k + 1) - 1 = k
        BY <1>1
      <3>2. Between(s, 0, k + 1) \subseteq
              Between(t, 0, (k + 1) - 1) \cup (IF IsAudio(q) THEN {q.n} ELSE {})
        BY <1>7, <3>1
      <3>3. EndedAt(s, h, k + 1) \subseteq Between(s, 0, k + 1) \cup past
        BY <2>1, <3>1
      <3>4. QED
        BY <1>8, <3>1, <3>2, <3>3
    <2>4. Whole(t, h, past \cup (IF IsAudio(q) THEN {q.n} ELSE {}), missed)
      BY <2>2, <2>3 DEF Whole
    <2>5. ASSUME IsStop(q) PROVE q.utterance \subseteq past
      <3>1. 1 \in 1..Len(s) + 1 /\ 1 # Len(s) + 1
        BY <1>1
      <3>2. EndedAt(s, h, 1) = q.utterance
        BY <1>1, <2>5, <3>1 DEF EndedAt
      <3>3. Between(s, 0, 1) = {}
        BY <1>1 DEF Between, AudioAt
      <3>4. QED
        BY <2>1, <3>1, <3>2, <3>3
    <2>6. ASSUME IsStart(q) PROVE Whole(t, h, missed, missed)
      <3>1. ASSUME NEW k \in 1..Len(t) + 1
            PROVE  EndedAt(t, h, k) \subseteq Between(t, 0, k) \cup missed
        <4>1. k + 1 \in 1..Len(s) + 1 /\ (k + 1) - 1 = k /\ 1 - 1 = 0 /\ 1 < k + 1
              /\ 1 \in 1..Len(s) + 1
          BY <1>1
        <4>2. Between(s, 1, k + 1) \subseteq Between(t, 1 - 1, (k + 1) - 1)
          BY <1>6, <4>1
        <4>3. EndedAt(s, h, k + 1) \subseteq Between(s, 1, k + 1) \cup missed
          BY <1>1, <2>1, <2>6, <4>1
        <4>4. QED
          BY <1>8, <4>1, <4>2, <4>3
      <3>2. QED
        BY <2>2, <3>1 DEF Whole
    <2>7. QED
      BY <2>4, <2>5, <2>6
  <1>10. QED
    BY <1>1, <1>2, <1>4, <1>5, <1>9 DEF t, q

(* Two lanes in a row. *)
LEMMA Concat ==
  ASSUME NEW s \in Seq(MicItem), NEW t \in Seq(MicItem)
  PROVE  /\ s \o t \in Seq(MicItem) /\ Len(s \o t) = Len(s) + Len(t)
         /\ Len(s) \in Nat /\ Len(t) \in Nat
         /\ DOMAIN s = 1..Len(s) /\ DOMAIN t = 1..Len(t) /\ DOMAIN (s \o t) = 1..Len(s) + Len(t)
         /\ \A i \in DOMAIN s : (s \o t)[i] = s[i] /\ i \in DOMAIN (s \o t)
         /\ \A i \in DOMAIN t : (s \o t)[Len(s) + i] = t[i] /\ Len(s) + i \in DOMAIN (s \o t)
         /\ \A i \in DOMAIN (s \o t) : i \in DOMAIN s \/ (i > Len(s) /\ i - Len(s) \in DOMAIN t)
  <1>1. /\ s \o t \in Seq(MicItem) /\ Len(s \o t) = Len(s) + Len(t)
        /\ Len(s) \in Nat /\ Len(t) \in Nat
        /\ DOMAIN s = 1..Len(s) /\ DOMAIN t = 1..Len(t)
        /\ \A i \in 1..Len(s) + Len(t) :
             (s \o t)[i] = IF i <= Len(s) THEN s[i] ELSE t[i - Len(s)]
    BY ConcatProperties, LenProperties
  <1>2. DOMAIN (s \o t) = 1..Len(s) + Len(t)
    BY <1>1, LenProperties
  <1>3. ASSUME NEW i \in DOMAIN t
        PROVE  (s \o t)[Len(s) + i] = t[i] /\ Len(s) + i \in DOMAIN (s \o t)
    <2>1. Len(s) + i \in 1..Len(s) + Len(t) /\ ~(Len(s) + i <= Len(s)) /\ (Len(s) + i) - Len(s) = i
      BY <1>1
    <2>2. QED
      BY <1>1, <1>2, <2>1
  <1>4. QED
    BY <1>1, <1>2, <1>3

(* What is appended to the second lane is appended to the row; what moves  *)
(* from one lane to the other leaves the row as it is; and what is taken   *)
(* from the first lane is taken from the row.                              *)
LEMMA RowMoves ==
  ASSUME NEW s \in Seq(MicItem), NEW t \in Seq(MicItem)
  PROVE  /\ \A q \in MicItem : s \o Append(t, q) = Append(s \o t, q)
         /\ t # <<>> => Append(s, Head(t)) \o Tail(t) = s \o t
         /\ s # <<>> => /\ s \o t # <<>> /\ Head(s \o t) = Head(s)
                        /\ Tail(s \o t) = Tail(s) \o t
  <1>1. ASSUME NEW q \in MicItem PROVE s \o Append(t, q) = Append(s \o t, q)
    BY SMT
  <1>2. ASSUME t # <<>> PROVE Append(s, Head(t)) \o Tail(t) = s \o t
    BY <1>2, SMT
  <1>3. ASSUME s # <<>> PROVE s \o t # <<>> /\ Head(s \o t) = Head(s) /\ Tail(s \o t) = Tail(s) \o t
    BY <1>3, SMT
  <1>4. QED
    BY <1>1, <1>2, <1>3

(* A lane thinned thins the row. *)
LEMMA ThinConcat ==
  ASSUME NEW s \in Seq(MicItem), NEW t \in Seq(MicItem), NEW u \in Seq(MicItem), NEW X,
         Thinned(s, t, X)
  PROVE  Thinned(s \o u, t \o u, X) /\ Thinned(u \o s, u \o t, X)
  <1>1. PICK f : Embeds(f, s, t, X)
    BY DEF Thinned
  <1>2. /\ f \in [DOMAIN t -> DOMAIN s]
        /\ \A i, j \in DOMAIN t : i < j => f[i] < f[j]
        /\ \A i \in DOMAIN t : t[i] = s[f[i]]
        /\ \A i \in DOMAIN s :
             (\E k \in DOMAIN t : f[k] = i) \/ (IsAudio(s[i]) /\ s[i].n \in X)
    BY <1>1 DEF Embeds
  <1>3. /\ Len(s) \in Nat /\ DOMAIN s = 1..Len(s)
        /\ Len(t) \in Nat /\ DOMAIN t = 1..Len(t)
        /\ Len(u) \in Nat /\ DOMAIN u = 1..Len(u)
    BY LenProperties
  <1>4. ASSUME NEW i \in DOMAIN t PROVE f[i] \in 1..Len(s)
    BY <1>2, <1>3
  <1>5. Thinned(s \o u, t \o u, X)
    <2> DEFINE a == s \o u
               b == t \o u
               g == [i \in 1..Len(t) + Len(u) |-> IF i <= Len(t) THEN f[i] ELSE i - Len(t) + Len(s)]
    <2>1. /\ DOMAIN a = 1..Len(s) + Len(u) /\ DOMAIN b = 1..Len(t) + Len(u)
          /\ \A i \in DOMAIN s : a[i] = s[i]
          /\ \A i \in DOMAIN t : b[i] = t[i]
          /\ \A i \in DOMAIN u : a[Len(s) + i] = u[i] /\ b[Len(t) + i] = u[i]
      BY Concat, SMTT(30)
    <2>2. /\ DOMAIN g = 1..Len(t) + Len(u)
          /\ \A i \in DOMAIN t : g[i] = f[i]
          /\ \A i \in DOMAIN u : g[Len(t) + i] = Len(s) + i
          /\ \A i \in 1..Len(t) + Len(u) : i \in DOMAIN t \/ (i - Len(t) \in DOMAIN u /\ i > Len(t)
                                                          /\ i = Len(t) + (i - Len(t)))
      BY <1>3
    <2> HIDE DEF a, b, g
    <2>3. ASSUME NEW i \in DOMAIN b
          PROVE  g[i] \in DOMAIN a /\ b[i] = a[g[i]]
      <3>1. CASE i \in DOMAIN t
        BY <1>2, <1>3, <1>4, <2>1, <2>2, <3>1
      <3>2. CASE i - Len(t) \in DOMAIN u /\ i = Len(t) + (i - Len(t))
        <4> DEFINE k == i - Len(t)
        <4>1. k \in DOMAIN u /\ i = Len(t) + k
          BY <3>2
        <4> HIDE DEF k
        <4>2. g[i] = Len(s) + k /\ b[i] = u[k] /\ a[Len(s) + k] = u[k]
          BY <2>1, <2>2, <4>1
        <4>3. Len(s) + k \in 1..Len(s) + Len(u)
          BY <1>3, <4>1
        <4>4. QED
          BY <2>1, <4>2, <4>3
      <3>3. QED
        BY <2>1, <2>2, <3>1, <3>2
    <2>4. g \in [DOMAIN b -> DOMAIN a]
      <3>1. g = [i \in DOMAIN b |-> g[i]]
        BY <2>1 DEF g
      <3>2. QED
        BY <2>3, <3>1
    <2>5. ASSUME NEW i \in DOMAIN b, NEW j \in DOMAIN b, i < j
          PROVE  g[i] < g[j]
      <3>1. i \in 1..Len(t) + Len(u) /\ j \in 1..Len(t) + Len(u)
        BY <2>1
      <3>2. CASE j <= Len(t)
        <4>1. i \in DOMAIN t /\ j \in DOMAIN t
          BY <1>3, <2>5, <3>1, <3>2
        <4>2. QED
          BY <1>2, <2>2, <2>5, <4>1
      <3>3. CASE i <= Len(t) /\ ~(j <= Len(t))
        <4>1. g[i] = f[i] /\ f[i] \in 1..Len(s) /\ g[j] = j - Len(t) + Len(s)
          BY <1>3, <1>4, <3>1, <3>3 DEF g
        <4>2. QED
          BY <1>3, <3>1, <3>3, <4>1
      <3>4. CASE ~(i <= Len(t))
        <4>1. ~(j <= Len(t))
          BY <1>3, <2>5, <3>1, <3>4
        <4>2. g[i] = i - Len(t) + Len(s) /\ g[j] = j - Len(t) + Len(s)
          BY <3>1, <3>4, <4>1 DEF g
        <4>3. QED
          BY <1>3, <2>5, <3>1, <4>2
      <3>5. QED
        BY <3>2, <3>3, <3>4
    <2>6. ASSUME NEW i \in DOMAIN a
          PROVE  (\E k \in DOMAIN b : g[k] = i) \/ (IsAudio(a[i]) /\ a[i].n \in X)
      <3>1. CASE i <= Len(s)
        <4>1. i \in DOMAIN s /\ a[i] = s[i]
          BY <1>3, <2>1, <3>1
        <4>2. \A k \in DOMAIN t : k \in DOMAIN b /\ g[k] = f[k]
          BY <1>3, <2>1, <2>2
        <4>3. QED
          BY <1>2, <4>1, <4>2
      <3>2. CASE ~(i <= Len(s))
        <4>1. i - Len(s) + Len(t) \in DOMAIN b /\ ~(i - Len(s) + Len(t) <= Len(t))
          BY <1>3, <2>1, <3>2
        <4>2. g[i - Len(s) + Len(t)] = i
          BY <1>3, <2>1, <4>1 DEF g
        <4>3. QED
          BY <4>1, <4>2
      <3>3. QED
        BY <3>1, <3>2
    <2>7. Embeds(g, a, b, X)
      BY <2>3, <2>4, <2>5, <2>6 DEF Embeds
    <2>8. QED
      BY <2>7 DEF Thinned, a, b
  <1>6. Thinned(u \o s, u \o t, X)
    <2> DEFINE a == u \o s
               b == u \o t
               g == [i \in 1..Len(u) + Len(t) |-> IF i <= Len(u) THEN i ELSE Len(u) + f[i - Len(u)]]
    <2>1. /\ DOMAIN a = 1..Len(u) + Len(s) /\ DOMAIN b = 1..Len(u) + Len(t)
          /\ \A i \in DOMAIN u : a[i] = u[i] /\ b[i] = u[i]
          /\ \A i \in DOMAIN s : a[Len(u) + i] = s[i]
          /\ \A i \in DOMAIN t : b[Len(u) + i] = t[i]
      BY Concat
    <2>2. /\ \A i \in 1..Len(u) : i \in 1..Len(u) + Len(t) /\ g[i] = i
          /\ \A i \in 1..Len(u) + Len(t) : ~(i <= Len(u)) => /\ i - Len(u) \in 1..Len(t)
                                                         /\ g[i] = Len(u) + f[i - Len(u)]
                                                         /\ i = Len(u) + (i - Len(u))
      BY <1>3
    <2>3. \A k \in 1..Len(t) : Len(u) + k \in 1..Len(u) + Len(t) /\ g[Len(u) + k] = Len(u) + f[k]
      <3> SUFFICES ASSUME NEW k \in 1..Len(t)
                   PROVE  Len(u) + k \in 1..Len(u) + Len(t) /\ g[Len(u) + k] = Len(u) + f[k]
        OBVIOUS
      <3>1. /\ Len(u) + k \in 1..Len(u) + Len(t)
            /\ ~(Len(u) + k <= Len(u)) /\ (Len(u) + k) - Len(u) = k
        BY <1>3
      <3>2. QED
        BY <3>1
    <2>4. g = [i \in DOMAIN b |-> g[i]]
      BY <2>1
    <2> HIDE DEF a, b, g
    <2>5. ASSUME NEW i \in DOMAIN b
          PROVE  g[i] \in DOMAIN a /\ b[i] = a[g[i]]
      <3>1. CASE i <= Len(u)
        <4>1. i \in 1..Len(u) /\ i \in 1..Len(u) + Len(s)
          BY <1>3, <2>1, <3>1
        <4>2. QED
          BY <1>3, <2>1, <2>2, <4>1
      <3>2. CASE ~(i <= Len(u))
        <4>1. PICK k \in 1..Len(t) : i = Len(u) + k
          BY <2>1, <2>2, <3>2
        <4>2. g[i] = Len(u) + f[k] /\ b[i] = t[k] /\ f[k] \in 1..Len(s)
          BY <1>3, <1>4, <2>1, <2>3, <4>1
        <4>3. a[Len(u) + f[k]] = s[f[k]] /\ t[k] = s[f[k]]
          BY <1>2, <1>3, <2>1, <4>2
        <4>4. Len(u) + f[k] \in 1..Len(u) + Len(s)
          BY <1>3, <4>2
        <4>5. QED
          BY <2>1, <4>2, <4>3, <4>4
      <3>3. QED
        BY <3>1, <3>2
    <2>6. g \in [DOMAIN b -> DOMAIN a]
      BY <2>4, <2>5
    <2>7. ASSUME NEW i \in DOMAIN b, NEW j \in DOMAIN b, i < j
          PROVE  g[i] < g[j]
      <3>1. i \in 1..Len(u) + Len(t) /\ j \in 1..Len(u) + Len(t)
        BY <2>1
      <3>2. CASE j <= Len(u)
        <4>1. i \in 1..Len(u) /\ j \in 1..Len(u)
          BY <1>3, <2>7, <3>1, <3>2
        <4>2. QED
          BY <2>2, <2>7, <4>1
      <3>3. CASE i <= Len(u) /\ ~(j <= Len(u))
        <4>1. i \in 1..Len(u)
          BY <1>3, <3>1, <3>3
        <4>2. PICK k \in 1..Len(t) : j = Len(u) + k
          BY <2>2, <3>1, <3>3
        <4>3. g[i] = i /\ g[j] = Len(u) + f[k] /\ f[k] \in 1..Len(s)
          BY <1>3, <1>4, <2>2, <2>3, <4>1, <4>2
        <4>4. QED
          BY <1>3, <4>1, <4>3
      <3>4. CASE ~(i <= Len(u))
        <4>1. ~(j <= Len(u))
          BY <1>3, <2>7, <3>1, <3>4
        <4>2. PICK k \in 1..Len(t) : i = Len(u) + k
          BY <2>2, <3>1, <3>4
        <4>3. PICK l \in 1..Len(t) : j = Len(u) + l
          BY <2>2, <3>1, <4>1
        <4>4. /\ g[i] = Len(u) + f[k] /\ g[j] = Len(u) + f[l]
              /\ f[k] \in 1..Len(s) /\ f[l] \in 1..Len(s)
          BY <1>3, <1>4, <2>3, <4>2, <4>3
        <4>5. k < l
          BY <1>3, <2>7, <4>2, <4>3
        <4>6. f[k] < f[l]
          BY <1>2, <1>3, <4>5
        <4>7. QED
          BY <1>3, <4>4, <4>6
      <3>5. QED
        BY <3>2, <3>3, <3>4
    <2>8. ASSUME NEW i \in DOMAIN a
          PROVE  (\E k \in DOMAIN b : g[k] = i) \/ (IsAudio(a[i]) /\ a[i].n \in X)
      <3>1. CASE i <= Len(u)
        <4>1. i \in 1..Len(u)
          BY <1>3, <2>1, <3>1
        <4>2. QED
          BY <2>1, <2>2, <4>1
      <3>2. CASE ~(i <= Len(u))
        <4>1. PICK l \in 1..Len(s) : i = Len(u) + l
          <5>1. i - Len(u) \in 1..Len(s) /\ i = Len(u) + (i - Len(u))
            BY <1>3, <2>1, <3>2
          <5>2. QED
            BY <5>1
        <4>2. a[i] = s[l]
          BY <1>3, <2>1, <4>1
        <4>3. CASE \E k \in DOMAIN t : f[k] = l
          <5>1. PICK k \in 1..Len(t) : f[k] = l
            BY <1>3, <4>3
          <5>2. Len(u) + k \in DOMAIN b /\ g[Len(u) + k] = i
            BY <2>1, <2>3, <4>1, <5>1
          <5>3. QED
            BY <5>2
        <4>4. CASE IsAudio(s[l]) /\ s[l].n \in X
          BY <4>2, <4>4
        <4>5. QED
          BY <1>2, <1>3, <4>3, <4>4
      <3>3. QED
        BY <3>1, <3>2
    <2>9. Embeds(g, a, b, X)
      BY <2>5, <2>6, <2>7, <2>8 DEF Embeds
    <2>10. QED
      BY <2>9 DEF Thinned, a, b
  <1>7. QED
    BY <1>5, <1>6

(* A sequence is thinned by what it loses. *)
LEMMA ThinKept ==
  ASSUME NEW s \in Seq(MicItem), Distinct(s), NEW A \in SUBSET AudioAt(s)
  PROVE  LET t == KeepAt(s, DOMAIN s \ A)
         IN t \in Seq(MicItem) /\ Thinned(s, t, ChunksIn(s) \ ChunksIn(t))
  <1> DEFINE K == DOMAIN s \ A
             t == KeepAt(s, K)
             f == [k \in 1..Cardinality(K) |-> Nth(K, k)]
  <1>1. /\ Len(s) \in Nat /\ DOMAIN s = 1..Len(s)
        /\ K \in SUBSET (1..Len(s)) /\ K \in SUBSET (DOMAIN s)
    BY LenProperties
  <1>2. /\ t \in Seq(MicItem) /\ DOMAIN t = 1..Cardinality(K)
        /\ \A k \in 1..Cardinality(K) : Nth(K, k) \in K /\ t[k] = s[Nth(K, k)]
        /\ \A k, l \in 1..Cardinality(K) : k < l => Nth(K, k) < Nth(K, l)
        /\ \A i \in K : Rank(K, i) \in 1..Cardinality(K)
    BY <1>1, KeepAtSubsequence, ZenonT(30)
  <1>3. \A i \in K : Nth(K, Rank(K, i)) = i
    BY <1>1, NthEnumerates
  <1> HIDE DEF t
  <1>4. f \in [DOMAIN t -> DOMAIN s]
    BY <1>1, <1>2
  <1>5. \A i \in K : \E k \in DOMAIN t : f[k] = i
    BY <1>2, <1>3
  <1>6. \A k \in DOMAIN t : f[k] \in K /\ t[k] = s[f[k]]
    BY <1>2
  <1>7. \A k, l \in DOMAIN t : k < l => f[k] < f[l]
    BY <1>2
  <1> HIDE DEF f
  <1>8. ASSUME NEW i \in A
        PROVE  IsAudio(s[i]) /\ s[i].n \in ChunksIn(s) \ ChunksIn(t)
    <2>1. i \in AudioAt(s) /\ IsAudio(s[i]) /\ s[i].n \in ChunksIn(s)
      BY DEF AudioAt, ChunksIn
    <2>2. SUFFICES ASSUME NEW k \in AudioAt(t), t[k].n = s[i].n
                   PROVE  FALSE
      BY <2>1 DEF ChunksIn
    <2>3. k \in DOMAIN t /\ IsAudio(t[k]) /\ f[k] \in K /\ t[k] = s[f[k]]
      BY <1>6 DEF AudioAt
    <2>4. f[k] \in AudioAt(s)
      BY <2>3 DEF AudioAt
    <2>5. f[k] = i
      BY <2>1, <2>2, <2>3, <2>4 DEF Distinct
    <2>6. QED
      BY <2>3, <2>5
  <1>9. Embeds(f, s, t, ChunksIn(s) \ ChunksIn(t))
    BY <1>4, <1>5, <1>6, <1>7, <1>8 DEF Embeds
  <1>10. QED
    BY <1>2, <1>9 DEF Thinned, t

LEMMA ThinRefl ==
  ASSUME NEW s \in Seq(MicItem), NEW X
  PROVE  Thinned(s, s, X)
  <1> DEFINE f == [i \in DOMAIN s |-> i]
  <1>1. Embeds(f, s, s, X)
    BY DEF Embeds
  <1>2. QED
    BY <1>1 DEF Thinned

LEMMA ThinMono ==
  ASSUME NEW s, NEW t, NEW X, NEW Y, Thinned(s, t, X), X \subseteq Y
  PROVE  Thinned(s, t, Y)
  <1>1. PICK f : Embeds(f, s, t, X)
    BY DEF Thinned
  <1>2. Embeds(f, s, t, Y)
    BY <1>1 DEF Embeds
  <1>3. QED
    BY <1>2 DEF Thinned

LEMMA WholeMono ==
  ASSUME NEW s, NEW h, NEW p1, NEW p2, NEW m1, NEW m2,
         Whole(s, h, p1, m1), p1 \subseteq p2, m1 \subseteq m2
  PROVE  Whole(s, h, p2, m2)
  BY DEF Whole

LEMMA ConcatChunks ==
  ASSUME NEW s \in Seq(MicItem), NEW t \in Seq(MicItem)
  PROVE  /\ ChunksIn(s \o t) = ChunksIn(s) \cup ChunksIn(t)
         /\ Distinct(s \o t) => Distinct(s) /\ Distinct(t) /\ ChunksIn(s) \cap ChunksIn(t) = {}
  <1> DEFINE r == s \o t
  <1>1. /\ Len(s) \in Nat /\ Len(t) \in Nat /\ DOMAIN s = 1..Len(s)
        /\ \A i \in DOMAIN s : r[i] = s[i] /\ i \in DOMAIN r
        /\ \A i \in DOMAIN t : r[Len(s) + i] = t[i] /\ Len(s) + i \in DOMAIN r /\ i \in Nat /\ i > 0
        /\ \A i \in DOMAIN r : i \in DOMAIN s \/ (i > Len(s) /\ i - Len(s) \in DOMAIN t)
        /\ DOMAIN r = 1..Len(s) + Len(t)
    BY Concat
  <1> HIDE DEF r
  <1>2. \A i \in AudioAt(s) : i \in AudioAt(r) /\ r[i].n = s[i].n /\ i \in DOMAIN s
    BY <1>1 DEF AudioAt
  <1>3. \A i \in AudioAt(t) :
          Len(s) + i \in AudioAt(r) /\ r[Len(s) + i].n = t[i].n /\ i \in DOMAIN t
    BY <1>1 DEF AudioAt
  <1>4. ASSUME NEW i \in AudioAt(r)
        PROVE  (i \in AudioAt(s) /\ r[i] = s[i]) \/ \E k \in AudioAt(t) : r[i] = t[k]
    <2>1. i \in DOMAIN r /\ IsAudio(r[i])
      BY DEF AudioAt
    <2>2. CASE i \in DOMAIN s
      BY <1>1, <2>1, <2>2 DEF AudioAt
    <2>3. CASE i - Len(s) \in DOMAIN t
      <3>1. r[Len(s) + (i - Len(s))] = t[i - Len(s)]
        BY <1>1, <2>3
      <3>2. Len(s) + (i - Len(s)) = i
        BY <1>1, <2>1
      <3>3. i - Len(s) \in AudioAt(t)
        BY <2>1, <2>3, <3>1, <3>2 DEF AudioAt
      <3>4. QED
        BY <3>1, <3>2, <3>3
    <2>4. QED
      BY <1>1, <2>1, <2>2, <2>3
  <1>5. ChunksIn(r) = ChunksIn(s) \cup ChunksIn(t)
    BY <1>2, <1>3, <1>4 DEF ChunksIn
  <1>6. ASSUME Distinct(r)
        PROVE  Distinct(s) /\ Distinct(t) /\ ChunksIn(s) \cap ChunksIn(t) = {}
    <2>1. Distinct(s)
      BY <1>2, <1>6 DEF Distinct
    <2>2. ASSUME NEW i \in AudioAt(t), NEW j \in AudioAt(t), t[i].n = t[j].n
          PROVE  i = j
      <3>1. Len(s) + i = Len(s) + j
        BY <1>3, <1>6, <2>2 DEF Distinct
      <3>2. i \in Nat /\ j \in Nat
        BY <1>1, <1>3
      <3>3. QED
        BY <1>1, <3>1, <3>2
    <2>3. ASSUME NEW i \in AudioAt(s), NEW j \in AudioAt(t), s[i].n = t[j].n
          PROVE  FALSE
      <3>1. i = Len(s) + j
        BY <1>2, <1>3, <1>6, <2>3 DEF Distinct
      <3>2. i \in 1..Len(s) /\ j \in Nat /\ j > 0
        BY <1>1, <1>2, <1>3
      <3>3. QED
        BY <1>1, <3>1, <3>2
    <2>4. QED
      BY <2>1, <2>2, <2>3 DEF Distinct, ChunksIn
  <1>7. QED
    BY <1>5, <1>6 DEF r

(* An inbox from the microphone. *)
IsMic(in) == in \in InboxSet(MicItem) /\ in.up = <<>> /\ in.down = <<>>

LEMMA ShedIsLost ==
  ASSUME NEW b, NEW a, NEW s \in Seq(MicItem), NEW t \in Seq(MicItem),
         b.sys = s, a.sys = t
  PROVE  ChunksIn(s) \ ChunksIn(t) \subseteq L!ShedBy(b, a)
  <1> SUFFICES ASSUME NEW i \in AudioAt(s), s[i].n \notin ChunksIn(t)
               PROVE  s[i].n \in L!ShedBy(b, a)
    BY DEF ChunksIn
  <1>1. i \in DOMAIN s /\ IsAudio(s[i])
    BY DEF AudioAt
  <1>2. \A k \in DOMAIN t : t[k] # s[i]
    BY <1>1 DEF AudioAt, ChunksIn
  <1>3. s[i] \in L!SX!ToSet(s) /\ s[i] \notin L!SX!ToSet(t)
    BY <1>1, <1>2 DEF L!SX!ToSet
  <1>4. L!IsAudio(s[i])
    BY <1>1, ListeningInboxes
  <1>5. QED
    BY <1>3, <1>4 DEF L!ShedBy

(* What an inbox of the microphone does with an item. *)
LEMMA MicEnqueue ==
  ASSUME NEW in, IsMic(in), NEW q \in MicItem, Distinct(in.sys)
  PROVE  /\ IsMic(Enqueue(in, q))
         /\ ~IsAudio(q) => Enqueue(in, q).sys = Append(in.sys, q)
         /\ \E t \in Seq(MicItem) : /\ Enqueue(in, q).sys = Append(t, q)
                                    /\ Thinned(in.sys, t, ChunksIn(in.sys) \ ChunksIn(t))
  <1>1. Lane(q) = "sys"
    BY DEF Lane, MicItem, MicKinds, IsSystem, SystemKinds
  <1>2. in.sys \in Seq(MicItem) /\ in \in InboxSet(MicItem)
    BY DEF IsMic, InboxSet
  <1>3. CASE IsAudio(q)
    <2>1. /\ Shed(in) \in InboxSet(MicItem) /\ Shed(in).up = <<>> /\ Shed(in).down = <<>>
          /\ Shed(in).sys = KeepAt(in.sys, DOMAIN in.sys \ ShedAt(in))
      BY ShedType, <1>2 DEF IsMic
    <2>2. Enqueue(in, q) = [Shed(in) EXCEPT !.audioN = @ + 1, !.sys = Append(@, q)]
      BY <1>1, <1>3 DEF Enqueue
    <2>3. Enqueue(in, q) \in InboxSet(MicItem)
      BY <1>2, EnqueueType
    <2>4. /\ Enqueue(in, q).up = <<>> /\ Enqueue(in, q).down = <<>>
          /\ Enqueue(in, q).sys = Append(Shed(in).sys, q)
      BY <2>1, <2>2 DEF InboxSet
    <2>5. ShedAt(in) \in SUBSET AudioAt(in.sys)
      BY ShedCount, <1>2
    <2>6. Shed(in).sys \in Seq(MicItem)
          /\ Thinned(in.sys, Shed(in).sys, ChunksIn(in.sys) \ ChunksIn(Shed(in).sys))
      BY <1>2, <2>1, <2>5, ThinKept
    <2>7. QED
      BY <1>3, <2>3, <2>4, <2>6 DEF IsMic
  <1>4. CASE ~IsAudio(q)
    <2>1. Enqueue(in, q) = [in EXCEPT !.sys = Append(@, q)]
      BY <1>1, <1>4 DEF Enqueue
    <2>2. Enqueue(in, q) \in InboxSet(MicItem)
      BY <1>2, EnqueueType
    <2>3. /\ Enqueue(in, q).up = <<>> /\ Enqueue(in, q).down = <<>>
          /\ Enqueue(in, q).sys = Append(in.sys, q)
      BY <1>2, <2>1 DEF InboxSet, IsMic
    <2>4. Thinned(in.sys, in.sys, ChunksIn(in.sys) \ ChunksIn(in.sys))
      BY <1>2, ThinRefl
    <2>5. QED
      BY <1>2, <2>2, <2>3, <2>4 DEF IsMic
  <1>5. QED
    BY <1>3, <1>4

LEMMA MicPop ==
  ASSUME NEW in, IsMic(in), ~IsEmpty(in)
  PROVE  /\ in.sys # <<>> /\ in.sys \in Seq(MicItem)
         /\ Front(in) = Head(in.sys)
         /\ PopFront(in).sys = Tail(in.sys)
         /\ IsMic(PopFront(in))
  <1>1. in.sys # <<>> /\ in.sys \in Seq(MicItem)
    BY DEF IsMic, IsEmpty, InboxSet
  <1>2. NextLane(in) = "sys"
    BY <1>1 DEF NextLane
  <1>3. PopFront(in) \in InboxSet(MicItem)
    BY PopFrontType DEF IsMic
  <1>4. PopFront(in) = [in EXCEPT !.sys = Tail(@),
                                  !.audioN = IF IsAudio(Head(in.sys)) /\ @ > 0 THEN @ - 1 ELSE @]
    BY <1>2 DEF PopFront
  <1>5. QED
    BY <1>1, <1>2, <1>3, <1>4 DEF Front, IsMic, InboxSet

(* A row to which the VAD has pushed a start, and then a chunk and a stop. *)
VadStart == L!Frame("UserStartedSpeaking")

Begun(s, start) == IF start THEN Append(s, VadStart) ELSE s

Pushed(s, stop, n, utterance) ==
  IF stop THEN Append(Append(s, L!Audio(n)), L!Item("UserStoppedSpeaking", 0, utterance))
  ELSE Append(s, L!Audio(n))

LEMMA VadPushesRow ==
  ASSUME NEW in, IsMic(in), Distinct(in.sys), NEW start \in BOOLEAN, NEW stop \in BOOLEAN,
         NEW n \in Nat, n \notin ChunksIn(in.sys), NEW utterance \in SUBSET Nat
  PROVE  LET r == L!VadPushes(in, start, stop, n, utterance)
         IN /\ IsMic(r)
            /\ \E t \in Seq(MicItem) : /\ Thinned(Begun(in.sys, start), t, L!ShedBy(in, r))
                                       /\ r.sys = Pushed(t, stop, n, utterance)
  <1> DEFINE S == VadStart
             E == L!Item("UserStoppedSpeaking", 0, utterance)
             A == L!Audio(n)
             begin == IF start THEN Append(in.sys, S) ELSE in.sys
             in1 == IF start THEN Enqueue(in, S) ELSE in
             in2 == Enqueue(in1, A)
             r == IF stop THEN Enqueue(in2, E) ELSE in2
  <1>1. L!VadPushes(in, start, stop, n, utterance) = r
    BY ListeningInboxes, Zenon DEF L!VadPushes, L!PushIf, VadStart
  <1>2. /\ S \in MicItem /\ ~IsAudio(S) /\ E \in MicItem /\ ~IsAudio(E)
        /\ A \in MicItem /\ IsAudio(A) /\ A.n = n
    BY DEF VadStart, L!Frame, L!Item, L!Audio, MicItem, MicKinds, IsAudio
  <1> HIDE DEF S, E, A
  <1>3. in.sys \in Seq(MicItem)
    BY DEF IsMic, InboxSet
  <1>4. IsMic(in1) /\ in1.sys = begin /\ begin \in Seq(MicItem)
        /\ Distinct(begin) /\ ChunksIn(begin) = ChunksIn(in.sys)
    <2>1. CASE start
      BY <1>2, <1>3, <2>1, MicEnqueue, AppendKeeps, ZenonT(30)
    <2>2. CASE ~start
      BY <1>3, <2>2
    <2>3. QED
      BY <2>1, <2>2
  <1> HIDE DEF begin, in1
  <1>5. IsMic(in2)
    BY <1>2, <1>4, MicEnqueue
  <1>6. PICK t \in Seq(MicItem) :
          in2.sys = Append(t, A) /\ Thinned(begin, t, ChunksIn(begin) \ ChunksIn(t))
    BY <1>2, <1>4, MicEnqueue
  <1>7. /\ Append(t, A) \in Seq(MicItem) /\ ChunksIn(Append(t, A)) = ChunksIn(t) \cup {n}
        /\ (Distinct(t) /\ n \notin ChunksIn(t) => Distinct(Append(t, A)))
    BY <1>2, AppendKeeps
  <1>8. Distinct(t) /\ ChunksIn(t) \subseteq ChunksIn(begin)
    BY <1>4, <1>6, ThinKeeps
  <1>9. Distinct(in2.sys)
    BY <1>4, <1>6, <1>7, <1>8
  <1> HIDE DEF in2
  <1>10. /\ IsMic(r) /\ r.sys \in Seq(MicItem) /\ ChunksIn(r.sys) = ChunksIn(t) \cup {n}
         /\ r.sys = IF stop THEN Append(Append(t, A), E) ELSE Append(t, A)
    <2>1. CASE stop
      <3>1. IsMic(Enqueue(in2, E)) /\ Enqueue(in2, E).sys = Append(in2.sys, E)
        BY <1>2, <1>5, <1>9, MicEnqueue
      <3>2. \A u \in Seq(MicItem) : Append(u, E) \in Seq(MicItem)
                                    /\ ChunksIn(Append(u, E)) = ChunksIn(u)
        BY <1>2, AppendKeeps
      <3>3. QED
        BY <1>6, <1>7, <2>1, <3>1, <3>2
    <2>2. CASE ~stop
      BY <1>5, <1>6, <1>7, <2>2
    <2>3. QED
      BY <2>1, <2>2
  <1> HIDE DEF r
  <1>11. ChunksIn(begin) \ ChunksIn(t) \subseteq L!ShedBy(in, r)
    <2>1. ChunksIn(in.sys) \ ChunksIn(r.sys) \subseteq L!ShedBy(in, r)
      BY <1>3, <1>10, ShedIsLost
    <2>2. QED
      BY <1>4, <1>10, <2>1
  <1>12. Thinned(begin, t, L!ShedBy(in, r))
    BY <1>6, <1>11, ThinMono
  <1>13. QED
    BY <1>1, <1>10, <1>12 DEF Begun, Pushed, begin, S, A, E

-----------------------------------------------------------------------------
(* The invariant of the chain of Listening.  What the STT service has not  *)
(* heard yet is one row, its own inbox before that of the tracker.         *)

Row == inbox["stt"].sys \o inbox["turn"].sys

Elems(s) == {s[i] : i \in DOMAIN s}

FlushRecord ==
  [state : L!FlushStates, audio : Seq(Nat), polls : Nat, utterance : SUBSET Nat]

MicTyped ==
  /\ pipeline = "classic" => service \in Services
  /\ inbox \in [L!Nodes -> InboxSet(MicItem)]
  /\ \A n \in L!Nodes : inbox[n].up = <<>> /\ inbox[n].down = <<>>
  /\ sent \in Nat /\ heard \in SUBSET Nat
  /\ buf \in Seq(Nat) /\ flushes \in Seq(FlushRecord)

(* The two detectors. *)
VadInv ==
  /\ vad \in [speechRun : Nat, silenceRun : Nat, silenceMS : Nat, inSpeech : BOOLEAN]
  /\ silence \in [speechSeen : BOOLEAN, silenceMS : Nat]
  /\ L!EndOfTurnAgrees

(* Between two starts there is a stop: the starts that wait, the turn the  *)
(* tracker is in, and the start that comes when the VAD is not in speech.  *)
TurnsInv ==
  /\ tracker \in [index : Nat, active : BOOLEAN]
  /\ turns \in Seq([what : {"started", "ended"}, index : Nat])
  /\ Len(turns) = 2 * tracker.index - (IF tracker.active THEN 1 ELSE 0)
  /\ L!TurnsAlternate
  /\ Alternating(inbox["turn"].sys, tracker.active, ~vad.inSpeech)

(* A chunk is in one place at most. *)
ChunksInv ==
  /\ Distinct(Row)
  /\ ChunksIn(Row) \cup Elems(buf) \cup L!Taken \subseteq 1..sent
  /\ ChunksIn(Row) \cap (Elems(buf) \cup L!Taken) = {}
  /\ L!ChunkOnce

(* An utterance is in the row between its start and its end, or past it. *)
UtteranceInv ==
  /\ ~vad.inSpeech => heard = {}
  /\ Whole(Row, heard, Elems(buf) \cup L!Taken \cup ignored \cup wiped, ignored)
  /\ \A i \in DOMAIN flushes :
       /\ flushes[i].state = "begin" => flushes[i].audio = <<>>
       /\ flushes[i].utterance \subseteq
            L!Taken \cup ignored \cup wiped
              \cup (IF flushes[i].state = "begin" THEN Elems(buf) ELSE {})

ListeningInv == MicTyped /\ VadInv /\ TurnsInv /\ ChunksInv /\ UtteranceInv

-----------------------------------------------------------------------------
(* What the steps do to the row. *)

LEMMA RowTyped ==
  ASSUME MicTyped
  PROVE  /\ IsMic(inbox["turn"]) /\ IsMic(inbox["stt"])
         /\ inbox["turn"].sys \in Seq(MicItem) /\ inbox["stt"].sys \in Seq(MicItem)
         /\ Row \in Seq(MicItem)
  <1>1. "turn" \in L!Nodes /\ "stt" \in L!Nodes
    BY DEF L!Nodes
  <1>2. IsMic(inbox["turn"]) /\ IsMic(inbox["stt"])
    BY <1>1 DEF MicTyped, IsMic
  <1>3. inbox["turn"].sys \in Seq(MicItem) /\ inbox["stt"].sys \in Seq(MicItem)
    BY <1>2 DEF IsMic, InboxSet
  <1>4. QED
    BY <1>2, <1>3, Concat DEF Row

(* The inboxes are typed when both lanes are. *)
LEMMA InboxesTyped ==
  ASSUME inbox' = [inbox EXCEPT !["turn"] = inbox'["turn"], !["stt"] = inbox'["stt"]],
         inbox \in [L!Nodes -> InboxSet(MicItem)],
         IsMic(inbox'["turn"]), IsMic(inbox'["stt"])
  PROVE  /\ inbox' \in [L!Nodes -> InboxSet(MicItem)]
         /\ \A n \in L!Nodes : inbox'[n].up = <<>> /\ inbox'[n].down = <<>>
  BY DEF IsMic, L!Nodes

(* What the tracker passes on stays in the row; audio may be shed. *)
LEMMA TrackerMoves ==
  ASSUME MicTyped, Distinct(Row), ~L!IsEmpty(inbox["turn"]), L!TrackerPasses
  PROVE  /\ inbox["turn"].sys # <<>> /\ L!Tracked = Head(inbox["turn"].sys)
         /\ inbox'["turn"].sys = Tail(inbox["turn"].sys)
         /\ inbox' \in [L!Nodes -> InboxSet(MicItem)]
         /\ \A n \in L!Nodes : inbox'[n].up = <<>> /\ inbox'[n].down = <<>>
         /\ Row' \in Seq(MicItem) /\ Thinned(Row, Row', ignored') /\ ignored \subseteq ignored'
  <1> DEFINE turn == inbox["turn"]
             stt == inbox["stt"]
             q == Head(turn.sys)
             end == Enqueue(stt, q)
  <1>1. /\ IsMic(turn) /\ IsMic(stt) /\ turn.sys \in Seq(MicItem) /\ stt.sys \in Seq(MicItem)
        /\ Row \in Seq(MicItem) /\ Row = stt.sys \o turn.sys
    BY RowTyped DEF Row
  <1>2. ~IsEmpty(turn)
    BY ListeningInboxes
  <1>3. /\ turn.sys # <<>> /\ Front(turn) = q /\ PopFront(turn).sys = Tail(turn.sys)
        /\ IsMic(PopFront(turn))
    BY <1>1, <1>2, MicPop
  <1>4. L!Tracked = q
    BY <1>3, ListeningInboxes DEF L!Tracked
  <1>5. /\ inbox' = [inbox EXCEPT !["turn"] = PopFront(turn), !["stt"] = end]
        /\ ignored' = ignored \cup L!ShedBy(stt, end)
    BY <1>4, ListeningInboxes DEF L!TrackerPasses
  <1>6. inbox \in [L!Nodes -> InboxSet(MicItem)]
    BY DEF MicTyped
  <1>7. inbox'["turn"] = PopFront(turn) /\ inbox'["stt"] = end
    BY <1>5, <1>6 DEF L!Nodes
  <1>8. /\ q \in MicItem
        /\ ChunksIn(turn.sys) =
             ChunksIn(Tail(turn.sys)) \cup (IF IsAudio(q) THEN {q.n} ELSE {})
    BY <1>1, <1>3, TailKeeps
  <1>9. Distinct(stt.sys) /\ ChunksIn(stt.sys) \cap ChunksIn(turn.sys) = {}
    BY <1>1, ConcatChunks
  <1> HIDE DEF turn, stt, q
  <1>10. IsMic(end)
    BY <1>1, <1>8, <1>9, MicEnqueue
  <1>11. PICK t \in Seq(MicItem) : /\ end.sys = Append(t, q)
                                   /\ Thinned(stt.sys, t, ChunksIn(stt.sys) \ ChunksIn(t))
    BY <1>1, <1>8, <1>9, MicEnqueue
  <1> HIDE DEF end
  <1>12. Thinned(stt.sys, t, L!ShedBy(stt, end))
    <2>1. /\ Append(t, q) \in Seq(MicItem)
          /\ ChunksIn(Append(t, q)) = ChunksIn(t) \cup (IF IsAudio(q) THEN {q.n} ELSE {})
      BY <1>8, AppendKeeps
    <2>2. ChunksIn(stt.sys) \ ChunksIn(end.sys) \subseteq L!ShedBy(stt, end)
      BY <1>1, <1>11, <2>1, ShedIsLost
    <2>3. ChunksIn(stt.sys) \ ChunksIn(t) \subseteq L!ShedBy(stt, end)
      BY <1>8, <1>9, <1>11, <2>1, <2>2
    <2>4. QED
      BY <1>11, <2>3, ThinMono
  <1>13. Thinned(stt.sys \o turn.sys, t \o turn.sys, L!ShedBy(stt, end))
    BY <1>1, <1>12, ThinConcat
  <1>14. Append(t, q) \o Tail(turn.sys) = t \o turn.sys
    BY <1>1, <1>3, RowMoves DEF q
  <1>15. Row' = t \o turn.sys
    BY <1>3, <1>7, <1>11, <1>14 DEF Row
  <1>16. Thinned(Row, Row', ignored')
    BY <1>1, <1>5, <1>13, <1>15, ThinMono
  <1>17. Row' \in Seq(MicItem)
    BY <1>1, <1>15, Concat
  <1>18. /\ inbox' \in [L!Nodes -> InboxSet(MicItem)]
         /\ \A n \in L!Nodes : inbox'[n].up = <<>> /\ inbox'[n].down = <<>>
    BY <1>3, <1>5, <1>6, <1>7, <1>10, InboxesTyped
  <1>19. QED
    BY <1>3, <1>4, <1>5, <1>7, <1>16, <1>17, <1>18 DEF turn, q

(* What the STT service takes is the head of the row. *)
LEMMA SttMoves ==
  ASSUME MicTyped, ~L!IsEmpty(inbox["stt"]),
         inbox' = [inbox EXCEPT !["stt"] = L!PopFront(@)]
  PROVE  /\ Row # <<>> /\ Row \in Seq(MicItem) /\ L!Heard = Head(Row) /\ Row' = Tail(Row)
         /\ inbox' \in [L!Nodes -> InboxSet(MicItem)]
         /\ \A n \in L!Nodes : inbox'[n].up = <<>> /\ inbox'[n].down = <<>>
         /\ inbox'["turn"] = inbox["turn"]
  <1> DEFINE turn == inbox["turn"]
             stt == inbox["stt"]
  <1>1. /\ IsMic(turn) /\ IsMic(stt) /\ turn.sys \in Seq(MicItem) /\ stt.sys \in Seq(MicItem)
        /\ Row \in Seq(MicItem) /\ Row = stt.sys \o turn.sys
    BY RowTyped DEF Row
  <1>2. ~IsEmpty(stt)
    BY ListeningInboxes
  <1>3. /\ stt.sys # <<>> /\ Front(stt) = Head(stt.sys) /\ PopFront(stt).sys = Tail(stt.sys)
        /\ IsMic(PopFront(stt))
    BY <1>1, <1>2, MicPop
  <1>4. inbox' = [inbox EXCEPT !["stt"] = PopFront(stt)] /\ L!Heard = Head(stt.sys)
    BY <1>3, ListeningInboxes DEF L!Heard
  <1>5. inbox \in [L!Nodes -> InboxSet(MicItem)]
    BY DEF MicTyped
  <1>6. inbox'["turn"] = turn /\ inbox'["stt"] = PopFront(stt)
    BY <1>4, <1>5 DEF L!Nodes
  <1>7. /\ inbox' \in [L!Nodes -> InboxSet(MicItem)]
        /\ \A n \in L!Nodes : inbox'[n].up = <<>> /\ inbox'[n].down = <<>>
    BY <1>1, <1>3, <1>4, <1>5, <1>6, InboxesTyped
  <1> HIDE DEF turn, stt
  <1>8. Row # <<>> /\ Head(Row) = Head(stt.sys) /\ Tail(Row) = Tail(stt.sys) \o turn.sys
    BY <1>1, <1>3, RowMoves
  <1>9. Row' = Tail(stt.sys) \o turn.sys
    BY <1>3, <1>6 DEF Row
  <1>10. QED
    BY <1>1, <1>4, <1>6, <1>7, <1>8, <1>9 DEF turn

LEMMA AppendBehind ==
  \A s, t \in Seq(MicItem), q \in MicItem :
    s \o Append(t, q) = Append(s \o t, q) /\ Append(t, q) \in Seq(MicItem)
  <1> SUFFICES ASSUME NEW s \in Seq(MicItem), NEW t \in Seq(MicItem), NEW q \in MicItem
               PROVE  s \o Append(t, q) = Append(s \o t, q) /\ Append(t, q) \in Seq(MicItem)
    OBVIOUS
  <1>1. QED
    BY SMT

(* A start appended closes the row, a stop opens it. *)
LEMMA AppendAlternates ==
  \A s \in Seq(MicItem), q \in MicItem, a \in BOOLEAN, b \in BOOLEAN :
    Alternating(s, a, b) =>
      /\ IsStop(q) => Alternating(Append(s, q), a, TRUE)
      /\ IsStart(q) /\ b => Alternating(Append(s, q), a, FALSE)
  BY AppendKeeps

(* A row s became r when the VAD pushed chunk n: the start before it if    *)
(* it made one, the end of the utterance behind it if it was that.         *)
VadKept(s, r, n, utterance, start, stop, speech, X) ==
  /\ r \in Seq(MicItem)
  /\ Distinct(s) => Distinct(r)
  /\ ChunksIn(r) \subseteq ChunksIn(s) \cup {n}
  /\ \A a \in BOOLEAN : Alternating(s, a, ~speech)
                          => Alternating(r, a, ~((speech \/ start) /\ ~stop))
  /\ \A h, past, missed :
       (Whole(s, h, past, missed) /\ (~speech => h = {})
        /\ utterance = IF start THEN {n} ELSE IF speech THEN h \cup {n} ELSE {})
       => Whole(r, IF stop THEN {} ELSE utterance, past \cup X, missed \cup X)

LEMMA VadRow ==
  ASSUME NEW s \in Seq(MicItem), NEW t \in Seq(MicItem), NEW X,
         NEW n \in Nat, NEW utterance \in SUBSET Nat,
         NEW start \in BOOLEAN, NEW stop \in BOOLEAN, NEW speech \in BOOLEAN,
         start => ~speech, stop => speech, n \notin ChunksIn(s),
         Thinned(Begun(s, start), t, X)
  PROVE  VadKept(s, Pushed(t, stop, n, utterance), n, utterance, start, stop, speech, X)
  <1> DEFINE S == VadStart
             A == L!Audio(n)
             E == L!Item("UserStoppedSpeaking", 0, utterance)
             b == IF start THEN Append(s, S) ELSE s
             u == Append(t, A)
             r == Pushed(t, stop, n, utterance)
  <1>1. /\ S \in MicItem /\ IsStart(S)
        /\ A \in MicItem /\ IsAudio(A) /\ A.n = n
        /\ E \in MicItem /\ IsStop(E) /\ E.utterance = utterance
        /\ Thinned(b, t, X)
        /\ r = IF stop THEN Append(Append(t, A), E) ELSE Append(t, A)
    BY DEF VadStart, L!Frame, L!Item, L!Audio, MicItem, MicKinds, IsStart, IsAudio, IsStop,
           Begun, Pushed
  <1> HIDE DEF S, A, E, r
  <1>2. /\ ~IsAudio(S) /\ ~IsStop(S) /\ ~IsStart(A) /\ ~IsStop(A) /\ ~IsStart(E) /\ ~IsAudio(E)
        /\ S \in MicItem /\ IsStart(S)
        /\ A \in MicItem /\ IsAudio(A) /\ A.n = n
        /\ E \in MicItem /\ IsStop(E) /\ E.utterance = utterance
        /\ n \notin ChunksIn(s)
    BY <1>1 DEF IsStart, IsStop, IsAudio
  <1>3. b \in Seq(MicItem) /\ ChunksIn(b) = ChunksIn(s) /\ (Distinct(s) => Distinct(b))
    BY <1>2, AppendKeeps
  <1>4. ASSUME NEW a \in BOOLEAN, Alternating(s, a, ~speech)
        PROVE  Alternating(b, a, ~(speech \/ start))
    <2>1. CASE start
      <3>1. speech = FALSE /\ start = TRUE
        BY <2>1
      <3>2. Alternating(s, a, TRUE)
        BY <1>4, <3>1
      <3>3. \A b2 \in BOOLEAN : Alternating(s, a, b2) /\ b2 => Alternating(Append(s, S), a, FALSE)
        BY <1>2, AppendAlternates, Zenon
      <3>4. Alternating(Append(s, S), a, FALSE)
        BY <3>2, <3>3, Zenon
      <3>5. QED
        BY <3>1, <3>4
    <2>2. CASE ~start
      <3>1. start = FALSE /\ (speech \/ start) = speech
        BY <2>2
      <3>2. QED
        BY <1>4, <3>1
    <2>3. QED
      BY <2>1, <2>2
  <1>5. ASSUME NEW h, NEW past, NEW missed, Whole(s, h, past, missed)
        PROVE  Whole(b, IF start THEN {} ELSE h, past, missed)
    BY <1>2, <1>5, AppendKeeps
  <1>6. Thinned(b, t, X)
    BY <1>1
  <1> HIDE DEF b
  <1>7. /\ \A x, y \in BOOLEAN : Alternating(b, x, y) => Alternating(t, x, y)
        /\ Distinct(b) => Distinct(t)
        /\ ChunksIn(t) \subseteq ChunksIn(b)
        /\ \A h, past, missed :
              Whole(b, h, past, missed) => Whole(t, h, past \cup X, missed \cup X)
    BY <1>3, <1>6, ThinKeeps
  <1>8. /\ u \in Seq(MicItem)
        /\ \A x, y \in BOOLEAN : Alternating(t, x, y) => Alternating(u, x, y)
        /\ Distinct(t) /\ A.n \notin ChunksIn(t) => Distinct(u)
        /\ ChunksIn(u) = ChunksIn(t) \cup {A.n}
        /\ \A h, h2, past, missed :
             (Whole(t, h, past, missed) /\ h2 \subseteq h \cup {A.n}) => Whole(u, h2, past, missed)
    BY <1>2, AppendKeeps
  <1> HIDE DEF u
  <1>9. /\ Append(u, E) \in Seq(MicItem)
        /\ \A x, y \in BOOLEAN : Alternating(u, x, y) => Alternating(Append(u, E), x, TRUE)
        /\ Distinct(u) => Distinct(Append(u, E))
        /\ ChunksIn(Append(u, E)) = ChunksIn(u)
        /\ \A h, past, missed :
             (Whole(u, h, past, missed) /\ E.utterance \subseteq h)
               => Whole(Append(u, E), {}, past, missed)
    <2>1. \A h, past, missed, h2 :
            (Whole(u, h, past, missed) /\ E.utterance \subseteq h /\ h2 \subseteq h)
              => Whole(Append(u, E), h2, past, missed)
      BY <1>2, <1>8, AppendKeeps
    <2>2. ASSUME NEW h, NEW past, NEW missed, Whole(u, h, past, missed), E.utterance \subseteq h
          PROVE  Whole(Append(u, E), {}, past, missed)
      <3>1. {} \subseteq h
        OBVIOUS
      <3>2. QED
        BY <2>1, <2>2, <3>1, Zenon
    <2>3. \A x, y \in BOOLEAN : Alternating(u, x, y) => Alternating(Append(u, E), x, TRUE)
      BY <1>2, <1>8, AppendAlternates, Zenon
    <2>4. /\ Append(u, E) \in Seq(MicItem)
          /\ Distinct(u) => Distinct(Append(u, E))
          /\ ChunksIn(Append(u, E)) = ChunksIn(u)
      BY <1>2, <1>8, AppendKeeps
    <2>5. QED
      BY <2>2, <2>3, <2>4
  <1>10. r = IF stop THEN Append(u, E) ELSE u
    BY <1>1 DEF u
  <1>11. r \in Seq(MicItem) /\ ChunksIn(r) = ChunksIn(u) /\ (Distinct(u) => Distinct(r))
    BY <1>8, <1>9, <1>10
  <1>12. ASSUME NEW a \in BOOLEAN, Alternating(s, a, ~speech)
         PROVE  Alternating(r, a, ~((speech \/ start) /\ ~stop))
    <2>1. Alternating(u, a, ~(speech \/ start))
      BY <1>4, <1>7, <1>8, <1>12
    <2>2. CASE stop
      <3>1. ~((speech \/ start) /\ ~stop) = TRUE /\ stop = TRUE
        BY <2>2
      <3>2. QED
        BY <1>9, <1>10, <2>1, <3>1
    <2>3. CASE ~stop
      <3>1. ((speech \/ start) /\ ~stop) = (speech \/ start) /\ stop = FALSE
        BY <2>3
      <3>2. QED
        BY <1>10, <2>1, <3>1
    <2>4. QED
      BY <2>2, <2>3
  <1>13. ASSUME NEW h, NEW past, NEW missed, Whole(s, h, past, missed), ~speech => h = {},
                utterance = IF start THEN {n} ELSE IF speech THEN h \cup {n} ELSE {}
         PROVE  Whole(r, IF stop THEN {} ELSE utterance, past \cup X, missed \cup X)
    <2>1. Whole(t, IF start THEN {} ELSE h, past \cup X, missed \cup X)
      BY <1>5, <1>7, <1>13
    <2>2. utterance \subseteq (IF start THEN {} ELSE h) \cup {A.n}
      BY <1>2, <1>13
    <2>3. Whole(u, utterance, past \cup X, missed \cup X)
      BY <1>8, <2>1, <2>2
    <2>4. QED
      BY <1>2, <1>9, <1>10, <2>3
  <1>14. QED
    BY <1>2, <1>3, <1>7, <1>8, <1>11, <1>12, <1>13 DEF VadKept, r

(* The utterance a chunk belongs to, itself included. *)
Utterance(sound) ==
  IF L!Started(vad, sound) THEN {sent + 1}
  ELSE IF vad.inSpeech THEN heard \cup {sent + 1} ELSE {}

(* What a chunk at the VAD does to the inbox of the tracker and to the row. *)
LEMMA VadMoves ==
  ASSUME MicTyped, Distinct(Row), ChunksIn(Row) \subseteq 1..sent, vad.inSpeech \in BOOLEAN,
         NEW sound, L!VadHears(sound)
  PROVE  /\ inbox' \in [L!Nodes -> InboxSet(MicItem)]
         /\ \A n \in L!Nodes : inbox'[n].up = <<>> /\ inbox'[n].down = <<>>
         /\ ignored \subseteq ignored' /\ Utterance(sound) \in SUBSET Nat
         /\ heard' = IF L!Stopped(vad, sound) THEN {} ELSE Utterance(sound)
         /\ \E u \in Seq(MicItem) :
              /\ Thinned(Begun(inbox["turn"].sys, L!Started(vad, sound)), u, ignored')
              /\ inbox'["turn"].sys =
                   Pushed(u, L!Stopped(vad, sound), sent + 1, Utterance(sound))
         /\ \E t \in Seq(MicItem) :
              /\ Thinned(Begun(Row, L!Started(vad, sound)), t, ignored')
              /\ Row' = Pushed(t, L!Stopped(vad, sound), sent + 1, Utterance(sound))
  <1> DEFINE n == sent + 1
             start == L!Started(vad, sound)
             stop == L!Stopped(vad, sound)
             utterance == Utterance(sound)
             turn == inbox["turn"]
             stt == inbox["stt"]
             next == L!VadPushes(turn, start, stop, n, utterance)
             A == L!Audio(n)
             E == L!Item("UserStoppedSpeaking", 0, utterance)
  <1>1. /\ IsMic(turn) /\ IsMic(stt) /\ turn.sys \in Seq(MicItem) /\ stt.sys \in Seq(MicItem)
        /\ Row \in Seq(MicItem) /\ Row = stt.sys \o turn.sys
    BY RowTyped DEF Row
  <1>2. /\ inbox' = [inbox EXCEPT !["turn"] = next]
        /\ ignored' = ignored \cup L!ShedBy(turn, next)
        /\ heard' = IF stop THEN {} ELSE utterance
    BY Zenon DEF L!VadHears, Utterance
  <1>3. start \in BOOLEAN /\ stop \in BOOLEAN
    BY Zenon DEF L!Started, L!Stopped
  <1>4. inbox \in [L!Nodes -> InboxSet(MicItem)] /\ sent \in Nat /\ heard \in SUBSET Nat
    BY DEF MicTyped
  <1>5. inbox'["turn"] = next /\ inbox'["stt"] = stt
    BY <1>2, <1>4 DEF L!Nodes
  <1>6. n \in Nat /\ utterance \in SUBSET Nat
    BY <1>4 DEF Utterance
  <1>7. Distinct(turn.sys) /\ ChunksIn(turn.sys) \subseteq ChunksIn(Row)
    BY <1>1, ConcatChunks
  <1>8. n \notin ChunksIn(turn.sys)
    <2>1. n \notin 1..sent
      BY <1>4
    <2>2. QED
      BY <1>7, <2>1
  <1>9. A \in MicItem /\ E \in MicItem /\ VadStart \in MicItem
    BY <1>6 DEF VadStart, L!Frame, L!Item, L!Audio, MicItem, MicKinds
  <1> HIDE DEF n, turn, stt, start, stop, utterance
  <1>10. /\ IsMic(next)
        /\ \E u \in Seq(MicItem) : /\ Thinned(Begun(turn.sys, start), u, L!ShedBy(turn, next))
                                   /\ next.sys = Pushed(u, stop, n, utterance)
    BY <1>3, <1>1, <1>6, <1>7, <1>8, VadPushesRow
  <1>11. PICK u \in Seq(MicItem) : /\ Thinned(Begun(turn.sys, start), u, L!ShedBy(turn, next))
                                   /\ next.sys = Pushed(u, stop, n, utterance)
    BY <1>10
  <1> HIDE DEF next, A, E
  <1>12. Thinned(Begun(turn.sys, start), u, ignored')
    BY <1>2, <1>11, ThinMono
  <1>13. /\ Begun(turn.sys, start) \in Seq(MicItem)
         /\ stt.sys \o Begun(turn.sys, start) = Begun(Row, start)
    <2>1. /\ stt.sys \o Append(turn.sys, VadStart) = Append(stt.sys \o turn.sys, VadStart)
          /\ Append(turn.sys, VadStart) \in Seq(MicItem)
      BY <1>1, <1>9, AppendBehind, ZenonT(30)
    <2>2. QED
      BY <1>1, <2>1 DEF Begun
  <1>14. Thinned(Begun(Row, start), stt.sys \o u, ignored') /\ stt.sys \o u \in Seq(MicItem)
    <2>1. Thinned(stt.sys \o Begun(turn.sys, start), stt.sys \o u, ignored')
      BY <1>1, <1>12, <1>13, ThinConcat
    <2>2. QED
      BY <1>1, <1>13, <2>1, Concat
  <1>15. stt.sys \o Pushed(u, stop, n, utterance) = Pushed(stt.sys \o u, stop, n, utterance)
    <2>1. /\ Append(u, A) \in Seq(MicItem)
          /\ stt.sys \o Append(u, A) = Append(stt.sys \o u, A)
      BY <1>1, <1>9, AppendBehind, ZenonT(30)
    <2>2. \A w \in Seq(MicItem) : stt.sys \o Append(w, E) = Append(stt.sys \o w, E)
      BY <1>1, <1>9, AppendBehind, ZenonT(30)
    <2>3. QED
      BY <2>1, <2>2 DEF Pushed, A, E
  <1>16. Row' = Pushed(stt.sys \o u, stop, n, utterance)
    BY <1>5, <1>11, <1>15 DEF Row
  <1>17. /\ inbox' \in [L!Nodes -> InboxSet(MicItem)]
         /\ \A k \in L!Nodes : inbox'[k].up = <<>> /\ inbox'[k].down = <<>>
    BY <1>1, <1>2, <1>4, <1>5, <1>10, InboxesTyped DEF turn, stt
  <1>18. QED
    BY <1>2, <1>5, <1>6, <1>11, <1>12, <1>14, <1>16, <1>17
       DEF turn, n, start, stop, utterance

-----------------------------------------------------------------------------
(* The row, the buffer and the flushes. *)

RowInv == MicTyped /\ VadInv /\ ChunksInv /\ UtteranceInv

Past == Elems(buf) \cup L!Taken \cup ignored \cup wiped

LEMMA ToSetIsElems == \A s : L!SX!ToSet(s) = Elems(s)
  BY DEF L!SX!ToSet, Elems

LEMMA TakenIs ==
  /\ L!Taken = UNION {Elems(flushes[i].audio) : i \in DOMAIN flushes}
  /\ L!Taken' = UNION {Elems(flushes'[i].audio) : i \in DOMAIN flushes'}
  BY DEF L!Taken, L!SX!ToSet, Elems

LEMMA ChunkOnceIs ==
  L!ChunkOnce <=>
    /\ \A i, j \in DOMAIN buf : buf[i] = buf[j] => i = j
    /\ Elems(buf) \cap L!Taken = {}
    /\ \A i, j \in DOMAIN flushes :
         i # j => Elems(flushes[i].audio) \cap Elems(flushes[j].audio) = {}
  BY ToSetIsElems DEF L!ChunkOnce, L!SX!IsInjective

LEMMA ChunkOnceNextIs ==
  L!ChunkOnce' <=>
    /\ \A i, j \in DOMAIN buf' : buf'[i] = buf'[j] => i = j
    /\ Elems(buf') \cap L!Taken' = {}
    /\ \A i, j \in DOMAIN flushes' :
         i # j => Elems(flushes'[i].audio) \cap Elems(flushes'[j].audio) = {}
  <1>1. Elems(buf') = L!SX!ToSet(buf')
    BY ToSetIsElems
  <1>2. QED
    BY <1>1, ToSetIsElems DEF L!ChunkOnce, L!SX!IsInjective

(* A step that touches neither the buffer nor the flushes. *)
LEMMA BufferKept ==
  ASSUME UNCHANGED <<buf, flushes, wiped>>, ignored \subseteq ignored', ChunksInv, UtteranceInv
  PROVE  /\ L!Taken' = L!Taken /\ L!ChunkOnce' /\ Past \subseteq Past' /\ Past' = Past \cup ignored'
         /\ \A i \in DOMAIN flushes' :
              /\ flushes'[i].state = "begin" => flushes'[i].audio = <<>>
              /\ flushes'[i].utterance \subseteq
                   L!Taken' \cup ignored' \cup wiped'
                     \cup (IF flushes'[i].state = "begin" THEN Elems(buf') ELSE {})
  <1>1. L!Taken' = L!Taken
    BY DEF L!Taken
  <1>2. L!ChunkOnce'
    BY <1>1 DEF ChunksInv, L!ChunkOnce
  <1>3. Past \subseteq Past' /\ Past' = Past \cup ignored'
    BY <1>1 DEF Past, Elems
  <1>4. QED
    BY <1>1, <1>2, <1>3 DEF UtteranceInv, Elems

(* What is pushed to the tracker, other than audio, is pushed to the row. *)
LEMMA PushMoves ==
  ASSUME MicTyped, Distinct(Row), NEW q \in MicItem, ~IsAudio(q),
         inbox' = [inbox EXCEPT !["turn"] = L!Enqueue(@, q)]
  PROVE  /\ inbox' \in [L!Nodes -> InboxSet(MicItem)]
         /\ \A n \in L!Nodes : inbox'[n].up = <<>> /\ inbox'[n].down = <<>>
         /\ inbox'["turn"].sys = Append(inbox["turn"].sys, q)
         /\ Row' = Append(Row, q)
  <1> DEFINE turn == inbox["turn"]
             stt == inbox["stt"]
  <1>1. /\ IsMic(turn) /\ IsMic(stt) /\ turn.sys \in Seq(MicItem) /\ stt.sys \in Seq(MicItem)
        /\ Row \in Seq(MicItem) /\ Row = stt.sys \o turn.sys
    BY RowTyped DEF Row
  <1>2. inbox' = [inbox EXCEPT !["turn"] = Enqueue(turn, q)]
    BY ListeningInboxes
  <1>3. inbox \in [L!Nodes -> InboxSet(MicItem)]
    BY DEF MicTyped
  <1>4. inbox'["turn"] = Enqueue(turn, q) /\ inbox'["stt"] = stt
    BY <1>2, <1>3 DEF L!Nodes
  <1>5. Distinct(turn.sys)
    BY <1>1, ConcatChunks
  <1> HIDE DEF turn, stt
  <1>6. IsMic(Enqueue(turn, q)) /\ Enqueue(turn, q).sys = Append(turn.sys, q)
    BY <1>1, <1>5, MicEnqueue
  <1>7. stt.sys \o Append(turn.sys, q) = Append(stt.sys \o turn.sys, q)
    BY <1>1, AppendBehind
  <1>8. Row' = Append(Row, q)
    BY <1>1, <1>4, <1>6, <1>7 DEF Row
  <1>9. /\ inbox' \in [L!Nodes -> InboxSet(MicItem)]
        /\ \A k \in L!Nodes : inbox'[k].up = <<>> /\ inbox'[k].down = <<>>
    BY <1>1, <1>2, <1>3, <1>4, <1>6, InboxesTyped DEF turn, stt
  <1>10. QED
    BY <1>4, <1>6, <1>8, <1>9 DEF turn

(* The detectors step in the same way, whatever the sound. *)
LEMMA VadKeeps ==
  ASSUME VadInv, NEW sound \in Sounds, vad' = L!Analyze(vad, sound),
         silence' = L!AppendAudio(silence, sound)
  PROVE  VadInv'
  <1>1. /\ sound \in {"speech", "silence", "scrap"} /\ SilenceStopMS \in Nat /\ ChunkMS \in Nat
        /\ MinSilence \in Nat /\ MinSpeech \in Nat
    BY ListeningAssumption
  <1>2. /\ vad \in [speechRun : Nat, silenceRun : Nat, silenceMS : Nat, inSpeech : BOOLEAN]
        /\ silence \in [speechSeen : BOOLEAN, silenceMS : Nat]
        /\ SilenceStopMS > 0 /\ vad.inSpeech =>
             silence.speechSeen /\ silence.silenceMS = vad.silenceMS
    BY DEF VadInv, L!EndOfTurnAgrees
  <1>3. CASE sound = "speech"
    <2>1. /\ vad' = [speechRun |-> vad.speechRun + 1, silenceRun |-> 0, silenceMS |-> 0,
                     inSpeech |-> vad.inSpeech \/ vad.speechRun + 1 >= MinSpeech]
          /\ silence' = [speechSeen |-> TRUE, silenceMS |-> 0]
      BY <1>3 DEF L!Analyze, L!HearSpeech, L!AppendAudio
    <2>2. (vad.inSpeech \/ vad.speechRun + 1 >= MinSpeech) \in BOOLEAN /\ TRUE \in BOOLEAN
      BY Zenon
    <2>3. vad.speechRun + 1 \in Nat /\ 0 \in Nat
      BY <1>2
    <2>4. VadInv'
      BY <2>1, <2>2, <2>3 DEF VadInv, L!EndOfTurnAgrees
    <2>5. QED
      BY <2>4
  <1>4. CASE sound = "silence"
    <2>1. vad' = L!HearSilence(vad)
      BY <1>4 DEF L!Analyze
    <2>2. silence' = IF silence.speechSeen
                     THEN IF silence.silenceMS + ChunkMS >= SilenceStopMS
                          THEN [speechSeen |-> FALSE, silenceMS |-> 0]
                          ELSE [silence EXCEPT !.silenceMS = @ + ChunkMS]
                     ELSE silence
      BY <1>4 DEF L!AppendAudio, L!NewSilence
    <2>3. silence' \in [speechSeen : BOOLEAN, silenceMS : Nat]
      <3>1. silence.silenceMS + ChunkMS \in Nat /\ FALSE \in BOOLEAN
        BY <1>1, <1>2
      <3>2. QED
        BY <1>2, <2>2, <3>1
    <2>4. CASE SilenceStopMS > 0
      <3>1. DEFINE ms == IF vad.inSpeech THEN vad.silenceMS + ChunkMS ELSE vad.silenceMS
                   over == vad.inSpeech /\ ms >= SilenceStopMS
      <3>2. vad' = [vad EXCEPT !.speechRun = 0, !.silenceMS = IF over THEN 0 ELSE ms,
                               !.inSpeech = @ /\ ~over]
        BY <2>1, <2>4 DEF L!HearSilence, L!HearSilenceByTime
      <3>3. ms \in Nat /\ (IF over THEN 0 ELSE ms) \in Nat
        BY <1>1, <1>2
      <3>4. (vad.inSpeech /\ ~over) \in BOOLEAN
        BY Zenon
      <3>5. vad' \in [speechRun : Nat, silenceRun : Nat, silenceMS : Nat, inSpeech : BOOLEAN]
        <4> DEFINE b == vad.inSpeech /\ ~over
                   m == IF over THEN 0 ELSE ms
        <4>1. b \in BOOLEAN /\ m \in Nat /\ vad.silenceRun \in Nat /\ 0 \in Nat
          BY <1>2, <3>3, <3>4
        <4>2. vad' = [vad EXCEPT !.speechRun = 0, !.silenceMS = m, !.inSpeech = b]
          BY <3>2
        <4> HIDE DEF b, m
        <4>3. vad' = [speechRun |-> 0, silenceRun |-> vad.silenceRun, silenceMS |-> m,
                      inSpeech |-> b]
          BY <1>2, <4>2
        <4>4. QED
          BY <4>1, <4>3
      <3>6. ASSUME vad'.inSpeech
            PROVE  silence'.speechSeen /\ silence'.silenceMS = vad'.silenceMS
        <4>1. vad.inSpeech /\ ~over
          BY <1>2, <3>2, <3>6
        <4>2. /\ silence.speechSeen /\ silence.silenceMS = vad.silenceMS
              /\ ~(silence.silenceMS + ChunkMS >= SilenceStopMS)
          BY <1>2, <2>4, <4>1
        <4>3. vad'.silenceMS = vad.silenceMS + ChunkMS
          BY <1>2, <3>2, <4>1
        <4>4. QED
          BY <1>2, <2>2, <4>2, <4>3
      <3>7. QED
        BY <2>3, <3>5, <3>6 DEF VadInv, L!EndOfTurnAgrees
    <2>5. CASE ~(SilenceStopMS > 0)
      <3>1. vad' = [vad EXCEPT !.speechRun = 0, !.silenceRun = @ + 1,
                               !.inSpeech = @ /\ vad.silenceRun + 1 < MinSilence]
        BY <2>1, <2>5 DEF L!HearSilence, L!HearSilenceByCount
      <3>2. (vad.inSpeech /\ vad.silenceRun + 1 < MinSilence) \in BOOLEAN
        BY Zenon
      <3>3. vad' \in [speechRun : Nat, silenceRun : Nat, silenceMS : Nat, inSpeech : BOOLEAN]
        <4> DEFINE b == vad.inSpeech /\ vad.silenceRun + 1 < MinSilence
        <4>1. b \in BOOLEAN /\ vad.silenceRun + 1 \in Nat /\ vad.silenceMS \in Nat /\ 0 \in Nat
          BY <1>2, <3>2
        <4>2. vad' = [vad EXCEPT !.speechRun = 0, !.silenceRun = vad.silenceRun + 1,
                                 !.inSpeech = b]
          BY <3>1
        <4> HIDE DEF b
        <4>3. vad' = [speechRun |-> 0, silenceRun |-> vad.silenceRun + 1,
                      silenceMS |-> vad.silenceMS, inSpeech |-> b]
          BY <1>2, <4>2
        <4>4. QED
          BY <4>1, <4>3
      <3>4. QED
        BY <2>3, <2>5, <3>3 DEF VadInv, L!EndOfTurnAgrees
    <2>6. QED
      BY <2>4, <2>5
  <1>5. CASE sound = "scrap"
    <2>1. vad' = vad /\ silence' = silence
      BY <1>5 DEF L!Analyze, L!AppendAudio
    <2>2. QED
      BY <2>1 DEF VadInv, L!EndOfTurnAgrees
  <1>6. QED
    BY <1>1, <1>3, <1>4, <1>5

-----------------------------------------------------------------------------
(* One lemma for each step of the chain. *)

LEMMA VadHearsKeeps ==
  ASSUME RowInv, TurnsInv, UNCHANGED pipeline, NEW sound \in Sounds, L!VadHears(sound)
  PROVE  RowInv' /\ TurnsInv'
  <1> DEFINE start == L!Started(vad, sound)
             stop == L!Stopped(vad, sound)
             utterance == Utterance(sound)
  <1>1. /\ sent' = sent + 1 /\ vad' = L!Analyze(vad, sound)
        /\ silence' = L!AppendAudio(silence, sound)
        /\ UNCHANGED <<service, tracker, turns, buf, flushes, wiped>>
    BY DEF L!VadHears, L!trackVars, L!sttVars
  <1>2. VadInv'
    BY <1>1, VadKeeps DEF RowInv
  <1>3. vad.inSpeech \in BOOLEAN /\ vad'.inSpeech \in BOOLEAN
    BY <1>2 DEF RowInv, VadInv
  <1>4. /\ start \in BOOLEAN /\ stop \in BOOLEAN
        /\ start => ~vad.inSpeech
        /\ stop => vad.inSpeech
        /\ vad'.inSpeech <=> (vad.inSpeech \/ start) /\ ~stop
    BY <1>1, Zenon DEF L!Started, L!Stopped
  <1>5. /\ MicTyped /\ Distinct(Row) /\ ChunksIn(Row) \subseteq 1..sent /\ sent \in Nat
        /\ Row \in Seq(MicItem) /\ inbox["turn"].sys \in Seq(MicItem)
    BY RowTyped DEF RowInv, ChunksInv, MicTyped
  <1> HIDE DEF start, stop
  <1>6. /\ inbox' \in [L!Nodes -> InboxSet(MicItem)]
        /\ \A n \in L!Nodes : inbox'[n].up = <<>> /\ inbox'[n].down = <<>>
        /\ ignored \subseteq ignored' /\ utterance \in SUBSET Nat
        /\ heard' = IF stop THEN {} ELSE utterance
        /\ \E u \in Seq(MicItem) :
              /\ Thinned(Begun(inbox["turn"].sys, start), u, ignored')
              /\ inbox'["turn"].sys = Pushed(u, stop, sent + 1, utterance)
        /\ \E t \in Seq(MicItem) : /\ Thinned(Begun(Row, start), t, ignored')
                                   /\ Row' = Pushed(t, stop, sent + 1, utterance)
    BY <1>3, <1>5, VadMoves DEF start, stop
  <1>7. utterance = IF start THEN {sent + 1}
                    ELSE IF vad.inSpeech THEN heard \cup {sent + 1} ELSE {}
    BY DEF Utterance, start
  <1> HIDE DEF utterance
  <1>8. sent + 1 \notin ChunksIn(Row) /\ ChunksIn(inbox["turn"].sys) \subseteq ChunksIn(Row)
    <2>1. sent + 1 \notin 1..sent
      BY <1>5
    <2>2. ChunksIn(inbox["turn"].sys) \subseteq ChunksIn(Row)
      BY <1>5, RowTyped, ConcatChunks DEF Row
    <2>3. QED
      BY <1>5, <2>1, <2>2
  <1>9. PICK u \in Seq(MicItem) : /\ Thinned(Begun(inbox["turn"].sys, start), u, ignored')
                                  /\ inbox'["turn"].sys = Pushed(u, stop, sent + 1, utterance)
    BY <1>6
  <1>10. PICK t \in Seq(MicItem) : /\ Thinned(Begun(Row, start), t, ignored')
                                   /\ Row' = Pushed(t, stop, sent + 1, utterance)
    BY <1>6
  <1> DEFINE Keeps(s, r) ==
        VadKept(s, r, sent + 1, utterance, start, stop, vad.inSpeech, ignored')
  <1>11. ASSUME NEW s \in Seq(MicItem), NEW w \in Seq(MicItem),
                sent + 1 \notin ChunksIn(s), Thinned(Begun(s, start), w, ignored')
         PROVE  Keeps(s, Pushed(w, stop, sent + 1, utterance))
    <2>1. sent + 1 \in Nat
      BY <1>5
    <2>2. QED
      BY <1>3, <1>4, <1>6, <1>11, <2>1, VadRow
  <1>12. Keeps(inbox["turn"].sys, inbox'["turn"].sys)
    <2> HIDE DEF Keeps
    <2>1. QED
      BY <1>5, <1>8, <1>9, <1>11
  <1>13. Keeps(Row, Row')
    <2> HIDE DEF Keeps
    <2>1. QED
      BY <1>5, <1>8, <1>10, <1>11
  <1>14. MicTyped'
    <2>1. heard' \in SUBSET Nat /\ sent' \in Nat
      BY <1>1, <1>5, <1>6
    <2>2. QED
      BY <1>1, <1>5, <1>6, <2>1 DEF MicTyped
  <1>15. ChunksInv'
    <2>1. Distinct(Row') /\ ChunksIn(Row') \subseteq ChunksIn(Row) \cup {sent + 1}
      BY <1>5, <1>7, <1>13 DEF VadKept
    <2>2. L!Taken' = L!Taken /\ L!ChunkOnce' /\ Elems(buf)' = Elems(buf)
      BY <1>1, <1>6, BufferKept DEF RowInv, Elems
    <2>3. /\ ChunksIn(Row) \cup Elems(buf) \cup L!Taken \subseteq 1..sent
          /\ ChunksIn(Row) \cap (Elems(buf) \cup L!Taken) = {}
      BY DEF RowInv, ChunksInv
    <2>4. 1..sent' = 1..sent \cup {sent + 1} /\ sent + 1 \notin 1..sent
      BY <1>1, <1>5
    <2>5. QED
      BY <2>1, <2>2, <2>3, <2>4 DEF ChunksInv
  <1>16. UtteranceInv'
    <2>1. Past \subseteq Past' /\ Past' = Past \cup ignored'
      BY <1>1, <1>6, BufferKept DEF RowInv
    <2>2. Whole(Row, heard, Past, ignored) /\ (~vad.inSpeech => heard = {})
      BY DEF RowInv, UtteranceInv, Past
    <2>3. Whole(Row', heard', Past \cup ignored', ignored \cup ignored')
      <3>1. Whole(Row', IF stop THEN {} ELSE utterance, Past \cup ignored', ignored \cup ignored')
        BY <1>7, <1>13, <2>2, Zenon DEF VadKept
      <3>2. QED
        BY <1>6, <1>7, <3>1
    <2>4. Whole(Row', heard', Past', ignored')
      <3>1. ignored \cup ignored' = ignored'
        BY <1>6
      <3>2. QED
        BY <2>1, <2>3, <3>1
    <2>5. ~vad'.inSpeech => heard' = {}
      BY <1>3, <1>4, <1>6, <1>7
    <2>6. \A i \in DOMAIN flushes' :
            /\ flushes'[i].state = "begin" => flushes'[i].audio = <<>>
            /\ flushes'[i].utterance \subseteq
                 L!Taken' \cup ignored' \cup wiped'
                   \cup (IF flushes'[i].state = "begin" THEN Elems(buf') ELSE {})
      BY <1>1, <1>6, BufferKept DEF RowInv
    <2>7. Whole(Row', heard', Elems(buf') \cup L!Taken' \cup ignored' \cup wiped', ignored')
      BY <2>4 DEF Past
    <2>8. QED
      BY <2>5, <2>6, <2>7 DEF UtteranceInv
  <1>17. TurnsInv'
    <2>1. /\ tracker.active \in BOOLEAN
          /\ Alternating(inbox["turn"].sys, tracker.active, ~vad.inSpeech)
      BY DEF TurnsInv
    <2>2. Alternating(inbox'["turn"].sys, tracker.active, ~((vad.inSpeech \/ start) /\ ~stop))
      BY <1>12, <2>1 DEF VadKept
    <2>3. vad'.inSpeech = ((vad.inSpeech \/ start) /\ ~stop)
      BY <1>3, <1>4
    <2>4. Alternating(inbox'["turn"].sys, tracker'.active, ~vad'.inSpeech)
      BY <1>1, <2>2, <2>3
    <2>5. QED
      BY <1>1, <2>4 DEF TurnsInv, L!TurnsAlternate
  <1>18. QED
    BY <1>2, <1>14, <1>15, <1>16, <1>17 DEF RowInv

(* What the client and the source push besides audio. *)
LEMMA PushKeeps ==
  ASSUME RowInv, TurnsInv, UNCHANGED pipeline, NEW q \in MicItem, ~IsAudio(q), ~IsStart(q),
         IsStop(q) => q.utterance \subseteq heard,
         inbox' = [inbox EXCEPT !["turn"] = L!Enqueue(@, q)],
         UNCHANGED <<service, sent, vad, silence, heard, tracker, turns, buf, flushes, wiped,
                     ignored>>
  PROVE  RowInv' /\ TurnsInv'
  <1>1. /\ MicTyped /\ Distinct(Row) /\ Row \in Seq(MicItem) /\ inbox["turn"].sys \in Seq(MicItem)
    BY RowTyped DEF RowInv, ChunksInv
  <1>2. /\ inbox' \in [L!Nodes -> InboxSet(MicItem)]
        /\ \A n \in L!Nodes : inbox'[n].up = <<>> /\ inbox'[n].down = <<>>
        /\ inbox'["turn"].sys = Append(inbox["turn"].sys, q)
        /\ Row' = Append(Row, q)
    BY <1>1, PushMoves
  <1>3. MicTyped' /\ VadInv'
    BY <1>2 DEF RowInv, MicTyped, VadInv, L!EndOfTurnAgrees
  <1>4. /\ L!Taken' = L!Taken /\ L!ChunkOnce'
        /\ Past' = Past \cup ignored' /\ Elems(buf)' = Elems(buf)
        /\ \A i \in DOMAIN flushes' :
             /\ flushes'[i].state = "begin" => flushes'[i].audio = <<>>
             /\ flushes'[i].utterance \subseteq
                  L!Taken' \cup ignored' \cup wiped'
                    \cup (IF flushes'[i].state = "begin" THEN Elems(buf') ELSE {})
    BY BufferKept DEF RowInv, Elems
  <1>5. ChunksInv'
    <2>1. Distinct(Row') /\ ChunksIn(Row') = ChunksIn(Row)
      BY <1>1, <1>2, AppendKeeps
    <2>2. QED
      BY <1>4, <2>1 DEF RowInv, ChunksInv
  <1>6. UtteranceInv'
    <2>1. Whole(Row, heard, Past, ignored)
      BY DEF RowInv, UtteranceInv, Past
    <2>2. Whole(Append(Row, q), heard, Past, ignored)
      BY <1>1, <2>1, AppendKeeps
    <2>3. Past' = Past
      BY <1>4 DEF Past
    <2>4. Whole(Row', heard', Past', ignored')
      BY <1>2, <2>2, <2>3
    <2>5. ~vad'.inSpeech => heard' = {}
      BY DEF RowInv, UtteranceInv
    <2>6. QED
      BY <1>4, <2>4, <2>5 DEF UtteranceInv, Past
  <1>7. TurnsInv'
    <2>1. /\ tracker.active \in BOOLEAN /\ vad.inSpeech \in BOOLEAN
          /\ Alternating(inbox["turn"].sys, tracker.active, ~vad.inSpeech)
      BY DEF TurnsInv, RowInv, VadInv
    <2>2. Alternating(Append(inbox["turn"].sys, q), tracker.active, ~vad.inSpeech)
      BY <1>1, <2>1, AppendKeeps
    <2>3. QED
      BY <1>2, <2>2 DEF TurnsInv, L!TurnsAlternate
  <1>8. QED
    BY <1>3, <1>5, <1>6, <1>7 DEF RowInv

LEMMA ClientKeeps ==
  ASSUME RowInv, TurnsInv, UNCHANGED pipeline, L!ClientEndsUtterance
  PROVE  RowInv' /\ TurnsInv'
  <1> DEFINE q == L!Item("UserStoppedSpeaking", 0, heard)
  <1>1. heard \in SUBSET Nat
    BY DEF RowInv, MicTyped
  <1>2. q \in MicItem /\ ~IsAudio(q) /\ ~IsStart(q) /\ q.utterance = heard
    BY <1>1 DEF L!Item, MicItem, MicKinds, IsAudio, IsStart
  <1>3. /\ inbox' = [inbox EXCEPT !["turn"] = L!Enqueue(@, q)]
        /\ UNCHANGED <<service, sent, vad, silence, heard, tracker, turns, buf, flushes, wiped,
                       ignored>>
    BY DEF L!ClientEndsUtterance, L!trackVars, L!sttVars
  <1> HIDE DEF q
  <1>4. QED
    BY <1>2, <1>3, PushKeeps

LEMMA SourceKeeps ==
  ASSUME RowInv, TurnsInv, UNCHANGED pipeline, L!SourceInterrupts
  PROVE  RowInv' /\ TurnsInv'
  <1> DEFINE q == L!Frame("Interruption")
  <1>1. q \in MicItem /\ ~IsAudio(q) /\ ~IsStart(q) /\ ~IsStop(q)
    BY DEF L!Frame, L!Item, MicItem, MicKinds, IsAudio, IsStart, IsStop
  <1>2. /\ inbox' = [inbox EXCEPT !["turn"] = L!Enqueue(@, q)]
        /\ UNCHANGED <<service, sent, vad, silence, heard, tracker, turns, buf, flushes, wiped,
                       ignored>>
    BY DEF L!SourceInterrupts, L!trackVars, L!sttVars
  <1> HIDE DEF q
  <1>3. QED
    BY <1>1, <1>2, PushKeeps

(* The tracker passes on what it takes. *)
LEMMA TrackerKeepsRow ==
  ASSUME RowInv, UNCHANGED pipeline, ~L!IsEmpty(inbox["turn"]), L!TrackerPasses
  PROVE  RowInv'
  <1>1. /\ MicTyped /\ Distinct(Row) /\ Row \in Seq(MicItem)
    BY RowTyped DEF RowInv, ChunksInv
  <1>2. /\ inbox' \in [L!Nodes -> InboxSet(MicItem)]
        /\ \A n \in L!Nodes : inbox'[n].up = <<>> /\ inbox'[n].down = <<>>
        /\ Row' \in Seq(MicItem) /\ Thinned(Row, Row', ignored') /\ ignored \subseteq ignored'
    BY <1>1, TrackerMoves
  <1>3. UNCHANGED <<service, sent, vad, silence, heard, buf, flushes, wiped>>
    BY DEF L!TrackerPasses, L!userVars, L!micVars, L!sttVars
  <1>4. MicTyped' /\ VadInv'
    BY <1>2, <1>3 DEF RowInv, MicTyped, VadInv, L!EndOfTurnAgrees
  <1>5. /\ L!Taken' = L!Taken /\ L!ChunkOnce'
        /\ Past' = Past \cup ignored' /\ Elems(buf)' = Elems(buf)
        /\ \A i \in DOMAIN flushes' :
             /\ flushes'[i].state = "begin" => flushes'[i].audio = <<>>
             /\ flushes'[i].utterance \subseteq
                  L!Taken' \cup ignored' \cup wiped'
                    \cup (IF flushes'[i].state = "begin" THEN Elems(buf') ELSE {})
    BY <1>2, <1>3, BufferKept DEF RowInv, Elems
  <1>6. ChunksInv'
    <2>1. Distinct(Row') /\ ChunksIn(Row') \subseteq ChunksIn(Row)
      BY <1>1, <1>2, ThinKeeps
    <2>2. QED
      BY <1>3, <1>5, <2>1 DEF RowInv, ChunksInv
  <1>7. UtteranceInv'
    <2>1. Whole(Row, heard, Past, ignored)
      BY DEF RowInv, UtteranceInv, Past
    <2>2. Whole(Row', heard, Past \cup ignored', ignored \cup ignored')
      BY <1>1, <1>2, <2>1, ThinKeeps
    <2>3. ignored \cup ignored' = ignored' /\ heard' = heard
      BY <1>2, <1>3
    <2>4. Whole(Row', heard', Past', ignored')
      BY <1>5, <2>2, <2>3
    <2>5. ~vad'.inSpeech => heard' = {}
      BY <1>3 DEF RowInv, UtteranceInv
    <2>6. QED
      BY <1>5, <2>4, <2>5 DEF UtteranceInv, Past
  <1>8. QED
    BY <1>4, <1>6, <1>7 DEF RowInv

(* The turns the tracker has announced, after it took the head of its inbox. *)
TurnsSoFar(announced, index, active) ==
  /\ announced \in Seq([what : {"started", "ended"}, index : Nat])
  /\ Len(announced) = 2 * index - (IF active THEN 1 ELSE 0)
  /\ \A k \in DOMAIN announced :
       announced[k] = [what |-> IF k % 2 = 1 THEN "started" ELSE "ended",
                       index |-> (k + 1) \div 2]

LEMMA TurnStarts ==
  ASSUME NEW a, NEW i \in Nat, TurnsSoFar(a, i, FALSE)
  PROVE  TurnsSoFar(Append(a, [what |-> "started", index |-> i + 1]), i + 1, TRUE)
  <1> DEFINE q == [what |-> "started", index |-> i + 1]
             b == Append(a, q)
  <1>1. /\ a \in Seq([what : {"started", "ended"}, index : Nat]) /\ Len(a) = 2 * i
        /\ \A k \in DOMAIN a : a[k] = [what |-> IF k % 2 = 1 THEN "started" ELSE "ended",
                                       index |-> (k + 1) \div 2]
    BY DEF TurnsSoFar
  <1>2. q \in [what : {"started", "ended"}, index : Nat]
    OBVIOUS
  <1> HIDE DEF q
  <1>3. /\ b \in Seq([what : {"started", "ended"}, index : Nat])
        /\ Len(b) = 2 * i + 1 /\ DOMAIN b = 1..2 * i + 1 /\ DOMAIN a = 1..2 * i
        /\ \A k \in 1..2 * i : b[k] = a[k]
        /\ b[2 * i + 1] = q
    BY <1>1, <1>2, AppendProperties, LenProperties
  <1> HIDE DEF b
  <1>4. (2 * i + 1) % 2 = 1 /\ (2 * i + 1 + 1) \div 2 = i + 1
    OBVIOUS
  <1>5. \A k \in DOMAIN b : b[k] = [what |-> IF k % 2 = 1 THEN "started" ELSE "ended",
                                    index |-> (k + 1) \div 2]
    <2> SUFFICES ASSUME NEW k \in 1..2 * i + 1
                 PROVE  b[k] = [what |-> IF k % 2 = 1 THEN "started" ELSE "ended",
                                index |-> (k + 1) \div 2]
      BY <1>3
    <2>1. CASE k = 2 * i + 1
      BY <1>3, <1>4, <2>1 DEF q
    <2>2. CASE k # 2 * i + 1
      <3>1. k \in 1..2 * i
        BY <2>2
      <3>2. QED
        BY <1>1, <1>3, <3>1
    <2>3. QED
      BY <2>1, <2>2
  <1>6. Len(b) = 2 * (i + 1) - 1
    BY <1>3
  <1>7. QED
    BY <1>3, <1>5, <1>6 DEF TurnsSoFar, b, q

LEMMA TurnEnds ==
  ASSUME NEW a, NEW i \in Nat, TurnsSoFar(a, i, TRUE)
  PROVE  TurnsSoFar(Append(a, [what |-> "ended", index |-> i]), i, FALSE)
  <1> DEFINE q == [what |-> "ended", index |-> i]
             b == Append(a, q)
  <1>1. /\ a \in Seq([what : {"started", "ended"}, index : Nat]) /\ Len(a) = 2 * i - 1
        /\ \A k \in DOMAIN a : a[k] = [what |-> IF k % 2 = 1 THEN "started" ELSE "ended",
                                       index |-> (k + 1) \div 2]
    BY DEF TurnsSoFar
  <1>2. q \in [what : {"started", "ended"}, index : Nat]
    OBVIOUS
  <1> HIDE DEF q
  <1>3. /\ b \in Seq([what : {"started", "ended"}, index : Nat])
        /\ Len(b) = 2 * i /\ DOMAIN b = 1..2 * i /\ DOMAIN a = 1..2 * i - 1
        /\ \A k \in 1..2 * i - 1 : b[k] = a[k]
        /\ b[2 * i] = q
    <2> DEFINE T == [what : {"started", "ended"}, index : Nat]
    <2>1. a \in Seq(T) /\ q \in T /\ Len(a) = 2 * i - 1
      BY <1>1, <1>2
    <2> HIDE DEF T
    <2>2. /\ b \in Seq(T) /\ Len(b) = Len(a) + 1 /\ b[Len(a) + 1] = q
          /\ \A k \in 1..Len(a) : b[k] = a[k]
      BY <2>1, AppendProperties
    <2>3. DOMAIN b = 1..Len(b) /\ DOMAIN a = 1..Len(a)
      BY <2>1, <2>2, LenProperties
    <2>4. (2 * i - 1) + 1 = 2 * i
      OBVIOUS
    <2>5. QED
      BY <2>1, <2>2, <2>3, <2>4 DEF T
  <1> HIDE DEF b
  <1>4. (2 * i) % 2 # 1 /\ (2 * i + 1) \div 2 = i
    OBVIOUS
  <1>5. \A k \in DOMAIN b : b[k] = [what |-> IF k % 2 = 1 THEN "started" ELSE "ended",
                                    index |-> (k + 1) \div 2]
    <2> SUFFICES ASSUME NEW k \in 1..2 * i
                 PROVE  b[k] = [what |-> IF k % 2 = 1 THEN "started" ELSE "ended",
                                index |-> (k + 1) \div 2]
      BY <1>3
    <2>1. CASE k = 2 * i
      BY <1>3, <1>4, <2>1 DEF q
    <2>2. CASE k # 2 * i
      <3>1. k \in 1..2 * i - 1
        BY <2>2
      <3>2. QED
        BY <1>1, <1>3, <3>1
    <2>3. QED
      BY <2>1, <2>2
  <1>6. Len(b) = 2 * i - 0
    BY <1>3
  <1>7. QED
    BY <1>3, <1>5, <1>6 DEF TurnsSoFar, b, q

LEMMA TrackingKeeps ==
  ASSUME RowInv, TurnsInv, UNCHANGED pipeline, L!Tracking
  PROVE  RowInv' /\ TurnsInv'
  <1> DEFINE turn == inbox["turn"].sys
             q == Head(turn)
  <1>1. ~L!IsEmpty(inbox["turn"]) /\ L!TrackerPasses
    BY DEF L!Tracking, L!TrackStart, L!TrackStop, L!TrackInterruption, L!TrackAudio, L!TrackerTakes
  <1>2. RowInv'
    BY <1>1, TrackerKeepsRow
  <1>3. MicTyped /\ Distinct(Row) /\ turn \in Seq(MicItem)
    BY RowTyped DEF RowInv, ChunksInv
  <1>4. turn # <<>> /\ L!Tracked = q /\ inbox'["turn"].sys = Tail(turn)
    BY <1>1, <1>3, TrackerMoves
  <1>5. UNCHANGED vad
    BY <1>1 DEF L!TrackerPasses, L!userVars, L!micVars
  <1>6. /\ tracker \in [index : Nat, active : BOOLEAN] /\ tracker.active \in BOOLEAN
        /\ tracker.index \in Nat
        /\ TurnsSoFar(turns, tracker.index, tracker.active)
        /\ Alternating(turn, tracker.active, ~vad.inSpeech)
    BY DEF TurnsInv, TurnsSoFar, L!TurnsAlternate
  <1>7. (~vad.inSpeech) \in BOOLEAN
    BY Zenon
  <1> HIDE DEF turn, q
  <1>8. \A a, b \in BOOLEAN : Alternating(turn, a, b) =>
          /\ IsStart(q) => ~a /\ Alternating(Tail(turn), TRUE, b)
          /\ Alternating(Tail(turn), FALSE, b)
          /\ IsAudio(q) => Alternating(Tail(turn), a, b)
    BY <1>3, <1>4, TailKeeps DEF q
  <1>9. /\ IsStart(q) => ~tracker.active /\ Alternating(Tail(turn), TRUE, ~vad.inSpeech)
        /\ Alternating(Tail(turn), FALSE, ~vad.inSpeech)
        /\ IsAudio(q) => Alternating(Tail(turn), tracker.active, ~vad.inSpeech)
    BY <1>6, <1>7, <1>8, Zenon
  <1>10. SUFFICES TurnsInv'
    BY <1>2
  <1>11. ASSUME tracker' \in [index : Nat, active : BOOLEAN],
                TurnsSoFar(turns', tracker'.index, tracker'.active),
                Alternating(Tail(turn), tracker'.active, ~vad.inSpeech)
         PROVE  TurnsInv'
    BY <1>4, <1>5, <1>11 DEF TurnsInv, TurnsSoFar, L!TurnsAlternate
  <1>12. CASE L!TrackStart
    <2>1. /\ IsStart(q)
          /\ tracker' = [index |-> tracker.index + 1, active |-> TRUE]
          /\ turns' = Append(turns, [what |-> "started", index |-> tracker.index + 1])
      BY <1>4, <1>12 DEF L!TrackStart, L!TrackerTakes, IsStart, L!Tracked
    <2>2. TurnsSoFar(turns, tracker.index, FALSE)
      BY <1>6, <1>9, <2>1 DEF TurnsSoFar
    <2>3. TurnsSoFar(turns', tracker.index + 1, TRUE)
      BY <1>6, <2>1, <2>2, TurnStarts
    <2>4. tracker' \in [index : Nat, active : BOOLEAN]
      <3>1. TRUE \in BOOLEAN /\ tracker.index + 1 \in Nat
        BY <1>6
      <3>2. QED
        BY <2>1, <3>1
    <2>5. tracker'.index = tracker.index + 1 /\ tracker'.active = TRUE
      BY <2>1
    <2>6. QED
      BY <1>9, <1>11, <2>1, <2>3, <2>4, <2>5
  <1>13. ASSUME turns' = L!EndTurn, tracker' = [tracker EXCEPT !.active = FALSE]
         PROVE  TurnsInv'
    <2>1. TurnsSoFar(turns', tracker.index, FALSE)
      <3>1. CASE tracker.active
        <4>1. TurnsSoFar(turns, tracker.index, TRUE)
          BY <1>6, <3>1 DEF TurnsSoFar
        <4>2. turns' = Append(turns, [what |-> "ended", index |-> tracker.index])
          BY <1>13, <3>1 DEF L!EndTurn
        <4>3. QED
          BY <1>6, <4>1, <4>2, TurnEnds
      <3>2. CASE ~tracker.active
        <4>1. turns' = turns
          BY <1>13, <3>2 DEF L!EndTurn
        <4>2. QED
          BY <1>6, <3>2, <4>1 DEF TurnsSoFar
      <3>3. QED
        BY <3>1, <3>2
    <2>2. tracker'.index = tracker.index /\ tracker'.active = FALSE
      BY <1>6, <1>13
    <2>3. tracker' \in [index : Nat, active : BOOLEAN]
      <3>1. tracker' = [index |-> tracker.index, active |-> FALSE]
        BY <1>6, <1>13
      <3>2. FALSE \in BOOLEAN
        BY Zenon
      <3>3. QED
        BY <1>6, <3>1, <3>2
    <2>4. QED
      BY <1>9, <1>11, <2>1, <2>2, <2>3
  <1>14. CASE L!TrackAudio
    <2>1. IsAudio(q) /\ UNCHANGED <<tracker, turns>>
      BY <1>4, <1>14 DEF L!TrackAudio, L!TrackerTakes, L!Tracked, IsAudio, L!trackVars
    <2>2. QED
      BY <1>6, <1>9, <1>11, <2>1
  <1>15. QED
    BY <1>12, <1>13, <1>14 DEF L!Tracking, L!TrackStop, L!TrackInterruption

(* A step that takes the head of the row keeps the invariant if it keeps   *)
(* what the invariant says of the buffer and the flushes.                  *)
FlushesInv ==
  \A i \in DOMAIN flushes :
    /\ flushes[i].state = "begin" => flushes[i].audio = <<>>
    /\ flushes[i].utterance \subseteq
         L!Taken \cup ignored \cup wiped
           \cup (IF flushes[i].state = "begin" THEN Elems(buf) ELSE {})

LEMMA SttPopKeeps ==
  ASSUME RowInv, TurnsInv, UNCHANGED pipeline, NEW kinds, L!SttTakes(kinds), L!SttPops
  PROVE  /\ Row # <<>> /\ Row \in Seq(MicItem) /\ L!Heard = Head(Row) /\ Row' = Tail(Row)
         /\ L!Heard.kind \in kinds /\ L!Heard \in MicItem
         /\ UNCHANGED <<sent, heard>> /\ sent \in Nat
         /\ Distinct(Row') /\ Distinct(Row) /\ Row' \in Seq(MicItem)
         /\ IsAudio(L!Heard) => L!Heard.n \notin ChunksIn(Row')
         /\ ChunksIn(Row) = ChunksIn(Row') \cup (IF IsAudio(L!Heard) THEN {L!Heard.n} ELSE {})
         /\ Whole(Row', heard, Past \cup (IF IsAudio(L!Heard) THEN {L!Heard.n} ELSE {}), ignored)
         /\ IsStop(L!Heard) => L!Heard.utterance \subseteq Past
         /\ IsStart(L!Heard) => Whole(Row', heard, ignored, ignored)
         /\ (buf' \in Seq(Nat) /\ flushes' \in Seq(FlushRecord)
             /\ Elems(buf') \cup L!Taken' \subseteq 1..sent
             /\ ChunksIn(Row') \cap (Elems(buf') \cup L!Taken') = {}
             /\ L!ChunkOnce' /\ Whole(Row', heard, Past', ignored') /\ FlushesInv')
            => RowInv' /\ TurnsInv'
  <1>1. MicTyped /\ ~L!IsEmpty(inbox["stt"]) /\ L!Heard.kind \in kinds
    BY DEF RowInv, L!SttTakes, L!Heard
  <1>2. /\ inbox' = [inbox EXCEPT !["stt"] = L!PopFront(@)]
        /\ UNCHANGED <<service, sent, vad, silence, heard, tracker, turns>>
    BY DEF L!SttPops, L!userVars, L!micVars, L!trackVars
  <1>3. /\ Row # <<>> /\ Row \in Seq(MicItem) /\ L!Heard = Head(Row) /\ Row' = Tail(Row)
        /\ inbox' \in [L!Nodes -> InboxSet(MicItem)]
        /\ \A n \in L!Nodes : inbox'[n].up = <<>> /\ inbox'[n].down = <<>>
        /\ inbox'["turn"] = inbox["turn"]
    BY <1>1, <1>2, SttMoves
  <1>4. /\ Distinct(Row) /\ ChunksIn(Row) \subseteq 1..sent /\ sent \in Nat
        /\ Whole(Row, heard, Past, ignored)
    BY DEF RowInv, ChunksInv, UtteranceInv, MicTyped, Past
  <1>5. /\ Head(Row) \in MicItem /\ Tail(Row) \in Seq(MicItem)
        /\ Distinct(Tail(Row))
        /\ IsAudio(Head(Row)) => Head(Row).n \notin ChunksIn(Tail(Row))
        /\ ChunksIn(Row) =
             ChunksIn(Tail(Row)) \cup (IF IsAudio(Head(Row)) THEN {Head(Row).n} ELSE {})
        /\ Whole(Tail(Row), heard,
                 Past \cup (IF IsAudio(Head(Row)) THEN {Head(Row).n} ELSE {}), ignored)
        /\ IsStop(Head(Row)) => Head(Row).utterance \subseteq Past
        /\ IsStart(Head(Row)) => Whole(Tail(Row), heard, ignored, ignored)
    <2>1. Row # <<>> /\ Row \in Seq(MicItem)
      BY <1>3
    <2> HIDE DEF Row
    <2>2. QED
      BY <1>4, <2>1, TailKeeps
  <1>6. ASSUME buf' \in Seq(Nat), flushes' \in Seq(FlushRecord),
               Elems(buf') \cup L!Taken' \subseteq 1..sent,
               ChunksIn(Row') \cap (Elems(buf') \cup L!Taken') = {},
               L!ChunkOnce', Whole(Row', heard, Past', ignored'), FlushesInv'
        PROVE  RowInv' /\ TurnsInv'
    <2>1. MicTyped' /\ VadInv'
      BY <1>2, <1>3, <1>6 DEF RowInv, MicTyped, VadInv, L!EndOfTurnAgrees
    <2>2. ChunksInv'
      BY <1>2, <1>3, <1>4, <1>5, <1>6 DEF ChunksInv
    <2>3. UtteranceInv'
      <3>1. ~vad'.inSpeech => heard' = {}
        BY <1>2 DEF RowInv, UtteranceInv
      <3>2. Whole(Row', heard', Elems(buf') \cup L!Taken' \cup ignored' \cup wiped', ignored')
        BY <1>2, <1>6 DEF Past
      <3>3. QED
        BY <1>6, <3>1, <3>2 DEF UtteranceInv, FlushesInv
    <2>4. TurnsInv'
      BY <1>2, <1>3 DEF TurnsInv, L!TurnsAlternate
    <2>5. QED
      BY <2>1, <2>2, <2>3, <2>4 DEF RowInv
  <1>7. QED
    BY <1>1, <1>2, <1>3, <1>4, <1>5, <1>6

LEMMA HearingKeeps ==
  ASSUME RowInv, TurnsInv, UNCHANGED pipeline, L!Hearing
  PROVE  RowInv' /\ TurnsInv'
  <1>1. /\ buf \in Seq(Nat) /\ flushes \in Seq(FlushRecord)
        /\ ChunksIn(Row) \cup Elems(buf) \cup L!Taken \subseteq 1..sent
        /\ ChunksIn(Row) \cap (Elems(buf) \cup L!Taken) = {}
        /\ FlushesInv
        /\ \A i, j \in DOMAIN buf : buf[i] = buf[j] => i = j
        /\ Elems(buf) \cap L!Taken = {}
        /\ \A i, j \in DOMAIN flushes :
             i # j => Elems(flushes[i].audio) \cap Elems(flushes[j].audio) = {}
    BY ChunkOnceIs DEF RowInv, MicTyped, ChunksInv, UtteranceInv, FlushesInv
  <1>2. <<>> \in Seq(Nat) /\ Elems(<<>>) = {} /\ DOMAIN <<>> = {}
    BY DEF Elems
  <1>3. Past = Elems(buf) \cup L!Taken \cup ignored \cup wiped
    BY DEF Past
  <1>4. L!SX!ToSet(buf) = Elems(buf)
    BY ToSetIsElems
  <1>5. ASSUME flushes' = flushes PROVE L!Taken' = L!Taken
    BY <1>5 DEF L!Taken
  <1>6. ASSUME buf' = <<>>, flushes' = flushes PROVE L!ChunkOnce'
    BY <1>1, <1>2, <1>5, <1>6, ChunkOnceNextIs
  <1>7. CASE L!SttUserStarted
    <2>1. /\ L!SttTakes({"UserStartedSpeaking"}) /\ L!SttPops
          /\ buf' = <<>> /\ flushes' = flushes /\ ignored' = ignored
          /\ wiped' = IF L!Waiting = {} THEN wiped ELSE wiped \cup Elems(buf)
      BY <1>4, <1>7 DEF L!SttUserStarted
    <2>2. /\ L!Heard.kind = "UserStartedSpeaking" /\ ChunksIn(Row') \subseteq ChunksIn(Row)
          /\ IsStart(L!Heard) => Whole(Row', heard, ignored, ignored)
      BY <2>1, SttPopKeeps
    <2>3. Whole(Row', heard, ignored, ignored)
      BY <2>2 DEF IsStart
    <2>4. ignored \subseteq Past'
      BY <2>1 DEF Past
    <2>5. Whole(Row', heard, Past', ignored')
      BY <2>1, <2>3, <2>4, WholeMono
    <2>6. L!Taken' = L!Taken /\ L!ChunkOnce' /\ Elems(buf') = {}
      BY <1>2, <1>5, <1>6, <2>1
    <2>7. FlushesInv'
      <3> SUFFICES ASSUME NEW i \in DOMAIN flushes
                   PROVE  /\ flushes[i].state = "begin" => flushes[i].audio = <<>>
                          /\ flushes[i].utterance \subseteq L!Taken \cup ignored \cup wiped'
        BY <2>1, <2>6 DEF FlushesInv
      <3>1. /\ flushes[i].state = "begin" => flushes[i].audio = <<>>
            /\ flushes[i].utterance \subseteq L!Taken \cup ignored \cup wiped
                 \cup (IF flushes[i].state = "begin" THEN Elems(buf) ELSE {})
        BY <1>1 DEF FlushesInv
      <3>2. CASE flushes[i].state = "begin"
        <4>1. L!Waiting # {}
          BY <3>2 DEF L!Waiting
        <4>2. QED
          BY <2>1, <3>1, <3>2, <4>1
      <3>3. CASE flushes[i].state # "begin"
        BY <2>1, <3>1, <3>3
      <3>4. QED
        BY <3>2, <3>3
    <2>8. buf' \in Seq(Nat) /\ flushes' \in Seq(FlushRecord)
      BY <1>1, <1>2, <2>1
    <2>9. /\ Elems(buf') \cup L!Taken' \subseteq 1..sent
          /\ ChunksIn(Row') \cap (Elems(buf') \cup L!Taken') = {}
      BY <1>1, <2>2, <2>6
    <2>10. QED
      BY <2>1, <2>5, <2>6, <2>7, <2>8, <2>9, SttPopKeeps
  <1>8. CASE L!SttInputAudio
    <2> DEFINE n == L!Heard.n
    <2>1. /\ L!SttTakes({"InputAudio"}) /\ L!SttPops
          /\ buf' = IF speaking THEN buf ELSE Append(buf, n)
          /\ ignored' = IF speaking THEN ignored \cup {n} ELSE ignored
          /\ flushes' = flushes /\ wiped' = wiped
      BY <1>8 DEF L!SttInputAudio
    <2>2. IsAudio(L!Heard)
      BY <2>1, SttPopKeeps DEF IsAudio
    <2>3. /\ L!Heard \in MicItem /\ n \notin ChunksIn(Row')
          /\ ChunksIn(Row) = ChunksIn(Row') \cup {n}
          /\ Whole(Row', heard, Past \cup {n}, ignored)
      BY <2>1, <2>2, SttPopKeeps
    <2>4. n \in Nat /\ n \in 1..sent /\ n \notin Elems(buf) \cup L!Taken
      BY <1>1, <2>3 DEF MicItem
    <2> HIDE DEF n
    <2>5. /\ Append(buf, n) \in Seq(Nat) /\ Len(buf) \in Nat /\ DOMAIN buf = 1..Len(buf)
          /\ DOMAIN Append(buf, n) = 1..Len(buf) + 1
          /\ \A i \in 1..Len(buf) : Append(buf, n)[i] = buf[i]
          /\ Append(buf, n)[Len(buf) + 1] = n
      BY <1>1, <2>4, AppendProperties, LenProperties
    <2>6. Elems(Append(buf, n)) = Elems(buf) \cup {n}
      <3> DEFINE b == Append(buf, n)
      <3>1. \A i \in DOMAIN b : i \in DOMAIN buf \/ i = Len(buf) + 1
        BY <2>5
      <3>2. Len(buf) + 1 \in DOMAIN b /\ \A i \in DOMAIN buf : i \in DOMAIN b
        BY <2>5
      <3>3. b[Len(buf) + 1] = n /\ \A i \in DOMAIN buf : b[i] = buf[i]
        BY <2>5
      <3> HIDE DEF b
      <3>4. Elems(b) = Elems(buf) \cup {n}
        BY <3>1, <3>2, <3>3 DEF Elems
      <3>5. QED
        BY <3>4 DEF b
    <2>7. L!Taken' = L!Taken
      BY <1>5, <2>1
    <2>8. Elems(buf') \subseteq Elems(buf) \cup {n} /\ buf' \in Seq(Nat)
      BY <1>1, <2>1, <2>5, <2>6
    <2>9. \A i, j \in DOMAIN buf' : buf'[i] = buf'[j] => i = j
      <3>1. CASE speaking
        BY <1>1, <2>1, <3>1
      <3>2. CASE ~speaking
        <4> SUFFICES ASSUME NEW i \in 1..Len(buf) + 1, NEW j \in 1..Len(buf) + 1,
                            Append(buf, n)[i] = Append(buf, n)[j]
                     PROVE  i = j
          BY <2>1, <2>5, <3>2
        <4>1. \A k \in 1..Len(buf) : buf[k] # n
          BY <2>4, <2>5 DEF Elems
        <4>2. CASE i = Len(buf) + 1 \/ j = Len(buf) + 1
          BY <2>5, <4>1, <4>2
        <4>3. CASE i # Len(buf) + 1 /\ j # Len(buf) + 1
          <5>1. i \in 1..Len(buf) /\ j \in 1..Len(buf)
            BY <2>5, <4>3
          <5>2. QED
            BY <1>1, <2>5, <5>1
        <4>4. QED
          BY <4>2, <4>3
      <3>3. QED
        BY <3>1, <3>2
    <2>10. Elems(buf') \cap L!Taken' = {}
      BY <1>1, <2>4, <2>7, <2>8
    <2>11. L!ChunkOnce'
      BY <1>1, <2>1, <2>9, <2>10, ChunkOnceNextIs
    <2>12. /\ Elems(buf') \cup L!Taken' \subseteq 1..sent
           /\ ChunksIn(Row') \cap (Elems(buf') \cup L!Taken') = {}
      BY <1>1, <2>3, <2>4, <2>7, <2>8
    <2>13. Past \cup {n} \subseteq Past' /\ ignored \subseteq ignored'
           /\ (Elems(buf) \subseteq Elems(buf'))
      BY <2>1, <2>6, <2>7 DEF Past
    <2>14. Whole(Row', heard, Past', ignored')
      BY <2>3, <2>13, WholeMono
    <2>15. FlushesInv'
      BY <1>1, <2>1, <2>7, <2>13 DEF FlushesInv
    <2>16. QED
      BY <1>1, <2>1, <2>8, <2>11, <2>12, <2>14, <2>15, SttPopKeeps
  <1>9. CASE L!SttUserStopped
    <2> DEFINE h == L!Heard.utterance
    <2>1. /\ L!SttTakes({"UserStoppedSpeaking"}) /\ L!SttPops
          /\ buf' = IF speaking THEN <<>> ELSE buf
          /\ ignored' = IF speaking THEN ignored \cup Elems(buf) ELSE ignored
          /\ flushes' = IF speaking THEN flushes ELSE Append(flushes, L!NewFlush(h))
          /\ wiped' = wiped
      BY <1>4, <1>9 DEF L!SttUserStopped
    <2>2. IsStop(L!Heard) /\ ~IsAudio(L!Heard)
      BY <2>1, SttPopKeeps DEF IsStop, IsAudio
    <2>3. /\ L!Heard \in MicItem /\ ChunksIn(Row) = ChunksIn(Row')
          /\ Whole(Row', heard, Past, ignored)
          /\ h \subseteq Past
      BY <2>1, <2>2, SttPopKeeps
    <2>4. h \in SUBSET Nat
      BY <2>3 DEF MicItem
    <2> HIDE DEF h
    <2>5. CASE speaking
      <3>1. buf' = <<>> /\ flushes' = flushes /\ ignored' = ignored \cup Elems(buf)
        BY <2>1, <2>5
      <3>2. L!Taken' = L!Taken /\ L!ChunkOnce' /\ Elems(buf') = {}
        BY <1>2, <1>5, <1>6, <3>1
      <3>3. Past \subseteq Past' /\ ignored \subseteq ignored'
        BY <1>3, <2>1, <3>1, <3>2 DEF Past
      <3>4. Whole(Row', heard, Past', ignored')
        BY <2>3, <3>3, WholeMono
      <3>5. FlushesInv'
        BY <1>1, <2>1, <3>1, <3>2 DEF FlushesInv
      <3>6. /\ Elems(buf') \cup L!Taken' \subseteq 1..sent
            /\ ChunksIn(Row') \cap (Elems(buf') \cup L!Taken') = {}
            /\ buf' \in Seq(Nat) /\ flushes' \in Seq(FlushRecord)
        BY <1>1, <1>2, <2>3, <3>1, <3>2
      <3>7. QED
        BY <2>1, <3>2, <3>4, <3>5, <3>6, SttPopKeeps
    <2>6. CASE ~speaking
      <3> DEFINE f == L!NewFlush(h)
                 m == Len(flushes) + 1
      <3>1. buf' = buf /\ flushes' = Append(flushes, f) /\ ignored' = ignored
        BY <2>1, <2>6
      <3>2. f \in FlushRecord /\ f.audio = <<>> /\ f.utterance = h /\ f.state = "begin"
        BY <2>4 DEF L!NewFlush, FlushRecord, L!FlushStates
      <3> HIDE DEF f
      <3>3. /\ flushes' \in Seq(FlushRecord) /\ Len(flushes) \in Nat
            /\ DOMAIN flushes = 1..Len(flushes)
            /\ DOMAIN flushes' = 1..Len(flushes) + 1
            /\ \A i \in 1..Len(flushes) : flushes'[i] = flushes[i]
            /\ flushes'[Len(flushes) + 1] = f
        BY <1>1, <3>1, <3>2, AppendProperties, LenProperties
      <3>4. /\ \A i \in DOMAIN flushes' : i \in DOMAIN flushes \/ i = m
            /\ \A i \in DOMAIN flushes : i \in DOMAIN flushes' /\ flushes'[i] = flushes[i]
            /\ m \in DOMAIN flushes' /\ flushes'[m] = f
        BY <3>3
      <3> HIDE DEF m
      <3>5. L!Taken' = L!Taken
        BY <1>2, <3>2, <3>4, TakenIs
      <3>6. \A i, j \in DOMAIN flushes' :
               i # j => Elems(flushes'[i].audio) \cap Elems(flushes'[j].audio) = {}
        BY <1>1, <1>2, <3>2, <3>4
      <3>7. L!ChunkOnce'
        BY <1>1, <3>1, <3>5, <3>6, ChunkOnceNextIs
      <3>8. Past' = Past /\ Elems(buf') = Elems(buf)
        BY <2>1, <3>1, <3>5 DEF Past
      <3>9. FlushesInv'
        BY <1>1, <1>3, <2>1, <2>3, <3>1, <3>2, <3>4, <3>5 DEF FlushesInv
      <3>10. /\ Elems(buf') \cup L!Taken' \subseteq 1..sent
             /\ ChunksIn(Row') \cap (Elems(buf') \cup L!Taken') = {}
             /\ Whole(Row', heard, Past', ignored')
        BY <1>1, <2>3, <3>1, <3>5, <3>8
      <3>11. QED
        BY <1>1, <2>1, <3>1, <3>3, <3>7, <3>9, <3>10, SttPopKeeps
    <2>7. QED
      BY <2>5, <2>6
  <1>10. CASE L!SttOther
    <2>1. /\ L!SttTakes({"Interruption"}) /\ L!SttPops
          /\ UNCHANGED <<buf, flushes, wiped, ignored>>
      BY <1>10 DEF L!SttOther, L!sttVars
    <2>2. ~IsAudio(L!Heard)
      BY <2>1, SttPopKeeps DEF IsAudio
    <2>3. ChunksIn(Row) = ChunksIn(Row') /\ Whole(Row', heard, Past, ignored)
      BY <2>1, <2>2, SttPopKeeps
    <2>4. L!Taken' = L!Taken /\ Past' = Past /\ Elems(buf') = Elems(buf)
      BY <1>5, <2>1 DEF Past
    <2>5. L!ChunkOnce' /\ FlushesInv'
      <3>1. L!ChunkOnce'
        BY <1>1, <2>1, <2>4, ChunkOnceNextIs
      <3>2. FlushesInv'
        BY <1>1, <2>1, <2>4 DEF FlushesInv
      <3>3. QED
        BY <3>1, <3>2
    <2>6. QED
      BY <1>1, <2>1, <2>3, <2>4, <2>5, SttPopKeeps
  <1>11. QED
    BY <1>7, <1>8, <1>9, <1>10 DEF L!Hearing

(* What a flush becomes keeps its utterance, and it has begun. *)
SameFlush(f, g) ==
  f \in FlushRecord /\ f.audio = g.audio /\ f.utterance = g.utterance /\ f.state # "begin"

LEMMA FlushBecomes ==
  ASSUME NEW g \in FlushRecord
  PROVE  /\ service \in Services => \A f \in L!Decides(g) : SameFlush(f, g)
         /\ \A f \in L!Answers(g) : SameFlush(f, g) /\ g.state # "begin"
         /\ SameFlush(L!Ends(g), g)
  <1>1. /\ \A state \in L!FlushStates \ {"begin"} : SameFlush(L!Goes(g, state), g)
        /\ SameFlush(L!Fails(g), g) /\ SameFlush(L!Finds(g), g) /\ SameFlush(L!Ends(g), g)
    BY DEF SameFlush, FlushRecord, L!Goes, L!Fails, L!Finds, L!Ends, L!FlushStates
  <1>2. SameFlush([g EXCEPT !.polls = @ + 1], g) \/ g.state = "begin"
    BY DEF SameFlush, FlushRecord
  <1>3. {"request", "upload", "create", "poll"} \subseteq L!FlushStates \ {"begin"}
    BY DEF L!FlushStates
  <1>4. ASSUME service \in Services, NEW f \in L!Decides(g)
        PROVE  SameFlush(f, g)
    <2>1. service \in {"deepgram", "whisper", "assemblyai", "google"}
      BY <1>4, ListeningAssumption
    <2>2. f \in {L!Fails(g), L!Ends(g), L!Goes(g, "request"), L!Goes(g, "upload")}
      BY <1>4, <2>1 DEF L!Decides, L!DeepgramDecides, L!WhisperDecides, L!AssemblyDecides,
                        L!GoogleDecides
    <2>3. QED
      BY <1>1, <1>3, <2>2
  <1>5. ASSUME NEW f \in L!Answers(g)
        PROVE  SameFlush(f, g) /\ g.state # "begin"
    <2>1. g.state # "begin"
      BY DEF L!Answers
    <2>2. f \in {L!Fails(g), L!Ends(g), L!Finds(g), L!Goes(g, "create"), L!Goes(g, "poll"),
                 [g EXCEPT !.polls = @ + 1]}
      BY DEF L!Answers, L!AssemblyUpload, L!AssemblyCreate, L!AssemblyPoll, L!DeepgramRequest,
             L!WhisperRequest, L!GoogleRequest
    <2>3. QED
      BY <1>1, <1>2, <1>3, <2>1, <2>2
  <1>6. QED
    BY <1>1, <1>4, <1>5

(* A step of flush i that makes it f, with the buffer emptied or not. *)
LEMMA FlushMoves ==
  ASSUME RowInv, TurnsInv, UNCHANGED pipeline, L!OnlyFlush, NEW i \in DOMAIN flushes,
         NEW f \in FlushRecord, flushes' = [flushes EXCEPT ![i] = f], f.state # "begin",
         f.utterance = flushes[i].utterance,
         \/ flushes[i].state = "begin" /\ f.audio = buf /\ buf' = <<>>
         \/ flushes[i].state # "begin" /\ f.audio = flushes[i].audio /\ buf' = buf
  PROVE  RowInv' /\ TurnsInv'
  <1>1. /\ buf \in Seq(Nat) /\ flushes \in Seq(FlushRecord)
        /\ ChunksIn(Row) \cup Elems(buf) \cup L!Taken \subseteq 1..sent
        /\ ChunksIn(Row) \cap (Elems(buf) \cup L!Taken) = {}
        /\ FlushesInv /\ Distinct(Row)
        /\ \A k, j \in DOMAIN buf : buf[k] = buf[j] => k = j
        /\ Elems(buf) \cap L!Taken = {}
        /\ \A k, j \in DOMAIN flushes :
             k # j => Elems(flushes[k].audio) \cap Elems(flushes[j].audio) = {}
        /\ Whole(Row, heard, Past, ignored) /\ (~vad.inSpeech => heard = {})
    BY ChunkOnceIs DEF RowInv, MicTyped, ChunksInv, UtteranceInv, FlushesInv, Past
  <1>2. <<>> \in Seq(Nat) /\ Elems(<<>>) = {} /\ DOMAIN <<>> = {}
    BY DEF Elems
  <1>3. UNCHANGED <<service, sent, vad, silence, heard, inbox, tracker, turns, wiped, ignored>>
    BY DEF L!OnlyFlush, L!userVars, L!micVars, L!trackVars
  <1>4. /\ DOMAIN flushes' = DOMAIN flushes /\ flushes'[i] = f /\ flushes' \in Seq(FlushRecord)
        /\ \A k \in DOMAIN flushes : k # i => flushes'[k] = flushes[k]
    BY <1>1, ExceptSeq
  <1>5. Row' = Row
    BY <1>3 DEF Row
  <1>6. /\ Elems(buf') \cup L!Taken' = Elems(buf) \cup L!Taken /\ L!Taken \subseteq L!Taken'
        /\ Elems(buf') \cap L!Taken' = {}
        /\ \A k, j \in DOMAIN flushes' :
             k # j => Elems(flushes'[k].audio) \cap Elems(flushes'[j].audio) = {}
        /\ \A k, j \in DOMAIN buf' : buf'[k] = buf'[j] => k = j
        /\ flushes[i].state = "begin" => Elems(buf) \subseteq L!Taken'
        /\ flushes[i].state # "begin" => buf' = buf
    <2>1. CASE flushes[i].state = "begin" /\ f.audio = buf /\ buf' = <<>>
      <3>1. flushes[i].audio = <<>>
        BY <1>1, <2>1 DEF FlushesInv
      <3>2. L!Taken' = L!Taken \cup Elems(buf)
        <4>1. \A k \in DOMAIN flushes : k # i => flushes'[k].audio = flushes[k].audio
          BY <1>4
        <4>2. flushes'[i].audio = buf /\ Elems(flushes[i].audio) = {}
          BY <1>2, <1>4, <2>1, <3>1
        <4>3. QED
          BY <1>4, <4>1, <4>2, TakenIs
      <3>3. \A k \in DOMAIN flushes : Elems(flushes[k].audio) \subseteq L!Taken
        BY TakenIs
      <3>4. \A k, j \in DOMAIN flushes' :
               k # j => Elems(flushes'[k].audio) \cap Elems(flushes'[j].audio) = {}
        <4> SUFFICES ASSUME NEW k \in DOMAIN flushes, NEW j \in DOMAIN flushes, k # j
                     PROVE  Elems(flushes'[k].audio) \cap Elems(flushes'[j].audio) = {}
          BY <1>4
        <4>1. flushes'[i].audio = buf
          BY <1>4, <2>1
        <4>2. \A m \in DOMAIN flushes : Elems(flushes[m].audio) \cap Elems(buf) = {}
          BY <1>1, <3>3
        <4>3. CASE k = i
          <5>1. flushes'[j].audio = flushes[j].audio
            BY <1>4, <4>3
          <5>2. QED
            BY <4>1, <4>2, <4>3, <5>1
        <4>4. CASE j = i
          <5>1. flushes'[k].audio = flushes[k].audio
            BY <1>4, <4>4
          <5>2. QED
            BY <4>1, <4>2, <4>4, <5>1
        <4>5. CASE k # i /\ j # i
          <5>1. flushes'[j].audio = flushes[j].audio /\ flushes'[k].audio = flushes[k].audio
            BY <1>4, <4>5
          <5>2. QED
            BY <1>1, <5>1
        <4>6. QED
          BY <4>3, <4>4, <4>5
      <3>5. QED
        BY <1>2, <1>1, <2>1, <3>2, <3>4
    <2>2. CASE flushes[i].state # "begin" /\ f.audio = flushes[i].audio /\ buf' = buf
      <3>1. \A k \in DOMAIN flushes : flushes'[k].audio = flushes[k].audio
        BY <1>4, <2>2
      <3>2. L!Taken' = L!Taken
        BY <1>4, <3>1, TakenIs
      <3>3. Elems(buf') = Elems(buf) /\ DOMAIN buf' = DOMAIN buf
            /\ \A k, j \in DOMAIN buf' : buf'[k] = buf'[j] => k = j
        BY <1>1, <2>2
      <3>4. \A k, j \in DOMAIN flushes' :
               k # j => Elems(flushes'[k].audio) \cap Elems(flushes'[j].audio) = {}
        BY <1>1, <1>4, <3>1, ZenonT(30)
      <3>5. QED
        BY <1>1, <2>2, <3>2, <3>3, <3>4
    <2>3. QED
      BY <2>1, <2>2
  <1>7. MicTyped' /\ VadInv'
    <2>1. buf' \in Seq(Nat)
      BY <1>1, <1>2
    <2>2. QED
      BY <1>3, <1>4, <2>1 DEF RowInv, MicTyped, VadInv, L!EndOfTurnAgrees
  <1>8. ChunksInv'
    BY <1>1, <1>3, <1>5, <1>6, ChunkOnceNextIs DEF ChunksInv
  <1>9. FlushesInv'
    <2> SUFFICES ASSUME NEW k \in DOMAIN flushes
                 PROVE  /\ flushes'[k].state = "begin" => flushes'[k].audio = <<>>
                        /\ flushes'[k].utterance \subseteq
                             L!Taken' \cup ignored \cup wiped
                               \cup (IF flushes'[k].state = "begin" THEN Elems(buf') ELSE {})
      BY <1>3, <1>4 DEF FlushesInv
    <2>1. /\ flushes[k].state = "begin" => flushes[k].audio = <<>>
          /\ flushes[k].utterance \subseteq
               L!Taken \cup ignored \cup wiped
                 \cup (IF flushes[k].state = "begin" THEN Elems(buf) ELSE {})
      BY <1>1 DEF FlushesInv
    <2>2. CASE k = i
      <3>1. flushes'[k].utterance = flushes[k].utterance /\ flushes'[k].state # "begin"
        BY <1>4, <2>2
      <3>2. QED
        BY <1>6, <2>1, <2>2, <3>1
    <2>3. CASE k # i
      <3>1. flushes'[k] = flushes[k]
        BY <1>4, <2>3
      <3>2. QED
        BY <1>6, <2>1, <3>1
    <2>4. QED
      BY <2>2, <2>3
  <1>10. UtteranceInv'
    <2>1. Past \subseteq Past'
      BY <1>3, <1>6 DEF Past
    <2>2. Whole(Row', heard', Past', ignored')
      <3>1. Whole(Row, heard, Past', ignored)
        BY <1>1, <2>1, WholeMono
      <3>2. QED
        BY <1>3, <1>5, <3>1
    <2>3. ~vad'.inSpeech => heard' = {}
      BY <1>1, <1>3
    <2>4. QED
      BY <1>9, <2>2, <2>3 DEF UtteranceInv, FlushesInv, Past
  <1>11. TurnsInv'
    BY <1>3 DEF TurnsInv, L!TurnsAlternate
  <1>12. QED
    BY <1>7, <1>8, <1>10, <1>11 DEF RowInv

LEMMA FlushKeeps ==
  ASSUME RowInv, TurnsInv, pipeline = "classic", UNCHANGED pipeline, NEW i, L!FlushStep(i)
  PROVE  RowInv' /\ TurnsInv'
  <1>1. /\ i \in DOMAIN flushes /\ flushes \in Seq(FlushRecord) /\ buf \in Seq(Nat)
        /\ service \in Services
    BY DEF L!FlushStep, RowInv, MicTyped
  <1>2. flushes[i] \in FlushRecord
    BY <1>1, ElementOfSeq, LenProperties
  <1>3. CASE L!FlushTake(i)
    <2> DEFINE g == [flushes[i] EXCEPT !.audio = buf]
    <2>1. g \in FlushRecord /\ g.audio = buf /\ g.utterance = flushes[i].utterance
      BY <1>1, <1>2 DEF FlushRecord
    <2>2. PICK f \in L!Decides(g) : flushes' = [flushes EXCEPT ![i] = f]
      BY <1>3 DEF L!FlushTake
    <2> HIDE DEF g
    <2>3. SameFlush(f, g)
      BY <1>1, <2>1, FlushBecomes
    <2>4. flushes[i].state = "begin" /\ buf' = <<>> /\ L!OnlyFlush
      BY <1>3 DEF L!FlushTake
    <2>5. QED
      BY <1>1, <2>1, <2>2, <2>3, <2>4, FlushMoves DEF SameFlush
  <1>4. CASE L!FlushRequest(i)
    <2>1. PICK f \in L!Answers(flushes[i]) : flushes' = [flushes EXCEPT ![i] = f]
      BY <1>4 DEF L!FlushRequest
    <2>2. SameFlush(f, flushes[i]) /\ flushes[i].state # "begin"
      BY <1>2, FlushBecomes
    <2>3. buf' = buf /\ L!OnlyFlush
      BY <1>4 DEF L!FlushRequest
    <2>4. QED
      BY <1>1, <2>1, <2>2, <2>3, FlushMoves DEF SameFlush
  <1>5. CASE L!FlushPush(i)
    <2> DEFINE f == L!Ends(flushes[i])
    <2>1. flushes' = [flushes EXCEPT ![i] = f] /\ flushes[i].state # "begin"
      BY <1>5 DEF L!FlushPush
    <2>2. SameFlush(f, flushes[i])
      BY <1>2, FlushBecomes
    <2>3. buf' = buf /\ L!OnlyFlush
      BY <1>5 DEF L!FlushPush
    <2> HIDE DEF f
    <2>4. QED
      BY <1>1, <2>1, <2>2, <2>3, FlushMoves DEF SameFlush
  <1>6. QED
    BY <1>3, <1>4, <1>5 DEF L!FlushStep

(* A step that leaves the chain as it is. *)
LEMMA RowUnchanged ==
  ASSUME RowInv, TurnsInv, UNCHANGED <<pipeline, sent, vad, silence, inbox, tracker, buf, flushes,
                                       heard, turns, ignored, wiped>>,
         pipeline = "classic" => UNCHANGED service
  PROVE  RowInv' /\ TurnsInv'
  <1>1. MicTyped' /\ VadInv'
    BY DEF RowInv, MicTyped, VadInv, L!EndOfTurnAgrees
  <1>2. Row' = Row /\ L!Taken' = L!Taken
    BY DEF Row, L!Taken
  <1>3. ChunksInv' /\ UtteranceInv'
    BY <1>2 DEF RowInv, ChunksInv, UtteranceInv, L!ChunkOnce
  <1>4. TurnsInv'
    BY DEF TurnsInv, L!TurnsAlternate
  <1>5. QED
    BY <1>1, <1>3, <1>4 DEF RowInv

-----------------------------------------------------------------------------
(* The chain of a pipeline that listens, and of one that does not. *)

LEMMA ListeningInit ==
  ASSUME Init
  PROVE  RowInv /\ TurnsInv
  <1>1. /\ sent = 0 /\ vad = L!NewAnalyzer /\ silence = L!NewSilence
        /\ inbox = [n \in L!Nodes |-> L!EmptyInbox]
        /\ tracker = [index |-> 0, active |-> FALSE]
        /\ buf = <<>> /\ flushes = <<>>
        /\ heard = {} /\ turns = <<>> /\ ignored = {} /\ wiped = {}
    BY DEF Init, L!AtRest
  <1>2. pipeline = "classic" => service \in Services
    BY DEF Init
  <1>3. /\ <<>> \in Seq(MicItem) /\ <<>> \in Seq(Nat) /\ <<>> \in Seq(FlushRecord)
        /\ <<>> \in Seq([what : {"started", "ended"}, index : Nat])
        /\ Len(<<>>) = 0 /\ DOMAIN <<>> = {} /\ Elems(<<>>) = {}
    BY DEF Elems
  <1>4. \A n \in L!Nodes : inbox[n] = EmptyInbox
    BY <1>1 DEF L!EmptyInbox, EmptyInbox
  <1>5. inbox["turn"].sys = <<>> /\ inbox["stt"].sys = <<>>
    BY <1>4 DEF EmptyInbox, L!Nodes
  <1>6. EmptyInbox \in InboxSet(MicItem)
    <2> DEFINE no == FALSE
    <2>1. no \in BOOLEAN
      BY Zenon
    <2>2. EmptyInbox = [sys |-> <<>>, up |-> <<>>, down |-> <<>>, audioN |-> 0,
                        closed |-> no, hiWater |-> 0, audioDrop |-> 0]
      BY DEF EmptyInbox
    <2> HIDE DEF no
    <2>3. QED
      BY <1>3, <2>1, <2>2 DEF InboxSet
  <1>7. MicTyped
    <2>1. inbox \in [L!Nodes -> InboxSet(MicItem)]
      BY <1>1, <1>4, <1>6
    <2>2. \A n \in L!Nodes : inbox[n].up = <<>> /\ inbox[n].down = <<>>
      BY <1>4 DEF EmptyInbox
    <2>3. QED
      BY <1>1, <1>2, <1>3, <2>1, <2>2 DEF MicTyped
  <1>8. ~vad.inSpeech /\ VadInv
    <2> DEFINE no == FALSE
    <2>1. no \in BOOLEAN /\ ~no
      BY Zenon
    <2>2. /\ vad = [speechRun |-> 0, silenceRun |-> 0, silenceMS |-> 0, inSpeech |-> no]
          /\ silence = [speechSeen |-> no, silenceMS |-> 0]
      BY <1>1 DEF L!NewAnalyzer, L!NewSilence
    <2> HIDE DEF no
    <2>3. ~vad.inSpeech
      BY <2>1, <2>2
    <2>4. QED
      BY <2>1, <2>2, <2>3 DEF VadInv, L!EndOfTurnAgrees
  <1>9. Row = <<>>
    BY <1>5, <1>3 DEF Row
  <1>10. L!Taken = {} /\ L!ChunkOnce
    <2>1. L!Taken = {}
      BY <1>1, <1>3 DEF L!Taken
    <2>2. QED
      BY <1>1, <1>3, <2>1, ChunkOnceIs
  <1>11. AudioAt(Row) = {}
    BY <1>3, <1>9 DEF AudioAt
  <1>12. ChunksInv
    BY <1>1, <1>3, <1>10, <1>11 DEF ChunksInv, Distinct, ChunksIn
  <1>13. UtteranceInv
    <2>1. 1..Len(Row) + 1 = {1} /\ DOMAIN Row = {} /\ Len(Row) = 0
      BY <1>3, <1>9
    <2>2. Whole(Row, heard, Elems(buf) \cup L!Taken \cup ignored \cup wiped, ignored)
      BY <1>1, <2>1 DEF Whole, EndedAt
    <2>3. QED
      BY <1>1, <1>3, <2>2 DEF UtteranceInv
  <1>14. TurnsInv
    <2> DEFINE no == FALSE
    <2>1. no \in BOOLEAN /\ ~no
      BY Zenon
    <2>2. tracker = [index |-> 0, active |-> no]
      BY <1>1
    <2> HIDE DEF no
    <2>3. tracker \in [index : Nat, active : BOOLEAN] /\ tracker.index = 0 /\ ~tracker.active
      BY <2>1, <2>2
    <2>4. Alternating(inbox["turn"].sys, tracker.active, ~vad.inSpeech)
      <3>1. \A i, j \in Opens(inbox["turn"].sys, tracker.active, ~vad.inSpeech) : ~(i < j)
        BY <1>3, <1>5, <1>8, <2>3 DEF Opens
      <3>2. QED
        BY <3>1 DEF Alternating
    <2>5. L!TurnsAlternate
      BY <1>1, <1>3 DEF L!TurnsAlternate
    <2>6. turns \in Seq([what : {"started", "ended"}, index : Nat]) /\ Len(turns) = 0
      BY <1>1, <1>3
    <2> DEFINE open == IF tracker.active THEN 1 ELSE 0
    <2>7. open = 0
      BY <2>3
    <2> HIDE DEF open
    <2>8. Len(turns) = 2 * tracker.index - open
      BY <2>3, <2>6, <2>7
    <2>9. QED
      BY <2>3, <2>4, <2>5, <2>6, <2>8 DEF TurnsInv, open
  <1>15. QED
    BY <1>7, <1>8, <1>12, <1>13, <1>14 DEF RowInv

LEMMA ListeningNext ==
  ASSUME RowInv, TurnsInv, [Next]_vars
  PROVE  RowInv' /\ TurnsInv'
  <1>1. CASE Classic
    <2>1. UNCHANGED pipeline /\ pipeline = "classic" /\ L!Next
      BY <1>1 DEF Classic
    <2>2. ASSUME NEW sound \in Sounds, L!VadHears(sound)
          PROVE  RowInv' /\ TurnsInv'
      BY <2>1, <2>2, VadHearsKeeps
    <2>3. ASSUME L!DeepgramProcess \/ L!WhisperProcess \/ L!AssemblyProcess \/ L!GoogleProcess
          PROVE  RowInv' /\ TurnsInv'
      <3>1. L!Hearing
        BY <2>3 DEF L!DeepgramProcess, L!WhisperProcess, L!AssemblyProcess, L!GoogleProcess
      <3>2. QED
        BY <2>1, <3>1, HearingKeeps
    <2>4. ASSUME NEW i \in 1..L!MaxFlushes, L!FlushStep(i)
          PROVE  RowInv' /\ TurnsInv'
      BY <2>1, <2>4, FlushKeeps
    <2>5. ASSUME L!BotSpeaks
          PROVE  RowInv' /\ TurnsInv'
      <3>1. UNCHANGED <<service, sent, vad, silence, inbox, tracker, buf, flushes, heard, turns,
                        ignored, wiped>>
        BY <2>5 DEF L!BotSpeaks, L!userVars, L!micVars, L!trackVars, L!sttVars
      <3>2. QED
        BY <2>1, <3>1, RowUnchanged
    <2>6. QED
      BY <2>1, <2>2, <2>3, <2>4, <2>5, ClientKeeps, SourceKeeps, TrackingKeeps DEF L!Next
  <1>2. ASSUME Realtime \/ Idling \/ UNCHANGED vars
        PROVE  RowInv' /\ TurnsInv'
    <2>1. UNCHANGED <<pipeline, listeningVars>> /\ (pipeline = "classic" => UNCHANGED service)
      BY <1>2 DEF Realtime, Idling, vars
    <2>2. QED
      BY <2>1, RowUnchanged DEF listeningVars
  <1>3. QED
    BY <1>1, <1>2 DEF Next

LEMMA RowHolds == Spec => [](RowInv /\ TurnsInv)
  BY ListeningInit, ListeningNext, PTL DEF Spec

(* No chunk of audio is transcribed twice, or both transcribed and kept for *)
(* the next utterance (the buffer of services/.../stt.go and its flush).      *)
THEOREM ChunkIsHeardOnce == Spec => []ChunkOnce
  <1>1. RowInv => ChunkOnce
    BY DEF RowInv, ChunksInv, ChunkOnce
  <1>2. QED
    BY <1>1, RowHolds, PTL

(* Every chunk of an utterance that a flush was started for has been taken  *)
(* by a flush once this one has emptied the buffer, unless it was ignored,  *)
(* shed, or overtaken by the next utterance (vad.go, stt.go).               *)
THEOREM UtteranceIsWhole == Spec => []UtteranceWhole
  <1>1. RowInv => UtteranceWhole
    BY DEF RowInv, UtteranceInv, UtteranceWhole, L!UtteranceWhole
  <1>2. QED
    BY <1>1, RowHolds, PTL

(* The EnergyAnalyzer and the SilenceAnalyzer, fed with the same audio,     *)
(* have heard the same silence while the user speaks.                       *)
THEOREM DetectorsAgree == Spec => []EndOfTurnAgrees
  <1>1. RowInv => EndOfTurnAgrees
    BY DEF RowInv, VadInv, EndOfTurnAgrees
  <1>2. QED
    BY <1>1, RowHolds, PTL

(* The turn frames of the TrackingProcessor come in pairs with consecutive  *)
(* numbers, whoever ends a turn, and however pushes and passes interleave.  *)
THEOREM TurnsComeInPairs == Spec => []TurnsAlternate
  <1>1. TurnsInv => TurnsAlternate
    BY DEF TurnsInv, TurnsAlternate
  <1>2. QED
    BY <1>1, RowHolds, PTL

-----------------------------------------------------------------------------
(* The inboxes of Realtime and Idle are those of InboxOps as well. *)

LEMMA RealtimeInboxes ==
  /\ \A q : R!Lane(q) = Lane(q) /\ R!IsAudio(q) = IsAudio(q)
  /\ \A in : R!IsEmpty(in) = IsEmpty(in) /\ R!Front(in) = Front(in)
             /\ R!PopFront(in) = PopFront(in)
  /\ \A in, q : R!Enqueue(in, q) = Enqueue(in, q)
  /\ \A in : R!DrainInterruptible(in) = DrainInterruptible(in)
  <1>1. /\ \A q : R!Lane(q) = Lane(q) /\ R!IsAudio(q) = IsAudio(q)
        /\ \A in : R!IsEmpty(in) = IsEmpty(in)
    BY DEF R!Lane, Lane, R!IsSystem, IsSystem, R!SystemKinds, SystemKinds, R!IsAudio, IsAudio,
           R!IsEmpty, IsEmpty
  <1>2. \A in : R!NextLane(in) = NextLane(in)
    BY DEF R!NextLane, NextLane
  <1>3. \A in : R!Front(in) = Front(in)
    BY <1>2, Zenon DEF R!Front, Front
  <1>4. \A in : R!PopFront(in) = PopFront(in)
    BY <1>1, <1>2, Zenon DEF R!PopFront, PopFront
  <1>5. \A K : R!Cardinality(K) = Cardinality(K)
    BY DEF R!Cardinality, Cardinality
  <1>6. \A K, i : R!Rank(K, i) = Rank(K, i)
    BY <1>5, Zenon DEF R!Rank, Rank
  <1>7. \A s : R!AudioAt(s) = AudioAt(s)
    BY <1>1, Zenon DEF R!AudioAt, AudioAt
  <1>8. \A s, K : R!KeepAt(s, K) = KeepAt(s, K)
    <2>1. \A K, i : R!Nth(K, i) = Nth(K, i)
      BY <1>6, Zenon DEF R!Nth, Nth
    <2>2. QED
      BY <1>5, <2>1, Zenon DEF R!KeepAt, KeepAt
  <1>9. \A in : R!ShedAt(in) = ShedAt(in)
    BY <1>6, <1>7, Zenon DEF R!ShedAt, ShedAt
  <1>10. \A in : R!Shed(in) = Shed(in)
    BY <1>5, <1>8, <1>9, Zenon DEF R!Shed, Shed
  <1>11. \A in, q : R!Enqueue(in, q) = Enqueue(in, q)
    BY <1>1, <1>10, Zenon DEF R!Enqueue, Enqueue
  <1>12. \A in : R!DrainInterruptible(in) = DrainInterruptible(in)
    <2>1. \A q : R!Droppable(q) = Droppable(q)
      BY DEF R!Droppable, Droppable, R!Interruptible, Interruptible, R!IsSystem, IsSystem,
             R!SystemKinds, SystemKinds, R!UninterruptibleKinds, UninterruptibleKinds
    <2>2. \A s : R!KeptAt(s) = KeptAt(s)
      BY <2>1, Zenon DEF R!KeptAt, KeptAt
    <2>3. QED
      BY <1>8, <2>2, Zenon DEF R!DrainInterruptible, DrainInterruptible
  <1>13. QED
    BY <1>1, <1>3, <1>4, <1>11, <1>12

LEMMA IdleInboxes ==
  /\ \A q : I!Lane(q) = Lane(q) /\ I!IsAudio(q) = IsAudio(q)
  /\ \A in : I!IsEmpty(in) = IsEmpty(in) /\ I!Front(in) = Front(in)
             /\ I!PopFront(in) = PopFront(in)
  /\ \A in, q : I!Enqueue(in, q) = Enqueue(in, q)
  /\ \A in : I!DrainInterruptible(in) = DrainInterruptible(in)
  <1>1. /\ \A q : I!Lane(q) = Lane(q) /\ I!IsAudio(q) = IsAudio(q)
        /\ \A in : I!IsEmpty(in) = IsEmpty(in)
    BY DEF I!Lane, Lane, I!IsSystem, IsSystem, I!SystemKinds, SystemKinds, I!IsAudio, IsAudio,
           I!IsEmpty, IsEmpty
  <1>2. \A in : I!NextLane(in) = NextLane(in)
    BY DEF I!NextLane, NextLane
  <1>3. \A in : I!Front(in) = Front(in)
    BY <1>2, Zenon DEF I!Front, Front
  <1>4. \A in : I!PopFront(in) = PopFront(in)
    BY <1>1, <1>2, Zenon DEF I!PopFront, PopFront
  <1>5. \A K : I!Cardinality(K) = Cardinality(K)
    BY DEF I!Cardinality, Cardinality
  <1>6. \A K, i : I!Rank(K, i) = Rank(K, i)
    BY <1>5, Zenon DEF I!Rank, Rank
  <1>7. \A s : I!AudioAt(s) = AudioAt(s)
    BY <1>1, Zenon DEF I!AudioAt, AudioAt
  <1>8. \A s, K : I!KeepAt(s, K) = KeepAt(s, K)
    <2>1. \A K, i : I!Nth(K, i) = Nth(K, i)
      BY <1>6, Zenon DEF I!Nth, Nth
    <2>2. QED
      BY <1>5, <2>1, Zenon DEF I!KeepAt, KeepAt
  <1>9. \A in : I!ShedAt(in) = ShedAt(in)
    BY <1>6, <1>7, Zenon DEF I!ShedAt, ShedAt
  <1>10. \A in : I!Shed(in) = Shed(in)
    BY <1>5, <1>8, <1>9, Zenon DEF I!Shed, Shed
  <1>11. \A in, q : I!Enqueue(in, q) = Enqueue(in, q)
    BY <1>1, <1>10, Zenon DEF I!Enqueue, Enqueue
  <1>12. \A in : I!DrainInterruptible(in) = DrainInterruptible(in)
    <2>1. \A q : I!Droppable(q) = Droppable(q)
      BY DEF I!Droppable, Droppable, I!Interruptible, Interruptible, I!IsSystem, IsSystem,
             I!SystemKinds, SystemKinds, I!UninterruptibleKinds, UninterruptibleKinds
    <2>2. \A s : I!KeptAt(s) = KeptAt(s)
      BY <2>1, Zenon DEF I!KeptAt, KeptAt
    <2>3. QED
      BY <1>8, <2>2, Zenon DEF I!DrainInterruptible, DrainInterruptible
  <1>13. QED
    BY <1>1, <1>3, <1>4, <1>11, <1>12

(* What waits in an inbox. *)
Held(in) == Elems(in.sys) \cup Elems(in.up) \cup Elems(in.down)

LEMMA HeldTyped ==
  ASSUME NEW S, NEW in \in InboxSet(S)
  PROVE  /\ in.sys \in Seq(S) /\ in.up \in Seq(S) /\ in.down \in Seq(S)
         /\ Held(in) \subseteq S /\ (IsEmpty(in) => Held(in) = {})
  <1>1. in.sys \in Seq(S) /\ in.up \in Seq(S) /\ in.down \in Seq(S)
    BY DEF InboxSet
  <1>2. \A s \in Seq(S) : Elems(s) \subseteq S
    BY DEF Elems
  <1>3. Elems(<<>>) = {}
    BY DEF Elems
  <1>4. QED
    BY <1>1, <1>2, <1>3 DEF Held, IsEmpty

(* Elements of a sequence that is appended to, or loses its head or others. *)
LEMMA ElemsOf ==
  ASSUME NEW S, NEW s \in Seq(S)
  PROVE  /\ \A q \in S : Append(s, q) \in Seq(S) /\ Elems(Append(s, q)) = Elems(s) \cup {q}
         /\ s # <<>> => /\ Tail(s) \in Seq(S) /\ Head(s) \in Elems(s)
                        /\ Elems(s) = Elems(Tail(s)) \cup {Head(s)}
         /\ \A K \in SUBSET (DOMAIN s) : Elems(KeepAt(s, K)) \subseteq {s[k] : k \in K}
  <1>1. Len(s) \in Nat /\ DOMAIN s = 1..Len(s)
    BY LenProperties
  <1>2. ASSUME NEW q \in S
        PROVE  Append(s, q) \in Seq(S) /\ Elems(Append(s, q)) = Elems(s) \cup {q}
    <2> DEFINE t == Append(s, q)
    <2>1. /\ t \in Seq(S) /\ Len(t) = Len(s) + 1 /\ t[Len(s) + 1] = q
          /\ \A k \in 1..Len(s) : t[k] = s[k]
      BY AppendProperties
    <2>2. DOMAIN t = 1..Len(s) + 1
      BY <2>1, LenProperties
    <2> HIDE DEF t
    <2>3. Elems(t) = Elems(s) \cup {q}
      BY <1>1, <2>1, <2>2 DEF Elems
    <2>4. QED
      BY <2>1, <2>3 DEF t
  <1>3. ASSUME s # <<>>
        PROVE  /\ Tail(s) \in Seq(S) /\ Head(s) \in Elems(s)
               /\ Elems(s) = Elems(Tail(s)) \cup {Head(s)}
    <2> DEFINE t == Tail(s)
    <2>1. /\ t \in Seq(S) /\ Len(t) = Len(s) - 1 /\ Head(s) = s[1] /\ Len(s) >= 1
          /\ \A k \in 1..Len(t) : t[k] = s[k + 1]
      BY <1>1, <1>3, HeadTailProperties, EmptySeq
    <2>2. DOMAIN t = 1..Len(s) - 1
      BY <2>1, LenProperties
    <2> HIDE DEF t
    <2>3. \A k \in DOMAIN s : k = 1 \/ (k - 1 \in DOMAIN t /\ t[k - 1] = s[k])
      BY <1>1, <2>1, <2>2
    <2>4. Elems(s) \subseteq Elems(t) \cup {s[1]}
      BY <2>3 DEF Elems
    <2>5. \A k \in DOMAIN t : k + 1 \in DOMAIN s /\ t[k] = s[k + 1]
      BY <1>1, <2>1, <2>2
    <2>6. Elems(t) \subseteq Elems(s) /\ s[1] \in Elems(s)
      BY <1>1, <2>1, <2>5 DEF Elems
    <2>7. QED
      BY <2>1, <2>4, <2>6 DEF t
  <1>4. ASSUME NEW K \in SUBSET (DOMAIN s)
        PROVE  Elems(KeepAt(s, K)) \subseteq {s[k] : k \in K}
    <2>1. /\ DOMAIN KeepAt(s, K) = 1..Cardinality(K)
          /\ \A k \in 1..Cardinality(K) :
               Nth(K, k) \in K /\ KeepAt(s, K)[k] = s[Nth(K, k)]
      BY KeepAtSubsequence
    <2>2. QED
      BY <2>1, Zenon DEF Elems
  <1>5. QED
    BY <1>2, <1>3, <1>4

(* What a push, a pop and a drain make of what waits. *)
LEMMA HeldAfterEnqueue ==
  ASSUME NEW S, NEW in \in InboxSet(S), NEW q \in S
  PROVE  /\ Enqueue(in, q) \in InboxSet(S)
         /\ Held(Enqueue(in, q)) \subseteq Held(in) \cup {q}
         /\ Elems(Enqueue(in, q).down) =
              Elems(in.down) \cup (IF Lane(q) = "down" THEN {q} ELSE {})
  <1>1. in.sys \in Seq(S) /\ in.up \in Seq(S) /\ in.down \in Seq(S)
    BY HeldTyped
  <1>2. /\ Elems(Append(in.sys, q)) = Elems(in.sys) \cup {q}
        /\ Elems(Append(in.up, q)) = Elems(in.up) \cup {q}
        /\ Elems(Append(in.down, q)) = Elems(in.down) \cup {q}
    BY <1>1, ElemsOf
  <1>3. CASE Lane(q) = "sys" /\ IsAudio(q)
    <2>1. /\ Shed(in) \in InboxSet(S) /\ Shed(in).up = in.up /\ Shed(in).down = in.down
          /\ Shed(in).sys = KeepAt(in.sys, DOMAIN in.sys \ ShedAt(in))
      BY ShedType
    <2>2. Shed(in).sys \in Seq(S) /\ Elems(Shed(in).sys) \subseteq Elems(in.sys)
      <3>1. Elems(Shed(in).sys) \subseteq {in.sys[k] : k \in DOMAIN in.sys \ ShedAt(in)}
        BY <1>1, <2>1, ElemsOf
      <3>2. Elems(Shed(in).sys) \subseteq Elems(in.sys)
        BY <3>1, Zenon DEF Elems
      <3>3. QED
        BY <2>1, <3>2, HeldTyped
    <2>3. Elems(Append(Shed(in).sys, q)) = Elems(Shed(in).sys) \cup {q}
      BY <2>2, ElemsOf
    <2>4. Enqueue(in, q) = [Shed(in) EXCEPT !.audioN = @ + 1, !.sys = Append(@, q)]
      BY <1>3 DEF Enqueue
    <2>5. /\ Enqueue(in, q).sys = Append(Shed(in).sys, q) /\ Enqueue(in, q).up = in.up
          /\ Enqueue(in, q).down = in.down
      BY <2>1, <2>4 DEF InboxSet
    <2>6. QED
      BY <1>3, <2>2, <2>3, <2>5, EnqueueType DEF Held
  <1>4. CASE Lane(q) = "sys" /\ ~IsAudio(q)
    <2>1. /\ Enqueue(in, q).sys = Append(in.sys, q) /\ Enqueue(in, q).up = in.up
          /\ Enqueue(in, q).down = in.down
      BY <1>4 DEF Enqueue, InboxSet
    <2>2. QED
      BY <1>2, <1>4, <2>1, EnqueueType DEF Held
  <1>5. CASE Lane(q) = "up"
    <2>1. /\ Enqueue(in, q).sys = in.sys /\ Enqueue(in, q).up = Append(in.up, q)
          /\ Enqueue(in, q).down = in.down
      BY <1>5 DEF Enqueue, InboxSet
    <2>2. QED
      BY <1>2, <1>5, <2>1, EnqueueType DEF Held
  <1>6. CASE Lane(q) = "down"
    <2>1. /\ Enqueue(in, q).sys = in.sys /\ Enqueue(in, q).up = in.up
          /\ Enqueue(in, q).down = Append(in.down, q)
      BY <1>6 DEF Enqueue, InboxSet
    <2>2. QED
      BY <1>2, <1>6, <2>1, EnqueueType DEF Held
  <1>7. QED
    BY <1>3, <1>4, <1>5, <1>6, LaneNamesThree

LEMMA HeldAfterPop ==
  ASSUME NEW S, NEW in \in InboxSet(S), ~IsEmpty(in)
  PROVE  /\ PopFront(in) \in InboxSet(S) /\ Front(in) \in S
         /\ Front(in) \in Held(in) /\ Held(PopFront(in)) \subseteq Held(in)
         /\ Elems(PopFront(in).down) \subseteq Elems(in.down)
         /\ Elems(in.down) \subseteq Elems(PopFront(in).down) \cup {Front(in)}
  <1>1. in.sys \in Seq(S) /\ in.up \in Seq(S) /\ in.down \in Seq(S)
    BY HeldTyped
  <1>2. CASE NextLane(in) = "sys"
    <2>1. in.sys # <<>>
      BY <1>2 DEF NextLane
    <2>2. /\ PopFront(in).sys = Tail(in.sys) /\ PopFront(in).up = in.up
          /\ PopFront(in).down = in.down /\ Front(in) = Head(in.sys)
      BY <1>2 DEF PopFront, Front, InboxSet
    <2>3. Elems(in.sys) = Elems(Tail(in.sys)) \cup {Head(in.sys)}
      BY <1>1, <2>1, ElemsOf
    <2>4. QED
      BY <2>2, <2>3, PopFrontType DEF Held
  <1>3. CASE NextLane(in) = "up"
    <2>1. in.up # <<>>
      BY <1>3 DEF NextLane
    <2>2. /\ PopFront(in).sys = in.sys /\ PopFront(in).up = Tail(in.up)
          /\ PopFront(in).down = in.down /\ Front(in) = Head(in.up)
      BY <1>3 DEF PopFront, Front, InboxSet
    <2>3. Elems(in.up) = Elems(Tail(in.up)) \cup {Head(in.up)}
      BY <1>1, <2>1, ElemsOf
    <2>4. QED
      BY <2>2, <2>3, PopFrontType DEF Held
  <1>4. CASE NextLane(in) = "down"
    <2>1. in.down # <<>>
      BY <1>4 DEF NextLane, IsEmpty
    <2>2. /\ PopFront(in).sys = in.sys /\ PopFront(in).up = in.up
          /\ PopFront(in).down = Tail(in.down) /\ Front(in) = Head(in.down)
      BY <1>4 DEF PopFront, Front, InboxSet
    <2>3. Elems(in.down) = Elems(Tail(in.down)) \cup {Head(in.down)}
      BY <1>1, <2>1, ElemsOf
    <2>4. QED
      BY <2>2, <2>3, PopFrontType DEF Held
  <1>5. QED
    BY <1>2, <1>3, <1>4 DEF NextLane

LEMMA HeldAfterDrain ==
  ASSUME NEW S, NEW in \in InboxSet(S)
  PROVE  /\ DrainInterruptible(in) \in InboxSet(S)
         /\ Held(DrainInterruptible(in)) \subseteq Held(in)
         /\ Elems(DrainInterruptible(in).down) \subseteq {q \in Elems(in.down) : ~Droppable(q)}
  <1>1. in.sys \in Seq(S) /\ in.up \in Seq(S) /\ in.down \in Seq(S)
    BY HeldTyped
  <1>2. ASSUME NEW s \in Seq(S)
        PROVE  Elems(KeepAt(s, KeptAt(s))) \subseteq {q \in Elems(s) : ~Droppable(q)}
    <2>1. KeptAt(s) \in SUBSET (DOMAIN s)
      BY DEF KeptAt
    <2>2. Elems(KeepAt(s, KeptAt(s))) \subseteq {s[k] : k \in KeptAt(s)}
      BY <2>1, ElemsOf
    <2>3. QED
      BY <2>2, Zenon DEF KeptAt, Elems
  <1>3. /\ DrainInterruptible(in).sys = in.sys
        /\ DrainInterruptible(in).up = KeepAt(in.up, KeptAt(in.up))
        /\ DrainInterruptible(in).down = KeepAt(in.down, KeptAt(in.down))
    BY DEF DrainInterruptible, InboxSet
  <1>4. QED
    BY <1>1, <1>2, <1>3, DrainType DEF Held

(* An inbox that is empty. *)
LEMMA EmptyIsInbox ==
  ASSUME NEW S
  PROVE  EmptyInbox \in InboxSet(S) /\ Held(EmptyInbox) = {}
  <1> DEFINE no == FALSE
  <1>1. no \in BOOLEAN
    BY Zenon
  <1>2. EmptyInbox = [sys |-> <<>>, up |-> <<>>, down |-> <<>>, audioN |-> 0,
                      closed |-> no, hiWater |-> 0, audioDrop |-> 0]
    BY DEF EmptyInbox
  <1> HIDE DEF no
  <1>3. <<>> \in Seq(S) /\ Elems(<<>>) = {}
    BY DEF Elems
  <1>4. QED
    BY <1>1, <1>2, <1>3 DEF InboxSet, Held

-----------------------------------------------------------------------------
(* The idle detectors. *)

IdleKinds ==
  I!ActivityKinds \cup I!ResetKinds \cup {"Start", "Interruption", "UserIdleFire"}

IdleItem == [kind : IdleKinds, dir : {"down"}, ctrl : {"none"}]

IsFire(q) == q.kind = "UserIdleFire"

FireWaits == firing > 0 \/ \E q \in Held(userInbox) : IsFire(q)

IdleTyped ==
  /\ userInbox \in InboxSet(IdleItem) /\ firing \in Nat
  /\ now \in Int /\ lastSeen \in Int /\ lastReset \in Int /\ watchTimer \in Int
  /\ timers \in SUBSET Int

(* Timers run out a Timeout after what they wait for, and nothing that has  *)
(* run out is left when time passes.                                        *)
TimersInv ==
  /\ lastSeen <= now
  /\ \A deadline \in timers : deadline >= lastSeen + Timeout
  /\ FireWaits => now - lastSeen >= Timeout \/ lastSeen = now

WatchInv ==
  /\ lastReset <= now
  /\ watch = "runs" => resetC \/ watchTimer >= lastReset + Timeout

GoesOn ==
  begun /\ ~givenUp /\ ~drained =>
    timers # {} \/ firing > 0 \/ \E q \in Elems(userInbox.down) : IsFire(q)

IdleInv == IdleTyped /\ TimersInv /\ WatchInv /\ GoesOn

LEMMA GoesOnIs == GoesOn <=> I!MonitoringGoesOn
  BY DEF GoesOn, I!MonitoringGoesOn, Elems, IsFire

LEMMA IdleInit ==
  ASSUME Init
  PROVE  IdleInv
  <1>1. /\ now = 0 /\ userInbox = I!EmptyInbox /\ timers = {} /\ firing = 0
        /\ begun = FALSE /\ watch = "new" /\ watchTimer = 0
        /\ lastSeen = -Timeout /\ lastReset = 0
    BY DEF Init, I!Asleep, I!Never
  <1>2. userInbox = EmptyInbox
    BY <1>1 DEF I!EmptyInbox, EmptyInbox
  <1>3. userInbox \in InboxSet(IdleItem) /\ Held(userInbox) = {}
    BY <1>2, EmptyIsInbox
  <1>4. Timeout \in Nat
    BY IdleAssumption
  <1>5. IdleTyped /\ TimersInv
    BY <1>1, <1>3, <1>4 DEF IdleTyped, TimersInv, FireWaits
  <1>6. WatchInv /\ GoesOn
    BY <1>1 DEF WatchInv, GoesOn
  <1>7. QED
    BY <1>5, <1>6 DEF IdleInv

(* A step of the UserProcessor's node takes the front of its inbox. *)
LEMMA UserTakesOne ==
  ASSUME IdleInv, NEW kinds, I!UserTakes(kinds)
  PROVE  /\ Front(userInbox) \in IdleItem /\ Front(userInbox).kind \in kinds
         /\ PopFront(userInbox) \in InboxSet(IdleItem)
         /\ I!PopFront(userInbox) = PopFront(userInbox)
         /\ Held(PopFront(userInbox)) \subseteq Held(userInbox)
         /\ Elems(PopFront(userInbox).down) \subseteq Elems(userInbox.down)
         /\ Elems(userInbox.down) \subseteq
              Elems(PopFront(userInbox).down) \cup {Front(userInbox)}
         /\ "UserIdleFire" \notin kinds => ~IsFire(Front(userInbox))
         /\ kinds = {"UserIdleFire"} => FireWaits
  <1>1. ~IsEmpty(userInbox) /\ Front(userInbox).kind \in kinds
        /\ userInbox \in InboxSet(IdleItem)
    BY IdleInboxes DEF I!UserTakes, IdleInv, IdleTyped
  <1>2. QED
    BY <1>1, HeldAfterPop, IdleInboxes DEF IsFire, FireWaits

(* The timer is armed: it runs out a Timeout from now. *)
LEMMA Armed ==
  ASSUME IdleInv, I!ArmTimer, now' = now, lastSeen' \in {lastSeen, now}
  PROVE  /\ timers' # {} /\ timers' \in SUBSET Int /\ lastSeen' <= now' /\ lastSeen' \in Int
         /\ \A deadline \in timers' : deadline >= lastSeen' + Timeout
  <1>1. Timeout \in Nat /\ now \in Int /\ lastSeen \in Int /\ lastSeen <= now
    BY IdleAssumption DEF IdleInv, IdleTyped, TimersInv
  <1>2. timers' = {now + Timeout} /\ now + Timeout \in Int
    BY <1>1 DEF I!ArmTimer
  <1>3. lastSeen' \in Int /\ lastSeen' <= now /\ now' = now
    BY <1>1
  <1>4. now + Timeout >= lastSeen' + Timeout
    <2> DEFINE seen == lastSeen'
    <2>1. seen \in Int /\ seen <= now
      BY <1>3
    <2> HIDE DEF seen
    <2>2. now + Timeout >= seen + Timeout
      BY <1>1, <2>1
    <2>3. QED
      BY <2>2 DEF seen
  <1>5. QED
    BY <1>2, <1>3, <1>4

LEMMA UserKeeps ==
  ASSUME IdleInv, I!UserStep
  PROVE  IdleInv'
  <1>1. /\ userInbox \in InboxSet(IdleItem) /\ firing \in Nat /\ now \in Int /\ lastSeen \in Int
        /\ lastReset \in Int /\ watchTimer \in Int /\ timers \in SUBSET Int
        /\ lastSeen <= now /\ lastReset <= now
        /\ \A deadline \in timers : deadline >= lastSeen + Timeout
        /\ Timeout \in Nat
    BY IdleAssumption DEF IdleInv, IdleTyped, TimersInv, WatchInv
  <1>2. now' = now /\ UNCHANGED <<watch, watchTimer, resetC, lastReset>>
    BY DEF I!UserStep, I!TimerFires, I!QueueSelf, I!UserFire, I!UserStart, I!UserActivity,
           I!UserOther, I!UserInterrupted, I!TakesOnly, I!watchVars
  <1>3. WatchInv'
    BY <1>1, <1>2 DEF IdleInv, WatchInv
  <1>4. CASE I!TimerFires
    <2>1. PICK deadline \in timers : /\ now >= deadline /\ timers' = timers \ {deadline}
                                     /\ firing' = firing + 1
                                     /\ UNCHANGED <<userInbox, lastSeen>>
      BY <1>4 DEF I!TimerFires
    <2>2. now - lastSeen >= Timeout
      BY <1>1, <2>1
    <2>3. firing' > 0 /\ firing' \in Nat
      BY <1>1, <2>1
    <2>4. QED
      BY <1>1, <1>2, <1>3, <2>1, <2>2, <2>3
         DEF IdleInv, IdleTyped, TimersInv, FireWaits, GoesOn
  <1>5. CASE I!QueueSelf
    <2> DEFINE q == I!Item("UserIdleFire")
    <2>1. /\ firing > 0 /\ userInbox' = Enqueue(userInbox, q) /\ firing' = firing - 1
          /\ UNCHANGED <<timers, begun, givenUp, lastSeen, drained>>
      BY <1>5, IdleInboxes DEF I!QueueSelf, I!userState
    <2>2. q \in IdleItem /\ Lane(q) = "down" /\ IsFire(q)
      <3>1. q.kind = "UserIdleFire" /\ q.dir = "down" /\ q.ctrl = "none"
        BY DEF I!Item
      <3>2. q \in IdleItem
        BY DEF I!Item, IdleItem, IdleKinds
      <3> HIDE DEF q
      <3>3. Lane(q) = "down"
        BY <3>1 DEF Lane, IsSystem, SystemKinds
      <3>4. QED
        BY <3>1, <3>2, <3>3 DEF IsFire
    <2> HIDE DEF q
    <2>3. /\ userInbox' \in InboxSet(IdleItem)
          /\ Elems(userInbox'.down) = Elems(userInbox.down) \cup {q}
      BY <1>1, <2>1, <2>2, HeldAfterEnqueue
    <2>4. firing' \in Nat /\ FireWaits
      BY <1>1, <2>1 DEF FireWaits
    <2>5. GoesOn'
      BY <2>2, <2>3 DEF GoesOn
    <2>6. TimersInv' /\ IdleTyped'
      BY <1>1, <1>2, <2>1, <2>3, <2>4 DEF IdleInv, TimersInv, IdleTyped
    <2>7. QED
      BY <1>3, <2>5, <2>6 DEF IdleInv
  <1>6. CASE I!UserFire
    <2>1. /\ I!UserTakes({"UserIdleFire"}) /\ userInbox' = I!PopFront(userInbox)
          /\ firing' = firing /\ lastSeen' = lastSeen
      BY <1>6 DEF I!UserFire, I!TakesOnly
    <2>2. FireWaits /\ userInbox' \in InboxSet(IdleItem)
      BY <2>1, UserTakesOne
    <2>3. now - lastSeen >= Timeout \/ lastSeen = now
      BY <2>2 DEF IdleInv, TimersInv
    <2>4. I!ArmTimer \/ (timers' = timers /\ givenUp')
      BY <1>6 DEF I!UserFire, I!Fire
    <2>5. /\ timers' \in SUBSET Int /\ GoesOn' /\ lastSeen' <= now' /\ lastSeen' \in Int
          /\ \A deadline \in timers' : deadline >= lastSeen' + Timeout
      <3>1. CASE I!ArmTimer
        BY <1>2, <2>1, <3>1, Armed DEF GoesOn
      <3>2. CASE timers' = timers /\ givenUp'
        BY <1>1, <1>2, <2>1, <3>2 DEF GoesOn
      <3>3. QED
        BY <2>4, <3>1, <3>2
    <2>6. QED
      BY <1>1, <1>2, <1>3, <2>1, <2>2, <2>3, <2>5 DEF IdleInv, IdleTyped, TimersInv
  <1>7. CASE I!UserStart \/ (I!UserActivity /\ begun)
    <2>1. /\ \E kinds : I!UserTakes(kinds)
          /\ userInbox' = I!PopFront(userInbox) /\ firing' = firing
          /\ I!ArmTimer /\ lastSeen' = now
      BY <1>7 DEF I!UserStart, I!UserActivity, I!TakesOnly
    <2>2. userInbox' \in InboxSet(IdleItem)
      BY <2>1, UserTakesOne
    <2>3. QED
      BY <1>1, <1>2, <1>3, <2>1, <2>2, Armed DEF IdleInv, IdleTyped, TimersInv, GoesOn
  <1>8. CASE I!UserOther \/ (I!UserActivity /\ ~begun)
    <2>1. PICK kinds : /\ I!UserTakes(kinds) /\ "UserIdleFire" \notin kinds
                       /\ userInbox' = I!PopFront(userInbox) /\ firing' = firing
                       /\ UNCHANGED <<timers, begun, givenUp, lastSeen, drained>>
      <3>1. "UserIdleFire" \notin I!ActivityKinds
            /\ "UserIdleFire" \notin {"BotSpeaking", "BotStartedSpeaking"}
        BY DEF I!ActivityKinds
      <3>2. QED
        BY <1>8, <3>1 DEF I!UserOther, I!UserActivity, I!TakesOnly, I!userState
    <2>2. /\ userInbox' \in InboxSet(IdleItem) /\ Held(userInbox') \subseteq Held(userInbox)
          /\ ~IsFire(Front(userInbox))
          /\ Elems(userInbox.down) \subseteq Elems(userInbox'.down) \cup {Front(userInbox)}
      BY <2>1, UserTakesOne
    <2>3. FireWaits' => FireWaits
      BY <2>1, <2>2 DEF FireWaits
    <2>4. GoesOn'
      BY <2>1, <2>2 DEF IdleInv, GoesOn
    <2>5. QED
      BY <1>1, <1>2, <1>3, <2>1, <2>2, <2>3, <2>4 DEF IdleInv, IdleTyped, TimersInv
  <1>9. CASE I!UserInterrupted
    <2>1. /\ I!UserTakes({"Interruption"})
          /\ userInbox' = I!DrainInterruptible(I!PopFront(userInbox))
          /\ drained' = (drained \/ \E k \in DOMAIN userInbox.down :
                                       userInbox.down[k].kind = "UserIdleFire")
          /\ UNCHANGED <<firing, timers, begun, givenUp, lastSeen>>
      BY <1>9 DEF I!UserInterrupted, I!userState
    <2>2. /\ PopFront(userInbox) \in InboxSet(IdleItem)
          /\ I!PopFront(userInbox) = PopFront(userInbox)
          /\ Held(PopFront(userInbox)) \subseteq Held(userInbox)
      BY <2>1, UserTakesOne
    <2>3. userInbox' = DrainInterruptible(PopFront(userInbox))
      BY <2>1, <2>2, IdleInboxes
    <2>4. userInbox' \in InboxSet(IdleItem) /\ Held(userInbox') \subseteq Held(userInbox)
      BY <2>2, <2>3, HeldAfterDrain
    <2>5. FireWaits' => FireWaits
      BY <2>1, <2>4 DEF FireWaits
    <2>6. GoesOn'
      <3>1. (\E q \in Elems(userInbox.down) : IsFire(q)) => drained'
        BY <2>1 DEF Elems, IsFire
      <3>2. QED
        BY <2>1, <3>1 DEF IdleInv, GoesOn
    <2>7. QED
      BY <1>1, <1>2, <1>3, <2>1, <2>4, <2>5, <2>6 DEF IdleInv, IdleTyped, TimersInv
  <1>10. QED
    BY <1>4, <1>5, <1>6, <1>7, <1>8, <1>9 DEF I!UserStep

LEMMA IdleKeeps ==
  ASSUME IdleInv, I!Next
  PROVE  IdleInv'
  <1>1. /\ userInbox \in InboxSet(IdleItem) /\ firing \in Nat /\ now \in Int /\ lastSeen \in Int
        /\ lastReset \in Int /\ watchTimer \in Int /\ timers \in SUBSET Int
        /\ lastSeen <= now /\ lastReset <= now
        /\ \A deadline \in timers : deadline >= lastSeen + Timeout
        /\ Timeout \in Nat
    BY IdleAssumption DEF IdleInv, IdleTyped, TimersInv, WatchInv
  <1>2. ASSUME NEW kind \in I!ActivityKinds \cup I!ResetKinds \cup {"Start", "Interruption"},
               I!FramePushed(kind)
        PROVE  IdleInv'
    <2> DEFINE q == I!Item(kind)
    <2>1. /\ userInbox' \in {userInbox, Enqueue(userInbox, q)}
          /\ resetC' = (resetC \/ kind \in I!ResetKinds)
          /\ lastReset' = IF kind \in I!ResetKinds THEN now ELSE lastReset
          /\ UNCHANGED <<now, firing, timers, begun, givenUp, watch, watchTimer, lastSeen, drained>>
      BY <1>2, IdleInboxes DEF I!FramePushed, I!OnFrame, I!userState
    <2>2. q \in IdleItem /\ ~IsFire(q)
      <3>1. kind \in IdleKinds /\ kind # "UserIdleFire"
        BY DEF IdleKinds, I!ActivityKinds, I!ResetKinds
      <3>2. QED
        BY <3>1 DEF I!Item, IdleItem, IsFire
    <2> HIDE DEF q
    <2>3. /\ userInbox' \in InboxSet(IdleItem)
          /\ Held(userInbox') \subseteq Held(userInbox) \cup {q}
          /\ Elems(userInbox.down) \subseteq Elems(userInbox'.down)
      BY <1>1, <2>1, <2>2, HeldAfterEnqueue
    <2>4. FireWaits' => FireWaits
      BY <2>1, <2>2, <2>3 DEF FireWaits
    <2>5. GoesOn' /\ TimersInv'
      BY <2>1, <2>3, <2>4 DEF IdleInv, GoesOn, TimersInv
    <2>6. WatchInv' /\ lastReset' \in Int
      <3>1. CASE kind \in I!ResetKinds
        <4>1. resetC' /\ lastReset' = now
          BY <2>1, <3>1
        <4>2. QED
          BY <1>1, <2>1, <4>1 DEF WatchInv
      <3>2. CASE kind \notin I!ResetKinds
        <4>1. (resetC' <=> resetC) /\ lastReset' = lastReset
          BY <2>1, <3>2
        <4>2. QED
          BY <1>1, <2>1, <4>1 DEF IdleInv, WatchInv
      <3>3. QED
        BY <3>1, <3>2
    <2>7. IdleTyped'
      BY <1>1, <2>1, <2>3, <2>6 DEF IdleTyped
    <2>8. QED
      BY <2>5, <2>6, <2>7 DEF IdleInv
  <1>3. CASE I!WatchStep \/ I!WatchStop
    <2>1. UNCHANGED <<now, userInbox, firing, timers, begun, givenUp, lastSeen, lastReset, drained>>
      BY <1>3 DEF I!WatchStep, I!WatchStart, I!WatchReset, I!OnIdle, I!WatchStop, I!WatchOnly,
                  I!userState
    <2>2. /\ watchTimer' \in Int
          /\ watch' = "runs" => resetC' \/ watchTimer' >= lastReset + Timeout
      <3>1. CASE I!WatchStart \/ I!WatchReset
        <4>1. watchTimer' = now + Timeout
          BY <3>1 DEF I!WatchStart, I!WatchReset
        <4>2. QED
          BY <1>1, <4>1
      <3>2. CASE I!OnIdle \/ I!WatchStop
        <4>1. watchTimer' = watchTimer /\ watch' = "done"
          BY <3>2 DEF I!OnIdle, I!WatchStop
        <4>2. QED
          BY <1>1, <4>1
      <3>3. QED
        BY <1>3, <3>1, <3>2 DEF I!WatchStep
    <2>3. WatchInv'
      BY <1>1, <2>1, <2>2 DEF WatchInv
    <2>4. QED
      BY <1>1, <2>1, <2>2, <2>3 DEF IdleInv, IdleTyped, TimersInv, FireWaits, GoesOn
  <1>4. CASE I!Tick
    <2>1. /\ IsEmpty(userInbox) /\ firing = 0 /\ now' = now + 1
          /\ UNCHANGED <<userInbox, firing, timers, begun, givenUp, watch, watchTimer, resetC,
                         lastSeen, lastReset, drained>>
      BY <1>4, IdleInboxes DEF I!Tick, I!NothingDue, I!userState, I!watchVars
    <2>2. Held(userInbox) = {}
      BY <1>1, <2>1, HeldTyped
    <2>3. ~FireWaits'
      BY <2>1, <2>2 DEF FireWaits
    <2>4. now' \in Int /\ lastSeen <= now' /\ lastReset <= now'
      BY <1>1, <2>1
    <2>5. QED
      BY <1>1, <2>1, <2>3, <2>4 DEF IdleInv, IdleTyped, TimersInv, WatchInv, GoesOn
  <1>5. QED
    BY <1>2, <1>3, <1>4, UserKeeps DEF I!Next

LEMMA IdleNext ==
  ASSUME IdleInv, [Next]_vars
  PROVE  IdleInv'
  <1>1. CASE Idling
    BY <1>1, IdleKeeps DEF Idling
  <1>2. CASE Classic \/ Realtime \/ UNCHANGED vars
    <2>1. UNCHANGED <<now, userInbox, timers, firing, begun, watch, watchTimer, resetC, lastSeen,
                      lastReset, drained, givenUp>>
      BY <1>2 DEF Classic, Realtime, vars, idleVars
    <2>2. QED
      BY <2>1 DEF IdleInv, IdleTyped, TimersInv, WatchInv, GoesOn, FireWaits
  <1>3. QED
    BY <1>1, <1>2 DEF Next

LEMMA IdleHolds == Spec => []IdleInv
  BY IdleInit, IdleNext, PTL DEF Spec

(* While the callback has not said otherwise, a timer of the UserProcessor  *)
(* runs or its frame is under way, unless an Interruption dropped it        *)
(* (user_idle.go).                                                          *)
THEOREM IdleGoesOn == Spec => []MonitoringGoesOn
  <1>1. IdleInv => MonitoringGoesOn
    BY GoesOnIs DEF IdleInv, MonitoringGoesOn
  <1>2. QED
    BY <1>1, IdleHolds, PTL

(* The callback comes a Timeout after the last activity the processor has   *)
(* taken, or races it at the same instant; the watchdog gives up a Timeout  *)
(* after the last reset frame, or while a reset waits that it did not       *)
(* choose (user_idle.go, observe/idle.go).                                  *)
THEOREM NobodyFiresEarly == Spec => NeitherFiresEarly
  <1>1. ASSUME IdleInv, [Next]_vars, I!UserFire
        PROVE  now - lastSeen >= Timeout \/ lastSeen = now
    <2>1. I!UserTakes({"UserIdleFire"})
      BY <1>1 DEF I!UserFire
    <2>2. FireWaits
      BY <1>1, <2>1, UserTakesOne
    <2>3. QED
      BY <1>1, <2>2 DEF IdleInv, TimersInv
  <1>2. ASSUME IdleInv, [Next]_vars, I!OnIdle
        PROVE  resetC \/ now - lastReset >= Timeout
    <2>1. watch = "runs" /\ now >= watchTimer
      BY <1>2 DEF I!OnIdle
    <2>2. resetC \/ watchTimer >= lastReset + Timeout
      BY <1>2, <2>1 DEF IdleInv, WatchInv
    <2>3. now \in Int /\ watchTimer \in Int /\ lastReset \in Int /\ Timeout \in Int
      BY <1>2, IdleAssumption DEF IdleInv, IdleTyped
    <2>4. QED
      BY <2>1, <2>2, <2>3
  <1>3. IdleInv /\ [Next]_vars =>
          [/\ I!UserFire => now - lastSeen >= Timeout \/ lastSeen = now
           /\ I!OnIdle => resetC \/ now - lastReset >= Timeout]_I!vars
    BY <1>1, <1>2
  <1>4. QED
    BY <1>3, IdleHolds, PTL DEF Spec, NeitherFiresEarly, I!NeitherFiresEarly

-----------------------------------------------------------------------------
(* The realtime services. *)

OutKinds == {"Start", "Interruption", "Cancel", "End", "Error", "TTSAudio",
             "BotSpeaking", "BotStoppedSpeaking"}

OutItem == [kind : OutKinds, n : Nat, dir : {"down"}, ctrl : {"none"}]

(* What the goroutine of a dial may still have to do. *)
OfGemini == <<"speak", "BotSpeaking", "TTSAudio", "BotStoppedSpeaking", "silent">>

Todos ==
  {<<>>, <<"Interruption">>, <<"silent">>, <<"BotStoppedSpeaking", "silent">>, <<"TTSAudio">>,
   <<"BotSpeaking", "TTSAudio">>, <<"TTSAudio", "BotStoppedSpeaking", "silent">>,
   <<"BotSpeaking", "TTSAudio", "BotStoppedSpeaking", "silent">>, OfGemini}

DialRecord ==
  [pc : {"connect", "dial", "store", "fail", "loop", "done"},
   sock : {"none", "open", "closed"}, ctx : {"live", "over"},
   todo : Todos, got : Nat]

Last == Len(dials)

(* It has not got a connection that it reads from. *)
Mute(d) == d.sock = "none" \/ d.pc = "store"

DialOK(d) ==
  /\ d.pc \in {"connect", "dial", "fail"} => d.sock = "none"
  /\ d.pc \in {"store", "loop"} => d.sock # "none"
  /\ Mute(d) => d.todo = <<>>

(* What is still to be said continues what has been said: told says         *)
(* whether the output has been told that the bot speaks and not that it     *)
(* stopped, on whether the service thinks so.                               *)
Continues(todo, told, on) ==
  \/ todo = <<>> /\ (told <=> on)
  \/ todo \in {<<"TTSAudio">>} /\ told /\ on
  \/ todo \in {<<"BotSpeaking", "TTSAudio">>} /\ ~told /\ on
  \/ todo \in {<<"BotStoppedSpeaking", "silent">>} /\ ~on
  \/ todo \in {<<"TTSAudio", "BotStoppedSpeaking", "silent">>} /\ told /\ ~on
  \/ todo \in {<<"silent">>, <<"Interruption">>, OfGemini,
               <<"BotSpeaking", "TTSAudio", "BotStoppedSpeaking", "silent">>}
       /\ ~told /\ ~on

Announced(s) == s # <<>> /\ s[Len(s)] # "BotStoppedSpeaking"

RealTyped ==
  /\ dials \in Seq(DialRecord) /\ conn \in {0, Last} /\ silenced \in {0, Last}
  /\ out \in InboxSet(OutItem) /\ pushing \in Seq(OutItem)

(* All dials but the last have failed, and the last one too when another    *)
(* may be started.                                                          *)
DialsInv ==
  /\ \A i \in DOMAIN dials :
       i # Last \/ ~started => dials[i].pc = "done" /\ dials[i].sock = "none"
  /\ \A i \in DOMAIN dials : DialOK(dials[i])

Coming == Held(out) \cup Elems(pushing)

(* Nothing has come from a connection. *)
NothingYet ==
  /\ conn = 0 /\ silenced = 0 /\ said = <<>> /\ ~voiceOut
  /\ \A q \in Coming : q.kind # "TTSAudio" /\ (q.kind = "Interruption" => q.n = 0)

IsOver == Last # 0 /\ dials[Last].ctx = "over"

(* What the output gets. *)
OutInv ==
  /\ (Last # 0 => Mute(dials[Last])) => NothingYet
  /\ \A q \in Coming : q.kind = "Interruption" /\ q.n # 0 => q.n = Last /\ IsOver
  /\ \A q \in Coming : q.kind = "TTSAudio" => q.n = Last /\ Last # 0
  /\ \A q \in Elems(pushing) : q.kind # "TTSAudio"
  /\ silenced # 0 => IsOver /\ \A q \in Elems(out.down) : q.kind # "TTSAudio"

(* What the bot says. *)
SaidInv ==
  /\ said \in Seq(R!Voiced) /\ R!AudioIsAnnounced
  /\ Last # 0 /\ ~IsOver => Continues(dials[Last].todo, Announced(said), voiceOut)
  /\ pipeline = "realtime" /\ service = "gemini" => ~voiceOut

RealInv == RealTyped /\ DialsInv /\ OutInv /\ SaidInv

(* The steps of a dial that only concern how far it is. *)
LEMMA LastOne ==
  ASSUME RealInv, NEW i \in DOMAIN dials, dials[i].pc # "done" \/ dials[i].sock # "none"
  PROVE  i = Last /\ Last # 0 /\ started /\ dials[i] \in DialRecord /\ Last \in Nat
  <1>1. dials \in Seq(DialRecord)
    BY DEF RealInv, RealTyped
  <1>2. Last \in Nat /\ i \in 1..Last /\ dials[i] \in DialRecord
    BY <1>1, LenProperties, ElementOfSeq DEF Last
  <1>3. QED
    BY <1>2 DEF RealInv, DialsInv

(* A dial of the last place is replaced by f. *)
LEMMA DialSet ==
  ASSUME RealInv, NEW i \in DOMAIN dials, NEW f \in DialRecord,
         dials' = [dials EXCEPT ![i] = f]
  PROVE  /\ dials' \in Seq(DialRecord) /\ Last' = Last /\ DOMAIN dials' = DOMAIN dials
         /\ dials'[i] = f
         /\ \A k \in DOMAIN dials : k # i => dials'[k] = dials[k]
         /\ Last \in Nat /\ DOMAIN dials = 1..Last
  <1>1. dials \in Seq(DialRecord) /\ Last \in Nat /\ DOMAIN dials = 1..Last
    BY LenProperties DEF RealInv, RealTyped, Last
  <1>2. Len(dials') = Len(dials)
    BY <1>1, ExceptSeq
  <1>3. QED
    BY <1>1, <1>2, ExceptSeq DEF Last

LEMMA DialKeeps ==
  ASSUME RealInv, NEW i \in DOMAIN dials, dials[i].pc # "done" \/ dials[i].sock # "none",
         NEW f \in DialRecord, dials' = [dials EXCEPT ![i] = f],
         DialOK(f), f.ctx = dials[i].ctx, f.todo = dials[i].todo,
         Mute(f) => Mute(dials[i]),
         conn' = conn \/ (conn' = i /\ ~Mute(f)),
         UNCHANGED <<started, voiceOut, out, silenced, said, pushing, pipeline, service>>
  PROVE  RealInv'
  <1>1. i = Last /\ Last # 0
    BY LastOne
  <1>2. /\ dials' \in Seq(DialRecord) /\ Last' = Last /\ DOMAIN dials' = DOMAIN dials
        /\ dials'[Last] = f /\ \A k \in DOMAIN dials : k # Last => dials'[k] = dials[k]
    BY <1>1, DialSet
  <1>3. RealTyped'
    BY <1>1, <1>2 DEF RealInv, RealTyped
  <1>4. DialsInv'
    <2>1. started
      BY LastOne
    <2>2. QED
      BY <1>2, <2>1 DEF RealInv, DialsInv
  <1>5. Coming' = Coming /\ (IsOver' <=> IsOver)
    BY <1>1, <1>2 DEF Coming, IsOver
  <1>6. OutInv'
    <2>1. (Last # 0 => Mute(dials[Last])) => NothingYet
      BY DEF RealInv, OutInv
    <2>2. (Last' # 0 => Mute(dials'[Last'])) => NothingYet'
      BY <1>1, <1>2, <1>5, <2>1 DEF NothingYet
    <2>3. QED
      BY <1>2, <1>5, <2>2 DEF RealInv, OutInv
  <1>7. SaidInv'
    BY <1>1, <1>2, <1>5 DEF RealInv, SaidInv, R!AudioIsAnnounced
  <1>8. QED
    BY <1>3, <1>4, <1>6, <1>7 DEF RealInv

LEMMA DialGoes ==
  ASSUME RealInv, UNCHANGED pipeline, NEW i \in DOMAIN dials,
         R!GeminiConnect(i) \/ R!Dial(i) \/ R!OpenAIStore(i) \/ R!GeminiStore(i)
           \/ R!LoopEnds(i) \/ R!ConnectionLost(i)
  PROVE  RealInv'
  <1> DEFINE d == dials[i]
  <1>1. /\ d.pc # "done" \/ d.sock # "none"
        /\ UNCHANGED <<started, voiceOut, out, silenced, said, pushing, service>>
    BY DEF R!GeminiConnect, R!Dial, R!OpenAIStore, R!GeminiStore, R!LoopEnds, R!ConnectionLost,
           R!OnlyFlags, R!nodeVars
  <1>2. d \in DialRecord /\ DialOK(d)
    BY <1>1, LastOne DEF RealInv, DialsInv
  <1>3. CASE R!GeminiConnect(i) \/ R!LoopEnds(i)
    <2>1. PICK pc \in {"done", "dial"} :
            dials' = [dials EXCEPT ![i].pc = pc] /\ conn' = conn /\ d.todo = <<>>
              /\ (pc = "dial" => d.pc = "connect") /\ d.pc # "store"
      BY <1>2, <1>3 DEF R!GeminiConnect, R!LoopEnds, R!Goes, DialOK, Mute
    <2> DEFINE f == [d EXCEPT !.pc = pc]
    <2>2. /\ f \in DialRecord /\ f.pc = pc /\ f.sock = d.sock /\ f.ctx = d.ctx
          /\ f.todo = d.todo
      BY <1>2 DEF DialRecord
    <2>3. dials' = [dials EXCEPT ![i] = f]
      BY <2>1
    <2> HIDE DEF f
    <2>4. DialOK(f) /\ (Mute(f) => Mute(d))
      BY <1>2, <2>1, <2>2 DEF DialOK, Mute
    <2> HIDE DEF d
    <2>5. QED
      BY <1>1, <2>1, <2>2, <2>3, <2>4, DialKeeps DEF d
  <1>4. CASE R!Dial(i)
    <2>1. d.pc = "dial" /\ conn' = conn
      BY <1>4 DEF R!Dial
    <2>2. d.sock = "none" /\ d.todo = <<>>
      BY <1>2, <2>1 DEF DialOK, Mute
    <2>3. CASE dials' = [dials EXCEPT ![i].pc = "fail"]
      <3> DEFINE f == [d EXCEPT !.pc = "fail"]
      <3>1. /\ f \in DialRecord /\ f.pc = "fail" /\ f.sock = d.sock /\ f.ctx = d.ctx
            /\ f.todo = d.todo
        BY <1>2 DEF DialRecord
      <3>2. dials' = [dials EXCEPT ![i] = f]
        BY <2>3
      <3> HIDE DEF f
      <3>3. DialOK(f) /\ (Mute(f) => Mute(d))
        BY <2>2, <3>1 DEF DialOK, Mute
      <3> HIDE DEF d
      <3>4. QED
        BY <1>1, <2>1, <3>1, <3>2, <3>3, DialKeeps DEF d
    <2>4. CASE dials' = [dials EXCEPT ![i].pc = "store", ![i].sock = "open"]
      <3> DEFINE f == [d EXCEPT !.pc = "store", !.sock = "open"]
      <3>1. /\ f \in DialRecord /\ f.pc = "store" /\ f.sock = "open" /\ f.ctx = d.ctx
            /\ f.todo = d.todo
        BY <1>2 DEF DialRecord
      <3>2. dials' = [dials EXCEPT ![i] = f]
        BY <2>4
      <3> HIDE DEF f
      <3>3. DialOK(f) /\ (Mute(f) => Mute(d))
        BY <2>2, <3>1 DEF DialOK, Mute
      <3> HIDE DEF d
      <3>4. QED
        BY <1>1, <2>1, <3>1, <3>2, <3>3, DialKeeps DEF d
    <2>5. QED
      BY <1>4, <2>3, <2>4 DEF R!Dial, R!Goes
  <1>5. CASE R!OpenAIStore(i) \/ R!GeminiStore(i)
    <2>1. d.pc = "store" /\ conn' = i /\ dials' = [dials EXCEPT ![i].pc = "loop"]
      BY <1>5 DEF R!OpenAIStore, R!GeminiStore, R!Goes
    <2> DEFINE f == [d EXCEPT !.pc = "loop"]
    <2>2. /\ f \in DialRecord /\ f.pc = "loop" /\ f.sock = d.sock /\ f.ctx = d.ctx
          /\ f.todo = d.todo
      BY <1>2 DEF DialRecord
    <2>3. dials' = [dials EXCEPT ![i] = f]
      BY <2>1
    <2> HIDE DEF f
    <2>4. DialOK(f) /\ ~Mute(f)
      BY <1>2, <2>1, <2>2 DEF DialOK, Mute
    <2> HIDE DEF d
    <2>5. QED
      BY <1>1, <2>1, <2>2, <2>3, <2>4, DialKeeps DEF d
  <1>6. CASE R!ConnectionLost(i)
    <2>1. d.sock = "open" /\ conn' = conn /\ dials' = [dials EXCEPT ![i].sock = "closed"]
      BY <1>6 DEF R!ConnectionLost
    <2> DEFINE f == [d EXCEPT !.sock = "closed"]
    <2>2. /\ f \in DialRecord /\ f.pc = d.pc /\ f.sock = "closed" /\ f.ctx = d.ctx
          /\ f.todo = d.todo
      BY <1>2 DEF DialRecord
    <2>3. dials' = [dials EXCEPT ![i] = f]
      BY <2>1
    <2> HIDE DEF f
    <2>4. DialOK(f) /\ (Mute(f) => Mute(d))
      BY <1>2, <2>1, <2>2 DEF DialOK, Mute
    <2> HIDE DEF d
    <2>5. QED
      BY <1>1, <2>1, <2>2, <2>3, <2>4, DialKeeps DEF d
  <1>7. QED
    BY <1>3, <1>4, <1>5, <1>6

(* What is pushed to the output. *)
LEMMA OutGets ==
  ASSUME RealInv, NEW q \in OutItem
  PROVE  /\ Enqueue(out, q) \in InboxSet(OutItem)
         /\ Held(Enqueue(out, q)) \subseteq Held(out) \cup {q}
         /\ Elems(Enqueue(out, q).down) \subseteq Elems(out.down) \cup {q}
         /\ R!Enqueue(out, q) = Enqueue(out, q)
  <1>1. out \in InboxSet(OutItem)
    BY DEF RealInv, RealTyped
  <1>2. QED
    BY <1>1, HeldAfterEnqueue, RealtimeInboxes

LEMMA DialFailedKeeps ==
  ASSUME RealInv, UNCHANGED pipeline, NEW i \in DOMAIN dials, R!DialFailed(i)
  PROVE  RealInv'
  <1> DEFINE d == dials[i]
             f == [d EXCEPT !.pc = "done"]
             q == R!Item("Error", 0)
  <1>1. /\ d.pc = "fail" /\ started' = FALSE /\ dials' = [dials EXCEPT ![i].pc = "done"]
        /\ out' \in {out, R!Enqueue(out, q)}
        /\ UNCHANGED <<conn, pushing, voiceOut, silenced, said, service>>
    BY DEF R!DialFailed, R!Goes, R!nodeVars
  <1>2. i = Last /\ Last # 0 /\ d \in DialRecord /\ DialOK(d)
    BY <1>1, LastOne DEF RealInv, DialsInv
  <1>3. d.sock = "none" /\ Mute(d) /\ d.todo = <<>>
    BY <1>1, <1>2 DEF DialOK, Mute
  <1>4. NothingYet
    BY <1>2, <1>3 DEF RealInv, OutInv
  <1>5. /\ f \in DialRecord /\ f.pc = "done" /\ f.sock = "none" /\ f.ctx = d.ctx
        /\ f.todo = <<>>
    BY <1>2, <1>3 DEF DialRecord
  <1>6. dials' = [dials EXCEPT ![i] = f]
    BY <1>1
  <1>7. q \in OutItem /\ q.kind = "Error"
    BY DEF R!Item, OutItem, OutKinds
  <1> HIDE DEF f, d, q
  <1>8. DialOK(f) /\ Mute(f)
    BY <1>3, <1>5 DEF DialOK, Mute
  <1>9. /\ dials' \in Seq(DialRecord) /\ Last' = Last /\ DOMAIN dials' = DOMAIN dials
        /\ dials'[Last] = f /\ \A k \in DOMAIN dials : k # Last => dials'[k] = dials[k]
    BY <1>2, <1>5, <1>6, DialSet
  <1>10. /\ out' \in InboxSet(OutItem) /\ Held(out') \subseteq Held(out) \cup {q}
         /\ Elems(out'.down) \subseteq Elems(out.down) \cup {q}
    <2>1. out \in InboxSet(OutItem)
      BY DEF RealInv, RealTyped
    <2>2. QED
      BY <1>1, <1>7, <2>1, OutGets
  <1>11. RealTyped'
    BY <1>1, <1>9, <1>10 DEF RealInv, RealTyped
  <1>12. DialsInv'
    <2> SUFFICES ASSUME NEW k \in DOMAIN dials
                 PROVE  dials'[k].pc = "done" /\ dials'[k].sock = "none" /\ DialOK(dials'[k])
      BY <1>9 DEF DialsInv
    <2>1. CASE k = Last
      BY <1>5, <1>8, <1>9, <2>1
    <2>2. CASE k # Last
      <3>1. dials'[k] = dials[k]
        BY <1>9, <2>2
      <3>2. QED
        BY <2>2, <3>1 DEF RealInv, DialsInv
    <2>3. QED
      BY <2>1, <2>2
  <1>13. Coming' \subseteq Coming \cup {q}
    BY <1>1, <1>10 DEF Coming
  <1>14. NothingYet'
    BY <1>1, <1>4, <1>7, <1>13 DEF NothingYet
  <1>15. OutInv'
    BY <1>1, <1>14 DEF RealInv, OutInv, NothingYet
  <1>16. SaidInv'
    <2>1. IsOver' <=> IsOver
      BY <1>2, <1>5, <1>9 DEF IsOver, d
    <2>2. Last # 0 /\ ~IsOver => Continues(dials[Last].todo, Announced(said), voiceOut)
      BY DEF RealInv, SaidInv
    <2>3. dials[Last].todo = <<>>
      BY <1>2, <1>3 DEF d
    <2>4. dials'[Last'].todo = <<>>
      BY <1>3, <1>5, <1>9
    <2>5. QED
      BY <1>1, <1>9, <2>1, <2>2, <2>3, <2>4 DEF RealInv, SaidInv, R!AudioIsAnnounced
  <1>17. QED
    BY <1>11, <1>12, <1>15, <1>16 DEF RealInv

(* What has been said, as one thing more is said that fits it. *)
LEMMA SaysNext ==
  ASSUME RealInv, NEW kind \in R!Voiced, NEW said2, said2 = Append(said, kind),
         kind = "TTSAudio" => Announced(said), kind = "BotSpeaking" => ~Announced(said)
  PROVE  /\ said2 \in Seq(R!Voiced) /\ (Announced(said2) <=> kind # "BotStoppedSpeaking")
         /\ \A k \in DOMAIN said2 :
              /\ said2[k] = "TTSAudio" => k > 1 /\ said2[k - 1] # "BotStoppedSpeaking"
              /\ said2[k] = "BotSpeaking" => k = 1 \/ said2[k - 1] = "BotStoppedSpeaking"
  <1>1. /\ said \in Seq(R!Voiced)
        /\ \A k \in DOMAIN said :
             /\ said[k] = "TTSAudio" => k > 1 /\ said[k - 1] # "BotStoppedSpeaking"
             /\ said[k] = "BotSpeaking" => k = 1 \/ said[k - 1] = "BotStoppedSpeaking"
    BY DEF RealInv, SaidInv, R!AudioIsAnnounced
  <1> DEFINE n == Len(said)
  <1>2. n \in Nat /\ DOMAIN said = 1..n /\ (n = 0 <=> said = <<>>)
    BY <1>1, LenProperties, EmptySeq
  <1>3. /\ said2 \in Seq(R!Voiced) /\ Len(said2) = n + 1 /\ said2[n + 1] = kind
        /\ \A k \in 1..n : said2[k] = said[k]
    BY <1>1, AppendProperties
  <1>4. DOMAIN said2 = 1..n + 1 /\ said2 # <<>>
    BY <1>2, <1>3, LenProperties
  <1>5. Announced(said2) <=> kind # "BotStoppedSpeaking"
    BY <1>3, <1>4 DEF Announced
  <1>6. Announced(said) <=> n > 0 /\ said[n] # "BotStoppedSpeaking"
    BY <1>2 DEF Announced
  <1> HIDE DEF n
  <1>7. \A k \in 1..n + 1 : k \in 1..n \/ k = n + 1
    BY <1>2
  <1>8. \A k \in 1..n + 1 :
          /\ said2[k] = "TTSAudio" => k > 1 /\ said2[k - 1] # "BotStoppedSpeaking"
          /\ said2[k] = "BotSpeaking" => k = 1 \/ said2[k - 1] = "BotStoppedSpeaking"
    <2> TAKE k \in 1..n + 1
    <2>1. CASE k \in 1..n
      <3>1. k = 1 \/ k - 1 \in 1..n
        BY <1>2, <2>1
      <3>2. said2[k] = said[k] /\ (k # 1 => said2[k - 1] = said[k - 1])
        BY <1>3, <2>1, <3>1
      <3>3. /\ said[k] = "TTSAudio" => k > 1 /\ said[k - 1] # "BotStoppedSpeaking"
            /\ said[k] = "BotSpeaking" => k = 1 \/ said[k - 1] = "BotStoppedSpeaking"
        BY <1>1, <1>2, <2>1
      <3>4. k = 1 => ~(k > 1)
        OBVIOUS
      <3>5. QED
        BY <3>2, <3>3, <3>4
    <2>2. CASE k = n + 1
      <3>1. n > 0 => k - 1 = n /\ k > 1 /\ said2[n] = said[n]
        BY <1>2, <1>3, <2>2
      <3>2. n = 0 => k = 1
        BY <2>2
      <3>3. n = 0 \/ n > 0
        BY <1>2
      <3>4. QED
        BY <1>3, <1>6, <2>2, <3>1, <3>2, <3>3
    <2>3. QED
      BY <1>7, <2>1, <2>2
  <1>9. QED
    BY <1>3, <1>4, <1>5, <1>8

(* What is left to do when the head is done. *)
LEMMA TodoTails ==
  ASSUME NEW todo \in Todos, todo # <<>>
  PROVE  /\ Tail(todo) \in Todos
         /\ Head(todo) \in {"Interruption", "silent", "speak", "TTSAudio", "BotSpeaking",
                            "BotStoppedSpeaking"}
         /\ \A told, on : Continues(todo, told, on) =>
              /\ Head(todo) = "BotSpeaking" => ~told /\ Continues(Tail(todo), TRUE, on)
              /\ Head(todo) = "TTSAudio" => told /\ Continues(Tail(todo), TRUE, on)
              /\ Head(todo) = "BotStoppedSpeaking" => Continues(Tail(todo), FALSE, on)
              /\ Head(todo) \notin R!Voiced => Continues(Tail(todo), told, on)
  <1>1. CASE todo = <<"Interruption">>
    BY <1>1 DEF Todos, Continues, R!Voiced, OfGemini
  <1>2. CASE todo = <<"silent">>
    BY <1>2 DEF Todos, Continues, R!Voiced, OfGemini
  <1>3. CASE todo = <<"BotStoppedSpeaking", "silent">>
    BY <1>3 DEF Todos, Continues, R!Voiced, OfGemini
  <1>4. CASE todo = <<"TTSAudio">>
    BY <1>4 DEF Todos, Continues, R!Voiced, OfGemini
  <1>5. CASE todo = <<"BotSpeaking", "TTSAudio">>
    BY <1>5 DEF Todos, Continues, R!Voiced, OfGemini
  <1>6. CASE todo = <<"TTSAudio", "BotStoppedSpeaking", "silent">>
    BY <1>6 DEF Todos, Continues, R!Voiced, OfGemini
  <1>7. CASE todo = <<"BotSpeaking", "TTSAudio", "BotStoppedSpeaking", "silent">>
    BY <1>7 DEF Todos, Continues, R!Voiced, OfGemini
  <1>8. CASE todo = OfGemini
    BY <1>8 DEF Todos, Continues, R!Voiced, OfGemini
  <1>9. QED
    BY <1>1, <1>2, <1>3, <1>4, <1>5, <1>6, <1>7, <1>8 DEF Todos

(* The goroutine that reads from a connection does one thing of its list,   *)
(* or gets a new list.                                                      *)
LEMMA TodoKeeps ==
  ASSUME RealInv, NEW i \in DOMAIN dials, ~Mute(dials[i]),
         NEW f \in DialRecord, dials' = [dials EXCEPT ![i] = f],
         f.pc = dials[i].pc, f.sock = dials[i].sock, f.ctx = dials[i].ctx,
         NEW q \in OutItem, q.kind = "Interruption" => q.n = 0,
         q.kind = "TTSAudio" => q.n = i, IsOver => out' = out,
         out' = out \/ out' = R!Enqueue(out, q),
         said' \in Seq(R!Voiced), R!AudioIsAnnounced',
         ~IsOver => Continues(f.todo, Announced(said)', voiceOut'),
         pipeline = "realtime" /\ service = "gemini" => ~voiceOut',
         UNCHANGED <<pipeline, service, started, conn, silenced, pushing>>
  PROVE  RealInv'
  <1>1. i = Last /\ Last # 0 /\ started /\ dials[Last] \in DialRecord /\ Last \in Nat
    BY LastOne DEF Mute
  <1>2. /\ dials' \in Seq(DialRecord) /\ Last' = Last /\ DOMAIN dials' = DOMAIN dials
        /\ dials'[Last] = f /\ \A k \in DOMAIN dials : k # Last => dials'[k] = dials[k]
    BY <1>1, DialSet
  <1>3. ~Mute(f) /\ DialOK(f)
    <2>1. ~Mute(f)
      BY DEF Mute
    <2>2. DialOK(dials[i])
      BY DEF RealInv, DialsInv
    <2>3. QED
      BY <2>1, <2>2 DEF DialOK
  <1>4. /\ out' \in InboxSet(OutItem) /\ Held(out') \subseteq Held(out) \cup {q}
        /\ Elems(out'.down) \subseteq Elems(out.down) \cup {q}
    <2>1. out \in InboxSet(OutItem)
      BY DEF RealInv, RealTyped
    <2>2. QED
      BY <2>1, OutGets
  <1>5. RealTyped'
    BY <1>2, <1>4 DEF RealInv, RealTyped
  <1>6. DialsInv'
    <2> SUFFICES ASSUME NEW k \in DOMAIN dials
                 PROVE  /\ k # Last => dials'[k].pc = "done" /\ dials'[k].sock = "none"
                        /\ DialOK(dials'[k])
      BY <1>1, <1>2 DEF DialsInv
    <2>1. CASE k = Last
      BY <1>2, <1>3, <2>1
    <2>2. CASE k # Last
      <3>1. dials'[k] = dials[k]
        BY <1>2, <2>2
      <3>2. QED
        BY <2>2, <3>1 DEF RealInv, DialsInv
    <2>3. QED
      BY <2>1, <2>2
  <1>7. IsOver' <=> IsOver
    BY <1>1, <1>2 DEF IsOver
  <1>8. Coming' \subseteq Coming \cup {q}
    BY <1>4 DEF Coming
  <1>9. OutInv'
    <2>1. Last' # 0 /\ ~Mute(dials'[Last'])
      BY <1>1, <1>2, <1>3
    <2>2. \A p \in Coming' : /\ p.kind = "Interruption" /\ p.n # 0 => p.n = Last /\ IsOver
                             /\ p.kind = "TTSAudio" => p.n = Last /\ Last # 0
      BY <1>1, <1>8 DEF RealInv, OutInv
    <2>3. silenced # 0 => IsOver /\ \A p \in Elems(out'.down) : p.kind # "TTSAudio"
      BY DEF RealInv, OutInv
    <2>4. QED
      BY <1>2, <1>7, <2>1, <2>2, <2>3 DEF RealInv, OutInv
  <1>10. SaidInv'
    BY <1>2, <1>7 DEF SaidInv
  <1>11. QED
    BY <1>5, <1>6, <1>9, <1>10 DEF RealInv

(* The record of a dial that got a message. *)
LEMMA HeardIs ==
  ASSUME NEW d \in DialRecord, NEW todo \in Todos
  PROVE  /\ R!Heard(d, todo) \in DialRecord /\ R!Heard(d, todo).pc = d.pc
         /\ R!Heard(d, todo).sock = d.sock /\ R!Heard(d, todo).ctx = d.ctx
         /\ R!Heard(d, todo).todo = todo
  <1> DEFINE e == [d EXCEPT !.got = @ + 1]
             h == [e EXCEPT !.todo = todo]
  <1>1. R!Heard(d, todo) = h
    BY DEF R!Heard
  <1>2. e \in DialRecord /\ e.pc = d.pc /\ e.sock = d.sock /\ e.ctx = d.ctx
    BY DEF DialRecord
  <1> HIDE DEF e
  <1>3. /\ h \in DialRecord /\ h.pc = d.pc /\ h.sock = d.sock /\ h.ctx = d.ctx
        /\ h.todo = todo
    BY <1>2 DEF DialRecord
  <1> HIDE DEF h
  <1>4. QED
    BY <1>1, <1>3

LEMMA ReadMoves ==
  ASSUME RealInv, UNCHANGED pipeline, NEW i \in DOMAIN dials, dials[i].pc = "loop",
         dials[i].sock = "open", NEW todo \in Todos,
         R!Does(i, todo), ~IsOver => Continues(todo, Announced(said), voiceOut'),
         pipeline = "realtime" /\ service = "gemini" => ~voiceOut'
  PROVE  RealInv'
  <1> DEFINE d == dials[i]
             f == R!Heard(d, todo)
             q == R!Item("Error", 0)
  <1>1. /\ dials' = [dials EXCEPT ![i] = R!Heard(@, todo)]
        /\ UNCHANGED <<started, conn, out, silenced, said, pushing, service>>
    BY DEF R!Does, R!nodeVars
  <1>2. ~Mute(d) /\ d \in DialRecord
    BY LastOne DEF Mute
  <1>3. q \in OutItem /\ q.kind = "Error"
    BY DEF R!Item, OutItem, OutKinds
  <1>4. /\ said \in Seq(R!Voiced) /\ R!AudioIsAnnounced
        /\ R!AudioIsAnnounced' /\ Announced(said)' = Announced(said)
    BY <1>1 DEF RealInv, SaidInv, R!AudioIsAnnounced, Announced
  <1>5. dials' = [dials EXCEPT ![i] = f]
    BY <1>1
  <1> HIDE DEF d
  <1>6. /\ f.pc = d.pc /\ f.sock = d.sock /\ f.ctx = d.ctx
        /\ f.todo = todo /\ f \in DialRecord
    BY <1>2, HeardIs
  <1> HIDE DEF f, q
  <1>7. ~IsOver => Continues(f.todo, Announced(said)', voiceOut')
    BY <1>4, <1>6
  <1>8. said' \in Seq(R!Voiced)
    BY <1>1, <1>4
  <1>9. QED
    BY <1>1, <1>2, <1>3, <1>4, <1>5, <1>6, <1>7, <1>8, TodoKeeps DEF d

LEMMA ContinuesNone ==
  ASSUME NEW told, NEW on, Continues(<<>>, told, on)
  PROVE  told <=> on
  <1>1. OfGemini # <<>> /\ <<"TTSAudio">> # <<>> /\ <<"BotSpeaking", "TTSAudio">> # <<>>
        /\ <<"BotStoppedSpeaking", "silent">> # <<>> /\ <<"silent">> # <<>>
        /\ <<"TTSAudio", "BotStoppedSpeaking", "silent">> # <<>> /\ <<"Interruption">> # <<>>
        /\ <<"BotSpeaking", "TTSAudio", "BotStoppedSpeaking", "silent">> # <<>>
    BY DEF OfGemini
  <1>2. QED
    BY <1>1 DEF Continues

LEMMA ReadKeeps ==
  ASSUME RealInv, UNCHANGED pipeline, pipeline = "realtime", NEW i \in DOMAIN dials,
         R!ReadDelta(i) \/ R!ReadDone(i) \/ R!Receive(i)
  PROVE  RealInv'
  <1>1. dials[i].pc = "loop" /\ dials[i].todo = <<>> /\ dials[i].sock = "open"
    BY DEF R!ReadDelta, R!ReadDone, R!Receive, R!Receives
  <1>2. i = Last /\ Last # 0
    BY <1>1, LastOne
  <1>3. /\ ~IsOver => (Announced(said) <=> voiceOut)
        /\ service = "gemini" => ~voiceOut
    <2>1. /\ ~IsOver => Continues(dials[Last].todo, Announced(said), voiceOut)
          /\ service = "gemini" => ~voiceOut
      BY <1>2 DEF RealInv, SaidInv
    <2>2. ~IsOver => Continues(<<>>, Announced(said), voiceOut)
      BY <1>1, <1>2, <2>1
    <2>3. QED
      BY <1>2, <2>1, <2>2, ContinuesNone
  <1>4. CASE R!ReadDelta(i)
    <2> DEFINE todo == IF voiceOut THEN <<"TTSAudio">> ELSE <<"BotSpeaking", "TTSAudio">>
    <2>1. R!Does(i, todo) /\ voiceOut' = TRUE /\ service = "openai"
      BY <1>4 DEF R!ReadDelta
    <2>2. voiceOut => todo = <<"TTSAudio">>
      OBVIOUS
    <2>3. ~voiceOut => todo = <<"BotSpeaking", "TTSAudio">>
      OBVIOUS
    <2> HIDE DEF todo
    <2>4. todo \in Todos
      BY <2>2, <2>3 DEF Todos
    <2>5. ~IsOver => Continues(todo, Announced(said), voiceOut')
      BY <1>3, <2>1, <2>2, <2>3 DEF Continues
    <2>6. QED
      BY <1>1, <2>1, <2>4, <2>5, ReadMoves
  <1>5. CASE R!ReadDone(i)
    <2> DEFINE todo == <<"BotStoppedSpeaking", "silent">>
    <2>1. R!Does(i, todo) /\ ~voiceOut'
      BY <1>5 DEF R!ReadDone
    <2>2. todo \in Todos
      BY DEF Todos
    <2>3. ~IsOver => Continues(todo, Announced(said), voiceOut')
      BY <2>1 DEF Continues
    <2> HIDE DEF todo
    <2>4. QED
      BY <1>1, <2>1, <2>2, <2>3, ReadMoves
  <1>6. CASE R!Receive(i)
    <2>1. PICK todo \in {<<"Interruption">>, OfGemini} : R!Does(i, todo)
      BY <1>6 DEF R!Receive, OfGemini
    <2>2. voiceOut' = voiceOut /\ ~voiceOut
      BY <1>3, <1>6 DEF R!Receive
    <2>3. todo \in Todos
      BY <2>1 DEF Todos
    <2>4. ~IsOver => Continues(todo, Announced(said), voiceOut')
      BY <1>3, <2>1, <2>2 DEF Continues
    <2>5. QED
      BY <1>1, <2>1, <2>2, <2>3, <2>4, ReadMoves
  <1>7. QED
    BY <1>4, <1>5, <1>6

LEMMA TodoStepKeeps ==
  ASSUME RealInv, UNCHANGED pipeline, NEW i \in DOMAIN dials, R!LoopFlags(i) \/ R!LoopPush(i)
  PROVE  RealInv'
  <1> DEFINE d == dials[i]
             f == [d EXCEPT !.todo = Tail(@)]
             kind == Head(d.todo)
             q == R!Item(kind, IF kind = "TTSAudio" THEN i ELSE 0)
             none == R!Item("Error", 0)
  <1>1. /\ d.todo # <<>> /\ dials' = [dials EXCEPT ![i].todo = Tail(@)]
        /\ UNCHANGED <<started, conn, voiceOut, silenced, pushing, service>>
    BY DEF R!LoopFlags, R!LoopPush, R!Done, R!nodeVars
  <1>2. \/ kind \in {"speak", "silent"} /\ out' = out /\ said' = said
        \/ kind \notin {"speak", "silent"} /\ d.ctx = "over" /\ out' = out /\ said' = said
        \/ /\ kind \notin {"speak", "silent"} /\ d.ctx # "over" /\ out' = R!Enqueue(out, q)
           /\ said' = IF kind \in R!Voiced THEN Append(said, kind) ELSE said
    BY DEF R!LoopFlags, R!LoopPush, R!PushIsOver
  <1>3. ~Mute(d)
    BY <1>1 DEF RealInv, DialsInv, DialOK
  <1>4. i = Last /\ Last # 0 /\ d \in DialRecord /\ Last \in Nat
    BY <1>3, LastOne DEF Mute
  <1>5. dials' = [dials EXCEPT ![i] = f]
    BY <1>1
  <1>6. /\ Tail(d.todo) \in Todos
        /\ kind \in {"Interruption", "silent", "speak", "TTSAudio", "BotSpeaking",
                     "BotStoppedSpeaking"}
        /\ Continues(d.todo, Announced(said), voiceOut) =>
              /\ kind = "BotSpeaking" => ~Announced(said) /\ Continues(Tail(d.todo), TRUE, voiceOut)
              /\ kind = "TTSAudio" => Announced(said) /\ Continues(Tail(d.todo), TRUE, voiceOut)
              /\ kind = "BotStoppedSpeaking" => Continues(Tail(d.todo), FALSE, voiceOut)
              /\ kind \notin R!Voiced => Continues(Tail(d.todo), Announced(said), voiceOut)
    <2>1. d.todo \in Todos
      BY <1>4 DEF DialRecord
    <2>2. QED
      BY <1>1, <2>1, TodoTails
  <1>7. /\ f \in DialRecord /\ f.pc = d.pc /\ f.sock = d.sock /\ f.ctx = d.ctx
        /\ f.todo = Tail(d.todo)
    BY <1>4, <1>6 DEF DialRecord
  <1>8. none \in OutItem /\ none.kind = "Error"
    BY DEF R!Item, OutItem, OutKinds
  <1>9. /\ kind \notin {"speak", "silent"} => q \in OutItem
        /\ q.kind = kind /\ (kind = "TTSAudio" => q.n = i) /\ (kind # "TTSAudio" => q.n = 0)
    BY <1>4, <1>6 DEF R!Item, OutItem, OutKinds
  <1>10. IsOver <=> d.ctx = "over"
    BY <1>4 DEF IsOver
  <1>11. /\ said \in Seq(R!Voiced) /\ R!AudioIsAnnounced
         /\ ~IsOver => Continues(d.todo, Announced(said), voiceOut)
         /\ pipeline = "realtime" /\ service = "gemini" => ~voiceOut
    BY <1>4 DEF RealInv, SaidInv
  <1> HIDE DEF f, d, q, kind, none
  <1>12. pipeline = "realtime" /\ service = "gemini" => ~voiceOut'
    BY <1>1, <1>11
  <1>13. CASE said' = said /\ (IsOver \/ kind \notin R!Voiced)
    <2>1. said' \in Seq(R!Voiced) /\ R!AudioIsAnnounced' /\ Announced(said)' = Announced(said)
      BY <1>11, <1>13 DEF R!AudioIsAnnounced, Announced
    <2>2. ~IsOver => Continues(f.todo, Announced(said)', voiceOut')
      BY <1>1, <1>6, <1>7, <1>11, <1>13, <2>1
    <2>3. CASE out' = out
      BY <1>1, <1>3, <1>5, <1>7, <1>8, <1>12, <2>1, <2>2, <2>3, TodoKeeps DEF d
    <2>4. CASE out' = R!Enqueue(out, q) /\ kind \notin {"speak", "silent"} /\ ~IsOver
      <3>1. q \in OutItem /\ (q.kind = "Interruption" => q.n = 0)
            /\ (q.kind = "TTSAudio" => q.n = i)
        BY <1>9, <2>4
      <3>2. QED
        BY <1>1, <1>3, <1>5, <1>7, <3>1, <1>12, <2>1, <2>2, <2>4, TodoKeeps DEF d
    <2>5. QED
      BY <1>2, <1>10, <2>3, <2>4
  <1>14. CASE ~IsOver /\ kind \in R!Voiced
    <2>1. kind \notin {"speak", "silent"}
      BY <1>14 DEF R!Voiced
    <2>2. out' = R!Enqueue(out, q) /\ said' = Append(said, kind)
      BY <1>2, <1>10, <1>14, <2>1
    <2>3. /\ kind = "BotSpeaking" => ~Announced(said) /\ Continues(Tail(d.todo), TRUE, voiceOut)
          /\ kind = "TTSAudio" => Announced(said) /\ Continues(Tail(d.todo), TRUE, voiceOut)
          /\ kind = "BotStoppedSpeaking" => Continues(Tail(d.todo), FALSE, voiceOut)
      BY <1>6, <1>11, <1>14
    <2>4. /\ said' \in Seq(R!Voiced) /\ (Announced(said') <=> kind # "BotStoppedSpeaking")
          /\ \A k \in DOMAIN said' :
               /\ said'[k] = "TTSAudio" => k > 1 /\ said'[k - 1] # "BotStoppedSpeaking"
               /\ said'[k] = "BotSpeaking" => k = 1 \/ said'[k - 1] = "BotStoppedSpeaking"
      <3> DEFINE said2 == said'
      <3>1. said2 = Append(said, kind)
        BY <2>2
      <3> HIDE DEF said2
      <3>2. /\ said2 \in Seq(R!Voiced) /\ (Announced(said2) <=> kind # "BotStoppedSpeaking")
            /\ \A k \in DOMAIN said2 :
                 /\ said2[k] = "TTSAudio" => k > 1 /\ said2[k - 1] # "BotStoppedSpeaking"
                 /\ said2[k] = "BotSpeaking" => k = 1 \/ said2[k - 1] = "BotStoppedSpeaking"
        BY <1>14, <2>3, <3>1, SaysNext
      <3>3. QED
        BY <3>2 DEF said2
    <2>5. R!AudioIsAnnounced'
      BY <2>4 DEF R!AudioIsAnnounced
    <2>6. Announced(said)' <=> kind # "BotStoppedSpeaking"
      BY <2>4 DEF Announced
    <2>7. Continues(f.todo, Announced(said)', voiceOut')
      <3>1. CASE kind # "BotStoppedSpeaking"
        <4>1. Continues(Tail(d.todo), TRUE, voiceOut)
          BY <1>14, <2>3, <3>1 DEF R!Voiced
        <4>2. QED
          BY <1>1, <1>7, <2>6, <3>1, <4>1 DEF Continues
      <3>2. CASE kind = "BotStoppedSpeaking"
        <4>1. Continues(Tail(d.todo), FALSE, voiceOut)
          BY <2>3, <3>2
        <4>2. QED
          BY <1>1, <1>7, <2>6, <3>2, <4>1 DEF Continues
      <3>3. QED
        BY <3>1, <3>2
    <2>8. q \in OutItem /\ (q.kind = "Interruption" => q.n = 0)
          /\ (q.kind = "TTSAudio" => q.n = i)
      BY <1>9, <2>1
    <2>9. said' \in Seq(R!Voiced)
      BY <2>4
    <2>10. QED
      BY <1>1, <1>3, <1>5, <1>7, <1>12, <1>14, <2>2, <2>5, <2>7, <2>8, <2>9, TodoKeeps DEF d
  <1>15. QED
    <2>1. kind \notin R!Voiced \/ said' = said \/ ~IsOver
      BY <1>2, <1>10
    <2>2. kind \notin R!Voiced => said' = said
      BY <1>2
    <2>3. kind \in R!Voiced /\ IsOver => said' = said
      BY <1>2, <1>10
    <2>4. QED
      BY <1>13, <1>14, <2>2, <2>3

-----------------------------------------------------------------------------
(* The steps of the nodes, before and behind.  No connection is concerned:  *)
(* what waits grows by a frame p at most, which is not of a connection.     *)
LEMMA OutKeeps ==
  ASSUME RealInv, NEW p \in OutItem, p.kind # "TTSAudio", p.kind = "Interruption" => p.n = 0,
         UNCHANGED <<pipeline, service, started, dials, conn, voiceOut, said>>,
         out' \in InboxSet(OutItem), pushing' \in Seq(OutItem), Coming' \subseteq Coming \cup {p},
         Elems(pushing') \subseteq Elems(pushing) \cup {p}, silenced' \in {0, Last},
         silenced' # 0 => IsOver /\ \A q \in Elems(out'.down) : q.kind # "TTSAudio",
         NothingYet => silenced' = 0
  PROVE  RealInv'
  <1>1. Last' = Last /\ (IsOver' <=> IsOver)
    BY DEF Last, IsOver
  <1>2. RealTyped' /\ DialsInv'
    BY <1>1 DEF RealInv, RealTyped, DialsInv
  <1>3. NothingYet => NothingYet'
    BY DEF NothingYet
  <1>4. OutInv'
    <2>1. (Last' # 0 => Mute(dials'[Last'])) => NothingYet'
      BY <1>1, <1>3 DEF RealInv, OutInv
    <2>2. \A q \in Coming' : /\ q.kind = "Interruption" /\ q.n # 0 => q.n = Last /\ IsOver
                             /\ q.kind = "TTSAudio" => q.n = Last /\ Last # 0
      BY DEF RealInv, OutInv
    <2>3. \A q \in Elems(pushing') : q.kind # "TTSAudio"
      BY DEF RealInv, OutInv
    <2>4. QED
      BY <1>1, <2>1, <2>2, <2>3 DEF OutInv
  <1>5. SaidInv'
    BY <1>1 DEF RealInv, SaidInv, R!AudioIsAnnounced, Announced
  <1>6. QED
    BY <1>2, <1>4, <1>5 DEF RealInv

(* The queue of the node holds the one frame it has to pass on. *)
LEMMA PushesOne ==
  ASSUME NEW p \in OutItem
  PROVE  <<p>> \in Seq(OutItem) /\ Elems(<<p>>) = {p}
  BY DEF Elems

LEMMA EnsureKeeps ==
  ASSUME RealInv, UNCHANGED pipeline, R!Setup \/ R!ProcessStart
  PROVE  RealInv'
  <1> DEFINE p == R!Item("Start", 0)
  <1>1. p \in OutItem /\ p.kind = "Start"
    BY DEF R!Item, OutItem, OutKinds
  <1>2. /\ R!Ensure /\ (pushing' = pushing \/ pushing' = <<p>>)
        /\ UNCHANGED <<conn, voiceOut, out, silenced, said, service>>
    BY DEF R!Setup, R!ProcessStart
  <1> HIDE DEF p
  <1>3. /\ pushing' \in Seq(OutItem) /\ Elems(pushing') \subseteq Elems(pushing) \cup {p}
        /\ Coming' \subseteq Coming \cup {p}
    <2>1. pushing \in Seq(OutItem)
      BY DEF RealInv, RealTyped
    <2>2. <<p>> \in Seq(OutItem) /\ Elems(<<p>>) = {p}
      BY <1>1, PushesOne
    <2>3. pushing' \in Seq(OutItem) /\ Elems(pushing') \subseteq Elems(pushing) \cup {p}
      BY <1>2, <2>1, <2>2
    <2>4. QED
      BY <1>2, <2>3 DEF Coming
  <1>4. CASE UNCHANGED <<started, dials>>
    <2>1. out' \in InboxSet(OutItem) /\ silenced' \in {0, Last}
      BY <1>2 DEF RealInv, RealTyped
    <2>2. silenced' # 0 => IsOver /\ \A q \in Elems(out'.down) : q.kind # "TTSAudio"
      BY <1>2 DEF RealInv, OutInv
    <2>3. NothingYet => silenced' = 0
      BY <1>2 DEF NothingYet
    <2>4. QED
      BY <1>1, <1>2, <1>3, <1>4, <2>1, <2>2, <2>3, OutKeeps
  <1>5. CASE ~started /\ started' = TRUE /\ dials' = Append(dials, R!NewDial)
    <2> DEFINE new == R!NewDial
    <2>1. /\ new \in DialRecord /\ new.pc \in {"connect", "dial"} /\ new.sock = "none"
          /\ new.ctx = "live" /\ new.todo = <<>>
      <3> DEFINE pc == IF service = "gemini" THEN "connect" ELSE "dial"
      <3>1. new = [pc |-> pc, sock |-> "none", ctx |-> "live", todo |-> <<>>, got |-> 0]
        BY DEF R!NewDial
      <3>2. pc \in {"connect", "dial"}
        OBVIOUS
      <3> HIDE DEF pc, new
      <3>3. <<>> \in Todos
        BY DEF Todos
      <3>4. QED
        BY <3>1, <3>2, <3>3 DEF DialRecord
    <2> HIDE DEF new
    <2>2. DialOK(new) /\ Mute(new)
      BY <2>1 DEF DialOK, Mute
    <2>3. /\ dials' \in Seq(DialRecord) /\ Last \in Nat /\ Last' = Last + 1
          /\ DOMAIN dials = 1..Last /\ DOMAIN dials' = 1..Last + 1 /\ dials'[Last + 1] = new
          /\ \A k \in 1..Last : dials'[k] = dials[k]
      <3>1. dials \in Seq(DialRecord)
        BY DEF RealInv, RealTyped
      <3>2. dials' = Append(dials, new)
        BY <1>5 DEF new
      <3>3. QED
        BY <2>1, <3>1, <3>2, AppendProperties, LenProperties DEF Last
    <2>4. NothingYet
      <3>1. Last # 0 => Last \in DOMAIN dials
        BY <2>3
      <3>2. Last # 0 => Mute(dials[Last])
        BY <1>5, <3>1 DEF RealInv, DialsInv, Mute
      <3>3. QED
        BY <3>2 DEF RealInv, OutInv
    <2>5. NothingYet'
      BY <1>1, <1>2, <1>3, <2>4 DEF NothingYet
    <2>6. RealTyped'
      BY <1>2, <1>3, <2>3, <2>4 DEF RealInv, RealTyped, NothingYet
    <2>7. DialsInv'
      <3> SUFFICES ASSUME NEW k \in 1..Last + 1
                   PROVE  /\ k # Last + 1 => dials'[k].pc = "done" /\ dials'[k].sock = "none"
                          /\ DialOK(dials'[k])
        BY <1>5, <2>3 DEF DialsInv
      <3>1. CASE k = Last + 1
        BY <2>2, <2>3, <3>1
      <3>2. CASE k # Last + 1
        <4>1. k \in 1..Last
          BY <2>3, <3>2
        <4>2. dials'[k] = dials[k] /\ k \in DOMAIN dials
          BY <2>3, <4>1
        <4>3. QED
          BY <1>5, <4>2 DEF RealInv, DialsInv
      <3>3. QED
        BY <3>1, <3>2
    <2>8. OutInv'
      BY <1>1, <1>3, <2>5 DEF RealInv, OutInv, NothingYet
    <2>9. SaidInv'
      <3>1. said' = <<>> /\ ~voiceOut'
        BY <2>5 DEF NothingYet
      <3>2. dials'[Last'].todo = <<>>
        BY <2>1, <2>3
      <3>3. ~Announced(said)'
        BY <3>1 DEF Announced
      <3>4. said' \in Seq(R!Voiced) /\ R!AudioIsAnnounced'
        BY <3>1 DEF R!AudioIsAnnounced
      <3>5. QED
        BY <3>1, <3>2, <3>3, <3>4 DEF SaidInv, Continues
    <2>10. QED
      BY <2>6, <2>7, <2>8, <2>9 DEF RealInv
  <1>6. QED
    BY <1>2, <1>4, <1>5 DEF R!Ensure

(* A connection is closed: the last one, which is read from. *)
LEMMA CloseKeeps ==
  ASSUME RealInv, UNCHANGED pipeline,
         R!Cleanup \/ \E kind \in {"Interruption", "Cancel", "End"} : R!ProcessClose(kind)
  PROVE  RealInv'
  <1>1. PICK kind \in {"Interruption", "Cancel", "End"} :
          /\ R!CloseConn /\ (pushing' = pushing \/ pushing' = <<R!Item(kind, conn)>>)
          /\ UNCHANGED <<started, voiceOut, out, silenced, said, service>>
    BY DEF R!Cleanup, R!ProcessClose
  <1> DEFINE p == R!Item(kind, conn)
             d == dials[Last]
             f == [d EXCEPT !.ctx = "over", !.sock = "closed"]
  <1>2. dials \in Seq(DialRecord) /\ Last \in Nat /\ DOMAIN dials = 1..Last /\ conn \in {0, Last}
    BY LenProperties DEF RealInv, RealTyped, Last
  <1>3. p \in OutItem /\ p.kind # "TTSAudio" /\ p.n = conn
    BY <1>2 DEF R!Item, OutItem, OutKinds
  <1> HIDE DEF p
  <1>4. /\ pushing' \in Seq(OutItem) /\ Elems(pushing') \subseteq Elems(pushing) \cup {p}
        /\ Coming' \subseteq Coming \cup {p}
    <2>1. pushing \in Seq(OutItem)
      BY DEF RealInv, RealTyped
    <2>2. <<p>> \in Seq(OutItem) /\ Elems(<<p>>) = {p}
      BY <1>3, PushesOne
    <2>3. pushing' \in Seq(OutItem) /\ Elems(pushing') \subseteq Elems(pushing) \cup {p}
      BY <1>1, <2>1, <2>2 DEF p
    <2>4. QED
      BY <1>1, <2>3 DEF Coming
  <1>5. CASE conn = 0
    <2>1. dials' = dials /\ conn' = conn
      BY <1>1, <1>5 DEF R!CloseConn
    <2>2. out' \in InboxSet(OutItem) /\ silenced' \in {0, Last}
      BY <1>1 DEF RealInv, RealTyped
    <2>3. silenced' # 0 => IsOver /\ \A q \in Elems(out'.down) : q.kind # "TTSAudio"
      BY <1>1 DEF RealInv, OutInv
    <2>4. NothingYet => silenced' = 0
      BY <1>1 DEF NothingYet
    <2>5. QED
      BY <1>1, <1>3, <1>4, <1>5, <2>1, <2>2, <2>3, <2>4, OutKeeps
  <1>6. CASE conn # 0
    <2>1. conn = Last /\ Last # 0 /\ Last \in DOMAIN dials /\ conn' = 0
      BY <1>1, <1>2, <1>6 DEF R!CloseConn
    <2>2. ~Mute(d)
      BY <2>1 DEF RealInv, OutInv, NothingYet
    <2>3. dials' = [dials EXCEPT ![Last] = f]
      BY <1>1, <2>1 DEF R!CloseConn, R!HungUp
    <2>4. d \in DialRecord /\ DialOK(d)
      BY <1>2, <2>1, ElementOfSeq DEF RealInv, DialsInv
    <2>5. /\ f \in DialRecord /\ f.pc = d.pc /\ f.sock = "closed" /\ f.ctx = "over"
          /\ f.todo = d.todo
      BY <2>4 DEF DialRecord
    <2> HIDE DEF f, d
    <2>6. DialOK(f) /\ ~Mute(f)
      BY <2>2, <2>4, <2>5 DEF DialOK, Mute
    <2>7. /\ dials' \in Seq(DialRecord) /\ Last' = Last /\ DOMAIN dials' = DOMAIN dials
          /\ dials'[Last] = f /\ \A k \in DOMAIN dials : k # Last => dials'[k] = dials[k]
      BY <2>1, <2>3, <2>5, DialSet
    <2>8. RealTyped'
      BY <1>1, <1>4, <2>1, <2>7 DEF RealInv, RealTyped
    <2>9. DialsInv'
      <3>1. started
        <4>1. d.sock # "none"
          BY <2>2 DEF Mute
        <4>2. QED
          BY <2>1, <4>1 DEF RealInv, DialsInv, d
      <3> SUFFICES ASSUME NEW k \in DOMAIN dials
                   PROVE  /\ k # Last => dials'[k].pc = "done" /\ dials'[k].sock = "none"
                          /\ DialOK(dials'[k])
        BY <1>1, <2>7, <3>1 DEF DialsInv
      <3>2. CASE k = Last
        BY <2>6, <2>7, <3>2
      <3>3. CASE k # Last
        <4>1. dials'[k] = dials[k]
          BY <2>7, <3>3
        <4>2. QED
          BY <3>3, <4>1 DEF RealInv, DialsInv
      <3>4. QED
        BY <3>2, <3>3
    <2>10. IsOver'
      BY <2>1, <2>5, <2>7 DEF IsOver
    <2>11. OutInv'
      <3>1. Last' # 0 /\ ~Mute(dials'[Last'])
        BY <2>1, <2>6, <2>7
      <3>2. \A q \in Coming' : /\ q.kind = "Interruption" /\ q.n # 0 => q.n = Last
                               /\ q.kind = "TTSAudio" => q.n = Last /\ Last # 0
        BY <1>3, <1>4, <2>1 DEF RealInv, OutInv
      <3>3. \A q \in Elems(pushing') : q.kind # "TTSAudio"
        BY <1>3, <1>4 DEF RealInv, OutInv
      <3>4. silenced # 0 => \A q \in Elems(out.down) : q.kind # "TTSAudio"
        BY DEF RealInv, OutInv
      <3>5. QED
        BY <1>1, <2>7, <2>10, <3>1, <3>2, <3>3, <3>4 DEF OutInv
    <2>12. SaidInv'
      BY <1>1, <2>7, <2>10 DEF RealInv, SaidInv, R!AudioIsAnnounced
    <2>13. QED
      BY <2>8, <2>9, <2>11, <2>12 DEF RealInv
  <1>7. QED
    BY <1>5, <1>6

(* The contexts of all connections end at once. *)
LEMMA TaskStopsKeeps ==
  ASSUME RealInv, UNCHANGED pipeline, R!TaskStops
  PROVE  RealInv'
  <1>1. /\ dials' = [i \in DOMAIN dials |-> [dials[i] EXCEPT !.ctx = "over"]]
        /\ UNCHANGED <<started, conn, pushing, voiceOut, out, silenced, said, service>>
    BY DEF R!TaskStops
  <1>2. dials \in Seq(DialRecord) /\ Last \in Nat /\ DOMAIN dials = 1..Last
    BY LenProperties DEF RealInv, RealTyped, Last
  <1>3. DOMAIN dials' = 1..Last
    BY <1>1, <1>2
  <1>4. ASSUME NEW k \in 1..Last
        PROVE  /\ dials'[k] \in DialRecord /\ dials'[k].pc = dials[k].pc
               /\ dials'[k].sock = dials[k].sock /\ dials'[k].ctx = "over"
               /\ dials'[k].todo = dials[k].todo
    <2> DEFINE d == dials[k]
               f == [d EXCEPT !.ctx = "over"]
    <2>1. dials'[k] = f
      BY <1>1, <1>2
    <2>2. d \in DialRecord
      BY <1>2, ElementOfSeq
    <2> HIDE DEF d
    <2>3. f \in DialRecord /\ f.pc = d.pc /\ f.sock = d.sock /\ f.ctx = "over"
          /\ f.todo = d.todo
      BY <2>2 DEF DialRecord
    <2>4. QED
      BY <2>1, <2>3 DEF d
  <1>5. /\ dials' \in Seq(DialRecord) /\ Last' = Last
    <2>1. dials' = [k \in 1..Last |-> dials'[k]]
      BY <1>1, <1>3
    <2>2. dials' \in Seq(DialRecord) /\ Len(dials') = Last
      BY <1>2, <1>4, <2>1
    <2>3. QED
      BY <2>2 DEF Last
  <1>6. RealTyped'
    BY <1>1, <1>5 DEF RealInv, RealTyped
  <1>7. \A k \in 1..Last : (Mute(dials'[k]) <=> Mute(dials[k]))
                            /\ (DialOK(dials[k]) => DialOK(dials'[k]))
    BY <1>4 DEF Mute, DialOK
  <1>8. DialsInv'
    BY <1>1, <1>2, <1>3, <1>4, <1>5, <1>7 DEF RealInv, DialsInv
  <1>9. Coming' = Coming /\ (IsOver' <=> Last # 0) /\ (Last # 0 => Last \in 1..Last)
    <2>1. Last # 0 => Last \in 1..Last
      BY <1>2
    <2>2. QED
      BY <1>1, <1>4, <1>5, <2>1 DEF Coming, IsOver
  <1>10. OutInv'
    <2>1. (Last # 0 => Mute(dials[Last])) => NothingYet
      BY DEF RealInv, OutInv
    <2>2. (Last' # 0 => Mute(dials'[Last'])) => NothingYet'
      BY <1>1, <1>5, <1>7, <1>9, <2>1 DEF NothingYet
    <2>3. \A q \in Coming : /\ q.kind = "Interruption" /\ q.n # 0 => q.n = Last /\ Last # 0
                            /\ q.kind = "TTSAudio" => q.n = Last /\ Last # 0
      BY DEF RealInv, OutInv, IsOver
    <2>4. silenced # 0 => Last # 0 /\ \A q \in Elems(out.down) : q.kind # "TTSAudio"
      BY DEF RealInv, OutInv, IsOver
    <2>5. \A q \in Elems(pushing) : q.kind # "TTSAudio"
      BY DEF RealInv, OutInv
    <2>6. QED
      BY <1>1, <1>5, <1>9, <2>2, <2>3, <2>4, <2>5 DEF OutInv
  <1>11. SaidInv'
    <2>1. /\ said \in Seq(R!Voiced) /\ R!AudioIsAnnounced
          /\ pipeline = "realtime" /\ service = "gemini" => ~voiceOut
      BY DEF RealInv, SaidInv
    <2>2. R!AudioIsAnnounced'
      BY <1>1, <2>1 DEF R!AudioIsAnnounced
    <2>3. QED
      BY <1>1, <1>5, <1>9, <2>1, <2>2 DEF SaidInv
  <1>12. QED
    BY <1>6, <1>8, <1>10, <1>11 DEF RealInv

LEMMA NodePushKeeps ==
  ASSUME RealInv, UNCHANGED pipeline, R!NodePush
  PROVE  RealInv'
  <1> DEFINE q == Head(pushing)
             p == R!Item("Start", 0)
  <1>1. /\ pushing # <<>> /\ out' = R!Enqueue(out, q) /\ pushing' = Tail(pushing)
        /\ UNCHANGED <<started, dials, conn, voiceOut, silenced, said, service>>
    BY DEF R!NodePush, R!flagVars
  <1>2. pushing \in Seq(OutItem)
    BY DEF RealInv, RealTyped
  <1>3. /\ Tail(pushing) \in Seq(OutItem) /\ q \in Elems(pushing)
        /\ Elems(pushing) = Elems(Tail(pushing)) \cup {q}
    BY <1>1, <1>2, ElemsOf
  <1>4. q \in OutItem /\ q.kind # "TTSAudio"
    BY <1>2, <1>3 DEF RealInv, OutInv, Elems
  <1>5. p \in OutItem /\ p.kind = "Start"
    BY DEF R!Item, OutItem, OutKinds
  <1> HIDE DEF q, p
  <1>6. /\ out' \in InboxSet(OutItem) /\ Held(out') \subseteq Held(out) \cup {q}
        /\ Elems(out'.down) \subseteq Elems(out.down) \cup {q}
    BY <1>1, <1>4, OutGets
  <1>7. Coming' \subseteq Coming \cup {p} /\ Elems(pushing') \subseteq Elems(pushing) \cup {p}
    BY <1>1, <1>3, <1>6 DEF Coming
  <1>8. silenced' \in {0, Last}
    BY <1>1 DEF RealInv, RealTyped
  <1>9. silenced' # 0 => IsOver /\ \A r \in Elems(out'.down) : r.kind # "TTSAudio"
    BY <1>1, <1>4, <1>6 DEF RealInv, OutInv
  <1>10. NothingYet => silenced' = 0
    BY <1>1 DEF NothingYet
  <1>11. pushing' \in Seq(OutItem)
    BY <1>1, <1>3
  <1>12. QED
    BY <1>1, <1>5, <1>6, <1>7, <1>8, <1>9, <1>10, <1>11, OutKeeps

(* The output takes a frame; an Interruption of a connection drops the      *)
(* audio that waits.                                                        *)
LEMMA OutputTakesKeeps ==
  ASSUME RealInv, UNCHANGED pipeline, R!OutputTakes
  PROVE  RealInv'
  <1> DEFINE q == Front(out)
             rest == PopFront(out)
             p == R!Item("Start", 0)
  <1>1. /\ ~IsEmpty(out)
        /\ q.kind = "Interruption" => out' = DrainInterruptible(rest)
        /\ q.kind # "Interruption" => out' = rest
        /\ \/ q.kind = "Interruption" /\ q.n > silenced /\ silenced' = q.n
           \/ silenced' = silenced
        /\ UNCHANGED <<started, dials, conn, pushing, voiceOut, said, service>>
    BY RealtimeInboxes DEF R!OutputTakes, R!flagVars, R!nodeVars
  <1>2. out \in InboxSet(OutItem) /\ silenced \in {0, Last} /\ pushing \in Seq(OutItem)
    BY DEF RealInv, RealTyped
  <1>3. /\ rest \in InboxSet(OutItem) /\ q \in Held(out) /\ Held(rest) \subseteq Held(out)
        /\ Elems(rest.down) \subseteq Elems(out.down)
    BY <1>1, <1>2, HeldAfterPop
  <1>4. p \in OutItem /\ p.kind = "Start"
    BY DEF R!Item, OutItem, OutKinds
  <1> HIDE DEF q, rest, p
  <1>5. /\ DrainInterruptible(rest) \in InboxSet(OutItem)
        /\ Held(DrainInterruptible(rest)) \subseteq Held(rest)
        /\ Elems(DrainInterruptible(rest).down) \subseteq {r \in Elems(rest.down) : ~Droppable(r)}
    BY <1>3, HeldAfterDrain
  <1>6. /\ out' \in InboxSet(OutItem) /\ Held(out') \subseteq Held(out)
        /\ Elems(out'.down) \subseteq Elems(out.down)
    BY <1>1, <1>3, <1>5
  <1>7. ASSUME q.kind = "Interruption", NEW r \in Elems(out'.down)
        PROVE  r.kind # "TTSAudio"
    <2>1. r \in Elems(out.down) /\ ~Droppable(r)
      BY <1>1, <1>5, <1>6, <1>7
    <2>2. r \in OutItem
      BY <1>2, <2>1, HeldTyped DEF Held
    <2>3. QED
      BY <2>1, <2>2 DEF OutItem, Droppable, Interruptible, IsSystem, SystemKinds,
                        UninterruptibleKinds
  <1>8. q \in Coming
    BY <1>3 DEF Coming
  <1>9. CASE silenced' = silenced
    <2>1. silenced' # 0 => IsOver /\ \A r \in Elems(out'.down) : r.kind # "TTSAudio"
      BY <1>6, <1>9 DEF RealInv, OutInv
    <2>2. NothingYet => silenced' = 0
      BY <1>9 DEF NothingYet
    <2>3. Coming' \subseteq Coming \cup {p} /\ Elems(pushing') \subseteq Elems(pushing) \cup {p}
      BY <1>1, <1>6 DEF Coming
    <2>4. pushing' \in Seq(OutItem) /\ silenced' \in {0, Last}
      BY <1>1, <1>2, <1>9
    <2>5. QED
      BY <1>1, <1>4, <1>6, <2>1, <2>2, <2>3, <2>4, OutKeeps
  <1>10. CASE q.kind = "Interruption" /\ q.n > silenced /\ silenced' = q.n
    <2>1. q \in OutItem /\ q.n \in Nat
      <3>1. q \in OutItem
        BY <1>2, <1>3, HeldTyped
      <3>2. QED
        BY <3>1 DEF OutItem
    <2>2. Last \in Nat
      BY LenProperties DEF RealInv, RealTyped, Last
    <2>3. q.n # 0
      BY <1>2, <1>10, <2>1, <2>2
    <2>4. q.n = Last /\ IsOver /\ ~NothingYet
      BY <1>8, <1>10, <2>3 DEF RealInv, OutInv, NothingYet
    <2>5. silenced' # 0 => IsOver /\ \A r \in Elems(out'.down) : r.kind # "TTSAudio"
      BY <1>7, <1>10, <2>4
    <2>6. Coming' \subseteq Coming \cup {p} /\ Elems(pushing') \subseteq Elems(pushing) \cup {p}
      BY <1>1, <1>6 DEF Coming
    <2>7. pushing' \in Seq(OutItem) /\ silenced' \in {0, Last}
      BY <1>1, <1>2, <1>10, <2>4
    <2>8. QED
      BY <1>1, <1>4, <1>6, <2>4, <2>5, <2>6, <2>7, OutKeeps
  <1>11. QED
    BY <1>1, <1>9, <1>10

LEMMA RealInit ==
  ASSUME Init
  PROVE  RealInv
  <1>1. /\ started = FALSE /\ conn = 0 /\ dials = <<>> /\ voiceOut = FALSE /\ pushing = <<>>
        /\ out = R!EmptyInbox /\ silenced = 0 /\ said = <<>>
    BY DEF Init, R!AtRest
  <1>2. out = EmptyInbox
    BY <1>1 DEF R!EmptyInbox, EmptyInbox
  <1>3. out \in InboxSet(OutItem) /\ Held(out) = {}
    BY <1>2, EmptyIsInbox
  <1>4. Last = 0 /\ DOMAIN dials = {}
    BY <1>1 DEF Last
  <1>5. Elems(pushing) = {} /\ Coming = {}
    BY <1>1, <1>3 DEF Elems, Coming
  <1>6. RealTyped
    BY <1>1, <1>3 DEF RealTyped
  <1>7. DialsInv
    BY <1>4 DEF DialsInv
  <1>8. OutInv
    BY <1>1, <1>5 DEF OutInv, NothingYet
  <1>9. SaidInv
    BY <1>1, <1>4 DEF SaidInv, R!AudioIsAnnounced
  <1>10. QED
    BY <1>6, <1>7, <1>8, <1>9 DEF RealInv

LEMMA RealNext ==
  ASSUME RealInv, [Next]_vars
  PROVE  RealInv'
  <1>1. CASE Realtime
    <2>1. pipeline = "realtime" /\ R!Next /\ UNCHANGED pipeline
      BY <1>1 DEF Realtime
    <2>2. CASE R!Setup \/ R!ProcessStart
      BY <2>1, <2>2, EnsureKeeps
    <2>3. CASE R!NodePush
      BY <2>1, <2>3, NodePushKeeps
    <2>4. CASE R!TaskStops
      BY <2>1, <2>4, TaskStopsKeeps
    <2>5. CASE R!Cleanup \/ \E kind \in {"Interruption", "Cancel", "End"} : R!ProcessClose(kind)
      BY <2>1, <2>5, CloseKeeps
    <2>6. CASE R!OutputTakes
      BY <2>1, <2>6, OutputTakesKeeps
    <2>7. ASSUME NEW i \in 1..R!MaxDials, R!DialStep(i)
          PROVE  RealInv'
      <3>1. i \in DOMAIN dials
        BY <2>7 DEF R!DialStep
      <3>2. CASE R!GeminiConnect(i) \/ R!Dial(i) \/ R!OpenAIStore(i) \/ R!GeminiStore(i)
                   \/ R!LoopEnds(i) \/ R!ConnectionLost(i)
        BY <2>1, <3>1, <3>2, DialGoes
      <3>3. CASE R!DialFailed(i)
        BY <2>1, <3>1, <3>3, DialFailedKeeps
      <3>4. CASE R!ReadDelta(i) \/ R!ReadDone(i) \/ R!Receive(i)
        BY <2>1, <3>1, <3>4, ReadKeeps
      <3>5. CASE R!LoopFlags(i) \/ R!LoopPush(i)
        BY <2>1, <3>1, <3>5, TodoStepKeeps
      <3>6. QED
        BY <2>7, <3>2, <3>3, <3>4, <3>5 DEF R!DialStep
    <2>8. QED
      BY <2>1, <2>2, <2>3, <2>4, <2>5, <2>6, <2>7 DEF R!Next
  <1>2. CASE Classic \/ Idling \/ UNCHANGED vars
    <2>1. /\ UNCHANGED <<started, conn, dials, voiceOut, pushing, out, silenced, said, pipeline>>
          /\ pipeline = "realtime" => UNCHANGED service
      BY <1>2 DEF Classic, Idling, vars, realtimeVars
    <2>2. UNCHANGED <<Last, Coming, IsOver>>
      BY <2>1 DEF Last, Coming, IsOver
    <2>3. UNCHANGED <<RealTyped, DialsInv, NothingYet>>
      BY <2>1, <2>2 DEF RealTyped, DialsInv, NothingYet
    <2>4. OutInv' <=> OutInv
      BY <2>1, <2>2, <2>3 DEF OutInv
    <2>5. SaidInv => SaidInv'
      BY <2>1, <2>2 DEF SaidInv, R!AudioIsAnnounced, Announced
    <2>6. QED
      BY <2>3, <2>4, <2>5 DEF RealInv
  <1>3. QED
    BY <1>1, <1>2 DEF Next

LEMMA RealHolds == Spec => []RealInv
  BY RealInit, RealNext, PTL DEF Spec

(* At most one connection is being opened or open, in whatever order Setup, *)
(* a failing dial, the StartFrame and Cleanup come; and the output never    *)
(* has audio of a connection waiting once it has taken the Interruption     *)
(* that closed it (services/openai/realtime.go, services/google/            *)
(* gemini_live.go).                                                         *)
THEOREM OneVoiceIsHeard == Spec => []OneVoice
  <1>1. ASSUME RealInv
        PROVE  OneVoice
    <2> DEFINE lives == {i \in DOMAIN dials : dials[i].pc \in {"connect", "dial", "store"}
                                                \/ dials[i].sock = "open"}
    <2>1. lives \subseteq {Last}
      BY <1>1 DEF RealInv, DialsInv
    <2>2. lives = {} \/ lives = {Last}
      BY <2>1
    <2>3. R!Cardinality(lives) = Cardinality(lives)
      BY DEF R!Cardinality, Cardinality
    <2>4. Cardinality({}) = 0 /\ Cardinality({Last}) = 1
      BY FS_EmptySet, FS_Singleton
    <2> HIDE DEF lives
    <2>5. R!Cardinality(lives) <= 1
      BY <2>2, <2>3, <2>4
    <2>6. ASSUME NEW k \in DOMAIN out.down, out.down[k].kind = "TTSAudio"
          PROVE  out.down[k].n > silenced
      <3> DEFINE q == out.down[k]
      <3>1. q \in Elems(out.down) /\ q \in Coming
        BY DEF Elems, Coming, Held
      <3>2. q.n = Last /\ Last # 0 /\ silenced = 0
        BY <1>1, <2>6, <3>1 DEF RealInv, OutInv
      <3>3. Last \in Nat
        BY <1>1, LenProperties DEF RealInv, RealTyped, Last
      <3>4. QED
        BY <3>2, <3>3
    <2>7. QED
      BY <2>5, <2>6 DEF OneVoice, R!OneVoice, lives
  <1>2. QED
    BY <1>1, RealHolds, PTL

(* The audio that leaves a realtime service comes after a BotSpeaking with   *)
(* no BotStoppedSpeaking since, and nothing is announced twice, whatever    *)
(* responses the other end completes, cuts off or leaves without audio      *)
(* (services/openai/realtime.go, services/google/gemini_live.go).           *)
THEOREM AudioComesAnnounced == Spec => []AudioIsAnnounced
  <1>1. RealInv => AudioIsAnnounced
    BY DEF RealInv, SaidInv, AudioIsAnnounced
  <1>2. QED
    BY <1>1, RealHolds, PTL
=============================================================================

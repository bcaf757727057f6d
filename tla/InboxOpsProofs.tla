--------------------------- MODULE InboxOpsProofs ---------------------------
(***************************************************************************)
(* Lemmas about the operators of InboxOps: what a subsequence KeepAt is,   *)
(* and how pushes, pops, sheds and drains change a lane.  At the end, what *)
(* modules that count over many inboxes need: sums of functions.           *)
(***************************************************************************)
EXTENDS InboxOps, Functions, FiniteSetTheorems, SequenceTheorems, WellFoundedInduction, TLAPS

(* A set of positions is finite and no larger than the sequence it is of.   *)
LEMMA PositionsFinite ==
  ASSUME NEW n \in Nat, NEW K \in SUBSET (1..n)
  PROVE  /\ IsFiniteSet(K)
         /\ Cardinality(K) \in Nat
         /\ Cardinality(K) <= n
  <1>1. IsFiniteSet(1..n) /\ Cardinality(1..n) = n
    BY FS_Interval
  <1>2. IsFiniteSet(K) /\ Cardinality(K) <= n
    BY <1>1, FS_Subset
  <1>3. QED
    BY <1>2, FS_CardinalityType

(* The rank of a position in K lies between 1 and the size of K, and larger *)
(* positions have larger ranks.                                             *)
LEMMA RankIncreases ==
  ASSUME NEW n \in Nat, NEW K \in SUBSET (1..n)
  PROVE  /\ \A i \in K : Rank(K, i) \in 1..Cardinality(K)
         /\ \A i, j \in K : i < j => Rank(K, i) < Rank(K, j)
  <1> DEFINE Below(i) == {x \in K : x <= i}
  <1>1. /\ IsFiniteSet(K) /\ Cardinality(K) \in Nat
        /\ \A i \in K : /\ IsFiniteSet(Below(i))
                        /\ Cardinality(Below(i)) \in Nat
                        /\ Cardinality(Below(i)) <= Cardinality(K)
    <2>1. IsFiniteSet(K) /\ Cardinality(K) \in Nat
      BY PositionsFinite
    <2>2. ASSUME NEW i \in K
          PROVE  /\ IsFiniteSet(Below(i))
                 /\ Cardinality(Below(i)) \in Nat
                 /\ Cardinality(Below(i)) <= Cardinality(K)
      <3>1. Below(i) \in SUBSET K /\ Below(i) \in SUBSET (1..n)
        OBVIOUS
      <3>2. IsFiniteSet(Below(i)) /\ Cardinality(Below(i)) \in Nat
        BY <3>1, PositionsFinite
      <3>3. QED
        BY <2>1, <3>1, <3>2, FS_Subset
    <2>3. QED
      BY <2>1, <2>2
  <1>2. ASSUME NEW i \in K
        PROVE  Rank(K, i) \in 1..Cardinality(K)
    <2>1. i \in Below(i)
      OBVIOUS
    <2>2. Cardinality(Below(i)) # 0
      BY <1>1, <2>1, FS_EmptySet
    <2>3. QED
      BY <1>1, <2>2 DEF Rank
  <1>3. ASSUME NEW i \in K, NEW j \in K, i < j
        PROVE  Rank(K, i) < Rank(K, j)
    <2>1. i \in Int /\ j \in Int /\ \A x \in K : x \in Int
      OBVIOUS
    <2>2. j \notin Below(i) /\ Below(i) \cup {j} \in SUBSET Below(j)
      <3>1. ~(j <= i) /\ j <= j /\ \A x \in K : x <= i => x <= j
        BY <1>3, <2>1
      <3>2. QED
        BY <3>1
    <2>3. Cardinality(Below(i) \cup {j}) = Cardinality(Below(i)) + 1
      BY <1>1, <2>2, FS_AddElement
    <2>4. Cardinality(Below(i) \cup {j}) <= Cardinality(Below(j))
      BY <1>1, <2>2, FS_Subset
    <2>5. QED
      BY <1>1, <2>3, <2>4 DEF Rank
  <1>4. QED
    BY <1>2, <1>3

(* Nth is the inverse of Rank: K has a position of every rank up to its     *)
(* size, and Nth goes through K in increasing order.                        *)
LEMMA NthEnumerates ==
  ASSUME NEW n \in Nat, NEW K \in SUBSET (1..n)
  PROVE  /\ \A k \in 1..Cardinality(K) : Nth(K, k) \in K /\ Rank(K, Nth(K, k)) = k
         /\ \A k, l \in 1..Cardinality(K) : k < l => Nth(K, k) < Nth(K, l)
         /\ \A i \in K : Nth(K, Rank(K, i)) = i
  <1> DEFINE R == [i \in K |-> Rank(K, i)]
             C == Cardinality(K)
  <1>1. IsFiniteSet(K) /\ C \in Nat
    BY PositionsFinite
  <1>2. /\ \A i \in K : Rank(K, i) \in 1..C
        /\ \A i, j \in K : i < j => Rank(K, i) < Rank(K, j)
    BY RankIncreases
  <1>3. \A i, j \in K : Rank(K, i) = Rank(K, j) => i = j
    <2> SUFFICES ASSUME NEW i \in K, NEW j \in K, Rank(K, i) = Rank(K, j), i # j
                 PROVE  FALSE
      OBVIOUS
    <2>1. i < j \/ j < i
      OBVIOUS
    <2>2. Rank(K, i) \in Nat /\ Rank(K, j) \in Nat
      BY <1>1, <1>2
    <2>3. QED
      BY <1>2, <2>1, <2>2
  <1>4. R \in Injection(K, 1..C)
    BY <1>2, <1>3 DEF Injection, IsInjective
  <1>5. IsFiniteSet(1..C) /\ Cardinality(1..C) = C
    BY <1>1, FS_Interval
  <1>6. R \in Surjection(K, 1..C)
    BY <1>4, <1>5, FS_Injection
  <1>7. \A k \in 1..C : \E i \in K : Rank(K, i) = k
    BY <1>6 DEF Surjection
  <1>8. \A k \in 1..C : Nth(K, k) \in K /\ Rank(K, Nth(K, k)) = k
    BY <1>7 DEF Nth
  <1>9. ASSUME NEW k \in 1..C, NEW l \in 1..C, k < l
        PROVE  Nth(K, k) < Nth(K, l)
    <2>1. Nth(K, k) \in K /\ Nth(K, l) \in K
      BY <1>8
    <2>2. Nth(K, k) \in Int /\ Nth(K, l) \in Int
      <3>1. \A x \in K : x \in Int
        OBVIOUS
      <3>2. QED
        BY <2>1, <3>1
    <2>3. Rank(K, Nth(K, k)) = k /\ Rank(K, Nth(K, l)) = l
      BY <1>8
    <2>4. CASE Nth(K, k) = Nth(K, l)
      BY <1>9, <2>3, <2>4
    <2>5. CASE Nth(K, l) < Nth(K, k)
      <3>1. Rank(K, Nth(K, l)) < Rank(K, Nth(K, k))
        BY <1>2, <2>1, <2>5
      <3>2. QED
        BY <1>9, <2>3, <3>1
    <2>6. QED
      BY <2>2, <2>4, <2>5
  <1>10. \A i \in K : Nth(K, Rank(K, i)) = i
    BY <1>2, <1>3, <1>8
  <1>11. QED
    BY <1>8, <1>9, <1>10

(* KeepAt yields a sequence of the same elements, no longer than before,    *)
(* and each of its elements is found at a kept position.                    *)
LEMMA KeepAtSubsequence ==
  ASSUME NEW S, NEW s \in Seq(S), NEW K \in SUBSET (DOMAIN s)
  PROVE  /\ KeepAt(s, K) \in Seq(S)
         /\ Len(KeepAt(s, K)) = Cardinality(K)
         /\ Len(KeepAt(s, K)) <= Len(s)
         /\ DOMAIN KeepAt(s, K) = 1..Cardinality(K)
         /\ \A k \in 1..Cardinality(K) :
              Nth(K, k) \in K /\ KeepAt(s, K)[k] = s[Nth(K, k)]
         /\ \A k, l \in 1..Cardinality(K) : k < l => Nth(K, k) < Nth(K, l)
         /\ \A i \in K : Rank(K, i) \in 1..Cardinality(K)
                         /\ KeepAt(s, K)[Rank(K, i)] = s[i]
  <1>1. Len(s) \in Nat /\ DOMAIN s = 1..Len(s) /\ \A i \in 1..Len(s) : s[i] \in S
    BY LenProperties, ElementOfSeq
  <1>2. K \in SUBSET (1..Len(s))
    BY <1>1
  <1>3. Cardinality(K) \in Nat /\ Cardinality(K) <= Len(s)
    BY <1>1, <1>2, PositionsFinite
  <1>4. /\ \A k \in 1..Cardinality(K) : Nth(K, k) \in K
        /\ \A k, l \in 1..Cardinality(K) : k < l => Nth(K, k) < Nth(K, l)
        /\ \A i \in K : Nth(K, Rank(K, i)) = i
    BY <1>1, <1>2, NthEnumerates
  <1>5. \A i \in K : Rank(K, i) \in 1..Cardinality(K)
    BY <1>1, <1>2, RankIncreases
  <1>6. KeepAt(s, K) \in [1..Cardinality(K) -> S]
    BY <1>1, <1>2, <1>4 DEF KeepAt
  <1>7. KeepAt(s, K) \in Seq(S)
    BY <1>3, <1>6, SeqDef
  <1>8. DOMAIN KeepAt(s, K) = 1..Cardinality(K)
    BY DEF KeepAt
  <1>9. Len(KeepAt(s, K)) = Cardinality(K)
    BY <1>3, <1>7, <1>8, LenProperties
  <1>10. \A k \in 1..Cardinality(K) : KeepAt(s, K)[k] = s[Nth(K, k)]
    BY DEF KeepAt
  <1>11. QED
    BY <1>3, <1>4, <1>5, <1>7, <1>8, <1>9, <1>10

-----------------------------------------------------------------------------
(* Inbox values whose lanes hold items of S. *)
InboxSet(S) ==
  [sys : Seq(S), up : Seq(S), down : Seq(S),
   audioN : Nat, closed : BOOLEAN, hiWater : Nat, audioDrop : Nat]

LEMMA LaneNamesThree == \A q : Lane(q) \in {"sys", "up", "down"}
  BY DEF Lane

(* The positions of audio frames and of the frames a push sheds, and how    *)
(* many they are: no more are shed than the counter is over AudioMax - 1.   *)
LEMMA ShedCount ==
  ASSUME NEW S, NEW in \in InboxSet(S)
  PROVE  /\ AudioAt(in.sys) \in SUBSET (1..Len(in.sys)) /\ Len(in.sys) \in Nat
         /\ ShedAt(in) \subseteq AudioAt(in.sys)
         /\ IsFiniteSet(AudioAt(in.sys)) /\ Cardinality(AudioAt(in.sys)) \in Nat
         /\ IsFiniteSet(ShedAt(in)) /\ Cardinality(ShedAt(in)) \in Nat
         /\ in.audioN < AudioMax => ShedAt(in) = {} /\ Cardinality(ShedAt(in)) = 0
         /\ in.audioN >= AudioMax => Cardinality(ShedAt(in)) <= in.audioN - AudioMax + 1
         /\ (in.audioN = AudioMax /\ Cardinality(AudioAt(in.sys)) = AudioMax)
               => Cardinality(ShedAt(in)) = 1
  <1> DEFINE A == AudioAt(in.sys)
             m == in.audioN - AudioMax + 1
  <1>1. /\ Len(in.sys) \in Nat /\ DOMAIN in.sys = 1..Len(in.sys)
        /\ in.audioN \in Nat /\ AudioMax \in Nat /\ AudioMax >= 1
    BY LenProperties, BoundsAssumption DEF InboxSet
  <1>2. A \in SUBSET (1..Len(in.sys)) /\ ShedAt(in) \in SUBSET A
    BY <1>1 DEF AudioAt, ShedAt
  <1>3. IsFiniteSet(A) /\ Cardinality(A) \in Nat
    BY <1>1, <1>2, PositionsFinite
  <1>4. IsFiniteSet(ShedAt(in)) /\ Cardinality(ShedAt(in)) \in Nat
    BY <1>2, <1>3, FS_Subset, FS_CardinalityType
  <1>5. /\ \A i \in A : Rank(A, i) \in 1..Cardinality(A)
        /\ \A i, j \in A : i < j => Rank(A, i) < Rank(A, j)
    BY <1>1, <1>2, RankIncreases
  <1>6. ASSUME in.audioN < AudioMax
        PROVE  ShedAt(in) = {}
    <2>1. m \in Int /\ m <= 0
      BY <1>1, <1>6
    <2>2. \A i \in A : ~(Rank(A, i) <= m)
      BY <1>3, <1>5, <2>1
    <2>3. QED
      BY <2>2 DEF ShedAt
  <1>7. ASSUME in.audioN >= AudioMax
        PROVE  Cardinality(ShedAt(in)) <= m
    <2> DEFINE R == [i \in ShedAt(in) |-> Rank(A, i)]
    <2>1. m \in Nat
      BY <1>1, <1>7
    <2>2. \A i \in ShedAt(in) : i \in A /\ Rank(A, i) \in 1..m
      BY <1>3, <1>5, <2>1 DEF ShedAt
    <2>3. ASSUME NEW i \in ShedAt(in), NEW j \in ShedAt(in), Rank(A, i) = Rank(A, j)
          PROVE  i = j
      <3>1. i \in A /\ j \in A /\ i \in Int /\ j \in Int
        BY <1>2
      <3>2. Rank(A, i) \in Int /\ Rank(A, j) \in Int
        BY <2>2
      <3>3. ~(i < j) /\ ~(j < i)
        BY <1>5, <2>3, <3>1, <3>2
      <3>4. QED
        BY <3>1, <3>3
    <2>4. R \in Injection(ShedAt(in), 1..m)
      BY <2>2, <2>3 DEF Injection, IsInjective
    <2>5. IsFiniteSet(1..m) /\ Cardinality(1..m) = m
      BY <2>1, FS_Interval
    <2>6. QED
      BY <2>4, <2>5, FS_Injection
  <1>8. ASSUME in.audioN = AudioMax, Cardinality(A) = AudioMax
        PROVE  Cardinality(ShedAt(in)) = 1
    <2>1. Nth(A, 1) \in A /\ Rank(A, Nth(A, 1)) = 1
      <3>1. 1 \in 1..Cardinality(A)
        BY <1>1, <1>8
      <3>2. QED
        BY <1>1, <1>2, <3>1, NthEnumerates
    <2>2. m = 1
      BY <1>1, <1>8
    <2>3. Nth(A, 1) \in ShedAt(in)
      BY <2>1, <2>2 DEF ShedAt
    <2>4. Cardinality(ShedAt(in)) # 0
      BY <1>4, <2>3, FS_EmptySet
    <2>5. Cardinality(ShedAt(in)) <= 1
      BY <1>1, <1>7, <1>8, <2>2
    <2>6. QED
      BY <1>4, <2>4, <2>5
  <1>9. Cardinality({}) = 0
    BY FS_EmptySet
  <1>10. QED
    BY <1>1, <1>2, <1>3, <1>4, <1>6, <1>7, <1>8, <1>9

(* Shedding keeps an inbox value one and touches the system lane only. *)
LEMMA ShedType ==
  ASSUME NEW S, NEW in \in InboxSet(S)
  PROVE  /\ Shed(in) \in InboxSet(S)
         /\ Shed(in).up = in.up /\ Shed(in).down = in.down
         /\ Shed(in).closed = in.closed /\ Shed(in).hiWater = in.hiWater
         /\ Shed(in).sys = KeepAt(in.sys, DOMAIN in.sys \ ShedAt(in))
         /\ Shed(in).audioN = in.audioN - Cardinality(ShedAt(in))
  <1>1. in.sys \in Seq(S) /\ in.audioN \in Nat /\ in.audioDrop \in Nat
    BY DEF InboxSet
  <1>2. KeepAt(in.sys, DOMAIN in.sys \ ShedAt(in)) \in Seq(S)
    BY <1>1, KeepAtSubsequence
  <1>3. /\ Cardinality(ShedAt(in)) \in Nat
        /\ Cardinality(ShedAt(in)) <= in.audioN
    <2>1. AudioMax \in Nat /\ AudioMax >= 1
      BY BoundsAssumption
    <2>2. QED
      BY <1>1, <2>1, ShedCount
  <1>4. /\ in.audioN - Cardinality(ShedAt(in)) \in Nat
        /\ in.audioDrop + Cardinality(ShedAt(in)) \in Nat
    BY <1>1, <1>3
  <1>5. QED
    BY <1>2, <1>4 DEF Shed, InboxSet

(* A push keeps an inbox value one. *)
LEMMA EnqueueType ==
  ASSUME NEW S, NEW in \in InboxSet(S), NEW q \in S
  PROVE  Enqueue(in, q) \in InboxSet(S)
  <1>1. CASE Lane(q) = "sys" /\ IsAudio(q)
    <2>1. Append(Shed(in).sys, q) \in Seq(S) /\ Shed(in).audioN + 1 \in Nat
      <3>1. Shed(in) \in InboxSet(S)
        BY ShedType
      <3>2. Shed(in).sys \in Seq(S) /\ Shed(in).audioN \in Nat
        BY <3>1 DEF InboxSet
      <3>3. QED
        BY <3>2, AppendProperties
    <2>2. QED
      BY <1>1, <2>1, ShedType DEF Enqueue, InboxSet
  <1>2. CASE Lane(q) = "sys" /\ ~IsAudio(q)
    <2>1. Append(in.sys, q) \in Seq(S)
      BY AppendProperties DEF InboxSet
    <2>2. QED
      BY <1>2, <2>1 DEF Enqueue, InboxSet
  <1>3. CASE Lane(q) = "up"
    <2>1. Append(in.up, q) \in Seq(S)
      BY AppendProperties DEF InboxSet
    <2>2. QED
      BY <1>3, <2>1 DEF Enqueue, InboxSet
  <1>4. CASE Lane(q) = "down"
    <2>1. Append(in.down, q) \in Seq(S) /\ Len(in.down) + 1 \in Nat
      BY AppendProperties, LenProperties DEF InboxSet
    <2>2. QED
      BY <1>4, <2>1 DEF Enqueue, InboxSet
  <1>5. QED
    BY <1>1, <1>2, <1>3, <1>4, LaneNamesThree

(* A pop from an inbox that is not empty yields one of its items. *)
LEMMA PopFrontType ==
  ASSUME NEW S, NEW in \in InboxSet(S), ~IsEmpty(in)
  PROVE  /\ Front(in) \in S
         /\ PopFront(in) \in InboxSet(S)
  <1>1. CASE NextLane(in) = "sys"
    <2>1. in.sys # <<>> /\ in.sys \in Seq(S)
      BY <1>1 DEF NextLane, InboxSet
    <2>2. Head(in.sys) \in S /\ Tail(in.sys) \in Seq(S)
      BY <2>1, HeadTailProperties
    <2>3. (IF IsAudio(Head(in.sys)) /\ in.audioN > 0 THEN in.audioN - 1 ELSE in.audioN) \in Nat
      BY DEF InboxSet
    <2>4. QED
      BY <1>1, <2>2, <2>3 DEF Front, PopFront, InboxSet
  <1>2. CASE NextLane(in) = "up"
    <2>1. in.up # <<>> /\ in.up \in Seq(S)
      BY <1>2 DEF NextLane, InboxSet
    <2>2. Head(in.up) \in S /\ Tail(in.up) \in Seq(S)
      BY <2>1, HeadTailProperties
    <2>3. QED
      BY <1>2, <2>2 DEF Front, PopFront, InboxSet
  <1>3. CASE NextLane(in) = "down"
    <2>1. in.down # <<>> /\ in.down \in Seq(S)
      BY <1>3 DEF NextLane, InboxSet, IsEmpty
    <2>2. Head(in.down) \in S /\ Tail(in.down) \in Seq(S)
      BY <2>1, HeadTailProperties
    <2>3. QED
      BY <1>3, <2>2 DEF Front, PopFront, InboxSet
  <1>4. QED
    BY <1>1, <1>2, <1>3 DEF NextLane

(* A drain keeps an inbox value one and makes no lane longer. *)
LEMMA DrainType ==
  ASSUME NEW S, NEW in \in InboxSet(S)
  PROVE  /\ DrainInterruptible(in) \in InboxSet(S)
         /\ Len(DrainInterruptible(in).down) <= Len(in.down)
  <1>1. in.up \in Seq(S) /\ in.down \in Seq(S)
    BY DEF InboxSet
  <1>2. KeptAt(in.up) \in SUBSET (DOMAIN in.up) /\ KeptAt(in.down) \in SUBSET (DOMAIN in.down)
    BY DEF KeptAt
  <1>3. /\ KeepAt(in.up, KeptAt(in.up)) \in Seq(S)
        /\ KeepAt(in.down, KeptAt(in.down)) \in Seq(S)
        /\ Len(KeepAt(in.down, KeptAt(in.down))) <= Len(in.down)
    BY <1>1, <1>2, KeepAtSubsequence
  <1>4. QED
    BY <1>3 DEF DrainInterruptible, InboxSet

-----------------------------------------------------------------------------
(* How many items of a set a lane holds after a push, a pop, and when some  *)
(* of its positions are left out.                                           *)
MarksAt(s, M) == {i \in DOMAIN s : s[i] \in M}

LEMMA MarksAfterAppend ==
  ASSUME NEW S, NEW s \in Seq(S), NEW q \in S, NEW M
  PROVE  /\ Cardinality(MarksAt(s, M)) \in Nat
         /\ Cardinality(MarksAt(Append(s, q), M)) =
              Cardinality(MarksAt(s, M)) + (IF q \in M THEN 1 ELSE 0)
  <1>1. /\ Len(s) \in Nat /\ DOMAIN s = 1..Len(s)
        /\ DOMAIN Append(s, q) = 1..(Len(s) + 1)
        /\ \A i \in 1..Len(s) : Append(s, q)[i] = s[i]
        /\ Append(s, q)[Len(s) + 1] = q
    <2>1. Append(s, q) \in Seq(S) /\ Len(Append(s, q)) = Len(s) + 1
      BY AppendProperties
    <2>2. QED
      BY <2>1, LenProperties, AppendProperties
  <1>2. MarksAt(s, M) \in SUBSET (1..Len(s))
    BY <1>1 DEF MarksAt
  <1>3. IsFiniteSet(MarksAt(s, M)) /\ Cardinality(MarksAt(s, M)) \in Nat
    BY <1>1, <1>2, PositionsFinite
  <1>4. MarksAt(Append(s, q), M) =
          IF q \in M THEN MarksAt(s, M) \cup {Len(s) + 1} ELSE MarksAt(s, M)
    <2>1. MarksAt(Append(s, q), M) = {i \in 1..(Len(s) + 1) : Append(s, q)[i] \in M}
      BY <1>1 DEF MarksAt
    <2>2. MarksAt(s, M) = {i \in 1..Len(s) : s[i] \in M}
      BY <1>1 DEF MarksAt
    <2>3. 1..(Len(s) + 1) = (1..Len(s)) \cup {Len(s) + 1}
      BY <1>1
    <2>4. QED
      BY <1>1, <2>1, <2>2, <2>3
  <1>5. Len(s) + 1 \notin MarksAt(s, M)
    BY <1>1, <1>2
  <1>6. Cardinality(MarksAt(s, M) \cup {Len(s) + 1}) = Cardinality(MarksAt(s, M)) + 1
    BY <1>3, <1>5, FS_AddElement
  <1>7. QED
    BY <1>3, <1>4, <1>6

LEMMA MarksAfterTail ==
  ASSUME NEW S, NEW s \in Seq(S), NEW M, s # <<>>
  PROVE  /\ Cardinality(MarksAt(s, M)) \in Nat
         /\ Cardinality(MarksAt(Tail(s), M)) \in Nat
         /\ Cardinality(MarksAt(s, M)) =
              Cardinality(MarksAt(Tail(s), M)) + (IF Head(s) \in M THEN 1 ELSE 0)
  <1> DEFINE T == MarksAt(Tail(s), M)
             U == MarksAt(s, M) \ {1}
             f == [i \in T |-> i + 1]
  <1>1. /\ Len(s) \in Nat /\ Len(s) >= 1 /\ DOMAIN s = 1..Len(s)
        /\ DOMAIN Tail(s) = 1..(Len(s) - 1)
        /\ \A i \in 1..(Len(s) - 1) : Tail(s)[i] = s[i + 1]
        /\ Head(s) = s[1]
    <2>1. Len(s) \in Nat \ {0} /\ DOMAIN s = 1..Len(s)
      BY EmptySeq, LenProperties
    <2>2. Tail(s) \in Seq(S) /\ Len(Tail(s)) = Len(s) - 1
      BY HeadTailProperties
    <2>3. DOMAIN Tail(s) = 1..(Len(s) - 1)
      BY <2>2, LenProperties
    <2>4. \A i \in 1..(Len(s) - 1) : Tail(s)[i] = s[i + 1]
      BY <2>2, HeadTailProperties
    <2>5. QED
      BY <2>1, <2>3, <2>4
  <1>2. T \in SUBSET (1..(Len(s) - 1)) /\ MarksAt(s, M) \in SUBSET (1..Len(s))
    BY <1>1 DEF MarksAt
  <1>3. /\ IsFiniteSet(T) /\ Cardinality(T) \in Nat
        /\ IsFiniteSet(MarksAt(s, M)) /\ Cardinality(MarksAt(s, M)) \in Nat
    BY <1>1, <1>2, PositionsFinite
  <1>4. \A i \in T : i + 1 \in U
    BY <1>1 DEF MarksAt
  <1>5. \A j \in U : j - 1 \in T /\ (j - 1) + 1 = j
    BY <1>1 DEF MarksAt
  <1>6. f \in Bijection(T, U)
    <2>1. f \in [T -> U]
      BY <1>4
    <2>2. \A i, j \in T : f[i] = f[j] => i = j
      BY <1>2
    <2>3. \A j \in U : \E i \in T : f[i] = j
      BY <1>5
    <2>4. QED
      BY <2>1, <2>2, <2>3 DEF Bijection, Injection, Surjection, IsInjective
  <1>7. IsFiniteSet(U) /\ Cardinality(U) = Cardinality(T)
    BY <1>3, <1>6, FS_Bijection DEF ExistsBijection
  <1>8. 1 \in MarksAt(s, M) <=> Head(s) \in M
    BY <1>1 DEF MarksAt
  <1>9. Cardinality(U) = IF 1 \in MarksAt(s, M) THEN Cardinality(MarksAt(s, M)) - 1
                         ELSE Cardinality(MarksAt(s, M))
    BY <1>3, FS_RemoveElement
  <1>10. QED
    BY <1>3, <1>7, <1>8, <1>9

LEMMA MarksAfterConcat ==
  ASSUME NEW S, NEW s \in Seq(S), NEW t \in Seq(S), NEW M
  PROVE  /\ Cardinality(MarksAt(s, M)) \in Nat /\ Cardinality(MarksAt(t, M)) \in Nat
         /\ Cardinality(MarksAt(s \o t, M)) =
              Cardinality(MarksAt(s, M)) + Cardinality(MarksAt(t, M))
  <1> DEFINE A == MarksAt(s, M)
             T == MarksAt(t, M)
             U == {i \in MarksAt(s \o t, M) : i > Len(s)}
             f == [i \in T |-> Len(s) + i]
  <1>1. /\ Len(s) \in Nat /\ DOMAIN s = 1..Len(s)
        /\ Len(t) \in Nat /\ DOMAIN t = 1..Len(t)
        /\ DOMAIN (s \o t) = 1..(Len(s) + Len(t))
        /\ \A i \in 1..(Len(s) + Len(t)) :
             (s \o t)[i] = IF i <= Len(s) THEN s[i] ELSE t[i - Len(s)]
    <2>1. s \o t \in Seq(S) /\ Len(s \o t) = Len(s) + Len(t)
      BY ConcatProperties
    <2>2. QED
      BY <2>1, ConcatProperties, LenProperties
  <1>2. A \in SUBSET (1..Len(s)) /\ T \in SUBSET (1..Len(t))
    BY <1>1 DEF MarksAt
  <1>3. /\ IsFiniteSet(A) /\ Cardinality(A) \in Nat
        /\ IsFiniteSet(T) /\ Cardinality(T) \in Nat
    BY <1>1, <1>2, PositionsFinite
  <1>4. \A i \in T : Len(s) + i \in U
    BY <1>1 DEF MarksAt
  <1>5. \A j \in U : j - Len(s) \in T /\ Len(s) + (j - Len(s)) = j
    BY <1>1 DEF MarksAt
  <1>6. f \in Bijection(T, U)
    <2>1. f \in [T -> U]
      BY <1>4
    <2>2. \A i, j \in T : f[i] = f[j] => i = j
      BY <1>1, <1>2
    <2>3. \A j \in U : \E i \in T : f[i] = j
      BY <1>5
    <2>4. QED
      BY <2>1, <2>2, <2>3 DEF Bijection, Injection, Surjection, IsInjective
  <1>7. IsFiniteSet(U) /\ Cardinality(U) = Cardinality(T)
    BY <1>3, <1>6, FS_Bijection DEF ExistsBijection
  <1>8. MarksAt(s \o t, M) = A \cup U /\ A \cap U = {}
    <2>1. \A i \in A : i \in MarksAt(s \o t, M) /\ ~(i > Len(s))
      BY <1>1 DEF MarksAt
    <2>2. \A i \in MarksAt(s \o t, M) : i \in A \/ i > Len(s)
      BY <1>1 DEF MarksAt
    <2>3. QED
      BY <2>1, <2>2
  <1> HIDE DEF A, T, U, f
  <1>9. Cardinality(A \cup U) = Cardinality(A) + Cardinality(U) - Cardinality(A \cap U)
    BY <1>3, <1>7, FS_Union
  <1>10. Cardinality(A \cap U) = 0
    BY <1>8, FS_EmptySet
  <1>11. Cardinality(MarksAt(s \o t, M)) = Cardinality(A) + Cardinality(T)
    <2>1. Cardinality(A \cup U) = Cardinality(A) + Cardinality(T)
      BY <1>3, <1>7, <1>9, <1>10
    <2>2. QED
      BY <1>8, <2>1, Zenon
  <1>12. QED
    BY <1>3, <1>11, Zenon DEF A, T

LEMMA MarksAfterKeep ==
  ASSUME NEW S, NEW s \in Seq(S), NEW M, NEW K \in SUBSET (DOMAIN s)
  PROVE  /\ IsFiniteSet(MarksAt(s, M)) /\ Cardinality(MarksAt(s, M)) \in Nat
         /\ Cardinality(MarksAt(KeepAt(s, K), M)) = Cardinality(MarksAt(s, M) \cap K)
  <1> DEFINE A == MarksAt(s, M) \cap K
             B == MarksAt(KeepAt(s, K), M)
             f == [i \in A |-> Rank(K, i)]
  <1>1. Len(s) \in Nat /\ DOMAIN s = 1..Len(s)
    BY LenProperties
  <1>2. /\ K \in SUBSET (1..Len(s)) /\ K \in SUBSET (DOMAIN s)
        /\ MarksAt(s, M) \in SUBSET (1..Len(s)) /\ A \in SUBSET K
    BY <1>1 DEF MarksAt
  <1>3. IsFiniteSet(MarksAt(s, M)) /\ Cardinality(MarksAt(s, M)) \in Nat
    BY <1>1, <1>2, PositionsFinite
  <1>4. IsFiniteSet(A)
    BY <1>3, FS_Subset
  <1>5. /\ DOMAIN KeepAt(s, K) = 1..Cardinality(K)
        /\ \A k \in 1..Cardinality(K) : Nth(K, k) \in K /\ KeepAt(s, K)[k] = s[Nth(K, k)]
        /\ \A i \in K : Rank(K, i) \in 1..Cardinality(K) /\ KeepAt(s, K)[Rank(K, i)] = s[i]
    BY KeepAtSubsequence
  <1>6. /\ \A k \in 1..Cardinality(K) : Rank(K, Nth(K, k)) = k
        /\ \A i \in K : Nth(K, Rank(K, i)) = i
    BY <1>1, <1>2, NthEnumerates
  <1>7. \A i \in A : Rank(K, i) \in B
    BY <1>2, <1>5 DEF MarksAt
  <1>8. \A k \in B : Nth(K, k) \in A /\ Rank(K, Nth(K, k)) = k
    BY <1>2, <1>5, <1>6 DEF MarksAt
  <1>9. f \in Bijection(A, B)
    <2>1. f \in [A -> B]
      BY <1>7
    <2>2. \A i, j \in A : f[i] = f[j] => i = j
      BY <1>2, <1>6
    <2>3. \A k \in B : \E i \in A : f[i] = k
      BY <1>8
    <2>4. QED
      BY <2>1, <2>2, <2>3 DEF Bijection, Injection, Surjection, IsInjective
  <1>10. Cardinality(B) = Cardinality(A)
    BY <1>4, <1>9, FS_Bijection DEF ExistsBijection
  <1>11. QED
    BY <1>3, <1>10

(* The same for the frames of one kind, and for audio frames.               *)
KindAt(s, kind) == {i \in DOMAIN s : s[i].kind = kind}

LEMMA KindMarks ==
  ASSUME NEW S, NEW s \in Seq(S), NEW kind
  PROVE  KindAt(s, kind) = MarksAt(s, {q \in S : q.kind = kind})
  <1>1. \A i \in DOMAIN s : s[i] \in S
    BY LenProperties, ElementOfSeq
  <1>2. QED
    BY <1>1 DEF KindAt, MarksAt

LEMMA KindAfterAppend ==
  ASSUME NEW S, NEW s \in Seq(S), NEW q \in S, NEW kind
  PROVE  /\ Cardinality(KindAt(s, kind)) \in Nat
         /\ Cardinality(KindAt(Append(s, q), kind)) =
              Cardinality(KindAt(s, kind)) + (IF q.kind = kind THEN 1 ELSE 0)
  <1> DEFINE M == {x \in S : x.kind = kind}
  <1>1. Append(s, q) \in Seq(S)
    BY AppendProperties
  <1>2. KindAt(s, kind) = MarksAt(s, M) /\ KindAt(Append(s, q), kind) = MarksAt(Append(s, q), M)
    BY <1>1, KindMarks
  <1>3. q \in M <=> q.kind = kind
    OBVIOUS
  <1> HIDE DEF M
  <1>4. QED
    BY <1>2, <1>3, MarksAfterAppend

LEMMA KindAfterTail ==
  ASSUME NEW S, NEW s \in Seq(S), NEW kind, s # <<>>
  PROVE  /\ Cardinality(KindAt(s, kind)) \in Nat
         /\ Cardinality(KindAt(Tail(s), kind)) \in Nat
         /\ Cardinality(KindAt(s, kind)) =
              Cardinality(KindAt(Tail(s), kind)) + (IF Head(s).kind = kind THEN 1 ELSE 0)
  <1> DEFINE M == {x \in S : x.kind = kind}
  <1>1. Tail(s) \in Seq(S) /\ Head(s) \in S
    BY HeadTailProperties
  <1>2. KindAt(s, kind) = MarksAt(s, M) /\ KindAt(Tail(s), kind) = MarksAt(Tail(s), M)
    BY <1>1, KindMarks
  <1>3. Head(s) \in M <=> Head(s).kind = kind
    BY <1>1
  <1> HIDE DEF M
  <1>4. QED
    BY <1>2, <1>3, MarksAfterTail

LEMMA AudioAfterAppend ==
  ASSUME NEW S, NEW s \in Seq(S), NEW q \in S
  PROVE  /\ Cardinality(AudioAt(s)) \in Nat
         /\ Cardinality(AudioAt(Append(s, q))) =
              Cardinality(AudioAt(s)) + (IF IsAudio(q) THEN 1 ELSE 0)
  <1>1. \A t : AudioAt(t) = KindAt(t, "InputAudio")
    BY DEF AudioAt, KindAt, IsAudio
  <1>2. QED
    BY <1>1, KindAfterAppend DEF IsAudio

LEMMA AudioAfterTail ==
  ASSUME NEW S, NEW s \in Seq(S), s # <<>>
  PROVE  /\ Cardinality(AudioAt(s)) \in Nat
         /\ Cardinality(AudioAt(Tail(s))) \in Nat
         /\ Cardinality(AudioAt(s)) =
              Cardinality(AudioAt(Tail(s))) + (IF IsAudio(Head(s)) THEN 1 ELSE 0)
  <1>1. \A t : AudioAt(t) = KindAt(t, "InputAudio")
    BY DEF AudioAt, KindAt, IsAudio
  <1>2. QED
    BY <1>1, KindAfterTail DEF IsAudio

LEMMA AudioAfterShed ==
  ASSUME NEW S, NEW s \in Seq(S), NEW X \in SUBSET AudioAt(s)
  PROVE  Cardinality(AudioAt(KeepAt(s, DOMAIN s \ X))) =
           Cardinality(AudioAt(s)) - Cardinality(X)
  <1> DEFINE M == {q \in S : q.kind = "InputAudio"}
             K == DOMAIN s \ X
  <1>1. K \in SUBSET (DOMAIN s) /\ AudioAt(s) \cap K = AudioAt(s) \ X
    BY DEF AudioAt
  <1> HIDE DEF K
  <1>2. KeepAt(s, K) \in Seq(S)
    BY <1>1, KeepAtSubsequence
  <1>3. \A t : AudioAt(t) = KindAt(t, "InputAudio")
    BY DEF AudioAt, KindAt, IsAudio
  <1>4. AudioAt(s) = MarksAt(s, M) /\ AudioAt(KeepAt(s, K)) = MarksAt(KeepAt(s, K), M)
    BY <1>2, <1>3, KindMarks
  <1> HIDE DEF M
  <1>5. /\ IsFiniteSet(AudioAt(s))
        /\ Cardinality(AudioAt(KeepAt(s, K))) = Cardinality(AudioAt(s) \ X)
    BY <1>1, <1>4, MarksAfterKeep
  <1>6. AudioAt(s) \cap X = X
    OBVIOUS
  <1>7. Cardinality(AudioAt(s) \ X) = Cardinality(AudioAt(s)) - Cardinality(AudioAt(s) \cap X)
    BY <1>5, FS_Difference
  <1>8. QED
    BY <1>5, <1>6, <1>7 DEF K

(* Frames that travel in the system lane and are not audio: a push adds one *)
(* to those in an inbox, a pop takes one out, and neither a shed, a drain   *)
(* nor a close changes how many they are.                                   *)
NoneBesides(in, S, M) == in.up \in Seq(S \ M) /\ in.down \in Seq(S \ M)

LEMMA SystemMarks ==
  ASSUME NEW S, NEW M, \A q \in M : Lane(q) = "sys" /\ ~IsAudio(q),
         NEW in \in InboxSet(S), NoneBesides(in, S, M)
  PROVE  /\ Cardinality(MarksAt(in.sys, M)) \in Nat
         /\ \A q \in S :
              /\ NoneBesides(Enqueue(in, q), S, M)
              /\ Cardinality(MarksAt(Enqueue(in, q).sys, M)) =
                   Cardinality(MarksAt(in.sys, M)) + (IF q \in M THEN 1 ELSE 0)
         /\ ~IsEmpty(in) =>
              /\ NoneBesides(PopFront(in), S, M)
              /\ Cardinality(MarksAt(PopFront(in).sys, M)) \in Nat
              /\ Cardinality(MarksAt(in.sys, M)) =
                   Cardinality(MarksAt(PopFront(in).sys, M)) + (IF Front(in) \in M THEN 1 ELSE 0)
         /\ NoneBesides(DrainInterruptible(in), S, M)
         /\ DrainInterruptible(in).sys = in.sys
         /\ NoneBesides(Closed(in), S, M)
         /\ Closed(in).sys = in.sys
  <1> DEFINE C(s) == Cardinality(MarksAt(s, M))
  <1>1. /\ in.sys \in Seq(S) /\ in.up \in Seq(S) /\ in.down \in Seq(S)
        /\ DrainInterruptible(in).sys = in.sys /\ Closed(in).sys = in.sys
    BY DEF InboxSet, DrainInterruptible, Closed
  <1>2. C(in.sys) \in Nat
    BY <1>1, MarksAfterKeep
  <1>3. ASSUME NEW q \in S
        PROVE  /\ NoneBesides(Enqueue(in, q), S, M)
               /\ C(Enqueue(in, q).sys) = C(in.sys) + (IF q \in M THEN 1 ELSE 0)
    <2>1. CASE Lane(q) = "sys" /\ IsAudio(q)
      <3> DEFINE K == DOMAIN in.sys \ ShedAt(in)
                 s == KeepAt(in.sys, K)
      <3>1. K \in SUBSET (DOMAIN in.sys) /\ MarksAt(in.sys, M) \cap K = MarksAt(in.sys, M)
        BY DEF ShedAt, AudioAt, MarksAt
      <3>2. C(s) = C(in.sys)
        <4> HIDE DEF K
        <4>1. C(s) = Cardinality(MarksAt(in.sys, M) \cap K)
          BY <1>1, <3>1, MarksAfterKeep
        <4>2. QED
          BY <3>1, <4>1
      <3>3. /\ Shed(in) \in InboxSet(S) /\ Shed(in).sys = s
            /\ Shed(in).up = in.up /\ Shed(in).down = in.down
        BY ShedType
      <3>4. /\ Enqueue(in, q).sys = Append(s, q) /\ s \in Seq(S)
            /\ Enqueue(in, q).up = in.up /\ Enqueue(in, q).down = in.down
        BY <2>1, <3>3 DEF Enqueue, InboxSet
      <3> HIDE DEF s
      <3>5. C(Append(s, q)) = C(s) + (IF q \in M THEN 1 ELSE 0)
        BY <3>4, MarksAfterAppend
      <3>6. QED
        BY <3>2, <3>4, <3>5 DEF NoneBesides
    <2>2. CASE Lane(q) = "sys" /\ ~IsAudio(q)
      <3>1. /\ Enqueue(in, q).sys = Append(in.sys, q)
            /\ Enqueue(in, q).up = in.up /\ Enqueue(in, q).down = in.down
        BY <2>2 DEF Enqueue, InboxSet
      <3>2. QED
        BY <1>1, <3>1, MarksAfterAppend DEF NoneBesides
    <2>3. CASE Lane(q) # "sys"
      <3>1. Lane(q) \in {"up", "down"} /\ q \notin M
        BY <2>3, LaneNamesThree
      <3>2. Enqueue(in, q).sys = in.sys /\ NoneBesides(Enqueue(in, q), S, M)
        <4>1. Append(in.up, q) \in Seq(S \ M) /\ Append(in.down, q) \in Seq(S \ M)
          BY <3>1, AppendProperties DEF NoneBesides
        <4>2. CASE Lane(q) = "up"
          BY <4>1, <4>2 DEF Enqueue, InboxSet, NoneBesides
        <4>3. CASE Lane(q) = "down"
          BY <4>1, <4>3 DEF Enqueue, InboxSet, NoneBesides
        <4>4. QED
          BY <3>1, <4>2, <4>3
      <3>3. QED
        BY <1>2, <3>1, <3>2
    <2>4. QED
      BY <2>1, <2>2, <2>3
  <1>4. ASSUME ~IsEmpty(in)
        PROVE  /\ NoneBesides(PopFront(in), S, M)
               /\ C(PopFront(in).sys) \in Nat
               /\ C(in.sys) = C(PopFront(in).sys) + (IF Front(in) \in M THEN 1 ELSE 0)
    <2>1. CASE NextLane(in) = "sys"
      <3>1. /\ in.sys # <<>> /\ PopFront(in).sys = Tail(in.sys)
            /\ PopFront(in).up = in.up /\ PopFront(in).down = in.down
            /\ Front(in) = Head(in.sys)
        BY <2>1 DEF NextLane, PopFront, Front, InboxSet
      <3>2. QED
        BY <1>1, <3>1, MarksAfterTail DEF NoneBesides
    <2>2. CASE NextLane(in) # "sys"
      <3>1. NextLane(in) \in {"up", "down"}
        BY <2>2 DEF NextLane
      <3>2. /\ PopFront(in).sys = in.sys /\ NoneBesides(PopFront(in), S, M)
            /\ Front(in) \in S \ M
        <4>1. CASE NextLane(in) = "up"
          <5>1. in.up # <<>> /\ in.up \in Seq(S \ M)
            BY <4>1 DEF NextLane, NoneBesides
          <5>2. Head(in.up) \in S \ M /\ Tail(in.up) \in Seq(S \ M)
            BY <5>1, HeadTailProperties
          <5>3. QED
            BY <4>1, <5>2 DEF PopFront, Front, InboxSet, NoneBesides
        <4>2. CASE NextLane(in) = "down"
          <5>1. in.down # <<>> /\ in.down \in Seq(S \ M)
            BY <1>4, <4>2 DEF NextLane, NoneBesides, IsEmpty
          <5>2. Head(in.down) \in S \ M /\ Tail(in.down) \in Seq(S \ M)
            BY <5>1, HeadTailProperties
          <5>3. QED
            BY <4>2, <5>2 DEF PopFront, Front, InboxSet, NoneBesides
        <4>3. QED
          BY <3>1, <4>1, <4>2
      <3>3. QED
        BY <1>2, <3>2
    <2>3. QED
      BY <2>1, <2>2
  <1>5. NoneBesides(DrainInterruptible(in), S, M) /\ NoneBesides(Closed(in), S, M)
    <2>1. KeptAt(in.up) \in SUBSET (DOMAIN in.up) /\ KeptAt(in.down) \in SUBSET (DOMAIN in.down)
      BY DEF KeptAt
    <2>2. /\ KeepAt(in.up, KeptAt(in.up)) \in Seq(S \ M)
          /\ KeepAt(in.down, KeptAt(in.down)) \in Seq(S \ M)
      BY <2>1, KeepAtSubsequence DEF NoneBesides
    <2>3. QED
      BY <2>2 DEF DrainInterruptible, Closed, InboxSet, NoneBesides
  <1>6. QED
    BY <1>1, <1>2, <1>3, <1>4, <1>5
-----------------------------------------------------------------------------
(* Induction over a set of numbers: the smallest number that is missing     *)
(* would contradict one of the hypotheses.                                  *)
LEMMA LeastNumber ==
  ASSUME NEW T \in SUBSET Nat, T # {}
  PROVE  \E x \in T : \A y \in T : x <= y
  <1>1. PICK x \in T : \A y \in T : ~(<<y, x>> \in OpToRel(<, Nat))
    BY NatLessThanWellFounded, WFMin
  <1>2. \A y \in T : <<y, x>> \in Nat \X Nat
    OBVIOUS
  <1>3. \A y \in T : ~(y < x)
    BY <1>1, <1>2 DEF OpToRel
  <1>4. QED
    BY <1>3

LEMMA NatSetInduction ==
  ASSUME NEW S, 0 \in S, \A n \in Nat : n \in S => n + 1 \in S
  PROVE  Nat \subseteq S
  <1> DEFINE T == Nat \ S
  <1>1. SUFFICES ASSUME T # {} PROVE FALSE
    OBVIOUS
  <1>2. PICK x \in T : \A y \in T : x <= y
    BY <1>1, LeastNumber
  <1>3. x \in Nat /\ x # 0 /\ x - 1 \in Nat /\ ~(x <= x - 1)
    BY <1>2
  <1>4. x - 1 \in S
    BY <1>2, <1>3
  <1>5. QED
    BY <1>2, <1>3, <1>4

(* The sum of a function's values.  FoldFunction takes its arguments in an  *)
(* order CHOOSE fixes, the same for all functions with one domain; Adder(f) *)
(* is the recursive function it is defined by.                              *)
Total(f) == FoldFunction(LAMBDA x, y : x + y, 0, f)

Some(T) == CHOOSE x \in T : TRUE
Adds(f, h, D) == h = [T \in D |-> IF T = {} THEN 0 ELSE f[Some(T)] + h[T \ {Some(T)}]]
Adder(f) == CHOOSE h : Adds(f, h, SUBSET DOMAIN f)
UpTo(S, k) == {T \in SUBSET S : Cardinality(T) <= k}

(* The recursion has a solution: there is one for the sets of k elements,   *)
(* by induction over k.                                                     *)
LEMMA TotalIs ==
  \A f : Total(f) = Adder(f)[DOMAIN f]
  BY DEF Total, FoldFunction, FoldFunctionOnSet, MapThenFoldSet, Adds, Adder, Some

LEMMA AdderAdds ==
  ASSUME NEW f, IsFiniteSet(DOMAIN f)
  PROVE  Adds(f, Adder(f), SUBSET DOMAIN f)
  <1> DEFINE S == DOMAIN f
             Good == {k \in Nat : \E h : Adds(f, h, UpTo(S, k))}
  <1>1. \A T \in SUBSET S : IsFiniteSet(T) /\ Cardinality(T) \in Nat
    BY FS_Subset, FS_CardinalityType
  <1>2. \A T \in SUBSET S : T # {} => /\ Some(T) \in T /\ T \ {Some(T)} \in SUBSET S
                                    /\ Cardinality(T \ {Some(T)}) = Cardinality(T) - 1
    BY <1>1, FS_RemoveElement DEF Some
  <1>3. 0 \in Good
    <2> DEFINE g == [T \in UpTo(S, 0) |-> 0]
    <2>1. \A T \in UpTo(S, 0) : T = {}
      BY <1>1, FS_EmptySet DEF UpTo
    <2>2. Adds(f, g, UpTo(S, 0))
      BY <2>1 DEF Adds
    <2>3. QED
      BY <2>2
  <1>4. ASSUME NEW k \in Nat, k \in Good
        PROVE  k + 1 \in Good
    <2>1. PICK h : Adds(f, h, UpTo(S, k))
      BY <1>4
    <2> DEFINE g == [T \in UpTo(S, k + 1) |->
                       IF T = {} THEN 0 ELSE f[Some(T)] + h[T \ {Some(T)}]]
    <2>2. \A T \in UpTo(S, k) : T \in UpTo(S, k + 1) /\ g[T] = h[T]
      <3>1. UpTo(S, k) \subseteq UpTo(S, k + 1)
        BY <1>1 DEF UpTo
      <3>2. \A T \in UpTo(S, k) : h[T] = IF T = {} THEN 0 ELSE f[Some(T)] + h[T \ {Some(T)}]
        BY <2>1 DEF Adds
      <3>3. QED
        BY <3>1, <3>2
    <2>3. \A T \in UpTo(S, k + 1) : T # {} => T \ {Some(T)} \in UpTo(S, k)
      BY <1>1, <1>2 DEF UpTo
    <2>4. Adds(f, g, UpTo(S, k + 1))
      BY <2>2, <2>3 DEF Adds
    <2>5. QED
      BY <2>4
  <1>5. Cardinality(S) \in Good
    <2> HIDE DEF Good
    <2>1. Nat \subseteq Good
      BY <1>3, <1>4, NatSetInduction
    <2>2. QED
      BY <1>1, <2>1
  <1>6. UpTo(S, Cardinality(S)) = SUBSET S
    BY <1>1, FS_Subset DEF UpTo
  <1>7. PICK h : Adds(f, h, SUBSET S)
    BY <1>5, <1>6
  <1>8. QED
    BY <1>7 DEF Adder

LEMMA AdderStep ==
  ASSUME NEW S, IsFiniteSet(S), NEW f \in [S -> Nat], NEW T \in SUBSET S
  PROVE  Adder(f)[T] = IF T = {} THEN 0 ELSE f[Some(T)] + Adder(f)[T \ {Some(T)}]
  <1>1. DOMAIN f = S
    OBVIOUS
  <1>2. Adds(f, Adder(f), SUBSET S)
    BY <1>1, AdderAdds
  <1>3. QED
    BY <1>2 DEF Adds

(* The total of a function that is changed at one place. *)
LEMMA TotalChange ==
  ASSUME NEW S, IsFiniteSet(S), NEW f \in [S -> Nat], NEW g \in [S -> Nat], NEW x \in S,
         \A y \in S \ {x} : g[y] = f[y]
  PROVE  /\ Total(f) \in Nat
         /\ Total(g) \in Nat
         /\ Total(g) + f[x] = Total(f) + g[x]
  <1> DEFINE a == Adder(f)
             b == Adder(g)
             Good == {k \in Nat : \A T \in UpTo(S, k) :
                        /\ a[T] \in Nat /\ b[T] \in Nat
                        /\ b[T] + (IF x \in T THEN f[x] ELSE 0)
                             = a[T] + (IF x \in T THEN g[x] ELSE 0)}
  <1>1. \A T \in SUBSET S : IsFiniteSet(T) /\ Cardinality(T) \in Nat
    BY FS_Subset, FS_CardinalityType
  <1>2. \A T \in SUBSET S : T # {} => /\ Some(T) \in T /\ T \ {Some(T)} \in SUBSET S
                                    /\ Cardinality(T \ {Some(T)}) = Cardinality(T) - 1
    BY <1>1, FS_RemoveElement DEF Some
  <1>3. \A T \in SUBSET S :
          /\ a[T] = IF T = {} THEN 0 ELSE f[Some(T)] + a[T \ {Some(T)}]
          /\ b[T] = IF T = {} THEN 0 ELSE g[Some(T)] + b[T \ {Some(T)}]
    <2>1. \A T \in SUBSET S : a[T] = IF T = {} THEN 0 ELSE f[Some(T)] + a[T \ {Some(T)}]
      BY AdderStep
    <2>2. \A T \in SUBSET S : b[T] = IF T = {} THEN 0 ELSE g[Some(T)] + b[T \ {Some(T)}]
      BY AdderStep
    <2>3. QED
      BY <2>1, <2>2
  <1>4. \A y \in S : f[y] \in Nat /\ g[y] \in Nat
    OBVIOUS
  <1> HIDE DEF a, b
  <1>5. 0 \in Good
    <2>1. \A T \in UpTo(S, 0) : T = {} /\ T \in SUBSET S
      BY <1>1, FS_EmptySet DEF UpTo
    <2>2. a[{}] = 0 /\ b[{}] = 0
      BY <1>3
    <2>3. ASSUME NEW T \in UpTo(S, 0)
          PROVE  /\ a[T] \in Nat /\ b[T] \in Nat
                 /\ b[T] + (IF x \in T THEN f[x] ELSE 0)
                      = a[T] + (IF x \in T THEN g[x] ELSE 0)
      <3>1. T = {} /\ x \notin T
        BY <2>1
      <3>2. QED
        BY <2>2, <3>1
    <2>4. QED
      BY <2>3
  <1>6. ASSUME NEW k \in Nat, k \in Good
        PROVE  k + 1 \in Good
    <2> SUFFICES ASSUME NEW T \in UpTo(S, k + 1)
                 PROVE  /\ a[T] \in Nat /\ b[T] \in Nat
                        /\ b[T] + (IF x \in T THEN f[x] ELSE 0)
                             = a[T] + (IF x \in T THEN g[x] ELSE 0)
      OBVIOUS
    <2>1. CASE T = {}
      <3>1. a[{}] = 0 /\ b[{}] = 0
        BY <1>3
      <3>2. QED
        BY <2>1, <3>1
    <2>2. CASE T # {}
      <3> DEFINE y == Some(T)
                 R == T \ {y}
      <3>1. T \in SUBSET S /\ Cardinality(T) <= k + 1 /\ Cardinality(T) \in Nat
        BY <1>1 DEF UpTo
      <3>2. y \in T /\ R \in SUBSET S /\ Cardinality(R) = Cardinality(T) - 1
        BY <1>2, <2>2, <3>1
      <3>3. R \in UpTo(S, k)
        BY <3>1, <3>2 DEF UpTo
      <3>4. /\ a[R] \in Nat /\ b[R] \in Nat
            /\ b[R] + (IF x \in R THEN f[x] ELSE 0) = a[R] + (IF x \in R THEN g[x] ELSE 0)
        BY <1>6, <3>3
      <3>5. a[T] = f[y] + a[R] /\ b[T] = g[y] + b[R]
        BY <1>3, <2>2, <3>1
      <3>6. f[y] \in Nat /\ g[y] \in Nat /\ f[x] \in Nat /\ g[x] \in Nat
        BY <1>4, <3>1, <3>2
      <3>7. /\ y = x => x \in T /\ x \notin R
            /\ y # x => (x \in T <=> x \in R) /\ g[y] = f[y]
        BY <3>1, <3>2
      <3> HIDE DEF y, R
      <3>8. CASE y = x
        BY <3>4, <3>5, <3>6, <3>7, <3>8
      <3>9. CASE y # x
        BY <3>4, <3>5, <3>6, <3>7, <3>9
      <3>10. QED
        BY <3>8, <3>9
    <2>3. QED
      BY <2>1, <2>2
  <1>7. Cardinality(S) \in Good
    <2> HIDE DEF Good
    <2>1. Nat \subseteq Good
      BY <1>5, <1>6, NatSetInduction
    <2>2. QED
      BY <1>1, <2>1
  <1>8. S \in UpTo(S, Cardinality(S))
    BY <1>1 DEF UpTo
  <1>9. Total(f) = a[S] /\ Total(g) = b[S]
    BY TotalIs DEF a, b
  <1>10. QED
    BY <1>7, <1>8, <1>9

(* The total of zeros. *)
LEMMA TotalOfZeros ==
  ASSUME NEW S, IsFiniteSet(S), NEW f \in [S -> Nat], \A y \in S : f[y] = 0
  PROVE  Total(f) = 0
  <1> DEFINE a == Adder(f)
             Good == {k \in Nat : \A T \in UpTo(S, k) : a[T] = 0}
  <1>1. \A T \in SUBSET S : IsFiniteSet(T) /\ Cardinality(T) \in Nat
    BY FS_Subset, FS_CardinalityType
  <1>2. \A T \in SUBSET S : T # {} => /\ Some(T) \in T /\ T \ {Some(T)} \in SUBSET S
                                    /\ Cardinality(T \ {Some(T)}) = Cardinality(T) - 1
    BY <1>1, FS_RemoveElement DEF Some
  <1>3. \A T \in SUBSET S : a[T] = IF T = {} THEN 0 ELSE f[Some(T)] + a[T \ {Some(T)}]
    BY AdderStep
  <1> HIDE DEF a
  <1>4. 0 \in Good
    <2>1. \A T \in UpTo(S, 0) : T = {} /\ T \in SUBSET S
      BY <1>1, FS_EmptySet DEF UpTo
    <2>2. a[{}] = 0
      BY <1>3
    <2>3. QED
      BY <2>1, <2>2
  <1>5. ASSUME NEW k \in Nat, k \in Good
        PROVE  k + 1 \in Good
    <2> SUFFICES ASSUME NEW T \in UpTo(S, k + 1)
                 PROVE  a[T] = 0
      OBVIOUS
    <2>1. T \in SUBSET S /\ Cardinality(T) <= k + 1 /\ Cardinality(T) \in Nat
      BY <1>1 DEF UpTo
    <2>2. CASE T = {}
      <3>1. a[{}] = 0
        BY <1>3
      <3>2. QED
        BY <2>2, <3>1
    <2>3. CASE T # {}
      <3>1. T \ {Some(T)} \in UpTo(S, k) /\ Some(T) \in S
        BY <1>2, <2>1, <2>3 DEF UpTo
      <3>2. a[T \ {Some(T)}] = 0 /\ f[Some(T)] = 0
        BY <1>5, <3>1
      <3>3. a[T] = f[Some(T)] + a[T \ {Some(T)}]
        BY <1>3, <2>1, <2>3
      <3>4. 0 + 0 = 0
        OBVIOUS
      <3>5. QED
        BY <3>2, <3>3, <3>4, Zenon
    <2>4. QED
      BY <2>2, <2>3
  <1>6. Cardinality(S) \in Good
    <2> HIDE DEF Good
    <2>1. Nat \subseteq Good
      BY <1>4, <1>5, NatSetInduction
    <2>2. QED
      BY <1>1, <2>1
  <1>7. S \in UpTo(S, Cardinality(S)) /\ Total(f) = a[S]
    BY <1>1, TotalIs DEF UpTo, a
  <1>8. QED
    BY <1>6, <1>7

(* Something moves from one place of the function to another.               *)
LEMMA TotalMove ==
  ASSUME NEW S, IsFiniteSet(S), NEW f \in [S -> Nat], NEW g \in [S -> Nat],
         NEW x \in S, NEW y \in S, x # y, f[x] + f[y] = g[x] + g[y],
         \A z \in S \ {x, y} : g[z] = f[z]
  PROVE  Total(g) = Total(f)
  <1> DEFINE h == [f EXCEPT ![x] = g[x]]
  <1>1. /\ h \in [S -> Nat] /\ h[x] = g[x] /\ h[y] = f[y]
        /\ \A z \in S \ {x} : h[z] = f[z]
        /\ \A z \in S \ {y} : g[z] = h[z]
    OBVIOUS
  <1> HIDE DEF h
  <1>2. /\ Total(f) \in Nat /\ Total(h) \in Nat
        /\ Total(h) + f[x] = Total(f) + h[x]
    BY <1>1, TotalChange
  <1>3. Total(g) \in Nat /\ Total(g) + h[y] = Total(h) + g[y]
    BY <1>1, TotalChange
  <1>4. f[x] \in Nat /\ f[y] \in Nat /\ g[x] \in Nat /\ g[y] \in Nat
    OBVIOUS
  <1>5. QED
    BY <1>1, <1>2, <1>3, <1>4
=============================================================================

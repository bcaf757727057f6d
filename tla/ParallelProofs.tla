--------------------------- MODULE ParallelProofs ---------------------------
(***************************************************************************)
(* Parallel, for any topology of fans, joins and processors:               *)
(*   1. what FlattenSeq, DedupeFrames and MergeEpoch return, and with them *)
(*      the types of all variables;                                        *)
(*   2. the errors on their way up, counted over all nodes;                *)
(* and for flat pipelines:                                                 *)
(*   3. where wave items are, and that a join passes on complete waves;    *)
(*   4. what comes of the client's frames, and in which order they reach   *)
(*      the sink.                                                          *)
(***************************************************************************)
EXTENDS Parallel, InboxOpsProofs

(* FlattenSeq is a recursive function.  It has a value for every number of  *)
(* sequences, by induction, and what is in it comes from them in order.     *)
Flattens(ss, h, k) == h = [i \in 1..k |-> IF i = 1 THEN ss[i] ELSE h[i - 1] \o ss[i]]

Flattener(ss) == CHOOSE h : Flattens(ss, h, Len(ss))

(* x is before y in the sequences ss; s is made of them, one after another. *)
InRow(ss, x, y) ==
  \E b, c \in DOMAIN ss : \E p \in DOMAIN ss[b], q \in DOMAIN ss[c] :
    /\ x = ss[b][p] /\ y = ss[c][q]
    /\ b < c \/ (b = c /\ p < q)

RowOf(s, ss) ==
  /\ \A i \in DOMAIN s : \E b \in DOMAIN ss : \E p \in DOMAIN ss[b] : s[i] = ss[b][p]
  /\ \A i, j \in DOMAIN s : i < j => InRow(ss, s[i], s[j])

LEMMA FlattenerExists ==
  ASSUME NEW ss, Len(ss) \in Nat
  PROVE  Flattens(ss, Flattener(ss), Len(ss))
  <1> DEFINE Good == {k \in Nat : \E h : Flattens(ss, h, k)}
  <1>1. 0 \in Good
    <2> DEFINE h == [i \in 1..0 |-> ss[i]]
    <2>1. Flattens(ss, h, 0)
      BY DEF Flattens
    <2>2. QED
      BY <2>1
  <1>2. ASSUME NEW k \in Nat, k \in Good
        PROVE  k + 1 \in Good
    <2>1. PICK h : Flattens(ss, h, k)
      BY <1>2
    <2> DEFINE g == [i \in 1..k + 1 |-> IF i = 1 THEN ss[i] ELSE h[i - 1] \o ss[i]]
    <2>2. \A i \in 1..k : g[i] = h[i]
      <3>1. \A i \in 1..k : h[i] = IF i = 1 THEN ss[i] ELSE h[i - 1] \o ss[i]
        BY <2>1, Zenon DEF Flattens
      <3>2. (1..k) \subseteq 1..k + 1
        OBVIOUS
      <3>3. QED
        BY <3>1, <3>2, Zenon
    <2>3. \A i \in 1..k + 1 : g[i] = IF i = 1 THEN ss[i] ELSE g[i - 1] \o ss[i]
      <3>1. \A i \in 1..k + 1 : i # 1 => i - 1 \in 1..k
        OBVIOUS
      <3>2. QED
        BY <2>2, <3>1
    <2>4. Flattens(ss, g, k + 1)
      BY <2>3 DEF Flattens
    <2>5. QED
      BY <2>4
  <1>3. Nat \subseteq Good
    <2> HIDE DEF Good
    <2>1. QED
      BY <1>1, <1>2, NatSetInduction
  <1>4. PICK h : Flattens(ss, h, Len(ss))
    BY <1>3
  <1>5. QED
    BY <1>4 DEF Flattener

LEMMA FlattenIs ==
  ASSUME NEW S, NEW ss \in Seq(Seq(S))
  PROVE  Seqs!FlattenSeq(ss) \in Seq(S) /\ RowOf(Seqs!FlattenSeq(ss), ss)
  <1> DEFINE x == Seqs!FlattenSeq(ss)
             f == Flattener(ss)
             n == Len(ss)
             Fine(k) ==
               /\ f[k] \in Seq(S)
               /\ \A i \in DOMAIN f[k] : \E b \in 1..k : \E p \in DOMAIN ss[b] : f[k][i] = ss[b][p]
               /\ \A i, j \in DOMAIN f[k] : i < j => InRow(ss, f[k][i], f[k][j])
             Good == {k \in Nat : k \in 1..n => Fine(k)}
  <1>1. /\ n \in Nat /\ DOMAIN ss = 1..n
        /\ \A b \in 1..n : /\ ss[b] \in Seq(S) /\ Len(ss[b]) \in Nat
                           /\ DOMAIN ss[b] = 1..Len(ss[b])
    BY LenProperties, ElementOfSeq
  <1>2. Flattens(ss, f, n)
    BY <1>1, FlattenerExists
  <1>3. \A k \in 1..n : f[k] = IF k = 1 THEN ss[k] ELSE f[k - 1] \o ss[k]
    BY <1>2 DEF Flattens
  <1>4. x = IF n = 0 THEN ss ELSE f[n]
    BY DEF Seqs!FlattenSeq, Flattener, Flattens
  <1> HIDE DEF x, f
  <1>5. 0 \in Good
    OBVIOUS
  <1>6. ASSUME NEW k \in Nat, k \in Good
        PROVE  k + 1 \in Good
    <2> SUFFICES ASSUME k + 1 \in 1..n PROVE Fine(k + 1)
      OBVIOUS
    <2>1. CASE k = 0
      <3>1. f[1] = ss[1] /\ 1 \in 1..n /\ k + 1 = 1
        BY <1>1, <1>3, <2>1
      <3>2. /\ f[1] \in Seq(S)
            /\ \A i \in DOMAIN f[1] : 1 \in 1..1 /\ f[1][i] = ss[1][i] /\ i \in DOMAIN ss[1]
            /\ \A i, j \in DOMAIN f[1] : i < j => InRow(ss, f[1][i], f[1][j])
        BY <1>1, <3>1 DEF InRow
      <3>3. QED
        BY <3>1, <3>2
    <2>2. CASE k # 0
      <3>1. k \in 1..n /\ k + 1 # 1 /\ (k + 1) - 1 = k
        BY <1>1, <2>2
      <3> DEFINE s == f[k]
                 t == ss[k + 1]
      <3>2. f[k + 1] = s \o t
        BY <1>3, <3>1, Zenon
      <3>3. /\ s \in Seq(S) /\ t \in Seq(S)
            /\ \A i \in DOMAIN s : \E b \in 1..k : \E p \in DOMAIN ss[b] : s[i] = ss[b][p]
            /\ \A i, j \in DOMAIN s : i < j => InRow(ss, s[i], s[j])
        BY <1>1, <1>6, <3>1, Zenon
      <3> HIDE DEF s
      <3>4. /\ s \o t \in Seq(S) /\ Len(s) \in Nat /\ Len(t) \in Nat
            /\ DOMAIN s = 1..Len(s) /\ DOMAIN t = 1..Len(t)
            /\ DOMAIN (s \o t) = 1..(Len(s) + Len(t))
            /\ \A i \in 1..(Len(s) + Len(t)) :
                 (s \o t)[i] = IF i <= Len(s) THEN s[i] ELSE t[i - Len(s)]
        <4>1. s \o t \in Seq(S) /\ Len(s \o t) = Len(s) + Len(t)
          BY <3>3, ConcatProperties
        <4>2. QED
          BY <3>3, <4>1, ConcatProperties, LenProperties
      <3>5. \A i \in DOMAIN (s \o t) :
              \/ i \in DOMAIN s /\ (s \o t)[i] = s[i]
              \/ i - Len(s) \in DOMAIN t /\ (s \o t)[i] = ss[k + 1][i - Len(s)] /\ i > Len(s)
        BY <3>4
      <3>6. \A i \in DOMAIN (s \o t) : \E b \in 1..k + 1 : \E p \in DOMAIN ss[b] :
              (s \o t)[i] = ss[b][p]
        <4>1. (1..k) \subseteq 1..k + 1 /\ k + 1 \in 1..k + 1
          OBVIOUS
        <4>2. ASSUME NEW i \in DOMAIN s
              PROVE  \E b \in 1..k + 1 : \E p \in DOMAIN ss[b] : s[i] = ss[b][p]
          BY <3>3, <4>1, Zenon
        <4>3. ASSUME NEW i \in DOMAIN (s \o t)
              PROVE  \E b \in 1..k + 1 : \E p \in DOMAIN ss[b] : (s \o t)[i] = ss[b][p]
          <5>1. CASE i \in DOMAIN s /\ (s \o t)[i] = s[i]
            BY <4>2, <5>1, Zenon
          <5>2. CASE i - Len(s) \in DOMAIN t /\ (s \o t)[i] = ss[k + 1][i - Len(s)]
            BY <4>1, <5>2, Zenon
          <5>3. QED
            BY <3>5, <5>1, <5>2, Zenon
        <4>4. QED
          BY <4>3, Zenon
      <3>7. ASSUME NEW i \in DOMAIN (s \o t), NEW j \in DOMAIN (s \o t), i < j
            PROVE  InRow(ss, (s \o t)[i], (s \o t)[j])
        <4>1. CASE i \in DOMAIN s /\ j \in DOMAIN s
          BY <3>3, <3>4, <3>7, <4>1
        <4>2. CASE i \in DOMAIN s /\ j \notin DOMAIN s
          <5>1. PICK b \in 1..k : \E p \in DOMAIN ss[b] : s[i] = ss[b][p]
            BY <3>3, <4>2
          <5>2. PICK p \in DOMAIN ss[b] : s[i] = ss[b][p]
            BY <5>1
          <5>3. /\ b \in DOMAIN ss /\ k + 1 \in DOMAIN ss /\ b < k + 1
                /\ j - Len(s) \in DOMAIN ss[k + 1] /\ (s \o t)[j] = ss[k + 1][j - Len(s)]
                /\ (s \o t)[i] = s[i]
            BY <1>1, <3>1, <3>4, <3>5, <4>2
          <5>4. QED
            BY <5>2, <5>3 DEF InRow
        <4>3. CASE i \notin DOMAIN s
          <5>1. /\ k + 1 \in DOMAIN ss
                /\ i - Len(s) \in DOMAIN ss[k + 1] /\ (s \o t)[i] = ss[k + 1][i - Len(s)]
                /\ j - Len(s) \in DOMAIN ss[k + 1] /\ (s \o t)[j] = ss[k + 1][j - Len(s)]
                /\ i - Len(s) < j - Len(s)
            BY <1>1, <3>4, <3>7, <4>3
          <5>2. QED
            BY <5>1 DEF InRow
        <4>4. QED
          BY <4>1, <4>2, <4>3
      <3>8. QED
        <4> DEFINE y == s \o t
        <4>1. /\ y \in Seq(S)
              /\ \A i \in DOMAIN y : \E b \in 1..k + 1 : \E p \in DOMAIN ss[b] : y[i] = ss[b][p]
              /\ \A i, j \in DOMAIN y : i < j => InRow(ss, y[i], y[j])
          BY <3>4, <3>6, <3>7, Zenon
        <4>2. f[k + 1] = y
          BY <3>2, Zenon
        <4> HIDE DEF y
        <4>3. QED
          BY <4>1, <4>2
    <2>3. QED
      BY <2>1, <2>2
  <1>7. n \in Good
    <2> HIDE DEF Good
    <2>1. QED
      BY <1>1, <1>5, <1>6, NatSetInduction
  <1>8. CASE n = 0
    <2>1. x = <<>>
      BY <1>1, <1>4, <1>8, EmptySeq
    <2>2. x \in Seq(S) /\ RowOf(x, ss)
      BY <2>1 DEF RowOf
    <2>3. QED
      BY <2>2 DEF x
  <1>9. CASE n # 0
    <2>1. n \in 1..n /\ x = f[n]
      BY <1>1, <1>4, <1>9
    <2>2. Fine(n)
      BY <1>7, <2>1
    <2>3. /\ x \in Seq(S)
          /\ \A i \in DOMAIN x : \E b \in DOMAIN ss : \E p \in DOMAIN ss[b] : x[i] = ss[b][p]
          /\ \A i, j \in DOMAIN x : i < j => InRow(ss, x[i], x[j])
      BY <1>1, <2>1, <2>2
    <2>4. QED
      BY <2>3, Zenon DEF x, RowOf
  <1>10. QED
    BY <1>8, <1>9

-----------------------------------------------------------------------------
(* What a join makes of a wave.                                             *)
FrameSet == [kind : FrameKinds, id : Nat, by : Nodes \cup {"client"}]

LEMMA DedupeIs ==
  ASSUME NEW S, NEW s \in Seq(S)
  PROVE  /\ DedupeFrames(s) \in Seq(S)
         /\ \A i \in DOMAIN DedupeFrames(s) : \E j \in DOMAIN s : DedupeFrames(s)[i] = s[j]
         /\ \A i, j \in DOMAIN DedupeFrames(s) : i # j => DedupeFrames(s)[i] # DedupeFrames(s)[j]
  <1> DEFINE K == {i \in DOMAIN s : \A j \in 1..i-1 : s[j] # s[i]}
             C == 1..Cardinality(K)
  <1>1. K \in SUBSET (DOMAIN s) /\ Len(s) \in Nat /\ DOMAIN s = 1..Len(s)
    BY LenProperties
  <1>2. DedupeFrames(s) = KeepAt(s, K)
    BY DEF DedupeFrames
  <1>3. \A i, j \in K : i < j => s[i] # s[j]
    <2>1. \A i, j \in DOMAIN s : i < j => i \in 1..j-1
      BY <1>1
    <2>2. QED
      BY <2>1
  <1> HIDE DEF K
  <1>4. /\ KeepAt(s, K) \in Seq(S)
        /\ DOMAIN KeepAt(s, K) = C
        /\ \A k \in C : Nth(K, k) \in K /\ KeepAt(s, K)[k] = s[Nth(K, k)]
        /\ \A k, l \in C : k < l => Nth(K, k) < Nth(K, l)
    BY <1>1, KeepAtSubsequence
  <1>5. \A k, l \in C : k # l => KeepAt(s, K)[k] # KeepAt(s, K)[l]
    <2>1. \A k, l \in C : k < l => KeepAt(s, K)[k] # KeepAt(s, K)[l]
      BY <1>3, <1>4
    <2>2. \A k, l \in C : k # l => k < l \/ l < k
      OBVIOUS
    <2>3. QED
      BY <2>1, <2>2
  <1>6. QED
    BY <1>1, <1>2, <1>4, <1>5

(* A merged wave: its frames are the branches' frames, each is there once,  *)
(* and when no two of them are different sync frames, a Start is the first  *)
(* and an End or Cancel the last.                                           *)
Merged(x, all) ==
  /\ x \in Seq(FrameSet)
  /\ \A i \in DOMAIN x : \E j \in DOMAIN all : x[i] = all[j]
  /\ \A i, j \in DOMAIN x : i # j => x[i] # x[j]

OneSync(s) ==
  \A i, j \in DOMAIN s : IsSyncFrame(s[i].kind) /\ IsSyncFrame(s[j].kind) => s[i] = s[j]

SyncsPlaced(x) ==
  \A i, j \in DOMAIN x : i < j => x[i].kind \notin {"End", "Cancel"} /\ x[j].kind # "Start"

LEMMA MergeOfAll ==
  ASSUME NEW per, Seqs!FlattenSeq(per) \in Seq(FrameSet)
  PROVE  /\ Merged(MergeEpoch(per), Seqs!FlattenSeq(per))
         /\ OneSync(Seqs!FlattenSeq(per)) => SyncsPlaced(MergeEpoch(per))
  <1> DEFINE all == Seqs!FlattenSeq(per)
             syncAt == {i \in DOMAIN all : IsSyncFrame(all[i].kind)}
             syncf == all[Nth(syncAt, 1)]
             K == {i \in DOMAIN all : all[i] # syncf}
             others == DedupeFrames(KeepAt(all, K))
             x == MergeEpoch(per)
  <1>1. x = CASE syncAt = {} -> DedupeFrames(all)
              [] syncAt # {} /\ syncf.kind = "Start" -> <<syncf>> \o others
              [] syncAt # {} /\ syncf.kind # "Start" -> Append(others, syncf)
    BY DEF MergeEpoch
  <1>2. all \in Seq(FrameSet) /\ DOMAIN all = 1..Len(all) /\ Len(all) \in Nat
    BY LenProperties
  <1> HIDE DEF all, x
  <1>3. /\ DedupeFrames(all) \in Seq(FrameSet)
        /\ \A i \in DOMAIN DedupeFrames(all) : \E j \in DOMAIN all : DedupeFrames(all)[i] = all[j]
        /\ \A i, j \in DOMAIN DedupeFrames(all) :
             i # j => DedupeFrames(all)[i] # DedupeFrames(all)[j]
    BY <1>2, DedupeIs
  <1>4. CASE syncAt = {}
    <2>1. x = DedupeFrames(all)
      BY <1>1, <1>4
    <2>2. Merged(x, all)
      BY <1>3, <2>1 DEF Merged
    <2>3. \A i \in DOMAIN x : ~IsSyncFrame(x[i].kind)
      BY <1>4, <2>2 DEF Merged
    <2>4. SyncsPlaced(x)
      BY <2>3 DEF SyncsPlaced, IsSyncFrame
    <2>5. QED
      BY <2>2, <2>4 DEF x, all
  <1>5. CASE syncAt # {}
    <2>1. /\ Nth(syncAt, 1) \in DOMAIN all
          /\ syncf \in FrameSet /\ IsSyncFrame(syncf.kind)
      <3>1. syncAt \in SUBSET (1..Len(all)) /\ syncAt \in SUBSET (DOMAIN all)
        BY <1>2
      <3>2. IsFiniteSet(syncAt) /\ Cardinality(syncAt) \in Nat
        BY <1>2, <3>1, PositionsFinite
      <3>3. 1 \in 1..Cardinality(syncAt)
        BY <1>5, <3>2, FS_EmptySet
      <3>4. Nth(syncAt, 1) \in syncAt
        <4> HIDE DEF syncAt
        <4>1. QED
          BY <1>2, <3>1, <3>3, NthEnumerates
      <3>5. QED
        BY <1>2, <3>4, ElementOfSeq
    <2> HIDE DEF syncAt
    <2>2. PICK g : g = syncf
      OBVIOUS
    <2>3. PICK o : o = others
      OBVIOUS
    <2>4. /\ o \in Seq(FrameSet)
          /\ \A i \in DOMAIN o : o[i] # g /\ \E j \in DOMAIN all : o[i] = all[j]
          /\ \A i, j \in DOMAIN o : i # j => o[i] # o[j]
      <3>1. K \in SUBSET (DOMAIN all)
        OBVIOUS
      <3>2. \A i \in K : all[i] # g
        BY <2>2
      <3> HIDE DEF K
      <3>3. /\ KeepAt(all, K) \in Seq(FrameSet)
            /\ DOMAIN KeepAt(all, K) = 1..Cardinality(K)
            /\ \A k \in 1..Cardinality(K) : Nth(K, k) \in K /\ KeepAt(all, K)[k] = all[Nth(K, k)]
        BY <1>2, <3>1, KeepAtSubsequence
      <3>4. PICK s : s = KeepAt(all, K)
        OBVIOUS
      <3>5. \A k \in DOMAIN s : s[k] # g /\ \E j \in DOMAIN all : s[k] = all[j]
        BY <3>1, <3>2, <3>3, <3>4
      <3>6. s \in Seq(FrameSet)
        BY <3>3, <3>4
      <3>7. /\ DedupeFrames(s) \in Seq(FrameSet)
            /\ \A i \in DOMAIN DedupeFrames(s) : \E j \in DOMAIN s : DedupeFrames(s)[i] = s[j]
            /\ \A i, j \in DOMAIN DedupeFrames(s) : i # j => DedupeFrames(s)[i] # DedupeFrames(s)[j]
        BY <3>6, DedupeIs
      <3>8. o = DedupeFrames(s)
        BY <2>3, <3>4
      <3>9. QED
        BY <3>5, <3>7, <3>8
    <2>5. g \in FrameSet /\ IsSyncFrame(g.kind) /\ \E j \in DOMAIN all : g = all[j]
      BY <2>1, <2>2
    <2>6. x = IF g.kind = "Start" THEN <<g>> \o o ELSE Append(o, g)
      BY <1>1, <1>5, <2>2, <2>3
    <2> HIDE DEF syncf, others, K
    <2>7. Len(o) \in Nat /\ DOMAIN o = 1..Len(o)
      BY <2>4, LenProperties
    <2>8. OneSync(all) => \A i \in DOMAIN o : ~IsSyncFrame(o[i].kind)
      BY <2>4, <2>5 DEF OneSync
    <2>9. CASE g.kind = "Start"
      <3>1. /\ x = <<g>> \o o /\ x \in Seq(FrameSet) /\ DOMAIN x = 1..(Len(o) + 1)
            /\ x[1] = g /\ \A i \in 2..(Len(o) + 1) : i - 1 \in DOMAIN o /\ x[i] = o[i - 1]
        BY <2>4, <2>5, <2>6, <2>7, <2>9
      <3>2. Merged(x, all)
        <4>1. \A i \in DOMAIN x : (i - 1 \in DOMAIN o /\ x[i] = o[i - 1]) \/ (i = 1 /\ x[i] = g)
          BY <2>7, <3>1
        <4>2. \A i \in DOMAIN x : \E j \in DOMAIN all : x[i] = all[j]
          BY <2>4, <2>5, <4>1
        <4>3. \A i, j \in DOMAIN x : i # j => i - 1 # j - 1
          BY <2>7, <3>1
        <4>4. \A i, j \in DOMAIN x : i # j => x[i] # x[j]
          BY <2>4, <4>1, <4>3
        <4>5. QED
          BY <3>1, <4>2, <4>4 DEF Merged
      <3>3. OneSync(all) => SyncsPlaced(x)
        BY <2>7, <2>8, <2>9, <3>1 DEF SyncsPlaced, IsSyncFrame
      <3>4. QED
        BY <3>2, <3>3 DEF x, all
    <2>10. CASE g.kind # "Start"
      <3>1. /\ x = Append(o, g) /\ x \in Seq(FrameSet) /\ DOMAIN x = 1..(Len(o) + 1)
            /\ x[Len(o) + 1] = g /\ \A i \in 1..Len(o) : i \in DOMAIN o /\ x[i] = o[i]
        BY <2>4, <2>5, <2>6, <2>7, <2>10
      <3>2. Merged(x, all)
        <4>1. \A i \in DOMAIN x : (i \in DOMAIN o /\ x[i] = o[i]) \/ (i = Len(o) + 1 /\ x[i] = g)
          BY <2>7, <3>1
        <4>2. \A i \in DOMAIN x : \E j \in DOMAIN all : x[i] = all[j]
          BY <2>4, <2>5, <4>1
        <4>3. \A i, j \in DOMAIN x : i # j => x[i] # x[j]
          BY <2>4, <4>1
        <4>4. QED
          BY <3>1, <4>2, <4>3 DEF Merged
      <3>3. OneSync(all) => SyncsPlaced(x)
        BY <2>7, <2>8, <2>10, <3>1 DEF SyncsPlaced, IsSyncFrame
      <3>4. QED
        BY <3>2, <3>3 DEF x, all
    <2>11. QED
      BY <2>9, <2>10
  <1>6. QED
    BY <1>4, <1>5

(* per holds a sequence of frames for each of w branches. *)
OneSyncIn(per, w) ==
  \A b, c \in 1..w : \A p \in DOMAIN per[b], q \in DOMAIN per[c] :
    IsSyncFrame(per[b][p].kind) /\ IsSyncFrame(per[c][q].kind) => per[b][p] = per[c][q]

MergeOf(x, per, w) ==
  /\ x \in Seq(FrameSet)
  /\ \A i \in DOMAIN x : \E b \in 1..w : \E p \in DOMAIN per[b] : x[i] = per[b][p]
  /\ \A i, j \in DOMAIN x : i # j => x[i] # x[j]
  /\ OneSyncIn(per, w) => SyncsPlaced(x)

LEMMA MergeIs ==
  ASSUME NEW w \in Nat, NEW per \in [1..w -> Seq(FrameSet)]
  PROVE  MergeOf(MergeEpoch(per), per, w)
  <1>1. per \in Seq(Seq(FrameSet)) /\ DOMAIN per = 1..w
    BY SeqDef
  <1>2. PICK all : all = Seqs!FlattenSeq(per)
    OBVIOUS
  <1>3. Seqs!FlattenSeq(per) \in Seq(FrameSet) /\ RowOf(Seqs!FlattenSeq(per), per)
    BY <1>1, FlattenIs
  <1>4. \A i \in DOMAIN all : \E b \in 1..w : \E p \in DOMAIN per[b] : all[i] = per[b][p]
    BY <1>1, <1>2, <1>3, Zenon DEF RowOf
  <1>5. PICK x : x = MergeEpoch(per)
    OBVIOUS
  <1>6. Merged(x, all) /\ (OneSync(all) => SyncsPlaced(x))
    BY <1>2, <1>3, <1>5, MergeOfAll
  <1>7. OneSyncIn(per, w) => OneSync(all)
    <2> SUFFICES ASSUME OneSyncIn(per, w), NEW i \in DOMAIN all, NEW j \in DOMAIN all,
                        IsSyncFrame(all[i].kind), IsSyncFrame(all[j].kind)
                 PROVE  all[i] = all[j]
      BY DEF OneSync
    <2>1. PICK b \in 1..w : \E p \in DOMAIN per[b] : all[i] = per[b][p]
      BY <1>4
    <2>2. PICK p \in DOMAIN per[b] : all[i] = per[b][p]
      BY <2>1
    <2>3. PICK c \in 1..w : \E q \in DOMAIN per[c] : all[j] = per[c][q]
      BY <1>4
    <2>4. PICK q \in DOMAIN per[c] : all[j] = per[c][q]
      BY <2>3
    <2>5. QED
      BY <2>2, <2>4, Zenon DEF OneSyncIn
  <1>8. \A i \in DOMAIN x : \E b \in 1..w : \E p \in DOMAIN per[b] : x[i] = per[b][p]
    <2> SUFFICES ASSUME NEW i \in DOMAIN x
                 PROVE  \E b \in 1..w : \E p \in DOMAIN per[b] : x[i] = per[b][p]
      OBVIOUS
    <2>1. PICK j \in DOMAIN all : x[i] = all[j]
      BY <1>6 DEF Merged
    <2>2. PICK b \in 1..w : \E p \in DOMAIN per[b] : all[j] = per[b][p]
      BY <1>4
    <2>3. QED
      BY <2>1, <2>2
  <1>9. MergeOf(x, per, w)
    BY <1>6, <1>7, <1>8 DEF Merged, MergeOf
  <1>10. QED
    BY <1>5, <1>9

-----------------------------------------------------------------------------
(* What the variables hold.  A barrier has no frame and goes down; only     *)
(* frames go to the sink, and only upstream ones to the source.             *)
Wares ==
  {q \in ItemSet : /\ q.ctrl = "none" => q.kind \in FrameKinds /\ q.by # "nobody"
                   /\ q.ctrl = "barrier" => q.kind = "none" /\ q.dir = "down"}

PushSet ==
  {p \in [to : Nodes \cup {"sink", "source"}, q : Wares] :
     /\ p.to = "sink" => p.q.dir = "down" /\ p.q.ctrl = "none"
     /\ p.to = "source" => p.q.dir = "up"}

DownPushes == {p \in PushSet : p.q.dir = "down"}

BufferSet(n) == [per : [1..Width[n] -> Seq(FrameSet)], seen : SUBSET (1..Width[n])]

EpochsTyped ==
  /\ DOMAIN epochs = Joins
  /\ \A n \in Joins : /\ IsFiniteSet(DOMAIN epochs[n])
                      /\ DOMAIN epochs[n] \subseteq Nat \ {0}
                      /\ \A e \in DOMAIN epochs[n] : epochs[n][e] \in BufferSet(n)

Typed ==
  /\ inbox \in [Nodes -> InboxSet(Wares)]
  /\ out \in [Nodes -> Seq(PushSet)]
  /\ fanSeq \in [Fans -> Nat]
  /\ next \in [Joins -> Nat \ {0}]
  /\ EpochsTyped
  /\ sent \in 0..Len(Script)
  /\ order \in [Fans -> Seq(FrameSet)]
  /\ arrived \in Seq(FrameSet)
  /\ onErrors \in Nat /\ failures \in Nat

LEMMA Topology ==
  /\ Fans \subseteq Nodes /\ Joins \subseteq Nodes /\ Procs \subseteq Nodes /\ HeadNode \in Nodes
  /\ IsFiniteSet(Nodes) /\ "source" \notin Nodes /\ "sink" \notin Nodes
  /\ \A n \in Nodes : /\ Down[n] \in Seq(Nodes) /\ Len(Down[n]) \in Nat
                      /\ DOMAIN Down[n] = 1..Len(Down[n])
                      /\ \A i \in DOMAIN Down[n] : Down[n][i] \in Nodes
                      /\ Up[n] \in Nodes \cup {"source"} /\ BranchOf[n] \in Nat
  /\ \A j \in Joins : FanOf[j] \in Fans /\ Width[j] \in Nat \ {0}
  /\ Script \in Seq(FrameKinds) /\ Len(Script) \in Nat /\ DOMAIN Script = 1..Len(Script)
  /\ \A i \in 1..Len(Script) : Script[i] \in FrameKinds
  <1>1. \A n \in Nodes : Down[n] \in Seq(Nodes)
    BY TopologyAssumption
  <1>2. \A n \in Nodes : /\ Len(Down[n]) \in Nat /\ DOMAIN Down[n] = 1..Len(Down[n])
                         /\ \A i \in DOMAIN Down[n] : Down[n][i] \in Nodes
    BY <1>1, LenProperties, ElementOfSeq
  <1>3. /\ Len(Script) \in Nat /\ DOMAIN Script = 1..Len(Script)
        /\ \A i \in 1..Len(Script) : Script[i] \in FrameKinds
    BY TopologyAssumption, LenProperties, ElementOfSeq
  <1>4. QED
    BY <1>1, <1>2, <1>3, TopologyAssumption DEF Nodes

LEMMA Branched ==
  ASSUME NEW q \in Wares, NEW i \in Nat
  PROVE  /\ [q EXCEPT !.branch = i] \in Wares
         /\ [q EXCEPT !.branch = i].dir = q.dir
  BY DEF Wares, ItemSet

(* The pushes a handler makes. *)
LEMMA DeliverDownIs ==
  ASSUME NEW n \in Nodes, NEW q \in Wares, q.dir = "down"
  PROVE  DeliverDown(n, q) \in Seq(DownPushes)
  <1>1. CASE Down[n] = <<>>
    <2>1. q.ctrl # "barrier" => q.ctrl = "none" /\ Push("sink", q) \in DownPushes
      BY Topology DEF Wares, ItemSet, PushSet, DownPushes, Push
    <2>2. QED
      BY <1>1, <2>1, EmptySeq DEF DeliverDown
  <1>2. CASE Down[n] # <<>>
    <2> DEFINE R(i) == [q EXCEPT !.branch = IF Down[n][i] \in Joins THEN BranchOf[n] ELSE 0]
    <2>1. \A i \in DOMAIN Down[n] : Push(Down[n][i], R(i)) \in DownPushes
      <3>1. ASSUME NEW i \in DOMAIN Down[n]
            PROVE  Push(Down[n][i], R(i)) \in DownPushes
        <4>1. R(i) \in Wares /\ R(i).dir = "down"
          BY Topology DEF Wares, ItemSet
        <4>2. Down[n][i] \in Nodes /\ Down[n][i] \notin {"sink", "source"}
          BY Topology
        <4> HIDE DEF R
        <4>3. QED
          BY <4>1, <4>2 DEF Push, PushSet, DownPushes
      <3>2. QED
        BY <3>1
    <2>2. DeliverDown(n, q) = [i \in 1..Len(Down[n]) |-> Push(Down[n][i], R(i))]
      BY <1>2, Topology DEF DeliverDown
    <2> HIDE DEF R
    <2>3. QED
      BY <2>1, <2>2, Topology, IsASeq
  <1>3. QED
    BY <1>1, <1>2

LEMMA ToBranchesIs ==
  ASSUME NEW n \in Nodes, NEW f, \A i \in DOMAIN Down[n] : f[i] \in Wares /\ f[i].dir = "down"
  PROVE  [i \in DOMAIN Down[n] |-> Push(Down[n][i], f[i])] \in Seq(DownPushes)
  <1>1. \A i \in DOMAIN Down[n] : Push(Down[n][i], f[i]) \in DownPushes
    BY Topology DEF Push, PushSet, DownPushes
  <1>2. [i \in DOMAIN Down[n] |-> Push(Down[n][i], f[i])]
          = [i \in 1..Len(Down[n]) |-> Push(Down[n][i], f[i])]
    BY Topology
  <1>3. QED
    BY <1>1, <1>2, Topology, IsASeq

LEMMA FramesOfItems ==
  /\ \A q \in Wares : q.ctrl = "none" => FrameOf(q) \in FrameSet
  /\ \A q \in Wares : q.dir = "up" => q.ctrl = "none"
  /\ \A f \in FrameSet, e \in Nat, x \in Fans \cup {NoFan}, i \in Nat :
       /\ DownItem(f, e, x, i) \in Wares /\ DownItem(f, e, x, i).dir = "down"
       /\ FrameOf(DownItem(f, e, x, i)) = f
  /\ \A f \in FrameSet : UpItem(f) \in Wares /\ UpItem(f).dir = "up"
  /\ \A e \in Nat, x \in Fans \cup {NoFan}, i \in Nat :
       Barrier(e, x, i) \in Wares /\ Barrier(e, x, i).dir = "down"
  <1>1. /\ \A q \in Wares : q.ctrl = "none" => FrameOf(q) \in FrameSet
        /\ \A q \in Wares : q.dir = "up" => q.ctrl = "none"
    BY DEF Wares, ItemSet, FrameOf, Frame, FrameSet
  <1>2. \A f \in FrameSet, e \in Nat, x \in Fans \cup {NoFan}, i \in Nat :
          /\ DownItem(f, e, x, i) \in Wares /\ DownItem(f, e, x, i).dir = "down"
          /\ FrameOf(DownItem(f, e, x, i)) = f
    <2> SUFFICES ASSUME NEW f \in FrameSet, NEW e \in Nat, NEW x \in Fans \cup {NoFan},
                        NEW i \in Nat
                 PROVE  /\ DownItem(f, e, x, i) \in Wares /\ DownItem(f, e, x, i).dir = "down"
                        /\ FrameOf(DownItem(f, e, x, i)) = f
      OBVIOUS
    <2>1. /\ DownItem(f, e, x, i) \in ItemSet
          /\ DownItem(f, e, x, i).kind \in FrameKinds
          /\ DownItem(f, e, x, i).ctrl = "none" /\ DownItem(f, e, x, i).dir = "down"
      BY DEF DownItem, Item, ItemSet, FrameSet
    <2>2. "nobody" \notin Nodes => DownItem(f, e, x, i).by # "nobody"
      BY DEF DownItem, Item, FrameSet
    <2>3. QED
      BY <2>1, <2>2, TopologyAssumption DEF Wares, DownItem, Item, FrameOf, Frame, FrameSet
  <1>3. \A f \in FrameSet : UpItem(f) \in Wares /\ UpItem(f).dir = "up"
    BY TopologyAssumption DEF UpItem, Item, Wares, ItemSet, FrameSet
  <1>4. \A e \in Nat, x \in Fans \cup {NoFan}, i \in Nat :
          Barrier(e, x, i) \in Wares /\ Barrier(e, x, i).dir = "down"
    BY DEF Barrier, Item, NoFrame, Frame, Wares, ItemSet
  <1>5. QED
    BY <1>1, <1>2, <1>3, <1>4

LEMMA DownPushIs ==
  ASSUME NEW n \in Nodes, NEW f \in FrameSet, NEW e \in Nat, NEW x \in Fans \cup {NoFan}
  PROVE  DeliverDown(n, DownItem(f, e, x, 0)) \in Seq(DownPushes)
  <1>1. PICK q : q = DownItem(f, e, x, 0)
    OBVIOUS
  <1>2. q \in Wares /\ q.dir = "down"
    BY <1>1, FramesOfItems
  <1>3. QED
    BY <1>1, <1>2, DeliverDownIs

-----------------------------------------------------------------------------
(* What a join does with an item of a wave, JoinWave in pieces: the waves it *)
(* keeps with the item in its own, those that are ready, and what they are  *)
(* merged to.                                                               *)
Bufs(n) ==
  [e \in DOMAIN epochs[n] \cup {Taken(n).epoch} |->
     IF e = Taken(n).epoch THEN Buffered(n, Taken(n)) ELSE epochs[n][e]]

Ready(n) ==
  {e \in DOMAIN Bufs(n) :
     \A x \in next[n]..e : x \in DOMAIN Bufs(n) /\ Complete(n, Bufs(n)[x])}
  \ 1..next[n] - 1

Merges(n) ==
  [i \in 1..Cardinality(Ready(n)) |-> MergeEpoch(Bufs(n)[next[n] + i - 1].per)]

Sends(n, frames) ==
  Seqs!FlattenSeq([i \in DOMAIN frames |-> DeliverDown(n, DownItem(frames[i], 0, NoFan, 0))])

LEMMA JoinWaveIs ==
  ASSUME NEW n, JoinWave(n)
  PROVE  /\ Taken(n).dir = "down" /\ Taken(n).epoch # 0
         /\ ~(Taken(n).ctrl = "barrier" /\ Taken(n).fan # FanOf[n])
         /\ TakeAnd(n, Sends(n, Seqs!FlattenSeq(Merges(n))))
         /\ PopOnly(n)
         /\ epochs' = [epochs EXCEPT ![n] = [e \in DOMAIN Bufs(n) \ Ready(n) |-> Bufs(n)[e]]]
         /\ next' = [next EXCEPT ![n] = @ + Cardinality(Ready(n))]
         /\ UNCHANGED <<fanSeq, foreign, sent, order, arrived, onErrors, failures>>
  BY DEF JoinWave, Bufs, Ready, Merges, Sends

(* A finite set of numbers without gaps, and where it ends. *)
LEMMA Contiguous ==
  ASSUME NEW a \in Nat, NEW R \in SUBSET Nat, IsFiniteSet(R),
         \A e \in R : e >= a /\ a..e \subseteq R
  PROVE  Cardinality(R) \in Nat /\ R = a..a + Cardinality(R) - 1
  <1> DEFINE c == Cardinality(R)
             T == a..a + c - 1
  <1>1. c \in Nat
    BY FS_CardinalityType
  <1>2. IsFiniteSet(T) /\ Cardinality(T) = c
    <2>1. PICK z \in Int : z = a + c - 1
      BY <1>1
    <2>2. IsFiniteSet(a..z) /\ Cardinality(a..z) = IF a > z THEN 0 ELSE z - a + 1
      BY FS_Interval
    <2>3. (IF a > z THEN 0 ELSE z - a + 1) = c
      BY <1>1, <2>1
    <2>4. T = a..z
      BY <2>1
    <2>5. QED
      BY <2>2, <2>3, <2>4, Zenon
  <1>3. \A e \in R : e \in T
    <2> SUFFICES ASSUME NEW e \in R PROVE e \in T
      OBVIOUS
    <2>1. IsFiniteSet(a..e) /\ Cardinality(a..e) = e - a + 1 /\ e >= a
      BY FS_Interval
    <2>2. e - a + 1 <= c
      BY <2>1, FS_Subset
    <2>3. QED
      BY <1>1, <2>1, <2>2
  <1>4. R = T
    BY <1>2, <1>3, FS_Subset
  <1>5. QED
    BY <1>1, <1>4

LEMMA BufferedTyped ==
  ASSUME Typed, NEW n \in Joins, NEW q \in Wares, q.dir = "down", q.epoch # 0
  PROVE  Buffered(n, q) \in BufferSet(n) /\ Buf(n, q.epoch) \in BufferSet(n)
  <1>1. Width[n] \in Nat \ {0}
    BY Topology
  <1>2. Buf(n, q.epoch) \in BufferSet(n)
    BY <1>1, EmptySeq DEF Buf, NoBuf, Typed, EpochsTyped, BufferSet
  <1>3. PICK b \in BufferSet(n) : b = Buf(n, q.epoch)
    BY <1>2
  <1>4. q.ctrl # "barrier" => FrameOf(q) \in FrameSet
    BY FramesOfItems DEF Wares, ItemSet
  <1>5. CASE q.branch \notin 1..Width[n]
    BY <1>2, <1>5 DEF Buffered
  <1>6. CASE q.branch \in 1..Width[n] /\ q.ctrl = "barrier"
    BY <1>3, <1>6 DEF Buffered, BufferSet
  <1>7. CASE q.branch \in 1..Width[n] /\ q.ctrl # "barrier"
    <2>1. Buffered(n, q) = [b EXCEPT !.per[q.branch] = Append(@, FrameOf(q))]
      BY <1>3, <1>7 DEF Buffered
    <2>2. PICK s \in Seq(FrameSet) : s = Append(b.per[q.branch], FrameOf(q))
      BY <1>4, <1>7, AppendProperties DEF BufferSet
    <2>3. Buffered(n, q) = [b EXCEPT !.per = [b.per EXCEPT ![q.branch] = s]]
      BY <2>1, <2>2 DEF BufferSet
    <2>4. [b.per EXCEPT ![q.branch] = s] \in [1..Width[n] -> Seq(FrameSet)]
      BY <2>2 DEF BufferSet
    <2>5. PICK per \in [1..Width[n] -> Seq(FrameSet)] : per = [b.per EXCEPT ![q.branch] = s]
      BY <2>4
    <2>6. [b EXCEPT !.per = per] \in BufferSet(n)
      BY DEF BufferSet
    <2>7. QED
      BY <1>2, <2>3, <2>5, <2>6, Zenon
  <1>8. QED
    BY <1>5, <1>6, <1>7

LEMMA BufsTyped ==
  ASSUME Typed, NEW n \in Joins, CanTake(n), Taken(n) \in Wares,
         Taken(n).dir = "down", Taken(n).epoch # 0
  PROVE  /\ IsFiniteSet(DOMAIN Bufs(n)) /\ DOMAIN Bufs(n) \subseteq Nat \ {0}
         /\ DOMAIN Bufs(n) = DOMAIN epochs[n] \cup {Taken(n).epoch}
         /\ \A e \in DOMAIN Bufs(n) : Bufs(n)[e] \in BufferSet(n)
         /\ Ready(n) \subseteq DOMAIN Bufs(n)
         /\ \A e \in Ready(n) : Complete(n, Bufs(n)[e])
         /\ Cardinality(Ready(n)) \in Nat
         /\ Ready(n) = next[n]..next[n] + Cardinality(Ready(n)) - 1
  <1>1. Taken(n).epoch \in Nat \ {0}
    BY DEF Wares, ItemSet
  <1>2. /\ IsFiniteSet(DOMAIN epochs[n]) /\ DOMAIN epochs[n] \subseteq Nat \ {0}
        /\ \A e \in DOMAIN epochs[n] : epochs[n][e] \in BufferSet(n)
        /\ next[n] \in Nat \ {0}
    BY DEF Typed, EpochsTyped
  <1>3. DOMAIN Bufs(n) = DOMAIN epochs[n] \cup {Taken(n).epoch}
    BY DEF Bufs
  <1>4. IsFiniteSet(DOMAIN Bufs(n)) /\ DOMAIN Bufs(n) \subseteq Nat \ {0}
    BY <1>1, <1>2, <1>3, FS_AddElement
  <1>5. \A e \in DOMAIN Bufs(n) : Bufs(n)[e] \in BufferSet(n)
    BY <1>2, BufferedTyped DEF Bufs
  <1>6. /\ Ready(n) \in SUBSET (DOMAIN Bufs(n)) /\ Ready(n) \in SUBSET Nat
        /\ \A e \in Ready(n) : e >= next[n] /\ next[n]..e \subseteq Ready(n)
    <2>1. Ready(n) \in SUBSET (DOMAIN Bufs(n)) /\ Ready(n) \in SUBSET Nat
      BY <1>4 DEF Ready
    <2>2. ASSUME NEW e \in Ready(n)
          PROVE  e >= next[n] /\ next[n]..e \subseteq Ready(n)
      <3>1. /\ e \in Nat \ {0} /\ e \notin 1..next[n] - 1
            /\ \A x \in next[n]..e : x \in DOMAIN Bufs(n) /\ Complete(n, Bufs(n)[x])
        BY <1>4 DEF Ready
      <3>2. e >= next[n]
        BY <1>2, <3>1
      <3>3. ASSUME NEW x \in next[n]..e
            PROVE  x \in Ready(n)
        <4>1. \A y \in next[n]..x : y \in next[n]..e
          BY <1>2, <3>1
        <4>2. x \notin 1..next[n] - 1
          BY <1>2, <3>1
        <4>3. QED
          BY <3>1, <4>1, <4>2, Zenon DEF Ready
      <3>4. QED
        BY <3>2, <3>3
    <2>3. QED
      BY <2>1, <2>2
  <1>7. \A e \in Ready(n) : Complete(n, Bufs(n)[e])
    <2>1. ASSUME NEW e \in Ready(n) PROVE e \in next[n]..e
      BY <1>2, <1>4, <1>6
    <2>2. \A e \in Ready(n) : \A x \in next[n]..e : Complete(n, Bufs(n)[x])
      BY DEF Ready
    <2>3. QED
      BY <2>1, <2>2
  <1>8. IsFiniteSet(Ready(n))
    BY <1>4, <1>6, FS_Subset
  <1>9. Cardinality(Ready(n)) \in Nat /\ Ready(n) = next[n]..next[n] + Cardinality(Ready(n)) - 1
    BY <1>2, <1>6, <1>8, Contiguous
  <1>10. QED
    BY <1>3, <1>4, <1>5, <1>6, <1>7, <1>9

LEMMA SendsTyped ==
  ASSUME NEW n \in Nodes, NEW frames \in Seq(FrameSet)
  PROVE  Sends(n, frames) \in Seq(DownPushes)
  <1> DEFINE D(i) == DeliverDown(n, DownItem(frames[i], 0, NoFan, 0))
             ss == [i \in DOMAIN frames |-> D(i)]
  <1>1. Len(frames) \in Nat /\ DOMAIN frames = 1..Len(frames)
    BY LenProperties
  <1>2. \A i \in DOMAIN frames : D(i) \in Seq(DownPushes)
    <2>1. ASSUME NEW i \in DOMAIN frames PROVE D(i) \in Seq(DownPushes)
      <3>1. frames[i] \in FrameSet
        BY <1>1, ElementOfSeq
      <3>2. QED
        BY <3>1, DownPushIs
    <2>2. QED
      BY <2>1
  <1>3. Sends(n, frames) = Seqs!FlattenSeq(ss)
    BY DEF Sends
  <1>4. ss \in Seq(Seq(DownPushes))
    <2> HIDE DEF D
    <2>1. ss = [i \in 1..Len(frames) |-> D(i)]
      BY <1>1
    <2>2. QED
      BY <1>1, <1>2, <2>1, IsASeq
  <1> HIDE DEF ss
  <1>5. QED
    BY <1>3, <1>4, FlattenIs

LEMMA MergesTyped ==
  ASSUME Typed, NEW n \in Joins, CanTake(n), Taken(n) \in Wares,
         Taken(n).dir = "down", Taken(n).epoch # 0
  PROVE  /\ Merges(n) \in Seq(Seq(FrameSet))
         /\ DOMAIN Merges(n) = 1..Cardinality(Ready(n))
         /\ \A i \in DOMAIN Merges(n) :
              /\ next[n] + i - 1 \in Ready(n)
              /\ MergeOf(Merges(n)[i], Bufs(n)[next[n] + i - 1].per, Width[n])
         /\ Seqs!FlattenSeq(Merges(n)) \in Seq(FrameSet)
         /\ RowOf(Seqs!FlattenSeq(Merges(n)), Merges(n))
         /\ Sends(n, Seqs!FlattenSeq(Merges(n))) \in Seq(DownPushes)
  <1>1. PICK c \in Nat : c = Cardinality(Ready(n)) /\ Ready(n) = next[n]..next[n] + c - 1
    BY BufsTyped
  <1>2. next[n] \in Nat \ {0} /\ Width[n] \in Nat
    BY Topology DEF Typed
  <1>3. DOMAIN Merges(n) = 1..c /\ Merges(n) = [i \in 1..c |-> Merges(n)[i]]
    BY <1>1 DEF Merges
  <1>4. ASSUME NEW i \in 1..c
        PROVE  /\ next[n] + i - 1 \in Ready(n)
               /\ MergeOf(Merges(n)[i], Bufs(n)[next[n] + i - 1].per, Width[n])
    <2>1. next[n] + i - 1 \in Ready(n)
      <3>1. PICK a \in Nat : a = next[n]
        BY <1>2
      <3>2. a + i - 1 \in a..a + c - 1
        OBVIOUS
      <3>3. QED
        BY <1>1, <3>1, <3>2, Zenon
    <2>2. PICK per : per = Bufs(n)[next[n] + i - 1].per
      OBVIOUS
    <2>3. per \in [1..Width[n] -> Seq(FrameSet)]
      BY <2>1, <2>2, BufsTyped DEF BufferSet
    <2>4. Merges(n)[i] = MergeEpoch(per)
      BY <1>1, <2>2 DEF Merges
    <2>5. QED
      BY <1>2, <2>1, <2>2, <2>3, <2>4, MergeIs
  <1>5. Merges(n) \in Seq(Seq(FrameSet))
    <2>1. \A i \in 1..c : Merges(n)[i] \in Seq(FrameSet)
      BY <1>4 DEF MergeOf
    <2>2. QED
      BY <1>3, <2>1, IsASeq
  <1>6. PICK ss : ss = Merges(n)
    OBVIOUS
  <1>7. Seqs!FlattenSeq(ss) \in Seq(FrameSet) /\ RowOf(Seqs!FlattenSeq(ss), ss)
    BY <1>5, <1>6, FlattenIs
  <1>8. Sends(n, Seqs!FlattenSeq(ss)) \in Seq(DownPushes)
    BY <1>7, SendsTyped, Topology
  <1>9. QED
    BY <1>1, <1>3, <1>4, <1>5, <1>6, <1>7, <1>8

-----------------------------------------------------------------------------
(* Handling an item: what is pushed, and how many errors are in it.         *)
UpErrors == {q \in Wares : q.kind = "Error" /\ q.dir = "up"}

ErrorPushes == {p \in PushSet : p.q \in UpErrors}

ErrorOf(q) == IF q \in UpErrors THEN 1 ELSE 0

PushedErrors(p) == Cardinality(MarksAt(p, ErrorPushes))

Handles(n) ==
  /\ CanTake(n)
  /\ \/ n \in Fans /\ (FanForwards(n) \/ FanWave(n))
     \/ n \in Procs /\ (NodeBarrier(n) \/ NodeProcess(n))
     \/ n \in Joins /\ (JoinForwards(n) \/ JoinForeign(n) \/ JoinWave(n))

Took(n, p, k) ==
  /\ out' = [out EXCEPT ![n] = p]
  /\ \/ inbox' = [inbox EXCEPT ![n] = PopFront(@)]
     \/ inbox' = [inbox EXCEPT ![n] = DrainInterruptible(PopFront(@))]
  /\ UNCHANGED <<sent, arrived, onErrors>>
  /\ failures' = failures + k
  /\ PushedErrors(p) = ErrorOf(Taken(n)) + k

LEMMA StepsAre ==
  ASSUME NEW n
  PROVE  NodeStep(n) <=> Handles(n) \/ NodePush(n)
  BY DEF NodeStep, Handles

LEMMA TakenTyped ==
  ASSUME Typed, NEW n \in Nodes, CanTake(n)
  PROVE  /\ Taken(n) \in Wares
         /\ PopFront(inbox[n]) \in InboxSet(Wares)
         /\ DrainInterruptible(PopFront(inbox[n])) \in InboxSet(Wares)
  <1>1. ~IsEmpty(inbox[n]) /\ inbox[n] \in InboxSet(Wares)
    BY DEF CanTake, Typed
  <1>2. Front(inbox[n]) \in Wares /\ PopFront(inbox[n]) \in InboxSet(Wares)
    BY <1>1, PopFrontType
  <1>3. QED
    BY <1>2, DrainType DEF Taken

LEMMA NoErrorsDown ==
  /\ \A p \in Seq(DownPushes) : p \in Seq(PushSet) /\ PushedErrors(p) = 0
  /\ <<>> \in Seq(DownPushes)
  <1>1. ASSUME NEW p \in Seq(DownPushes)
        PROVE  p \in Seq(PushSet) /\ PushedErrors(p) = 0
    <2>1. \A i \in DOMAIN p : p[i] \in DownPushes
      BY LenProperties, ElementOfSeq
    <2>2. MarksAt(p, ErrorPushes) = {}
      BY <2>1 DEF MarksAt, ErrorPushes, UpErrors, DownPushes
    <2>3. p \in Seq(PushSet)
      BY SeqMonotonic DEF DownPushes
    <2>4. QED
      BY <2>2, <2>3, FS_EmptySet DEF PushedErrors
  <1>2. QED
    BY <1>1, EmptySeq

LEMMA UpPushIs ==
  ASSUME NEW n \in Nodes, NEW f \in FrameSet
  PROVE  /\ DeliverUp(n, f) \in Seq(PushSet)
         /\ PushedErrors(DeliverUp(n, f)) = IF f.kind = "Error" THEN 1 ELSE 0
  <1> DEFINE e == Push(Up[n], UpItem(f))
  <1>1. UpItem(f) \in Wares /\ UpItem(f).dir = "up" /\ UpItem(f).kind = f.kind
    BY FramesOfItems DEF UpItem, Item
  <1>2. Up[n] \in Nodes \cup {"sink", "source"} /\ Up[n] # "sink"
    BY Topology
  <1>3. e \in PushSet /\ (e \in ErrorPushes <=> f.kind = "Error")
    BY <1>1, <1>2 DEF Push, PushSet, ErrorPushes, UpErrors
  <1>4. DeliverUp(n, f) = Append(<<>>, e)
    BY DEF DeliverUp
  <1> HIDE DEF e
  <1>5. <<>> \in Seq(PushSet) /\ PushedErrors(<<>>) = 0
    BY NoErrorsDown
  <1>6. /\ Append(<<>>, e) \in Seq(PushSet)
        /\ Cardinality(MarksAt(Append(<<>>, e), ErrorPushes)) =
             Cardinality(MarksAt(<<>>, ErrorPushes)) + (IF e \in ErrorPushes THEN 1 ELSE 0)
    <2>1. \A x \in Seq(PushSet), z \in PushSet :
            /\ Append(x, z) \in Seq(PushSet)
            /\ Cardinality(MarksAt(Append(x, z), ErrorPushes)) =
                 Cardinality(MarksAt(x, ErrorPushes)) + (IF z \in ErrorPushes THEN 1 ELSE 0)
      BY MarksAfterAppend, AppendProperties
    <2>2. QED
      BY <1>3, <1>5, <2>1, Zenon
  <1>7. PushedErrors(Append(<<>>, e)) = PushedErrors(<<>>) + (IF e \in ErrorPushes THEN 1 ELSE 0)
    BY <1>6, Zenon DEF PushedErrors
  <1>8. PushedErrors(DeliverUp(n, f)) = 0 + (IF e \in ErrorPushes THEN 1 ELSE 0)
    BY <1>4, <1>5, <1>7, Zenon
  <1>9. QED
    BY <1>3, <1>4, <1>6, <1>8

(* A processor passes on the error it takes, whatever it does, and makes    *)
(* one when it fails.                                                       *)
LEMMA EmittedErrors ==
  ASSUME NEW n \in Nodes, NEW q \in Wares, q.ctrl = "none", NEW b \in Behaviours
  PROVE  /\ Emitted(n, b, q) \in Seq(PushSet)
         /\ PushedErrors(Emitted(n, b, q)) = ErrorOf(q) + (IF b = "fail" THEN 1 ELSE 0)
  <1> DEFINE s == IF b = "side" /\ q.dir = "down"
                  THEN DeliverDown(n, DownItem(SideFrame(n, q), q.epoch, q.fan, 0)) ELSE <<>>
             t == IF b = "fail" THEN DeliverUp(n, Frame("Error", 0, n)) ELSE <<>>
             u == CASE ~Relayed(b, q) -> <<>>
                    [] Relayed(b, q) /\ q.dir = "up" -> DeliverUp(n, FrameOf(q))
                    [] Relayed(b, q) /\ q.dir = "down" ->
                         DeliverDown(n, DownItem(FrameOf(q), q.epoch, q.fan, 0))
  <1>1. Emitted(n, b, q) = s \o t \o u
    BY DEF Emitted
  <1>2. /\ FrameOf(q) \in FrameSet /\ q.epoch \in Nat /\ q.fan \in Fans \cup {NoFan}
        /\ q.dir \in {"up", "down"} /\ FrameOf(q).kind = q.kind
    BY FramesOfItems DEF Wares, ItemSet, FrameOf, Frame
  <1>3. /\ SideFrame(n, q) \in FrameSet
        /\ Frame("Error", 0, n) \in FrameSet /\ Frame("Error", 0, n).kind = "Error"
    BY DEF SideFrame, Frame, FrameSet, Wares, ItemSet, FrameKinds, SystemKinds, DataKinds
  <1>4. <<>> \in Seq(PushSet) /\ PushedErrors(<<>>) = 0
    BY NoErrorsDown
  <1>5. s \in Seq(PushSet) /\ PushedErrors(s) = 0
    <2>1. DeliverDown(n, DownItem(SideFrame(n, q), q.epoch, q.fan, 0)) \in Seq(DownPushes)
      BY <1>2, <1>3, DownPushIs
    <2>2. QED
      BY <1>4, <2>1, NoErrorsDown
  <1>6. t \in Seq(PushSet) /\ PushedErrors(t) = IF b = "fail" THEN 1 ELSE 0
    BY <1>3, <1>4, UpPushIs
  <1>7. u \in Seq(PushSet) /\ PushedErrors(u) = ErrorOf(q)
    <2>1. CASE q.dir = "up"
      <3>1. q.kind = "Error" => Relayed(b, q)
        BY <2>1 DEF Relayed, AutoForwardUp
      <3>2. ErrorOf(q) = IF q.kind = "Error" THEN 1 ELSE 0
        BY <2>1 DEF ErrorOf, UpErrors
      <3>3. u = IF Relayed(b, q) THEN DeliverUp(n, FrameOf(q)) ELSE <<>>
        BY <2>1
      <3>4. /\ DeliverUp(n, FrameOf(q)) \in Seq(PushSet)
            /\ PushedErrors(DeliverUp(n, FrameOf(q))) = IF q.kind = "Error" THEN 1 ELSE 0
        BY <1>2, UpPushIs
      <3>5. QED
        BY <1>4, <3>1, <3>2, <3>3, <3>4
    <2>2. CASE q.dir = "down"
      <3>1. ErrorOf(q) = 0
        BY <2>2 DEF ErrorOf, UpErrors
      <3>2. u = IF Relayed(b, q) THEN DeliverDown(n, DownItem(FrameOf(q), q.epoch, q.fan, 0))
                ELSE <<>>
        BY <2>2
      <3>3. DeliverDown(n, DownItem(FrameOf(q), q.epoch, q.fan, 0)) \in Seq(DownPushes)
        BY <1>2, DownPushIs
      <3>4. QED
        BY <1>4, <3>1, <3>2, <3>3, NoErrorsDown
    <2>3. QED
      BY <1>2, <2>1, <2>2
  <1> HIDE DEF s, t, u
  <1>8. s \o t \in Seq(PushSet) /\ PushedErrors(s \o t) = PushedErrors(s) + PushedErrors(t)
    BY <1>5, <1>6, MarksAfterConcat, ConcatProperties DEF PushedErrors
  <1>9. PICK v \in Seq(PushSet) : v = s \o t
    BY <1>8
  <1>10. v \o u \in Seq(PushSet) /\ PushedErrors(v \o u) = PushedErrors(v) + PushedErrors(u)
    BY <1>7, MarksAfterConcat, ConcatProperties DEF PushedErrors
  <1>11. PushedErrors(v) = IF b = "fail" THEN 1 ELSE 0
    BY <1>5, <1>6, <1>8, <1>9
  <1>12. PushedErrors(v \o u) = (IF b = "fail" THEN 1 ELSE 0) + ErrorOf(q)
    BY <1>7, <1>10, <1>11
  <1>13. Emitted(n, b, q) = v \o u
    BY <1>1, <1>9, Zenon
  <1>14. QED
    BY <1>10, <1>12, <1>13 DEF ErrorOf

(* Every handler takes the first item and sends its error on, or one more.  *)
LEMMA HandlingIs ==
  ASSUME Typed, NEW n \in Nodes, Handles(n)
  PROVE  \E p \in Seq(PushSet), k \in {0, 1} : Took(n, p, k)
  <1> DEFINE q == Taken(n)
  <1>1. /\ CanTake(n) /\ q \in Wares
        /\ q.dir \in {"up", "down"} /\ q.ctrl \in {"none", "barrier"}
        /\ q.epoch \in Nat /\ q.fan \in Fans \cup {NoFan} /\ failures \in Nat
    BY TakenTyped DEF Handles, Typed, Wares, ItemSet
  <1> HIDE DEF q
  (* What goes down holds no error. *)
  <1>2. ASSUME NEW p \in Seq(DownPushes), TakeAnd(n, p), PopOnly(n),
               UNCHANGED <<sent, arrived, onErrors, failures>>, q \notin UpErrors
        PROVE  \E r \in Seq(PushSet), k \in {0, 1} : Took(n, r, k)
    <2>1. p \in Seq(PushSet) /\ PushedErrors(p) = 0 /\ ErrorOf(q) = 0
      BY <1>2, NoErrorsDown DEF ErrorOf
    <2>2. Took(n, p, 0)
      BY <1>1, <1>2, <2>1 DEF Took, TakeAnd, PopOnly, q
    <2>3. QED
      BY <2>1, <2>2
  <1>3. ASSUME TakeAnd(n, DeliverUp(n, FrameOf(q))), PopOnly(n),
               UNCHANGED <<sent, arrived, onErrors, failures>>, q.dir = "up"
        PROVE  \E r \in Seq(PushSet), k \in {0, 1} : Took(n, r, k)
    <2>1. FrameOf(q) \in FrameSet /\ FrameOf(q).kind = q.kind
      BY <1>1, <1>3, FramesOfItems DEF FrameOf, Frame
    <2>2. /\ DeliverUp(n, FrameOf(q)) \in Seq(PushSet)
          /\ PushedErrors(DeliverUp(n, FrameOf(q))) = IF q.kind = "Error" THEN 1 ELSE 0
      BY <2>1, UpPushIs
    <2>3. ErrorOf(q) = IF q.kind = "Error" THEN 1 ELSE 0
      BY <1>1, <1>3 DEF ErrorOf, UpErrors
    <2>4. Took(n, DeliverUp(n, FrameOf(q)), 0)
      BY <1>1, <1>3, <2>2, <2>3 DEF Took, TakeAnd, PopOnly, q
    <2>5. QED
      BY <2>2, <2>4
  <1>4. q.ctrl = "barrier" => q.dir = "down" /\ q \notin UpErrors
    BY <1>1 DEF Wares, UpErrors
  <1>5. q.dir = "down" => q \notin UpErrors
    BY DEF UpErrors
  <1>6. ASSUME n \in Fans, FanForwards(n)
        PROVE  \E p \in Seq(PushSet), k \in {0, 1} : Took(n, p, k)
    <2>1. CASE q.dir = "up"
      BY <1>3, <1>6, <2>1 DEF FanForwards, q
    <2>2. CASE q.dir # "up"
      <3> DEFINE f == [i \in DOMAIN Down[n] |-> [q EXCEPT !.branch = i]]
      <3>1. /\ TakeAnd(n, [i \in DOMAIN Down[n] |-> Push(Down[n][i], [q EXCEPT !.branch = i])])
            /\ PopOnly(n) /\ UNCHANGED <<sent, arrived, onErrors, failures>>
        BY <1>6, <2>2 DEF FanForwards, ToBranches, q
      <3>2. \A i \in DOMAIN Down[n] : f[i] \in Wares /\ f[i].dir = "down"
        <4>1. \A i \in DOMAIN Down[n] : i \in Nat
          BY Topology
        <4>2. q \in Wares /\ q.dir = "down"
          BY <1>1, <2>2
        <4>3. QED
          BY <4>1, <4>2, Branched
      <3>3. [i \in DOMAIN Down[n] |-> Push(Down[n][i], f[i])] \in Seq(DownPushes)
        BY <3>2, ToBranchesIs
      <3>4. TakeAnd(n, [i \in DOMAIN Down[n] |-> Push(Down[n][i], f[i])])
        BY <3>1
      <3>5. q \notin UpErrors
        BY <1>1, <1>5, <2>2
      <3>6. QED
        BY <1>2, <3>1, <3>3, <3>4, <3>5
    <2>3. QED
      BY <2>1, <2>2
  <1>7. ASSUME n \in Fans, FanWave(n)
        PROVE  \E p \in Seq(PushSet), k \in {0, 1} : Took(n, p, k)
    <2> DEFINE e == fanSeq[n] + 1
               f == [i \in DOMAIN Down[n] |-> DownItem(FrameOf(q), e, n, i)]
               g == [i \in DOMAIN Down[n] |-> Barrier(e, n, i)]
               s == [i \in DOMAIN Down[n] |-> Push(Down[n][i], f[i])]
               t == [i \in DOMAIN Down[n] |-> Push(Down[n][i], g[i])]
    <2>1. q.ctrl = "none" /\ q.dir = "down" /\ e \in Nat /\ FrameOf(q) \in FrameSet
      <3>1. q.ctrl = "none" /\ q.dir = "down"
        BY <1>7 DEF FanWave, q
      <3>2. e \in Nat
        BY <1>7 DEF Typed
      <3>3. QED
        BY <1>1, <3>1, <3>2, FramesOfItems
    <2>2. /\ \A i \in DOMAIN Down[n] : f[i] \in Wares /\ f[i].dir = "down"
          /\ \A i \in DOMAIN Down[n] : g[i] \in Wares /\ g[i].dir = "down"
      <3> HIDE DEF e
      <3>1. \A i \in DOMAIN Down[n] : i \in Nat
        BY Topology
      <3>2. n \in Fans \cup {NoFan}
        BY <1>7
      <3>3. QED
        BY <2>1, <3>1, <3>2, FramesOfItems
    <2>3. s \in Seq(DownPushes)
      <3> HIDE DEF f
      <3>1. QED
        BY <2>2, ToBranchesIs
    <2>4. t \in Seq(DownPushes)
      <3> HIDE DEF g
      <3>1. QED
        BY <2>2, ToBranchesIs
    <2>5. /\ TakeAnd(n, s \o t) /\ PopOnly(n)
          /\ UNCHANGED <<sent, arrived, onErrors, failures>>
      BY <1>7 DEF FanWave, ToBranches, q
    <2> HIDE DEF s, t
    <2>6. s \o t \in Seq(DownPushes)
      BY <2>3, <2>4, ConcatProperties
    <2>7. QED
      BY <1>2, <1>5, <2>1, <2>5, <2>6
  <1>8. ASSUME n \in Procs, NodeBarrier(n)
        PROVE  \E p \in Seq(PushSet), k \in {0, 1} : Took(n, p, k)
    <2>1. /\ q.ctrl = "barrier" /\ TakeAnd(n, DeliverDown(n, q)) /\ PopOnly(n)
          /\ UNCHANGED <<sent, arrived, onErrors, failures>>
      BY <1>8 DEF NodeBarrier, q
    <2>2. DeliverDown(n, q) \in Seq(DownPushes)
      BY <1>1, <1>4, <2>1, DeliverDownIs
    <2>3. QED
      BY <1>2, <1>4, <2>1, <2>2
  <1>9. ASSUME n \in Procs, NodeProcess(n)
        PROVE  \E p \in Seq(PushSet), k \in {0, 1} : Took(n, p, k)
    <2>1. PICK b \in Behaviours : /\ TakeAnd(n, Emitted(n, b, q))
                                  /\ failures' = IF b = "fail" THEN failures + 1 ELSE failures
      BY <1>9 DEF NodeProcess, q
    <2> DEFINE k == IF b = "fail" THEN 1 ELSE 0
    <2>2. /\ Emitted(n, b, q) \in Seq(PushSet)
          /\ PushedErrors(Emitted(n, b, q)) = ErrorOf(q) + k
      BY <1>1, <1>9, EmittedErrors DEF NodeProcess, q
    <2>3. /\ \/ inbox' = [inbox EXCEPT ![n] = PopFront(@)]
             \/ inbox' = [inbox EXCEPT ![n] = DrainInterruptible(PopFront(@))]
          /\ UNCHANGED <<sent, arrived, onErrors>>
      BY <1>9 DEF NodeProcess
    <2>4. failures' = failures + k /\ k \in {0, 1}
      BY <1>1, <2>1
    <2> HIDE DEF k
    <2>5. Took(n, Emitted(n, b, q), k)
      BY <2>1, <2>2, <2>3, <2>4 DEF Took, TakeAnd, q
    <2>6. QED
      BY <2>2, <2>4, <2>5
  <1>10. ASSUME n \in Joins, JoinForwards(n)
         PROVE  \E p \in Seq(PushSet), k \in {0, 1} : Took(n, p, k)
    <2>1. CASE q.dir = "up"
      BY <1>3, <1>10, <2>1 DEF JoinForwards, q
    <2>2. CASE q.dir # "up"
      <3>1. /\ q.ctrl = "none" /\ PopOnly(n) /\ UNCHANGED <<sent, arrived, onErrors, failures>>
            /\ TakeAnd(n, DeliverDown(n, DownItem(FrameOf(q), 0, NoFan, 0)))
        BY <1>10, <2>2 DEF JoinForwards, q
      <3>2. DeliverDown(n, DownItem(FrameOf(q), 0, NoFan, 0)) \in Seq(DownPushes)
        BY <1>1, <3>1, FramesOfItems, DownPushIs
      <3>3. QED
        BY <1>1, <1>2, <1>5, <2>2, <3>1, <3>2
    <2>3. QED
      BY <2>1, <2>2
  <1>11. ASSUME n \in Joins, JoinForeign(n)
         PROVE  \E p \in Seq(PushSet), k \in {0, 1} : Took(n, p, k)
    <2>1. /\ q.ctrl = "barrier" /\ PopOnly(n) /\ UNCHANGED <<sent, arrived, onErrors, failures>>
          /\ \/ TakeAnd(n, DeliverDown(n, Barrier(q.epoch, q.fan, 0)))
             \/ TakeAnd(n, <<>>)
      BY <1>11 DEF JoinForeign, q
    <2>2. DeliverDown(n, Barrier(q.epoch, q.fan, 0)) \in Seq(DownPushes)
      <3>1. PICK e \in Nat, x \in Fans \cup {NoFan} : e = q.epoch /\ x = q.fan
        BY <1>1
      <3>2. PICK r : r = Barrier(e, x, 0)
        OBVIOUS
      <3>3. r \in Wares /\ r.dir = "down"
        BY <3>2, FramesOfItems
      <3>4. QED
        BY <3>1, <3>2, <3>3, DeliverDownIs
    <2>3. QED
      BY <1>2, <1>4, <2>1, <2>2, NoErrorsDown
  <1>12. ASSUME n \in Joins, JoinWave(n)
         PROVE  \E p \in Seq(PushSet), k \in {0, 1} : Took(n, p, k)
    <2>1. /\ q.dir = "down" /\ q.epoch # 0
          /\ TakeAnd(n, Sends(n, Seqs!FlattenSeq(Merges(n)))) /\ PopOnly(n)
          /\ UNCHANGED <<sent, arrived, onErrors, failures>>
      BY <1>12, JoinWaveIs DEF q
    <2>2. Sends(n, Seqs!FlattenSeq(Merges(n))) \in Seq(DownPushes)
      BY <1>1, <1>12, <2>1, MergesTyped DEF q
    <2>3. QED
      BY <1>2, <1>5, <2>1, <2>2
  <1>13. QED
    BY <1>6, <1>7, <1>8, <1>9, <1>10, <1>11, <1>12 DEF Handles

LEMMA InitTyped == Init => Typed
  <1> SUFFICES ASSUME Init PROVE Typed
    OBVIOUS
  <1>1. EmptyInbox \in InboxSet(Wares)
    BY EmptySeq DEF EmptyInbox, InboxSet
  <1>2. <<>> \in Seq(PushSet) /\ <<>> \in Seq(FrameSet) /\ DOMAIN <<>> = {} /\ IsFiniteSet({})
    BY FS_EmptySet
  <1>3. EpochsTyped
    BY <1>2 DEF Init, EpochsTyped
  <1>4. sent \in 0..Len(Script)
    BY Topology DEF Init
  <1>5. inbox \in [Nodes -> InboxSet(Wares)] /\ out \in [Nodes -> Seq(PushSet)]
    BY <1>1, <1>2 DEF Init
  <1>6. QED
    BY <1>2, <1>3, <1>4, <1>5 DEF Init, Typed

LEMMA NextTyped == Typed /\ [Next]_vars => Typed'
  <1> SUFFICES ASSUME Typed, [Next]_vars PROVE Typed'
    OBVIOUS
  <1>1. CASE ClientPush
    <2> DEFINE f == Frame(Script[sent + 1], sent + 1, "client")
               q == DownItem(f, 0, NoFan, 0)
    <2>1. sent + 1 \in 1..Len(Script) /\ f \in FrameSet
      BY <1>1, Topology DEF ClientPush, Typed, Frame, FrameSet
    <2>2. q \in Wares
      BY <2>1, FramesOfItems
    <2> HIDE DEF q, f
    <2>3. inbox' = [inbox EXCEPT ![HeadNode] = Enqueue(@, q)] /\ sent' = sent + 1
      BY <1>1 DEF ClientPush, q, f
    <2>4. Enqueue(inbox[HeadNode], q) \in InboxSet(Wares)
      BY <2>2, EnqueueType, Topology DEF Typed
    <2>5. inbox' \in [Nodes -> InboxSet(Wares)] /\ sent' \in 0..Len(Script)
      <3>1. inbox' \in [Nodes -> InboxSet(Wares)]
        BY <2>3, <2>4 DEF Typed
      <3>2. sent' \in 0..Len(Script)
        BY <2>1, <2>3, Topology
      <3>3. QED
        BY <3>1, <3>2
    <2>6. QED
      BY <1>1, <2>5 DEF ClientPush, Typed, EpochsTyped
  <1>2. ASSUME NEW n \in Nodes, NodePush(n)
        PROVE  Typed'
    <2> DEFINE p == Head(out[n])
    <2>1. out[n] \in Seq(PushSet) /\ out[n] # <<>>
      BY <1>2 DEF Typed, NodePush
    <2>2. p \in PushSet /\ Tail(out[n]) \in Seq(PushSet)
      BY <2>1, HeadTailProperties
    <2> HIDE DEF p
    <2>3. /\ out' = [out EXCEPT ![n] = Tail(@)]
          /\ UNCHANGED <<fanSeq, next, epochs, foreign, sent, order, failures>>
          /\ \/ /\ p.to \in Nodes /\ inbox' = [inbox EXCEPT ![p.to] = Enqueue(@, p.q)]
                /\ UNCHANGED <<arrived, onErrors>>
             \/ /\ p.to = "sink" /\ arrived' = Append(arrived, FrameOf(p.q))
                /\ UNCHANGED <<inbox, onErrors>>
             \/ /\ p.to = "source" /\ UNCHANGED <<inbox, arrived>>
                /\ onErrors' = IF p.q.kind = "Error" THEN onErrors + 1 ELSE onErrors
      BY <1>2 DEF NodePush, p
    <2>4. out' \in [Nodes -> Seq(PushSet)]
      BY <2>2, <2>3 DEF Typed
    <2>5. p.q \in Wares /\ (p.to = "sink" => FrameOf(p.q) \in FrameSet)
      BY <2>2, FramesOfItems DEF PushSet
    <2>6. inbox' \in [Nodes -> InboxSet(Wares)]
      <3>1. p.to \in Nodes => Enqueue(inbox[p.to], p.q) \in InboxSet(Wares)
        BY <2>5, EnqueueType DEF Typed
      <3>2. QED
        BY <2>3, <3>1 DEF Typed
    <2>7. arrived' \in Seq(FrameSet)
      <3>1. p.to = "sink" => Append(arrived, FrameOf(p.q)) \in Seq(FrameSet)
        BY <2>5, AppendProperties DEF Typed
      <3>2. QED
        BY <2>3, <3>1 DEF Typed
    <2>8. onErrors' \in Nat
      BY <2>3 DEF Typed
    <2>9. QED
      BY <2>3, <2>4, <2>6, <2>7, <2>8 DEF Typed, EpochsTyped
  <1>3. ASSUME NEW n \in Nodes, Handles(n)
        PROVE  Typed'
    <2>1. PICK p \in Seq(PushSet), k \in {0, 1} : Took(n, p, k)
      BY <1>3, HandlingIs
    <2>2. CanTake(n)
      BY <1>3 DEF Handles
    <2>3. out' \in [Nodes -> Seq(PushSet)]
      BY <2>1 DEF Took, Typed
    <2>4. inbox' \in [Nodes -> InboxSet(Wares)]
      BY <2>1, <2>2, TakenTyped DEF Took, Typed
    <2>5. failures' \in Nat /\ UNCHANGED <<sent, arrived, onErrors>>
      BY <2>1 DEF Took, Typed
    <2>6. fanSeq' \in [Fans -> Nat] /\ order' \in [Fans -> Seq(FrameSet)]
      <3>1. CASE n \in Fans /\ FanWave(n)
        <4>1. FrameOf(Taken(n)) \in FrameSet
          BY <2>2, <3>1, TakenTyped, FramesOfItems DEF FanWave
        <4>2. Append(order[n], FrameOf(Taken(n))) \in Seq(FrameSet)
          BY <3>1, <4>1, AppendProperties DEF Typed
        <4>3. QED
          BY <3>1, <4>2 DEF FanWave, Typed
      <3>2. CASE ~(n \in Fans /\ FanWave(n))
        <4>1. UNCHANGED <<fanSeq, order>>
          BY <1>3, <3>2
          DEF Handles, FanForwards, NodeBarrier, NodeProcess, JoinForwards, JoinForeign, JoinWave
        <4>2. QED
          BY <4>1 DEF Typed
      <3>3. QED
        BY <3>1, <3>2
    <2>7. next' \in [Joins -> Nat \ {0}] /\ EpochsTyped'
      <3>1. CASE n \in Joins /\ JoinWave(n)
        <4>1. PICK c \in Nat : c = Cardinality(Ready(n))
          BY <2>2, <3>1, TakenTyped, BufsTyped DEF JoinWave
        <4>2. next' = [next EXCEPT ![n] = @ + c]
          BY <3>1, <4>1, JoinWaveIs
        <4>3. next' \in [Joins -> Nat \ {0}]
          BY <3>1, <4>2 DEF Typed
        <4>4. PICK v : v = [e \in DOMAIN Bufs(n) \ Ready(n) |-> Bufs(n)[e]]
          OBVIOUS
        <4>5. epochs' = [epochs EXCEPT ![n] = v]
          BY <3>1, <4>4, JoinWaveIs
        <4>6. /\ IsFiniteSet(DOMAIN v) /\ DOMAIN v \subseteq Nat \ {0}
              /\ \A e \in DOMAIN v : v[e] \in BufferSet(n)
          <5>1. /\ IsFiniteSet(DOMAIN Bufs(n)) /\ DOMAIN Bufs(n) \subseteq Nat \ {0}
                /\ \A e \in DOMAIN Bufs(n) : Bufs(n)[e] \in BufferSet(n)
            BY <2>2, <3>1, TakenTyped, BufsTyped DEF JoinWave
          <5>2. DOMAIN v \in SUBSET (DOMAIN Bufs(n)) /\ \A e \in DOMAIN v : v[e] = Bufs(n)[e]
            BY <4>4
          <5>3. QED
            BY <5>1, <5>2, FS_Subset
        <4>7. EpochsTyped'
          BY <3>1, <4>5, <4>6 DEF Typed, EpochsTyped, BufferSet
        <4>8. QED
          BY <4>3, <4>7
      <3>2. CASE ~(n \in Joins /\ JoinWave(n))
        <4>1. UNCHANGED <<next, epochs>>
          BY <1>3, <3>2
          DEF Handles, FanForwards, FanWave, NodeBarrier, NodeProcess, JoinForwards, JoinForeign
        <4>2. QED
          BY <4>1 DEF Typed, EpochsTyped
      <3>3. QED
        BY <3>1, <3>2
    <2>8. QED
      BY <2>3, <2>4, <2>5, <2>6, <2>7 DEF Typed
  <1>4. CASE UNCHANGED vars
    BY <1>4 DEF vars, Typed, EpochsTyped
  <1>5. QED
    BY <1>1, <1>2, <1>3, <1>4, StepsAre DEF Next

-----------------------------------------------------------------------------
(* The errors on their way up, in any topology: at a node are those in its  *)
(* inbox and those it has still to push.                                    *)
ErrorsAt ==
  [n \in Nodes |-> Cardinality(MarksAt(inbox[n].sys, UpErrors)) + PushedErrors(out[n])]

ErrorsInLane == \A n \in Nodes : NoneBesides(inbox[n], Wares, UpErrors)

ErrorsCounted == failures = onErrors + Total(ErrorsAt)

CountsAreNumbers ==
  /\ ErrorsAt \in [Nodes -> Nat]
  /\ \A n \in Nodes : /\ Cardinality(MarksAt(inbox[n].sys, UpErrors)) \in Nat
                      /\ PushedErrors(out[n]) \in Nat
                      /\ out[n] = <<>> => PushedErrors(out[n]) = 0

LEMMA ErrorsAreSystem ==
  \A q \in UpErrors : Lane(q) = "sys" /\ ~IsAudio(q)
  BY DEF UpErrors, Wares, ItemSet, Lane, IsAudio, IsSystem, SystemKinds

LEMMA CountsTyped == Typed => CountsAreNumbers
  <1> SUFFICES ASSUME Typed PROVE CountsAreNumbers
    OBVIOUS
  <1>1. ASSUME NEW n \in Nodes
        PROVE  /\ Cardinality(MarksAt(inbox[n].sys, UpErrors)) \in Nat
               /\ PushedErrors(out[n]) \in Nat
               /\ out[n] = <<>> => PushedErrors(out[n]) = 0
    <2>1. inbox[n].sys \in Seq(Wares) /\ out[n] \in Seq(PushSet)
      BY DEF Typed, InboxSet
    <2>2. QED
      BY <2>1, MarksAfterKeep, NoErrorsDown DEF PushedErrors
  <1>2. QED
    BY <1>1 DEF ErrorsAt, CountsAreNumbers

LEMMA CountsTypedNext == Typed' => CountsAreNumbers'
  BY CountsTyped, PTL

LEMMA SumOfErrors ==
  ASSUME Typed
  PROVE  ErrorsReportedOnce <=> ErrorsCounted
  <1> DEFINE f == [n \in Nodes |->
               Cardinality({i \in DOMAIN inbox[n].sys :
                   inbox[n].sys[i].kind = "Error" /\ inbox[n].sys[i].dir = "up"})
               + Cardinality({i \in DOMAIN out[n] :
                   out[n][i].q.kind = "Error" /\ out[n][i].q.dir = "up"})]
  <1>1. ErrorsGoingUp = f
    BY DEF ErrorsGoingUp
  <1>2. f = ErrorsAt
    <2>1. ASSUME NEW n \in Nodes
          PROVE  /\ MarksAt(inbox[n].sys, UpErrors) =
                      {i \in DOMAIN inbox[n].sys :
                         inbox[n].sys[i].kind = "Error" /\ inbox[n].sys[i].dir = "up"}
                 /\ MarksAt(out[n], ErrorPushes) =
                      {i \in DOMAIN out[n] :
                         out[n][i].q.kind = "Error" /\ out[n][i].q.dir = "up"}
      <3>1. inbox[n].sys \in Seq(Wares) /\ out[n] \in Seq(PushSet)
        BY DEF Typed, InboxSet
      <3>2. /\ \A i \in DOMAIN inbox[n].sys : inbox[n].sys[i] \in Wares
            /\ \A i \in DOMAIN out[n] : out[n][i] \in PushSet /\ out[n][i].q \in Wares
        BY <3>1, LenProperties, ElementOfSeq DEF PushSet
      <3>3. QED
        BY <3>2 DEF MarksAt, UpErrors, ErrorPushes
    <2>2. QED
      BY <2>1 DEF ErrorsAt, PushedErrors
  <1>3. ErrorsReportedOnce <=> failures = onErrors + Total(ErrorsGoingUp)
    BY DEF ErrorsReportedOnce, Total, Fun!FoldFunction, Fun!FoldFunctionOnSet,
           Fun!MapThenFoldSet, FoldFunction, FoldFunctionOnSet, MapThenFoldSet
  <1> HIDE DEF f
  <1>4. QED
    BY <1>1, <1>2, <1>3 DEF ErrorsCounted

LEMMA InitErrors == Init => ErrorsInLane /\ ErrorsCounted
  <1> SUFFICES ASSUME Init PROVE ErrorsInLane /\ ErrorsCounted
    OBVIOUS
  <1>1. \A n \in Nodes : inbox[n] = EmptyInbox /\ out[n] = <<>>
    BY DEF Init
  <1>2. NoneBesides(EmptyInbox, Wares, UpErrors)
    BY EmptySeq DEF NoneBesides, EmptyInbox
  <1>3. MarksAt(<<>>, UpErrors) = {} /\ Cardinality({}) = 0
    BY FS_EmptySet DEF MarksAt
  <1>4. CountsAreNumbers
    BY InitTyped, CountsTyped
  <1>5. \A n \in Nodes : ErrorsAt[n] = 0
    <2>1. ASSUME NEW n \in Nodes PROVE ErrorsAt[n] = 0
      <3>1. inbox[n].sys = <<>> /\ PushedErrors(out[n]) = 0
        BY <1>1, <1>4 DEF EmptyInbox, CountsAreNumbers
      <3>2. Cardinality(MarksAt(inbox[n].sys, UpErrors)) = 0
        BY <1>3, <3>1, Zenon
      <3>3. QED
        BY <3>1, <3>2 DEF ErrorsAt
    <2>2. QED
      BY <2>1
  <1>6. Total(ErrorsAt) = 0
    BY <1>4, <1>5, Topology, TotalOfZeros DEF CountsAreNumbers
  <1>7. QED
    BY <1>1, <1>2, <1>6 DEF Init, ErrorsInLane, ErrorsCounted

(* What a pop, a drain and a push do to the errors of one inbox.            *)
LEMMA PoppedErrors ==
  ASSUME NEW in \in InboxSet(Wares), NoneBesides(in, Wares, UpErrors), ~IsEmpty(in),
         NEW r \in {PopFront(in), DrainInterruptible(PopFront(in))}
  PROVE  /\ NoneBesides(r, Wares, UpErrors)
         /\ Cardinality(MarksAt(in.sys, UpErrors)) =
              Cardinality(MarksAt(r.sys, UpErrors)) + ErrorOf(Front(in))
         /\ Cardinality(MarksAt(r.sys, UpErrors)) \in Nat
  <1>1. PICK s : s = PopFront(in)
    OBVIOUS
  <1>2. s \in InboxSet(Wares)
    BY <1>1, PopFrontType
  <1>3. ~IsEmpty(in) =>
              /\ NoneBesides(PopFront(in), Wares, UpErrors)
              /\ Cardinality(MarksAt(PopFront(in).sys, UpErrors)) \in Nat
              /\ Cardinality(MarksAt(in.sys, UpErrors)) =
                   Cardinality(MarksAt(PopFront(in).sys, UpErrors))
                     + (IF Front(in) \in UpErrors THEN 1 ELSE 0)
    BY ErrorsAreSystem, SystemMarks
  <1>4. NoneBesides(s, Wares, UpErrors)
    BY <1>1, <1>3
  <1>5. /\ NoneBesides(DrainInterruptible(s), Wares, UpErrors)
        /\ DrainInterruptible(s).sys = s.sys
    BY <1>2, <1>4, ErrorsAreSystem, SystemMarks
  <1>6. r = s \/ r = DrainInterruptible(s)
    BY <1>1
  <1>7. NoneBesides(r, Wares, UpErrors) /\ r.sys = s.sys
    BY <1>4, <1>5, <1>6
  <1>8. QED
    BY <1>1, <1>3, <1>7 DEF ErrorOf

LEMMA QueuedErrors ==
  ASSUME NEW in \in InboxSet(Wares), NoneBesides(in, Wares, UpErrors), NEW q \in Wares
  PROVE  /\ NoneBesides(Enqueue(in, q), Wares, UpErrors)
         /\ Cardinality(MarksAt(Enqueue(in, q).sys, UpErrors)) =
              Cardinality(MarksAt(in.sys, UpErrors)) + ErrorOf(q)
  <1>1. \A r \in Wares :
              /\ NoneBesides(Enqueue(in, r), Wares, UpErrors)
              /\ Cardinality(MarksAt(Enqueue(in, r).sys, UpErrors)) =
                   Cardinality(MarksAt(in.sys, UpErrors)) + (IF r \in UpErrors THEN 1 ELSE 0)
    BY ErrorsAreSystem, SystemMarks
  <1>2. QED
    BY <1>1 DEF ErrorOf

LEMMA NextErrors ==
  Typed /\ ErrorsInLane /\ ErrorsCounted /\ [Next]_vars => ErrorsInLane' /\ ErrorsCounted'
  <1> SUFFICES ASSUME Typed, ErrorsInLane, ErrorsCounted, [Next]_vars
               PROVE  ErrorsInLane' /\ ErrorsCounted'
    OBVIOUS
  <1> DEFINE Sys(n) == Cardinality(MarksAt(inbox[n].sys, UpErrors))
             Leaving(n) == PushedErrors(out[n])
  <1>1. /\ ErrorsAt \in [Nodes -> Nat] /\ ErrorsAt' \in [Nodes -> Nat]
        /\ \A n \in Nodes : Sys(n) \in Nat /\ Leaving(n) \in Nat
        /\ \A n \in Nodes : Sys(n)' \in Nat /\ Leaving(n)' \in Nat
        /\ \A n \in Nodes : out[n] = <<>> => Leaving(n) = 0
    BY NextTyped, CountsTyped, CountsTypedNext DEF CountsAreNumbers
  <1>2. /\ \A n \in Nodes : ErrorsAt[n] = Sys(n) + Leaving(n)
        /\ \A n \in Nodes : ErrorsAt'[n] = Sys(n)' + Leaving(n)'
    BY DEF ErrorsAt
  <1>3. \A n \in Nodes : /\ inbox[n] \in InboxSet(Wares) /\ out[n] \in Seq(PushSet)
                         /\ NoneBesides(inbox[n], Wares, UpErrors)
    BY DEF Typed, ErrorsInLane
  <1>4. onErrors \in Nat /\ failures \in Nat /\ IsFiniteSet(Nodes)
    BY Topology DEF Typed
  (* One place changes. *)
  <1>5. ASSUME NEW n \in Nodes, \A m \in Nodes \ {n} : ErrorsAt'[m] = ErrorsAt[m]
        PROVE  /\ Total(ErrorsAt) \in Nat /\ Total(ErrorsAt') \in Nat
               /\ Total(ErrorsAt') + ErrorsAt[n] = Total(ErrorsAt) + ErrorsAt'[n]
    <2> DEFINE f == ErrorsAt
               g == ErrorsAt'
    <2>1. f \in [Nodes -> Nat] /\ g \in [Nodes -> Nat] /\ \A m \in Nodes \ {n} : g[m] = f[m]
      BY <1>1, <1>5
    <2> HIDE DEF f, g
    <2>2. Total(f) \in Nat /\ Total(g) \in Nat /\ Total(g) + f[n] = Total(f) + g[n]
      BY <1>4, <2>1, TotalChange
    <2>3. QED
      BY <2>2 DEF f, g
  (* Nothing changes. *)
  <1>6. ASSUME \A m \in Nodes : ErrorsAt'[m] = ErrorsAt[m], UNCHANGED <<onErrors, failures>>
        PROVE  ErrorsCounted'
    <2>1. ErrorsAt' = ErrorsAt
      BY <1>1, <1>6
    <2>2. QED
      BY <1>6, <2>1 DEF ErrorsCounted
  <1> HIDE DEF Sys, Leaving
  <1>7. CASE ClientPush
    <2> DEFINE q == DownItem(Frame(Script[sent + 1], sent + 1, "client"), 0, NoFan, 0)
    <2>1. q \in Wares /\ q.dir = "down"
      <3>1. sent + 1 \in 1..Len(Script)
        BY <1>7, Topology DEF ClientPush, Typed
      <3>2. Frame(Script[sent + 1], sent + 1, "client") \in FrameSet
        BY <3>1, Topology DEF Frame, FrameSet
      <3>3. QED
        BY <3>2, FramesOfItems
    <2> HIDE DEF q
    <2>2. /\ inbox' = [inbox EXCEPT ![HeadNode] = Enqueue(@, q)]
          /\ UNCHANGED <<out, onErrors, failures>>
      BY <1>7 DEF ClientPush, q
    <2>3. ErrorOf(q) = 0
      BY <2>1 DEF ErrorOf, UpErrors
    <2>4. /\ inbox'[HeadNode] = Enqueue(inbox[HeadNode], q)
          /\ \A m \in Nodes \ {HeadNode} : inbox'[m] = inbox[m]
      BY <2>2, Topology DEF Typed
    <2>5. /\ NoneBesides(inbox'[HeadNode], Wares, UpErrors)
          /\ Sys(HeadNode)' = Sys(HeadNode) + ErrorOf(q)
      BY <1>3, <2>1, <2>4, QueuedErrors, Topology DEF Sys
    <2>6. ErrorsInLane'
      BY <1>3, <2>4, <2>5 DEF ErrorsInLane
    <2>7. \A m \in Nodes : Sys(m)' = Sys(m) /\ Leaving(m)' = Leaving(m)
      <3>1. Sys(HeadNode)' = Sys(HeadNode)
        BY <1>1, <2>3, <2>5, Topology
      <3>2. \A m \in Nodes \ {HeadNode} : Sys(m)' = Sys(m)
        BY <2>4 DEF Sys
      <3>3. QED
        BY <2>2, <3>1, <3>2 DEF Leaving
    <2>8. QED
      BY <1>2, <1>6, <2>2, <2>6, <2>7
  <1>8. ASSUME NEW n \in Nodes, NodePush(n)
        PROVE  ErrorsInLane' /\ ErrorsCounted'
    <2>1. PICK p : p = Head(out[n])
      OBVIOUS
    <2>2. /\ out[n] # <<>> /\ out'[n] = Tail(out[n])
          /\ \A m \in Nodes \ {n} : out'[m] = out[m]
      BY <1>1, <1>8 DEF NodePush, Typed
    <2>3. p \in PushSet /\ p.q \in Wares
      <3>1. out[n] \in Seq(PushSet) /\ out[n] # <<>>
        BY <1>3, <2>2
      <3>2. p \in PushSet
        BY <2>1, <3>1, HeadTailProperties
      <3>3. QED
        BY <3>2 DEF PushSet
    <2>4. Leaving(n) = Leaving(n)' + ErrorOf(p.q)
      <3>1. PICK s : s = out[n]
        OBVIOUS
      <3>2. s \in Seq(PushSet) /\ s # <<>> /\ p = Head(s) /\ out'[n] = Tail(s)
        BY <1>3, <2>1, <2>2, <3>1
      <3>3. Cardinality(MarksAt(s, ErrorPushes)) =
              Cardinality(MarksAt(Tail(s), ErrorPushes)) + (IF Head(s) \in ErrorPushes THEN 1 ELSE 0)
        BY <3>2, MarksAfterTail
      <3>4. p \in ErrorPushes <=> p.q \in UpErrors
        BY <2>3 DEF ErrorPushes
      <3>5. QED
        BY <3>1, <3>2, <3>3, <3>4 DEF Leaving, PushedErrors, ErrorOf
    <2>5. \A m \in Nodes \ {n} : Leaving(m)' = Leaving(m)
      BY <2>2 DEF Leaving
    <2>6. /\ UNCHANGED failures
          /\ \/ /\ p.to \in Nodes /\ inbox' = [inbox EXCEPT ![p.to] = Enqueue(@, p.q)]
                /\ UNCHANGED onErrors
             \/ /\ p.to \notin Nodes /\ UNCHANGED inbox
                /\ onErrors' = onErrors + ErrorOf(p.q)
      <3>1. p.to = "sink" => ErrorOf(p.q) = 0
        BY <2>3 DEF PushSet, ErrorOf, UpErrors
      <3>2. p.to = "source" => ErrorOf(p.q) = IF p.q.kind = "Error" THEN 1 ELSE 0
        BY <2>3 DEF PushSet, ErrorOf, UpErrors
      <3>3. QED
        BY <1>4, <1>8, <2>1, <3>1, <3>2, Topology DEF NodePush
    <2>7. ErrorOf(p.q) \in Nat
      BY DEF ErrorOf
    <2>8. CASE p.to \in Nodes
      <3>1. PICK m \in Nodes : m = p.to
        BY <2>8
      <3>2. /\ inbox'[m] = Enqueue(inbox[m], p.q) /\ UNCHANGED <<onErrors, failures>>
            /\ \A r \in Nodes \ {m} : inbox'[r] = inbox[r]
        BY <2>6, <3>1 DEF Typed
      <3>3. /\ NoneBesides(inbox'[m], Wares, UpErrors)
            /\ Sys(m)' = Sys(m) + ErrorOf(p.q)
        BY <1>3, <2>3, <3>2, QueuedErrors DEF Sys
      <3>4. ErrorsInLane'
        BY <1>3, <3>2, <3>3 DEF ErrorsInLane
      <3>5. \A r \in Nodes \ {m} : Sys(r)' = Sys(r)
        BY <3>2 DEF Sys
      <3>6. PICK k \in Nat : k = ErrorOf(p.q)
        BY <2>7
      <3>7. CASE m = n
        <4>1. \A r \in Nodes \ {n} : ErrorsAt'[r] = ErrorsAt[r]
          BY <1>2, <2>5, <3>5, <3>7
        <4>2. Sys(n)' = Sys(n) + k /\ Leaving(n) = Leaving(n)' + k
          BY <2>4, <3>3, <3>6, <3>7
        <4>3. ErrorsAt'[n] = ErrorsAt[n]
          BY <1>1, <1>2, <4>2
        <4>4. QED
          BY <1>6, <3>2, <3>4, <4>1, <4>3
      <3>8. CASE m # n
        <4>1. \A r \in Nodes \ {n, m} : ErrorsAt'[r] = ErrorsAt[r]
          BY <1>2, <2>5, <3>5, <3>8
        <4>2. /\ Sys(m)' = Sys(m) + k /\ Leaving(n) = Leaving(n)' + k
              /\ Sys(n)' = Sys(n) /\ Leaving(m)' = Leaving(m)
          BY <2>4, <2>5, <3>3, <3>5, <3>6, <3>8
        <4>3. ErrorsAt[n] + ErrorsAt[m] = ErrorsAt'[n] + ErrorsAt'[m]
          <5>1. /\ ErrorsAt[n] = Sys(n) + (Leaving(n)' + k) /\ ErrorsAt[m] = Sys(m) + Leaving(m)
                /\ ErrorsAt'[n] = Sys(n) + Leaving(n)' /\ ErrorsAt'[m] = (Sys(m) + k) + Leaving(m)
            BY <1>2, <4>2
          <5>2. Sys(n) \in Nat /\ Sys(m) \in Nat /\ Leaving(n)' \in Nat /\ Leaving(m) \in Nat
            BY <1>1
          <5>3. QED
            BY <5>1, <5>2
        <4>4. Total(ErrorsAt') = Total(ErrorsAt)
          <5> DEFINE f == ErrorsAt
                     g == ErrorsAt'
          <5>1. /\ f \in [Nodes -> Nat] /\ g \in [Nodes -> Nat] /\ f[n] + f[m] = g[n] + g[m]
                /\ \A r \in Nodes \ {n, m} : g[r] = f[r]
            BY <1>1, <4>1, <4>3
          <5> HIDE DEF f, g
          <5>2. Total(g) = Total(f)
            BY <1>4, <3>8, <5>1, TotalMove
          <5>3. QED
            BY <5>2 DEF f, g
        <4>5. QED
          BY <3>2, <3>4, <4>4 DEF ErrorsCounted
      <3>9. QED
        BY <3>7, <3>8
    <2>9. CASE p.to \notin Nodes
      <3>1. UNCHANGED <<inbox, failures>> /\ onErrors' = onErrors + ErrorOf(p.q)
        BY <2>6, <2>9
      <3>2. \A m \in Nodes : Sys(m)' = Sys(m)
        BY <3>1 DEF Sys
      <3>3. PICK k \in Nat : k = ErrorOf(p.q)
        BY <2>7
      <3>4. ErrorsAt[n] = ErrorsAt'[n] + k
        BY <1>1, <1>2, <2>4, <3>2, <3>3
      <3>5. \A m \in Nodes \ {n} : ErrorsAt'[m] = ErrorsAt[m]
        BY <1>2, <2>5, <3>2
      <3>6. /\ Total(ErrorsAt) \in Nat /\ Total(ErrorsAt') \in Nat
            /\ Total(ErrorsAt') + ErrorsAt[n] = Total(ErrorsAt) + ErrorsAt'[n]
        BY <1>5, <3>5
      <3>7. ErrorsAt[n] \in Nat /\ ErrorsAt'[n] \in Nat
        BY <1>1
      <3>8. Total(ErrorsAt) = Total(ErrorsAt') + k
        BY <3>4, <3>6, <3>7
      <3>9. failures' = onErrors' + Total(ErrorsAt')
        <4>1. failures = onErrors + (Total(ErrorsAt') + k)
          BY <3>8 DEF ErrorsCounted
        <4>2. failures' = failures /\ onErrors' = onErrors + k
          BY <3>1, <3>3
        <4>3. QED
          BY <1>4, <3>6, <4>1, <4>2
      <3>10. ErrorsInLane'
        BY <1>3, <3>1 DEF ErrorsInLane
      <3>11. QED
        BY <3>9, <3>10 DEF ErrorsCounted
    <2>10. QED
      BY <2>8, <2>9
  <1>9. ASSUME NEW n \in Nodes, Handles(n)
        PROVE  ErrorsInLane' /\ ErrorsCounted'
    <2>1. PICK p \in Seq(PushSet), k \in {0, 1} : Took(n, p, k)
      BY <1>9, HandlingIs
    <2>2. out[n] = <<>> /\ ~IsEmpty(inbox[n])
      BY <1>9 DEF Handles, CanTake
    <2>3. /\ out'[n] = p /\ \A m \in Nodes \ {n} : out'[m] = out[m]
          /\ inbox'[n] \in {PopFront(inbox[n]), DrainInterruptible(PopFront(inbox[n]))}
          /\ \A m \in Nodes \ {n} : inbox'[m] = inbox[m]
          /\ onErrors' = onErrors /\ failures' = failures + k
          /\ PushedErrors(p) = ErrorOf(Front(inbox[n])) + k
      BY <2>1 DEF Took, Typed, Taken
    <2>4. /\ NoneBesides(inbox'[n], Wares, UpErrors)
          /\ Sys(n) = Sys(n)' + ErrorOf(Front(inbox[n]))
      BY <1>3, <2>2, <2>3, PoppedErrors DEF Sys
    <2>5. ErrorsInLane'
      BY <1>3, <2>3, <2>4 DEF ErrorsInLane
    <2>6. Leaving(n) = 0 /\ Leaving(n)' = ErrorOf(Front(inbox[n])) + k
      BY <1>1, <2>2, <2>3 DEF Leaving
    <2>7. \A m \in Nodes \ {n} : ErrorsAt'[m] = ErrorsAt[m]
      BY <1>2, <2>3 DEF Sys, Leaving
    <2>8. PICK x \in Nat : x = ErrorOf(Front(inbox[n]))
      BY DEF ErrorOf
    <2>9. ErrorsAt'[n] = ErrorsAt[n] + k
      BY <1>1, <1>2, <2>4, <2>6, <2>8
    <2>10. /\ Total(ErrorsAt) \in Nat /\ Total(ErrorsAt') \in Nat
           /\ Total(ErrorsAt') + ErrorsAt[n] = Total(ErrorsAt) + ErrorsAt'[n]
      BY <1>5, <2>7
    <2>11. ErrorsAt[n] \in Nat
      BY <1>1
    <2>12. Total(ErrorsAt') = Total(ErrorsAt) + k
      BY <2>9, <2>10, <2>11
    <2>13. failures' = onErrors' + Total(ErrorsAt')
      <3>1. failures = onErrors + Total(ErrorsAt)
        BY DEF ErrorsCounted
      <3>2. QED
        BY <1>4, <2>3, <2>10, <2>12, <3>1
    <2>14. QED
      BY <2>5, <2>13 DEF ErrorsCounted
  <1>10. CASE UNCHANGED vars
    <2>1. \A m \in Nodes : Sys(m)' = Sys(m) /\ Leaving(m)' = Leaving(m)
      BY <1>10 DEF vars, Sys, Leaving
    <2>2. UNCHANGED <<inbox, onErrors, failures>>
      BY <1>10 DEF vars
    <2>3. ErrorsInLane'
      BY <1>3, <2>2 DEF ErrorsInLane
    <2>4. QED
      BY <1>2, <1>6, <2>1, <2>2, <2>3
  <1>11. QED
    BY <1>7, <1>8, <1>9, <1>10, StepsAre DEF Next

(* Every error a processor makes goes up through the joins, fans and        *)
(* processors above it and is reported to the task's OnError once, in every *)
(* topology: failures are the errors reported and those still on their way  *)
(* (DeliverUp in onFan, onJoin and onProc; a join sends it into one branch).*)
THEOREM ErrorsOnce == Spec => []ErrorsReportedOnce
  <1>1. Init => Typed /\ ErrorsInLane /\ ErrorsCounted
    BY InitTyped, InitErrors
  <1>2. Typed /\ ErrorsInLane /\ ErrorsCounted /\ [Next]_vars
          => (Typed /\ ErrorsInLane /\ ErrorsCounted)'
    BY NextTyped, NextErrors
  <1>3. Typed /\ ErrorsCounted => ErrorsReportedOnce
    BY SumOfErrors
  <1>4. QED
    BY <1>1, <1>2, <1>3, PTL DEF Spec

-----------------------------------------------------------------------------
(* Flat pipelines.  Way puts each processor in its place of its branch, and *)
(* the wave items of a branch pass nodes of growing Stage.                  *)
TheJoin == CHOOSE j \in Joins : TRUE
TheWay == CHOOSE way \in Ways : FlatWay(way)
Branches == Width[TheJoin]
LastStage == Cardinality(Procs) + 1

Stage(n) ==
  IF n = HeadNode THEN 0 ELSE IF n = TheJoin THEN LastStage ELSE TheWay[n].place

(* The branch of a wave item at node n, and where n sends the branch's      *)
(* items.                                                                   *)
BranchAt(n, q) == IF n \in Procs THEN TheWay[n].branch ELSE q.branch
Target(n, b) == IF n = HeadNode THEN Down[n][b] ELSE Down[n][1]

(* Frames on their way to the fan, or out of the join, belong to no wave;   *)
(* w waves have begun.                                                      *)
Untagged(q) == q.fan = NoFan /\ q.epoch = 0 /\ q.ctrl = "none"
Tagged(q, w) == q.fan = HeadNode /\ q.epoch \in 1..w /\ q.dir = "down"

MayWait(n, q, w) ==
  \/ Untagged(q) /\ (n # HeadNode => q.dir = "up")
  \/ Tagged(q, w) /\ n # HeadNode /\ (n = TheJoin => q.branch \in 1..Branches)

MayLeave(n, p, w) ==
  \/ Untagged(p.q) /\ (p.q.dir = "up" \/ (n = TheJoin /\ p.to = "sink"))
  \/ /\ Tagged(p.q, w) /\ n # TheJoin /\ BranchAt(n, p.q) \in 1..Branches
     /\ p.to = Target(n, BranchAt(n, p.q))
     /\ p.to = TheJoin => p.q.branch = BranchAt(n, p.q)

(* Nothing of a wave comes after the wave's barrier.                        *)
Ok(x, y) == x.ctrl = "barrier" => x.epoch < y.epoch

Items(in) ==
  {in.sys[i] : i \in DOMAIN in.sys} \cup {in.up[i] : i \in DOMAIN in.up}
    \cup {in.down[i] : i \in DOMAIN in.down}
Sent(p) == [i \in DOMAIN p |-> p[i].q]
Clean(in) ==
  /\ \A i \in DOMAIN in.sys : in.sys[i].ctrl = "none"
  /\ \A i \in DOMAIN in.up : in.up[i].ctrl = "none"

Sorted(n, row) ==
  \A a, b \in DOMAIN row :
    /\ a < b
    /\ row[a].fan = HeadNode /\ row[b].fan = HeadNode
    /\ BranchAt(n, row[a]) = BranchAt(n, row[b])
    => Ok(row[a], row[b])

(* The wave items that wait at a node (h = 0) or leave it (h = 1).          *)
At(I, O, n, h) == IF h = 0 THEN Items(I[n]) ELSE {O[n][i].q : i \in DOMAIN O[n]}
Things(I, O) ==
  {x \in [n : Nodes, h : {0, 1}, q : Wares] : x.q.fan = HeadNode /\ x.q \in At(I, O, x.n, x.h)}
InBranch(x) == BranchAt(x.n, x.q)
Depth(x) == 2 * Stage(x.n) + x.h

Ordered(T) == \A x, y \in T : InBranch(x) = InBranch(y) /\ Depth(x) > Depth(y) => Ok(x.q, y.q)

NodeFine(n, in, p, w) ==
  /\ Clean(in)
  /\ \A q \in Items(in) : MayWait(n, q, w)
  /\ \A i \in DOMAIN p : MayLeave(n, p[i], w)
  /\ Sorted(n, in.down) /\ Sorted(n, Sent(p))

Places == \A n \in Nodes : NodeFine(n, inbox[n], out[n], fanSeq[HeadNode])

(* The join: a branch whose barrier it has seen brings nothing more of the  *)
(* wave, and a wave it has passed on is nowhere.                            *)
PassingOf(T, bufs, first, w) ==
  /\ first \in 1..w + 1 /\ DOMAIN bufs \subseteq first..w
  /\ \A e \in DOMAIN bufs : \A b \in bufs[e].seen :
       \A x \in T : InBranch(x) = b => x.q.epoch > e
  /\ \A x \in T : x.q.epoch >= first

Passing ==
  PassingOf(Things(inbox, out), epochs[TheJoin], next[TheJoin], fanSeq[HeadNode])

WaveInv == Places /\ Ordered(Things(inbox, out)) /\ Passing


(* What Flat says of the nodes, in terms of TheWay.                         *)
InChain(n) == n = HeadNode \/ n \in Procs
Passes(n, b) == InChain(n) /\ b \in 1..Branches /\ (n \in Procs => TheWay[n].branch = b)

LEMMA FlatNodes ==
  ASSUME Flat
  PROVE  /\ Fans = {HeadNode} /\ Joins = {TheJoin} /\ Nodes = {HeadNode, TheJoin} \cup Procs
         /\ HeadNode \in Nodes /\ TheJoin \in Nodes /\ HeadNode # TheJoin
         /\ HeadNode \notin Procs /\ TheJoin \notin Procs
         /\ NoFan \notin Nodes /\ NoFan # HeadNode
         /\ FanOf[TheJoin] = HeadNode /\ Down[TheJoin] = <<>>
         /\ Branches \in Nat \ {0} /\ DOMAIN Down[HeadNode] = 1..Branches
         /\ Len(Down[HeadNode]) = Branches
         /\ LastStage \in Nat \ {0} /\ LastStage = Cardinality(Procs) + 1
         /\ Cardinality(Procs) \in Nat
         /\ TheWay \in Ways /\ FlatWay(TheWay)
  <1>1. PICK way \in Ways : FlatWay(way)
    BY DEF Flat
  <1>2. TheWay \in Ways /\ FlatWay(TheWay)
    BY <1>1 DEF TheWay
  <1>3. Fans = {HeadNode} /\ \E j \in Joins : Joins = {j} /\ Down[j] = <<>>
    BY <1>2 DEF FlatWay
  <1>4. Joins = {TheJoin} /\ Down[TheJoin] = <<>>
    BY <1>3 DEF TheJoin
  <1>5. FanOf[TheJoin] = HeadNode /\ Len(Down[HeadNode]) = Branches /\ Branches \in Nat \ {0}
    BY <1>3, <1>4, TopologyAssumption DEF Branches
  <1>6. /\ NoFan \notin Nodes /\ HeadNode \in Nodes /\ TheJoin \in Nodes
        /\ HeadNode # TheJoin /\ HeadNode \notin Procs /\ TheJoin \notin Procs
        /\ Nodes = {HeadNode, TheJoin} \cup Procs
    BY <1>3, <1>4, TopologyAssumption DEF Nodes, NoFan
  <1>7. /\ LastStage \in Nat \ {0} /\ LastStage = Cardinality(Procs) + 1
        /\ Cardinality(Procs) \in Nat
    <2>1. IsFiniteSet(Procs)
      BY TopologyAssumption, FS_Subset DEF Nodes
    <2>2. Cardinality(Procs) \in Nat
      BY <2>1, FS_CardinalityType
    <2>3. QED
      BY <2>2 DEF LastStage
  <1>8. DOMAIN Down[HeadNode] = 1..Branches
    BY <1>5, <1>6, Topology
  <1>9. QED
    BY <1>2, <1>3, <1>4, <1>5, <1>6, <1>7, <1>8

LEMMA Stages ==
  ASSUME Flat
  PROVE  /\ Stage(HeadNode) = 0 /\ Stage(TheJoin) = LastStage
         /\ \A p \in Procs : /\ Stage(p) = TheWay[p].place /\ Stage(p) \in 1..LastStage - 1
                             /\ TheWay[p].branch \in 1..Branches
         /\ \A n \in Nodes : Stage(n) \in Nat
         /\ \A n \in Nodes : InChain(n) => Stage(n) < LastStage
         /\ \A p, r \in Procs :
              TheWay[p].branch = TheWay[r].branch /\ Stage(p) = Stage(r) => p = r
  <1>1. Stage(HeadNode) = 0 /\ Stage(TheJoin) = LastStage
    BY FlatNodes DEF Stage
  <1>2. \A p \in Procs : /\ Stage(p) = TheWay[p].place
                         /\ TheWay[p].branch \in 1..Branches
                         /\ TheWay[p] \in [branch : 1..Branches, place : 1..LastStage - 1]
    <2>1. Len(Down[HeadNode]) = Branches /\ LastStage - 1 = Cardinality(Procs)
      BY FlatNodes
    <2>2. TheWay \in [Procs -> [branch : 1..Branches, place : 1..LastStage - 1]]
      BY <2>1, FlatNodes DEF Ways
    <2>3. QED
      BY <2>2, FlatNodes DEF Stage
  <1>3. \A p, r \in Procs :
          TheWay[p].branch = TheWay[r].branch /\ Stage(p) = Stage(r) => p = r
    <2>1. \A p, r \in Procs : TheWay[r] = TheWay[p] => r = p
      BY FlatNodes DEF FlatWay
    <2>2. QED
      BY <1>2, <2>1
  <1>4. QED
    BY <1>1, <1>2, <1>3, FlatNodes DEF InChain

(* The next node of a branch is further along, with none between the two.   *)
LEMMA Targets ==
  ASSUME Flat, NEW n \in Nodes, NEW b, Passes(n, b)
  PROVE  /\ Target(n, b) \in Nodes /\ Target(n, b) # HeadNode
         /\ Stage(n) < Stage(Target(n, b))
         /\ Target(n, b) \in Procs => TheWay[Target(n, b)].branch = b
         /\ n \in Procs /\ Target(n, b) = TheJoin => BranchOf[n] = b
         /\ \A r \in Procs : TheWay[r].branch = b =>
              Stage(r) <= Stage(n) \/ Stage(r) >= Stage(Target(n, b))
  <1> DEFINE m == Target(n, b)
  <1>1. CASE n = HeadNode
    <2>1. b \in DOMAIN Down[n] /\ m = Down[n][b] /\ Stage(n) = 0
      BY <1>1, FlatNodes, Stages DEF Passes, Target
    <2>2. \/ Down[n][b] \in Joins /\ \A p \in Procs : TheWay[p].branch # b
          \/ Down[n][b] \in Procs /\ TheWay[Down[n][b]] = [branch |-> b, place |-> 1]
      <3>1. FlatWay(TheWay)
        BY FlatNodes
      <3>2. QED
        BY <1>1, <2>1, <3>1, Zenon DEF FlatWay
    <2>3. CASE m \in Joins
      <3>1. m = TheJoin /\ \A p \in Procs : TheWay[p].branch # b
        BY <2>1, <2>3, <2>2, FlatNodes
      <3>2. QED
        BY <1>1, <2>1, <3>1, FlatNodes, Stages
    <2>4. CASE m \in Procs
      <3>1. TheWay[m] = [branch |-> b, place |-> 1]
        BY <2>1, <2>4, <2>2, FlatNodes
      <3>2. Stage(m) = 1 /\ TheWay[m].branch = b
        BY <2>4, <3>1, Stages
      <3>3. \A r \in Procs : Stage(r) >= 1
        BY Stages, FlatNodes
      <3>4. m \in Nodes /\ m # HeadNode /\ m # TheJoin
        BY <2>4, FlatNodes
      <3> HIDE DEF m
      <3>5. QED
        BY <1>1, <2>1, <3>2, <3>3, <3>4, FlatNodes DEF m
    <2>5. QED
      BY <2>1, <2>3, <2>4, <2>2
  <1>2. CASE n \in Procs
    <2>1. m = Down[n][1] /\ TheWay[n].branch = b
      BY <1>2, FlatNodes DEF Passes, Target
    <2>2. \/ /\ m \in Joins /\ BranchOf[n] = b
             /\ \A r \in Procs : TheWay[r].branch = b => TheWay[r].place <= TheWay[n].place
          \/ /\ m \in Procs /\ TheWay[m] = [branch |-> b, place |-> TheWay[n].place + 1]
      BY <1>2, <2>1, FlatNodes DEF FlatWay
    <2>3. Stage(n) \in Nat /\ Stage(n) = TheWay[n].place /\ Stage(n) < LastStage
      BY <1>2, Stages, FlatNodes DEF InChain
    <2>4. CASE m \in Joins /\ BranchOf[n] = b
                 /\ \A r \in Procs : TheWay[r].branch = b => TheWay[r].place <= TheWay[n].place
      <3>1. m = TheJoin /\ Stage(m) = LastStage
        BY <2>4, FlatNodes, Stages
      <3>2. \A r \in Procs : TheWay[r].branch = b => Stage(r) <= Stage(n)
        BY <2>3, <2>4, Stages
      <3> HIDE DEF m
      <3>3. QED
        BY <2>3, <2>4, <3>1, <3>2, FlatNodes DEF m
    <2>5. CASE m \in Procs /\ TheWay[m] = [branch |-> b, place |-> TheWay[n].place + 1]
      <3>1. Stage(m) = Stage(n) + 1 /\ TheWay[m].branch = b
        BY <2>3, <2>5, Stages
      <3>2. \A r \in Procs : Stage(r) \in Nat
        BY Stages, FlatNodes
      <3>3. m \in Nodes /\ m # HeadNode /\ m # TheJoin
        BY <2>5, FlatNodes
      <3> HIDE DEF m
      <3>4. \A r \in Procs : Stage(r) <= Stage(n) \/ Stage(r) >= Stage(m)
        BY <2>3, <3>1, <3>2
      <3>5. QED
        BY <2>3, <3>1, <3>3, <3>4 DEF m
    <2>6. QED
      BY <2>2, <2>4, <2>5
  <1>3. QED
    BY <1>1, <1>2 DEF Passes, InChain


-----------------------------------------------------------------------------
(* s is r with some of it left out.                                         *)
Thins(s, r) ==
  /\ \A i \in DOMAIN s : \E c \in DOMAIN r : s[i] = r[c]
  /\ \A i, j \in DOMAIN s : i < j =>
       \E c, d \in DOMAIN r : c < d /\ s[i] = r[c] /\ s[j] = r[d]

LEMMA ThinsOfItself ==
  \A r : Thins(r, r)
  BY DEF Thins

LEMMA ThinsTransitive ==
  ASSUME NEW s, NEW r, NEW t, Thins(s, r), Thins(r, t)
  PROVE  Thins(s, t)
  <1>1. ASSUME NEW i \in DOMAIN s
        PROVE  \E c \in DOMAIN t : s[i] = t[c]
    <2>1. PICK c \in DOMAIN r : s[i] = r[c]
      BY <1>1, Zenon DEF Thins
    <2>2. QED
      BY <2>1 DEF Thins
  <1>2. ASSUME NEW i \in DOMAIN s, NEW j \in DOMAIN s, i < j
        PROVE  \E c, d \in DOMAIN t : c < d /\ s[i] = t[c] /\ s[j] = t[d]
    <2>1. PICK c \in DOMAIN r, d \in DOMAIN r : c < d /\ s[i] = r[c] /\ s[j] = r[d]
      BY <1>2, Zenon DEF Thins
    <2>2. \E e, f \in DOMAIN t : e < f /\ r[c] = t[e] /\ r[d] = t[f]
      BY <2>1, Zenon DEF Thins
    <2>3. QED
      BY <2>1, <2>2, Zenon
  <1>3. QED
    BY <1>1, <1>2, Zenon DEF Thins

LEMMA TailThins ==
  ASSUME NEW S, NEW s \in Seq(S), s # <<>>
  PROVE  /\ Tail(s) \in Seq(S) /\ Thins(Tail(s), s)
         /\ 1 \in DOMAIN s /\ Head(s) = s[1]
         /\ \A i \in DOMAIN Tail(s) : i + 1 \in DOMAIN s /\ i + 1 > 1 /\ Tail(s)[i] = s[i + 1]
  <1>1. /\ Tail(s) \in Seq(S) /\ Len(s) \in Nat /\ DOMAIN s = 1..Len(s) /\ 1 \in DOMAIN s
        /\ Head(s) = s[1]
        /\ DOMAIN Tail(s) = 1..Len(s) - 1 /\ \A i \in 1..Len(s) - 1 : Tail(s)[i] = s[i + 1]
    BY HeadTailProperties
  <1>2. \A i \in DOMAIN Tail(s) : i + 1 \in DOMAIN s /\ i + 1 > 1 /\ Tail(s)[i] = s[i + 1]
    BY <1>1
  <1>3. \A i, j \in DOMAIN Tail(s) : i < j => i + 1 < j + 1
    BY <1>1
  <1>4. Thins(Tail(s), s)
    <2>1. PICK t : t = Tail(s)
      OBVIOUS
    <2>2. Thins(t, s)
      BY <1>2, <1>3, <2>1 DEF Thins
    <2>3. QED
      BY <2>1, <2>2
  <1>5. QED
    BY <1>1, <1>2, <1>4

LEMMA KeepThins ==
  ASSUME NEW S, NEW s \in Seq(S), NEW K \in SUBSET (DOMAIN s)
  PROVE  KeepAt(s, K) \in Seq(S) /\ Thins(KeepAt(s, K), s)
  <1>1. PICK t : t = KeepAt(s, K)
    OBVIOUS
  <1>2. /\ t \in Seq(S) /\ DOMAIN t = 1..Cardinality(K)
        /\ \A k \in 1..Cardinality(K) : Nth(K, k) \in DOMAIN s /\ t[k] = s[Nth(K, k)]
        /\ \A k, l \in 1..Cardinality(K) : k < l => Nth(K, k) < Nth(K, l)
    BY <1>1, KeepAtSubsequence
  <1>3. QED
    BY <1>1, <1>2 DEF Thins

LEMMA AppendIs ==
  ASSUME NEW S, NEW s \in Seq(S), NEW q \in S
  PROVE  /\ Append(s, q) \in Seq(S)
         /\ \A i \in DOMAIN Append(s, q) :
              \/ i \in DOMAIN s /\ Append(s, q)[i] = s[i]
              \/ i \notin DOMAIN s /\ Append(s, q)[i] = q
         /\ \A i, j \in DOMAIN Append(s, q) : i < j => i \in DOMAIN s
         /\ \A i, j \in DOMAIN Append(s, q) : i \notin DOMAIN s /\ j \notin DOMAIN s => i = j
  <1>1. /\ Append(s, q) \in Seq(S) /\ Len(s) \in Nat /\ DOMAIN s = 1..Len(s)
        /\ DOMAIN Append(s, q) = 1..Len(s) + 1
        /\ Append(s, q)[Len(s) + 1] = q
        /\ \A i \in 1..Len(s) : Append(s, q)[i] = s[i]
    BY AppendProperties, LenProperties
  <1>2. QED
    BY <1>1

LEMMA SortedThin ==
  ASSUME NEW n, NEW s, NEW r, Thins(s, r), Sorted(n, r)
  PROVE  Sorted(n, s)
  <1> SUFFICES ASSUME NEW a \in DOMAIN s, NEW b \in DOMAIN s, a < b,
                      s[a].fan = HeadNode, s[b].fan = HeadNode,
                      BranchAt(n, s[a]) = BranchAt(n, s[b])
               PROVE  Ok(s[a], s[b])
    BY DEF Sorted
  <1>1. PICK c \in DOMAIN r, d \in DOMAIN r : c < d /\ s[a] = r[c] /\ s[b] = r[d]
    BY DEF Thins
  <1>2. QED
    BY <1>1 DEF Sorted

(* What an inbox holds after a node has taken its first item. *)
TakenFrom(in, r) ==
  \/ /\ in.sys # <<>> /\ Front(in) = Head(in.sys)
     /\ Thins(r.sys, Tail(in.sys)) /\ Thins(r.up, in.up) /\ Thins(r.down, in.down)
  \/ /\ in.sys = <<>> /\ in.up # <<>> /\ Front(in) = Head(in.up)
     /\ Thins(r.sys, in.sys) /\ Thins(r.up, Tail(in.up)) /\ Thins(r.down, in.down)
  \/ /\ in.sys = <<>> /\ in.up = <<>> /\ in.down # <<>> /\ Front(in) = Head(in.down)
     /\ Thins(r.sys, in.sys) /\ Thins(r.up, in.up) /\ Thins(r.down, Tail(in.down))

LEMMA TakenIs ==
  ASSUME NEW in \in InboxSet(Wares), ~IsEmpty(in),
         NEW r \in {PopFront(in), DrainInterruptible(PopFront(in))}
  PROVE  r \in InboxSet(Wares) /\ TakenFrom(in, r)
  <1> DEFINE o == PopFront(in)
  <1>1. in.sys \in Seq(Wares) /\ in.up \in Seq(Wares) /\ in.down \in Seq(Wares)
    BY DEF InboxSet
  <1>2. TakenFrom(in, o)
    <2>1. CASE in.sys # <<>>
      <3>1. o.sys = Tail(in.sys) /\ o.up = in.up /\ o.down = in.down /\ Front(in) = Head(in.sys)
        BY <2>1 DEF InboxSet, PopFront, Front, NextLane
      <3>2. QED
        BY <2>1, <3>1, ThinsOfItself DEF TakenFrom
    <2>2. CASE in.sys = <<>> /\ in.up # <<>>
      <3>1. o.sys = in.sys /\ o.up = Tail(in.up) /\ o.down = in.down /\ Front(in) = Head(in.up)
        BY <2>2 DEF InboxSet, PopFront, Front, NextLane
      <3>2. QED
        BY <2>2, <3>1, ThinsOfItself DEF TakenFrom
    <2>3. CASE in.sys = <<>> /\ in.up = <<>>
      <3>1. o.sys = in.sys /\ o.up = in.up /\ o.down = Tail(in.down) /\ Front(in) = Head(in.down)
        BY <2>3 DEF InboxSet, PopFront, Front, NextLane
      <3>2. in.down # <<>>
        BY <2>3 DEF IsEmpty
      <3>3. QED
        BY <2>3, <3>1, <3>2, ThinsOfItself DEF TakenFrom
    <2>4. QED
      BY <2>1, <2>2, <2>3
  <1>3. o \in InboxSet(Wares) /\ DrainInterruptible(o) \in InboxSet(Wares)
    BY PopFrontType, DrainType
  <1> HIDE DEF o
  <1>4. /\ DrainInterruptible(o).sys = o.sys
        /\ Thins(DrainInterruptible(o).up, o.up) /\ Thins(DrainInterruptible(o).down, o.down)
    <2>1. o.up \in Seq(Wares) /\ o.down \in Seq(Wares)
      BY <1>3 DEF InboxSet
    <2>2. /\ DrainInterruptible(o).sys = o.sys
          /\ DrainInterruptible(o).up = KeepAt(o.up, KeptAt(o.up))
          /\ DrainInterruptible(o).down = KeepAt(o.down, KeptAt(o.down))
      BY <1>3 DEF DrainInterruptible, InboxSet
    <2>3. KeptAt(o.up) \in SUBSET (DOMAIN o.up) /\ KeptAt(o.down) \in SUBSET (DOMAIN o.down)
      BY DEF KeptAt
    <2>4. QED
      BY <2>1, <2>2, <2>3, KeepThins
  <1>5. TakenFrom(in, DrainInterruptible(o))
    <2>1. PICK d : d = DrainInterruptible(o)
      OBVIOUS
    <2>2. \A t : /\ Thins(o.up, t) => Thins(d.up, t)
                 /\ Thins(o.down, t) => Thins(d.down, t)
                 /\ Thins(o.sys, t) => Thins(d.sys, t)
      BY <1>4, <2>1, ThinsTransitive
    <2>3. TakenFrom(in, d)
      BY <1>2, <2>2, Zenon DEF TakenFrom
    <2>4. QED
      BY <2>1, <2>3
  <1>6. QED
    BY <1>2, <1>3, <1>5 DEF o

(* A barrier is taken only when nothing comes before it. *)
LEMMA TakenItems ==
  ASSUME NEW in \in InboxSet(Wares), Clean(in), NEW r \in InboxSet(Wares), TakenFrom(in, r)
  PROVE  /\ Clean(r) /\ Items(r) \subseteq Items(in) /\ Front(in) \in Items(in)
         /\ Thins(r.down, in.down)
         /\ Front(in).ctrl = "barrier" =>
              /\ 1 \in DOMAIN in.down /\ Front(in) = in.down[1]
              /\ \A y \in Items(r) : \E j \in DOMAIN in.down : j > 1 /\ y = in.down[j]
  <1>1. in.sys \in Seq(Wares) /\ in.up \in Seq(Wares) /\ in.down \in Seq(Wares)
    BY DEF InboxSet
  <1>2. \A s \in Seq(Wares) : s # <<>> =>
          /\ Thins(Tail(s), s) /\ 1 \in DOMAIN s /\ Head(s) = s[1]
          /\ \A i \in DOMAIN Tail(s) : i + 1 \in DOMAIN s /\ i + 1 > 1 /\ Tail(s)[i] = s[i + 1]
    BY TailThins
  <1>3. /\ Thins(r.sys, in.sys) /\ Thins(r.up, in.up) /\ Thins(r.down, in.down)
    BY <1>1, <1>2, ThinsTransitive DEF TakenFrom
  <1>4. Clean(r) /\ Items(r) \subseteq Items(in)
    <2>1. \A i \in DOMAIN r.sys : \E c \in DOMAIN in.sys : r.sys[i] = in.sys[c]
      BY <1>3 DEF Thins
    <2>2. \A i \in DOMAIN r.up : \E c \in DOMAIN in.up : r.up[i] = in.up[c]
      BY <1>3 DEF Thins
    <2>3. \A i \in DOMAIN r.down : \E c \in DOMAIN in.down : r.down[i] = in.down[c]
      BY <1>3 DEF Thins
    <2>4. QED
      BY <2>1, <2>2, <2>3 DEF Clean, Items
  <1>5. Front(in) \in Items(in)
    BY <1>1, <1>2 DEF TakenFrom, Items
  <1>6. ASSUME Front(in).ctrl = "barrier"
        PROVE  /\ 1 \in DOMAIN in.down /\ Front(in) = in.down[1]
               /\ \A y \in Items(r) : \E j \in DOMAIN in.down : j > 1 /\ y = in.down[j]
    <2>1. /\ in.sys = <<>> /\ in.up = <<>> /\ in.down # <<>> /\ Front(in) = Head(in.down)
          /\ Thins(r.sys, in.sys) /\ Thins(r.up, in.up) /\ Thins(r.down, Tail(in.down))
      BY <1>1, <1>2, <1>6 DEF TakenFrom, Clean
    <2>2. \A i \in DOMAIN r.sys : FALSE
      BY <2>1 DEF Thins
    <2>3. \A i \in DOMAIN r.up : FALSE
      BY <2>1 DEF Thins
    <2>4. \A i \in DOMAIN r.down : \E c \in DOMAIN Tail(in.down) : r.down[i] = Tail(in.down)[c]
      BY <2>1 DEF Thins
    <2>5. \A y \in Items(r) : \E c \in DOMAIN Tail(in.down) : y = Tail(in.down)[c]
      BY <2>2, <2>3, <2>4 DEF Items
    <2>6. QED
      BY <1>1, <1>2, <2>1, <2>5
  <1>7. QED
    BY <1>3, <1>4, <1>5, <1>6

(* What an inbox holds after a push. *)
PutIn(in, q, r) ==
  \/ /\ Lane(q) = "sys" /\ r.up = in.up /\ r.down = in.down
     /\ \E s \in Seq(Wares) : Thins(s, in.sys) /\ r.sys = Append(s, q)
  \/ Lane(q) = "up" /\ r.sys = in.sys /\ r.up = Append(in.up, q) /\ r.down = in.down
  \/ Lane(q) = "down" /\ r.sys = in.sys /\ r.up = in.up /\ r.down = Append(in.down, q)

LEMMA PutIs ==
  ASSUME NEW in \in InboxSet(Wares), NEW q \in Wares
  PROVE  Enqueue(in, q) \in InboxSet(Wares) /\ PutIn(in, q, Enqueue(in, q))
  <1>1. Enqueue(in, q) \in InboxSet(Wares) /\ in.sys \in Seq(Wares)
    BY EnqueueType DEF InboxSet
  <1>2. CASE Lane(q) = "sys" /\ IsAudio(q)
    <2>1. /\ Shed(in) \in InboxSet(Wares) /\ Shed(in).up = in.up /\ Shed(in).down = in.down
          /\ Shed(in).sys = KeepAt(in.sys, DOMAIN in.sys \ ShedAt(in))
      BY ShedType
    <2>2. DOMAIN in.sys \ ShedAt(in) \in SUBSET (DOMAIN in.sys)
      OBVIOUS
    <2>3. Shed(in).sys \in Seq(Wares) /\ Thins(Shed(in).sys, in.sys)
      BY <1>1, <2>1, <2>2, KeepThins
    <2>4. /\ Enqueue(in, q).sys = Append(Shed(in).sys, q)
          /\ Enqueue(in, q).up = in.up /\ Enqueue(in, q).down = in.down
      BY <1>2, <2>1 DEF Enqueue, InboxSet
    <2>5. QED
      BY <1>1, <1>2, <2>3, <2>4 DEF PutIn
  <1>3. CASE Lane(q) = "sys" /\ ~IsAudio(q)
    <2>1. /\ Enqueue(in, q).sys = Append(in.sys, q)
          /\ Enqueue(in, q).up = in.up /\ Enqueue(in, q).down = in.down
      BY <1>3 DEF Enqueue, InboxSet
    <2>2. QED
      BY <1>1, <1>3, <2>1, ThinsOfItself DEF PutIn
  <1>4. CASE Lane(q) = "up"
    BY <1>1, <1>4 DEF Enqueue, InboxSet, PutIn
  <1>5. CASE Lane(q) = "down"
    BY <1>1, <1>5 DEF Enqueue, InboxSet, PutIn
  <1>6. QED
    BY <1>2, <1>3, <1>4, <1>5, LaneNamesThree

LEMMA PutItems ==
  ASSUME NEW in \in InboxSet(Wares), Clean(in), NEW q \in Wares,
         NEW r \in InboxSet(Wares), PutIn(in, q, r)
  PROVE  /\ Clean(r) /\ Items(r) \subseteq Items(in) \cup {q}
         /\ \/ r.down = in.down
            \/ r.down = Append(in.down, q)
  <1>1. in.sys \in Seq(Wares) /\ in.up \in Seq(Wares) /\ in.down \in Seq(Wares)
    BY DEF InboxSet
  <1>2. \A s \in Seq(Wares) : \A i \in DOMAIN Append(s, q) :
           (i \in DOMAIN s /\ Append(s, q)[i] = s[i]) \/ Append(s, q)[i] = q
    BY AppendIs
  <1>3. Lane(q) = "sys" => q.ctrl = "none"
    BY DEF Lane
  <1>4. Lane(q) = "up" => q.ctrl = "none"
    BY DEF Lane, Wares, ItemSet
  <1>5. CASE Lane(q) = "sys"
    <2>1. PICK s \in Seq(Wares) : Thins(s, in.sys) /\ r.sys = Append(s, q)
      BY <1>5 DEF PutIn
    <2>2. \A i \in DOMAIN r.sys : r.sys[i] = q \/ \E c \in DOMAIN in.sys : r.sys[i] = in.sys[c]
      BY <1>2, <2>1 DEF Thins
    <2>3. r.up = in.up /\ r.down = in.down
      BY <1>5 DEF PutIn
    <2>4. QED
      BY <1>3, <1>5, <2>2, <2>3 DEF Clean, Items
  <1>6. CASE Lane(q) = "up"
    <2>1. r.sys = in.sys /\ r.up = Append(in.up, q) /\ r.down = in.down
      BY <1>6 DEF PutIn
    <2>2. \A i \in DOMAIN r.up : r.up[i] = q \/ \E c \in DOMAIN in.up : r.up[i] = in.up[c]
      BY <1>1, <1>2, <2>1
    <2>3. QED
      BY <1>4, <1>6, <2>1, <2>2 DEF Clean, Items
  <1>7. CASE Lane(q) = "down"
    <2>1. r.sys = in.sys /\ r.up = in.up /\ r.down = Append(in.down, q)
      BY <1>7 DEF PutIn
    <2>2. \A i \in DOMAIN r.down : r.down[i] = q \/ \E c \in DOMAIN in.down : r.down[i] = in.down[c]
      BY <1>1, <1>2, <2>1
    <2>3. QED
      BY <2>1, <2>2 DEF Clean, Items
  <1>8. QED
    BY <1>5, <1>6, <1>7, LaneNamesThree


-----------------------------------------------------------------------------
(* A wave item moves on: nothing of its branch is between where it was and  *)
(* where what comes of it is now, and what is left behind it may be there.  *)
Follower(x, t, k) ==
  /\ Depth(x) = k /\ InBranch(x) = InBranch(t) /\ x.q.epoch = t.q.epoch
  /\ x.q.ctrl = "barrier" => t.q.ctrl = "barrier"

LEMMA Advance ==
  ASSUME NEW T, NEW U, NEW t \in T, NEW k \in Int, Ordered(T),
         \A x \in T \cup U : Depth(x) \in Int,
         Depth(t) < k,
         \A x \in U : x \in T \/ Follower(x, t, k),
         \A y \in U : y \in T /\ InBranch(y) = InBranch(t) =>
           /\ Depth(y) <= Depth(t) \/ Depth(y) >= k
           /\ Depth(y) = Depth(t) => Ok(t.q, y.q)
  PROVE  Ordered(U)
  <1> SUFFICES ASSUME NEW x \in U, NEW y \in U, InBranch(x) = InBranch(y), Depth(x) > Depth(y)
               PROVE  Ok(x.q, y.q)
    BY DEF Ordered
  <1>1. CASE x \in T /\ y \in T
    BY <1>1 DEF Ordered
  <1>2. CASE x \in T /\ y \notin T
    <2>1. Follower(y, t, k)
      BY <1>2
    <2>2. Ok(x.q, t.q)
      <3>1. InBranch(x) = InBranch(t) /\ Depth(x) > Depth(t)
        BY <2>1 DEF Follower
      <3>2. QED
        BY <1>2, <3>1 DEF Ordered
    <2>3. QED
      BY <2>1, <2>2 DEF Follower, Ok
  <1>3. CASE x \notin T
    <2>1. Follower(x, t, k)
      BY <1>3
    <2>2. y \in T
      BY <2>1 DEF Follower
    <2>3. InBranch(y) = InBranch(t) /\ Depth(y) <= Depth(t)
      <3>1. InBranch(y) = InBranch(t) /\ Depth(x) = k
        BY <2>1 DEF Follower
      <3>2. Depth(y) <= Depth(t) \/ Depth(y) >= k
        BY <2>2, <3>1
      <3>3. Depth(y) \in Int /\ Depth(t) \in Int
        BY <2>2
      <3>4. QED
        BY <3>1, <3>2, <3>3
    <2>4. Ok(t.q, y.q)
      <3>1. CASE Depth(y) = Depth(t)
        BY <2>2, <2>3, <3>1
      <3>2. CASE Depth(t) > Depth(y)
        BY <2>2, <2>3, <3>2 DEF Ordered
      <3>3. QED
        BY <2>2, <2>3, <3>1, <3>2
    <2>5. QED
      BY <2>1, <2>4 DEF Follower, Ok
  <1>4. QED
    BY <1>1, <1>2, <1>3

LEMMA FewerOrdered ==
  \A T, U : Ordered(T) /\ U \subseteq T => Ordered(U)
  BY DEF Ordered

LEMMA Depths ==
  ASSUME Flat
  PROVE  \A I, O : \A x \in Things(I, O) :
           /\ Depth(x) = 2 * Stage(x.n) + x.h /\ Depth(x) \in Int
           /\ x.h \in {0, 1} /\ x.n \in Nodes /\ x.q \in Wares /\ Stage(x.n) \in Nat
           /\ x.q.fan = HeadNode /\ x.q \in At(I, O, x.n, x.h)
  BY Stages DEF Things, Depth

(* The wave items after a node has taken its first item and made p of it.   *)
HandledThings(n, p, r, T, U) ==
  \A x \in U :
    \/ x \in T /\ (x.n = n => x.h = 0 /\ x.q \in Items(r))
    \/ x.n = n /\ x.h = 1 /\ x.q.fan = HeadNode /\ \E i \in DOMAIN p : x.q = p[i].q

LEMMA ThingsHandled ==
  ASSUME NEW I \in [Nodes -> InboxSet(Wares)], NEW O \in [Nodes -> Seq(PushSet)],
         NEW n \in Nodes, NEW r \in InboxSet(Wares), Items(r) \subseteq Items(I[n]),
         NEW p \in Seq(PushSet)
  PROVE  HandledThings(n, p, r, Things(I, O),
                       Things([I EXCEPT ![n] = r], [O EXCEPT ![n] = p]))
  <1> DEFINE J == [I EXCEPT ![n] = r]
             P == [O EXCEPT ![n] = p]
  <1>1. J[n] = r /\ P[n] = p /\ \A m \in Nodes \ {n} : J[m] = I[m] /\ P[m] = O[m]
    OBVIOUS
  <1> HIDE DEF J, P
  <1> SUFFICES ASSUME NEW x \in Things(J, P)
               PROVE  \/ x \in Things(I, O) /\ (x.n = n => x.h = 0 /\ x.q \in Items(r))
                      \/ /\ x.n = n /\ x.h = 1 /\ x.q.fan = HeadNode
                         /\ \E i \in DOMAIN p : x.q = p[i].q
    BY Zenon DEF J, P, HandledThings
  <1>2. x.n \in Nodes /\ x.h \in {0, 1} /\ x.q.fan = HeadNode /\ x.q \in At(J, P, x.n, x.h)
        /\ x \in [n : Nodes, h : {0, 1}, q : Wares]
    BY DEF Things
  <1>3. CASE x.n # n
    BY <1>1, <1>2, <1>3 DEF Things, At
  <1>4. CASE x.n = n /\ x.h = 0
    BY <1>1, <1>2, <1>4 DEF Things, At
  <1>5. CASE x.n = n /\ x.h = 1
    BY <1>1, <1>2, <1>5 DEF At
  <1>6. QED
    BY <1>2, <1>3, <1>4, <1>5

(* The wave items after node n has pushed the first item of O[n], and after  *)
(* q has been put into the inbox of m.                                      *)
DroppedThings(n, p, T, U) ==
  \A x \in U : /\ x \in T
               /\ x.n = n /\ x.h = 1 => \E j \in DOMAIN p : j > 1 /\ x.q = p[j].q

LEMMA ThingsDropped ==
  ASSUME NEW I \in [Nodes -> InboxSet(Wares)], NEW O \in [Nodes -> Seq(PushSet)],
         NEW n \in Nodes, O[n] # <<>>
  PROVE  DroppedThings(n, O[n], Things(I, O), Things(I, [O EXCEPT ![n] = Tail(O[n])]))
  <1> DEFINE P == [O EXCEPT ![n] = Tail(O[n])]
  <1>1. P[n] = Tail(O[n]) /\ \A k \in Nodes \ {n} : P[k] = O[k]
    OBVIOUS
  <1>2. O[n] \in Seq(PushSet)
    OBVIOUS
  <1>3. \A i \in DOMAIN Tail(O[n]) :
          i + 1 \in DOMAIN O[n] /\ i + 1 > 1 /\ Tail(O[n])[i] = O[n][i + 1]
    BY <1>2, TailThins
  <1> HIDE DEF P
  <1> SUFFICES ASSUME NEW x \in Things(I, P)
               PROVE  /\ x \in Things(I, O)
                      /\ x.n = n /\ x.h = 1 => \E j \in DOMAIN O[n] : j > 1 /\ x.q = O[n][j].q
    BY Zenon DEF P, DroppedThings
  <1>4. x.n \in Nodes /\ x.h \in {0, 1} /\ x.q.fan = HeadNode /\ x.q \in At(I, P, x.n, x.h)
        /\ x \in [n : Nodes, h : {0, 1}, q : Wares]
    BY DEF Things
  <1>5. CASE x.h = 0
    BY <1>4, <1>5 DEF Things, At
  <1>6. CASE x.h = 1 /\ x.n # n
    BY <1>1, <1>4, <1>6 DEF Things, At
  <1>7. CASE x.h = 1 /\ x.n = n
    <2>1. x.q \in {P[n][i].q : i \in DOMAIN P[n]}
      BY <1>4, <1>7 DEF At
    <2>2. PICK i \in DOMAIN Tail(O[n]) : x.q = Tail(O[n])[i].q
      BY <1>1, <2>1
    <2>3. x.q = O[n][i + 1].q /\ i + 1 \in DOMAIN O[n] /\ i + 1 > 1
      BY <1>3, <2>2
    <2>4. QED
      BY <1>4, <1>7, <2>3 DEF Things, At
  <1>8. QED
    BY <1>4, <1>5, <1>6, <1>7

PutThings(m, q, T, U) ==
  \A x \in U : x \in T \/ (x.n = m /\ x.h = 0 /\ x.q = q /\ q.fan = HeadNode)

LEMMA ThingsPut ==
  ASSUME NEW I \in [Nodes -> InboxSet(Wares)], NEW O, NEW m \in Nodes,
         NEW r \in InboxSet(Wares), NEW q, Items(r) \subseteq Items(I[m]) \cup {q}
  PROVE  PutThings(m, q, Things(I, O), Things([I EXCEPT ![m] = r], O))
  <1> DEFINE J == [I EXCEPT ![m] = r]
  <1>1. J[m] = r /\ \A k \in Nodes \ {m} : J[k] = I[k]
    OBVIOUS
  <1> HIDE DEF J
  <1> SUFFICES ASSUME NEW x \in Things(J, O)
               PROVE  \/ x \in Things(I, O)
                      \/ x.n = m /\ x.h = 0 /\ x.q = q /\ q.fan = HeadNode
    BY Zenon DEF J, PutThings
  <1>2. x.n \in Nodes /\ x.h \in {0, 1} /\ x.q.fan = HeadNode /\ x.q \in At(J, O, x.n, x.h)
        /\ x \in [n : Nodes, h : {0, 1}, q : Wares]
    BY DEF Things
  <1>3. CASE x.h = 1
    BY <1>2, <1>3 DEF Things, At
  <1>4. CASE x.h = 0
    BY <1>1, <1>2, <1>4 DEF Things, At
  <1>5. QED
    BY <1>2, <1>3, <1>4

-----------------------------------------------------------------------------
(* Where the wave items of a branch can be.                                 *)
LEMMA NoneBetween ==
  ASSUME Flat, NEW n \in Nodes, NEW b, Passes(n, b), NEW m \in Nodes, NEW q, BranchAt(m, q) = b
  PROVE  /\ Stage(m) <= Stage(n) \/ Stage(m) >= Stage(Target(n, b))
         /\ Stage(m) = Stage(n) => m = n
         /\ Stage(n) \in Nat /\ Stage(m) \in Nat /\ Stage(Target(n, b)) \in Nat
         /\ Stage(n) < Stage(Target(n, b))
  <1>1. Stage(n) \in Nat /\ Stage(m) \in Nat /\ Stage(Target(n, b)) \in Nat
    BY Stages, Targets
  <1>2. InChain(n) /\ Stage(n) < LastStage /\ LastStage \in Nat \ {0}
        /\ Stage(n) < Stage(Target(n, b))
    BY Stages, Targets, FlatNodes DEF Passes
  <1>3. CASE m = HeadNode
    <2>1. Stage(m) = 0
      BY <1>3, Stages
    <2>2. n \in Procs => Stage(n) >= 1
      BY Stages, FlatNodes
    <2>3. QED
      BY <1>1, <1>2, <1>3, <2>1, <2>2 DEF InChain
  <1>4. CASE m = TheJoin
    <2>1. Stage(m) = LastStage
      BY <1>4, Stages
    <2>2. Stage(Target(n, b)) <= LastStage
      <3>1. Target(n, b) = TheJoin \/ Target(n, b) \in Procs
        BY Targets, FlatNodes
      <3>2. \A p \in Procs : Stage(p) <= LastStage
        BY Stages, FlatNodes
      <3>3. QED
        BY <1>2, <2>1, <3>1, <3>2, Stages
    <2>3. QED
      BY <1>1, <1>2, <2>1, <2>2
  <1>5. CASE m \in Procs
    <2>1. TheWay[m].branch = b
      BY <1>5 DEF BranchAt
    <2>2. Stage(m) <= Stage(n) \/ Stage(m) >= Stage(Target(n, b))
      BY <1>5, <2>1, Targets
    <2>3. ASSUME Stage(m) = Stage(n)
          PROVE  m = n
      <3>1. Stage(m) >= 1
        BY <1>5, Stages, FlatNodes
      <3>2. n # HeadNode
        BY <2>3, <3>1, Stages
      <3>3. n \in Procs /\ TheWay[n].branch = b
        BY <1>2, <3>2 DEF InChain, Passes
      <3>4. QED
        BY <1>5, <2>1, <2>3, <3>3, Stages
    <2>4. QED
      BY <1>1, <1>2, <2>2, <2>3
  <1>6. QED
    BY <1>3, <1>4, <1>5, FlatNodes

LEMMA TagsDiffer ==
  ASSUME Flat
  PROVE  /\ \A q, w : Tagged(q, w) => q.fan = HeadNode /\ ~Untagged(q)
         /\ \A q : Untagged(q) => q.fan # HeadNode
  BY FlatNodes DEF Tagged, Untagged

(* What leaves a node may wait at the next. *)
LEMMA LeftMayWait ==
  ASSUME Flat, NEW n \in Nodes, NEW w, NEW p \in PushSet, MayLeave(n, p, w), p.to \in Nodes,
         NEW b, b = BranchAt(n, p.q)
  PROVE  /\ MayWait(p.to, p.q, w)
         /\ p.q.fan = HeadNode =>
              Passes(n, b) /\ p.to = Target(n, b) /\ BranchAt(p.to, p.q) = b
  <1>1. "sink" \notin Nodes
    BY Topology
  <1>2. CASE Untagged(p.q)
    <2>1. p.q.dir = "up"
      BY <1>1, <1>2, TagsDiffer DEF MayLeave
    <2>2. QED
      BY <1>2, <2>1, TagsDiffer DEF MayWait
  <1>3. CASE ~Untagged(p.q)
    <2>1. /\ Tagged(p.q, w) /\ n # TheJoin /\ b \in 1..Branches /\ p.to = Target(n, b)
          /\ p.to = TheJoin => p.q.branch = b
      BY <1>3 DEF MayLeave
    <2>2. Passes(n, b)
      <3>1. InChain(n)
        BY <2>1, FlatNodes DEF InChain
      <3>2. n \in Procs => TheWay[n].branch = b
        BY DEF BranchAt
      <3>3. QED
        BY <2>1, <3>1, <3>2 DEF Passes
    <2>3. Target(n, b) # HeadNode /\ (Target(n, b) \in Procs => TheWay[Target(n, b)].branch = b)
      BY <2>2, Targets
    <2>4. BranchAt(p.to, p.q) = b
      BY <2>1, <2>3, FlatNodes DEF BranchAt
    <2>5. MayWait(p.to, p.q, w)
      BY <2>1, <2>3 DEF MayWait
    <2>6. QED
      BY <2>1, <2>2, <2>4, <2>5
  <1>4. QED
    BY <1>2, <1>3

LEMMA TailFine ==
  ASSUME NEW n, NEW in, NEW w, NEW p \in Seq(PushSet), p # <<>>, NodeFine(n, in, p, w)
  PROVE  NodeFine(n, in, Tail(p), w)
  <1>1. \A i \in DOMAIN Tail(p) : i + 1 \in DOMAIN p /\ i + 1 > 1 /\ Tail(p)[i] = p[i + 1]
    BY TailThins
  <1>2. Thins(Tail(p), p)
    BY TailThins
  <1>3. PICK t : t = Tail(p)
    OBVIOUS
  <1>4. Thins(Sent(t), Sent(p))
    <2>1. /\ \A i \in DOMAIN t : \E c \in DOMAIN p : t[i] = p[c]
          /\ \A i, j \in DOMAIN t : i < j =>
               \E c, d \in DOMAIN p : c < d /\ t[i] = p[c] /\ t[j] = p[d]
      BY <1>2, <1>3 DEF Thins
    <2>2. \A s : DOMAIN Sent(s) = DOMAIN s /\ \A i \in DOMAIN s : Sent(s)[i] = s[i].q
      BY DEF Sent
    <2>3. ASSUME NEW i \in DOMAIN Sent(t)
          PROVE  \E c \in DOMAIN Sent(p) : Sent(t)[i] = Sent(p)[c]
      BY <2>1, <2>2
    <2>4. ASSUME NEW i \in DOMAIN Sent(t), NEW j \in DOMAIN Sent(t), i < j
          PROVE  \E c, d \in DOMAIN Sent(p) :
                   c < d /\ Sent(t)[i] = Sent(p)[c] /\ Sent(t)[j] = Sent(p)[d]
      <3>1. PICK c \in DOMAIN p, d \in DOMAIN p : c < d /\ t[i] = p[c] /\ t[j] = p[d]
        BY <2>1, <2>2, <2>4
      <3>2. /\ c \in DOMAIN Sent(p) /\ d \in DOMAIN Sent(p)
            /\ Sent(t)[i] = t[i].q /\ Sent(t)[j] = t[j].q
            /\ Sent(p)[c] = p[c].q /\ Sent(p)[d] = p[d].q
        BY <2>2, <2>4
      <3>3. QED
        BY <3>1, <3>2
    <2>5. QED
      BY <2>3, <2>4 DEF Thins
  <1>5. Sorted(n, Sent(t))
    BY <1>4, SortedThin DEF NodeFine
  <1>6. \A i \in DOMAIN t : MayLeave(n, t[i], w)
    BY <1>1, <1>3 DEF NodeFine
  <1>7. NodeFine(n, in, t, w)
    BY <1>5, <1>6 DEF NodeFine
  <1>8. QED
    BY <1>3, <1>7

LEMMA PutFine ==
  ASSUME NEW n, NEW in \in InboxSet(Wares), NEW p, NEW w, NodeFine(n, in, p, w),
         NEW q \in Wares, MayWait(n, q, w),
         q.fan = HeadNode =>
           \A y \in Items(in) : y.fan = HeadNode /\ BranchAt(n, y) = BranchAt(n, q) => Ok(y, q)
  PROVE  /\ NodeFine(n, Enqueue(in, q), p, w)
         /\ Enqueue(in, q) \in InboxSet(Wares)
         /\ Items(Enqueue(in, q)) \subseteq Items(in) \cup {q}
  <1>1. PICK r : r = Enqueue(in, q)
    OBVIOUS
  <1>2. r \in InboxSet(Wares) /\ PutIn(in, q, r)
    BY <1>1, PutIs
  <1>3. /\ Clean(r) /\ Items(r) \subseteq Items(in) \cup {q}
        /\ r.down = in.down \/ r.down = Append(in.down, q)
    BY <1>2, PutItems DEF NodeFine
  <1>4. Sorted(n, r.down)
    <2>1. CASE r.down = in.down
      BY <2>1 DEF NodeFine
    <2>2. CASE r.down = Append(in.down, q)
      <3> SUFFICES ASSUME NEW a \in DOMAIN r.down, NEW b \in DOMAIN r.down, a < b,
                          r.down[a].fan = HeadNode, r.down[b].fan = HeadNode,
                          BranchAt(n, r.down[a]) = BranchAt(n, r.down[b])
                   PROVE  Ok(r.down[a], r.down[b])
        BY DEF Sorted
      <3>1. in.down \in Seq(Wares)
        BY DEF InboxSet
      <3>2. /\ a \in DOMAIN in.down /\ r.down[a] = in.down[a]
            /\ \/ b \in DOMAIN in.down /\ r.down[b] = in.down[b]
               \/ r.down[b] = q
        BY <2>2, <3>1, AppendIs
      <3>3. r.down[a] \in Items(in)
        BY <3>2 DEF Items
      <3>4. CASE b \in DOMAIN in.down /\ r.down[b] = in.down[b]
        BY <3>2, <3>4 DEF NodeFine, Sorted
      <3>5. CASE r.down[b] = q
        BY <3>3, <3>5
      <3>6. QED
        BY <3>2, <3>4, <3>5
    <2>3. QED
      BY <1>3, <2>1, <2>2
  <1>5. NodeFine(n, r, p, w)
    BY <1>3, <1>4 DEF NodeFine
  <1>6. QED
    BY <1>1, <1>2, <1>3, <1>5

(* What is left of an inbox when its first item has been taken.             *)
Gone(in, r) ==
  /\ Items(r) \subseteq Items(in) /\ Front(in) \in Items(in)
  /\ Front(in).ctrl = "barrier" =>
       /\ 1 \in DOMAIN in.down /\ Front(in) = in.down[1]
       /\ \A y \in Items(r) : \E j \in DOMAIN in.down : j > 1 /\ y = in.down[j]

LEMMA TakeFine ==
  ASSUME NEW n, NEW in \in InboxSet(Wares), NEW p, NEW w, NodeFine(n, in, p, w), ~IsEmpty(in),
         NEW r \in {PopFront(in), DrainInterruptible(PopFront(in))},
         NEW s, \A i \in DOMAIN s : MayLeave(n, s[i], w), Sorted(n, Sent(s))
  PROVE  NodeFine(n, r, s, w) /\ r \in InboxSet(Wares) /\ Gone(in, r)
  <1>1. r \in InboxSet(Wares) /\ TakenFrom(in, r)
    BY TakenIs
  <1>2. Clean(r) /\ Thins(r.down, in.down) /\ Gone(in, r)
    <2>1. Clean(in)
      BY DEF NodeFine
    <2>2. QED
      BY <1>1, <2>1, TakenItems DEF Gone
  <1>3. Sorted(n, r.down)
    BY <1>2, SortedThin DEF NodeFine
  <1>4. \A q \in Items(r) : MayWait(n, q, w)
    BY <1>2 DEF NodeFine, Gone
  <1>5. NodeFine(n, r, s, w)
    BY <1>2, <1>3, <1>4 DEF NodeFine
  <1>6. QED
    BY <1>1, <1>2, <1>5

-----------------------------------------------------------------------------
(* What the handlers of a flat pipeline push.                               *)
GoesUp(x) == Untagged(x.q) /\ x.q.dir = "up"

(* What a processor makes of q: upstream frames, and q or a frame made from *)
(* it, of the same wave.                                                    *)
FollowOn(n, q, x) ==
  /\ x.q.fan = q.fan /\ x.q.epoch = q.epoch /\ x.q.dir = "down" /\ q.dir = "down"
  /\ x.to = Down[n][1]
  /\ x.to = TheJoin => x.q.branch = BranchOf[n]

Made(n, q, x) ==
  /\ x.q.ctrl = "none" /\ q.ctrl = "none"
  /\ FrameOf(x.q) = FrameOf(q) \/ FrameOf(x.q) = SideFrame(n, q)

Follows(n, q, p) ==
  \A i \in DOMAIN p :
    \/ GoesUp(p[i])
    \/ /\ FollowOn(n, q, p[i])
       /\ \/ Made(n, q, p[i])
          \/ p[i].q.ctrl = "barrier" /\ q.ctrl = "barrier" /\ \A j \in DOMAIN p : j = i

LEMMA UpOnly ==
  ASSUME NEW n \in Nodes, NEW f \in FrameSet
  PROVE  /\ DeliverUp(n, f) \in Seq(PushSet)
         /\ \A i \in DOMAIN DeliverUp(n, f) : GoesUp(DeliverUp(n, f)[i])
  <1>1. DeliverUp(n, f) = <<Push(Up[n], UpItem(f))>>
    BY DEF DeliverUp
  <1>2. GoesUp(Push(Up[n], UpItem(f)))
    BY DEF GoesUp, Push, UpItem, Item, Untagged
  <1>3. DeliverUp(n, f) \in Seq(PushSet)
    BY UpPushIs
  <1>4. \A i \in DOMAIN DeliverUp(n, f) : GoesUp(DeliverUp(n, f)[i])
    <2> DEFINE z == Push(Up[n], UpItem(f))
    <2>1. DOMAIN <<z>> = {1} /\ <<z>>[1] = z
      OBVIOUS
    <2> HIDE DEF z
    <2>2. \A i \in DOMAIN <<z>> : <<z>>[i] = z
      BY <2>1
    <2>3. QED
      BY <1>1, <1>2, <2>2 DEF z
  <1>5. QED
    BY <1>3, <1>4

LEMMA OneDown ==
  ASSUME Flat, NEW n \in Procs, NEW q \in Wares, q.dir = "down"
  PROVE  /\ DeliverDown(n, q) \in Seq(PushSet)
         /\ \A i \in DOMAIN DeliverDown(n, q) :
              /\ i = 1
              /\ DeliverDown(n, q)[i].to = Down[n][1]
              /\ DeliverDown(n, q)[i].q.fan = q.fan /\ DeliverDown(n, q)[i].q.epoch = q.epoch
              /\ DeliverDown(n, q)[i].q.dir = q.dir /\ DeliverDown(n, q)[i].q.ctrl = q.ctrl
              /\ FrameOf(DeliverDown(n, q)[i].q) = FrameOf(q)
              /\ Down[n][1] = TheJoin => DeliverDown(n, q)[i].q.branch = BranchOf[n]
  <1>1. n \in Nodes /\ Len(Down[n]) = 1 /\ DOMAIN Down[n] = 1..1 /\ Down[n] # <<>>
    <2>1. n \in Nodes /\ Len(Down[n]) = 1
      BY FlatNodes DEF FlatWay
    <2>2. QED
      BY <2>1, Topology
  <1>2. PICK g : g = [q EXCEPT !.branch = IF Down[n][1] \in Joins THEN BranchOf[n] ELSE 0]
    OBVIOUS
  <1>3. /\ g.fan = q.fan /\ g.epoch = q.epoch /\ g.dir = q.dir /\ g.ctrl = q.ctrl
        /\ FrameOf(g) = FrameOf(q)
        /\ Down[n][1] = TheJoin => g.branch = BranchOf[n]
    BY <1>2, FlatNodes DEF Wares, ItemSet, FrameOf, Frame
  <1>4. DeliverDown(n, q) = [i \in 1..1 |->
          Push(Down[n][i], [q EXCEPT !.branch = IF Down[n][i] \in Joins THEN BranchOf[n] ELSE 0])]
    BY <1>1, Zenon DEF DeliverDown
  <1>5. \A i \in DOMAIN DeliverDown(n, q) : i = 1 /\ DeliverDown(n, q)[i] = Push(Down[n][1], g)
    <2>1. \A i \in 1..1 : i = 1
      OBVIOUS
    <2>2. QED
      BY <1>2, <1>4, <2>1, Zenon
  <1>6. DeliverDown(n, q) \in Seq(PushSet)
    <2>1. DeliverDown(n, q) \in Seq(DownPushes)
      BY <1>1, DeliverDownIs
    <2>2. QED
      BY <2>1, NoErrorsDown
  <1>7. Push(Down[n][1], g).to = Down[n][1] /\ Push(Down[n][1], g).q = g
    BY DEF Push
  <1>8. QED
    BY <1>3, <1>5, <1>6, <1>7

(* Each push of a Process. *)
FollowSet(n, q) ==
  {x \in PushSet : GoesUp(x) \/ (FollowOn(n, q, x) /\ Made(n, q, x))}

LEMMA MadeDown ==
  ASSUME Flat, NEW n \in Procs, NEW q \in Wares, q.ctrl = "none", q.dir = "down",
         NEW f \in FrameSet, f = FrameOf(q) \/ f = SideFrame(n, q)
  PROVE  DeliverDown(n, DownItem(f, q.epoch, q.fan, 0)) \in Seq(FollowSet(n, q))
  <1>1. PICK d : d = DownItem(f, q.epoch, q.fan, 0)
    OBVIOUS
  <1>2. /\ d \in Wares /\ d.dir = "down" /\ d.ctrl = "none" /\ d.fan = q.fan
        /\ d.epoch = q.epoch /\ FrameOf(d) = f
    <2>1. q.epoch \in Nat /\ q.fan \in Fans \cup {NoFan}
      BY DEF Wares, ItemSet
    <2>2. d \in Wares /\ d.dir = "down" /\ FrameOf(d) = f
      BY <1>1, <2>1, FramesOfItems
    <2>3. d.ctrl = "none" /\ d.fan = q.fan /\ d.epoch = q.epoch
      BY <1>1 DEF DownItem, Item
    <2>4. QED
      BY <2>2, <2>3
  <1>3. PICK s : s = DeliverDown(n, d)
    OBVIOUS
  <1>4. s \in Seq(PushSet) /\ \A i \in DOMAIN s : FollowOn(n, q, s[i]) /\ Made(n, q, s[i])
    <2>1. /\ s \in Seq(PushSet)
          /\ \A i \in DOMAIN s :
               /\ s[i].to = Down[n][1] /\ s[i].q.fan = d.fan /\ s[i].q.epoch = d.epoch
               /\ s[i].q.dir = d.dir /\ s[i].q.ctrl = d.ctrl /\ FrameOf(s[i].q) = FrameOf(d)
               /\ Down[n][1] = TheJoin => s[i].q.branch = BranchOf[n]
      BY <1>2, <1>3, OneDown
    <2>2. QED
      BY <1>2, <2>1 DEF FollowOn, Made
  <1>5. \A i \in DOMAIN s : s[i] \in FollowSet(n, q)
    BY <1>4, ElementOfSeq, LenProperties DEF FollowSet
  <1>6. Len(s) \in Nat /\ s = [i \in 1..Len(s) |-> s[i]] /\ DOMAIN s = 1..Len(s)
    BY <1>4, LenProperties
  <1>7. s \in Seq(FollowSet(n, q))
    BY <1>5, <1>6, IsASeq
  <1>8. QED
    BY <1>1, <1>3, <1>7

LEMMA ProcessFollows ==
  ASSUME Flat, NEW n \in Procs, NEW q \in Wares, q.ctrl = "none", NEW b \in Behaviours
  PROVE  Emitted(n, b, q) \in Seq(PushSet) /\ Follows(n, q, Emitted(n, b, q))
  <1> DEFINE S == FollowSet(n, q)
             s == IF b = "side" /\ q.dir = "down"
                  THEN DeliverDown(n, DownItem(SideFrame(n, q), q.epoch, q.fan, 0)) ELSE <<>>
             t == IF b = "fail" THEN DeliverUp(n, Frame("Error", 0, n)) ELSE <<>>
             u == CASE ~Relayed(b, q) -> <<>>
                    [] Relayed(b, q) /\ q.dir = "up" -> DeliverUp(n, FrameOf(q))
                    [] Relayed(b, q) /\ q.dir = "down" ->
                         DeliverDown(n, DownItem(FrameOf(q), q.epoch, q.fan, 0))
  <1>1. Emitted(n, b, q) = s \o t \o u
    BY DEF Emitted
  <1>2. /\ FrameOf(q) \in FrameSet /\ SideFrame(n, q) \in FrameSet
        /\ Frame("Error", 0, n) \in FrameSet /\ q.dir \in {"up", "down"} /\ n \in Nodes
    <2>1. FrameOf(q) \in FrameSet /\ q.dir \in {"up", "down"} /\ n \in Nodes
      BY FramesOfItems DEF Wares, ItemSet, Nodes
    <2>2. SideFrame(n, q) \in FrameSet /\ Frame("Error", 0, n) \in FrameSet
      BY <2>1 DEF SideFrame, Frame, FrameSet, Wares, ItemSet, FrameKinds, SystemKinds, DataKinds
    <2>3. QED
      BY <2>1, <2>2
  <1>3. \A f \in FrameSet : DeliverUp(n, f) \in Seq(S)
    <2>1. ASSUME NEW f \in FrameSet
          PROVE  DeliverUp(n, f) \in Seq(S)
      <3>1. PICK v : v = DeliverUp(n, f)
        OBVIOUS
      <3>2. v \in Seq(PushSet) /\ \A i \in DOMAIN v : GoesUp(v[i])
        BY <1>2, <3>1, UpOnly
      <3>3. Len(v) \in Nat /\ v = [i \in 1..Len(v) |-> v[i]] /\ DOMAIN v = 1..Len(v)
            /\ \A i \in 1..Len(v) : v[i] \in S
        BY <3>2, LenProperties, ElementOfSeq DEF FollowSet
      <3> HIDE DEF S
      <3>4. v \in Seq(S)
        BY <3>3, IsASeq
      <3>5. QED
        BY <3>1, <3>4
    <2>2. QED
      BY <2>1
  <1> HIDE DEF S
  <1>4. <<>> \in Seq(S)
    BY EmptySeq
  <1>5. s \in Seq(S)
    BY <1>2, <1>4, MadeDown DEF S
  <1>6. t \in Seq(S)
    BY <1>2, <1>3, <1>4
  <1>7. u \in Seq(S)
    <2>1. q.dir = "down" => DeliverDown(n, DownItem(FrameOf(q), q.epoch, q.fan, 0)) \in Seq(S)
      BY <1>2, MadeDown DEF S
    <2>2. DeliverUp(n, FrameOf(q)) \in Seq(S)
      BY <1>2, <1>3
    <2>3. QED
      BY <1>2, <1>4, <2>1, <2>2
  <1> HIDE DEF s, t, u
  <1>8. (s \o t) \o u \in Seq(S)
    BY <1>5, <1>6, <1>7, ConcatProperties
  <1>9. PICK v \in Seq(S) : v = Emitted(n, b, q)
    BY <1>1, <1>8
  <1>10. \A i \in DOMAIN v : v[i] \in S
    BY LenProperties, ElementOfSeq
  <1>11. v \in Seq(PushSet)
    BY SeqMonotonic DEF S, FollowSet
  <1>12. Follows(n, q, v)
    BY <1>10 DEF S, FollowSet, Follows
  <1>13. QED
    BY <1>9, <1>11, <1>12

LEMMA BarrierFollows ==
  ASSUME Flat, NEW n \in Procs, NEW q \in Wares, q.ctrl = "barrier"
  PROVE  DeliverDown(n, q) \in Seq(PushSet) /\ Follows(n, q, DeliverDown(n, q))
  <1>1. q.dir = "down"
    BY DEF Wares
  <1>2. PICK s : s = DeliverDown(n, q)
    OBVIOUS
  <1>3. /\ s \in Seq(PushSet)
        /\ \A i \in DOMAIN s :
             /\ i = 1
             /\ s[i].to = Down[n][1] /\ s[i].q.fan = q.fan /\ s[i].q.epoch = q.epoch
             /\ s[i].q.dir = q.dir /\ s[i].q.ctrl = q.ctrl
             /\ Down[n][1] = TheJoin => s[i].q.branch = BranchOf[n]
    BY <1>1, <1>2, OneDown
  <1>4. Follows(n, q, s)
    BY <1>1, <1>3 DEF Follows, FollowOn
  <1>5. QED
    BY <1>2, <1>3, <1>4

-----------------------------------------------------------------------------
(* What a node takes and what it makes of it.                               *)
Takes(n, p) ==
  /\ out' = [out EXCEPT ![n] = p]
  /\ \E r \in {PopFront(inbox[n]), DrainInterruptible(PopFront(inbox[n]))} :
       inbox' = [inbox EXCEPT ![n] = r]
  /\ UNCHANGED <<sent, arrived>>

WavesSame == UNCHANGED <<fanSeq, order, next, epochs>>

(* The i-th of the pushes of wave e, which f begins. *)
WavePush(p, i, f, e) ==
  \/ /\ i \in 1..Branches
     /\ p[i] = Push(Down[HeadNode][i], DownItem(f, e, HeadNode, i))
  \/ /\ i - Branches \in 1..Branches
     /\ p[i] = Push(Down[HeadNode][i - Branches], Barrier(e, HeadNode, i - Branches))

BeginsWave(p, f) ==
  /\ \A i \in DOMAIN p : WavePush(p, i, f, fanSeq[HeadNode] + 1)
  /\ fanSeq' = [fanSeq EXCEPT ![HeadNode] = @ + 1]
  /\ order' = [order EXCEPT ![HeadNode] = Append(@, f)]
  /\ UNCHANGED <<next, epochs>>

LEMMA PlainTake ==
  ASSUME NEW n, NEW p, TakeAnd(n, p), PopOnly(n), UNCHANGED <<sent, arrived>>
  PROVE  Takes(n, p)
  BY DEF TakeAnd, PopOnly, Takes

LEMMA ProcHandles ==
  ASSUME Flat, Typed, NEW n \in Procs, Handles(n)
  PROVE  \E p \in Seq(PushSet) : Takes(n, p) /\ Follows(n, Taken(n), p) /\ WavesSame
  <1> DEFINE q == Taken(n)
  <1>1. n \in Nodes /\ CanTake(n) /\ q \in Wares /\ n \notin Fans /\ n \notin Joins
    BY TakenTyped, FlatNodes DEF Handles
  <1> HIDE DEF q
  <1>2. CASE NodeBarrier(n)
    <2>1. /\ q.ctrl = "barrier" /\ TakeAnd(n, DeliverDown(n, q)) /\ PopOnly(n)
          /\ UNCHANGED <<sent, arrived>> /\ WavesSame
      BY <1>2 DEF NodeBarrier, q, WavesSame
    <2>2. DeliverDown(n, q) \in Seq(PushSet) /\ Follows(n, q, DeliverDown(n, q))
      BY <1>1, <2>1, BarrierFollows
    <2>3. Takes(n, DeliverDown(n, q))
      BY <2>1, PlainTake
    <2>4. QED
      BY <2>1, <2>2, <2>3 DEF q
  <1>3. CASE NodeProcess(n)
    <2>1. /\ q.ctrl = "none" /\ UNCHANGED <<sent, arrived>> /\ WavesSame
          /\ inbox' = [inbox EXCEPT ![n] =
                         IF q.kind = "Interruption" THEN DrainInterruptible(PopFront(@))
                         ELSE PopFront(@)]
      BY <1>3 DEF NodeProcess, q, WavesSame
    <2>2. PICK b \in Behaviours : TakeAnd(n, Emitted(n, b, q))
      BY <1>3 DEF NodeProcess, q
    <2>3. Emitted(n, b, q) \in Seq(PushSet) /\ Follows(n, q, Emitted(n, b, q))
      BY <1>1, <2>1, ProcessFollows
    <2>4. \E r \in {PopFront(inbox[n]), DrainInterruptible(PopFront(inbox[n]))} :
            inbox' = [inbox EXCEPT ![n] = r]
      BY <2>1
    <2>5. Takes(n, Emitted(n, b, q))
      BY <2>1, <2>2, <2>4 DEF Takes, TakeAnd
    <2>6. QED
      BY <2>1, <2>3, <2>5 DEF q
  <1>4. QED
    BY <1>1, <1>2, <1>3 DEF Handles

LEMMA FanHandles ==
  ASSUME Flat, Typed, Handles(HeadNode), Untagged(Taken(HeadNode))
  PROVE  \E p \in Seq(PushSet) :
           /\ Takes(HeadNode, p)
           /\ \/ (\A i \in DOMAIN p : GoesUp(p[i])) /\ WavesSame
              \/ BeginsWave(p, FrameOf(Taken(HeadNode))) /\ Taken(HeadNode).dir = "down"
  <1> DEFINE n == HeadNode
             q == Taken(HeadNode)
  <1>1. /\ n \in Nodes /\ n \in Fans /\ n \notin Procs /\ n \notin Joins
        /\ CanTake(n) /\ q \in Wares /\ q.ctrl = "none" /\ FrameOf(q) \in FrameSet
    <2>1. n \in Nodes /\ n \in Fans /\ n \notin Procs /\ n \notin Joins /\ CanTake(n)
      BY FlatNodes DEF Handles
    <2>2. q \in Wares /\ q.ctrl = "none"
      BY <2>1, TakenTyped DEF Untagged
    <2>3. QED
      BY <2>1, <2>2, FramesOfItems
  <1>2. CASE FanForwards(n)
    <2>1. q.dir = "up" /\ TakeAnd(n, DeliverUp(n, FrameOf(q))) /\ PopOnly(n)
          /\ UNCHANGED <<sent, arrived>> /\ WavesSame
      BY <1>1, <1>2 DEF FanForwards, WavesSame
    <2>2. Takes(n, DeliverUp(n, FrameOf(q)))
      BY <2>1, PlainTake
    <2>3. /\ DeliverUp(n, FrameOf(q)) \in Seq(PushSet)
          /\ \A i \in DOMAIN DeliverUp(n, FrameOf(q)) : GoesUp(DeliverUp(n, FrameOf(q))[i])
      BY <1>1, UpOnly
    <2>4. QED
      BY <2>1, <2>2, <2>3
  <1>3. CASE FanWave(n)
    <2> DEFINE e == fanSeq[n] + 1
               f == [i \in DOMAIN Down[n] |-> DownItem(FrameOf(q), e, n, i)]
               g == [i \in DOMAIN Down[n] |-> Barrier(e, n, i)]
               s == [i \in DOMAIN Down[n] |-> Push(Down[n][i], f[i])]
               t == [i \in DOMAIN Down[n] |-> Push(Down[n][i], g[i])]
    <2>1. q.dir = "down" /\ e \in Nat /\ DOMAIN Down[n] = 1..Branches
      BY <1>1, <1>3, FlatNodes DEF FanWave, Typed
    <2>2. /\ \A i \in DOMAIN Down[n] : f[i] \in Wares /\ f[i].dir = "down"
          /\ \A i \in DOMAIN Down[n] : g[i] \in Wares /\ g[i].dir = "down"
      <3> HIDE DEF e
      <3>1. \A i \in DOMAIN Down[n] : i \in Nat
        BY <1>1, Topology
      <3>2. n \in Fans \cup {NoFan}
        BY <1>1
      <3>3. QED
        BY <1>1, <2>1, <3>1, <3>2, FramesOfItems
    <2>3. /\ s \in Seq(DownPushes)
          /\ \A i \in 1..Branches : s[i] = Push(Down[n][i], DownItem(FrameOf(q), e, n, i))
      <3>1. \A i \in 1..Branches : s[i] = Push(Down[n][i], DownItem(FrameOf(q), e, n, i))
        BY <2>1, Zenon
      <3> HIDE DEF f
      <3>2. s \in Seq(DownPushes)
        BY <1>1, <2>2, ToBranchesIs
      <3>3. QED
        BY <3>1, <3>2
    <2>4. t \in Seq(DownPushes) /\ \A i \in 1..Branches : t[i] = Push(Down[n][i], Barrier(e, n, i))
      <3>1. \A i \in 1..Branches : t[i] = Push(Down[n][i], Barrier(e, n, i))
        BY <2>1, Zenon
      <3> HIDE DEF g
      <3>2. t \in Seq(DownPushes)
        BY <1>1, <2>2, ToBranchesIs
      <3>3. QED
        BY <3>1, <3>2
    <2>5. TakeAnd(n, s \o t) /\ PopOnly(n) /\ UNCHANGED <<sent, arrived>>
      BY <1>3 DEF FanWave, ToBranches
    <2>6. Len(s) = Branches /\ Len(t) = Branches /\ Branches \in Nat
      <3>1. DOMAIN s = 1..Branches /\ DOMAIN t = 1..Branches
        BY <2>1
      <3>2. Branches \in Nat
        BY FlatNodes
      <3> HIDE DEF s, t
      <3>3. Len(s) \in Nat /\ DOMAIN s = 1..Len(s) /\ Len(t) \in Nat /\ DOMAIN t = 1..Len(t)
        BY <2>3, <2>4, LenProperties
      <3>4. QED
        BY <3>1, <3>2, <3>3
    <2> HIDE DEF s, t
    <2>7. PICK p : p = s \o t
      OBVIOUS
    <2>8. /\ p \in Seq(PushSet)
          /\ \A i \in DOMAIN p : WavePush(p, i, FrameOf(q), e)
      <3>1. p \in Seq(DownPushes)
        BY <2>3, <2>4, <2>7, ConcatProperties
      <3>2. p \in Seq(PushSet)
        BY <3>1, NoErrorsDown
      <3>3. \A i \in DOMAIN p : \/ i \in 1..Branches /\ p[i] = s[i]
                                \/ i - Branches \in 1..Branches /\ p[i] = t[i - Branches]
        <4>1. DOMAIN p = 1..(Branches + Branches)
              /\ \A i \in 1..(Branches + Branches) :
                   p[i] = IF i <= Branches THEN s[i] ELSE t[i - Branches]
          <5>1. /\ Len(s \o t) = Len(s) + Len(t)
                /\ \A i \in 1..(Len(s) + Len(t)) :
                     (s \o t)[i] = IF i <= Len(s) THEN s[i] ELSE t[i - Len(s)]
            BY <2>3, <2>4, ConcatProperties
          <5>2. Len(p) = Branches + Branches /\ DOMAIN p = 1..Len(p)
            BY <2>6, <2>7, <3>1, <5>1, LenProperties
          <5>3. QED
            BY <2>6, <2>7, <5>1, <5>2
        <4>2. QED
          BY <2>6, <4>1
      <3>4. \A i \in DOMAIN p : WavePush(p, i, FrameOf(q), e)
        BY <2>3, <2>4, <3>3 DEF WavePush
      <3>5. QED
        BY <3>2, <3>4
    <2>9. /\ fanSeq' = [fanSeq EXCEPT ![n] = @ + 1]
          /\ order' = [order EXCEPT ![n] = Append(@, FrameOf(q))]
          /\ UNCHANGED <<next, epochs>>
      BY <1>3 DEF FanWave
    <2>10. Takes(n, p)
      BY <2>5, <2>7, PlainTake
    <2>11. BeginsWave(p, FrameOf(q))
      BY <2>8, <2>9 DEF BeginsWave
    <2>12. QED
      BY <2>1, <2>8, <2>10, <2>11
  <1>4. QED
    BY <1>1, <1>2, <1>3 DEF Handles

(* The join sends frames of no wave on; it keeps what it takes of a wave.   *)
LEMMA JoinForwardsIs ==
  ASSUME Flat, Typed, Handles(TheJoin), Untagged(Taken(TheJoin)), Taken(TheJoin).dir = "up"
  PROVE  \E p \in Seq(PushSet) :
           Takes(TheJoin, p) /\ (\A i \in DOMAIN p : GoesUp(p[i])) /\ WavesSame
  <1> DEFINE n == TheJoin
             q == Taken(TheJoin)
  <1>1. n \in Nodes /\ n \notin Fans /\ n \notin Procs /\ CanTake(n)
    BY FlatNodes DEF Handles
  <1>2. q \in Wares /\ q.ctrl = "none" /\ FrameOf(q) \in FrameSet
    BY <1>1, TakenTyped, FramesOfItems DEF Untagged
  <1>3. JoinForwards(n)
    BY <1>1, <1>2 DEF Handles, JoinForeign, JoinWave
  <1>4. /\ TakeAnd(n, DeliverUp(n, FrameOf(q))) /\ PopOnly(n)
        /\ UNCHANGED <<sent, arrived>> /\ WavesSame
    BY <1>3 DEF JoinForwards, WavesSame
  <1>5. Takes(n, DeliverUp(n, FrameOf(q)))
    BY <1>4, PlainTake
  <1>6. /\ DeliverUp(n, FrameOf(q)) \in Seq(PushSet)
        /\ \A i \in DOMAIN DeliverUp(n, FrameOf(q)) : GoesUp(DeliverUp(n, FrameOf(q))[i])
    BY <1>1, <1>2, UpOnly
  <1>7. QED
    BY <1>4, <1>5, <1>6

JoinTakes(p) ==
  /\ p = Sends(TheJoin, Seqs!FlattenSeq(Merges(TheJoin)))
  /\ epochs' = [epochs EXCEPT ![TheJoin] =
                  [e \in DOMAIN Bufs(TheJoin) \ Ready(TheJoin) |-> Bufs(TheJoin)[e]]]
  /\ next' = [next EXCEPT ![TheJoin] = @ + Cardinality(Ready(TheJoin))]
  /\ UNCHANGED <<fanSeq, order>>

LEMMA JoinWaveTakes ==
  ASSUME Flat, Typed, Handles(TheJoin), Tagged(Taken(TheJoin), fanSeq[HeadNode])
  PROVE  \E p \in Seq(PushSet) : Takes(TheJoin, p) /\ JoinTakes(p)
  <1> DEFINE n == TheJoin
             q == Taken(TheJoin)
  <1>1. n \in Nodes /\ n \in Joins /\ n \notin Fans /\ n \notin Procs /\ CanTake(n)
    BY FlatNodes DEF Handles
  <1>2. q \in Wares /\ q.dir = "down" /\ q.epoch # 0 /\ q.fan = FanOf[n]
    BY <1>1, TakenTyped, FlatNodes DEF Tagged
  <1>3. JoinWave(n)
    BY <1>1, <1>2 DEF Handles, JoinForeign, JoinForwards
  <1>4. /\ TakeAnd(n, Sends(n, Seqs!FlattenSeq(Merges(n)))) /\ PopOnly(n)
        /\ epochs' = [epochs EXCEPT ![n] = [e \in DOMAIN Bufs(n) \ Ready(n) |-> Bufs(n)[e]]]
        /\ next' = [next EXCEPT ![n] = @ + Cardinality(Ready(n))]
        /\ UNCHANGED <<fanSeq, order, sent, arrived>>
    BY <1>3, JoinWaveIs
  <1>5. PICK p : p = Sends(n, Seqs!FlattenSeq(Merges(n)))
    OBVIOUS
  <1>6. p \in Seq(PushSet)
    <2>1. Sends(n, Seqs!FlattenSeq(Merges(n))) \in Seq(DownPushes)
      BY <1>1, <1>2, MergesTyped
    <2>2. QED
      BY <1>5, <2>1, NoErrorsDown
  <1>7. Takes(n, p)
    BY <1>4, <1>5, PlainTake
  <1>8. JoinTakes(p)
    BY <1>4, <1>5 DEF JoinTakes
  <1>9. QED
    BY <1>6, <1>7, <1>8

(* Frames that the join has merged go to the sink, one by one.              *)
SentOut(s, frames) ==
  /\ s \in Seq(PushSet)
  /\ \A i \in DOMAIN s : /\ s[i].to = "sink" /\ Untagged(s[i].q)
                         /\ \E c \in DOMAIN frames : FrameOf(s[i].q) = frames[c]
  /\ \A i, j \in DOMAIN s : i < j =>
       \E c, d \in DOMAIN frames :
         c < d /\ FrameOf(s[i].q) = frames[c] /\ FrameOf(s[j].q) = frames[d]

LEMMA SendsIs ==
  ASSUME Flat, NEW frames \in Seq(FrameSet)
  PROVE  SentOut(Sends(TheJoin, frames), frames)
  <1> DEFINE S(c) == DeliverDown(TheJoin, DownItem(frames[c], 0, NoFan, 0))
             ss == [c \in DOMAIN frames |-> S(c)]
             Out(c) == Push("sink", DownItem(frames[c], 0, NoFan, 0))
  <1>1. DOMAIN frames = 1..Len(frames) /\ Len(frames) \in Nat
        /\ \A c \in DOMAIN frames : frames[c] \in FrameSet
    BY LenProperties, ElementOfSeq
  <1>2. \A c \in DOMAIN frames : S(c) = <<Out(c)>>
    <2>1. Down[TheJoin] = <<>>
      BY FlatNodes
    <2>2. \A c : DownItem(frames[c], 0, NoFan, 0).ctrl = "none"
      BY DEF DownItem, Item
    <2>3. QED
      BY <2>1, <2>2 DEF DeliverDown
  <1>3. \A c \in DOMAIN frames : S(c) \in Seq(DownPushes)
    <2>1. TheJoin \in Nodes /\ NoFan \in Fans \cup {NoFan} /\ 0 \in Nat
      BY FlatNodes
    <2>2. QED
      BY <1>1, <2>1, DownPushIs
  <1>4. \A c \in DOMAIN frames : /\ DOMAIN S(c) = {1} /\ S(c)[1] = Out(c)
                                 /\ Out(c).to = "sink" /\ Untagged(Out(c).q)
                                 /\ FrameOf(Out(c).q) = frames[c]
    <2>1. \A c \in DOMAIN frames : DOMAIN S(c) = {1} /\ S(c)[1] = Out(c)
      <3> DEFINE Z == {Out(c) : c \in DOMAIN frames}
      <3>1. \A z : DOMAIN <<z>> = {1} /\ <<z>>[1] = z
        OBVIOUS
      <3> HIDE DEF Out, S
      <3>2. QED
        BY <1>2, <3>1, Zenon
    <2>2. \A c : /\ Out(c).to = "sink" /\ Untagged(Out(c).q)
      BY DEF Push, DownItem, Item, Untagged
    <2>3. \A c \in DOMAIN frames : FrameOf(Out(c).q) = frames[c]
      <3>1. \A c : Out(c).q = DownItem(frames[c], 0, NoFan, 0)
        BY DEF Push
      <3>2. \A f \in FrameSet : FrameOf(DownItem(f, 0, NoFan, 0)) = f
        BY DEF FrameSet, FrameOf, DownItem, Item, Frame
      <3> HIDE DEF Out
      <3>3. QED
        BY <1>1, <3>1, <3>2, Zenon
    <2>4. QED
      BY <2>1, <2>2, <2>3
  <1> HIDE DEF S, Out
  <1>5. /\ ss \in Seq(Seq(DownPushes)) /\ DOMAIN ss = DOMAIN frames
        /\ \A c \in DOMAIN frames : ss[c] = S(c)
    BY <1>1, <1>3, IsASeq
  <1>6. Sends(TheJoin, frames) = Seqs!FlattenSeq(ss)
    BY DEF Sends, S
  <1> HIDE DEF ss
  <1>7. PICK s : s = Sends(TheJoin, frames)
    OBVIOUS
  <1>8. s \in Seq(DownPushes) /\ RowOf(s, ss)
    BY <1>5, <1>6, <1>7, FlattenIs
  <1>9. s \in Seq(PushSet)
    BY <1>8, NoErrorsDown
  <1>10. ASSUME NEW i \in DOMAIN s
         PROVE  /\ s[i].to = "sink" /\ Untagged(s[i].q)
                /\ \E c \in DOMAIN frames : FrameOf(s[i].q) = frames[c]
    <2>1. PICK c \in DOMAIN ss : \E p \in DOMAIN ss[c] : s[i] = ss[c][p]
      BY <1>8 DEF RowOf
    <2>2. s[i] = Out(c) /\ c \in DOMAIN frames
      BY <1>4, <1>5, <2>1
    <2>3. QED
      BY <1>4, <2>2
  <1>11. ASSUME NEW i \in DOMAIN s, NEW j \in DOMAIN s, i < j
         PROVE  \E c, d \in DOMAIN frames :
                  c < d /\ FrameOf(s[i].q) = frames[c] /\ FrameOf(s[j].q) = frames[d]
    <2>1. InRow(ss, s[i], s[j])
      BY <1>8, <1>11 DEF RowOf
    <2>2. PICK b \in DOMAIN ss, c \in DOMAIN ss : \E p \in DOMAIN ss[b], q \in DOMAIN ss[c] :
            /\ s[i] = ss[b][p] /\ s[j] = ss[c][q]
            /\ b < c \/ (b = c /\ p < q)
      BY <2>1 DEF InRow
    <2>3. b < c /\ s[i] = Out(b) /\ s[j] = Out(c) /\ b \in DOMAIN frames /\ c \in DOMAIN frames
      BY <1>4, <1>5, <2>2
    <2>4. QED
      BY <1>4, <2>3
  <1>12. QED
    <2>1. SentOut(s, frames)
      BY <1>9, <1>10, <1>11 DEF SentOut
    <2>2. QED
      BY <1>7, <2>1, Zenon

-----------------------------------------------------------------------------
(* Every step keeps the waves in order.                                     *)
Waves == fanSeq[HeadNode]

LEMMA ThingsAre ==
  ASSUME Flat, Typed, Places
  PROVE  \A x \in Things(inbox, out) :
           /\ Tagged(x.q, Waves) /\ InBranch(x) \in 1..Branches
           /\ x.n = HeadNode => x.h = 1
           /\ x.n = TheJoin => x.h = 0
           /\ x.n # TheJoin => Passes(x.n, InBranch(x))
  <1> SUFFICES ASSUME NEW x \in Things(inbox, out)
               PROVE  /\ Tagged(x.q, Waves) /\ InBranch(x) \in 1..Branches
                      /\ x.n = HeadNode => x.h = 1
                      /\ x.n = TheJoin => x.h = 0
                      /\ x.n # TheJoin => Passes(x.n, InBranch(x))
    OBVIOUS
  <1>1. x.n \in Nodes /\ x.h \in {0, 1} /\ x.q.fan = HeadNode /\ x.q \in At(inbox, out, x.n, x.h)
    BY DEF Things
  <1>2. CASE x.h = 0
    <2>1. MayWait(x.n, x.q, Waves)
      BY <1>1, <1>2 DEF At, Places, NodeFine, Waves
    <2>2. Tagged(x.q, Waves) /\ x.n # HeadNode /\ (x.n = TheJoin => x.q.branch \in 1..Branches)
      BY <1>1, <2>1, TagsDiffer DEF MayWait
    <2>3. QED
      BY <1>1, <1>2, <2>2, FlatNodes, Stages DEF InBranch, BranchAt, Passes, InChain
  <1>3. CASE x.h = 1
    <2>1. PICK i \in DOMAIN out[x.n] : x.q = out[x.n][i].q
      BY <1>1, <1>3 DEF At
    <2>2. MayLeave(x.n, out[x.n][i], Waves)
      BY <1>1 DEF Places, NodeFine, Waves
    <2>3. Tagged(x.q, Waves) /\ x.n # TheJoin /\ BranchAt(x.n, x.q) \in 1..Branches
      BY <1>1, <2>1, <2>2, TagsDiffer DEF MayLeave
    <2>4. QED
      BY <1>1, <1>3, <2>3, FlatNodes DEF InBranch, BranchAt, Passes, InChain
  <1>4. QED
    BY <1>1, <1>2, <1>3

LEMMA FineLater ==
  ASSUME NEW n, NEW in, NEW p, NEW w \in Nat, NodeFine(n, in, p, w)
  PROVE  NodeFine(n, in, p, w + 1)
  <1>1. \A q : Tagged(q, w) => Tagged(q, w + 1)
    BY DEF Tagged
  <1>2. \A q : MayWait(n, q, w) => MayWait(n, q, w + 1)
    BY <1>1, Zenon DEF MayWait
  <1>3. \A x : MayLeave(n, x, w) => MayLeave(n, x, w + 1)
    BY <1>1, Zenon DEF MayLeave
  <1>4. QED
    BY <1>2, <1>3, Zenon DEF NodeFine

(* When what is new comes from what was there, the join's promises hold on. *)
Retains(T, U) ==
  \A x \in U : \E t \in T : InBranch(t) = InBranch(x) /\ t.q.epoch = x.q.epoch

LEMMA PassingKept ==
  ASSUME NEW T, NEW U, Retains(T, U), NEW bufs, NEW first, NEW w, PassingOf(T, bufs, first, w)
  PROVE  PassingOf(U, bufs, first, w)
  <1>1. \A e \in DOMAIN bufs : \A b \in bufs[e].seen :
          \A x \in U : InBranch(x) = b => x.q.epoch > e
    <2> SUFFICES ASSUME NEW e \in DOMAIN bufs, NEW b \in bufs[e].seen, NEW x \in U, InBranch(x) = b
                 PROVE  x.q.epoch > e
      OBVIOUS
    <2>1. PICK t \in T : InBranch(t) = InBranch(x) /\ t.q.epoch = x.q.epoch
      BY DEF Retains
    <2>2. t.q.epoch > e
      BY <2>1 DEF PassingOf
    <2>3. QED
      BY <2>1, <2>2
  <1>2. \A x \in U : x.q.epoch >= first
    BY DEF PassingOf, Retains
  <1>3. QED
    BY <1>1, <1>2 DEF PassingOf

LEMMA FewerRetained ==
  \A T, U : U \subseteq T => Retains(T, U)
  BY DEF Retains

LEMMA TakenTyping ==
  ASSUME Typed, NEW n \in Nodes, Handles(n)
  PROVE  /\ inbox \in [Nodes -> InboxSet(Wares)] /\ out \in [Nodes -> Seq(PushSet)]
         /\ inbox[n] \in InboxSet(Wares) /\ ~IsEmpty(inbox[n]) /\ Taken(n) \in Wares
         /\ Taken(n) = Front(inbox[n]) /\ out[n] = <<>>
  BY TakenTyped DEF Typed, Handles, CanTake, Taken

LEMMA ProcLeaves ==
  ASSUME Flat, NEW n \in Procs, NEW q, NEW w, MayWait(n, q, w),
         NEW p \in Seq(PushSet), Follows(n, q, p)
  PROVE  /\ \A i \in DOMAIN p : MayLeave(n, p[i], w)
         /\ Sorted(n, Sent(p))
         /\ \A i \in DOMAIN p : p[i].q.fan = HeadNode =>
              /\ q.fan = HeadNode /\ p[i].q.epoch = q.epoch
              /\ p[i].q.ctrl = "barrier" => q.ctrl = "barrier"
  <1>1. n # HeadNode /\ n # TheJoin /\ n \in Nodes
    BY FlatNodes
  <1>2. PICK b : b = TheWay[n].branch
    OBVIOUS
  <1>3. Passes(n, b) /\ b \in 1..Branches /\ Target(n, b) = Down[n][1] /\ \A x : BranchAt(n, x) = b
    BY <1>1, <1>2, Stages DEF Passes, InChain, Target, BranchAt
  <1>4. Down[n][1] = TheJoin => BranchOf[n] = b
    BY <1>1, <1>3, Targets
  <1>5. ASSUME NEW i \in DOMAIN p
        PROVE  /\ MayLeave(n, p[i], w)
               /\ p[i].q.fan = HeadNode =>
                    /\ q.fan = HeadNode /\ p[i].q.epoch = q.epoch
                    /\ p[i].q.ctrl = "barrier" => q.ctrl = "barrier"
    <2>1. CASE GoesUp(p[i])
      BY <2>1, TagsDiffer DEF GoesUp, MayLeave
    <2>2. CASE ~GoesUp(p[i])
      <3>1. /\ FollowOn(n, q, p[i])
            /\ p[i].q.ctrl = "barrier" => q.ctrl = "barrier"
        BY <2>2 DEF Follows, Made
      <3>2. Tagged(q, w)
        BY <1>1, <3>1 DEF FollowOn, MayWait
      <3>3. Tagged(p[i].q, w) /\ p[i].to = Target(n, b)
        BY <1>3, <3>1, <3>2 DEF FollowOn, Tagged
      <3>4. p[i].to = TheJoin => p[i].q.branch = b
        BY <1>4, <3>1 DEF FollowOn
      <3>5. MayLeave(n, p[i], w)
        BY <1>1, <1>3, <3>3, <3>4 DEF MayLeave
      <3>6. QED
        BY <3>1, <3>2, <3>5 DEF FollowOn, Tagged
    <2>3. QED
      BY <2>1, <2>2
  <1>6. Sorted(n, Sent(p))
    <2> SUFFICES ASSUME NEW a \in DOMAIN Sent(p), NEW c \in DOMAIN Sent(p), a < c
                 PROVE  Ok(Sent(p)[a], Sent(p)[c])
      BY DEF Sorted
    <2>1. a \in DOMAIN p /\ c \in DOMAIN p /\ Sent(p)[a] = p[a].q /\ a # c
      <3>1. DOMAIN Sent(p) = DOMAIN p /\ \A i \in DOMAIN p : Sent(p)[i] = p[i].q
        BY DEF Sent
      <3>2. Len(p) \in Nat /\ DOMAIN p = 1..Len(p)
        BY LenProperties
      <3>3. QED
        BY <3>1, <3>2
    <2>2. p[a].q.ctrl # "barrier"
      BY <2>1 DEF Follows, GoesUp, Untagged, Made
    <2>3. QED
      BY <2>1, <2>2 DEF Ok
  <1>7. QED
    BY <1>5, <1>6

(* The invariant after a step of node n: what it has taken and made of it   *)
(* fits the wave items, which are U afterwards.                             *)
LEMMA PlacesAfter ==
  ASSUME Flat, Typed, Places, NEW n \in Nodes, NEW r, NEW p, NEW w, w \in {Waves, Waves + 1},
         NodeFine(n, r, p, w),
         inbox' = [inbox EXCEPT ![n] = r], out' = [out EXCEPT ![n] = p], Waves' = w
  PROVE  Places'
  <1>1. Waves \in Nat /\ inbox \in [Nodes -> InboxSet(Wares)] /\ out \in [Nodes -> Seq(PushSet)]
    BY FlatNodes DEF Typed, Waves
  <1>2. ASSUME NEW m \in Nodes
        PROVE  NodeFine(m, inbox'[m], out'[m], w)
    <2>1. CASE m = n
      <3>1. inbox'[m] = r /\ out'[m] = p
        BY <1>1, <2>1
      <3>2. QED
        BY <2>1, <3>1
    <2>2. CASE m # n
      <3>1. inbox'[m] = inbox[m] /\ out'[m] = out[m]
        BY <1>1, <2>2
      <3>2. NodeFine(m, inbox[m], out[m], Waves)
        BY DEF Places, Waves
      <3>3. NodeFine(m, inbox[m], out[m], w)
        BY <1>1, <3>2, FineLater
      <3>4. QED
        BY <3>1, <3>3
    <2>3. QED
      BY <2>1, <2>2
  <1>3. QED
    BY <1>2 DEF Places, Waves

LEMMA TakenMayWait ==
  ASSUME Typed, Places, NEW n \in Nodes, Handles(n)
  PROVE  Taken(n) \in Items(inbox[n]) /\ MayWait(n, Taken(n), Waves)
  <1>1. PICK in : in = inbox[n]
    OBVIOUS
  <1>2. /\ in \in InboxSet(Wares) /\ ~IsEmpty(in) /\ Taken(n) = Front(in)
        /\ NodeFine(n, in, out[n], Waves)
    BY <1>1, TakenTyping DEF Places, Waves
  <1>3. PICK r \in {PopFront(in), DrainInterruptible(PopFront(in))} : TRUE
    OBVIOUS
  <1>4. PICK s : s = <<>>
    OBVIOUS
  <1>5. (\A i \in DOMAIN s : MayLeave(n, s[i], Waves)) /\ Sorted(n, Sent(s))
    BY <1>4 DEF Sorted, Sent
  <1>6. PICK w, o : w = Waves /\ o = out[n]
    OBVIOUS
  <1>7. Gone(in, r)
    BY <1>2, <1>3, <1>5, <1>6, TakeFine
  <1>8. QED
    BY <1>1, <1>2, <1>7 DEF NodeFine, Gone

LEMMA NodeHandled ==
  ASSUME Flat, Typed, Places, NEW n \in Nodes, Handles(n), NEW p \in Seq(PushSet), Takes(n, p),
         NEW w, w \in {Waves, Waves + 1}, Waves' = w,
         \A i \in DOMAIN p : MayLeave(n, p[i], w), Sorted(n, Sent(p))
  PROVE  /\ Places'
         /\ \E r : /\ Gone(inbox[n], r)
                   /\ HandledThings(n, p, r, Things(inbox, out), Things(inbox', out'))
  <1>1. PICK in : in = inbox[n]
    OBVIOUS
  <1>2. PICK r \in {PopFront(in), DrainInterruptible(PopFront(in))} :
          inbox' = [inbox EXCEPT ![n] = r] /\ out' = [out EXCEPT ![n] = p]
    BY <1>1 DEF Takes
  <1>3. /\ in \in InboxSet(Wares) /\ ~IsEmpty(in) /\ Taken(n) = Front(in)
        /\ inbox \in [Nodes -> InboxSet(Wares)] /\ out \in [Nodes -> Seq(PushSet)]
        /\ NodeFine(n, in, out[n], w) /\ Waves \in Nat
    <2>1. /\ in \in InboxSet(Wares) /\ ~IsEmpty(in) /\ Taken(n) = Front(in)
          /\ inbox \in [Nodes -> InboxSet(Wares)] /\ out \in [Nodes -> Seq(PushSet)]
      BY <1>1, TakenTyping
    <2>2. Waves \in Nat
      BY FlatNodes DEF Typed, Waves
    <2>3. NodeFine(n, in, out[n], Waves)
      BY <1>1 DEF Places, Waves
    <2>4. NodeFine(n, in, out[n], Waves + 1)
      BY <2>2, <2>3, FineLater
    <2>5. QED
      BY <2>1, <2>2, <2>3, <2>4
  <1>4. PICK o : o = out[n]
    OBVIOUS
  <1>5. NodeFine(n, in, o, w)
    BY <1>3, <1>4
  <1>6. NodeFine(n, r, p, w) /\ r \in InboxSet(Wares) /\ Gone(in, r)
    BY <1>2, <1>3, <1>5, TakeFine
  <1>7. Places'
    BY <1>2, <1>6, PlacesAfter
  <1>8. HandledThings(n, p, r, Things(inbox, out),
                      Things([inbox EXCEPT ![n] = r], [out EXCEPT ![n] = p]))
    <2>1. PICK I \in [Nodes -> InboxSet(Wares)], O \in [Nodes -> Seq(PushSet)] :
            I = inbox /\ O = out
      BY <1>3
    <2>2. Items(r) \subseteq Items(I[n]) /\ r \in InboxSet(Wares)
      BY <1>1, <1>6, <2>1 DEF Gone
    <2>3. HandledThings(n, p, r, Things(I, O),
                        Things([I EXCEPT ![n] = r], [O EXCEPT ![n] = p]))
      BY <2>2, ThingsHandled
    <2>4. QED
      BY <2>1, <2>3, Zenon
  <1>9. HandledThings(n, p, r, Things(inbox, out), Things(inbox', out'))
    BY <1>2, <1>8, Zenon
  <1>10. QED
    BY <1>1, <1>6, <1>7, <1>9, Zenon

(* Every frame of a wave there is now was there, or a processor has made it *)
(* of one that was.                                                         *)
Descends(T, U) ==
  \A x \in U : x.q.ctrl = "none" =>
    \E t \in T : /\ t.q.ctrl = "none" /\ t.q.epoch = x.q.epoch /\ t.q.id = x.q.id
                 /\ IsSyncFrame(x.q.kind) => FrameOf(x.q) = FrameOf(t.q)

(* f has begun wave e. *)
Begun(f, e, T, U) ==
  \A x \in U : x \in T \/ (x.q.epoch = e /\ (x.q.ctrl = "none" => FrameOf(x.q) = f))

LEMMA FewerDescend ==
  \A T, U : U \subseteq T => Descends(T, U)
  BY DEF Descends

LEMMA NothingNew ==
  ASSUME Flat, NEW n, NEW p, NEW r, NEW T, NEW U, HandledThings(n, p, r, T, U),
         \A i \in DOMAIN p : p[i].q.fan # HeadNode
  PROVE  U \subseteq T /\ \A x \in U : x.n = n => x.h = 0 /\ x.q \in Items(r)
  BY DEF HandledThings

(* The invariant over steps that leave the join's buffers alone.            *)
LEMMA WaveInvKept ==
  ASSUME WaveInv, Places', WavesSame, NEW U, U = Things(inbox', out'),
         Ordered(U), Retains(Things(inbox, out), U)
  PROVE  WaveInv'
  <1>1. PassingOf(Things(inbox, out), epochs[TheJoin], next[TheJoin], Waves)
    BY DEF WaveInv, Passing, Waves
  <1>2. PassingOf(U, epochs[TheJoin], next[TheJoin], Waves)
    BY <1>1, PassingKept
  <1>3. epochs' = epochs /\ next' = next /\ fanSeq' = fanSeq
    BY DEF WavesSame
  <1>4. Passing'
    BY <1>2, <1>3 DEF Passing, Waves
  <1>5. QED
    BY <1>4 DEF WaveInv

LEMMA ProcStep ==
  ASSUME Flat, Typed, WaveInv, NEW n \in Procs, Handles(n)
  PROVE  WaveInv' /\ Descends(Things(inbox, out), Things(inbox', out'))
  <1>1. PICK q : q = Taken(n)
    OBVIOUS
  <1>2. PICK p \in Seq(PushSet) : Takes(n, p) /\ Follows(n, q, p) /\ WavesSame
    BY <1>1, ProcHandles
  <1>3. /\ n \in Nodes /\ n # HeadNode /\ n # TheJoin /\ q = Front(inbox[n]) /\ q \in Wares
        /\ inbox[n] \in InboxSet(Wares) /\ NodeFine(n, inbox[n], out[n], Waves)
    <2>1. n \in Nodes /\ n # HeadNode /\ n # TheJoin
      BY FlatNodes
    <2>2. QED
      BY <1>1, <2>1, TakenTyping DEF WaveInv, Places, Waves
  <1>4. q \in Items(inbox[n]) /\ MayWait(n, q, Waves)
    BY <1>1, <1>3, TakenMayWait DEF WaveInv
  <1>5. PICK w : w = Waves
    OBVIOUS
  <1>6. /\ \A i \in DOMAIN p : MayLeave(n, p[i], w)
        /\ Sorted(n, Sent(p))
        /\ \A i \in DOMAIN p : p[i].q.fan = HeadNode =>
             /\ q.fan = HeadNode /\ p[i].q.epoch = q.epoch
             /\ p[i].q.ctrl = "barrier" => q.ctrl = "barrier"
    BY <1>2, <1>4, <1>5, ProcLeaves
  <1>7. PICK T, U : T = Things(inbox, out) /\ U = Things(inbox', out')
    OBVIOUS
  <1>8. PICK r : Places' /\ Gone(inbox[n], r) /\ HandledThings(n, p, r, T, U)
    <2>1. Waves' = w /\ w \in {Waves, Waves + 1}
      BY <1>2, <1>5 DEF WavesSame, Waves
    <2>2. /\ Places'
          /\ \E r : /\ Gone(inbox[n], r)
                    /\ HandledThings(n, p, r, Things(inbox, out), Things(inbox', out'))
      BY <1>2, <1>3, <1>6, <2>1, NodeHandled DEF WaveInv
    <2>3. QED
      BY <1>7, <2>2, Zenon
  <1>9. Ordered(T)
    BY <1>7 DEF WaveInv
  <1>10. Descends(T, U)
    <2> SUFFICES ASSUME NEW x \in U, x.q.ctrl = "none", x \notin T
                 PROVE  \E t \in T : /\ t.q.ctrl = "none" /\ t.q.epoch = x.q.epoch
                                     /\ t.q.id = x.q.id
                                     /\ IsSyncFrame(x.q.kind) => FrameOf(x.q) = FrameOf(t.q)
      BY DEF Descends
    <2>1. PICK i \in DOMAIN p : x.q = p[i].q /\ x.q.fan = HeadNode
      BY <1>8 DEF HandledThings
    <2>2. FollowOn(n, q, p[i]) /\ Made(n, q, p[i])
      BY <1>2, <2>1, TagsDiffer DEF Follows, GoesUp
    <2>3. PICK t : t = [n |-> n, h |-> 0, q |-> q]
      OBVIOUS
    <2>4. t \in T /\ t.q = q
      BY <1>3, <1>4, <1>7, <2>1, <2>2, <2>3 DEF Things, At, FollowOn
    <2>5. /\ q.ctrl = "none" /\ q.epoch = x.q.epoch
          /\ FrameOf(x.q) = FrameOf(q) \/ FrameOf(x.q) = SideFrame(n, q)
      BY <2>1, <2>2 DEF FollowOn, Made
    <2>6. FrameOf(x.q) = FrameOf(q) => x.q.id = q.id
      BY DEF FrameOf, Frame
    <2>7. FrameOf(x.q) = SideFrame(n, q) => x.q.id = q.id /\ x.q.kind = "Text"
      BY DEF FrameOf, SideFrame, Frame
    <2>8. ~IsSyncFrame("Text")
      BY DEF IsSyncFrame
    <2>9. QED
      BY <2>4, <2>5, <2>6, <2>7, <2>8
  <1>11. CASE q.fan # HeadNode
    <2>1. U \subseteq T
      BY <1>6, <1>8, <1>11, NothingNew
    <2>2. Ordered(U) /\ Retains(T, U)
      BY <1>9, <2>1, FewerOrdered, FewerRetained
    <2>3. QED
      BY <1>2, <1>7, <1>8, <2>2, WaveInvKept, <1>10
  <1>12. CASE q.fan = HeadNode
    <2>1. PICK t, k : t = [n |-> n, h |-> 0, q |-> q] /\ k = 2 * Stage(n) + 1
      OBVIOUS
    <2>2. t \in T /\ t.n = n /\ t.q = q
      BY <1>3, <1>4, <1>7, <1>12, <2>1 DEF Things, At
    <2>3. Stage(n) \in Nat /\ Passes(n, InBranch(t)) /\ Depth(t) = 2 * Stage(n)
      <3>1. Stage(n) \in Nat
        BY <1>3, Stages
      <3>2. Passes(n, InBranch(t))
        BY <1>3, <1>7, <2>2, ThingsAre DEF WaveInv
      <3>3. QED
        BY <2>1, <3>1, <3>2 DEF Depth
    <2>4. \A x \in U :
            \/ x \in T /\ (x.n = n => x.h = 0 /\ x.q \in Items(r))
            \/ x.n = n /\ x.h = 1 /\ x.q.fan = HeadNode /\ \E i \in DOMAIN p : x.q = p[i].q
      BY <1>8 DEF HandledThings
    <2>5. \A x \in U : x \in T \/ Follower(x, t, k)
      <3>1. \A x : x.n = n => InBranch(x) = InBranch(t)
        BY <2>2 DEF InBranch, BranchAt
      <3>2. \A x : x.n = n /\ x.h = 1 => Depth(x) = k
        BY <2>1 DEF Depth
      <3>3. QED
        BY <1>6, <2>2, <2>4, <3>1, <3>2 DEF Follower
    <2>6. \A x \in T \cup U : /\ Depth(x) = 2 * Stage(x.n) + x.h /\ Depth(x) \in Int
                              /\ x.h \in {0, 1} /\ x.n \in Nodes /\ Stage(x.n) \in Nat
                              /\ x.q.fan = HeadNode
      BY <1>7, Depths
    <2>7. ASSUME NEW y \in U, y \in T, InBranch(y) = InBranch(t)
          PROVE  /\ Depth(y) <= Depth(t) \/ Depth(y) >= k
                 /\ Depth(y) = Depth(t) => Ok(t.q, y.q)
      <3>1. Depth(y) <= Depth(t) \/ Depth(y) >= k
        BY <2>1, <2>3, <2>6
      <3>2. ASSUME Depth(y) = Depth(t)
            PROVE  Ok(t.q, y.q)
        <4>1. Stage(y.n) = Stage(n) /\ y.h = 0
          BY <2>3, <2>6, <3>2
        <4>2. y.n = n
          <5>1. BranchAt(y.n, y.q) = InBranch(t)
            BY <2>7 DEF InBranch
          <5>2. QED
            BY <1>3, <2>3, <2>6, <4>1, <5>1, NoneBetween
        <4>3. y.q \in Items(r)
          BY <2>4, <4>1, <4>2
        <4>4. ASSUME q.ctrl = "barrier"
              PROVE  Ok(q, y.q)
          <5>1. PICK in : in = inbox[n]
            OBVIOUS
          <5>2. PICK j \in DOMAIN in.down : j > 1 /\ y.q = in.down[j]
            BY <1>3, <1>8, <4>3, <4>4, <5>1 DEF Gone
          <5>3. 1 \in DOMAIN in.down /\ q = in.down[1] /\ Sorted(n, in.down)
            BY <1>3, <1>8, <4>4, <5>1 DEF NodeFine, Gone
          <5>4. BranchAt(n, q) = BranchAt(n, y.q) /\ y.q.fan = HeadNode
            BY <1>3, <2>6 DEF BranchAt
          <5>5. 1 < j
            <6>1. in.down \in Seq(Wares)
              BY <1>3, <5>1 DEF InboxSet
            <6>2. j \in Int
              BY <6>1, LenProperties
            <6>3. QED
              BY <5>2, <6>2
          <5>6. QED
            BY <1>12, <5>2, <5>3, <5>4, <5>5 DEF Sorted
        <4>5. QED
          BY <2>2, <4>4 DEF Ok
      <3>3. QED
        BY <3>1, <3>2
    <2>8. Ordered(U)
      <3>1. Depth(t) < k /\ k \in Int
        BY <2>1, <2>3
      <3>2. \A x \in T \cup U : Depth(x) \in Int
        BY <2>6
      <3>3. QED
        BY <1>9, <2>2, <2>5, <2>7, <3>1, <3>2, Advance
    <2>9. Retains(T, U)
      BY <2>2, <2>5 DEF Retains, Follower
    <2>10. QED
      BY <1>2, <1>7, <1>8, <2>8, <2>9, WaveInvKept, <1>10
  <1>13. QED
    BY <1>7, <1>10, <1>11, <1>12

(* A wave is the frame down every branch, and a barrier behind it.          *)
LEMMA WaveLeaves ==
  ASSUME Flat, NEW w \in Nat \ {0}, NEW f, NEW p \in Seq(PushSet),
         \A i \in DOMAIN p : WavePush(p, i, f, w)
  PROVE  /\ \A i \in DOMAIN p : MayLeave(HeadNode, p[i], w) /\ p[i].q.epoch = w
         /\ Sorted(HeadNode, Sent(p))
  <1>1. /\ HeadNode # TheJoin /\ HeadNode \notin Procs /\ Branches \in Nat
        /\ \A b \in 1..Branches : Target(HeadNode, b) = Down[HeadNode][b]
        /\ \A x : BranchAt(HeadNode, x) = x.branch
    BY FlatNodes DEF Target, BranchAt
  <1>2. ASSUME NEW i \in DOMAIN p
        PROVE  \E b \in 1..Branches :
                 /\ p[i].to = Down[HeadNode][b] /\ Tagged(p[i].q, w)
                 /\ p[i].q.branch = b /\ p[i].q.epoch = w
                 /\ \/ p[i].q.ctrl = "none"
                    \/ p[i].q.ctrl = "barrier" /\ i = Branches + b
    <2>1. i \in Int
      BY LenProperties
    <2>2. CASE i \in 1..Branches /\ p[i] = Push(Down[HeadNode][i], DownItem(f, w, HeadNode, i))
      BY <2>2 DEF Push, DownItem, Item, Tagged
    <2>3. CASE /\ i - Branches \in 1..Branches
               /\ p[i] = Push(Down[HeadNode][i - Branches], Barrier(w, HeadNode, i - Branches))
      <3>1. PICK b \in 1..Branches : b = i - Branches
        BY <2>3
      <3>2. p[i] = Push(Down[HeadNode][b], Barrier(w, HeadNode, b)) /\ i = Branches + b
        BY <1>1, <2>1, <2>3, <3>1
      <3>3. QED
        BY <3>2 DEF Push, Barrier, Item, Tagged
    <2>4. QED
      BY <2>2, <2>3 DEF WavePush
  <1>3. \A i \in DOMAIN p : MayLeave(HeadNode, p[i], w) /\ p[i].q.epoch = w
    BY <1>1, <1>2 DEF MayLeave
  <1>4. Sorted(HeadNode, Sent(p))
    <2>1. DOMAIN Sent(p) = DOMAIN p /\ \A i \in DOMAIN p : Sent(p)[i] = p[i].q
      BY DEF Sent
    <2>2. \A i \in DOMAIN p : i \in Int
      BY LenProperties
    <2> SUFFICES ASSUME NEW a \in DOMAIN p, NEW b \in DOMAIN p, a < b,
                        p[a].q.branch = p[b].q.branch
                 PROVE  p[a].q.ctrl # "barrier"
      BY <1>1, <2>1 DEF Sorted, Ok
    <2>3. PICK c \in 1..Branches :
            /\ p[a].q.branch = c
            /\ \/ p[a].q.ctrl = "none"
               \/ p[a].q.ctrl = "barrier" /\ a = Branches + c
      BY <1>2
    <2>4. b <= Branches + c
      <3>1. CASE WavePush(p, b, f, w) /\ b \in 1..Branches
        BY <1>1, <3>1
      <3>2. CASE /\ b - Branches \in 1..Branches
                 /\ p[b] = Push(Down[HeadNode][b - Branches], Barrier(w, HeadNode, b - Branches))
        <4>1. p[b].q.branch = b - Branches
          BY <3>2 DEF Push, Barrier, Item
        <4>2. b - Branches = c
          BY <2>3, <4>1, Zenon
        <4>3. b \in Int /\ Branches \in Int
          BY <1>1, <2>2
        <4>4. QED
          BY <4>2, <4>3
      <3>3. QED
        BY <3>1, <3>2 DEF WavePush
    <2>5. a # Branches + c
      BY <1>1, <2>2, <2>4
    <2>6. QED
      BY <2>3, <2>5
  <1>5. QED
    BY <1>3, <1>4

LEMMA FanStep ==
  ASSUME Flat, Typed, WaveInv, Handles(HeadNode)
  PROVE  /\ WaveInv'
         /\ \E p \in Seq(PushSet) :
              /\ Takes(HeadNode, p)
              /\ \/ WavesSame /\ Descends(Things(inbox, out), Things(inbox', out'))
                 \/ /\ BeginsWave(p, FrameOf(Taken(HeadNode))) /\ Taken(HeadNode).dir = "down"
                    /\ Begun(FrameOf(Taken(HeadNode)), Waves + 1,
                             Things(inbox, out), Things(inbox', out'))
  <1>1. PICK n : n = HeadNode
    OBVIOUS
  <1>2. n \in Nodes /\ n # TheJoin
    BY <1>1, FlatNodes
  <1>3. Untagged(Taken(n))
    <2>1. MayWait(n, Taken(n), Waves)
      BY <1>1, <1>2, TakenMayWait DEF WaveInv
    <2>2. QED
      BY <1>1, <2>1 DEF MayWait
  <1>4. PICK f : f = FrameOf(Taken(n))
    OBVIOUS
  <1>5. PICK p \in Seq(PushSet) :
          /\ Takes(n, p)
          /\ \/ (\A i \in DOMAIN p : GoesUp(p[i])) /\ WavesSame
             \/ BeginsWave(p, f) /\ Taken(n).dir = "down"
    BY <1>1, <1>3, <1>4, FanHandles
  <1>6. PICK T, U : T = Things(inbox, out) /\ U = Things(inbox', out')
    OBVIOUS
  <1>7. Ordered(T) /\ PassingOf(T, epochs[TheJoin], next[TheJoin], Waves)
    BY <1>6 DEF WaveInv, Passing, Waves
  <1>8. CASE (\A i \in DOMAIN p : GoesUp(p[i])) /\ WavesSame
    <2>1. PICK w : w = Waves
      OBVIOUS
    <2>2. Waves' = w /\ w \in {Waves, Waves + 1}
      BY <1>8, <2>1 DEF WavesSame, Waves
    <2>3. /\ \A i \in DOMAIN p : MayLeave(n, p[i], w) /\ p[i].q.fan # HeadNode
          /\ Sorted(n, Sent(p))
      BY <1>8, TagsDiffer DEF GoesUp, MayLeave, Sorted, Sent
    <2>4. PICK r : Places' /\ HandledThings(n, p, r, Things(inbox, out), Things(inbox', out'))
      BY <1>1, <1>2, <1>5, <2>2, <2>3, NodeHandled DEF WaveInv
    <2>5. U \subseteq T
      BY <1>6, <2>3, <2>4, NothingNew
    <2>6. Ordered(U) /\ Retains(T, U)
      BY <1>7, <2>5, FewerOrdered, FewerRetained
    <2>7. WaveInv' /\ Descends(T, U)
      BY <1>6, <1>8, <2>4, <2>5, <2>6, WaveInvKept, FewerDescend
    <2>8. QED
      BY <1>1, <1>5, <1>6, <1>8, <2>7
  <1>9. CASE BeginsWave(p, f) /\ Taken(n).dir = "down"
    <2>1. Waves \in Nat /\ Waves' = Waves + 1 /\ next' = next /\ epochs' = epochs
      BY <1>9, FlatNodes DEF Typed, BeginsWave, Waves
    <2>2. PICK w \in Nat \ {0} : w = Waves + 1
      BY <2>1
    <2>3. /\ \A i \in DOMAIN p : MayLeave(n, p[i], w) /\ p[i].q.epoch = w
          /\ Sorted(n, Sent(p))
      <3>1. \A i \in DOMAIN p : WavePush(p, i, f, w)
        BY <1>9, <2>2 DEF BeginsWave, Waves
      <3>2. QED
        BY <1>1, <3>1, WaveLeaves
    <2>4. PICK r : Places' /\ HandledThings(n, p, r, Things(inbox, out), Things(inbox', out'))
      <3>1. Waves' = w /\ w \in {Waves, Waves + 1}
        BY <2>1, <2>2
      <3>2. QED
        BY <1>1, <1>2, <1>5, <2>3, <3>1, NodeHandled DEF WaveInv
    <2>5. \A x \in U : x \in T \/ (x.n = HeadNode /\ x.h = 1 /\ x.q.epoch = w)
      BY <1>1, <1>6, <2>3, <2>4 DEF HandledThings
    <2>6. \A x \in T : x.q.epoch \in 1..Waves /\ Depth(x) >= 1
      <3> SUFFICES ASSUME NEW x \in T
                   PROVE  x.q.epoch \in 1..Waves /\ Depth(x) >= 1
        OBVIOUS
      <3>1. /\ Tagged(x.q, Waves) /\ x.n \in Nodes /\ x.h \in {0, 1}
            /\ x.n = HeadNode => x.h = 1
            /\ Depth(x) = 2 * Stage(x.n) + x.h /\ Stage(x.n) \in Nat
        BY <1>6, ThingsAre, Depths DEF WaveInv
      <3>2. x.n # HeadNode => Stage(x.n) >= 1
        BY <3>1, Stages, FlatNodes
      <3>3. QED
        BY <3>1, <3>2 DEF Tagged
    <2>7. Ordered(U)
      <3> SUFFICES ASSUME NEW x \in U, NEW y \in U, InBranch(x) = InBranch(y),
                          Depth(x) > Depth(y)
                   PROVE  Ok(x.q, y.q)
        BY DEF Ordered
      <3>1. \A z \in U : z \in T \/ (Depth(z) = 1 /\ z.q.epoch = w)
        <4>1. \A z : z.n = HeadNode /\ z.h = 1 => Depth(z) = 1
          BY Stages DEF Depth
        <4>2. QED
          BY <2>5, <4>1
      <3>2. CASE x \in T /\ y \in T
        BY <1>7, <3>2 DEF Ordered
      <3>3. CASE x \in T /\ y \notin T
        BY <2>1, <2>2, <2>6, <3>1, <3>3 DEF Ok
      <3>4. CASE x \notin T
        <4>1. Depth(y) >= 1 /\ Depth(x) = 1
          BY <2>6, <3>1, <3>4
        <4>2. Depth(y) \in Int
          BY <1>6, Depths
        <4>3. QED
          BY <4>1, <4>2
      <3>5. QED
        BY <3>2, <3>3, <3>4
    <2>8. PassingOf(U, epochs[TheJoin], next[TheJoin], w)
      <3>1. PICK bufs, first : bufs = epochs[TheJoin] /\ first = next[TheJoin]
        OBVIOUS
      <3>2. /\ first \in 1..Waves + 1 /\ DOMAIN bufs \subseteq first..Waves
            /\ \A e \in DOMAIN bufs : \A b \in bufs[e].seen :
                 \A x \in T : InBranch(x) = b => x.q.epoch > e
            /\ \A x \in T : x.q.epoch >= first
        BY <1>7, <3>1 DEF PassingOf
      <3>3. first \in 1..w + 1 /\ DOMAIN bufs \subseteq first..w /\ w >= first
        BY <2>1, <2>2, <3>2
      <3>4. \A e \in DOMAIN bufs : w > e
        BY <2>1, <2>2, <3>2
      <3>5. PassingOf(U, bufs, first, w)
        BY <2>5, <3>2, <3>3, <3>4 DEF PassingOf
      <3>6. QED
        BY <3>1, <3>5
    <2>9. Passing'
      BY <1>6, <2>1, <2>2, <2>8 DEF Passing, Waves
    <2>10. WaveInv'
      BY <1>6, <2>4, <2>7, <2>9 DEF WaveInv
    <2>11. Begun(f, w, T, U)
      <3>1. \A i \in DOMAIN p : p[i].q.ctrl = "none" => FrameOf(p[i].q) = f
        <4>1. \A i \in DOMAIN p : WavePush(p, i, f, w)
          BY <1>9, <2>2 DEF BeginsWave, Waves
        <4>2. f = Frame(f.kind, f.id, f.by)
          BY <1>4 DEF FrameOf, Frame
        <4>3. \A i : FrameOf(DownItem(f, w, HeadNode, i)) = f
          BY <4>2 DEF DownItem, Item, FrameOf, Frame
        <4>4. ASSUME NEW i \in DOMAIN p, p[i].q.ctrl = "none"
              PROVE  FrameOf(p[i].q) = f
          <5>1. p[i] = Push(Down[HeadNode][i], DownItem(f, w, HeadNode, i))
            BY <4>1, <4>4 DEF WavePush, Push, Barrier, Item
          <5>2. QED
            BY <4>3, <5>1 DEF Push
        <4>5. QED
          BY <4>4
      <3>2. QED
        BY <1>1, <1>6, <2>3, <2>4, <3>1 DEF HandledThings, Begun
    <2>12. QED
      BY <1>1, <1>4, <1>5, <1>6, <1>9, <2>2, <2>10, <2>11
  <1>10. QED
    BY <1>5, <1>8, <1>9

(* What the join's buffers say a branch has done.                           *)
LEMMA BufferSeen ==
  ASSUME Flat, Typed, CanTake(TheJoin), Taken(TheJoin) \in Wares,
         Taken(TheJoin).dir = "down", Taken(TheJoin).epoch # 0
  PROVE  /\ \A e \in DOMAIN Bufs(TheJoin) : \A b \in Bufs(TheJoin)[e].seen :
              \/ e \in DOMAIN epochs[TheJoin] /\ b \in epochs[TheJoin][e].seen
              \/ /\ e = Taken(TheJoin).epoch /\ b = Taken(TheJoin).branch
                 /\ Taken(TheJoin).ctrl = "barrier"
         /\ \A e \in Ready(TheJoin) : 1..Branches \subseteq Bufs(TheJoin)[e].seen
  <1>1. PICK n, q : n = TheJoin /\ q = Taken(TheJoin)
    OBVIOUS
  <1>2. n \in Joins /\ Width[n] = Branches /\ Branches \in Nat
    BY <1>1, FlatNodes DEF Branches
  <1>3. \A b \in Buffered(n, q).seen :
          b \in Buf(n, q.epoch).seen \/ (b = q.branch /\ q.ctrl = "barrier")
    <2>1. PICK c \in BufferSet(n) : c = Buf(n, q.epoch)
      BY <1>1, <1>2, BufferedTyped
    <2>2. CASE q.branch \notin 1..Width[n]
      BY <2>2 DEF Buffered
    <2>3. CASE q.branch \in 1..Width[n] /\ q.ctrl = "barrier"
      <3>1. Buffered(n, q) = [c EXCEPT !.seen = @ \cup {q.branch}]
        BY <2>1, <2>3 DEF Buffered
      <3>2. Buffered(n, q).seen = c.seen \cup {q.branch}
        BY <3>1 DEF BufferSet
      <3>3. QED
        BY <2>1, <2>3, <3>2
    <2>4. CASE q.branch \in 1..Width[n] /\ q.ctrl # "barrier"
      <3>1. PICK s : s = Append(c.per[q.branch], FrameOf(q))
        OBVIOUS
      <3>2. Buffered(n, q) = [c EXCEPT !.per[q.branch] = s]
        BY <2>1, <2>4, <3>1 DEF Buffered
      <3>3. Buffered(n, q) = [c EXCEPT !.per = [c.per EXCEPT ![q.branch] = s]]
        BY <3>2 DEF BufferSet
      <3>4. PICK per : per = [c.per EXCEPT ![q.branch] = s]
        OBVIOUS
      <3>5. Buffered(n, q).seen = c.seen
        BY <3>3, <3>4 DEF BufferSet
      <3>6. QED
        BY <2>1, <3>5
    <2>5. QED
      BY <2>2, <2>3, <2>4
  <1>4. \A b \in Buf(n, q.epoch).seen :
          q.epoch \in DOMAIN epochs[n] /\ b \in epochs[n][q.epoch].seen
    BY DEF Buf, NoBuf
  <1>5. ASSUME NEW e \in DOMAIN Bufs(n), NEW b \in Bufs(n)[e].seen
        PROVE  \/ e \in DOMAIN epochs[n] /\ b \in epochs[n][e].seen
               \/ e = q.epoch /\ b = q.branch /\ q.ctrl = "barrier"
    <2>1. CASE e = q.epoch
      <3>1. Bufs(n)[e] = Buffered(n, q)
        BY <1>1, <2>1 DEF Bufs
      <3>2. QED
        BY <1>3, <1>4, <1>5, <2>1, <3>1
    <2>2. CASE e # q.epoch
      <3>1. e \in DOMAIN epochs[n] /\ Bufs(n)[e] = epochs[n][e]
        BY <1>1, <2>2 DEF Bufs
      <3>2. QED
        BY <1>5, <3>1
    <2>3. QED
      BY <2>1, <2>2
  <1>6. ASSUME NEW e \in Ready(n)
        PROVE  1..Branches \subseteq Bufs(n)[e].seen
    <2>1. e \in DOMAIN Bufs(n) /\ Complete(n, Bufs(n)[e]) /\ Bufs(n)[e] \in BufferSet(n)
      BY <1>1, <1>2, BufsTyped
    <2>2. PICK S \in SUBSET (1..Branches) : S = Bufs(n)[e].seen
      BY <1>2, <2>1 DEF BufferSet
    <2>3. IsFiniteSet(1..Branches) /\ Cardinality(1..Branches) = Branches
      BY <1>2, FS_Interval
    <2>4. Cardinality(S) <= Branches /\ Cardinality(S) >= Branches /\ IsFiniteSet(S)
      BY <1>2, <2>1, <2>2, <2>3, FS_Subset DEF Complete
    <2>5. Cardinality(S) \in Nat
      BY <2>4, FS_CardinalityType
    <2>6. Cardinality(1..Branches) = Cardinality(S)
      BY <1>2, <2>3, <2>4, <2>5
    <2>7. 1..Branches = S
      BY <2>3, <2>6, FS_Subset
    <2>8. QED
      BY <2>2, <2>7
  <1>7. QED
    BY <1>1, <1>5, <1>6

(* The waves the join has yet to pass on when it passes on those that are   *)
(* ready.                                                                   *)
PassedOn(bufs, done, first, c, later) ==
  /\ done \subseteq DOMAIN bufs /\ done = first..first + c - 1
  /\ later = [e \in DOMAIN bufs \ done |-> bufs[e]]

LEMMA PassingOn ==
  ASSUME NEW T, NEW bufs, NEW done, NEW first \in Nat, NEW c \in Nat, NEW later, NEW w \in Nat,
         PassedOn(bufs, done, first, c, later), PassingOf(T, bufs, first, w),
         \A x \in T : x.q.epoch \in Nat,
         \A x \in T : \A e \in done : InBranch(x) \in bufs[e].seen
  PROVE  PassingOf(T, later, first + c, w)
  <1>1. /\ first \in 1..w + 1 /\ DOMAIN bufs \subseteq first..w
        /\ \A e \in DOMAIN bufs : \A b \in bufs[e].seen :
             \A x \in T : InBranch(x) = b => x.q.epoch > e
        /\ \A x \in T : x.q.epoch >= first
    BY DEF PassingOf
  <1>2. /\ done \subseteq DOMAIN bufs /\ \A e : e \in done <=> e \in first..first + c - 1
        /\ DOMAIN later = DOMAIN bufs \ done /\ \A e \in DOMAIN later : later[e] = bufs[e]
    BY DEF PassedOn
  <1>3. CASE c = 0
    <2>1. first + c = first
      BY <1>3
    <2>2. PassingOf(T, later, first, w)
      BY <1>1, <1>2 DEF PassingOf
    <2>3. QED
      BY <2>1, <2>2
  <1>4. CASE c # 0
    <2>1. PICK e : e = first + c - 1
      OBVIOUS
    <2>2. e \in done /\ e \in DOMAIN bufs /\ e \in first..w /\ e \in Nat /\ first + c = e + 1
      <3>1. e \in first..first + c - 1 /\ e \in Nat /\ first + c = e + 1
        BY <1>4, <2>1
      <3>2. QED
        BY <1>1, <1>2, <3>1
    <2>3. \A x \in T : x.q.epoch >= first + c
      BY <1>1, <2>2
    <2>4. first + c \in 1..w + 1
      BY <2>2
    <2>5. DOMAIN later \subseteq first + c..w
      <3> SUFFICES ASSUME NEW d \in DOMAIN later
                   PROVE  d \in first + c..w
        OBVIOUS
      <3>1. d \in first..w /\ d \notin done
        BY <1>1, <1>2
      <3>2. d \notin first..e
        BY <1>2, <2>1, <3>1
      <3>3. QED
        BY <2>2, <3>1, <3>2
    <2>6. \A d \in DOMAIN later : \A b \in later[d].seen :
            \A x \in T : InBranch(x) = b => x.q.epoch > d
      BY <1>1, <1>2
    <2>7. QED
      BY <2>3, <2>4, <2>5, <2>6 DEF PassingOf
  <1>5. QED
    BY <1>3, <1>4

(* The join takes a wave item: nothing of its branch that is left may go    *)
(* with a wave whose barrier it was.                                        *)
LEMMA LeftBehind ==
  ASSUME Flat, Typed, WaveInv, Handles(TheJoin), NEW q, q = Taken(TheJoin),
         q.fan = HeadNode, q.ctrl = "barrier",
         NEW r, Gone(inbox[TheJoin], r), NEW x \in Things(inbox, out),
         x.n = TheJoin => x.h = 0 /\ x.q \in Items(r), InBranch(x) = q.branch
  PROVE  x.q.epoch > q.epoch
  <1>1. PICK n, T : n = TheJoin /\ T = Things(inbox, out)
    OBVIOUS
  <1>2. n \in Nodes /\ n # HeadNode /\ n \notin Procs /\ \A y : BranchAt(n, y) = y.branch
    BY <1>1, FlatNodes DEF BranchAt
  <1>3. q \in Items(inbox[n]) /\ q \in Wares /\ inbox[n] \in InboxSet(Wares)
        /\ q = Front(inbox[n]) /\ NodeFine(n, inbox[n], out[n], Waves) /\ Waves \in Nat
    BY <1>1, <1>2, TakenMayWait, TakenTyping, FlatNodes DEF WaveInv, Places, Waves, Typed
  <1>4. PICK t : t = [n |-> n, h |-> 0, q |-> q]
    OBVIOUS
  <1>5. t \in T /\ t.q = q /\ t.n = n /\ t.h = 0 /\ InBranch(t) = q.branch
    BY <1>1, <1>2, <1>3, <1>4 DEF Things, At, InBranch
  <1>6. Ok(q, x.q)
    <2>1. CASE x.n = n
      <3>1. PICK in : in = inbox[n]
        OBVIOUS
      <3>2. PICK j \in DOMAIN in.down : j > 1 /\ x.q = in.down[j]
        BY <1>1, <1>3, <2>1, <3>1 DEF Gone
      <3>3. 1 \in DOMAIN in.down /\ q = in.down[1] /\ Sorted(n, in.down)
        BY <1>1, <1>3, <3>1 DEF NodeFine, Gone
      <3>4. BranchAt(n, q) = BranchAt(n, x.q) /\ x.q.fan = HeadNode
        BY <1>2, <2>1 DEF InBranch, Things
      <3>5. 1 < j
        <4>1. in.down \in Seq(Wares)
          BY <1>3, <3>1 DEF InboxSet
        <4>2. j \in Int
          BY <4>1, LenProperties
        <4>3. QED
          BY <3>2, <4>2
      <3>6. QED
        BY <3>2, <3>3, <3>4, <3>5 DEF Sorted
    <2>2. CASE x.n # n
      <3>1. /\ Depth(x) = 2 * Stage(x.n) + x.h /\ x.h \in {0, 1} /\ Stage(x.n) \in Nat
            /\ x.n \in Nodes
        BY Depths
      <3>2. InChain(x.n)
        BY <1>1, <2>2, <3>1, FlatNodes DEF InChain
      <3>3. Stage(x.n) < LastStage /\ LastStage \in Nat /\ Depth(t) = 2 * LastStage
        <4>1. Stage(n) = LastStage /\ Stage(x.n) < LastStage /\ LastStage \in Nat
          BY <1>1, <3>1, <3>2, Stages, FlatNodes
        <4>2. QED
          BY <1>5, <4>1 DEF Depth
      <3>4. Depth(t) > Depth(x)
        BY <3>1, <3>3
      <3>5. QED
        BY <1>1, <1>5, <3>4 DEF Ordered, WaveInv
    <2>3. QED
      BY <2>1, <2>2
  <1>7. Tagged(x.q, Waves)
    BY ThingsAre DEF WaveInv
  <1>8. QED
    BY <1>3, <1>6, <1>7 DEF Ok, Tagged, Wares, ItemSet

LEMMA JoinStep ==
  ASSUME Flat, Typed, WaveInv, Handles(TheJoin)
  PROVE  /\ WaveInv' /\ Descends(Things(inbox, out), Things(inbox', out'))
         /\ \E p \in Seq(PushSet) :
              /\ Takes(TheJoin, p)
              /\ \/ (\A i \in DOMAIN p : GoesUp(p[i])) /\ WavesSame
                 \/ JoinTakes(p) /\ Tagged(Taken(TheJoin), Waves)
  <1>1. PICK n, q : n = TheJoin /\ q = Taken(n)
    OBVIOUS
  <1>2. /\ n \in Nodes /\ n \in Joins /\ n # HeadNode /\ n \notin Procs
        /\ \A y : BranchAt(n, y) = y.branch
    BY <1>1, FlatNodes DEF BranchAt
  <1>3. /\ MayWait(n, q, Waves) /\ q \in Wares /\ Waves \in Nat /\ CanTake(n)
        /\ q \in Items(inbox[n])
    BY <1>1, <1>2, TakenMayWait, TakenTyping, FlatNodes
       DEF WaveInv, Waves, Typed, Handles
  <1>4. PICK T, U : T = Things(inbox, out) /\ U = Things(inbox', out')
    OBVIOUS
  <1>5. Ordered(T) /\ PassingOf(T, epochs[TheJoin], next[TheJoin], Waves)
    BY <1>4 DEF WaveInv, Passing, Waves
  <1>6. PICK w : w = Waves
    OBVIOUS
  <1>7. CASE Untagged(q)
    <2>1. PICK p \in Seq(PushSet) :
            Takes(n, p) /\ (\A i \in DOMAIN p : GoesUp(p[i])) /\ WavesSame
      <3>1. q.dir = "up"
        BY <1>2, <1>3, <1>7, TagsDiffer DEF MayWait
      <3>2. QED
        BY <1>1, <1>7, <3>1, JoinForwardsIs
    <2>2. Waves' = w /\ w \in {Waves, Waves + 1}
      BY <1>6, <2>1 DEF WavesSame, Waves
    <2>3. /\ \A i \in DOMAIN p : MayLeave(n, p[i], w) /\ p[i].q.fan # HeadNode
          /\ Sorted(n, Sent(p))
      BY <2>1, TagsDiffer DEF GoesUp, MayLeave, Sorted, Sent
    <2>4. PICK r : Places' /\ HandledThings(n, p, r, Things(inbox, out), Things(inbox', out'))
      BY <1>1, <1>2, <2>1, <2>2, <2>3, NodeHandled DEF WaveInv
    <2>5. U \subseteq T
      BY <1>4, <2>3, <2>4, NothingNew
    <2>6. Ordered(U) /\ Retains(T, U)
      BY <1>5, <2>5, FewerOrdered, FewerRetained
    <2>7. WaveInv' /\ Descends(T, U)
      BY <1>4, <2>1, <2>4, <2>5, <2>6, WaveInvKept, FewerDescend
    <2>8. QED
      BY <1>1, <1>4, <2>1, <2>7
  <1>8. CASE ~Untagged(q)
    <2>1. Tagged(q, Waves) /\ q.branch \in 1..Branches
      BY <1>1, <1>2, <1>3, <1>8 DEF MayWait
    <2>2. PICK p \in Seq(PushSet) : Takes(n, p) /\ JoinTakes(p)
      BY <1>1, <2>1, JoinWaveTakes DEF Waves
    <2>3. Waves' = w /\ w \in {Waves, Waves + 1}
      BY <1>6, <2>2 DEF JoinTakes, Waves
    <2>4. q.dir = "down" /\ q.epoch # 0 /\ q.fan = HeadNode /\ q.epoch \in 1..w
      BY <1>3, <1>6, <2>1 DEF Tagged
    <2>5. \A i \in DOMAIN p : p[i].to = "sink" /\ Untagged(p[i].q)
      <3>1. Seqs!FlattenSeq(Merges(n)) \in Seq(FrameSet)
        BY <1>1, <1>2, <1>3, <2>4, MergesTyped
      <3>2. SentOut(p, Seqs!FlattenSeq(Merges(n)))
        BY <1>1, <2>2, <3>1, SendsIs DEF JoinTakes
      <3>3. QED
        BY <3>2 DEF SentOut
    <2>6. /\ \A i \in DOMAIN p : MayLeave(n, p[i], w) /\ p[i].q.fan # HeadNode
          /\ Sorted(n, Sent(p))
      BY <1>1, <2>5, TagsDiffer DEF MayLeave, Sorted, Sent
    <2>7. PICK r : /\ Places' /\ Gone(inbox[n], r)
                   /\ HandledThings(n, p, r, Things(inbox, out), Things(inbox', out'))
      BY <1>1, <1>2, <2>2, <2>3, <2>6, NodeHandled DEF WaveInv
    <2>8. U \subseteq T /\ \A x \in U : x.n = n => x.h = 0 /\ x.q \in Items(r)
      BY <1>4, <2>6, <2>7, NothingNew
    <2>9. Ordered(U)
      BY <1>5, <2>8, FewerOrdered
    <2>10. PICK bufs, done, first, c :
             /\ bufs = Bufs(n) /\ done = Ready(n) /\ first = next[n] /\ c = Cardinality(Ready(n))
      OBVIOUS
    <2>11. /\ DOMAIN bufs = DOMAIN epochs[n] \cup {q.epoch} /\ done \subseteq DOMAIN bufs
           /\ c \in Nat /\ done = first..first + c - 1 /\ first \in Nat
      BY <1>1, <1>2, <1>3, <2>4, <2>10, BufsTyped DEF Typed
    <2>12. /\ \A e \in DOMAIN bufs : \A b \in bufs[e].seen :
                \/ e \in DOMAIN epochs[n] /\ b \in epochs[n][e].seen
                \/ e = q.epoch /\ b = q.branch /\ q.ctrl = "barrier"
           /\ \A e \in done : 1..Branches \subseteq bufs[e].seen
      BY <1>1, <1>3, <2>4, <2>10, BufferSeen
    <2>13. /\ first \in 1..w + 1 /\ DOMAIN epochs[n] \subseteq first..w
           /\ \A e \in DOMAIN epochs[n] : \A b \in epochs[n][e].seen :
                \A x \in T : InBranch(x) = b => x.q.epoch > e
           /\ \A x \in T : x.q.epoch >= first
      BY <1>1, <1>5, <1>6, <2>10 DEF PassingOf
    <2>14. q.epoch >= first
      <3>1. PICK t : t = [n |-> n, h |-> 0, q |-> q]
        OBVIOUS
      <3>2. t \in T /\ t.q = q
        BY <1>2, <1>3, <1>4, <2>4, <3>1 DEF Things, At
      <3>3. QED
        BY <2>13, <3>2
    <2>15. PassingOf(U, bufs, first, w)
      <3>1. DOMAIN bufs \subseteq first..w
        <4>1. q.epoch \in first..w
          BY <1>3, <1>6, <2>4, <2>11, <2>14
        <4>2. QED
          BY <2>11, <2>13, <4>1
      <3>2. ASSUME NEW e \in DOMAIN bufs, NEW b \in bufs[e].seen, NEW x \in U, InBranch(x) = b
            PROVE  x.q.epoch > e
        <4>1. CASE e \in DOMAIN epochs[n] /\ b \in epochs[n][e].seen
          BY <2>8, <2>13, <3>2, <4>1
        <4>2. CASE e = q.epoch /\ b = q.branch /\ q.ctrl = "barrier"
          <5>1. x \in Things(inbox, out) /\ (x.n = TheJoin => x.h = 0 /\ x.q \in Items(r))
            BY <1>1, <1>4, <2>8
          <5>2. Gone(inbox[TheJoin], r) /\ q = Taken(TheJoin) /\ InBranch(x) = q.branch
            BY <1>1, <2>7, <3>2, <4>2
          <5>3. x.q.epoch > q.epoch
            BY <2>4, <4>2, <5>1, <5>2, LeftBehind
          <5>4. QED
            BY <4>2, <5>3
        <4>3. QED
          BY <2>12, <4>1, <4>2
      <3>3. QED
        BY <2>8, <2>13, <3>1, <3>2 DEF PassingOf
    <2>16. \A x \in U : InBranch(x) \in 1..Branches /\ x.q.epoch \in Nat
      BY <1>4, <2>8, ThingsAre DEF WaveInv, Tagged
    <2>17. PICK later : later = [e \in DOMAIN bufs \ done |-> bufs[e]]
      OBVIOUS
    <2>18. PassingOf(U, later, first + c, w)
      <3>1. PassedOn(bufs, done, first, c, later)
        BY <2>11, <2>17 DEF PassedOn
      <3>2. w \in Nat
        BY <1>3, <1>6
      <3>3. \A x \in U : \A e \in done : InBranch(x) \in bufs[e].seen
        BY <2>12, <2>16
      <3>4. QED
        BY <2>11, <2>15, <2>16, <3>1, <3>2, <3>3, PassingOn
    <2>19. epochs'[TheJoin] = later /\ next'[TheJoin] = first + c
      <3>1. TheJoin \in DOMAIN epochs /\ TheJoin \in DOMAIN next
        BY <1>1, <1>2 DEF Typed, EpochsTyped
      <3>2. QED
        BY <1>1, <2>2, <2>10, <2>17, <3>1 DEF JoinTakes
    <2>20. Passing'
      BY <1>4, <2>3, <2>18, <2>19 DEF Passing, Waves
    <2>21. WaveInv' /\ Descends(T, U)
      BY <1>4, <2>7, <2>8, <2>9, <2>20, FewerDescend DEF WaveInv
    <2>22. QED
      BY <1>1, <1>4, <2>1, <2>2, <2>21
  <1>9. QED
    BY <1>7, <1>8

(* An item reaches the inbox of m, and nothing it might not follow is there. *)
LEMMA PlacesPut ==
  ASSUME Typed, NEW O, NEW w, \A j \in Nodes : NodeFine(j, inbox[j], O[j], w),
         NEW m \in Nodes, NEW q \in Wares, MayWait(m, q, w),
         q.fan = HeadNode =>
           \A y \in Items(inbox[m]) :
             y.fan = HeadNode /\ BranchAt(m, y) = BranchAt(m, q) => Ok(y, q),
         NEW J, J = [inbox EXCEPT ![m] = Enqueue(@, q)]
  PROVE  /\ \A j \in Nodes : NodeFine(j, J[j], O[j], w)
         /\ PutThings(m, q, Things(inbox, O), Things(J, O))
  <1>1. inbox \in [Nodes -> InboxSet(Wares)]
    BY DEF Typed
  <1>2. PICK in, o : in \in InboxSet(Wares) /\ in = inbox[m] /\ o = O[m]
    BY <1>1
  <1>3. PICK r : r = Enqueue(in, q)
    OBVIOUS
  <1>4. /\ NodeFine(m, r, o, w) /\ r \in InboxSet(Wares)
        /\ Items(r) \subseteq Items(in) \cup {q}
    BY <1>2, <1>3, PutFine
  <1>5. J = [inbox EXCEPT ![m] = r] /\ J[m] = r /\ \A j \in Nodes \ {m} : J[j] = inbox[j]
    BY <1>1, <1>2, <1>3
  <1>6. \A j \in Nodes : NodeFine(j, J[j], O[j], w)
    BY <1>2, <1>4, <1>5
  <1>7. PutThings(m, q, Things(inbox, O), Things(J, O))
    <2>1. PICK I \in [Nodes -> InboxSet(Wares)] : I = inbox
      BY <1>1
    <2>2. Items(r) \subseteq Items(I[m]) \cup {q}
      BY <1>2, <1>4, <2>1
    <2>3. PutThings(m, q, Things(I, O), Things([I EXCEPT ![m] = r], O))
      BY <1>4, <2>2, ThingsPut
    <2>4. QED
      BY <1>5, <2>1, <2>3, Zenon
  <1>8. QED
    BY <1>6, <1>7

LEMMA PushStep ==
  ASSUME Flat, Typed, WaveInv, NEW n \in Nodes, NodePush(n)
  PROVE  WaveInv' /\ Descends(Things(inbox, out), Things(inbox', out'))
  <1>1. PICK p, s : p = Head(out[n]) /\ s = out[n]
    OBVIOUS
  <1>2. /\ s \in Seq(PushSet) /\ s # <<>> /\ p \in PushSet /\ p = s[1] /\ 1 \in DOMAIN s
        /\ out \in [Nodes -> Seq(PushSet)] /\ inbox \in [Nodes -> InboxSet(Wares)]
        /\ p.q \in Wares
    <2>1. /\ s \in Seq(PushSet) /\ s # <<>> /\ out \in [Nodes -> Seq(PushSet)]
          /\ inbox \in [Nodes -> InboxSet(Wares)]
      BY <1>1 DEF NodePush, Typed
    <2>2. p = s[1] /\ 1 \in DOMAIN s
      BY <1>1, <2>1, TailThins
    <2>3. p \in PushSet
      BY <2>1, <2>2, ElementOfSeq, LenProperties
    <2>4. QED
      BY <2>1, <2>2, <2>3 DEF PushSet
  <1>3. /\ WavesSame /\ out' = [out EXCEPT ![n] = Tail(s)]
        /\ \/ p.to \in Nodes /\ inbox' = [inbox EXCEPT ![p.to] = Enqueue(@, p.q)]
           \/ p.to \notin Nodes /\ inbox' = inbox
    BY <1>1, Topology DEF NodePush, WavesSame
  <1>4. PICK w : w = Waves
    OBVIOUS
  <1>5. \A j \in Nodes : NodeFine(j, inbox[j], out[j], w)
    BY <1>4 DEF WaveInv, Places, Waves
  <1>6. PICK P : P = out'
    OBVIOUS
  <1>7. \A j \in Nodes : NodeFine(j, inbox[j], P[j], w)
    <2>1. P[n] = Tail(s) /\ \A j \in Nodes \ {n} : P[j] = out[j]
      BY <1>2, <1>3, <1>6
    <2>2. NodeFine(n, inbox[n], Tail(s), w)
      <3>1. PICK in : in = inbox[n]
        OBVIOUS
      <3>2. NodeFine(n, in, s, w)
        BY <1>1, <1>5, <3>1
      <3>3. QED
        BY <1>2, <3>1, <3>2, TailFine
    <2>3. QED
      BY <1>5, <2>1, <2>2
  <1>8. PICK T, M, U : T = Things(inbox, out) /\ M = Things(inbox, P) /\ U = Things(inbox', P)
    OBVIOUS
  <1>9. DroppedThings(n, s, T, M)
    <2>1. PICK I \in [Nodes -> InboxSet(Wares)], O \in [Nodes -> Seq(PushSet)] :
            I = inbox /\ O = out
      BY <1>2
    <2>2. DroppedThings(n, O[n], Things(I, O), Things(I, [O EXCEPT ![n] = Tail(O[n])]))
      BY <1>1, <1>2, <2>1, ThingsDropped
    <2>3. QED
      BY <1>1, <1>3, <1>6, <1>8, <2>1, <2>2, Zenon
  <1>10. \A x \in M : x \in T /\ (x.n = n /\ x.h = 1 => \E j \in DOMAIN s : j > 1 /\ x.q = s[j].q)
    BY <1>9 DEF DroppedThings
  <1>11. Ordered(T)
    BY <1>8 DEF WaveInv
  <1>12. Waves' = w
    BY <1>3, <1>4 DEF WavesSame, Waves
  <1>13. MayLeave(n, p, w) /\ Sorted(n, Sent(s))
    BY <1>1, <1>2, <1>5 DEF NodeFine
  <1>14. CASE p.to \notin Nodes
    <2>1. inbox' = inbox /\ U = M
      BY <1>3, <1>8, <1>14
    <2>2. Places'
      BY <1>6, <1>7, <1>12, <2>1 DEF Places, Waves
    <2>3. Ordered(U) /\ Retains(T, U)
      BY <1>10, <1>11, <2>1, FewerOrdered, FewerRetained
    <2>4. QED
      BY <1>3, <1>6, <1>8, <1>10, <2>1, <2>2, <2>3, WaveInvKept DEF Descends
  <1>15. CASE p.to \in Nodes
    <2>1. PICK m, b : m = p.to /\ b = BranchAt(n, p.q)
      OBVIOUS
    <2>2. /\ MayWait(m, p.q, w)
          /\ p.q.fan = HeadNode => Passes(n, b) /\ m = Target(n, b) /\ BranchAt(m, p.q) = b
      BY <1>2, <1>13, <1>15, <2>1, LeftMayWait
    <2>3. m \in Nodes
      BY <1>15, <2>1
    <2>4. PICK t, k : t = [n |-> n, h |-> 1, q |-> p.q] /\ k = 2 * Stage(m)
      OBVIOUS
    <2>5. ASSUME p.q.fan = HeadNode
          PROVE  /\ t \in T /\ t.q = p.q /\ InBranch(t) = b /\ k \in Int
                 /\ Stage(n) \in Nat /\ Stage(m) \in Nat /\ Stage(n) < Stage(m)
                 /\ Depth(t) = 2 * Stage(n) + 1 /\ Depth(t) < k
      <3>1. t \in T /\ t.q = p.q /\ t.n = n /\ t.h = 1
        <4>1. p.q \in {out[n][i].q : i \in DOMAIN out[n]}
          BY <1>1, <1>2
        <4>2. QED
          BY <1>2, <1>8, <2>4, <2>5, <4>1 DEF Things, At
      <3>2. Stage(n) \in Nat /\ Stage(m) \in Nat /\ Stage(n) < Stage(m)
        BY <2>2, <2>3, <2>5, Stages, Targets
      <3>3. InBranch(t) = b /\ Depth(t) = 2 * Stage(n) + 1
        BY <2>1, <3>1 DEF InBranch, Depth
      <3>4. QED
        BY <2>4, <3>1, <3>2, <3>3
    <2>6. p.q.fan = HeadNode =>
            \A y \in Items(inbox[m]) :
              y.fan = HeadNode /\ BranchAt(m, y) = BranchAt(m, p.q) => Ok(y, p.q)
      <3> SUFFICES ASSUME p.q.fan = HeadNode, NEW y \in Items(inbox[m]), y.fan = HeadNode,
                          BranchAt(m, y) = BranchAt(m, p.q)
                   PROVE  Ok(y, p.q)
        OBVIOUS
      <3>1. PICK x : x = [n |-> m, h |-> 0, q |-> y]
        OBVIOUS
      <3>2. x \in T
        <4>1. y \in Wares
          <5>1. inbox[m] \in InboxSet(Wares)
            BY <1>2, <2>3
          <5>2. PICK in \in InboxSet(Wares) : in = inbox[m]
            BY <5>1
          <5>3. in.sys \in Seq(Wares) /\ in.up \in Seq(Wares) /\ in.down \in Seq(Wares)
            BY DEF InboxSet
          <5>4. \A l \in Seq(Wares) : \A i \in DOMAIN l : l[i] \in Wares
            BY ElementOfSeq, LenProperties
          <5>5. QED
            BY <5>2, <5>3, <5>4 DEF Items
        <4>2. QED
          BY <1>8, <2>3, <3>1, <4>1 DEF Things, At
      <3>3. InBranch(x) = InBranch(t) /\ Depth(x) = k /\ x.q = y
        BY <2>2, <2>4, <2>5, <3>1 DEF InBranch, Depth
      <3>4. Ok(x.q, t.q)
        BY <1>11, <2>5, <3>2, <3>3 DEF Ordered
      <3>5. QED
        BY <2>5, <3>3, <3>4
    <2>7. PICK J : J = inbox' /\ J = [inbox EXCEPT ![m] = Enqueue(@, p.q)]
      BY <1>3, <1>15, <2>1
    <2>8. /\ \A j \in Nodes : NodeFine(j, J[j], P[j], w)
          /\ PutThings(m, p.q, Things(inbox, P), Things(J, P))
      BY <1>2, <1>7, <2>2, <2>3, <2>6, <2>7, PlacesPut
    <2>9. Places'
      BY <1>6, <1>12, <2>7, <2>8 DEF Places, Waves
    <2>10. \A x \in U : x \in M \/ (x.n = m /\ x.h = 0 /\ x.q = p.q /\ p.q.fan = HeadNode)
      <3>1. PutThings(m, p.q, M, U)
        BY <1>8, <2>7, <2>8
      <3>2. QED
        BY <3>1 DEF PutThings
    <2>11. CASE p.q.fan # HeadNode
      <3>1. U \subseteq T
        BY <1>10, <2>10, <2>11
      <3>2. Ordered(U) /\ Retains(T, U)
        BY <1>11, <3>1, FewerOrdered, FewerRetained
      <3>3. QED
        BY <1>3, <1>6, <1>8, <2>9, <3>1, <3>2, WaveInvKept, FewerDescend
    <2>12. CASE p.q.fan = HeadNode
      <3>1. \A x \in U : x \in T \/ Follower(x, t, k)
        <4>1. \A x : x.n = m /\ x.h = 0 /\ x.q = p.q => Follower(x, t, k)
          BY <2>2, <2>4, <2>5, <2>12 DEF Follower, InBranch, Depth
        <4>2. QED
          BY <1>10, <2>10, <4>1
      <3>2. \A x \in T \cup U : /\ Depth(x) = 2 * Stage(x.n) + x.h /\ Depth(x) \in Int
                                /\ x.h \in {0, 1} /\ x.n \in Nodes /\ Stage(x.n) \in Nat
                                /\ x.q.fan = HeadNode
        BY <1>8, Depths
      <3>3. ASSUME NEW y \in U, y \in T, InBranch(y) = InBranch(t)
            PROVE  /\ Depth(y) <= Depth(t) \/ Depth(y) >= k
                   /\ Depth(y) = Depth(t) => Ok(t.q, y.q)
        <4>1. /\ Stage(y.n) <= Stage(n) \/ Stage(y.n) >= Stage(m)
              /\ Stage(y.n) = Stage(n) => y.n = n
          <5>1. BranchAt(y.n, y.q) = b
            BY <2>5, <2>12, <3>3 DEF InBranch
          <5>2. QED
            BY <2>2, <2>12, <3>2, <5>1, NoneBetween
        <4>2. Depth(y) <= Depth(t) \/ Depth(y) >= k
          BY <2>4, <2>5, <2>12, <3>2, <4>1
        <4>3. ASSUME Depth(y) = Depth(t)
              PROVE  Ok(t.q, y.q)
          <5>1. Stage(y.n) = Stage(n) /\ y.h = 1
            BY <2>5, <2>12, <3>2, <4>3
          <5>2. y.n = n /\ n # m
            BY <2>5, <2>12, <4>1, <5>1
          <5>3. PICK j \in DOMAIN s : j > 1 /\ y.q = s[j].q
            BY <1>10, <2>10, <5>1, <5>2
          <5>4. /\ DOMAIN Sent(s) = DOMAIN s /\ Sent(s)[1] = p.q /\ Sent(s)[j] = y.q
            BY <1>2, <5>3 DEF Sent
          <5>5. 1 < j
            <6>1. j \in Int
              BY <1>2, LenProperties
            <6>2. QED
              BY <5>3, <6>1
          <5>6. BranchAt(n, p.q) = BranchAt(n, y.q) /\ y.q.fan = HeadNode
            BY <2>1, <2>5, <2>12, <3>2, <3>3, <5>2 DEF InBranch
          <5>7. QED
            BY <1>2, <1>13, <2>5, <2>12, <5>3, <5>4, <5>5, <5>6 DEF Sorted
        <4>4. QED
          BY <4>2, <4>3
      <3>4. Ordered(U)
        <4>1. /\ t \in T /\ k \in Int /\ Depth(t) < k /\ \A x \in T \cup U : Depth(x) \in Int
          BY <2>5, <2>12, <3>2
        <4>2. QED
          BY <1>11, <3>1, <3>3, <4>1, Advance
      <3>5. Retains(T, U)
        BY <2>5, <2>12, <3>1 DEF Retains, Follower
      <3>6. Descends(T, U)
        BY <1>10, <2>5, <2>10, <2>12 DEF Descends
      <3>7. QED
        BY <1>3, <1>6, <1>8, <2>9, <3>4, <3>5, <3>6, WaveInvKept
    <2>13. QED
      BY <2>11, <2>12
  <1>16. QED
    BY <1>14, <1>15

LEMMA ClientStep ==
  ASSUME Flat, Typed, WaveInv, ClientPush
  PROVE  WaveInv' /\ Descends(Things(inbox, out), Things(inbox', out'))
  <1>1. PICK q : q = DownItem(Frame(Script[sent + 1], sent + 1, "client"), 0, NoFan, 0)
    OBVIOUS
  <1>2. q \in Wares
    <2>1. sent + 1 \in 1..Len(Script) /\ sent + 1 \in Nat
      BY TopologyAssumption, LenProperties DEF ClientPush, Typed
    <2>2. Script[sent + 1] \in FrameKinds
      BY <2>1, TopologyAssumption, ElementOfSeq
    <2>3. Frame(Script[sent + 1], sent + 1, "client") \in FrameSet
      BY <2>1, <2>2 DEF Frame, FrameSet
    <2>4. QED
      BY <1>1, <2>3, FramesOfItems
  <1>3. PICK m, J, w : /\ m = HeadNode /\ J = inbox' /\ w = Waves
                       /\ J = [inbox EXCEPT ![m] = Enqueue(@, q)]
    BY <1>1 DEF ClientPush
  <1>4. m \in Nodes
    BY <1>3, FlatNodes
  <1>5. MayWait(m, q, w) /\ q.fan # HeadNode
    BY <1>1, <1>3, FlatNodes DEF MayWait, Untagged, DownItem, Item
  <1>6. \A j \in Nodes : NodeFine(j, inbox[j], out[j], w)
    BY <1>3 DEF WaveInv, Places, Waves
  <1>7. /\ \A j \in Nodes : NodeFine(j, J[j], out[j], w)
        /\ PutThings(m, q, Things(inbox, out), Things(J, out))
    <2>1. PICK O : O = out
      OBVIOUS
    <2>2. QED
      BY <1>2, <1>3, <1>4, <1>5, <1>6, <2>1, PlacesPut
  <1>8. out' = out /\ WavesSame
    BY DEF ClientPush, WavesSame
  <1>9. Places'
    BY <1>3, <1>7, <1>8 DEF Places, Waves, WavesSame
  <1>10. PICK T, U : T = Things(inbox, out) /\ U = Things(inbox', out')
    OBVIOUS
  <1>11. U \subseteq T
    <2>1. PutThings(m, q, T, U)
      BY <1>3, <1>7, <1>8, <1>10, Zenon
    <2>2. QED
      BY <1>5, <2>1 DEF PutThings
  <1>12. Ordered(U) /\ Retains(T, U)
    BY <1>10, <1>11, FewerOrdered, FewerRetained DEF WaveInv
  <1>13. QED
    BY <1>8, <1>9, <1>10, <1>11, <1>12, WaveInvKept, FewerDescend

LEMMA NextWaves == Flat /\ Typed /\ WaveInv /\ [Next]_vars => WaveInv'
  <1> SUFFICES ASSUME Flat, Typed, WaveInv, [Next]_vars
               PROVE  WaveInv'
    OBVIOUS
  <1>1. CASE UNCHANGED vars
    BY <1>1 DEF vars, WaveInv, Places, Passing
  <1>2. CASE ClientPush
    BY <1>2, ClientStep
  <1>3. CASE \E n \in Nodes : NodeStep(n)
    <2>1. PICK n \in Nodes : Handles(n) \/ NodePush(n)
      BY <1>3, StepsAre
    <2>2. CASE NodePush(n)
      BY <2>2, PushStep
    <2>3. CASE Handles(n)
      BY <2>3, FlatNodes, FanStep, JoinStep, ProcStep
    <2>4. QED
      BY <2>1, <2>2, <2>3
  <1>4. QED
    BY <1>1, <1>2, <1>3 DEF Next

LEMMA InitWaves == Flat /\ Init => WaveInv
  <1> SUFFICES ASSUME Flat, Init
               PROVE  WaveInv
    OBVIOUS
  <1>1. /\ \A n \in Nodes : inbox[n] = EmptyInbox /\ out[n] = <<>>
        /\ fanSeq[HeadNode] = 0 /\ next[TheJoin] = 1 /\ epochs[TheJoin] = <<>>
    BY FlatNodes DEF Init
  <1>2. PICK in, o : in = EmptyInbox /\ o = <<>>
    OBVIOUS
  <1>3. Items(in) = {} /\ DOMAIN o = {} /\ Clean(in) /\ in.down = <<>> /\ DOMAIN in.down = {}
    BY <1>2 DEF Items, EmptyInbox, Clean
  <1>4. \A n : Sorted(n, in.down) /\ Sorted(n, Sent(o))
    BY <1>3 DEF Sorted, Sent
  <1>5. \A n \in Nodes : NodeFine(n, in, o, 0)
    BY <1>3, <1>4 DEF NodeFine
  <1>6. Places
    BY <1>1, <1>2, <1>5 DEF Places
  <1>7. Things(inbox, out) = {}
    BY <1>1, <1>2, <1>3 DEF Things, At
  <1>8. Ordered({})
    BY DEF Ordered
  <1>9. Passing
    <2>1. PICK e : e = <<>>
      OBVIOUS
    <2>2. PassingOf({}, e, 1, 0)
      BY <2>1 DEF PassingOf
    <2>3. QED
      BY <1>1, <1>7, <2>1, <2>2 DEF Passing
  <1>10. QED
    BY <1>6, <1>7, <1>8, <1>9 DEF WaveInv

LEMMA WavesComplete == Flat /\ Typed /\ WaveInv => WaveComplete
  <1> SUFFICES ASSUME Flat, Typed, WaveInv, NEW n \in Joins, NEW q \in Moving,
                      q.fan = FanOf[n], q.epoch # 0
               PROVE  q.epoch >= next[n]
    BY DEF WaveComplete
  <1>1. n = TheJoin /\ q.fan = HeadNode
    BY FlatNodes
  <1>2. PICK m \in Nodes : q \in LaneItems(m) \cup {out[m][i].q : i \in DOMAIN out[m]}
    BY DEF Moving
  <1>3. PICK h \in {0, 1} : q \in At(inbox, out, m, h)
    BY <1>2 DEF At, LaneItems, Items
  <1>4. q \in Wares
    <2>1. PICK in \in InboxSet(Wares), o \in Seq(PushSet) : in = inbox[m] /\ o = out[m]
      BY DEF Typed
    <2>3. in.sys \in Seq(Wares) /\ in.up \in Seq(Wares) /\ in.down \in Seq(Wares)
      BY DEF InboxSet
    <2>4. \A l \in Seq(Wares) : \A i \in DOMAIN l : l[i] \in Wares
      BY ElementOfSeq, LenProperties
    <2>5. \A i \in DOMAIN o : o[i].q \in Wares
      BY ElementOfSeq, LenProperties DEF PushSet
    <2>6. QED
      BY <1>2, <2>1, <2>3, <2>4, <2>5 DEF LaneItems
  <1>5. [n |-> m, h |-> h, q |-> q] \in Things(inbox, out)
    BY <1>1, <1>3, <1>4 DEF Things
  <1>6. QED
    BY <1>1, <1>5 DEF WaveInv, Passing, PassingOf

(* In a flat pipeline a join passes a wave on only when no part of it can   *)
(* still come, whatever the branches drop, fail at or overtake.             *)
THEOREM WavesAreComplete == Flat => (Spec => []WaveComplete)
  <1>1. CASE Flat
    <2>1. Init => Typed /\ WaveInv
      BY <1>1, InitTyped, InitWaves
    <2>2. (Typed /\ WaveInv) /\ [Next]_vars => (Typed /\ WaveInv)'
      BY <1>1, NextTyped, NextWaves
    <2>3. Typed /\ WaveInv => WaveComplete
      BY <1>1, WavesComplete
    <2>4. Spec => []WaveComplete
      BY <2>1, <2>2, <2>3, PTL DEF Spec
    <2>5. QED
      BY <2>4
  <1>2. CASE ~Flat
    BY <1>2
  <1>3. QED
    BY <1>1, <1>2

-----------------------------------------------------------------------------
(* The frames that the client has queued and that wait at the fan, numbered *)
(* as in Script: each lane holds them in order, so none is there twice.     *)
Rising(s) ==
  \A a, b \in DOMAIN s :
    a < b /\ s[a].dir = "down" /\ s[b].dir = "down" => s[a].id < s[b].id

Queued(in, k) ==
  /\ Rising(in.sys) /\ Rising(in.down)
  /\ \A i \in DOMAIN in.sys : IsSystem(in.sys[i].kind)
  /\ \A i \in DOMAIN in.down : ~IsSystem(in.down[i].kind)
  /\ \A i \in DOMAIN in.up : in.up[i].dir = "up"
  /\ \A y \in Items(in) : y.dir = "down" => y.id \in 1..k /\ y.kind = Script[y.id]

Fresh(in, ord) ==
  \A y \in Items(in) : y.dir = "down" => \A e \in DOMAIN ord : ord[e].id # y.id

Numbered(ord, k) ==
  /\ \A e \in DOMAIN ord : ord[e].id \in 1..k
  /\ \A d, e \in DOMAIN ord : ord[d].id = ord[e].id => d = e

ClientInv ==
  /\ Queued(inbox[HeadNode], sent) /\ Fresh(inbox[HeadNode], order[HeadNode])
  /\ Numbered(order[HeadNode], sent) /\ Len(order[HeadNode]) = Waves

(* A frame of wave e comes from the client's frame that began it; a Start,  *)
(* End or Cancel is that frame.                                             *)
Good(f, e, ord) ==
  e \in DOMAIN ord /\ f.id = ord[e].id /\ (IsSyncFrame(f.kind) => f = ord[e])

GoodThings(T, ord) == \A x \in T : x.q.ctrl = "none" => Good(FrameOf(x.q), x.q.epoch, ord)

GoodBufs(bufs, ord) ==
  \A e \in DOMAIN bufs : \A b \in 1..Branches : \A i \in DOMAIN bufs[e].per[b] :
    Good(bufs[e].per[b][i], e, ord)

FrameInv ==
  /\ GoodThings(Things(inbox, out), order[HeadNode])
  /\ GoodBufs(epochs[TheJoin], order[HeadNode])

(* What has reached the sink and what the join has still to send it.        *)
Released(f, ord, first) == \E e \in DOMAIN ord : e < first /\ f.id = ord[e].id

Before(f, g, ord) ==
  \E d, e \in DOMAIN ord :
    /\ f.id = ord[d].id /\ g.id = ord[e].id /\ d <= e
    /\ d = e => f # g /\ f.kind \notin {"End", "Cancel"} /\ g.kind # "Start"

AtSink(p) == {i \in DOMAIN p : p[i].to = "sink"}

InLine(s, p, ord, first) ==
  /\ \A i \in DOMAIN s : Released(s[i], ord, first)
  /\ \A i \in AtSink(p) : Released(FrameOf(p[i].q), ord, first)
  /\ \A i, j \in DOMAIN s : i < j => Before(s[i], s[j], ord)
  /\ \A i \in DOMAIN s : \A j \in AtSink(p) : Before(s[i], FrameOf(p[j].q), ord)
  /\ \A i, j \in AtSink(p) : i < j => Before(FrameOf(p[i].q), FrameOf(p[j].q), ord)

LineInv == InLine(arrived, out[TheJoin], order[HeadNode], next[TheJoin])

-----------------------------------------------------------------------------
LEMMA RisingThin ==
  ASSUME NEW s, NEW r, Thins(s, r), Rising(r)
  PROVE  Rising(s)
  <1> SUFFICES ASSUME NEW a \in DOMAIN s, NEW b \in DOMAIN s, a < b,
                      s[a].dir = "down", s[b].dir = "down"
               PROVE  s[a].id < s[b].id
    BY DEF Rising
  <1>1. PICK c \in DOMAIN r, d \in DOMAIN r : c < d /\ s[a] = r[c] /\ s[b] = r[d]
    BY DEF Thins
  <1>2. QED
    BY <1>1 DEF Rising

LEMMA QueuedThin ==
  ASSUME NEW in, NEW r, NEW k, Queued(in, k),
         Thins(r.sys, in.sys), Thins(r.up, in.up), Thins(r.down, in.down)
  PROVE  Queued(r, k) /\ Items(r) \subseteq Items(in)
  <1>1. /\ \A i \in DOMAIN r.sys : \E c \in DOMAIN in.sys : r.sys[i] = in.sys[c]
        /\ \A i \in DOMAIN r.up : \E c \in DOMAIN in.up : r.up[i] = in.up[c]
        /\ \A i \in DOMAIN r.down : \E c \in DOMAIN in.down : r.down[i] = in.down[c]
    BY DEF Thins
  <1>2. Items(r) \subseteq Items(in)
    BY <1>1 DEF Items
  <1>3. Rising(r.sys) /\ Rising(r.down)
    BY RisingThin DEF Queued
  <1>4. QED
    BY <1>1, <1>2, <1>3 DEF Queued

(* The fan takes the client's frames once each. *)
TakenOnce(in, r) ==
  Front(in).dir = "down" => \A y \in Items(r) : y.dir = "down" => y.id # Front(in).id

Others(s, x) == \A i \in DOMAIN s : s[i].dir = "down" => s[i].id # x.id
Within(s, k) == \A i \in DOMAIN s : s[i].dir = "down" => s[i].id \in 1..k

LEMMA LaterIsGreater ==
  ASSUME NEW S, NEW s \in Seq(S), s # <<>>, Rising(s), NEW t, Thins(t, Tail(s)),
         s[1].dir = "down", NEW k, Within(s, k)
  PROVE  Others(t, s[1])
  <1> SUFFICES ASSUME NEW i \in DOMAIN t, t[i].dir = "down"
               PROVE  t[i].id # s[1].id
    BY DEF Others
  <1>1. PICK c \in DOMAIN Tail(s) : t[i] = Tail(s)[c]
    BY DEF Thins
  <1>2. /\ 1 \in DOMAIN s /\ c + 1 \in DOMAIN s /\ c + 1 > 1 /\ Tail(s)[c] = s[c + 1]
    BY TailThins
  <1>3. PICK d \in DOMAIN s : d > 1 /\ t[i] = s[d]
    BY <1>1, <1>2
  <1>4. d \in Int
    BY LenProperties
  <1>5. s[1].id < s[d].id /\ s[1].id \in Int /\ s[d].id \in Int
    BY <1>2, <1>3, <1>4 DEF Rising, Within
  <1>6. QED
    BY <1>3, <1>5

LEMMA TakeQueued ==
  ASSUME NEW in \in InboxSet(Wares), NEW r, TakenFrom(in, r), NEW k, Queued(in, k)
  PROVE  Queued(r, k) /\ Items(r) \subseteq Items(in) /\ TakenOnce(in, r)
  <1>1. in.sys \in Seq(Wares) /\ in.up \in Seq(Wares) /\ in.down \in Seq(Wares)
    BY DEF InboxSet
  <1>2. Thins(r.sys, in.sys) /\ Thins(r.up, in.up) /\ Thins(r.down, in.down)
    <2>1. \A s \in Seq(Wares) : s # <<>> => Thins(Tail(s), s)
      BY TailThins
    <2>2. \A t : /\ in.sys # <<>> /\ Thins(t, Tail(in.sys)) => Thins(t, in.sys)
                 /\ in.up # <<>> /\ Thins(t, Tail(in.up)) => Thins(t, in.up)
                 /\ in.down # <<>> /\ Thins(t, Tail(in.down)) => Thins(t, in.down)
      BY <1>1, <2>1, ThinsTransitive
    <2>3. QED
      BY <2>2 DEF TakenFrom
  <1>3. Queued(r, k) /\ Items(r) \subseteq Items(in)
    BY <1>2, QueuedThin
  <1>4. TakenOnce(in, r)
    <2> SUFFICES ASSUME Front(in).dir = "down", NEW y \in Items(r), y.dir = "down"
                 PROVE  y.id # Front(in).id
      BY DEF TakenOnce
    <2>1. /\ \A i \in DOMAIN in.sys : in.sys[i] \in Items(in)
          /\ \A i \in DOMAIN in.down : in.down[i] \in Items(in)
      BY DEF Items
    <2>2. /\ Within(in.sys, k) /\ Within(in.down, k)
          /\ \A z \in Items(in) : z.dir = "down" => z.kind = Script[z.id]
      BY <2>1 DEF Queued, Within
    <2>3. \/ \E i \in DOMAIN r.sys : y = r.sys[i]
          \/ \E i \in DOMAIN r.down : y = r.down[i] /\ ~IsSystem(y.kind)
      <3>1. \A i \in DOMAIN r.up : r.up[i].dir = "up"
        BY <1>3 DEF Queued
      <3>2. \A i \in DOMAIN r.down : ~IsSystem(r.down[i].kind)
        BY <1>3 DEF Queued
      <3>3. QED
        BY <3>1, <3>2 DEF Items
    <2>4. (\E i \in DOMAIN r.sys : y = r.sys[i]) => IsSystem(y.kind)
      BY <1>3 DEF Queued
    <2>5. y \in Items(in)
      BY <1>3
    <2>6. CASE /\ in.sys # <<>> /\ Front(in) = Head(in.sys)
               /\ Thins(r.sys, Tail(in.sys)) /\ Thins(r.up, in.up) /\ Thins(r.down, in.down)
      <3>1. Front(in) = in.sys[1] /\ 1 \in DOMAIN in.sys
        BY <1>1, <2>6, TailThins
      <3>2. Others(r.sys, Front(in))
        <4>1. PICK s, t : s = in.sys /\ t = r.sys
          OBVIOUS
        <4>2. /\ s \in Seq(Wares) /\ s # <<>> /\ Rising(s) /\ Thins(t, Tail(s))
              /\ s[1].dir = "down" /\ Within(s, k)
          BY <1>1, <2>2, <2>6, <3>1, <4>1 DEF Queued
        <4>3. QED
          BY <3>1, <4>1, <4>2, LaterIsGreater
      <3>3. IsSystem(Front(in).kind) /\ Front(in) \in Items(in)
        BY <2>1, <3>1 DEF Queued
      <3>4. ~IsSystem(y.kind) => y.id # Front(in).id
        BY <2>2, <2>5, <3>3
      <3>5. QED
        BY <2>3, <3>2, <3>4 DEF Others
    <2>7. CASE /\ in.sys = <<>> /\ in.up # <<>> /\ Front(in) = Head(in.up)
      <3>1. Front(in) = in.up[1] /\ 1 \in DOMAIN in.up
        BY <1>1, <2>7, TailThins
      <3>2. QED
        BY <3>1 DEF Queued
    <2>8. CASE /\ in.down # <<>> /\ Front(in) = Head(in.down)
               /\ Thins(r.sys, in.sys) /\ Thins(r.up, in.up) /\ Thins(r.down, Tail(in.down))
      <3>1. Front(in) = in.down[1] /\ 1 \in DOMAIN in.down
        BY <1>1, <2>8, TailThins
      <3>2. Others(r.down, Front(in))
        <4>1. PICK s, t : s = in.down /\ t = r.down
          OBVIOUS
        <4>2. /\ s \in Seq(Wares) /\ s # <<>> /\ Rising(s) /\ Thins(t, Tail(s))
              /\ s[1].dir = "down" /\ Within(s, k)
          BY <1>1, <2>2, <2>8, <3>1, <4>1 DEF Queued
        <4>3. QED
          BY <3>1, <4>1, <4>2, LaterIsGreater
      <3>3. ~IsSystem(Front(in).kind) /\ Front(in) \in Items(in)
        BY <2>1, <3>1 DEF Queued
      <3>4. IsSystem(y.kind) => y.id # Front(in).id
        BY <2>2, <2>5, <3>3
      <3>5. QED
        BY <2>3, <2>4, <3>2, <3>4 DEF Others
    <2>9. QED
      BY <2>6, <2>7, <2>8 DEF TakenFrom
  <1>5. QED
    BY <1>3, <1>4

(* An upstream frame, or the client's next one, reaches the fan.            *)
LEMMA PutQueued ==
  ASSUME NEW in \in InboxSet(Wares), NEW q \in Wares, q.ctrl = "none", NEW r, PutIn(in, q, r),
         NEW k \in Nat, NEW l \in Nat, k <= l, Queued(in, k),
         q.dir = "down" => q.id \in 1..l /\ q.id > k /\ q.kind = Script[q.id]
  PROVE  Queued(r, l) /\ Items(r) \subseteq Items(in) \cup {q}
  <1>1. in.sys \in Seq(Wares) /\ in.up \in Seq(Wares) /\ in.down \in Seq(Wares)
    BY DEF InboxSet
  <1>2. /\ Lane(q) = "sys" => IsSystem(q.kind)
        /\ Lane(q) = "up" => q.dir = "up"
        /\ Lane(q) = "down" => ~IsSystem(q.kind)
    BY DEF Lane
  <1>3. \A y \in Items(in) \cup {q} :
          y.dir = "down" => y.id \in 1..l /\ y.kind = Script[y.id]
    <2>1. \A y \in Items(in) : y.dir = "down" => y.id \in 1..k /\ y.kind = Script[y.id]
      BY DEF Queued
    <2>2. 1..k \subseteq 1..l
      OBVIOUS
    <2>3. QED
      BY <2>1, <2>2
  <1>4. ASSUME NEW s \in Seq(Wares), Rising(s), NEW t \in Seq(Wares), Thins(t, s),
               \A i \in DOMAIN s : s[i] \in Items(in)
        PROVE  Rising(Append(t, q))
    <2>1. Rising(t) /\ \A i \in DOMAIN t : t[i] \in Items(in)
      BY <1>4, RisingThin DEF Thins
    <2>2. PICK v : v = Append(t, q)
      OBVIOUS
    <2>3. /\ \A i \in DOMAIN v : \/ i \in DOMAIN t /\ v[i] = t[i]
                                 \/ i \notin DOMAIN t /\ v[i] = q
          /\ \A i, j \in DOMAIN v : i < j => i \in DOMAIN t
      BY <2>2, AppendIs
    <2>4. ASSUME NEW a \in DOMAIN v, NEW b \in DOMAIN v, a < b,
                 v[a].dir = "down", v[b].dir = "down"
          PROVE  v[a].id < v[b].id
      <3>1. a \in DOMAIN t /\ v[a] = t[a]
        BY <2>3, <2>4
      <3>2. CASE b \in DOMAIN t /\ v[b] = t[b]
        BY <2>1, <2>4, <3>1, <3>2 DEF Rising
      <3>3. CASE v[b] = q
        <4>1. t[a].id \in 1..k
          BY <2>1, <2>4, <3>1 DEF Queued
        <4>2. q.id \in Int /\ q.id > k
          BY <2>4, <3>3
        <4>3. QED
          BY <3>1, <3>3, <4>1, <4>2
      <3>4. QED
        BY <2>3, <3>2, <3>3
    <2>5. QED
      BY <2>2, <2>4 DEF Rising
  <1>5. /\ \A i \in DOMAIN in.sys : in.sys[i] \in Items(in)
        /\ \A i \in DOMAIN in.down : in.down[i] \in Items(in)
        /\ \A i \in DOMAIN in.up : in.up[i] \in Items(in)
    BY DEF Items
  <1>6. CASE /\ Lane(q) = "sys" /\ r.up = in.up /\ r.down = in.down
             /\ \E s \in Seq(Wares) : Thins(s, in.sys) /\ r.sys = Append(s, q)
    <2>1. PICK s \in Seq(Wares) : Thins(s, in.sys) /\ r.sys = Append(s, q)
      BY <1>6
    <2>2. Rising(r.sys)
      BY <1>1, <1>4, <1>5, <2>1 DEF Queued
    <2>3. \A i \in DOMAIN r.sys : r.sys[i] = q \/ \E c \in DOMAIN in.sys : r.sys[i] = in.sys[c]
      <3>1. \A i \in DOMAIN Append(s, q) :
              (i \in DOMAIN s /\ Append(s, q)[i] = s[i]) \/ Append(s, q)[i] = q
        BY AppendIs
      <3>2. QED
        BY <2>1, <3>1 DEF Thins
    <2>4. Items(r) \subseteq Items(in) \cup {q}
      BY <1>6, <2>3 DEF Items
    <2>5. \A i \in DOMAIN r.sys : IsSystem(r.sys[i].kind)
      BY <1>2, <1>6, <2>3 DEF Queued
    <2>6. QED
      BY <1>3, <1>6, <2>2, <2>4, <2>5 DEF Queued
  <1>7. CASE Lane(q) = "up" /\ r.sys = in.sys /\ r.up = Append(in.up, q) /\ r.down = in.down
    <2>1. \A i \in DOMAIN r.up : r.up[i] = q \/ (i \in DOMAIN in.up /\ r.up[i] = in.up[i])
      BY <1>1, <1>7, AppendIs
    <2>2. Items(r) \subseteq Items(in) \cup {q}
      BY <1>7, <2>1 DEF Items
    <2>3. \A i \in DOMAIN r.up : r.up[i].dir = "up"
      BY <1>2, <1>7, <2>1 DEF Queued
    <2>4. QED
      BY <1>3, <1>7, <2>2, <2>3 DEF Queued
  <1>8. CASE Lane(q) = "down" /\ r.sys = in.sys /\ r.up = in.up /\ r.down = Append(in.down, q)
    <2>1. \A i \in DOMAIN r.down : r.down[i] = q \/ (i \in DOMAIN in.down /\ r.down[i] = in.down[i])
      BY <1>1, <1>8, AppendIs
    <2>2. Items(r) \subseteq Items(in) \cup {q}
      BY <1>8, <2>1 DEF Items
    <2>3. Rising(r.down)
      BY <1>1, <1>4, <1>5, <1>8, ThinsOfItself DEF Queued
    <2>4. \A i \in DOMAIN r.down : ~IsSystem(r.down[i].kind)
      BY <1>2, <1>8, <2>1 DEF Queued
    <2>5. QED
      BY <1>3, <1>8, <2>2, <2>3, <2>4 DEF Queued
  <1>9. QED
    BY <1>6, <1>7, <1>8 DEF PutIn
-----------------------------------------------------------------------------
(* The order of the waves grows at its end.                                 *)
LEMMA OrderTyped ==
  ASSUME Flat, Typed
  PROVE  /\ order[HeadNode] \in Seq(FrameSet) /\ order \in [Fans -> Seq(FrameSet)]
         /\ HeadNode \in Fans /\ Waves \in Nat
         /\ DOMAIN order[HeadNode] = 1..Len(order[HeadNode]) /\ Len(order[HeadNode]) \in Nat
  BY FlatNodes, LenProperties DEF Typed, Waves

LEMMA OrderGrows ==
  ASSUME NEW ord \in Seq(FrameSet), NEW f \in FrameSet, NEW o, o = Append(ord, f)
  PROVE  /\ DOMAIN ord \subseteq DOMAIN o /\ \A e \in DOMAIN ord : o[e] = ord[e]
         /\ o[Len(ord) + 1] = f /\ DOMAIN o = DOMAIN ord \cup {Len(ord) + 1}
         /\ Len(ord) + 1 \notin DOMAIN ord /\ Len(o) = Len(ord) + 1
  BY LenProperties

LEMMA GoodLater ==
  ASSUME NEW ord \in Seq(FrameSet), NEW g \in FrameSet, NEW o, o = Append(ord, g),
         NEW f, NEW e, Good(f, e, ord)
  PROVE  Good(f, e, o)
  <1>1. DOMAIN ord \subseteq DOMAIN o /\ \A d \in DOMAIN ord : o[d] = ord[d]
    BY OrderGrows
  <1>2. QED
    BY <1>1 DEF Good

LEMMA BeforeLater ==
  ASSUME NEW ord \in Seq(FrameSet), NEW x \in FrameSet, NEW o, o = Append(ord, x),
         NEW f, NEW g, Before(f, g, ord)
  PROVE  Before(f, g, o)
  <1>1. DOMAIN ord \subseteq DOMAIN o /\ \A d \in DOMAIN ord : o[d] = ord[d]
    BY OrderGrows
  <1>2. QED
    BY <1>1 DEF Before

LEMMA ReleasedLater ==
  ASSUME NEW ord \in Seq(FrameSet), NEW x \in FrameSet, NEW o, o = Append(ord, x),
         NEW f, NEW first, Released(f, ord, first)
  PROVE  Released(f, o, first)
  <1>1. DOMAIN ord \subseteq DOMAIN o /\ \A d \in DOMAIN ord : o[d] = ord[d]
    BY OrderGrows
  <1>2. QED
    BY <1>1 DEF Released

LEMMA LineLater ==
  ASSUME NEW ord \in Seq(FrameSet), NEW x \in FrameSet, NEW o, o = Append(ord, x),
         NEW s, NEW p, NEW first, InLine(s, p, ord, first)
  PROVE  InLine(s, p, o, first)
  <1>1. /\ \A f : Released(f, ord, first) => Released(f, o, first)
        /\ \A f, g : Before(f, g, ord) => Before(f, g, o)
    BY ReleasedLater, BeforeLater
  <1>2. QED
    BY <1>1 DEF InLine

(* Frames of wave items. *)
LEMMA GoodDescends ==
  ASSUME NEW T, NEW U, Descends(T, U), NEW ord, GoodThings(T, ord)
  PROVE  GoodThings(U, ord)
  <1> SUFFICES ASSUME NEW x \in U, x.q.ctrl = "none"
               PROVE  Good(FrameOf(x.q), x.q.epoch, ord)
    BY DEF GoodThings
  <1>1. PICK t \in T : /\ t.q.ctrl = "none" /\ t.q.epoch = x.q.epoch /\ t.q.id = x.q.id
                       /\ IsSyncFrame(x.q.kind) => FrameOf(x.q) = FrameOf(t.q)
    BY Zenon DEF Descends
  <1>2. Good(FrameOf(t.q), t.q.epoch, ord)
    BY <1>1 DEF GoodThings
  <1>3. FrameOf(x.q).id = x.q.id /\ FrameOf(x.q).kind = x.q.kind /\ FrameOf(t.q).id = t.q.id
    BY DEF FrameOf, Frame
  <1>4. QED
    BY <1>1, <1>2, <1>3 DEF Good

LEMMA GoodBegun ==
  ASSUME NEW ord \in Seq(FrameSet), NEW f \in FrameSet, NEW o, o = Append(ord, f),
         NEW T, NEW U, GoodThings(T, ord), NEW e, e = Len(ord) + 1, Begun(f, e, T, U)
  PROVE  GoodThings(U, o)
  <1>1. o[e] = f /\ e \in DOMAIN o
    BY OrderGrows
  <1>2. Good(f, e, o)
    BY <1>1 DEF Good
  <1>3. \A x \in T : x.q.ctrl = "none" => Good(FrameOf(x.q), x.q.epoch, o)
    BY GoodLater DEF GoodThings
  <1>4. QED
    BY <1>2, <1>3 DEF GoodThings, Begun

LEMMA GoodBufsLater ==
  ASSUME NEW ord \in Seq(FrameSet), NEW f \in FrameSet, NEW o, o = Append(ord, f),
         NEW bufs, GoodBufs(bufs, ord)
  PROVE  GoodBufs(bufs, o)
  <1>1. \A g, e : Good(g, e, ord) => Good(g, e, o)
    BY GoodLater
  <1>2. QED
    BY <1>1 DEF GoodBufs
-----------------------------------------------------------------------------
(* The client's frames and the order of the waves.                          *)
LEMMA ClientInvSame ==
  ASSUME ClientInv, inbox'[HeadNode] = inbox[HeadNode], sent' = sent,
         order'[HeadNode] = order[HeadNode], Waves' = Waves
  PROVE  ClientInv'
  BY DEF ClientInv

LEMMA FreshFewer ==
  ASSUME NEW in, NEW r, NEW ord, Fresh(in, ord),
         \A y \in Items(r) : y \in Items(in) \/ y.dir # "down"
  PROVE  Fresh(r, ord)
  BY DEF Fresh

LEMMA HeadIsItem ==
  ASSUME NEW in \in InboxSet(Wares), ~IsEmpty(in)
  PROVE  Front(in) \in Items(in) /\ Front(in) \in Wares
  <1>1. \A s \in Seq(Wares) : s # <<>> => 1 \in DOMAIN s /\ Head(s) = s[1] /\ s[1] \in Wares
    BY LenProperties, ElementOfSeq
  <1>2. in.sys \in Seq(Wares) /\ in.up \in Seq(Wares) /\ in.down \in Seq(Wares)
    BY DEF InboxSet
  <1>3. QED
    BY <1>1, <1>2 DEF Front, NextLane, IsEmpty, Items

(* The fan takes its first item, and begins a wave with it or not. *)
LEMMA ClientTaken ==
  ASSUME Flat, Typed, ClientInv, Handles(HeadNode), NEW p, Takes(HeadNode, p),
         FrameOf(Taken(HeadNode)) \in FrameSet,
         \/ WavesSame
         \/ BeginsWave(p, FrameOf(Taken(HeadNode))) /\ Taken(HeadNode).dir = "down"
  PROVE  ClientInv'
  <1>1. PICK n, in, k, ord, x : /\ n = HeadNode /\ in = inbox[n] /\ k = sent
                                /\ ord = order[n] /\ x = Taken(n)
    OBVIOUS
  <1>2. /\ n \in Nodes /\ in \in InboxSet(Wares) /\ ~IsEmpty(in) /\ x = Front(in)
        /\ inbox \in [Nodes -> InboxSet(Wares)]
    BY <1>1, FlatNodes, TakenTyping
  <1>3. /\ ord \in Seq(FrameSet) /\ order \in [Fans -> Seq(FrameSet)] /\ n \in Fans
        /\ fanSeq \in [Fans -> Nat]
    BY <1>1, OrderTyped DEF Typed
  <1>4. PICK r \in {PopFront(in), DrainInterruptible(PopFront(in))} : inbox'[n] = r
    BY <1>1, <1>2 DEF Takes
  <1>5. Queued(in, k) /\ Fresh(in, ord) /\ Numbered(ord, k) /\ Len(ord) = Waves
    BY <1>1 DEF ClientInv
  <1>6. r \in InboxSet(Wares) /\ TakenFrom(in, r)
    BY <1>2, TakenIs
  <1>7. Queued(r, k) /\ Items(r) \subseteq Items(in) /\ TakenOnce(in, r)
    BY <1>2, <1>5, <1>6, TakeQueued
  <1>8. Fresh(r, ord)
    BY <1>5, <1>7 DEF Fresh
  <1>9. sent' = k
    BY <1>1 DEF Takes
  <1>10. CASE WavesSame
    <2>1. order'[n] = ord /\ Waves' = Waves
      BY <1>1, <1>10 DEF WavesSame, Waves
    <2>2. QED
      BY <1>1, <1>4, <1>5, <1>7, <1>8, <1>9, <2>1 DEF ClientInv
  <1>11. CASE BeginsWave(p, FrameOf(x)) /\ x.dir = "down"
    <2>1. PICK f, o : f = FrameOf(x) /\ o = Append(ord, f)
      OBVIOUS
    <2>2. order'[n] = o /\ Waves' = Waves + 1
      BY <1>1, <1>3, <1>11, <2>1 DEF BeginsWave, Waves
    <2>3. f \in FrameSet /\ f.id = x.id
      BY <1>1, <2>1 DEF FrameOf, Frame
    <2>4. /\ \A e \in DOMAIN ord : o[e] = ord[e]
          /\ o[Len(ord) + 1] = f /\ DOMAIN o = DOMAIN ord \cup {Len(ord) + 1}
          /\ Len(ord) + 1 \notin DOMAIN ord /\ Len(o) = Len(ord) + 1
      BY <1>3, <2>1, <2>3, OrderGrows
    <2>5. x \in Items(in)
      BY <1>2, HeadIsItem
    <2>6. x.id \in 1..k /\ \A e \in DOMAIN ord : ord[e].id # x.id
      BY <1>5, <1>11, <2>5 DEF Queued, Fresh
    <2>7. Numbered(o, k)
      BY <1>5, <2>3, <2>4, <2>6 DEF Numbered
    <2>8. Fresh(r, o)
      BY <1>2, <1>7, <1>8, <1>11, <2>3, <2>4 DEF Fresh, TakenOnce
    <2>9. QED
      BY <1>1, <1>4, <1>5, <1>7, <1>9, <2>2, <2>4, <2>7, <2>8 DEF ClientInv
  <1>12. QED
    BY <1>1, <1>10, <1>11
(* What a node pushes to the fan goes up, and only the join sends to the    *)
(* sink.                                                                    *)
LEMMA PushedWhere ==
  ASSUME Flat, Typed, WaveInv, NEW n \in Nodes, NodePush(n), NEW p, p = Head(out[n])
  PROVE  /\ p \in PushSet /\ p.q \in Wares
         /\ p.to = HeadNode => p.q.dir = "up"
         /\ p.to = "sink" => n = TheJoin
  <1>1. PICK s \in Seq(PushSet) : s = out[n] /\ s # <<>>
    BY DEF NodePush, Typed
  <1>2. p = s[1] /\ 1 \in DOMAIN s /\ p \in PushSet
    BY <1>1, TailThins, ElementOfSeq, LenProperties
  <1>3. MayLeave(n, p, Waves)
    BY <1>1, <1>2 DEF WaveInv, Places, NodeFine, Waves
  <1>4. p.q \in Wares /\ (p.to = "sink" => p.q.dir = "down")
    BY <1>2 DEF PushSet
  <1>5. ASSUME ~Untagged(p.q)
        PROVE  p.to \in Nodes /\ p.to # HeadNode
    <2>1. PICK b : b = BranchAt(n, p.q)
      OBVIOUS
    <2>2. Tagged(p.q, Waves) /\ n # TheJoin /\ b \in 1..Branches /\ p.to = Target(n, b)
      BY <1>3, <1>5, <2>1 DEF MayLeave
    <2>3. Passes(n, b)
      BY <2>1, <2>2, FlatNodes DEF Passes, InChain, BranchAt
    <2>4. QED
      BY <2>2, <2>3, Targets
  <1>6. "sink" \notin Nodes /\ HeadNode \in Nodes
    BY Topology
  <1>7. CASE Untagged(p.q)
    <2>1. p.q.dir = "up" \/ (n = TheJoin /\ p.to = "sink")
      BY <1>3, <1>7, TagsDiffer DEF MayLeave
    <2>2. "up" # "down"
      OBVIOUS
    <2>3. QED
      BY <1>2, <1>4, <1>6, <2>1, <2>2, Zenon
  <1>8. QED
    BY <1>2, <1>4, <1>5, <1>6, <1>7, Zenon

LEMMA ClientPushed ==
  ASSUME Flat, Typed, WaveInv, ClientInv, NEW n \in Nodes, NodePush(n)
  PROVE  ClientInv'
  <1>1. PICK p, h : p = Head(out[n]) /\ h = HeadNode
    OBVIOUS
  <1>2. p \in PushSet /\ p.q \in Wares /\ (p.to = h => p.q.dir = "up") /\ h \in Nodes
    BY <1>1, PushedWhere, FlatNodes
  <1>3. order' = order /\ sent' = sent /\ Waves' = Waves
    BY DEF NodePush, Waves
  <1>4. CASE p.to # h
    <2>1. inbox'[h] = inbox[h]
      BY <1>1, <1>2, <1>4 DEF NodePush, Typed
    <2>2. QED
      BY <1>1, <1>3, <2>1, ClientInvSame
  <1>5. CASE p.to = h
    <2>1. PICK in, k, ord : in = inbox[h] /\ k = sent /\ ord = order[h]
      OBVIOUS
    <2>2. in \in InboxSet(Wares) /\ k \in Nat
      BY <1>2, <2>1, Topology DEF Typed
    <2>3. PICK r : r = Enqueue(in, p.q)
      OBVIOUS
    <2>4. inbox'[h] = r
      BY <1>1, <1>2, <1>5, <2>1, <2>3, Topology DEF NodePush, Typed
    <2>5. Queued(in, k) /\ Fresh(in, ord)
      BY <1>1, <2>1 DEF ClientInv
    <2>6. PutIn(in, p.q, r)
      BY <1>2, <2>2, <2>3, PutIs
    <2>7. p.q.ctrl = "none" /\ p.q.dir # "down"
      BY <1>2, <1>5, FramesOfItems
    <2>8. Queued(r, k) /\ Items(r) \subseteq Items(in) \cup {p.q}
      <3>1. PICK q : q = p.q
        OBVIOUS
      <3>2. /\ q \in Wares /\ q.ctrl = "none" /\ PutIn(in, q, r) /\ k <= k
            /\ q.dir = "down" => q.id \in 1..k /\ q.id > k /\ q.kind = Script[q.id]
        BY <1>2, <2>2, <2>6, <2>7, <3>1
      <3>3. QED
        BY <2>2, <2>5, <3>1, <3>2, PutQueued
    <2>9. Fresh(r, ord)
      BY <2>5, <2>7, <2>8 DEF Fresh
    <2>10. QED
      BY <1>1, <1>3, <2>1, <2>4, <2>8, <2>9 DEF ClientInv
  <1>6. QED
    BY <1>4, <1>5

LEMMA ClientQueues ==
  ASSUME Flat, Typed, ClientInv, ClientPush
  PROVE  ClientInv'
  <1>1. PICK h, q : /\ h = HeadNode
                    /\ q = DownItem(Frame(Script[sent + 1], sent + 1, "client"), 0, NoFan, 0)
    OBVIOUS
  <1>2. PICK in, k, ord : in = inbox[h] /\ k = sent /\ ord = order[h]
    OBVIOUS
  <1>3. in \in InboxSet(Wares) /\ k \in Nat /\ h \in Nodes /\ k + 1 \in 1..Len(Script)
    BY <1>1, <1>2, Topology DEF Typed, ClientPush
  <1>4. q \in Wares
    <2>1. Script[k + 1] \in FrameKinds
      BY <1>3, Topology
    <2>2. Frame(Script[k + 1], k + 1, "client") \in FrameSet
      BY <1>3, <2>1 DEF Frame, FrameSet
    <2>3. QED
      BY <1>1, <1>2, <2>2, FramesOfItems
  <1>5. q.ctrl = "none" /\ q.id = k + 1 /\ q.kind = Script[k + 1]
    BY <1>1, <1>2 DEF DownItem, Item, Frame
  <1>6. PICK r : r = Enqueue(in, q)
    OBVIOUS
  <1>7. inbox'[h] = r /\ sent' = k + 1 /\ order' = order /\ Waves' = Waves
    BY <1>1, <1>2, <1>3, <1>6 DEF ClientPush, Waves, Typed
  <1>8. PutIn(in, q, r)
    BY <1>3, <1>4, <1>6, PutIs
  <1>9. Queued(in, k) /\ Fresh(in, ord) /\ Numbered(ord, k) /\ Len(ord) = Waves
    BY <1>1, <1>2 DEF ClientInv
  <1>10. Queued(r, k + 1) /\ Items(r) \subseteq Items(in) \cup {q}
    <2>1. PICK l : l = k + 1
      OBVIOUS
    <2>2. /\ l \in Nat /\ k <= l
          /\ q.dir = "down" => q.id \in 1..l /\ q.id > k /\ q.kind = Script[q.id]
      BY <1>3, <1>5, <2>1
    <2>3. QED
      BY <1>3, <1>4, <1>5, <1>8, <1>9, <2>1, <2>2, PutQueued
  <1>11. Numbered(ord, k + 1) /\ \A e \in DOMAIN ord : ord[e].id # k + 1
    BY <1>3, <1>9 DEF Numbered
  <1>12. Fresh(r, ord)
    BY <1>5, <1>9, <1>10, <1>11 DEF Fresh
  <1>13. QED
    BY <1>1, <1>2, <1>7, <1>9, <1>10, <1>11, <1>12 DEF ClientInv
-----------------------------------------------------------------------------
(* The frames of a wave, on their way and in the join's buffers.            *)
LEMMA FrameInvKept ==
  ASSUME FrameInv, Descends(Things(inbox, out), Things(inbox', out')),
         order'[HeadNode] = order[HeadNode], epochs'[TheJoin] = epochs[TheJoin]
  PROVE  FrameInv'
  <1>1. GoodThings(Things(inbox', out'), order[HeadNode])
    BY GoodDescends DEF FrameInv
  <1>2. QED
    BY <1>1 DEF FrameInv

LEMMA FrameInvBegun ==
  ASSUME Flat, Typed, ClientInv, FrameInv, NEW p, NEW f \in FrameSet, BeginsWave(p, f),
         Begun(f, Waves + 1, Things(inbox, out), Things(inbox', out'))
  PROVE  FrameInv'
  <1>1. PICK ord, o, T, U, bufs : /\ ord = order[HeadNode] /\ o = Append(ord, f)
                                  /\ T = Things(inbox, out) /\ U = Things(inbox', out')
                                  /\ bufs = epochs[TheJoin]
    OBVIOUS
  <1>2. ord \in Seq(FrameSet) /\ Len(ord) = Waves
    BY <1>1, OrderTyped DEF ClientInv
  <1>3. order'[HeadNode] = o /\ epochs'[TheJoin] = bufs
    BY <1>1, OrderTyped DEF BeginsWave
  <1>4. GoodThings(T, ord) /\ GoodBufs(bufs, ord)
    BY <1>1 DEF FrameInv
  <1>5. Begun(f, Len(ord) + 1, T, U)
    BY <1>1, <1>2
  <1>6. GoodThings(U, o)
    BY <1>1, <1>2, <1>4, <1>5, GoodBegun
  <1>7. GoodBufs(bufs, o)
    BY <1>1, <1>2, <1>4, GoodBufsLater
  <1>8. QED
    BY <1>1, <1>3, <1>6, <1>7 DEF FrameInv

(* What the join takes of a wave is good, and so is what it keeps with it.  *)
LEMMA TakenIsGood ==
  ASSUME Flat, Typed, FrameInv, Handles(TheJoin), NEW q, q = Taken(TheJoin),
         Tagged(q, Waves), q.ctrl = "none"
  PROVE  Good(FrameOf(q), q.epoch, order[HeadNode])
  <1>1. PICK n, x : n = TheJoin /\ x = [n |-> n, h |-> 0, q |-> q]
    OBVIOUS
  <1>2. n \in Nodes /\ inbox[n] \in InboxSet(Wares) /\ ~IsEmpty(inbox[n]) /\ q = Front(inbox[n])
    BY <1>1, FlatNodes, TakenTyping
  <1>3. q \in Items(inbox[n]) /\ q \in Wares
    BY <1>2, HeadIsItem
  <1>4. x \in Things(inbox, out) /\ x.q = q
    BY <1>1, <1>2, <1>3 DEF Things, At, Tagged
  <1>5. QED
    BY <1>4 DEF FrameInv, GoodThings

LEMMA BufsGood ==
  ASSUME Flat, Typed, FrameInv, Handles(TheJoin), Tagged(Taken(TheJoin), Waves)
  PROVE  GoodBufs(Bufs(TheJoin), order[HeadNode])
  <1>1. PICK n, q, ord : n = TheJoin /\ q = Taken(n) /\ ord = order[HeadNode]
    OBVIOUS
  <1>2. n \in Joins /\ n \in Nodes /\ q \in Wares
    BY <1>1, FlatNodes, TakenTyping
  <1>3. q.dir = "down" /\ q.epoch # 0
    BY <1>1, OrderTyped DEF Tagged
  <1>4. PICK b, c : b = Buf(n, q.epoch) /\ c = Buffered(n, q)
    OBVIOUS
  <1>5. b \in BufferSet(n) /\ c \in BufferSet(n)
    BY <1>2, <1>3, <1>4, BufferedTyped
  <1>6. \A i \in 1..Branches : \A j \in DOMAIN b.per[i] : Good(b.per[i][j], q.epoch, ord)
    BY <1>1, <1>4 DEF Buf, NoBuf, FrameInv, GoodBufs, Branches
  <1>7. \A i \in 1..Branches : \A j \in DOMAIN c.per[i] : Good(c.per[i][j], q.epoch, ord)
    <2>1. CASE q.branch \notin 1..Width[n]
      BY <1>4, <1>6, <2>1 DEF Buffered
    <2>2. CASE q.branch \in 1..Width[n] /\ q.ctrl = "barrier"
      BY <1>4, <1>5, <1>6, <2>2 DEF Buffered, BufferSet
    <2>3. CASE q.branch \in 1..Width[n] /\ q.ctrl # "barrier"
      <3>1. q.ctrl = "none"
        BY <1>2, <2>3 DEF Wares, ItemSet
      <3>2. Good(FrameOf(q), q.epoch, ord)
        BY <1>1, <3>1, TakenIsGood
      <3>3. PICK per : per = b.per
        OBVIOUS
      <3>4. per \in [1..Width[n] -> Seq(FrameSet)]
        BY <1>5, <3>3 DEF BufferSet
      <3>5. c.per = [per EXCEPT ![q.branch] = Append(@, FrameOf(q))]
        BY <1>4, <1>5, <2>3, <3>3 DEF Buffered, BufferSet
      <3>6. FrameOf(q) \in FrameSet
        BY <1>2, <3>1, FramesOfItems
      <3>7. per[q.branch] \in Seq(FrameSet)
        BY <2>3, <3>4
      <3>8. \A j \in DOMAIN Append(per[q.branch], FrameOf(q)) :
              Good(Append(per[q.branch], FrameOf(q))[j], q.epoch, ord)
        <4>1. \A j \in DOMAIN Append(per[q.branch], FrameOf(q)) :
                \/ /\ j \in DOMAIN per[q.branch]
                   /\ Append(per[q.branch], FrameOf(q))[j] = per[q.branch][j]
                \/ Append(per[q.branch], FrameOf(q))[j] = FrameOf(q)
          BY <3>6, <3>7, AppendIs
        <4>2. Branches = Width[n]
          BY <1>1 DEF Branches
        <4>3. QED
          BY <1>6, <2>3, <3>2, <3>3, <4>1, <4>2
      <3>9. c.per[q.branch] = Append(per[q.branch], FrameOf(q))
            /\ \A i \in 1..Width[n] : i # q.branch => c.per[i] = per[i]
        BY <2>3, <3>4, <3>5
      <3>10. QED
        BY <1>1, <1>6, <3>3, <3>8, <3>9 DEF Branches
    <2>4. QED
      BY <2>1, <2>2, <2>3
  <1>8. \A e \in DOMAIN Bufs(n) :
          \/ e = q.epoch /\ Bufs(n)[e] = c
          \/ e \in DOMAIN epochs[n] /\ Bufs(n)[e] = epochs[n][e]
    BY <1>1, <1>4 DEF Bufs
  <1>9. GoodBufs(epochs[n], ord)
    BY <1>1 DEF FrameInv
  <1>10. QED
    BY <1>1, <1>7, <1>8, <1>9 DEF GoodBufs

LEMMA FrameInvTaken ==
  ASSUME Flat, Typed, FrameInv, Handles(TheJoin), Tagged(Taken(TheJoin), Waves),
         NEW p, JoinTakes(p), Descends(Things(inbox, out), Things(inbox', out'))
  PROVE  FrameInv'
  <1>1. GoodBufs(Bufs(TheJoin), order[HeadNode])
    BY BufsGood
  <1>2. GoodThings(Things(inbox', out'), order[HeadNode])
    BY GoodDescends DEF FrameInv
  <1>3. PICK bufs, done : bufs = Bufs(TheJoin) /\ done = Ready(TheJoin)
    OBVIOUS
  <1>4. epochs'[TheJoin] = [e \in DOMAIN bufs \ done |-> bufs[e]] /\ order' = order
    BY <1>3, FlatNodes DEF JoinTakes, Typed, EpochsTyped
  <1>5. GoodBufs([e \in DOMAIN bufs \ done |-> bufs[e]], order[HeadNode])
    BY <1>1, <1>3 DEF GoodBufs
  <1>6. QED
    BY <1>2, <1>4, <1>5 DEF FrameInv
-----------------------------------------------------------------------------
(* What has reached the sink and what the join sends there.                 *)
LEMMA LineOfUpstream ==
  ASSUME NEW s, NEW ord, NEW first, InLine(s, <<>>, ord, first),
         NEW p, AtSink(p) = {}
  PROVE  InLine(s, p, ord, first)
  BY DEF InLine

LEMMA NoneToSink ==
  ASSUME NEW p \in Seq(PushSet), \A i \in DOMAIN p : GoesUp(p[i])
  PROVE  AtSink(p) = {}
  <1>1. \A i \in DOMAIN p : p[i] \in PushSet
    BY ElementOfSeq, LenProperties
  <1>2. QED
    BY <1>1 DEF AtSink, GoesUp, PushSet

(* One push of the join. *)
LEMMA LineShift ==
  ASSUME NEW s \in Seq(FrameSet), NEW p \in Seq(PushSet), p # <<>>, NEW ord, NEW first,
         InLine(s, p, ord, first),
         NEW t, p[1].to = "sink" => t = Append(s, FrameOf(p[1].q)), p[1].to # "sink" => t = s
  PROVE  InLine(t, Tail(p), ord, first)
  <1>1. PICK r : r = Tail(p)
    OBVIOUS
  <1>2. /\ 1 \in DOMAIN p /\ p[1] \in PushSet
        /\ \A i \in DOMAIN r : i + 1 \in DOMAIN p /\ i + 1 > 1 /\ r[i] = p[i + 1]
    BY <1>1, TailThins, ElementOfSeq, LenProperties
  <1>3. \A i \in DOMAIN r : i \in Int
    <2>1. r \in Seq(PushSet)
      BY <1>1, TailThins
    <2>2. QED
      BY <2>1, LenProperties
  <1>4. \A i \in AtSink(r) : i + 1 \in AtSink(p) /\ 1 < i + 1 /\ r[i] = p[i + 1]
    BY <1>2, <1>3 DEF AtSink
  <1>5. \A i, j \in AtSink(r) : i < j => i + 1 < j + 1
    BY <1>3 DEF AtSink
  <1>6. CASE p[1].to # "sink"
    BY <1>1, <1>4, <1>5, <1>6 DEF InLine
  <1>7. CASE p[1].to = "sink"
    <2>1. PICK f : f = FrameOf(p[1].q)
      OBVIOUS
    <2>2. f \in FrameSet /\ 1 \in AtSink(p)
      BY <1>2, <1>7, <2>1, FramesOfItems DEF PushSet, AtSink
    <2>3. /\ \A i \in DOMAIN t : (i \in DOMAIN s /\ t[i] = s[i]) \/ (i \notin DOMAIN s /\ t[i] = f)
          /\ \A i, j \in DOMAIN t : i < j => i \in DOMAIN s
      BY <1>7, <2>1, <2>2, AppendIs
    <2>4. \A i \in DOMAIN t : Released(t[i], ord, first)
      BY <2>1, <2>2, <2>3 DEF InLine
    <2>5. \A i, j \in DOMAIN t : i < j => Before(t[i], t[j], ord)
      BY <2>1, <2>2, <2>3 DEF InLine
    <2>6. \A i \in DOMAIN t : \A j \in AtSink(r) : Before(t[i], FrameOf(r[j].q), ord)
      BY <1>4, <2>1, <2>2, <2>3 DEF InLine
    <2>7. QED
      BY <1>1, <1>4, <1>5, <2>4, <2>5, <2>6 DEF InLine
  <1>8. QED
    BY <1>6, <1>7

(* What the join sends of the waves from first to first + c - 1.            *)
MergedLine(frames, ord, first, c) ==
  /\ \A i \in DOMAIN frames : \E e \in DOMAIN ord :
       first <= e /\ e < first + c /\ frames[i].id = ord[e].id
  /\ \A i, j \in DOMAIN frames : i < j => Before(frames[i], frames[j], ord)

LEMMA LineGrows ==
  ASSUME NEW s, NEW ord \in Seq(FrameSet), NEW first \in Nat, NEW c \in Nat,
         InLine(s, <<>>, ord, first), NEW p, NEW frames, SentOut(p, frames),
         MergedLine(frames, ord, first, c)
  PROVE  InLine(s, p, ord, first + c)
  <1>1. \A e \in DOMAIN ord : e \in Int
    BY LenProperties
  <1>2. \A f : Released(f, ord, first) => Released(f, ord, first + c)
    BY <1>1 DEF Released
  <1>3. \A i \in AtSink(p) : \E e \in DOMAIN ord :
          first <= e /\ e < first + c /\ FrameOf(p[i].q).id = ord[e].id
    BY DEF SentOut, MergedLine, AtSink
  <1>4. \A i, j \in AtSink(p) : i < j => Before(FrameOf(p[i].q), FrameOf(p[j].q), ord)
    BY DEF SentOut, MergedLine, AtSink
  <1>5. \A i \in DOMAIN s : Released(s[i], ord, first)
    BY DEF InLine
  <1>6. ASSUME NEW i \in DOMAIN s, NEW j \in AtSink(p)
        PROVE  Before(s[i], FrameOf(p[j].q), ord)
    <2>1. PICK d \in DOMAIN ord : d < first /\ s[i].id = ord[d].id
      BY <1>5, <1>6 DEF Released
    <2>2. PICK e \in DOMAIN ord : first <= e /\ FrameOf(p[j].q).id = ord[e].id
      BY <1>3, <1>6
    <2>3. d < e /\ d # e /\ d <= e
      BY <1>1, <2>1, <2>2
    <2>4. QED
      BY <2>1, <2>2, <2>3 DEF Before
  <1>7. \A i \in DOMAIN s : Released(s[i], ord, first + c)
    BY <1>2, <1>5
  <1>8. \A i \in AtSink(p) : Released(FrameOf(p[i].q), ord, first + c)
    BY <1>3 DEF Released
  <1>9. \A i, j \in DOMAIN s : i < j => Before(s[i], s[j], ord)
    BY DEF InLine
  <1>10. QED
    BY <1>4, <1>6, <1>7, <1>8, <1>9 DEF InLine
(* The merged waves are in line: a frame of an earlier wave is before one   *)
(* of a later wave, and inside a wave sync frames are in their places.      *)
LEMMA MergesInLine ==
  ASSUME Flat, NEW ms, NEW first \in Nat, NEW c \in Nat, NEW bufs, NEW ord,
         DOMAIN ms = 1..c,
         \A i \in DOMAIN ms : /\ first + i - 1 \in DOMAIN bufs
                              /\ MergeOf(ms[i], bufs[first + i - 1].per, Branches),
         GoodBufs(bufs, ord), NEW frames, RowOf(frames, ms)
  PROVE  MergedLine(frames, ord, first, c)
  <1>1. ASSUME NEW i \in DOMAIN ms, NEW e, e = first + i - 1
        PROVE  /\ \A p \in DOMAIN ms[i] : Good(ms[i][p], e, ord)
               /\ SyncsPlaced(ms[i])
               /\ \A p, q \in DOMAIN ms[i] : p < q => ms[i][p] # ms[i][q]
    <2>1. PICK x, per : x = ms[i] /\ per = bufs[e].per
      OBVIOUS
    <2>2. e \in DOMAIN bufs /\ MergeOf(x, per, Branches)
      BY <1>1, <2>1
    <2>3. \A b \in 1..Branches : \A j \in DOMAIN per[b] : Good(per[b][j], e, ord)
      BY <2>1, <2>2 DEF GoodBufs
    <2>4. \A p \in DOMAIN x : \E b \in 1..Branches : \E j \in DOMAIN per[b] : x[p] = per[b][j]
      BY <2>2 DEF MergeOf
    <2>5. \A p \in DOMAIN x : Good(x[p], e, ord)
      BY <2>3, <2>4
    <2>6. OneSyncIn(per, Branches)
      <3>1. \A a \in 1..Branches : \A j \in DOMAIN per[a] :
              IsSyncFrame(per[a][j].kind) => per[a][j] = ord[e]
        BY <2>3, Zenon DEF Good
      <3>2. QED
        BY <3>1, Zenon DEF OneSyncIn
    <2>7. SyncsPlaced(x) /\ x \in Seq(FrameSet)
      BY <2>2, <2>6 DEF MergeOf
    <2>8. \A p, q \in DOMAIN x : p < q => p # q
      BY <2>7, LenProperties
    <2>9. \A p, q \in DOMAIN x : p # q => x[p] # x[q]
      BY <2>2 DEF MergeOf
    <2>10. QED
      BY <2>1, <2>5, <2>7, <2>8, <2>9
  <1>2. \A i \in DOMAIN ms : \A p \in DOMAIN ms[i] : Good(ms[i][p], first + i - 1, ord)
    BY <1>1
  <1>3. \A i \in DOMAIN ms : i \in Int /\ first <= first + i - 1 /\ first + i - 1 < first + c
    OBVIOUS
  <1>4. ASSUME NEW j \in DOMAIN frames
        PROVE  \E e \in DOMAIN ord :
                 first <= e /\ e < first + c /\ frames[j].id = ord[e].id
    <2>1. PICK i \in DOMAIN ms : \E p \in DOMAIN ms[i] : frames[j] = ms[i][p]
      BY <1>4 DEF RowOf
    <2>2. PICK e : e = first + i - 1
      OBVIOUS
    <2>3. Good(frames[j], e, ord)
      BY <1>2, <2>1, <2>2
    <2>4. first <= e /\ e < first + c
      BY <1>3, <2>2
    <2>5. QED
      BY <2>3, <2>4 DEF Good
  <1>5. ASSUME NEW x, NEW y, InRow(ms, x, y)
        PROVE  Before(x, y, ord)
    <2>1. PICK a \in DOMAIN ms, b \in DOMAIN ms : \E p \in DOMAIN ms[a], q \in DOMAIN ms[b] :
            x = ms[a][p] /\ y = ms[b][q] /\ (a < b \/ (a = b /\ p < q))
      BY <1>5 DEF InRow
    <2>2. PICK p \in DOMAIN ms[a], q \in DOMAIN ms[b] :
            x = ms[a][p] /\ y = ms[b][q] /\ (a < b \/ (a = b /\ p < q))
      BY <2>1
    <2>3. PICK d, e : d = first + a - 1 /\ e = first + b - 1
      OBVIOUS
    <2>4. Good(x, d, ord) /\ Good(y, e, ord)
      BY <1>2, <2>2, <2>3
    <2>5. d \in DOMAIN ord /\ x.id = ord[d].id /\ e \in DOMAIN ord /\ y.id = ord[e].id
      BY <2>4 DEF Good
    <2>6. CASE a < b
      <3>1. d <= e /\ d # e
        BY <1>3, <2>3, <2>6
      <3>2. QED
        BY <2>5, <3>1 DEF Before
    <2>7. CASE a = b /\ p < q
      <3>1. x # y
        BY <1>1, <2>2, <2>7
      <3>2. SyncsPlaced(ms[a])
        BY <1>1
      <3>3. x.kind \notin {"End", "Cancel"} /\ y.kind # "Start"
        BY <2>2, <2>7, <3>2 DEF SyncsPlaced
      <3>4. d = e /\ d <= e
        BY <1>3, <2>3, <2>7
      <3>5. QED
        BY <2>5, <3>1, <3>3, <3>4 DEF Before
    <2>8. QED
      BY <2>2, <2>6, <2>7
  <1>6. \A i, j \in DOMAIN frames : i < j => Before(frames[i], frames[j], ord)
    BY <1>5 DEF RowOf
  <1>7. QED
    BY <1>4, <1>6 DEF MergedLine

LEMMA LineTaken ==
  ASSUME Flat, Typed, FrameInv, LineInv, Handles(TheJoin), Tagged(Taken(TheJoin), Waves),
         NEW p, Takes(TheJoin, p), JoinTakes(p)
  PROVE  LineInv'
  <1>1. PICK n, ord, first, c, s, frames, ms, bufs :
          /\ n = TheJoin /\ ord = order[HeadNode] /\ first = next[n] /\ s = arrived
          /\ ms = Merges(n) /\ c = Cardinality(Ready(n)) /\ bufs = Bufs(n)
          /\ frames = Seqs!FlattenSeq(ms)
    OBVIOUS
  <1>2. /\ n \in Joins /\ n \in Nodes /\ Taken(n) \in Wares /\ CanTake(n) /\ out[n] = <<>>
        /\ out \in [Nodes -> Seq(PushSet)] /\ next \in [Joins -> Nat \ {0}]
    BY <1>1, FlatNodes, TakenTyping DEF Handles, Typed
  <1>3. Taken(n).dir = "down" /\ Taken(n).epoch # 0
    BY <1>1, OrderTyped DEF Tagged
  <1>4. first \in Nat /\ ord \in Seq(FrameSet)
    BY <1>1, <1>2, OrderTyped
  <1>5. /\ DOMAIN ms = 1..c /\ c \in Nat /\ frames \in Seq(FrameSet) /\ RowOf(frames, ms)
        /\ \A i \in DOMAIN ms : /\ first + i - 1 \in DOMAIN bufs
                                /\ MergeOf(ms[i], bufs[first + i - 1].per, Branches)
    <2>1. Ready(n) \subseteq DOMAIN bufs /\ c \in Nat
      BY <1>1, <1>2, <1>3, BufsTyped
    <2>2. /\ DOMAIN ms = 1..c /\ frames \in Seq(FrameSet) /\ RowOf(frames, ms)
          /\ \A i \in DOMAIN ms : /\ first + i - 1 \in Ready(n)
                                  /\ MergeOf(ms[i], bufs[first + i - 1].per, Width[n])
      BY <1>1, <1>2, <1>3, MergesTyped
    <2>3. QED
      BY <1>1, <2>1, <2>2 DEF Branches
  <1>6. GoodBufs(bufs, ord)
    BY <1>1, BufsGood
  <1>7. MergedLine(frames, ord, first, c)
    BY <1>4, <1>5, <1>6, MergesInLine
  <1>8. p = Sends(n, frames) /\ SentOut(p, frames)
    BY <1>1, <1>5, SendsIs DEF JoinTakes
  <1>9. InLine(s, <<>>, ord, first)
    BY <1>1, <1>2 DEF LineInv
  <1>10. InLine(s, p, ord, first + c)
    BY <1>4, <1>5, <1>7, <1>8, <1>9, LineGrows
  <1>11. out'[n] = p /\ arrived' = s /\ order' = order /\ next'[n] = first + c
    BY <1>1, <1>2 DEF Takes, JoinTakes
  <1>12. QED
    BY <1>1, <1>10, <1>11 DEF LineInv
LEMMA LinePushed ==
  ASSUME Flat, Typed, WaveInv, LineInv, NEW n \in Nodes, NodePush(n)
  PROVE  LineInv'
  <1>1. PICK j, p, s, ord, first : /\ j = TheJoin /\ p = out[n] /\ s = arrived
                                   /\ ord = order[HeadNode] /\ first = next[j]
    OBVIOUS
  <1>2. /\ p \in Seq(PushSet) /\ p # <<>> /\ s \in Seq(FrameSet) /\ j \in Nodes
        /\ out \in [Nodes -> Seq(PushSet)]
    BY <1>1, FlatNodes DEF NodePush, Typed
  <1>3. Head(p) = p[1]
    BY <1>2, TailThins
  <1>4. /\ order' = order /\ next' = next /\ out' = [out EXCEPT ![n] = Tail(p)]
    BY <1>1 DEF NodePush
  <1>5. InLine(s, out[j], ord, first)
    BY <1>1 DEF LineInv
  <1>6. /\ p[1].to = "sink" => arrived' = Append(s, FrameOf(p[1].q))
        /\ p[1].to # "sink" => arrived' = s
    BY <1>1, <1>3, Topology DEF NodePush
  <1>7. CASE n = j
    <2>1. InLine(arrived', Tail(p), ord, first)
      <3>1. PICK t : t = arrived'
        OBVIOUS
      <3>2. /\ InLine(s, p, ord, first)
            /\ p[1].to = "sink" => t = Append(s, FrameOf(p[1].q))
            /\ p[1].to # "sink" => t = s
        BY <1>1, <1>5, <1>6, <1>7, <3>1
      <3>3. QED
        BY <1>2, <3>1, <3>2, LineShift
    <2>2. out'[j] = Tail(p)
      BY <1>2, <1>4, <1>7
    <2>3. QED
      BY <1>1, <1>4, <2>1, <2>2 DEF LineInv
  <1>8. CASE n # j
    <2>1. p[1].to # "sink"
      BY <1>1, <1>3, <1>8, PushedWhere
    <2>2. arrived' = s /\ out'[j] = out[j]
      BY <1>2, <1>4, <1>6, <1>8, <2>1
    <2>3. QED
      BY <1>1, <1>4, <1>5, <2>2 DEF LineInv
  <1>9. QED
    BY <1>7, <1>8

LEMMA LineSame ==
  ASSUME LineInv, arrived' = arrived, out'[TheJoin] = out[TheJoin],
         order'[HeadNode] = order[HeadNode], next'[TheJoin] = next[TheJoin]
  PROVE  LineInv'
  BY DEF LineInv

(* All together. *)
HistoryInv == ClientInv /\ FrameInv /\ LineInv

LEMMA FanHistory ==
  ASSUME Flat, Typed, WaveInv, HistoryInv, Handles(HeadNode)
  PROVE  HistoryInv'
  <1>1. PICK f : f = FrameOf(Taken(HeadNode))
    OBVIOUS
  <1>2. PICK p \in Seq(PushSet) :
          /\ Takes(HeadNode, p)
          /\ \/ WavesSame /\ Descends(Things(inbox, out), Things(inbox', out'))
             \/ /\ BeginsWave(p, f) /\ Taken(HeadNode).dir = "down"
                /\ Begun(f, Waves + 1, Things(inbox, out), Things(inbox', out'))
    BY <1>1, FanStep
  <1>3. HeadNode \in Nodes /\ TheJoin \in Nodes /\ HeadNode # TheJoin
    BY FlatNodes
  <1>4. f \in FrameSet
    <2>1. MayWait(HeadNode, Taken(HeadNode), Waves) /\ Taken(HeadNode) \in Wares
      BY <1>3, TakenMayWait, TakenTyping DEF WaveInv
    <2>2. Taken(HeadNode).ctrl = "none"
      BY <2>1 DEF MayWait, Untagged
    <2>3. QED
      BY <1>1, <2>1, <2>2, FramesOfItems
  <1>5. ClientInv'
    BY <1>1, <1>2, <1>4, ClientTaken DEF HistoryInv
  <1>6. arrived' = arrived /\ out'[TheJoin] = out[TheJoin]
    BY <1>2, <1>3 DEF Takes, Typed
  <1>7. CASE WavesSame /\ Descends(Things(inbox, out), Things(inbox', out'))
    <2>1. FrameInv'
      BY <1>7, FrameInvKept DEF HistoryInv, WavesSame
    <2>2. LineInv'
      BY <1>6, <1>7, LineSame DEF HistoryInv, WavesSame
    <2>3. QED
      BY <1>5, <2>1, <2>2 DEF HistoryInv
  <1>8. CASE /\ BeginsWave(p, f)
             /\ Begun(f, Waves + 1, Things(inbox, out), Things(inbox', out'))
    <2>1. FrameInv'
      BY <1>4, <1>8, FrameInvBegun DEF HistoryInv
    <2>2. LineInv'
      <3>1. PICK ord, o, s, r, first : /\ ord = order[HeadNode] /\ o = Append(ord, f)
                                       /\ s = arrived /\ r = out[TheJoin] /\ first = next[TheJoin]
        OBVIOUS
      <3>2. order'[HeadNode] = o /\ next' = next
        BY <1>8, <3>1, OrderTyped DEF BeginsWave
      <3>3. InLine(s, r, ord, first) /\ ord \in Seq(FrameSet)
        BY <3>1, OrderTyped DEF HistoryInv, LineInv
      <3>4. InLine(s, r, o, first)
        BY <1>4, <3>1, <3>3, LineLater
      <3>5. QED
        BY <1>6, <3>1, <3>2, <3>4 DEF LineInv
    <2>3. QED
      BY <1>5, <2>1, <2>2 DEF HistoryInv
  <1>9. QED
    BY <1>2, <1>7, <1>8

LEMMA OtherClientInv ==
  ASSUME Flat, Typed, ClientInv, NEW n \in Nodes, n # HeadNode, NEW p, Takes(n, p),
         UNCHANGED <<fanSeq, order>>
  PROVE  ClientInv'
  <1>1. inbox'[HeadNode] = inbox[HeadNode] /\ sent' = sent
    BY FlatNodes DEF Takes, Typed
  <1>2. QED
    BY <1>1, ClientInvSame DEF Waves

LEMMA JoinHistory ==
  ASSUME Flat, Typed, WaveInv, HistoryInv, Handles(TheJoin)
  PROVE  HistoryInv'
  <1>1. Descends(Things(inbox, out), Things(inbox', out'))
    BY JoinStep
  <1>2. PICK p : /\ Takes(TheJoin, p)
                 /\ \/ (\A i \in DOMAIN p : GoesUp(p[i])) /\ WavesSame /\ p \in Seq(PushSet)
                    \/ JoinTakes(p) /\ Tagged(Taken(TheJoin), Waves)
    BY JoinStep
  <1>3. TheJoin \in Nodes /\ HeadNode # TheJoin
    BY FlatNodes
  <1>4. CASE (\A i \in DOMAIN p : GoesUp(p[i])) /\ WavesSame /\ p \in Seq(PushSet)
    <2>1. ClientInv'
      BY <1>2, <1>3, <1>4, OtherClientInv DEF HistoryInv, WavesSame
    <2>2. FrameInv'
      BY <1>1, <1>4, FrameInvKept DEF HistoryInv, WavesSame
    <2>3. out[TheJoin] = <<>> /\ out'[TheJoin] = p /\ arrived' = arrived
      BY <1>2, <1>3, TakenTyping DEF Takes
    <2>4. LineInv'
      <3>1. PICK s, ord, first : s = arrived /\ ord = order[HeadNode] /\ first = next[TheJoin]
        OBVIOUS
      <3>2. InLine(s, <<>>, ord, first) /\ AtSink(p) = {}
        BY <1>4, <2>3, <3>1, NoneToSink DEF HistoryInv, LineInv
      <3>3. InLine(s, p, ord, first)
        BY <3>2, LineOfUpstream
      <3>4. QED
        BY <1>4, <2>3, <3>1, <3>3 DEF LineInv, WavesSame
    <2>5. QED
      BY <2>1, <2>2, <2>4 DEF HistoryInv
  <1>5. CASE JoinTakes(p) /\ Tagged(Taken(TheJoin), Waves)
    <2>1. ClientInv'
      BY <1>2, <1>3, <1>5, OtherClientInv DEF HistoryInv, JoinTakes
    <2>2. FrameInv'
      BY <1>1, <1>5, FrameInvTaken DEF HistoryInv
    <2>3. LineInv'
      BY <1>2, <1>5, LineTaken DEF HistoryInv
    <2>4. QED
      BY <2>1, <2>2, <2>3 DEF HistoryInv
  <1>6. QED
    BY <1>2, <1>4, <1>5
LEMMA NextHistory ==
  Flat /\ Typed /\ WaveInv /\ HistoryInv /\ [Next]_vars => HistoryInv'
  <1> SUFFICES ASSUME Flat, Typed, WaveInv, HistoryInv, [Next]_vars
               PROVE  HistoryInv'
    OBVIOUS
  <1>1. CASE UNCHANGED vars
    BY <1>1 DEF vars, HistoryInv, ClientInv, FrameInv, LineInv, Waves
  <1>2. CASE ClientPush
    <2>1. ClientInv'
      BY <1>2, ClientQueues DEF HistoryInv
    <2>2. FrameInv'
      BY <1>2, ClientStep, FrameInvKept DEF HistoryInv, ClientPush
    <2>3. LineInv'
      BY <1>2, LineSame DEF HistoryInv, ClientPush
    <2>4. QED
      BY <2>1, <2>2, <2>3 DEF HistoryInv
  <1>3. CASE \E n \in Nodes : NodeStep(n)
    <2>1. PICK n \in Nodes : Handles(n) \/ NodePush(n)
      BY <1>3, StepsAre
    <2>2. CASE NodePush(n)
      <3>1. ClientInv'
        BY <2>2, ClientPushed DEF HistoryInv
      <3>2. FrameInv'
        BY <2>2, PushStep, FrameInvKept DEF HistoryInv, NodePush
      <3>3. LineInv'
        BY <2>2, LinePushed DEF HistoryInv
      <3>4. QED
        BY <3>1, <3>2, <3>3 DEF HistoryInv
    <2>3. CASE Handles(n) /\ n \in Procs
      <3>1. PICK p \in Seq(PushSet) : Takes(n, p) /\ WavesSame
        BY <2>3, ProcHandles
      <3>2. n # HeadNode /\ n # TheJoin /\ TheJoin \in Nodes
        BY <2>3, FlatNodes
      <3>3. ClientInv'
        BY <3>1, <3>2, OtherClientInv DEF HistoryInv, WavesSame
      <3>4. FrameInv'
        BY <2>3, <3>1, ProcStep, FrameInvKept DEF HistoryInv, WavesSame
      <3>5. arrived' = arrived /\ out'[TheJoin] = out[TheJoin]
        BY <3>1, <3>2 DEF Takes, Typed
      <3>6. LineInv'
        BY <3>1, <3>5, LineSame DEF HistoryInv, WavesSame
      <3>7. QED
        BY <3>3, <3>4, <3>6 DEF HistoryInv
    <2>4. QED
      BY <2>1, <2>2, <2>3, FlatNodes, FanHistory, JoinHistory
  <1>4. QED
    BY <1>1, <1>2, <1>3 DEF Next

LEMMA InitHistory == Flat /\ Init => HistoryInv
  <1> SUFFICES ASSUME Flat, Init
               PROVE  HistoryInv
    OBVIOUS
  <1>1. HeadNode \in Fans /\ HeadNode \in Nodes /\ TheJoin \in Joins /\ TheJoin \in Nodes
    BY FlatNodes
  <1>2. /\ inbox[HeadNode] = EmptyInbox /\ order[HeadNode] = <<>> /\ Waves = 0
        /\ epochs[TheJoin] = <<>> /\ out[TheJoin] = <<>> /\ arrived = <<>>
    BY <1>1 DEF Init, Waves
  <1>3. DOMAIN <<>> = {} /\ Len(<<>>) = 0
    OBVIOUS
  <1>4. Items(EmptyInbox) = {} /\ EmptyInbox.sys = <<>> /\ EmptyInbox.down = <<>>
        /\ EmptyInbox.up = <<>>
    BY <1>3 DEF Items, EmptyInbox
  <1>5. ClientInv
    BY <1>2, <1>3, <1>4 DEF ClientInv, Queued, Rising, Fresh, Numbered
  <1>6. Things(inbox, out) = {}
    <2>1. \A n \in Nodes : Items(inbox[n]) = {} /\ out[n] = <<>>
      BY <1>4 DEF Init
    <2>2. QED
      BY <1>3, <2>1 DEF Things, At
  <1>7. FrameInv
    BY <1>2, <1>3, <1>6 DEF FrameInv, GoodThings, GoodBufs
  <1>8. LineInv
    BY <1>2, <1>3 DEF LineInv, InLine, AtSink
  <1>9. QED
    BY <1>5, <1>7, <1>8 DEF HistoryInv

(* What the frames at the sink are like. *)
LEMMA ArrivedBefore ==
  ASSUME HistoryInv, NEW i \in DOMAIN arrived, NEW j \in DOMAIN arrived, i < j
  PROVE  /\ WaveOf(arrived[i]) <= WaveOf(arrived[j])
         /\ arrived[i] # arrived[j]
         /\ arrived[i].id = arrived[j].id =>
              arrived[i].kind \notin {"End", "Cancel"} /\ arrived[j].kind # "Start"
  <1>1. PICK f, g, ord : f = arrived[i] /\ g = arrived[j] /\ ord = order[HeadNode]
    OBVIOUS
  <1>2. Before(f, g, ord)
    BY <1>1 DEF HistoryInv, LineInv, InLine
  <1>3. PICK d \in DOMAIN ord, e \in DOMAIN ord :
          /\ f.id = ord[d].id /\ g.id = ord[e].id /\ d <= e
          /\ d = e => f # g /\ f.kind \notin {"End", "Cancel"} /\ g.kind # "Start"
    BY <1>2 DEF Before
  <1>4. \A a, b \in DOMAIN ord : ord[a].id = ord[b].id => a = b
    BY <1>1 DEF HistoryInv, ClientInv, Numbered
  <1>5. WaveOf(f) = d /\ WaveOf(g) = e
    BY <1>1, <1>3, <1>4 DEF WaveOf
  <1>6. f.id = g.id => d = e
    BY <1>3, <1>4
  <1>7. QED
    BY <1>1, <1>3, <1>5, <1>6

LEMMA HistoryShows ==
  Flat /\ Typed /\ HistoryInv => WavesInOrder /\ OncePerWave /\ SyncPlaced
  <1> SUFFICES ASSUME Flat, Typed, HistoryInv
               PROVE  WavesInOrder /\ OncePerWave /\ SyncPlaced
    OBVIOUS
  <1>1. WavesInOrder
    BY ArrivedBefore DEF WavesInOrder
  <1>2. SyncPlaced
    BY ArrivedBefore DEF SyncPlaced
  <1>3. OncePerWave
    <2> SUFFICES ASSUME NEW i \in DOMAIN arrived, NEW j \in DOMAIN arrived, i # j
                 PROVE  arrived[i] # arrived[j]
      BY DEF OncePerWave
    <2>1. i \in Int /\ j \in Int
      BY LenProperties DEF Typed
    <2>2. i < j \/ j < i
      BY <2>1
    <2>3. QED
      BY <2>2, ArrivedBefore
  <1>4. QED
    BY <1>1, <1>2, <1>3
-----------------------------------------------------------------------------
LEMMA FlatHistories ==
  ASSUME Flat
  PROVE  Spec => [](Typed /\ WaveInv /\ HistoryInv)
  <1>1. Init => Typed /\ WaveInv /\ HistoryInv
    BY InitTyped, InitWaves, InitHistory
  <1>2. (Typed /\ WaveInv /\ HistoryInv) /\ [Next]_vars => (Typed /\ WaveInv /\ HistoryInv)'
    BY NextTyped, NextWaves, NextHistory
  <1>3. QED
    BY <1>1, <1>2, PTL DEF Spec

(* Whatever one branch of a flat pipeline does faster than another, frames  *)
(* leave the join in the order in which the fan took the frames they come   *)
(* from (onJoin releases epochs in sequence).                               *)
THEOREM WavesStayInOrder == Flat => (Spec => []WavesInOrder)
  <1>1. CASE Flat
    <2>1. Spec => [](Typed /\ WaveInv /\ HistoryInv)
      BY <1>1, FlatHistories
    <2>2. Typed /\ WaveInv /\ HistoryInv => WavesInOrder
      BY <1>1, HistoryShows
    <2>3. Spec => []WavesInOrder
      BY <2>1, <2>2, PTL
    <2>4. QED
      BY <2>3
  <1>2. CASE ~Flat
    BY <1>2
  <1>3. QED
    BY <1>1, <1>2

(* A frame that went through several branches of a flat pipeline reaches    *)
(* the sink once (mergeEpoch dedupes by Meta.ID, and the join releases no   *)
(* epoch twice).                                                            *)
THEOREM FramesArriveOnce == Flat => (Spec => []OncePerWave)
  <1>1. CASE Flat
    <2>1. Spec => [](Typed /\ WaveInv /\ HistoryInv)
      BY <1>1, FlatHistories
    <2>2. Typed /\ WaveInv /\ HistoryInv => OncePerWave
      BY <1>1, HistoryShows
    <2>3. Spec => []OncePerWave
      BY <2>1, <2>2, PTL
    <2>4. QED
      BY <2>3
  <1>2. CASE ~Flat
    BY <1>2
  <1>3. QED
    BY <1>1, <1>2

(* At the sink of a flat pipeline a Start is before everything the branches *)
(* made of it, and an End or Cancel after it (the sync frames in            *)
(* mergeEpoch).                                                             *)
THEOREM SyncsKeepTheirPlace == Flat => (Spec => []SyncPlaced)
  <1>1. CASE Flat
    <2>1. Spec => [](Typed /\ WaveInv /\ HistoryInv)
      BY <1>1, FlatHistories
    <2>2. Typed /\ WaveInv /\ HistoryInv => SyncPlaced
      BY <1>1, HistoryShows
    <2>3. Spec => []SyncPlaced
      BY <2>1, <2>2, PTL
    <2>4. QED
      BY <2>3
  <1>2. CASE ~Flat
    BY <1>2
  <1>3. QED
    BY <1>1, <1>2
-----------------------------------------------------------------------------
(* No down lane is ever over its capacity, in any topology.                 *)
LanesBounded == \A n \in Nodes : Len(inbox[n].down) <= DataMax

LEMMA ShorterLane ==
  ASSUME NEW in \in InboxSet(Wares), NEW r \in {PopFront(in), DrainInterruptible(PopFront(in))},
         ~IsEmpty(in)
  PROVE  Len(r.down) <= Len(in.down) /\ Len(r.down) \in Nat /\ Len(in.down) \in Nat
  <1>1. PICK q : q = PopFront(in)
    OBVIOUS
  <1>2. in.down \in Seq(Wares) /\ in.sys \in Seq(Wares) /\ in.up \in Seq(Wares)
    BY DEF InboxSet
  <1>3. q \in InboxSet(Wares)
    BY <1>1, PopFrontType DEF IsEmpty
  <1>4. q.down = in.down \/ (in.down # <<>> /\ q.down = Tail(in.down))
    BY <1>1, <1>2 DEF PopFront, NextLane, IsEmpty, InboxSet
  <1>5. q.down \in Seq(Wares) /\ r \in InboxSet(Wares)
    BY <1>1, <1>3, DrainType DEF InboxSet
  <1>6. \A s \in Seq(Wares) : /\ Len(s) \in Nat /\ Len(s) <= Len(s)
                              /\ s # <<>> => Len(Tail(s)) <= Len(s)
    BY LenProperties
  <1>7. Len(q.down) <= Len(in.down)
    BY <1>2, <1>4, <1>6
  <1>8. Len(r.down) <= Len(q.down)
    BY <1>1, <1>3, <1>5, <1>6, DrainType
  <1>9. r.down \in Seq(Wares)
    BY <1>5 DEF InboxSet
  <1>10. Len(r.down) \in Nat /\ Len(q.down) \in Nat /\ Len(in.down) \in Nat
    BY <1>2, <1>5, <1>6, <1>9
  <1>11. QED
    BY <1>7, <1>8, <1>10

LEMMA LanesStayBounded ==
  Typed /\ LanesBounded /\ [Next]_vars => LanesBounded'
  <1> SUFFICES ASSUME Typed, LanesBounded, [Next]_vars, NEW n \in Nodes
               PROVE  Len(inbox'[n].down) <= DataMax
    BY DEF LanesBounded
  <1>1. inbox \in [Nodes -> InboxSet(Wares)] /\ Len(inbox[n].down) <= DataMax /\ DataMax \in Nat
    BY BoundsAssumption DEF Typed, LanesBounded
  <1>2. PICK in \in InboxSet(Wares) : in = inbox[n]
    BY <1>1
  <1>3. in.down \in Seq(Wares) /\ Len(in.down) <= DataMax
    BY <1>1, <1>2 DEF InboxSet
  <1>4. ASSUME NEW q \in Wares, ~Blocks(in, q)
        PROVE  Len(Enqueue(in, q).down) <= DataMax
    <2>1. PICK r : r = Enqueue(in, q)
      OBVIOUS
    <2>2. PutIn(in, q, r)
      BY <1>4, <2>1, PutIs
    <2>3. r.down = in.down \/ (Lane(q) = "down" /\ r.down = Append(in.down, q))
      BY <2>2 DEF PutIn
    <2>4. CASE Lane(q) = "down" /\ r.down = Append(in.down, q)
      <3>1. Len(in.down) < DataMax
        BY <1>1, <1>3, <1>4, <2>4, LenProperties DEF Blocks
      <3>2. Len(r.down) = Len(in.down) + 1 /\ Len(in.down) \in Nat
        BY <1>3, <1>4, <2>4, LenProperties
      <3>3. QED
        BY <1>1, <2>1, <3>1, <3>2
    <2>5. QED
      BY <1>3, <2>1, <2>3, <2>4
  <1>5. CASE inbox'[n] = inbox[n]
    BY <1>1, <1>5
  <1>6. CASE \E q \in Wares : ~Blocks(inbox[n], q) /\ inbox'[n] = Enqueue(inbox[n], q)
    BY <1>2, <1>4, <1>6
  <1>7. CASE /\ ~IsEmpty(inbox[n])
             /\ \E r \in {PopFront(inbox[n]), DrainInterruptible(PopFront(inbox[n]))} :
                  inbox'[n] = r
    <2>1. PICK r \in {PopFront(in), DrainInterruptible(PopFront(in))} : inbox'[n] = r
      BY <1>2, <1>7
    <2>2. Len(r.down) <= Len(in.down) /\ Len(r.down) \in Nat /\ Len(in.down) \in Nat
      BY <1>2, <1>7, ShorterLane
    <2>3. QED
      BY <1>1, <1>3, <2>1, <2>2
  <1>8. CASE UNCHANGED vars
    BY <1>5, <1>8 DEF vars
  <1>9. CASE ClientPush
    <2>1. PICK q : q = DownItem(Frame(Script[sent + 1], sent + 1, "client"), 0, NoFan, 0)
      OBVIOUS
    <2>2. q \in Wares
      <3>1. sent + 1 \in 1..Len(Script) /\ sent + 1 \in Nat
        BY <1>9, Topology DEF ClientPush, Typed
      <3>2. Script[sent + 1] \in FrameKinds
        BY <3>1, Topology
      <3>3. Frame(Script[sent + 1], sent + 1, "client") \in FrameSet
        BY <3>1, <3>2 DEF Frame, FrameSet
      <3>4. QED
        BY <2>1, <3>3, FramesOfItems
    <2>3. PICK m : m = HeadNode
      OBVIOUS
    <2>4. ~Blocks(inbox[m], q) /\ inbox' = [inbox EXCEPT ![m] = Enqueue(@, q)]
      BY <1>9, <2>1, <2>3 DEF ClientPush
    <2>5. QED
      BY <1>1, <1>5, <1>6, <2>2, <2>4
  <1>10. CASE \E m \in Nodes : NodeStep(m)
    <2>1. PICK m \in Nodes : Handles(m) \/ NodePush(m)
      BY <1>10, StepsAre
    <2>2. CASE NodePush(m)
      <3>1. PICK p : p = Head(out[m])
        OBVIOUS
      <3>2. /\ p.to \in Nodes /\ ~Blocks(inbox[p.to], p.q)
               /\ inbox' = [inbox EXCEPT ![p.to] = Enqueue(@, p.q)]
            \/ inbox' = inbox
        BY <2>2, <3>1 DEF NodePush
      <3>3. p.q \in Wares
        <4>1. PICK s \in Seq(PushSet) : s = out[m] /\ s # <<>>
          BY <2>2 DEF NodePush, Typed
        <4>2. p \in PushSet
          BY <3>1, <4>1, TailThins, ElementOfSeq, LenProperties
        <4>3. QED
          BY <4>2 DEF PushSet
      <3>4. QED
        BY <1>1, <1>5, <1>6, <3>2, <3>3
    <2>3. CASE Handles(m)
      <3>1. ~IsEmpty(inbox[m])
        BY <2>3 DEF Handles, CanTake
      <3>2. PICK r \in {PopFront(inbox[m]), DrainInterruptible(PopFront(inbox[m]))} :
              inbox' = [inbox EXCEPT ![m] = r]
        BY <2>3, HandlingIs DEF Took
      <3>3. QED
        BY <1>1, <1>5, <1>7, <3>1, <3>2
    <2>4. QED
      BY <2>1, <2>2, <2>3
  <1>11. QED
    BY <1>8, <1>9, <1>10 DEF Next

LEMMA FlatTypes ==
  Flat /\ Typed /\ WaveInv /\ HistoryInv /\ LanesBounded => TypeOK
  <1> SUFFICES ASSUME Flat, Typed, WaveInv, HistoryInv, LanesBounded
               PROVE  TypeOK
    OBVIOUS
  <1>1. Moving \subseteq ItemSet
    <2> SUFFICES ASSUME NEW n \in Nodes,
                        NEW q \in LaneItems(n) \cup {out[n][i].q : i \in DOMAIN out[n]}
                 PROVE  q \in Wares
      BY DEF Moving, Wares
    <2>1. PICK in \in InboxSet(Wares), o \in Seq(PushSet) : in = inbox[n] /\ o = out[n]
      BY DEF Typed
    <2>2. in.sys \in Seq(Wares) /\ in.up \in Seq(Wares) /\ in.down \in Seq(Wares)
      BY DEF InboxSet
    <2>3. \A l \in Seq(Wares) : \A i \in DOMAIN l : l[i] \in Wares
      BY ElementOfSeq, LenProperties
    <2>4. \A i \in DOMAIN o : o[i].q \in Wares
      BY ElementOfSeq, LenProperties DEF PushSet
    <2>5. QED
      BY <2>1, <2>2, <2>3, <2>4 DEF LaneItems
  <1>2. \A n \in Fans : fanSeq[n] \in Nat /\ Len(order[n]) = fanSeq[n]
    BY FlatNodes, OrderTyped DEF HistoryInv, ClientInv, Waves
  <1>3. \A n \in Joins : /\ next[n] \in 1..fanSeq[FanOf[n]] + 1
                         /\ DOMAIN epochs[n] \subseteq next[n]..fanSeq[FanOf[n]]
    <2>1. /\ next[TheJoin] \in 1..Waves + 1
          /\ DOMAIN epochs[TheJoin] \subseteq next[TheJoin]..Waves
      BY DEF WaveInv, Passing, PassingOf, Waves
    <2>2. QED
      BY <2>1, FlatNodes DEF Waves
  <1>4. sent \in 0..Len(Script)
    BY DEF Typed
  <1>5. QED
    BY <1>1, <1>2, <1>3, <1>4 DEF TypeOK, LanesBounded

(* In a flat pipeline every variable has its type, no down lane is over its *)
(* capacity (inbox.push), and the join keeps no epoch it has passed on: no  *)
(* frame or barrier comes after its wave was complete, so that js.epochs    *)
(* does not grow for good.                                                  *)
THEOREM FlatTypeCorrect == Flat => (Spec => []TypeOK)
  <1>1. CASE Flat
    <2>1. Init => LanesBounded
      <3>1. Len(<<>>) <= DataMax
        BY BoundsAssumption
      <3>2. QED
        BY <3>1 DEF Init, LanesBounded, EmptyInbox
    <2>2. Spec => []Typed
      <3>1. Init => Typed
        BY InitTyped
      <3>2. Typed /\ [Next]_vars => Typed'
        BY NextTyped
      <3>3. QED
        BY <3>1, <3>2, PTL DEF Spec
    <2>3. Typed /\ LanesBounded /\ [Next]_vars => LanesBounded'
      BY LanesStayBounded
    <2>4. Spec => [](Typed /\ WaveInv /\ HistoryInv)
      BY <1>1, FlatHistories
    <2>5. Typed /\ WaveInv /\ HistoryInv /\ LanesBounded => TypeOK
      BY <1>1, FlatTypes
    <2>6. Spec => []TypeOK
      BY <2>1, <2>2, <2>3, <2>4, <2>5, PTL DEF Spec
    <2>7. QED
      BY <2>6
  <1>2. CASE ~Flat
    BY <1>2
  <1>3. QED
    BY <1>1, <1>2
=============================================================================

---------------------------- MODULE RestartProofs ----------------------------
(***************************************************************************)
(* What the ends of the process cost CanonicalChainState, for every number *)
(* of them, every clock of the miners and every node: never a gap in the   *)
(* recorded chain, and the uncles of at most one block each.               *)
(***************************************************************************)
EXTENDS CanonicalChainProofs, FiniteSetTheorems

USE DEF GetTipBlockNumber, Reached, GetBlockByNumber, GetHeaderByNumber

(***************************************************************************)
(* Heights of sequences of rows.                                           *)
(***************************************************************************)

(* The height of a row, if it is that of a block.                          *)
HeightOf(r) == IF r.table = "block" THEN {r.number} ELSE {}

LEMMA HeightsAre ==
    ASSUME NEW s, NEW k, NEW x
    PROVE  x \in HeightsUpTo(s, k)
               <=> \E i \in 1..k : s[i].table = "block" /\ x = s[i].number
BY DEF HeightsUpTo

LEMMA HeightsNat ==
    ASSUME NEW s \in Seq(Rows), NEW k \in 0..Len(s)
    PROVE  HeightsUpTo(s, k) \subseteq Nat
<1> SUFFICES ASSUME NEW x \in HeightsUpTo(s, k) PROVE x \in Nat
    OBVIOUS
<1>1. PICK i \in 1..k : s[i].table = "block" /\ x = s[i].number
      BY HeightsAre
<1>2. i \in 1..Len(s)
      BY LenProperties
<1>3. s[i] \in Rows
      BY <1>2
<1>4. QED BY <1>1, <1>3, RowTypes, NodeAssumption

LEMMA HeightsOfNone == Heights(<<>>) = {} /\ \A s : HeightsUpTo(s, 0) = {}
BY DEF Heights, HeightsUpTo

LEMMA HeightsOfOne == ASSUME NEW r PROVE Heights(<<r>>) = HeightOf(r)
<1>1. Len(<<r>>) = 1 /\ <<r>>[1] = r
      OBVIOUS
<1>2. ASSUME NEW x PROVE x \in Heights(<<r>>) <=> x \in HeightOf(r)
      BY <1>1, HeightsAre DEF Heights, HeightOf
<1>3. QED BY <1>2

LEMMA HeightsConcat ==
    ASSUME NEW S, NEW s \in Seq(S), NEW t \in Seq(S)
    PROVE  Heights(s \o t) = Heights(s) \cup Heights(t)
<1> DEFINE c == s \o t
<1>1. /\ Len(c) = Len(s) + Len(t) /\ Len(s) \in Nat /\ Len(t) \in Nat
      /\ \A i \in 1..Len(s) + Len(t) : c[i] = IF i <= Len(s) THEN s[i] ELSE t[i - Len(s)]
      BY ConcatProperties, LenProperties
<1> HIDE DEF c
<1>2. ASSUME NEW x \in Heights(c) PROVE x \in Heights(s) \cup Heights(t)
  <2>1. PICK i \in 1..Len(s) + Len(t) : c[i].table = "block" /\ x = c[i].number
        BY <1>1, <1>2, HeightsAre DEF Heights
  <2>2. CASE i <= Len(s)
    <3>1. i \in 1..Len(s) /\ c[i] = s[i]
          BY <1>1, <2>2
    <3>2. QED BY <2>1, <3>1, HeightsAre DEF Heights
  <2>3. CASE ~(i <= Len(s))
    <3>1. i - Len(s) \in 1..Len(t) /\ c[i] = t[i - Len(s)]
          BY <1>1, <2>3
    <3>2. QED BY <2>1, <3>1, HeightsAre DEF Heights
  <2>4. QED BY <2>2, <2>3
<1>3. ASSUME NEW x \in Heights(s) PROVE x \in Heights(c)
  <2>1. PICK i \in 1..Len(s) : s[i].table = "block" /\ x = s[i].number
        BY <1>3, HeightsAre DEF Heights
  <2>2. i \in 1..Len(c) /\ c[i] = s[i]
        BY <1>1
  <2>3. QED BY <2>1, <2>2, HeightsAre DEF Heights
<1>4. ASSUME NEW x \in Heights(t) PROVE x \in Heights(c)
  <2>1. PICK i \in 1..Len(t) : t[i].table = "block" /\ x = t[i].number
        BY <1>4, HeightsAre DEF Heights
  <2>2. Len(s) + i \in 1..Len(c) /\ ~(Len(s) + i <= Len(s)) /\ (Len(s) + i) - Len(s) = i
        BY <1>1
  <2>3. c[Len(s) + i] = t[i]
        BY <1>1, <2>2
  <2>4. QED BY <2>1, <2>2, <2>3, HeightsAre DEF Heights
<1>5. Heights(c) = Heights(s) \cup Heights(t)
      BY <1>2, <1>3, <1>4
<1>6. QED BY <1>5 DEF c

LEMMA HeightsOfPrefix ==
    ASSUME NEW S, NEW s \in Seq(S), NEW n \in 0..Len(s)
    PROVE  Heights(SubSeq(s, 1, n)) = HeightsUpTo(s, n)
<1> DEFINE a == SubSeq(s, 1, n)
<1>1. Len(a) = n /\ \A i \in 1..n : a[i] = s[i]
  <2>1. Len(s) \in Nat /\ \A i \in 1..n : s[i] \in S
        BY LenProperties
  <2>2. n \in Int /\ 1 \in Int
        BY <2>1
  <2>3. /\ Len(a) = IF 1 <= n THEN n - 1 + 1 ELSE 0
        /\ \A i \in 1..n - 1 + 1 : a[i] = s[1 + i - 1]
        BY <2>1, <2>2, SubSeqProperties
  <2> HIDE DEF a
  <2>4. Len(a) = n
        BY <2>1, <2>3
  <2>5. ASSUME NEW i \in 1..n PROVE a[i] = s[i]
    <3>1. i \in 1..n - 1 + 1 /\ 1 + i - 1 = i
          BY <2>1
    <3>2. QED BY <2>3, <3>1
  <2>6. QED BY <2>4, <2>5
<1> HIDE DEF a
<1>2. ASSUME NEW x PROVE x \in Heights(a) <=> x \in HeightsUpTo(s, n)
      BY <1>1, HeightsAre DEF Heights
<1>3. Heights(a) = HeightsUpTo(s, n)
      BY <1>2
<1>4. QED BY <1>3 DEF a

LEMMA HeightsOfRest ==
    ASSUME NEW S, NEW s \in Seq(S), NEW n \in 0..Len(s), NEW k \in 0..Len(s) - n
    PROVE  HeightsUpTo(s, n) \cup HeightsUpTo(SubSeq(s, n + 1, Len(s)), k)
               = HeightsUpTo(s, n + k)
<1> DEFINE z == SubSeq(s, n + 1, Len(s))
<1>1. Len(s) \in Nat /\ n \in Nat /\ k \in Nat /\ n + k <= Len(s)
      BY LenProperties
<1>2. \A i \in 1..Len(s) - n : z[i] = s[n + i]
  <2>1. \A i \in n + 1..Len(s) : s[i] \in S
        BY <1>1
  <2>2. n + 1 \in Int /\ Len(s) \in Int
        BY <1>1
  <2>3. \A i \in 1..Len(s) - (n + 1) + 1 : z[i] = s[(n + 1) + i - 1]
        BY <2>1, <2>2, SubSeqProperties
  <2> HIDE DEF z
  <2>4. ASSUME NEW i \in 1..Len(s) - n PROVE z[i] = s[n + i]
    <3>1. i \in 1..Len(s) - (n + 1) + 1 /\ (n + 1) + i - 1 = n + i
          BY <1>1
    <3>2. QED BY <2>3, <3>1
  <2>5. QED BY <2>4
<1> HIDE DEF z
<1>3. ASSUME NEW x \in HeightsUpTo(s, n + k)
      PROVE  x \in HeightsUpTo(s, n) \cup HeightsUpTo(z, k)
  <2>1. PICK i \in 1..n + k : s[i].table = "block" /\ x = s[i].number
        BY <1>3, HeightsAre
  <2>2. CASE i <= n
    <3>1. i \in 1..n
          BY <1>1, <2>2
    <3>2. QED BY <2>1, <3>1, HeightsAre
  <2>3. CASE ~(i <= n)
    <3>1. i - n \in 1..k /\ i - n \in 1..Len(s) - n /\ n + (i - n) = i
          BY <1>1, <2>3
    <3>2. z[i - n] = s[i]
          BY <1>2, <3>1
    <3>3. QED BY <2>1, <3>1, <3>2, HeightsAre
  <2>4. QED BY <2>2, <2>3
<1>4. ASSUME NEW x \in HeightsUpTo(s, n) PROVE x \in HeightsUpTo(s, n + k)
  <2>1. PICK i \in 1..n : s[i].table = "block" /\ x = s[i].number
        BY <1>4, HeightsAre
  <2>2. i \in 1..n + k
        BY <1>1
  <2>3. QED BY <2>1, <2>2, HeightsAre
<1>5. ASSUME NEW x \in HeightsUpTo(z, k) PROVE x \in HeightsUpTo(s, n + k)
  <2>1. PICK i \in 1..k : z[i].table = "block" /\ x = z[i].number
        BY <1>5, HeightsAre
  <2>2. n + i \in 1..n + k /\ i \in 1..Len(s) - n
        BY <1>1
  <2>3. z[i] = s[n + i]
        BY <1>2, <2>2
  <2>4. QED BY <2>1, <2>2, <2>3, HeightsAre
<1>6. HeightsUpTo(s, n) \cup HeightsUpTo(z, k) = HeightsUpTo(s, n + k)
      BY <1>3, <1>4, <1>5
<1>7. QED BY <1>6 DEF z

LEMMA HeightsOfAppend ==
    ASSUME NEW S, NEW s \in Seq(S), NEW r \in S
    PROVE  /\ Len(Append(s, r)) = Len(s) + 1 /\ Len(s) \in Nat
           /\ \A k \in 0..Len(s) : HeightsUpTo(Append(s, r), k) = HeightsUpTo(s, k)
           /\ Heights(Append(s, r)) = Heights(s) \cup HeightOf(r)
<1> DEFINE a == Append(s, r)
<1>1. /\ Len(a) = Len(s) + 1 /\ Len(s) \in Nat
      /\ \A i \in 1..Len(s) : a[i] = s[i]
      /\ a[Len(s) + 1] = r
      BY AppendProperties, LenProperties
<1> HIDE DEF a
<1>2. ASSUME NEW k \in 0..Len(s) PROVE HeightsUpTo(a, k) = HeightsUpTo(s, k)
  <2>1. \A i \in 1..k : a[i] = s[i]
        BY <1>1
  <2>2. ASSUME NEW x PROVE x \in HeightsUpTo(a, k) <=> x \in HeightsUpTo(s, k)
        BY <2>1, HeightsAre
  <2>3. QED BY <2>2
<1>3. ASSUME NEW x PROVE x \in Heights(a) <=> x \in Heights(s) \cup HeightOf(r)
  <2>1. x \in Heights(a) => x \in Heights(s) \cup HeightOf(r)
    <3>1. SUFFICES ASSUME x \in Heights(a) PROVE x \in Heights(s) \cup HeightOf(r)
          OBVIOUS
    <3>2. PICK i \in 1..Len(s) + 1 : a[i].table = "block" /\ x = a[i].number
          BY <1>1, <3>1, HeightsAre DEF Heights
    <3>3. CASE i = Len(s) + 1
          BY <1>1, <3>2, <3>3 DEF HeightOf
    <3>4. CASE i # Len(s) + 1
      <4>1. i \in 1..Len(s)
            BY <1>1, <3>4
      <4>2. QED BY <1>1, <3>2, <4>1, HeightsAre DEF Heights
    <3>5. QED BY <3>3, <3>4
  <2>2. x \in Heights(s) => x \in Heights(a)
    <3>1. Len(s) \in 0..Len(s)
          BY <1>1
    <3>2. HeightsUpTo(a, Len(s)) = Heights(s)
          BY <1>2, <3>1 DEF Heights
    <3>3. 1..Len(s) \subseteq 1..Len(a)
          BY <1>1
    <3>4. QED BY <3>2, <3>3, HeightsAre DEF Heights
  <2>3. x \in HeightOf(r) => x \in Heights(a)
    <3>1. Len(s) + 1 \in 1..Len(a)
          BY <1>1
    <3>2. QED BY <1>1, <3>1, HeightsAre DEF Heights, HeightOf
  <2>4. QED BY <2>1, <2>2, <2>3
<1>4. Heights(a) = Heights(s) \cup HeightOf(r)
      BY <1>3
<1>5. QED BY <1>1, <1>2, <1>4 DEF a

LEMMA HeightsOfTail ==
    ASSUME NEW S, NEW s \in Seq(S), s # <<>>
    PROVE  Heights(s) = HeightOf(Head(s)) \cup Heights(Tail(s))
<1> DEFINE t == Tail(s)
<1>1. /\ Len(t) = Len(s) - 1 /\ Len(s) \in Nat /\ Len(s) >= 1 /\ Head(s) = s[1]
      /\ \A i \in 1..Len(t) : t[i] = s[i + 1]
      BY HeadTailProperties, LenProperties, EmptySeq
<1> HIDE DEF t
<1>2. ASSUME NEW x \in Heights(s) PROVE x \in HeightOf(Head(s)) \cup Heights(t)
  <2>1. PICK i \in 1..Len(s) : s[i].table = "block" /\ x = s[i].number
        BY <1>2, HeightsAre DEF Heights
  <2>2. CASE i = 1
        BY <1>1, <2>1, <2>2 DEF HeightOf
  <2>3. CASE i # 1
    <3>1. i - 1 \in 1..Len(t) /\ (i - 1) + 1 = i
          BY <1>1, <2>3
    <3>2. t[i - 1] = s[i]
          BY <1>1, <3>1
    <3>3. QED BY <2>1, <3>1, <3>2, HeightsAre DEF Heights
  <2>4. QED BY <2>2, <2>3
<1>3. ASSUME NEW x \in HeightOf(Head(s)) PROVE x \in Heights(s)
  <2>1. 1 \in 1..Len(s)
        BY <1>1
  <2>2. QED BY <1>1, <1>3, <2>1, HeightsAre DEF Heights, HeightOf
<1>4. ASSUME NEW x \in Heights(t) PROVE x \in Heights(s)
  <2>1. PICK i \in 1..Len(t) : t[i].table = "block" /\ x = t[i].number
        BY <1>4, HeightsAre DEF Heights
  <2>2. i + 1 \in 1..Len(s) /\ t[i] = s[i + 1]
        BY <1>1
  <2>3. QED BY <2>1, <2>2, HeightsAre DEF Heights
<1>5. Heights(s) = HeightOf(Head(s)) \cup Heights(t)
      BY <1>2, <1>3, <1>4
<1>6. QED BY <1>5 DEF t

(***************************************************************************)
(* Sets without gaps.                                                      *)
(***************************************************************************)

LEMMA GaplessUnion ==
    ASSUME NEW S, NEW T, Gapless(S), Gapless(T) PROVE Gapless(S \cup T)
BY DEF Gapless

LEMMA GaplessNext ==
    ASSUME NEW S, NEW n \in Nat, Gapless(S), 1..n - 1 \subseteq S
    PROVE  Gapless(S \cup {n})
<1>1. 1..n \subseteq S \cup {n}
  <2>1. \A i \in 1..n : i \in 1..n - 1 \/ i = n
        OBVIOUS
  <2>2. QED BY <2>1
<1>2. QED BY <1>1 DEF Gapless

(***************************************************************************)
(* The steps.                                                              *)
(***************************************************************************)

LEMMA GapInit == Init => FollowsWithoutGaps
<1> SUFFICES ASSUME Init PROVE FollowsWithoutGaps
    OBVIOUS
<1>1. durable = <<>> /\ accepted = <<>> /\ outbox = <<>> /\ doubtful = {} /\ pc = "down"
      BY DEF Init, Log!Init
<1>2. Heights(durable) = {} /\ Heights(outbox) = {}
      BY <1>1, HeightsOfNone
<1>3. \A k \in 0..Len(accepted) : HeightsUpTo(accepted, k) = {}
      BY <1>1, HeightsOfNone
<1>4. QED BY <1>1, <1>2, <1>3 DEF FollowsWithoutGaps, NoGaps, Gapless, Analyzing

LEMMA GapStart == TypeInv /\ FollowsWithoutGaps /\ Start => FollowsWithoutGaps'
<1> SUFFICES ASSUME TypeInv, FollowsWithoutGaps, Start PROVE FollowsWithoutGaps'
    OBVIOUS
<1>1. PICK last \in LastUpdated : number' = last + 1
      BY DEF Start
<1>2. UNCHANGED <<outbox, durable, accepted, doubtful>> /\ pc' = "tip"
      BY DEF Start, log
<1>3. last = 0 \/ last \in Heights(durable)
  <2> DEFINE blocks == {r \in ToSet(durable) : r.table = "block"}
             latest == {r \in blocks : \A q \in blocks : q.time <= r.time}
  <2>1. last \in IF blocks = {} THEN {0} ELSE {r.number : r \in latest}
        BY Zenon DEF LastUpdated
  <2>2. ASSUME NEW r \in latest PROVE r.number \in Heights(durable)
    <3>1. r \in ToSet(durable) /\ r.table = "block"
          BY Zenon
    <3>2. PICK i \in DOMAIN durable : durable[i] = r
          BY <3>1 DEF ToSet
    <3>3. DOMAIN durable = 1..Len(durable)
          BY LenProperties DEF TypeInv, TypeOK, RowsIn
    <3>4. QED BY <3>1, <3>2, <3>3, HeightsAre DEF Heights
  <2> HIDE DEF blocks, latest
  <2>3. CASE blocks = {}
        BY <2>1, <2>3
  <2>4. CASE blocks # {}
    <3>1. last \in {r.number : r \in latest}
          BY <2>1, <2>4
    <3>2. \E r \in latest : last = r.number
          BY <3>1
    <3>3. QED BY <2>2, <3>2
  <2>5. QED BY <2>3, <2>4
<1>4. last \in Nat
  <2>1. durable \in Seq(Rows) /\ Len(durable) \in Nat
        BY LenProperties DEF TypeInv, TypeOK, RowsIn
  <2>2. Heights(durable) \subseteq Nat
        BY <2>1, HeightsNat DEF Heights
  <2>3. QED BY <1>3, <2>2
<1>5. 1..number' - 1 \subseteq Heights(durable)
  <2>1. number' - 1 = last
        BY <1>1, <1>4
  <2>2. CASE last = 0
        BY <2>1, <2>2
  <2>3. CASE last \in Heights(durable)
        BY <2>1, <2>3 DEF FollowsWithoutGaps, NoGaps, Gapless
  <2>4. QED BY <1>3, <2>2, <2>3
<1>6. QED BY <1>2, <1>5 DEF FollowsWithoutGaps, NoGaps, OnItsWay, Analyzing

(* Nothing on its way changes, and the block in work is the same or given  *)
(* up.                                                                     *)
LEMMA GapRead ==
    FollowsWithoutGaps
    /\ (ReadTip \/ ReadParent \/ Refresh \/ CallPanics \/ NodeMoves \/ UNCHANGED vars)
        => FollowsWithoutGaps'
<1> SUFFICES ASSUME FollowsWithoutGaps,
                    ReadTip \/ ReadParent \/ Refresh \/ CallPanics \/ NodeMoves
                        \/ UNCHANGED vars
             PROVE  FollowsWithoutGaps'
    OBVIOUS
<1>1. /\ UNCHANGED <<number, outbox, durable, accepted, doubtful>>
      /\ pc' = pc \/ pc' = "failed" \/ (pc \notin {"down", "failed"} /\ pc' \in {"parent", "block"})
      BY DEF ReadTip, ReadParent, Refresh, CallPanics, NodeMoves, task, log, vars
<1>2. QED BY <1>1 DEF FollowsWithoutGaps, NoGaps, OnItsWay, Analyzing

LEMMA GapAnalyzeBlock ==
    TypeInv /\ FollowsWithoutGaps /\ AnalyzeBlock => FollowsWithoutGaps'
<1> SUFFICES ASSUME TypeInv, FollowsWithoutGaps, AnalyzeBlock PROVE FollowsWithoutGaps'
    OBVIOUS
<1>1. /\ UNCHANGED <<number, durable, accepted, doubtful>> /\ pc = "block" /\ outbox = <<>>
      /\ outbox' = <<BlockRow(number, block', parent)>>
      BY DEF AnalyzeBlock, log
<1>2. Heights(outbox') = {number}
  <2> DEFINE r == BlockRow(number, block', parent)
  <2>1. r.table = "block" /\ r.number = number
        BY DEF BlockRow
  <2>2. outbox' = <<r>>
        BY <1>1
  <2> HIDE DEF r
  <2>3. Heights(<<r>>) = {number}
        BY <2>1, HeightsOfOne DEF HeightOf
  <2>4. QED BY <2>2, <2>3
<1>3. Heights(outbox) = {}
      BY <1>1, HeightsOfNone
<1>4. 1..number - 1 \subseteq OnItsWay
      BY <1>1, <1>3 DEF FollowsWithoutGaps
<1>5. OnItsWay' = OnItsWay
      BY <1>1 DEF OnItsWay
<1>6. QED BY <1>1, <1>2, <1>4, <1>5 DEF FollowsWithoutGaps, NoGaps

(* A row of another table.                                                 *)
LEMMA OtherRowsHaveNoHeight ==
    ASSUME NEW r, r.table # "block" PROVE Heights(<<r>>) = {}
BY HeightsOfOne DEF HeightOf

LEMMA GapAnalyze ==
    /\ FollowsWithoutGaps
    /\ AnalyzeUncle \/ AnalyzeTransactions \/ AnalyzeTransaction \/ PruneZones
    => FollowsWithoutGaps'
<1> SUFFICES ASSUME FollowsWithoutGaps,
                    AnalyzeUncle \/ AnalyzeTransactions \/ AnalyzeTransaction \/ PruneZones
             PROVE  FollowsWithoutGaps'
    OBVIOUS
<1>1. UNCHANGED <<number, durable, accepted, doubtful>> /\ outbox = <<>> /\ Analyzing
      BY DEF AnalyzeUncle, AnalyzeTransactions, AnalyzeTransaction, PruneZones, log, Analyzing
<1>2. Heights(outbox) = {}
      BY <1>1, HeightsOfNone
<1>3. Heights(outbox') = {}
  <2>1. \/ outbox' = outbox
        \/ outbox' = <<UncleRow(number - 1, chain[number - 1])>>
        \/ \E m : outbox' = <<CommitRow(number, number - m)>>
        BY Zenon DEF AnalyzeUncle, AnalyzeTransactions, AnalyzeTransaction, PruneZones,
                     GetHeaderByNumber
  <2>2. CASE outbox' = <<UncleRow(number - 1, chain[number - 1])>>
        BY <2>2, OtherRowsHaveNoHeight DEF UncleRow
  <2>3. ASSUME NEW m, outbox' = <<CommitRow(number, number - m)>>
        PROVE  Heights(outbox') = {}
        BY <2>3, OtherRowsHaveNoHeight DEF CommitRow
  <2>4. QED BY <1>2, <2>1, <2>2, <2>3
<1>4. OnItsWay' = OnItsWay
      BY <1>1 DEF OnItsWay
<1>5. QED BY <1>1, <1>2, <1>3, <1>4 DEF FollowsWithoutGaps, NoGaps, Analyzing

LEMMA GapAnalyzeEpoch ==
    TypeInv /\ FollowsWithoutGaps /\ AnalyzeEpoch => FollowsWithoutGaps'
<1> SUFFICES ASSUME TypeInv, FollowsWithoutGaps, AnalyzeEpoch PROVE FollowsWithoutGaps'
    OBVIOUS
<1>1. /\ UNCHANGED <<durable, accepted, doubtful>> /\ outbox = <<>>
      /\ pc = "epoch" /\ pc' = "block" /\ number' = number + 1
      /\ outbox' = <<>> \/ outbox' = <<EpochRow(epoch, uncles)>>
      BY DEF AnalyzeEpoch, log
<1>2. Heights(outbox) = {} /\ Heights(outbox') = {}
      BY <1>1, HeightsOfNone, OtherRowsHaveNoHeight DEF EpochRow
<1>3. OnItsWay' = OnItsWay
      BY <1>1 DEF OnItsWay
<1>4. 1..number - 1 \subseteq OnItsWay /\ number \in OnItsWay
      BY <1>1, <1>2 DEF FollowsWithoutGaps, Analyzing
<1>5. 1..number' - 1 \subseteq OnItsWay
  <2>1. number \in Nat
        BY NumberTypes
  <2>2. \A i \in 1..number' - 1 : i \in 1..number - 1 \/ i = number
        BY <1>1, <2>1
  <2>3. QED BY <1>4, <2>2
<1>6. QED BY <1>1, <1>2, <1>3, <1>5 DEF FollowsWithoutGaps, NoGaps, Analyzing

LEMMA GapSend == TypeInv /\ FollowsWithoutGaps /\ Send => FollowsWithoutGaps'
<1> SUFFICES ASSUME TypeInv, FollowsWithoutGaps, Send PROVE FollowsWithoutGaps'
    OBVIOUS
<1> DEFINE h == Head(outbox)
<1>1. /\ UNCHANGED <<pc, number, durable, doubtful>> /\ outbox # <<>>
      /\ accepted' = Append(accepted, h) /\ outbox' = Tail(outbox)
      BY DEF Send, Log!Accept, task
<1>2. outbox \in Seq(Rows) /\ accepted \in Seq(Rows) /\ h \in Rows
      BY <1>1, HeadTailProperties DEF TypeInv, TypeOK, RowsIn
<1>3. Heights(outbox) = HeightOf(h) \cup Heights(outbox')
      BY <1>1, <1>2, HeightsOfTail
<1>4. /\ Len(accepted') = Len(accepted) + 1 /\ Len(accepted) \in Nat
      /\ \A k \in 0..Len(accepted) : HeightsUpTo(accepted', k) = HeightsUpTo(accepted, k)
      /\ Heights(accepted') = Heights(accepted) \cup HeightOf(h)
      BY <1>1, <1>2, HeightsOfAppend
<1>5. Gapless(OnItsWay)
  <2>1. Len(accepted) \in 0..Len(accepted)
        BY <1>4
  <2>2. QED BY <2>1 DEF FollowsWithoutGaps, OnItsWay, Heights
<1>6. OnItsWay' = OnItsWay \cup HeightOf(h)
      BY <1>1, <1>4 DEF OnItsWay
<1>7. Gapless(OnItsWay')
  <2>1. CASE h.table = "block"
    <3>1. h.number \in Heights(outbox) /\ HeightOf(h) = {h.number}
          BY <1>3, <2>1 DEF HeightOf
    <3>2. h.number \in Nat
          BY <1>2, <2>1, RowTypes, NodeAssumption
    <3>3. 1..h.number - 1 \subseteq OnItsWay
          BY <3>1 DEF FollowsWithoutGaps
    <3>4. Gapless(OnItsWay \cup {h.number})
          BY <1>5, <3>2, <3>3, GaplessNext
    <3>5. QED BY <1>6, <3>1, <3>4
  <2>2. CASE h.table # "block"
        BY <1>5, <1>6, <2>2 DEF HeightOf
  <2>3. QED BY <2>1, <2>2
<1>8. ASSUME NEW k \in 0..Len(accepted')
      PROVE  Gapless(Heights(durable) \cup HeightsUpTo(accepted', k))
  <2>1. CASE k = Len(accepted')
        BY <1>1, <1>7, <2>1 DEF OnItsWay, Heights
  <2>2. CASE k # Len(accepted')
    <3>1. k \in 0..Len(accepted)
          BY <1>4, <2>2
    <3>2. QED BY <1>4, <3>1 DEF FollowsWithoutGaps
  <2>3. QED BY <2>1, <2>2
<1>9. OnItsWay' \cup Heights(outbox') = OnItsWay \cup Heights(outbox)
      BY <1>3, <1>6
<1> HIDE DEF h
<1>10. \A n \in Heights(outbox') : 1..n - 1 \subseteq OnItsWay'
      BY <1>3, <1>6 DEF FollowsWithoutGaps
<1>11. \A b \in doubtful' : Gapless(Heights(durable') \cup Heights(b))
      BY <1>1 DEF FollowsWithoutGaps
<1>12. NoGaps'
      BY <1>1 DEF FollowsWithoutGaps, NoGaps
<1>13. QED BY <1>1, <1>8, <1>9, <1>10, <1>11, <1>12 DEF FollowsWithoutGaps, Analyzing

LEMMA GapPersist == TypeInv /\ FollowsWithoutGaps /\ Persist => FollowsWithoutGaps'
<1> SUFFICES ASSUME TypeInv, FollowsWithoutGaps, Persist PROVE FollowsWithoutGaps'
    OBVIOUS
<1>1. PICK n \in 1..LogMaxBatch : Log!Persist(n)
      BY DEF Persist
<1> DEFINE a == SubSeq(accepted, 1, n)
           z == SubSeq(accepted, n + 1, Len(accepted))
<1>2. /\ durable' = durable \o a /\ accepted' = z
      /\ UNCHANGED <<pc, number, outbox, doubtful>>
      BY <1>1 DEF Persist, Log!Persist, task
<1>3. durable \in Seq(Rows) /\ accepted \in Seq(Rows)
      BY DEF TypeInv, TypeOK, RowsIn
<1>4. n \in 0..Len(accepted) /\ Len(accepted) \in Nat
      BY <1>1, <1>3, LenProperties, FollowerAssumption DEF Log!Persist
<1>5. a \in Seq(Rows) /\ Len(z) = Len(accepted) - n
  <2>1. \A i \in 1..n : accepted[i] \in Rows
        BY <1>3, <1>4
  <2>2. a \in Seq(Rows)
        BY <1>4, <2>1, SubSeqProperties
  <2>3. \A i \in n + 1..Len(accepted) : accepted[i] \in Rows
        BY <1>3, <1>4
  <2>4. n + 1 \in Int /\ Len(accepted) \in Int
        BY <1>4
  <2>5. Len(z) = IF n + 1 <= Len(accepted) THEN Len(accepted) - (n + 1) + 1 ELSE 0
        BY <2>3, <2>4, SubSeqProperties
  <2> HIDE DEF a, z
  <2>6. Len(z) = Len(accepted) - n
        BY <1>4, <2>5
  <2>7. QED BY <2>2, <2>6
<1>6. Heights(durable') = Heights(durable) \cup HeightsUpTo(accepted, n)
  <2>1. Heights(durable \o a) = Heights(durable) \cup Heights(a)
        BY <1>3, <1>5, HeightsConcat
  <2>2. Heights(a) = HeightsUpTo(accepted, n)
        BY <1>3, <1>4, HeightsOfPrefix
  <2> HIDE DEF a, z
  <2>3. QED BY <1>2, <2>1, <2>2
<1>7. \A k \in 0..Len(accepted) - n :
          HeightsUpTo(accepted, n) \cup HeightsUpTo(z, k) = HeightsUpTo(accepted, n + k)
      BY <1>3, <1>4, HeightsOfRest
<1> HIDE DEF a, z
<1>8. ASSUME NEW k \in 0..Len(accepted')
      PROVE  Gapless(Heights(durable') \cup HeightsUpTo(accepted', k))
  <2>1. k \in 0..Len(accepted) - n /\ n + k \in 0..Len(accepted)
        BY <1>2, <1>4, <1>5
  <2>2. Heights(durable') \cup HeightsUpTo(accepted', k)
            = Heights(durable) \cup HeightsUpTo(accepted, n + k)
        BY <1>2, <1>6, <1>7, <2>1
  <2>3. QED BY <2>1, <2>2 DEF FollowsWithoutGaps
<1>9. OnItsWay' = OnItsWay
  <2>1. Len(accepted) - n \in 0..Len(accepted) - n /\ n + (Len(accepted) - n) = Len(accepted)
        BY <1>4
  <2>2. HeightsUpTo(accepted, n) \cup Heights(z) = Heights(accepted)
        BY <1>5, <1>7, <2>1 DEF Heights
  <2>3. QED BY <1>2, <1>6, <2>2 DEF OnItsWay
<1>10. Gapless(Heights(durable'))
      BY <1>4, <1>6 DEF FollowsWithoutGaps
<1>11. ASSUME NEW b \in doubtful'
       PROVE  Gapless(Heights(durable') \cup Heights(b))
  <2>1. Gapless(Heights(durable) \cup Heights(b))
        BY <1>2 DEF FollowsWithoutGaps
  <2>2. Heights(durable') \cup Heights(b)
            = Heights(durable') \cup (Heights(durable) \cup Heights(b))
        BY <1>6
  <2>3. QED BY <1>10, <2>1, <2>2, GaplessUnion
<1>12. QED BY <1>2, <1>8, <1>9, <1>10, <1>11 DEF FollowsWithoutGaps, NoGaps, Analyzing

LEMMA GapSettle == TypeInv /\ FollowsWithoutGaps /\ Settle => FollowsWithoutGaps'
<1> SUFFICES ASSUME TypeInv, FollowsWithoutGaps, Settle PROVE FollowsWithoutGaps'
    OBVIOUS
<1>1. PICK b \in doubtful : Log!Settle(b)
      BY DEF Settle
<1>2. /\ durable' = durable \/ durable' = durable \o b
      /\ doubtful' \subseteq doubtful /\ UNCHANGED <<pc, number, outbox, accepted>>
      BY <1>1 DEF Settle, Log!Settle, task
<1>3. durable \in Seq(Rows) /\ b \in Seq(Rows)
      BY DEF TypeInv, TypeOK, RowsIn
<1>4. \/ Heights(durable') = Heights(durable)
      \/ Heights(durable') = Heights(durable) \cup Heights(b)
  <2>1. Heights(durable \o b) = Heights(durable) \cup Heights(b)
        BY <1>3, HeightsConcat
  <2> DEFINE d == durable \o b
  <2>2. durable' = durable \/ durable' = d
        BY <1>2
  <2>3. Heights(d) = Heights(durable) \cup Heights(b)
        BY <2>1
  <2> HIDE DEF d
  <2>4. QED BY <2>2, <2>3
<1>5. Gapless(Heights(durable')) /\ Heights(durable) \subseteq Heights(durable')
      BY <1>4 DEF FollowsWithoutGaps, NoGaps
<1>6. ASSUME NEW S, Gapless(Heights(durable) \cup S)
      PROVE  Gapless(Heights(durable') \cup S)
  <2>1. Heights(durable') \cup S = Heights(durable') \cup (Heights(durable) \cup S)
        BY <1>5
  <2>2. QED BY <1>5, <1>6, <2>1, GaplessUnion
<1>7. OnItsWay \subseteq OnItsWay'
      BY <1>2, <1>5 DEF OnItsWay
<1>8. \A k \in 0..Len(accepted') : Gapless(Heights(durable') \cup HeightsUpTo(accepted', k))
      BY <1>2, <1>6 DEF FollowsWithoutGaps
<1>9. \A c \in doubtful' : Gapless(Heights(durable') \cup Heights(c))
      BY <1>2, <1>6 DEF FollowsWithoutGaps
<1>10. QED BY <1>2, <1>5, <1>7, <1>8, <1>9 DEF FollowsWithoutGaps, NoGaps, Analyzing

LEMMA GapCrash == TypeInv /\ FollowsWithoutGaps /\ Crash => FollowsWithoutGaps'
<1> SUFFICES ASSUME TypeInv, FollowsWithoutGaps, Crash PROVE FollowsWithoutGaps'
    OBVIOUS
<1>1. PICK n \in 0..LogMaxBatch : Log!Crash(n)
      BY DEF Crash
<1>2. /\ accepted' = <<>> /\ outbox' = <<>> /\ durable' = durable /\ pc' = "down"
      /\ doubtful' \subseteq doubtful \cup {SubSeq(accepted, 1, n)}
      BY <1>1 DEF Crash, Log!Crash
<1>3. accepted \in Seq(Rows) /\ n \in 0..Len(accepted)
      BY <1>1, LenProperties, FollowerAssumption DEF Log!Crash, TypeInv, TypeOK, RowsIn
<1>4. Gapless(Heights(durable) \cup Heights(SubSeq(accepted, 1, n)))
      BY <1>3, HeightsOfPrefix DEF FollowsWithoutGaps
<1>5. \A b \in doubtful' : Gapless(Heights(durable') \cup Heights(b))
      BY <1>2, <1>4 DEF FollowsWithoutGaps
<1>6. Heights(outbox') = {} /\ \A k \in 0..Len(accepted') : HeightsUpTo(accepted', k) = {}
      BY <1>2, HeightsOfNone
<1>7. QED BY <1>2, <1>5, <1>6 DEF FollowsWithoutGaps, NoGaps, Analyzing

LEMMA GapStep == TypeInv /\ FollowsWithoutGaps /\ [Next]_vars => FollowsWithoutGaps'
BY GapStart, GapRead, GapAnalyzeBlock, GapAnalyze, GapAnalyzeEpoch, GapSend, GapPersist,
   GapSettle, GapCrash
DEF Next, Analyze

(* The table never misses a height below one it has: whatever crashes lose *)
(* of the batches, however late the server commits what was orphaned, and  *)
(* whichever of the rows the clocks of the miners make the latest one.     *)
THEOREM NoGapsEver == Spec => []NoGaps
<1>1. Init => TypeInv /\ FollowsWithoutGaps
      BY TypeInvInit, GapInit
<1>2. TypeInv /\ FollowsWithoutGaps /\ [Next]_vars => TypeInv' /\ FollowsWithoutGaps'
      BY TypeInvStep, GapStep
<1>3. FollowsWithoutGaps => NoGaps
      BY DEF FollowsWithoutGaps
<1>4. QED BY <1>1, <1>2, <1>3, PTL DEF Spec

(***************************************************************************)
(* What a crash costs.                                                     *)
(***************************************************************************)

IsBlock(r) == r.table = "block"

(* The rows of uncles of block n among the i-th to the j-th of s.          *)
UncleRows(s, i, j, n) == {k \in i..j : s[k].table = "uncle" /\ s[k].number = n - 1}

(* They are, with m more, as many as the node knows of block n of chain c. *)
Enough(c, s, i, j, n, m) ==
    c[n].body.known \in 0..Cardinality(UncleRows(s, i, j, n)) + m

(* From d on the rows of s are those of one life: a block comes after all  *)
(* rows of those before, which start with block n if there is one.         *)
Orderly(c, s, d, n) ==
    /\ \A i, j \in d + 1..Len(s) :
           i < j /\ IsBlock(s[i]) /\ IsBlock(s[j])
           => Enough(c, s, i + 1, j - 1, s[i].number, 0)
    /\ \A j \in d + 1..Len(s) :
           IsBlock(s[j]) => n = 0 \/ Enough(c, s, 1, j - 1, n, 0)

(* The blocks that miss a row of an uncle among the first d rows.          *)
Short(c, s, d) ==
    {n \in Nat : /\ \E i \in 1..d : IsBlock(s[i]) /\ s[i].number = n
                 /\ ~Enough(c, s, 1, d, n, 0)}

Moved(k, x, l) == IF k <= x THEN k ELSE k + l

(* The i-th to j-th rows of s are among the i2-th to j2-th of t, those     *)
(* after x are l places further on.                                        *)
Copied(s, i, j, t, i2, j2, x, l) ==
    \A k \in i..j : Moved(k, x, l) \in i2..j2 /\ t[Moved(k, x, l)] = s[k]

(* They are no fewer there.                                                *)
LEMMA RowsMove ==
    ASSUME NEW s, NEW t, NEW n, NEW i \in Int, NEW j \in Int, NEW i2 \in Int, NEW j2 \in Int,
           NEW x \in Int, NEW l \in Nat, Copied(s, i, j, t, i2, j2, x, l)
    PROVE  /\ Cardinality(UncleRows(s, i, j, n)) \in Nat
           /\ Cardinality(UncleRows(t, i2, j2, n)) \in Nat
           /\ Cardinality(UncleRows(s, i, j, n)) <= Cardinality(UncleRows(t, i2, j2, n))
<1> DEFINE S == UncleRows(s, i, j, n)  T == UncleRows(t, i2, j2, n)
           f == [k \in S |-> Moved(k, x, l)]
<1>1. IsFiniteSet(T) /\ IsFiniteSet(S)
  <2>1. T \in SUBSET (i2..j2) /\ S \in SUBSET (i..j)
        BY DEF UncleRows
  <2>2. QED BY <2>1, FS_Interval, FS_Subset
<1>2. \A k \in S : f[k] \in T
      BY DEF UncleRows, Copied
<1>3. ASSUME NEW a \in S, NEW b \in S, f[a] = f[b] PROVE a = b
      BY <1>3 DEF Moved, UncleRows
<1>4. f \in Injection(S, T)
      BY <1>2, <1>3 DEF Injection, IsInjective
<1>5. QED BY <1>1, <1>4, FS_Injection, FS_CardinalityType

LEMMA EnoughMoves ==
    ASSUME NEW c, NEW s, NEW t, NEW n, NEW i \in Int, NEW j \in Int, NEW i2 \in Int,
           NEW j2 \in Int, NEW x \in Int, NEW l \in Nat, NEW m \in Nat, NEW m2 \in Nat,
           m <= m2, Enough(c, s, i, j, n, m), Copied(s, i, j, t, i2, j2, x, l)
    PROVE  Enough(c, t, i2, j2, n, m2)
<1> DEFINE a == Cardinality(UncleRows(s, i, j, n))
           b == Cardinality(UncleRows(t, i2, j2, n))
<1>1. a \in Nat /\ b \in Nat /\ a <= b
      BY RowsMove
<1>2. c[n].body.known \in 0..a + m
      BY DEF Enough
<1> HIDE DEF a, b
<1>3. c[n].body.known \in 0..b + m2
      BY <1>1, <1>2
<1>4. QED BY <1>3 DEF Enough, b

LEMMA EnoughWider ==
    ASSUME NEW c, NEW s, NEW n, NEW i \in Int, NEW j \in Int, NEW i2 \in Int, NEW j2 \in Int,
           NEW m \in Nat, i2 <= i, j <= j2, Enough(c, s, i, j, n, m)
    PROVE  Enough(c, s, i2, j2, n, m)
<1>1. Copied(s, i, j, s, i2, j2, j, 0)
      BY DEF Moved, Copied
<1>2. QED BY <1>1, EnoughMoves, 0 \in Nat

(* Other rows may come in at d, and the last ones may be cut off.          *)
LEMMA OrderlyMoves ==
    ASSUME NEW c, NEW s, NEW t, NEW n, NEW d \in Nat, NEW l \in Nat,
           Len(s) \in Nat, Len(t) \in Nat, Len(t) <= Len(s) + l,
           \A k \in 1..Len(s) : Moved(k, d, l) <= Len(t) => t[Moved(k, d, l)] = s[k],
           Orderly(c, s, d, n)
    PROVE  Orderly(c, t, d + l, n)
<1>1. ASSUME NEW j \in d + l + 1..Len(t)
      PROVE  /\ j - l \in d + 1..Len(s) /\ t[j] = s[j - l]
  <2>1. j - l \in d + 1..Len(s) /\ Moved(j - l, d, l) = j
        BY DEF Moved
  <2>2. QED BY <2>1
<1>2. ASSUME NEW i \in 1..Len(s), NEW j \in d + l + 1..Len(t), i = 1 \/ d < i, NEW m,
             Enough(c, s, i, j - l - 1, m, 0)
      PROVE  Enough(c, t, Moved(i, d, l), j - 1, m, 0)
                 /\ (i = 1 => Enough(c, t, 1, j - 1, m, 0))
  <2>1. ASSUME NEW k \in i..j - l - 1
        PROVE  Moved(k, d, l) \in Moved(i, d, l)..j - 1 /\ t[Moved(k, d, l)] = s[k]
    <3>1. Moved(k, d, l) \in Moved(i, d, l)..j - 1 /\ Moved(k, d, l) <= Len(t)
          BY DEF Moved
    <3>2. k \in 1..Len(s)
          BY <1>1
    <3>3. QED BY <3>1, <3>2
  <2>2. i \in Int /\ j - l - 1 \in Int /\ Moved(i, d, l) \in Int /\ j - 1 \in Int
        BY DEF Moved
  <2>3. Enough(c, t, Moved(i, d, l), j - 1, m, 0)
    <3>1. Copied(s, i, j - l - 1, t, Moved(i, d, l), j - 1, d, l)
          BY <2>1 DEF Copied
    <3>2. QED BY <1>2, <2>2, <3>1, EnoughMoves, 0 \in Nat
  <2>4. ASSUME i = 1 PROVE Enough(c, t, 1, j - 1, m, 0)
    <3>1. 1 <= Moved(i, d, l)
          BY <2>4 DEF Moved
    <3>2. QED BY <2>2, <2>3, <3>1, EnoughWider, 0 \in Nat
  <2>5. QED BY <2>3, <2>4
<1>3. ASSUME NEW i \in d + l + 1..Len(t), NEW j \in d + l + 1..Len(t),
             i < j, IsBlock(t[i]), IsBlock(t[j])
      PROVE  Enough(c, t, i + 1, j - 1, t[i].number, 0)
  <2>1. Enough(c, s, i - l + 1, j - l - 1, s[i - l].number, 0)
    <3> DEFINE a == i - l  b == j - l
    <3>1. a \in d + 1..Len(s) /\ b \in d + 1..Len(s) /\ t[i] = s[a] /\ t[j] = s[b] /\ a < b
          BY <1>1, <1>3
    <3> HIDE DEF a, b
    <3>2. Enough(c, s, a + 1, b - 1, s[a].number, 0)
          BY <1>3, <3>1 DEF Orderly
    <3>3. QED BY <3>2 DEF a, b
  <2>2. i - l + 1 \in 1..Len(s) /\ d < i - l + 1 /\ Moved(i - l + 1, d, l) = i + 1
    <3>1. i \in Int /\ j \in Int /\ d + l + 1 <= i /\ i < j /\ j <= Len(t)
          BY <1>3
    <3>2. i - l + 1 \in Int /\ d < i - l + 1 /\ i - l + 1 <= Len(s)
          BY <3>1
    <3>3. (i - l + 1) + l = i + 1 /\ ~(i - l + 1 <= d)
          BY <3>1, <3>2
    <3>4. Moved(i - l + 1, d, l) = i + 1
          BY <3>3 DEF Moved
    <3>5. QED BY <3>2, <3>4
  <2>3. QED BY <1>1, <1>2, <2>1, <2>2
<1>4. ASSUME NEW j \in d + l + 1..Len(t), IsBlock(t[j]), n # 0
      PROVE  Enough(c, t, 1, j - 1, n, 0)
  <2>1. Enough(c, s, 1, j - l - 1, n, 0)
        BY <1>1, <1>4 DEF Orderly
  <2>2. 1 \in 1..Len(s)
        BY <1>1
  <2>3. QED BY <1>2, <2>1, <2>2
<1>5. QED BY <1>3, <1>4 DEF Orderly

(* The next row, if it is that of a block, comes after all of those before.*)
LEMMA OrderlyNext ==
    ASSUME NEW c, NEW s, NEW t, NEW n, NEW d \in Nat, Len(s) \in Nat, Len(t) = Len(s) + 1,
           d <= Len(s), \A k \in 1..Len(s) : t[k] = s[k], Orderly(c, s, d, n),
           IsBlock(t[Len(t)]) =>
               /\ \A i \in d + 1..Len(s) :
                      IsBlock(s[i]) => Enough(c, s, i + 1, Len(s), s[i].number, 0)
               /\ n = 0 \/ Enough(c, s, 1, Len(s), n, 0)
    PROVE  Orderly(c, t, d, n)
<1>1. ASSUME NEW i \in Int, NEW j \in Int, 1 <= i, j <= Len(s), NEW m, Enough(c, s, i, j, m, 0)
      PROVE  Enough(c, t, i, j, m, 0)
  <2>1. Copied(s, i, j, t, i, j, j, 0)
        BY <1>1 DEF Moved, Copied
  <2>2. QED BY <1>1, <2>1, EnoughMoves, 0 \in Nat
<1>2. ASSUME NEW i \in d + 1..Len(t), NEW j \in d + 1..Len(t),
             i < j, IsBlock(t[i]), IsBlock(t[j])
      PROVE  Enough(c, t, i + 1, j - 1, t[i].number, 0)
  <2>1. i \in d + 1..Len(s) /\ t[i] = s[i]
        BY <1>2
  <2>2. Enough(c, s, i + 1, j - 1, s[i].number, 0)
    <3>1. CASE j = Len(t)
          BY <1>2, <2>1, <3>1
    <3>2. CASE j # Len(t)
      <4>1. j \in d + 1..Len(s) /\ t[j] = s[j]
            BY <3>2
      <4>2. QED BY <1>2, <2>1, <4>1 DEF Orderly
    <3>3. QED BY <3>1, <3>2
  <2>3. QED BY <1>1, <2>1, <2>2
<1>3. ASSUME NEW j \in d + 1..Len(t), IsBlock(t[j]), n # 0
      PROVE  Enough(c, t, 1, j - 1, n, 0)
  <2>1. Enough(c, s, 1, j - 1, n, 0)
    <3>1. CASE j = Len(t)
          BY <1>3, <3>1
    <3>2. CASE j # Len(t)
      <4>1. j \in d + 1..Len(s) /\ t[j] = s[j]
            BY <3>2
      <4>2. QED BY <1>3, <4>1 DEF Orderly
    <3>3. QED BY <3>1, <3>2
  <2>2. QED BY <1>1, <2>1
<1>4. QED BY <1>2, <1>3 DEF Orderly

(* When more rows of s become durable, one block takes the place of n.     *)
LEMMA Advance ==
    ASSUME NEW c, NEW s, NEW n, NEW d \in Nat, NEW e \in Nat, Len(s) \in Nat,
           d <= e, e <= Len(s), Orderly(c, s, d, n),
           \A i \in 1..Len(s) : IsBlock(s[i]) => s[i].number \in Nat \ {0}
    PROVE  \E m : /\ m = n \/ \E i \in d + 1..e : IsBlock(s[i]) /\ m = s[i].number
                  /\ Orderly(c, s, e, m)
                  /\ Short(c, s, e) \subseteq (Short(c, s, d) \ {n}) \cup {m}
<1> DEFINE Blocks == {i \in d + 1..e : IsBlock(s[i])}
<1>1. ASSUME NEW m, ~Enough(c, s, 1, e, m, 0)
      PROVE  \A i, j \in Int : 1 <= i /\ j <= e => ~Enough(c, s, i, j, m, 0)
      BY <1>1, EnoughWider, 0 \in Nat
<1>2. CASE Blocks = {}
  <2>1. Orderly(c, s, e, n)
        BY DEF Orderly
  <2>2. Short(c, s, e) \subseteq Short(c, s, d)
    <3>1. ASSUME NEW m \in Short(c, s, e) PROVE m \in Short(c, s, d)
      <4>1. PICK i \in 1..e : IsBlock(s[i]) /\ s[i].number = m
            BY DEF Short
      <4>2. i \in 1..d
            BY <1>2, <4>1
      <4>3. ~Enough(c, s, 1, d, m, 0)
            BY <1>1 DEF Short
      <4>4. QED BY <4>1, <4>2, <4>3 DEF Short
    <3>2. QED BY <3>1
  <2>3. QED BY <2>1, <2>2
<1>3. CASE Blocks # {}
  <2>1. PICK i \in Blocks : \A j \in Blocks : j <= i
    <3> DEFINE T == {e - j : j \in Blocks}
    <3>1. T \subseteq Nat /\ T # {}
          BY <1>3
    <3>2. PICK x \in T : \A y \in T : x <= y
          BY <3>1, Least
    <3>3. PICK i \in Blocks : x = e - i
          BY <3>2
    <3>4. ASSUME NEW j \in Blocks PROVE j <= i
      <4>1. e - i <= e - j
            BY <3>2, <3>3
      <4>2. QED BY <4>1
    <3>5. QED BY <3>4
  <2> DEFINE m == s[i].number
  <2>2. i \in d + 1..e /\ IsBlock(s[i]) /\ m \in Nat \ {0}
        BY DEF IsBlock
  <2>3. Orderly(c, s, e, m)
    <3>1. ASSUME NEW j \in e + 1..Len(s), IsBlock(s[j])
          PROVE  Enough(c, s, 1, j - 1, m, 0)
      <4>1. Enough(c, s, i + 1, j - 1, m, 0)
            BY <2>2, <3>1 DEF Orderly
      <4>2. QED BY <2>2, <4>1, EnoughWider, 0 \in Nat
    <3>2. ASSUME NEW a \in e + 1..Len(s), NEW j \in e + 1..Len(s),
                 a < j, IsBlock(s[a]), IsBlock(s[j])
          PROVE  Enough(c, s, a + 1, j - 1, s[a].number, 0)
          BY <3>2 DEF Orderly
    <3>3. QED BY <3>1, <3>2 DEF Orderly
  <2>4. ASSUME NEW h \in Short(c, s, e) PROVE h \in Short(c, s, d) \ {n} \/ h = m
    <3>1. h \in Nat /\ ~Enough(c, s, 1, e, h, 0)
          BY DEF Short
    <3>2. PICK p \in 1..e : IsBlock(s[p]) /\ s[p].number = h
          BY DEF Short
    <3>3. CASE p <= d
      <4>1. h # n
        <5>1. ASSUME h = n PROVE FALSE
          <6>1. n # 0
                BY <3>2, <5>1
          <6>2. Enough(c, s, 1, i - 1, n, 0)
                BY <2>2, <6>1 DEF Orderly
          <6>3. QED BY <1>1, <2>2, <3>1, <5>1, <6>2
        <5>2. QED BY <5>1
      <4>2. ~Enough(c, s, 1, d, h, 0) /\ p \in 1..d
            BY <1>1, <3>1, <3>3
      <4>3. QED BY <3>1, <3>2, <4>1, <4>2 DEF Short
    <3>4. CASE d < p
      <4>1. p \in Blocks /\ p <= i
            BY <2>1, <3>2, <3>4
      <4>2. CASE p = i
            BY <3>2, <4>2
      <4>3. CASE p < i
        <5>1. Enough(c, s, p + 1, i - 1, h, 0)
              BY <2>2, <3>2, <4>1, <4>3 DEF Orderly
        <5>2. QED BY <1>1, <2>2, <3>1, <5>1
      <4>4. QED BY <4>1, <4>2, <4>3
    <3>5. QED BY <3>3, <3>4
  <2>5. QED BY <2>2, <2>3, <2>4
<1>4. QED BY <1>2, <1>3

(* Sequences that begin alike miss the same.                               *)
LEMMA ShortIs ==
    ASSUME NEW c, NEW s, NEW t, NEW d \in Nat, \A k \in 1..d : t[k] = s[k]
    PROVE  Short(c, s, d) = Short(c, t, d)
<1>1. \A n : UncleRows(s, 1, d, n) = UncleRows(t, 1, d, n)
      BY DEF UncleRows
<1>2. QED BY <1>1 DEF Short, Enough

(* What an insertion leaves where.                                         *)
Inserted(x, b, y, s, t) ==
    /\ Len(x) \in Nat /\ Len(b) \in Nat /\ Len(y) \in Nat
    /\ s \in Seq(Rows) /\ Len(s) = Len(x) + Len(y)
    /\ t \in Seq(Rows) /\ Len(t) = Len(x) + Len(b) + Len(y)
    /\ \A k \in 1..Len(x) : s[k] = x[k]
    /\ \A k \in 1..Len(s) : t[Moved(k, Len(x), Len(b))] = s[k]

LEMMA InsertIs ==
    ASSUME NEW x \in Seq(Rows), NEW b \in Seq(Rows), NEW y \in Seq(Rows)
    PROVE  Inserted(x, b, y, x \o y, (x \o b) \o y)
<1>1. /\ Len(x) \in Nat /\ Len(b) \in Nat /\ Len(y) \in Nat
      /\ x \o y \in Seq(Rows) /\ Len(x \o y) = Len(x) + Len(y)
      /\ x \o b \in Seq(Rows) /\ Len(x \o b) = Len(x) + Len(b)
      BY ConcatProperties, LenProperties
<1> DEFINE z == x \o b
<1>2. \A k \in 1..Len(x) : z[k] = x[k] /\ (x \o y)[k] = x[k]
      BY ConcatProperties
<1>3. /\ z \o y \in Seq(Rows) /\ Len(z \o y) = Len(z) + Len(y)
      /\ \A k \in 1..Len(z) : (z \o y)[k] = z[k]
      /\ \A k \in Len(z) + 1..Len(z) + Len(y) : (z \o y)[k] = y[k - Len(z)]
      BY <1>1, ConcatProperties
<1>4. \A k \in Len(x) + 1..Len(x) + Len(y) : (x \o y)[k] = y[k - Len(x)]
      BY ConcatProperties
<1> HIDE DEF z
<1>5. ASSUME NEW k \in 1..Len(x \o y)
      PROVE  (z \o y)[Moved(k, Len(x), Len(b))] = (x \o y)[k]
  <2>1. CASE k <= Len(x)
        BY <1>1, <1>2, <1>3, <2>1 DEF Moved, z
  <2>2. CASE Len(x) < k
    <3>1. k + Len(b) \in Len(z) + 1..Len(z) + Len(y) /\ k + Len(b) - Len(z) = k - Len(x)
          BY <1>1, <2>2 DEF z
    <3>2. Moved(k, Len(x), Len(b)) = k + Len(b)
          BY <1>1, <2>2 DEF Moved
    <3>3. QED BY <1>1, <1>3, <1>4, <2>2, <3>1, <3>2
  <2>3. k <= Len(x) \/ Len(x) < k
    <3>1. Len(x \o y) \in Nat /\ k \in Int
          BY <1>1
    <3>2. QED BY <1>1, <3>1
  <2>4. QED BY <2>1, <2>2, <2>3, Zenon
<1>6. QED BY <1>1, <1>2, <1>3, <1>5 DEF z, Inserted

(* A batch of a dead process that is committed late.                       *)
LEMMA OrderlyInsert ==
    ASSUME NEW c, NEW n, NEW x \in Seq(Rows), NEW b \in Seq(Rows), NEW y \in Seq(Rows),
           Orderly(c, x \o y, Len(x), n)
    PROVE  Orderly(c, (x \o b) \o y, Len(x) + Len(b), n)
<1> DEFINE s == x \o y  t == (x \o b) \o y
<1>1. /\ Len(x) \in Nat /\ Len(b) \in Nat /\ Len(s) \in Nat /\ Len(t) \in Nat
      /\ Len(t) <= Len(s) + Len(b)
      /\ \A k \in 1..Len(s) : t[Moved(k, Len(x), Len(b))] = s[k]
  <2>1. Inserted(x, b, y, s, t)
        BY InsertIs
  <2> HIDE DEF s, t
  <2>2. QED BY <2>1 DEF Inserted
<1>2. Orderly(c, s, Len(x), n)
      OBVIOUS
<1> HIDE DEF s, t
<1>3. Orderly(c, t, Len(x) + Len(b), n)
      BY <1>1, <1>2, OrderlyMoves
<1>4. QED BY <1>3 DEF t

LEMMA EnoughOne ==
    ASSUME NEW c, NEW s, NEW t, NEW n, NEW i \in Int, NEW j \in Int, NEW m \in Nat,
           i <= j + 1, \A k \in i..j : t[k] = s[k],
           t[j + 1].table = "uncle", t[j + 1].number = n - 1, Enough(c, s, i, j, n, m + 1)
    PROVE  Enough(c, t, i, j + 1, n, m)
<1> DEFINE a == UncleRows(s, i, j, n)  b == UncleRows(t, i, j + 1, n)
<1>1. IsFiniteSet(a)
      BY FS_Interval, FS_Subset, a \in SUBSET (i..j) DEF UncleRows
<1>2. b = a \cup {j + 1} /\ j + 1 \notin a
      BY DEF UncleRows
<1>3. Cardinality(b) = Cardinality(a) + 1 /\ Cardinality(a) \in Nat
      BY <1>1, <1>2, FS_AddElement, FS_CardinalityType
<1> HIDE DEF a, b
<1>4. c[n].body.known \in 0..Cardinality(b) + m
      BY <1>3 DEF Enough, a
<1>5. QED BY <1>4 DEF Enough, b

(* Rows of uncles that are still to come.                                  *)
Owes(n) == IF pc = "uncles" /\ n = number THEN unread ELSE 0

(* All others of the blocks of this life have been handed over; n stands   *)
(* for the one of which the database has the row and not the rest.         *)
Sent(n) ==
    LET last == Len(History)
    IN  /\ \A i \in Len(durable) + 1..last : IsBlock(History[i]) =>
               Enough(chain, History, i + 1, last, History[i].number, Owes(History[i].number))
        /\ n = 0 \/ Enough(chain, History, 1, last, n, Owes(n))

Settled(n) == n = 0 \/ n + Confirmations < top

(* Each crash answers for one block at most: one of C, or block D[b] as    *)
(* long as the server may still commit batch b, which would heal that      *)
(* block and may leave the last one of b instead.  In the running life it  *)
(* is block n.                                                             *)
Charged(C, D, n) ==
    /\ C \subseteq Nat /\ IsFiniteSet(C) /\ IsFiniteSet(doubtful)
    /\ Cardinality(C) + Cardinality(doubtful) <= crashes
    /\ n \in Nat /\ Settled(n)
    /\ D \in [doubtful -> Nat] /\ \A b \in doubtful : Settled(D[b])
    /\ Short(chain, durable, Len(durable)) \subseteq C \cup {D[b] : b \in doubtful} \cup {n}
    /\ \A b \in doubtful : Orderly(chain, durable \o b, Len(durable), D[b])
    /\ Orderly(chain, History, Len(durable), n)
    /\ pc = "down" => n = 0 /\ accepted = <<>> /\ outbox = <<>>
    /\ pc \notin {"down", "failed"} => Sent(n)

(* CrashCostsOneBlock made inductive, for a mature chain.                  *)
CrashesAreCharged == \E C, D, n : Charged(C, D, n)

LEMMA HistoryParts ==
    ASSUME RowsIn(Rows)
    PROVE  /\ durable \in Seq(Rows) /\ accepted \in Seq(Rows) /\ outbox \in Seq(Rows)
           /\ accepted \o outbox \in Seq(Rows) /\ History = durable \o (accepted \o outbox)
           /\ Len(durable) \in Nat /\ Len(History) \in Nat /\ Len(durable) <= Len(History)
           /\ \A k \in 1..Len(durable) : History[k] = durable[k]
<1>1. durable \in Seq(Rows) /\ accepted \in Seq(Rows) /\ outbox \in Seq(Rows)
      BY DEF RowsIn
<1>2. accepted \o outbox \in Seq(Rows) /\ <<>> \in Seq(Rows)
      BY <1>1, ConcatProperties
<1>3. History = durable \o (accepted \o outbox)
      BY <1>1, ConcatAssociative DEF History
<1>4. Inserted(durable, <<>>, accepted \o outbox, History, (durable \o <<>>) \o (accepted \o outbox))
      BY <1>1, <1>2, <1>3, InsertIs
<1>5. QED BY <1>1, <1>2, <1>3, <1>4 DEF Inserted

(* The blocks of the rows of s.                                            *)
LEMMA HeightOfBlock ==
    ASSUME TypeInv, NEW s, NEW i \in 1..Len(s), s \in Seq(Rows), IsBlock(s[i])
    PROVE  s[i].number \in Nat \ {0}
<1>1. s[i] \in Rows
      OBVIOUS
<1>2. s[i].number \in 1..MaxTip
      BY <1>1, RowTypes DEF IsBlock
<1>3. QED BY <1>2, NodeAssumption

LEMMA OwesNat ==
    ASSUME TypeInv, TypeInv' PROVE \A m : Owes(m) \in Nat /\ Owes(m)' \in Nat
BY DEF TypeInv, TypeOK, Owes

LEMMA ChargedInit == Init => Charged({}, [b \in {} |-> 0], 0)
<1> SUFFICES ASSUME Init PROVE Charged({}, [b \in {} |-> 0], 0)
    OBVIOUS
<1>1. /\ durable = <<>> /\ accepted = <<>> /\ outbox = <<>> /\ doubtful = {}
      /\ pc = "down" /\ crashes = 0
      BY DEF Init, Log!Init
<1>2. History = <<>> /\ Len(durable) = 0 /\ Len(History) = 0
      BY <1>1, ConcatEmptySeq, EmptySeq DEF History
<1>3. Orderly(chain, History, Len(durable), 0)
      BY <1>2 DEF Orderly
<1>4. Short(chain, durable, Len(durable)) = {}
      BY <1>2 DEF Short
<1>5. IsFiniteSet({}) /\ Cardinality({}) = 0
      BY FS_EmptySet
<1>6. QED BY <1>1, <1>3, <1>4, <1>5 DEF Charged, Settled

LEMMA ChargedStays ==
    ASSUME NEW C, NEW D, NEW n, Charged(C, D, n),
           UNCHANGED <<durable, doubtful, crashes, chain, top>>, History' = History,
           pc' # "down", pc' # "failed" => Sent(n)'
    PROVE  Charged(C, D, n)'
<1>1. Settled(n)' /\ \A b \in doubtful : Settled(D[b])'
      BY DEF Charged, Settled
<1>2. QED BY <1>1 DEF Charged

LEMMA SentStays ==
    ASSUME TypeInv, TypeInv', NEW n, Sent(n), UNCHANGED <<durable, chain>>, History' = History,
           \A m : Owes(m)' = Owes(m)
    PROVE  Sent(n)'
BY DEF Sent

(* The rows of a step of the task.                                         *)
LEMMA SentGrows ==
    ASSUME TypeInv, TypeInv', NEW n \in Nat, Sent(n), UNCHANGED <<durable, chain>>,
           NEW row, History' = Append(History, row),
           \A m : \/ Owes(m) = Owes(m)' \/ Owes(m) = 0
                  \/ /\ row.table = "uncle" /\ row.number = m - 1
                     /\ Owes(m) = Owes(m)' + 1,
           IsBlock(row) => \A m : m = row.number => chain[m].body.known \in 0..Owes(m)'
    PROVE  Sent(n)'
<1> DEFINE last == Len(History)
<1>1. /\ History \in Seq(Rows) /\ last \in Nat /\ Len(durable) \in Nat
      /\ Len(durable) <= last
      BY HistoryParts, HistoryType DEF TypeInv, TypeOK
<1>2. /\ Len(History') = last + 1 /\ History'[last + 1] = row
      /\ \A k \in 1..last : History'[k] = History[k]
      BY <1>1, LenProperties
<1> HIDE DEF last
<1>3. ASSUME NEW i \in 1..last + 1, NEW m, Enough(chain, History, i, last, m, Owes(m))
      PROVE  Enough(chain, History', i, last + 1, m, Owes(m)')
  <2>1. Owes(m) \in Nat /\ Owes(m)' \in Nat
        BY OwesNat
  <2>2. CASE Owes(m) = Owes(m)' \/ Owes(m) = 0
    <3>1. Copied(History, i, last, History', i, last + 1, last, 0)
          BY <1>1, <1>2 DEF Copied, Moved
    <3>2. Owes(m) <= Owes(m)'
          BY <2>1, <2>2
    <3>3. QED BY <1>1, <1>3, <2>1, <3>1, <3>2, EnoughMoves, 0 \in Nat
  <2>3. CASE row.table = "uncle" /\ row.number = m - 1 /\ Owes(m) = Owes(m)' + 1
    <3>1. Enough(chain, History, i, last, m, Owes(m)' + 1)
          BY <1>3, <2>3
    <3>2. i \in Int /\ last \in Int /\ i <= last + 1
              /\ \A k \in i..last : History'[k] = History[k]
          BY <1>1, <1>2
    <3>3. QED BY <1>2, <2>1, <2>3, <3>1, <3>2, EnoughOne
  <2>4. QED BY <2>2, <2>3
<1>4. ASSUME NEW i \in Len(durable) + 1..last + 1, NEW m,
             IsBlock(History'[i]), m = History'[i].number
      PROVE  Enough(chain, History', i + 1, last + 1, m, Owes(m)')
  <2>1. CASE i = last + 1
    <3> DEFINE rows == UncleRows(History', i + 1, last + 1, m)
    <3>1. rows = {}
          BY <1>1, <2>1 DEF UncleRows
    <3>2. Cardinality(rows) = 0
          BY <3>1, FS_EmptySet
    <3> HIDE DEF rows
    <3>3. Owes(m)' \in Nat
          BY OwesNat
    <3>4. chain[m].body.known \in 0..Owes(m)'
          BY <1>2, <1>4, <2>1
    <3>5. chain[m].body.known \in 0..Cardinality(rows) + Owes(m)'
          BY <3>2, <3>3, <3>4
    <3>6. QED BY <3>5 DEF Enough, rows
  <2>2. CASE i # last + 1
    <3>1. i \in Len(durable) + 1..last /\ i \in 1..last /\ i + 1 \in 1..last + 1
          BY <1>1, <2>2
    <3>2. History'[i] = History[i]
          BY <1>2, <3>1
    <3>3. Enough(chain, History, i + 1, last, m, Owes(m))
          BY <1>4, <3>1, <3>2 DEF Sent, last
    <3>4. QED BY <1>3, <3>1, <3>3
  <2>3. QED BY <2>1, <2>2
<1>5. n = 0 \/ Enough(chain, History', 1, last + 1, n, Owes(n)')
  <2>1. 1 \in 1..last + 1
        BY <1>1
  <2>2. n = 0 \/ Enough(chain, History, 1, last, n, Owes(n))
        BY DEF Sent, last
  <2>3. QED BY <1>3, <2>1, <2>2
<1>6. QED BY <1>2, <1>4, <1>5 DEF Sent, Owes

LEMMA ChargedGrows ==
    ASSUME TypeInv, TypeInv', NEW C, NEW D, NEW n, Charged(C, D, n),
           UNCHANGED <<durable, doubtful, crashes, chain, top>>,
           NEW row, History' = Append(History, row), pc \notin {"down", "failed"}, pc' # "down",
           \A m : \/ Owes(m) = Owes(m)' \/ Owes(m) = 0
                  \/ /\ row.table = "uncle" /\ row.number = m - 1
                     /\ Owes(m) = Owes(m)' + 1,
           IsBlock(row) => \A m : /\ Owes(m) = 0
                                  /\ m = row.number => chain[m].body.known \in 0..Owes(m)'
    PROVE  Charged(C, D, n)'
<1>1. Settled(n)' /\ \A b \in doubtful : Settled(D[b])'
      BY DEF Charged, Settled
<1>2. n \in Nat /\ Sent(n) /\ Orderly(chain, History, Len(durable), n)
      BY DEF Charged
<1>3. Sent(n)'
      BY <1>2, SentGrows
<1>4. Orderly(chain, History', Len(durable), n)
  <2>1. /\ Len(durable) \in Nat /\ Len(History) \in Nat /\ Len(durable) <= Len(History)
        /\ History \in Seq(Rows)
        BY HistoryParts, HistoryType DEF TypeInv, TypeOK
  <2>2. /\ Len(History') = Len(History) + 1 /\ History'[Len(History')] = row
        /\ \A k \in 1..Len(History) : History'[k] = History[k]
        BY <2>1, LenProperties
  <2>3. IsBlock(row) =>
            /\ \A i \in Len(durable) + 1..Len(History) : IsBlock(History[i]) =>
                   Enough(chain, History, i + 1, Len(History), History[i].number, 0)
            /\ n = 0 \/ Enough(chain, History, 1, Len(History), n, 0)
        BY <1>2 DEF Sent
  <2>4. QED BY <1>2, <2>1, <2>2, <2>3, OrderlyNext
<1>5. QED BY <1>1, <1>3, <1>4 DEF Charged

LEMMA ChargedStart ==
    TypeInv /\ CrashesAreCharged /\ Start => CrashesAreCharged'
<1> SUFFICES ASSUME TypeInv, NEW C, NEW D, NEW n, Charged(C, D, n), Start
             PROVE  Charged(C, D, n)'
    BY DEF CrashesAreCharged
<1>1. /\ pc = "down" /\ pc' = "tip" /\ n = 0 /\ accepted = <<>> /\ outbox = <<>>
      /\ UNCHANGED <<outbox, log, crashes, chain, top>>
      BY DEF Start, Charged, nodeVars
<1>2. History' = History /\ UNCHANGED <<durable, doubtful>>
      BY <1>1, HistoryStays DEF log
<1>3. Len(History) = Len(durable) /\ Len(durable) \in Nat
  <2>1. durable \in Seq(Rows) /\ Len(durable) \in Nat
        BY HistoryParts DEF TypeInv, TypeOK
  <2>2. History = durable
        BY <1>1, <2>1, ConcatEmptySeq DEF History
  <2>3. QED BY <2>1, <2>2
<1>4. Sent(n)'
      BY <1>1, <1>2, <1>3 DEF Sent
<1>5. QED BY <1>1, <1>2, <1>4, ChargedStays

LEMMA ChargedRead ==
    /\ TypeInv /\ TypeInv' /\ CrashesAreCharged
    /\ \/ ReadTip \/ ReadParent \/ Refresh \/ CallPanics
       \/ AnalyzeTransactions \/ PruneZones \/ Send
    => CrashesAreCharged'
<1> SUFFICES ASSUME TypeInv, TypeInv', NEW C, NEW D, NEW n, Charged(C, D, n),
                    \/ ReadTip \/ ReadParent \/ Refresh \/ CallPanics
                    \/ AnalyzeTransactions \/ PruneZones \/ Send
             PROVE  Charged(C, D, n)'
    BY DEF CrashesAreCharged
<1>1. UNCHANGED <<durable, doubtful, crashes, chain, top>> /\ History' = History
  <2>1. CASE Send
    <3>1. RowsIn(Rows)
          BY DEF TypeInv, TypeOK
    <3>2. UNCHANGED <<durable, doubtful, crashes, chain, top>>
          BY <2>1 DEF Send, Log!Accept, nodeVars
    <3>3. QED BY <2>1, <3>1, <3>2, HistoryMoves
  <2>2. CASE ~Send
    <3>1. UNCHANGED <<log, outbox, crashes, chain, top>>
          BY <2>2 DEF ReadTip, ReadParent, Refresh, CallPanics, AnalyzeTransactions,
                      PruneZones, nodeVars
    <3>2. QED BY <3>1, HistoryStays DEF log
  <2>3. QED BY <2>1, <2>2
<1>2. pc' # "down" /\ (pc' = "failed" \/ \A m : Owes(m)' = Owes(m))
  <2>1. CASE Send
    <3>1. pc # "down" /\ UNCHANGED <<pc, number, unread>>
          BY <2>1 DEF Send, task, Charged
    <3>2. QED BY <3>1 DEF Owes
  <2>2. CASE ~Send
        BY <2>2 DEF ReadTip, ReadParent, Refresh, CallPanics, AnalyzeTransactions, PruneZones,
                    Owes
  <2>3. QED BY <2>1, <2>2
<1>3. pc' # "failed" => Sent(n)'
  <2>1. pc' # "failed" => pc \notin {"down", "failed"}
        BY DEF ReadTip, ReadParent, Refresh, CallPanics, AnalyzeTransactions, PruneZones,
               Send, Charged
  <2>2. pc' # "failed" => Sent(n)
        BY <2>1 DEF Charged
  <2>3. QED BY <1>1, <1>2, <2>2, SentStays
<1>4. QED BY <1>1, <1>2, <1>3, ChargedStays

LEMMA ChargedAnalyze ==
    /\ TypeInv /\ TypeInv' /\ CrashesAreCharged
    /\ AnalyzeBlock \/ AnalyzeUncle \/ AnalyzeTransaction \/ AnalyzeEpoch
    => CrashesAreCharged'
<1> SUFFICES ASSUME TypeInv, TypeInv', NEW C, NEW D, NEW n, Charged(C, D, n),
                    AnalyzeBlock \/ AnalyzeUncle \/ AnalyzeTransaction \/ AnalyzeEpoch
             PROVE  Charged(C, D, n)'
    BY DEF CrashesAreCharged
<1>1. /\ UNCHANGED <<log, durable, doubtful, crashes, chain, top>> /\ outbox = <<>>
      /\ pc \notin {"down", "failed"} /\ pc' \notin {"down", "failed"}
      BY DEF AnalyzeBlock, AnalyzeUncle, AnalyzeTransaction, AnalyzeEpoch, log, nodeVars
<1>2. RowsIn(Rows) /\ number \in 0..top + 1 /\ unread \in Nat
      BY NumberTypes DEF TypeInv, TypeOK
<1>3. CASE AnalyzeBlock
  <2>1. PICK row : row = BlockRow(number, block', parent)
        OBVIOUS
  <2>2. /\ outbox' = <<row>> /\ IsBlock(row) /\ row.table # "uncle" /\ row.number = number
        BY <1>3, <2>1 DEF AnalyzeBlock, BlockRow, IsBlock
  <2>3. /\ pc = "block" /\ pc' = "uncles" /\ number' = number
        /\ unread' = chain[number].body.known
        BY <1>3 DEF AnalyzeBlock
  <2>4. unread' \in Nat
        BY DEF TypeInv, TypeOK
  <2>5. \A m : Owes(m) = 0 /\ (m = row.number => chain[m].body.known \in 0..Owes(m)')
        BY <2>2, <2>3, <2>4 DEF Owes
  <2>6. History' = Append(History, row)
        BY <1>1, <1>2, <2>2, HistoryGrows
  <2>7. QED BY <1>1, <2>5, <2>6, ChargedGrows
<1>4. CASE AnalyzeUncle
  <2>1. PICK row : row = UncleRow(number - 1, chain[number - 1])
        OBVIOUS
  <2>2. /\ outbox' = <<row>> /\ ~IsBlock(row) /\ row.table = "uncle"
        /\ row.number = number - 1
        BY <1>4, <2>1 DEF AnalyzeUncle, UncleRow, IsBlock
  <2>3. /\ pc = "uncles" /\ pc' = "uncles" /\ number' = number
        /\ unread = unread' + 1
        BY <1>2, <1>4 DEF AnalyzeUncle
  <2>4. \A m : \/ Owes(m) = Owes(m)'
               \/ row.number = m - 1 /\ Owes(m) = Owes(m)' + 1
        BY <2>2, <2>3 DEF Owes
  <2>5. History' = Append(History, row)
        BY <1>1, <1>2, <2>2, HistoryGrows
  <2>6. QED BY <1>1, <2>2, <2>4, <2>5, ChargedGrows
<1>5. CASE AnalyzeTransaction \/ AnalyzeEpoch
  <2>1. \A m : Owes(m) = 0 /\ Owes(m)' = 0
        BY <1>5 DEF AnalyzeTransaction, AnalyzeEpoch, Owes
  <2>2. outbox' = <<>> \/ \E row : ~IsBlock(row) /\ outbox' = <<row>>
    <3>1. \A m : ~IsBlock(CommitRow(number, number - m))
          BY DEF CommitRow, IsBlock
    <3>2. ~IsBlock(EpochRow(epoch, uncles))
          BY DEF EpochRow, IsBlock
    <3>3. CASE AnalyzeTransaction
      <4>1. outbox' = outbox \/ \E m : outbox' = <<CommitRow(number, number - m)>>
            BY <3>3, Zenon DEF AnalyzeTransaction
      <4>2. QED BY <1>1, <3>1, <4>1, Zenon
    <3>4. CASE AnalyzeEpoch
      <4>1. outbox' = <<>> \/ outbox' = <<EpochRow(epoch, uncles)>>
            BY <3>4 DEF AnalyzeEpoch
      <4>2. QED BY <3>2, <4>1, Zenon
    <3>5. QED BY <1>5, <3>3, <3>4
  <2>3. CASE outbox' = <<>>
    <3>1. History' = History
          BY <1>1, <2>3, HistoryStays
    <3>2. Sent(n)
          BY <1>1 DEF Charged
    <3>3. Sent(n)'
          BY <1>1, <2>1, <3>1, <3>2, SentStays
    <3>4. QED BY <1>1, <3>1, <3>3, ChargedStays
  <2>4. ASSUME NEW row, ~IsBlock(row), outbox' = <<row>>
        PROVE  Charged(C, D, n)'
    <3>1. History' = Append(History, row)
          BY <1>1, <1>2, <2>4, HistoryGrows
    <3>2. QED BY <1>1, <2>1, <2>4, <3>1, ChargedGrows
  <2>5. QED BY <2>2, <2>3, <2>4
<1>6. QED BY <1>3, <1>4, <1>5

LEMMA PrefixIs ==
    ASSUME NEW x \in Seq(Rows), NEW y \in Seq(Rows)
    PROVE  /\ Len(x) \in Nat /\ Len(x \o y) \in Nat /\ Len(x) <= Len(x \o y)
           /\ x \o y \in Seq(Rows) /\ Len(x \o y) = Len(x) + Len(y) /\ Len(y) \in Nat
           /\ \A k \in 1..Len(x) : (x \o y)[k] = x[k]
           /\ \A k \in Len(x) + 1..Len(x) + Len(y) : (x \o y)[k] = y[k - Len(x)]
<1> DEFINE z == x \o y
<1>1. /\ Len(x) \in Nat /\ Len(y) \in Nat
      /\ z \in Seq(Rows) /\ Len(z) = Len(x) + Len(y)
      /\ \A k \in 1..Len(x) + Len(y) :
             z[k] = IF k <= Len(x) THEN x[k] ELSE y[k - Len(x)]
      BY ConcatProperties, LenProperties
<1> HIDE DEF z
<1>2. Len(z) \in Nat /\ Len(x) <= Len(z)
      BY <1>1
<1>3. \A k \in 1..Len(x) : z[k] = x[k]
      BY <1>1
<1>4. \A k \in Len(x) + 1..Len(x) + Len(y) : z[k] = y[k - Len(x)]
      BY <1>1
<1>5. QED BY <1>1, <1>2, <1>3, <1>4 DEF z

(* A block that is recorded has its confirmations.                         *)
LEMMA SettledRow ==
    ASSUME TypeInv, NEW s \in Seq(BuriedRows), NEW i \in 1..Len(s), IsBlock(s[i])
    PROVE  s[i].number \in Nat \ {0} /\ Settled(s[i].number)
<1>1. s[i] \in BuriedRows /\ s[i] \in Rows
      BY DEF BuriedRows
<1>2. s[i].number \in 1..MaxTip
      BY <1>1, RowTypes DEF IsBlock
<1>3. s[i].number + Confirmations < top
      BY <1>1 DEF IsBlock, BuriedRows, Buried
<1>4. QED BY <1>2, <1>3, NodeAssumption DEF Settled

LEMMA ChargedPersist ==
    TypeInv /\ TypeInv' /\ FollowsBuried /\ CrashesAreCharged /\ Persist => CrashesAreCharged'
<1> SUFFICES ASSUME TypeInv, TypeInv', FollowsBuried, NEW C, NEW D, NEW n, Charged(C, D, n),
                    Persist
             PROVE  \E m : Charged(C, D, m)'
    BY DEF CrashesAreCharged
<1>1. PICK k \in 1..LogMaxBatch : Log!Persist(k)
      BY DEF Persist
<1> DEFINE a == SubSeq(accepted, 1, k)  d == Len(durable)  e == Len(durable')
           last == Len(History)
<1>2. RowsIn(Rows) /\ RowsIn(Rows)'
      BY DEF TypeInv, TypeOK
<1>3. /\ History' = History /\ durable' = durable \o a
      /\ UNCHANGED <<doubtful, crashes, chain, top, pc, task>>
      BY <1>1, <1>2, HistoryMoves DEF Log!Persist, Persist, nodeVars
<1>4. k \in 1..Len(accepted) /\ Len(accepted) \in Nat /\ a \in Seq(Rows)
  <2>1. accepted \in Seq(Rows)
        BY <1>2 DEF RowsIn
  <2>2. k \in 1..Len(accepted) /\ Len(accepted) \in Nat
        BY <1>1, <2>1, LenProperties, FollowerAssumption DEF Log!Persist
  <2>3. QED BY <2>1, <2>2, SubSeqProperties
<1>5. pc # "down"
  <2>1. accepted # <<>>
        BY <1>4, EmptySeq
  <2>2. QED BY <2>1 DEF Charged
<1>6. /\ d \in Nat /\ e \in Nat /\ last \in Nat /\ d <= e /\ e <= last /\ e = d + Len(a)
      /\ \A i \in 1..d : History[i] = durable[i]
      /\ \A i \in 1..e : History[i] = durable'[i]
  <2>1. /\ d \in Nat /\ last \in Nat
        /\ \A i \in 1..d : History[i] = durable[i]
        BY <1>2, HistoryParts
  <2>2. durable \in Seq(Rows)
        BY <1>2 DEF RowsIn
  <2>3. e = d + Len(a) /\ e \in Nat /\ Len(a) \in Nat
        BY <1>3, <1>4, <2>2, PrefixIs
  <2>4. /\ durable' \in Seq(Rows) /\ accepted' \in Seq(Rows) /\ outbox' \in Seq(Rows)
        BY <1>2 DEF RowsIn
  <2>5. History' = durable' \o (accepted' \o outbox') /\ accepted' \o outbox' \in Seq(Rows)
    <3>1. History' = (durable' \o accepted') \o outbox'
          BY DEF History
    <3>2. (durable' \o accepted') \o outbox' = durable' \o (accepted' \o outbox')
          BY <2>4, ConcatAssociative
    <3>3. accepted' \o outbox' \in Seq(Rows)
          BY <2>4, PrefixIs
    <3>4. QED BY <3>1, <3>2, <3>3
  <2>6. e <= Len(History') /\ \A i \in 1..e : History'[i] = durable'[i]
        BY <2>4, <2>5, PrefixIs
  <2>7. QED BY <1>3, <2>1, <2>3, <2>6
<1>7. History \in Seq(BuriedRows)
      BY HistoryType DEF FollowsBuried
<1> HIDE DEF d, e, last, a
<1>8. ASSUME NEW i \in 1..last, IsBlock(History[i])
      PROVE  History[i].number \in Nat \ {0} /\ Settled(History[i].number)
      BY <1>7, <1>8, SettledRow DEF last
<1>9. Orderly(chain, History, d, n)
      BY DEF Charged, d
<1>10. PICK m : /\ m = n \/ \E i \in d + 1..e : IsBlock(History[i]) /\ m = History[i].number
                /\ Orderly(chain, History, e, m)
                /\ Short(chain, History, e) \subseteq (Short(chain, History, d) \ {n}) \cup {m}
  <2>1. e <= Len(History) /\ Len(History) \in Nat
        BY <1>6 DEF last
  <2>2. \A i \in 1..Len(History) : IsBlock(History[i]) => History[i].number \in Nat \ {0}
        BY <1>8 DEF last
  <2>3. QED BY <1>6, <1>9, <2>1, <2>2, Advance
<1>11. m \in Nat /\ Settled(m)
  <2>1. CASE m = n
        BY <2>1 DEF Charged
  <2>2. ASSUME NEW i \in d + 1..e, IsBlock(History[i]), m = History[i].number
        PROVE  m \in Nat /\ Settled(m)
    <3>1. i \in 1..last
          BY <1>6
    <3>2. QED BY <1>8, <2>2, <3>1
  <2>3. QED BY <1>10, <2>1, <2>2
<1>12. Short(chain, durable', e) \subseteq C \cup {D[b] : b \in doubtful} \cup {m}
  <2>1. Short(chain, durable', e) = Short(chain, History, e)
        BY <1>6, ShortIs
  <2>2. Short(chain, durable, d) = Short(chain, History, d)
        BY <1>6, ShortIs
  <2>3. Short(chain, durable, d) \subseteq C \cup {D[b] : b \in doubtful} \cup {n}
        BY DEF Charged, d
  <2>4. QED BY <1>10, <2>1, <2>2, <2>3
<1>13. ASSUME NEW b \in doubtful PROVE Orderly(chain, durable' \o b, e, D[b])
  <2>1. durable \in Seq(Rows) /\ b \in Seq(Rows)
        BY <1>2 DEF RowsIn
  <2>2. Orderly(chain, durable \o b, Len(durable), D[b])
        BY DEF Charged
  <2>3. Orderly(chain, (durable \o a) \o b, Len(durable) + Len(a), D[b])
        BY <1>4, <2>1, <2>2, OrderlyInsert
  <2>4. QED BY <1>3, <1>6, <2>3 DEF d
<1>14. ASSUME pc \notin {"down", "failed"} PROVE Sent(m)'
  <2>1. Sent(n)
        BY <1>14 DEF Charged
  <2>2. ASSUME NEW i \in e + 1..last, IsBlock(History[i])
        PROVE  Enough(chain, History, i + 1, last, History[i].number, Owes(History[i].number))
    <3>1. i \in d + 1..last
          BY <1>6
    <3>2. QED BY <2>1, <2>2, <3>1 DEF Sent, last, d
  <2>3. m = 0 \/ Enough(chain, History, 1, last, m, Owes(m))
    <3>1. CASE m = n
          BY <2>1, <3>1 DEF Sent, last
    <3>2. ASSUME NEW i \in d + 1..e, IsBlock(History[i]), m = History[i].number
          PROVE  Enough(chain, History, 1, last, m, Owes(m))
      <4>1. i \in d + 1..last
            BY <1>6
      <4>2. Enough(chain, History, i + 1, last, m, Owes(m))
            BY <2>1, <3>2, <4>1 DEF Sent, last, d
      <4>3. i + 1 \in Int /\ last \in Int /\ 1 <= i + 1 /\ last <= last /\ Owes(m) \in Nat
            BY <1>6, OwesNat
      <4>4. QED BY <4>2, <4>3, EnoughWider
    <3>3. QED BY <1>10, <3>1, <3>2
  <2>4. \A x : Owes(x)' = Owes(x)
        BY <1>3 DEF Owes, task
  <2>5. QED BY <1>3, <2>2, <2>3, <2>4 DEF Sent, last, e
<1>15. Charged(C, D, m)'
  <2>1. Settled(m)' /\ \A b \in doubtful : Settled(D[b])'
        BY <1>3, <1>11 DEF Charged, Settled
  <2>2. Orderly(chain, History, e, m)
        BY <1>10
  <2>3. /\ C \subseteq Nat /\ IsFiniteSet(C) /\ IsFiniteSet(doubtful)
        /\ Cardinality(C) + Cardinality(doubtful) <= crashes
        /\ D \in [doubtful -> Nat]
        BY DEF Charged
  <2>4. QED BY <1>3, <1>5, <1>11, <1>12, <1>13, <1>14, <2>1, <2>2, <2>3 DEF Charged, e
<1>16. QED BY <1>15

LEMMA OneMore ==
    ASSUME NEW C, NEW n \in Nat, C \subseteq Nat, IsFiniteSet(C)
    PROVE  /\ C \cup {n} \subseteq Nat /\ IsFiniteSet(C \cup {n})
           /\ Cardinality(C) \in Nat /\ Cardinality(C \cup {n}) \in Nat
           /\ Cardinality(C \cup {n}) <= Cardinality(C) + 1
<1>1. Cardinality(C \cup {n}) = Cardinality(C) \/ Cardinality(C \cup {n}) = Cardinality(C) + 1
      BY FS_AddElement
<1>2. Cardinality(C) \in Nat /\ IsFiniteSet(C \cup {n})
      BY FS_CardinalityType, FS_AddElement
<1>3. QED BY <1>1, <1>2

LEMMA ChargedSettle ==
    TypeInv /\ TypeInv' /\ FollowsBuried /\ CrashesAreCharged /\ Settle => CrashesAreCharged'
<1> SUFFICES ASSUME TypeInv, TypeInv', FollowsBuried, NEW C, NEW D, NEW n, Charged(C, D, n),
                    Settle
             PROVE  \E C2, D2 : Charged(C2, D2, n)'
    BY DEF CrashesAreCharged
<1>1. PICK b \in doubtful : Log!Settle(b)
      BY DEF Settle
<1> DEFINE d == Len(durable)  e == Len(durable')  l == Len(b)  last == Len(History)
           rest == accepted \o outbox  left2 == doubtful \ {b}
<1>2. RowsIn(Rows) /\ RowsIn(Rows)'
      BY DEF TypeInv, TypeOK
<1>3. /\ UNCHANGED <<accepted, outbox, crashes, chain, top, pc, task>>
      /\ doubtful' = left2 /\ durable' \in {durable, durable \o b}
      BY <1>1 DEF Log!Settle, Settle, nodeVars
<1>4. /\ durable \in Seq(Rows) /\ b \in Seq(Rows) /\ rest \in Seq(Rows)
      /\ History = durable \o rest /\ History' = durable' \o rest
  <2>1. /\ durable \in Seq(Rows) /\ b \in Seq(Rows) /\ rest \in Seq(Rows)
        /\ History = durable \o rest
        BY <1>2, HistoryParts DEF RowsIn
  <2>2. durable' \in Seq(Rows) /\ accepted \in Seq(Rows) /\ outbox \in Seq(Rows)
        BY <1>2 DEF RowsIn
  <2>3. History' = (durable' \o accepted) \o outbox
        BY <1>3 DEF History
  <2>4. (durable' \o accepted) \o outbox = durable' \o (accepted \o outbox)
        BY <2>2, ConcatAssociative
  <2>5. QED BY <2>1, <2>3, <2>4
<1>5. /\ C \subseteq Nat /\ IsFiniteSet(C) /\ IsFiniteSet(doubtful)
      /\ Cardinality(C) + Cardinality(doubtful) <= crashes /\ crashes \in Nat
      /\ n \in Nat /\ Settled(n) /\ D \in [doubtful -> Nat]
      /\ \A x \in doubtful : Settled(D[x])
      /\ Short(chain, durable, d) \subseteq C \cup {D[x] : x \in doubtful} \cup {n}
      /\ \A x \in doubtful : Orderly(chain, durable \o x, d, D[x])
      /\ Orderly(chain, History, d, n)
  <2>1. crashes \in Nat
        BY DEF TypeInv, TypeOK
  <2>2. QED BY <2>1, Zenon DEF Charged
<1>6. PICK D2 \in [left2 -> Nat] : \A x \in left2 : D2[x] = D[x] /\ x \in doubtful
  <2>1. [x \in left2 |-> D[x]] \in [left2 -> Nat]
        BY <1>5
  <2>2. QED BY <2>1
<1>7. /\ IsFiniteSet(left2) /\ Cardinality(left2) = Cardinality(doubtful) - 1
      /\ Cardinality(doubtful) \in Nat
      BY <1>5, FS_RemoveElement, FS_CardinalityType
<1>8. Settled(n)' /\ \A x \in left2 : Settled(D2[x])'
      BY <1>3, <1>5, <1>6 DEF Settled
<1>9. ASSUME NEW m \in Nat
      PROVE  /\ C \cup {m} \subseteq Nat /\ IsFiniteSet(C \cup {m})
             /\ Cardinality(C \cup {m}) + Cardinality(left2) <= crashes
  <2> DEFINE C2 == C \cup {m}
  <2>1. /\ C2 \subseteq Nat /\ IsFiniteSet(C2) /\ Cardinality(C) \in Nat
        /\ Cardinality(C2) \in Nat /\ Cardinality(C2) <= Cardinality(C) + 1
        BY <1>5, OneMore
  <2> HIDE DEF C2
  <2>2. Cardinality(C2) + Cardinality(left2) <= crashes
        BY <1>5, <1>7, <2>1
  <2>3. QED BY <2>1, <2>2 DEF C2
<1>10. \A x : Owes(x)' = Owes(x)
      BY <1>3 DEF Owes, task
<1> HIDE DEF d, e, l, last, rest, left2
<1>11. ASSUME NEW m \in Nat,
              Short(chain, durable', e) \subseteq C \cup {m} \cup {D2[x] : x \in left2} \cup {n},
              \A x \in left2 : Orderly(chain, durable' \o x, e, D2[x]),
              Orderly(chain, History', e, n), Sent(n) => Sent(n)'
      PROVE  Charged(C \cup {m}, D2, n)'
  <2>1. /\ C \cup {m} \subseteq Nat /\ IsFiniteSet(C \cup {m}) /\ IsFiniteSet(doubtful')
        /\ Cardinality(C \cup {m}) + Cardinality(doubtful') <= crashes'
        BY <1>3, <1>7, <1>9
  <2>2. n \in Nat /\ Settled(n)' /\ D2 \in [doubtful' -> Nat]
            /\ \A x \in doubtful' : Settled(D2[x])'
        BY <1>3, <1>5, <1>6, <1>8
  <2>3. /\ Short(chain', durable', Len(durable'))
               \subseteq C \cup {m} \cup {D2[x] : x \in doubtful'} \cup {n}
        /\ \A x \in doubtful' : Orderly(chain', durable' \o x, Len(durable'), D2[x])
        /\ Orderly(chain', History', Len(durable'), n)
        BY <1>3, <1>11 DEF e
  <2>4. /\ pc' = "down" => n = 0 /\ accepted' = <<>> /\ outbox' = <<>>
        /\ pc' \notin {"down", "failed"} => Sent(n)'
        BY <1>3, <1>11 DEF Charged
  <2>5. QED BY <2>1, <2>2, <2>3, <2>4 DEF Charged
<1>12. CASE durable' = durable
  <2> DEFINE m == D[b]
  <2>1. m \in Nat
        BY <1>5
  <2> HIDE DEF m
  <2>2. History' = History /\ e = d
        BY <1>4, <1>12 DEF e, d
  <2>3. Sent(n) => Sent(n)'
    <3>1. UNCHANGED <<durable, chain>>
          BY <1>3, <1>12
    <3>2. QED BY <1>10, <2>2, <3>1, SentStays
  <2>4. Short(chain, durable', e) \subseteq C \cup {m} \cup {D2[x] : x \in left2} \cup {n}
    <3>1. ASSUME NEW x \in doubtful, D[x] # m PROVE \E y \in left2 : D[x] = D2[y]
      <4>1. x \in left2
            BY <3>1 DEF m, left2
      <4>2. QED BY <1>6, <4>1
    <3>2. QED BY <1>5, <1>12, <2>2, <3>1
  <2>5. \A x \in left2 : Orderly(chain, durable' \o x, e, D2[x])
        BY <1>5, <1>6, <1>12, <2>2
  <2>6. Orderly(chain, History', e, n)
        BY <1>5, <2>2
  <2>7. Charged(C \cup {m}, D2, n)'
        BY <1>11, <2>1, <2>3, <2>4, <2>5, <2>6
  <2>8. QED BY <2>7
<1>13. CASE durable' = durable \o b
  <2>1. /\ d \in Nat /\ l \in Nat /\ e \in Nat /\ e = d + l
        /\ \A k \in 1..d : durable'[k] = durable[k]
        BY <1>4, <1>13, PrefixIs DEF d, e, l
  <2>2. PICK m : /\ m = D[b] \/ \E i \in d + 1..e : IsBlock(durable'[i]) /\ m = durable'[i].number
                 /\ Orderly(chain, durable', e, m)
                 /\ Short(chain, durable', e) \subseteq (Short(chain, durable', d) \ {D[b]}) \cup {m}
    <3>1. durable' \in Seq(Rows) /\ e = Len(durable')
          BY <1>2 DEF e, RowsIn
    <3>2. \A i \in 1..e : IsBlock(durable'[i]) => durable'[i].number \in Nat \ {0}
          BY <3>1, HeightOfBlock
    <3>3. Orderly(chain, durable', d, D[b])
          BY <1>5, <1>13
    <3>4. d <= e
          BY <2>1
    <3>5. Len(durable') \in Nat /\ e <= Len(durable')
             /\ \A i \in 1..Len(durable') : IsBlock(durable'[i]) => durable'[i].number \in Nat \ {0}
          BY <2>1, <3>1, <3>2
    <3>6. QED BY <2>1, <3>3, <3>4, <3>5, Advance
  <2>3. m \in Nat
    <3>1. D[b] \in Nat
          BY <1>5
    <3>2. ASSUME NEW i \in d + 1..e, IsBlock(durable'[i]) PROVE durable'[i].number \in Nat
      <4>1. i \in 1..Len(durable') /\ durable' \in Seq(Rows)
            BY <1>2, <2>1 DEF e, RowsIn
      <4>2. QED BY <3>2, <4>1, HeightOfBlock
    <3>3. QED BY <2>2, <3>1, <3>2
  <2>4. Short(chain, durable', e) \subseteq C \cup {m} \cup {D2[x] : x \in left2} \cup {n}
    <3>1. Short(chain, durable', d) = Short(chain, durable, d)
          BY <2>1, ShortIs
    <3>2. ASSUME NEW x \in doubtful, D[x] # D[b] PROVE \E y \in left2 : D[x] = D2[y]
      <4>1. x \in left2
            BY <3>2 DEF left2
      <4>2. QED BY <1>6, <4>1
    <3>3. QED BY <1>5, <2>2, <3>1, <3>2
  <2>5. ASSUME NEW x \in left2 PROVE Orderly(chain, durable' \o x, e, D2[x])
    <3>1. x \in doubtful /\ D2[x] = D[x] /\ x \in Seq(Rows)
          BY <1>2, <1>6 DEF RowsIn
    <3>2. Orderly(chain, durable \o x, Len(durable), D[x])
          BY <1>5, <3>1 DEF d
    <3>3. Orderly(chain, (durable \o b) \o x, Len(durable) + Len(b), D[x])
          BY <1>4, <3>1, <3>2, OrderlyInsert
    <3>4. QED BY <1>13, <2>1, <3>1, <3>3 DEF d, l
  <2>6. Orderly(chain, History', e, n)
    <3>1. Orderly(chain, durable \o rest, Len(durable), n)
          BY <1>4, <1>5 DEF d
    <3>2. Orderly(chain, (durable \o b) \o rest, Len(durable) + Len(b), n)
          BY <1>4, <3>1, OrderlyInsert
    <3>3. QED BY <1>4, <1>13, <2>1, <3>2 DEF d, l
  <2>7. /\ last \in Nat /\ d <= last /\ Len(History') = last + l
        /\ \A k \in 1..last : History'[Moved(k, d, l)] = History[k]
    <3>1. Inserted(durable, b, rest, History, History')
          BY <1>4, <1>13, InsertIs
    <3>2. QED BY <3>1 DEF Inserted, d, l, last
  <2>8. ASSUME Sent(n) PROVE Sent(n)'
    <3>1. ASSUME NEW i \in e + 1..last + l, IsBlock(History'[i])
          PROVE  Enough(chain, History', i + 1, last + l, History'[i].number,
                        Owes(History'[i].number))
      <4> DEFINE j == i - l
      <4>1. j \in d + 1..last /\ j \in 1..last /\ Moved(j, d, l) = i
            BY <2>1, <2>7 DEF Moved
      <4>2. History'[i] = History[j]
            BY <2>7, <4>1
      <4>3. Enough(chain, History, j + 1, last, History[j].number, Owes(History[j].number))
            BY <2>8, <3>1, <4>1, <4>2 DEF Sent, d, last
      <4>4. Copied(History, j + 1, last, History', i + 1, last + l, d, l)
        <5>1. \A k \in j + 1..last : k \in 1..last /\ Moved(k, d, l) \in i + 1..last + l
              BY <2>1, <2>7, <4>1 DEF Moved
        <5>2. QED BY <2>7, <5>1 DEF Copied
      <4>5. Owes(History[j].number) \in Nat /\ Owes(History[j].number) <= Owes(History[j].number)
            BY OwesNat
      <4>6. j + 1 \in Int /\ last \in Int /\ i + 1 \in Int /\ last + l \in Int /\ d \in Int
            BY <2>1, <2>7, <4>1
      <4>7. QED BY <2>1, <4>2, <4>3, <4>4, <4>5, <4>6, EnoughMoves
    <3>2. ASSUME n # 0 PROVE Enough(chain, History', 1, last + l, n, Owes(n))
      <4>1. Enough(chain, History, 1, last, n, Owes(n))
            BY <2>8, <3>2 DEF Sent, last
      <4>2. Copied(History, 1, last, History', 1, last + l, d, l)
        <5>1. \A k \in 1..last : Moved(k, d, l) \in 1..last + l
              BY <2>1, <2>7 DEF Moved
        <5>2. QED BY <2>7, <5>1 DEF Copied
      <4>3. Owes(n) \in Nat /\ Owes(n) <= Owes(n)
            BY OwesNat
      <4>4. 1 \in Int /\ last \in Int /\ last + l \in Int /\ d \in Int
            BY <2>1, <2>7
      <4>5. QED BY <2>1, <4>1, <4>2, <4>3, <4>4, EnoughMoves
    <3>3. QED BY <1>3, <1>10, <2>7, <3>1, <3>2 DEF Sent, e
  <2>9. Charged(C \cup {m}, D2, n)'
        BY <1>11, <2>3, <2>4, <2>5, <2>6, <2>8
  <2>10. QED BY <2>9
<1>14. QED BY <1>3, <1>12, <1>13

LEMMA ChargedCrash ==
    TypeInv /\ TypeInv' /\ CrashesAreCharged /\ Crash => CrashesAreCharged'
<1> SUFFICES ASSUME TypeInv, TypeInv', NEW C, NEW D, NEW n, Charged(C, D, n), Crash
             PROVE  \E C2, D2 : Charged(C2, D2, 0)'
    BY DEF CrashesAreCharged
<1>1. PICK k \in 0..LogMaxBatch : Log!Crash(k)
      BY DEF Crash
<1> DEFINE d == Len(durable)  b == SubSeq(accepted, 1, k)
<1>2. /\ UNCHANGED <<durable, chain, top>> /\ accepted' = <<>> /\ outbox' = <<>>
      /\ pc' = "down" /\ crashes' = crashes + 1
      /\ doubtful' = doubtful \cup (IF k = 0 THEN {} ELSE {b})
      BY <1>1 DEF Log!Crash, Crash, nodeVars
<1>3. /\ RowsIn(Rows) /\ durable \in Seq(Rows) /\ d \in Nat
      /\ accepted \in Seq(Rows) /\ outbox \in Seq(Rows)
      BY HistoryParts DEF TypeInv, TypeOK
<1>4. k \in Nat /\ k <= Len(accepted) /\ Len(accepted) \in Nat
      BY <1>1, <1>3, LenProperties, FollowerAssumption DEF Log!Crash
<1>5. Settled(0)' /\ 0 \in Nat
      BY DEF Settled
<1>6. Orderly(chain, History', d, 0)
  <2>1. History' = durable
        BY <1>2, <1>3, ConcatEmptySeq DEF History
  <2>2. QED BY <1>3, <2>1 DEF Orderly
<1>7. /\ C \subseteq Nat /\ IsFiniteSet(C) /\ IsFiniteSet(doubtful)
      /\ Cardinality(C) + Cardinality(doubtful) <= crashes /\ crashes \in Nat
      /\ n \in Nat /\ Settled(n) /\ D \in [doubtful -> Nat]
      /\ \A x \in doubtful : Settled(D[x])
      /\ Short(chain, durable, d) \subseteq C \cup {D[x] : x \in doubtful} \cup {n}
      /\ \A x \in doubtful : Orderly(chain, durable \o x, d, D[x])
      /\ Orderly(chain, History, d, n)
  <2>1. crashes \in Nat
        BY DEF TypeInv, TypeOK
  <2>2. QED BY <2>1, Zenon DEF Charged
<1>8. Settled(n)' /\ \A x \in doubtful : Settled(D[x])'
      BY <1>2, <1>7 DEF Settled
<1>9. ASSUME NEW C2, NEW D2,
             /\ C2 \subseteq Nat /\ IsFiniteSet(C2) /\ IsFiniteSet(doubtful')
             /\ Cardinality(C2) + Cardinality(doubtful') <= crashes'
             /\ D2 \in [doubtful' -> Nat] /\ \A x \in doubtful' : Settled(D2[x])'
             /\ Short(chain, durable, d) \subseteq C2 \cup {D2[x] : x \in doubtful'} \cup {0}
             /\ \A x \in doubtful' : Orderly(chain, durable \o x, d, D2[x])
      PROVE  Charged(C2, D2, 0)'
  <2>1. /\ Short(chain', durable', Len(durable'))
               \subseteq C2 \cup {D2[x] : x \in doubtful'} \cup {0}
        /\ \A x \in doubtful' : Orderly(chain', durable' \o x, Len(durable'), D2[x])
        /\ Orderly(chain', History', Len(durable'), 0)
        BY <1>2, <1>6, <1>9
  <2>2. /\ pc' = "down" => accepted' = <<>> /\ outbox' = <<>>
        /\ pc' \notin {"down", "failed"} => Sent(0)'
        BY <1>2
  <2>3. QED BY <1>5, <1>9, <2>1, <2>2 DEF Charged
<1> HIDE DEF d, b
<1>10. CASE k = 0 \/ b \in doubtful
  <2>1. doubtful' = doubtful
        BY <1>2, <1>10
  <2>2. Cardinality(C \cup {n}) + Cardinality(doubtful) <= crashes + 1
              /\ C \cup {n} \subseteq Nat /\ IsFiniteSet(C \cup {n})
    <3> DEFINE C2 == C \cup {n}
    <3>1. /\ C2 \subseteq Nat /\ IsFiniteSet(C2) /\ Cardinality(C) \in Nat
          /\ Cardinality(C2) \in Nat /\ Cardinality(C2) <= Cardinality(C) + 1
          BY <1>7, OneMore
    <3>2. Cardinality(doubtful) \in Nat
          BY <1>7, FS_CardinalityType
    <3> HIDE DEF C2
    <3>3. Cardinality(C2) + Cardinality(doubtful) <= crashes + 1
          BY <1>7, <3>1, <3>2
    <3>4. QED BY <3>1, <3>3 DEF C2
  <2>3. Short(chain, durable, d) \subseteq C \cup {n} \cup {D[x] : x \in doubtful} \cup {0}
        BY <1>7
  <2>4. Charged(C \cup {n}, D, 0)'
        BY <1>2, <1>7, <1>8, <1>9, <2>1, <2>2, <2>3
  <2>5. QED BY <2>4
<1>11. CASE k # 0 /\ b \notin doubtful
  <2>1. doubtful' = doubtful \cup {b} /\ b \in doubtful'
        BY <1>2, <1>11
  <2>2. PICK D2 \in [doubtful' -> Nat] :
            D2[b] = n /\ \A x \in doubtful : x \in doubtful' /\ D2[x] = D[x]
    <3> DEFINE E == [x \in doubtful' |-> IF x = b THEN n ELSE D[x]]
    <3>1. E \in [doubtful' -> Nat]
          BY <1>7, <2>1
    <3>2. E[b] = n /\ \A x \in doubtful : x \in doubtful' /\ E[x] = D[x]
          BY <1>11, <2>1
    <3>3. QED BY <3>1, <3>2
  <2>3. IsFiniteSet(doubtful') /\ Cardinality(C) + Cardinality(doubtful') <= crashes'
    <3>1. /\ IsFiniteSet(doubtful \cup {b})
          /\ Cardinality(doubtful \cup {b}) = Cardinality(doubtful) + 1
          BY <1>7, <1>11, FS_AddElement
    <3>2. Cardinality(doubtful) \in Nat /\ Cardinality(C) \in Nat
          BY <1>7, FS_CardinalityType
    <3>3. Cardinality(doubtful') = Cardinality(doubtful) + 1
          BY <2>1, <3>1
    <3>4. Cardinality(C) + Cardinality(doubtful') <= crashes'
          BY <1>2, <1>7, <3>2, <3>3
    <3>5. QED BY <2>1, <3>1, <3>4
  <2>4. \A x \in doubtful' : Settled(D2[x])'
        BY <1>8, <2>1, <2>2
  <2>5. Short(chain, durable, d) \subseteq C \cup {D2[x] : x \in doubtful'} \cup {0}
    <3>1. ASSUME NEW m \in Short(chain, durable, d), m \notin C
          PROVE  \E x \in doubtful' : m = D2[x]
      <4>1. m = n \/ \E x \in doubtful : m = D[x]
            BY <1>7, <3>1
      <4>2. QED BY <2>1, <2>2, <4>1
    <3>2. QED BY <3>1
  <2>6. Orderly(chain, durable \o b, d, n)
    <3>1. /\ b \in Seq(Rows) /\ Len(b) = k /\ \A i \in 1..k : b[i] = accepted[i]
      <4>1. /\ \A i \in 1..k : accepted[i] \in Rows
            /\ 1 \in Int /\ k \in Int /\ 1 <= k
            BY <1>3, <1>4, <1>11
      <4>2. /\ b \in Seq(Rows) /\ Len(b) = k - 1 + 1
            /\ \A i \in 1..k - 1 + 1 : b[i] = accepted[1 + i - 1]
            BY <4>1, SubSeqProperties DEF b
      <4>3. k - 1 + 1 = k /\ \A i \in 1..k : 1 + i - 1 = i
            BY <4>1
      <4>4. QED BY <4>2, <4>3
    <3> DEFINE s == History  t == durable \o b  q == durable \o accepted
    <3>2. /\ Len(q) = d + Len(accepted) /\ q \in Seq(Rows)
          /\ \A i \in 1..d : q[i] = durable[i]
          /\ \A i \in d + 1..d + Len(accepted) : q[i] = accepted[i - d]
          BY <1>3, PrefixIs DEF d
    <3>3. /\ Len(t) = d + k
          /\ \A i \in 1..d : t[i] = durable[i]
          /\ \A i \in d + 1..d + k : t[i] = b[i - d]
          BY <1>3, <3>1, PrefixIs DEF d
    <3>4. /\ Len(q) <= Len(s) /\ Len(s) \in Nat
          /\ \A i \in 1..Len(q) : s[i] = q[i]
      <4>1. s = q \o outbox
            BY DEF History
      <4>2. QED BY <1>3, <3>2, <4>1, PrefixIs
    <3> HIDE DEF s, t, q
    <3>5. ASSUME NEW i \in 1..Len(s), Moved(i, d, 0) <= Len(t)
          PROVE  t[Moved(i, d, 0)] = s[i]
      <4>1. Moved(i, d, 0) = i /\ i \in 1..d + k /\ i \in 1..Len(q)
            BY <1>3, <1>4, <3>2, <3>3, <3>4, <3>5 DEF Moved
      <4>2. s[i] = q[i]
            BY <3>4, <4>1
      <4>3. CASE i \in 1..d
            BY <3>2, <3>3, <4>1, <4>2, <4>3
      <4>4. CASE i \in d + 1..d + k
        <5>1. i - d \in 1..k /\ i \in d + 1..d + Len(accepted)
              BY <1>3, <1>4, <4>4
        <5>2. q[i] = accepted[i - d] /\ t[i] = b[i - d] /\ b[i - d] = accepted[i - d]
              BY <3>1, <3>2, <3>3, <4>4, <5>1
        <5>3. QED BY <4>1, <4>2, <5>2
      <4>5. i \in 1..d \/ i \in d + 1..d + k
            BY <1>3, <1>4, <4>1
      <4>6. QED BY <4>3, <4>4, <4>5
    <3>6. Orderly(chain, s, d, n)
          BY <1>7 DEF s
    <3>7. Len(t) \in Nat /\ Len(t) <= Len(s) + 0
          BY <1>3, <1>4, <3>2, <3>3, <3>4
    <3>8. Orderly(chain, t, d + 0, n)
          BY <1>3, <3>4, <3>5, <3>6, <3>7, OrderlyMoves, 0 \in Nat
    <3>9. d + 0 = d
          BY <1>3
    <3>10. QED BY <3>8, <3>9 DEF t
  <2>7. \A x \in doubtful' : Orderly(chain, durable \o x, d, D2[x])
        BY <1>7, <2>1, <2>2, <2>6
  <2>8. Charged(C, D2, 0)'
        BY <1>7, <1>9, <2>3, <2>4, <2>5, <2>7
  <2>9. QED BY <2>8
<1>12. QED BY <1>10, <1>11

(* Chains that agree on the blocks of s agree on which are short of rows.  *)
LEMMA OrderlySame ==
    ASSUME NEW c, NEW c2, NEW s, NEW d \in Nat, NEW n, Len(s) \in Nat, c2[n] = c[n],
           \A i \in 1..Len(s) : IsBlock(s[i]) => c2[s[i].number] = c[s[i].number],
           Orderly(c, s, d, n)
    PROVE  Orderly(c2, s, d, n)
<1>1. ASSUME NEW i \in d + 1..Len(s), NEW j \in d + 1..Len(s),
             i < j, IsBlock(s[i]), IsBlock(s[j])
      PROVE  Enough(c2, s, i + 1, j - 1, s[i].number, 0)
  <2>1. Enough(c, s, i + 1, j - 1, s[i].number, 0)
        BY <1>1 DEF Orderly
  <2>2. i \in 1..Len(s)
        OBVIOUS
  <2>3. QED BY <1>1, <2>1, <2>2 DEF Enough
<1>2. ASSUME NEW j \in d + 1..Len(s), IsBlock(s[j])
      PROVE  n = 0 \/ Enough(c2, s, 1, j - 1, n, 0)
  <2>1. n = 0 \/ Enough(c, s, 1, j - 1, n, 0)
        BY <1>2 DEF Orderly
  <2>2. QED BY <2>1 DEF Enough
<1>3. QED BY <1>1, <1>2 DEF Orderly

LEMMA ShortSame ==
    ASSUME NEW c, NEW c2, NEW s, NEW d \in Nat,
           \A i \in 1..d : IsBlock(s[i]) => c2[s[i].number] = c[s[i].number]
    PROVE  Short(c2, s, d) \subseteq Short(c, s, d)
BY DEF Short, Enough

LEMMA ChargedNodeMoves ==
    ASSUME MatureChain
    PROVE  /\ TypeInv /\ TypeInv' /\ FollowsBuried /\ CrashesAreCharged /\ NodeMoves
           => CrashesAreCharged'
<1> SUFFICES ASSUME TypeInv, TypeInv', FollowsBuried, NEW C, NEW D, NEW n, Charged(C, D, n),
                    NodeMoves
             PROVE  Charged(C, D, n)'
    BY DEF CrashesAreCharged
<1> DEFINE d == Len(durable)  last == Len(History)
<1>1. NodeTypeOK /\ NodeNext /\ UNCHANGED <<pc, task, outbox, log, crashes>>
      BY DEF TypeInv, TypeOK, NodeMoves
<1>2. UNCHANGED <<pc, number, unread, accepted, durable, doubtful, outbox, crashes>>
          /\ History' = History
      BY <1>1 DEF task, log, History
<1>3. ASSUME NEW m \in Nat, Settled(m)
      PROVE  chain'[m] = chain[m] /\ Settled(m)'
  <2>1. CASE m = 0
    <3>1. 0 \in 0..top
          BY <1>1 DEF NodeTypeOK
    <3>2. chain'[0] = chain[0]
          BY <1>1, <3>1, SettledBelow
    <3>3. QED BY <2>1, <3>2 DEF Settled
  <2>2. CASE m # 0
    <3>1. m \in Int /\ 0 <= m /\ m + Confirmations < top
          BY <1>3, <2>2 DEF Settled
    <3>2. QED BY <1>1, <3>1, SettledStays DEF Settled
  <2>3. QED BY <2>1, <2>2
<1>4. /\ History \in Seq(BuriedRows) /\ durable \in Seq(BuriedRows)
      /\ doubtful \subseteq Seq(BuriedRows)
      BY HistoryType DEF FollowsBuried, RowsIn
<1>5. ASSUME NEW s \in Seq(BuriedRows), NEW i \in 1..Len(s), IsBlock(s[i])
      PROVE  chain'[s[i].number] = chain[s[i].number]
      BY <1>3, <1>5, SettledRow
<1>6. d \in Nat /\ last \in Nat
      BY HistoryParts DEF TypeInv, TypeOK
<1> HIDE DEF d, last
<1>7. /\ n \in Nat /\ Settled(n) /\ D \in [doubtful -> Nat]
      /\ \A b \in doubtful : Settled(D[b]) /\ D[b] \in Nat
      BY DEF Charged
<1>8. chain'[n] = chain[n] /\ \A b \in doubtful : chain'[D[b]] = chain[D[b]]
      BY <1>3, <1>7
<1>9. Settled(n)' /\ \A b \in doubtful : Settled(D[b])'
      BY <1>3, <1>7
<1>10. Short(chain', durable, d) \subseteq Short(chain, durable, d)
  <2>1. \A i \in 1..d : IsBlock(durable[i]) =>
            chain'[durable[i].number] = chain[durable[i].number]
        BY <1>4, <1>5 DEF d
  <2>2. QED BY <1>6, <2>1, ShortSame
<1>11. ASSUME NEW b \in doubtful PROVE Orderly(chain', durable \o b, d, D[b])
  <2>1. durable \o b \in Seq(BuriedRows) /\ Len(durable \o b) \in Nat
        BY <1>4, ConcatProperties, LenProperties
  <2>2. Orderly(chain, durable \o b, d, D[b])
        BY DEF Charged, d
  <2>3. \A i \in 1..Len(durable \o b) : IsBlock((durable \o b)[i]) =>
            chain'[(durable \o b)[i].number] = chain[(durable \o b)[i].number]
        BY <1>5, <2>1
  <2>4. QED BY <1>6, <1>8, <2>1, <2>2, <2>3, OrderlySame
<1>12. \A i \in 1..Len(History) : IsBlock(History[i]) =>
           chain'[History[i].number] = chain[History[i].number]
       BY <1>4, <1>5
<1>13. Orderly(chain', History, d, n)
  <2>1. Orderly(chain, History, d, n) /\ Len(History) \in Nat
        BY <1>6 DEF Charged, d, last
  <2>2. QED BY <1>6, <1>8, <1>12, <2>1, OrderlySame
<1>14. ASSUME pc \notin {"down", "failed"} PROVE Sent(n)'
  <2>1. Sent(n)
        BY <1>14 DEF Charged
  <2>2. \A m : Owes(m)' = Owes(m)
        BY <1>2 DEF Owes
  <2>3. ASSUME NEW i \in d + 1..last, IsBlock(History[i])
        PROVE  Enough(chain', History, i + 1, last, History[i].number, Owes(History[i].number))
    <3>1. Enough(chain, History, i + 1, last, History[i].number, Owes(History[i].number))
          BY <2>1, <2>3 DEF Sent, d, last
    <3>2. i \in 1..Len(History)
          BY <1>6 DEF last
    <3>3. QED BY <1>12, <2>3, <3>1, <3>2 DEF Enough
  <2>4. n = 0 \/ Enough(chain', History, 1, last, n, Owes(n))
    <3>1. n = 0 \/ Enough(chain, History, 1, last, n, Owes(n))
          BY <2>1 DEF Sent, last
    <3>2. QED BY <1>8, <3>1 DEF Enough
  <2>5. QED BY <1>2, <2>2, <2>3, <2>4 DEF Sent, d, last
<1>15. /\ C \subseteq Nat /\ IsFiniteSet(C) /\ IsFiniteSet(doubtful)
       /\ Cardinality(C) + Cardinality(doubtful) <= crashes
       /\ Short(chain, durable, d) \subseteq C \cup {D[b] : b \in doubtful} \cup {n}
       /\ pc = "down" => n = 0 /\ accepted = <<>> /\ outbox = <<>>
       BY Zenon DEF Charged, d
<1>16. Short(chain', durable, d) \subseteq C \cup {D[b] : b \in doubtful} \cup {n}
       BY <1>10, <1>15
<1>17. QED BY <1>2, <1>7, <1>9, <1>11, <1>13, <1>14, <1>15, <1>16 DEF Charged, d

LEMMA ChargedStutters ==
    TypeInv /\ TypeInv' /\ CrashesAreCharged /\ UNCHANGED vars => CrashesAreCharged'
<1> SUFFICES ASSUME TypeInv, TypeInv', NEW C, NEW D, NEW n, Charged(C, D, n), UNCHANGED vars
             PROVE  Charged(C, D, n)'
    BY DEF CrashesAreCharged
<1>1. /\ UNCHANGED <<durable, doubtful, crashes, chain, top, pc, number, unread>>
      /\ History' = History
      BY DEF vars, task, log, nodeVars, History
<1>2. \A m : Owes(m)' = Owes(m)
      BY <1>1 DEF Owes
<1>3. pc \notin {"down", "failed"} => Sent(n)'
      BY <1>1, <1>2, SentStays DEF Charged
<1>4. UNCHANGED <<accepted, outbox>>
      BY DEF vars, log
<1>5. Settled(n)' /\ \A b \in doubtful : Settled(D[b])'
      BY <1>1 DEF Charged, Settled
<1>6. QED BY <1>1, <1>3, <1>4, <1>5 DEF Charged

LEMMA ChargedStep ==
    ASSUME MatureChain
    PROVE  TypeInv /\ FollowsBuried /\ CrashesAreCharged /\ [Next]_vars => CrashesAreCharged'
<1> SUFFICES ASSUME TypeInv, FollowsBuried, CrashesAreCharged, [Next]_vars
             PROVE  CrashesAreCharged'
    OBVIOUS
<1>1. TypeInv'
      BY TypeInvStep
<1>2. QED BY <1>1, ChargedStutters, ChargedStart, ChargedRead, ChargedAnalyze, ChargedPersist,
             ChargedSettle, ChargedCrash, ChargedNodeMoves
          DEF Next, Analyze

LEMMA UnionBound ==
    ASSUME NEW S, NEW T, IsFiniteSet(S), IsFiniteSet(T)
    PROVE  /\ IsFiniteSet(S \cup T) /\ Cardinality(S \cup T) \in Nat
           /\ Cardinality(S \cup T) <= Cardinality(S) + Cardinality(T)
<1>1. /\ IsFiniteSet(S \cup T)
      /\ Cardinality(S \cup T) = Cardinality(S) + Cardinality(T) - Cardinality(S \cap T)
      BY FS_Union
<1>2. IsFiniteSet(S \cap T)
      BY FS_Subset, S \cap T \in SUBSET S
<1>3. /\ Cardinality(S) \in Nat /\ Cardinality(T) \in Nat /\ Cardinality(S \cap T) \in Nat
      /\ Cardinality(S \cup T) \in Nat
      BY <1>1, <1>2, FS_CardinalityType
<1>4. QED BY <1>1, <1>3

LEMMA ChargedImplies ==
    TypeInv /\ CrashesAreCharged => CrashCostsOneBlock
<1> SUFFICES ASSUME TypeInv, NEW C, NEW D, NEW n, Charged(C, D, n)
             PROVE  CrashCostsOneBlock
    BY DEF CrashesAreCharged
<1> DEFINE d == Len(durable)  last == Len(History)
           late == {D[b] : b \in doubtful}
           own == IF pc = "failed" THEN {n} ELSE {}
<1>1. /\ d \in Nat /\ last \in Nat /\ d <= last
      /\ \A k \in 1..d : History[k] = durable[k]
      /\ DOMAIN History = 1..last /\ RowsIn(Rows)
      BY HistoryParts, HistoryType DEF TypeInv, TypeOK
<1>2. Short(chain, durable, d) \subseteq C \cup late \cup {n} /\ n \in Nat
      BY DEF Charged
<1> HIDE DEF d, last, late, own
<1>3. ASSUME NEW m \in Damaged PROVE m \in C \cup late \cup own
  <2>1. /\ m \in 1..top /\ \E r \in ToSet(durable) : r.table = "block" /\ r.number = m
        /\ pc \in {"down", "failed"} \/ m # number
        /\ Cardinality(Places("uncle", m - 1)) < chain[m].body.known
        BY DEF Damaged
  <2>2. Places("uncle", m - 1) = UncleRows(History, 1, last, m)
        BY <1>1 DEF Places, UncleRows
  <2>3. ~Enough(chain, History, 1, last, m, 0)
    <3> DEFINE a == Cardinality(UncleRows(History, 1, last, m))
    <3>1. a \in Nat
      <4>1. UncleRows(History, 1, last, m) \in SUBSET (1..last)
            BY DEF UncleRows
      <4>2. IsFiniteSet(1..last)
            BY <1>1, FS_Interval
      <4>3. IsFiniteSet(UncleRows(History, 1, last, m))
            BY <4>1, <4>2, FS_Subset
      <4>4. QED BY <4>3, FS_CardinalityType
    <3>2. a < chain[m].body.known
          BY <2>1, <2>2
    <3> HIDE DEF a
    <3>3. ~(chain[m].body.known \in 0..a + 0)
          BY <3>1, <3>2
    <3>4. QED BY <3>3 DEF Enough, a
  <2>4. m \in Short(chain, durable, d)
    <3>1. ~Enough(chain, durable, 1, d, m, 0)
      <4>1. Copied(durable, 1, d, History, 1, last, d, 0)
            BY <1>1 DEF Copied, Moved
      <4>2. QED BY <1>1, <2>3, <4>1, EnoughMoves, 0 \in Nat
    <3>2. \E i \in 1..d : IsBlock(durable[i]) /\ durable[i].number = m
          BY <2>1 DEF ToSet, IsBlock, d, RowsIn
    <3>3. m \in Nat
          BY <2>1
    <3>4. QED BY <3>1, <3>2, <3>3 DEF Short
  <2>5. CASE m # n
        BY <1>2, <2>4, <2>5
  <2>6. CASE m = n
    <3>1. m # 0
          BY <2>1
    <3>2. pc # "down"
          BY <2>6, <3>1 DEF Charged
    <3>3. CASE pc = "failed"
          BY <2>6, <3>3 DEF own
    <3>4. CASE pc # "failed"
      <4>1. Enough(chain, History, 1, last, n, Owes(n))
            BY <2>6, <3>1, <3>2, <3>4 DEF Charged, Sent, last
      <4>2. Owes(n) = 0
            BY <2>1, <2>6, <3>2, <3>4 DEF Owes
      <4>3. QED BY <2>3, <2>6, <4>1, <4>2
    <3>5. QED BY <3>3, <3>4
  <2>7. QED BY <2>5, <2>6
<1>4. /\ IsFiniteSet(C) /\ IsFiniteSet(doubtful) /\ Cardinality(C) \in Nat
      /\ Cardinality(doubtful) \in Nat
      /\ Cardinality(C) + Cardinality(doubtful) <= crashes /\ crashes \in Nat
  <2>1. crashes \in Nat
        BY DEF TypeInv, TypeOK
  <2>2. QED BY <2>1, FS_CardinalityType DEF Charged
<1>5. IsFiniteSet(late) /\ Cardinality(late) <= Cardinality(doubtful) /\ Cardinality(late) \in Nat
  <2> DEFINE f == [b \in doubtful |-> D[b]]
  <2>1. f \in Surjection(doubtful, late)
        BY DEF Surjection, late
  <2>2. QED BY <1>4, <2>1, FS_Surjection, FS_CardinalityType
<1>6. IsFiniteSet(own) /\ Cardinality(own) = (IF pc = "failed" THEN 1 ELSE 0)
      BY FS_Singleton, FS_EmptySet DEF own
<1>7. /\ IsFiniteSet(C \cup late) /\ Cardinality(C \cup late) \in Nat
      /\ Cardinality(C \cup late) <= Cardinality(C) + Cardinality(late)
      BY <1>4, <1>5, UnionBound
<1>8. /\ IsFiniteSet((C \cup late) \cup own) /\ Cardinality((C \cup late) \cup own) \in Nat
      /\ Cardinality((C \cup late) \cup own) <= Cardinality(C \cup late) + Cardinality(own)
      BY <1>6, <1>7, UnionBound
<1>9. Cardinality(Damaged) \in Nat /\ Cardinality(Damaged) <= Cardinality((C \cup late) \cup own)
      BY <1>3, <1>8, FS_Subset, FS_CardinalityType
<1>10. QED BY <1>4, <1>5, <1>6, <1>7, <1>8, <1>9 DEF CrashCostsOneBlock

(* However often the process ends and the topic panics, wherever in a      *)
(* block, and whatever the server makes of the batches of dead processes,  *)
(* no more blocks miss a row of an uncle than there were ends and panics.  *)
THEOREM CrashesCostOneBlock ==
    ASSUME MatureChain PROVE Spec => []CrashCostsOneBlock
<1>1. Init => TypeInv /\ FollowsBuried /\ CrashesAreCharged
      BY TypeInvInit, FollowsInit, ChargedInit DEF CrashesAreCharged
<1>2. TypeInv /\ FollowsBuried /\ CrashesAreCharged /\ [Next]_vars
          => TypeInv' /\ FollowsBuried' /\ CrashesAreCharged'
      BY TypeInvStep, FollowsStep, ChargedStep
<1>3. TypeInv /\ CrashesAreCharged => CrashCostsOneBlock
      BY ChargedImplies
<1>4. QED BY <1>1, <1>2, <1>3, PTL DEF Spec
=============================================================================

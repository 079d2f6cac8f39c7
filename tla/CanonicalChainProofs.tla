------------------------ MODULE CanonicalChainProofs ------------------------
(***************************************************************************)
(* Theorems about CanonicalChainState, for every number of confirmations,  *)
(* every proposal window and every node that keeps to CkbNode.             *)
(***************************************************************************)
EXTENDS CanonicalChainState, SequenceTheorems, TLAPS, WellFoundedInduction

USE DEF GetTipBlockNumber, Reached, GetBlockByNumber, GetHeaderByNumber

(***************************************************************************)
(* Rows on their way: whatever set of rows they are from, the log and the  *)
(* task's sending keep them in it.                                         *)
(***************************************************************************)

LEMMA SeqOfSubset ==
    ASSUME NEW S, NEW T, S \subseteq T
    PROVE  Seq(S) \subseteq Seq(T)
OBVIOUS

LEMMA RowsInMonotonic ==
    ASSUME NEW S, NEW T, S \subseteq T, RowsIn(S)
    PROVE  RowsIn(T)
BY SeqOfSubset DEF RowsIn

LEMMA SendKeepsRows ==
    ASSUME NEW S, RowsIn(S), Send
    PROVE  RowsIn(S)' /\ Len(accepted') <= LogCapacity
<1> USE FollowerAssumption
<1>1. Head(outbox) \in S /\ Tail(outbox) \in Seq(S)
      BY HeadTailProperties DEF RowsIn, Send
<1>2. accepted' \in Seq(S) /\ Len(accepted') = Len(accepted) + 1
      BY <1>1, AppendProperties DEF RowsIn, Send, Log!Accept
<1>3. Len(accepted) < LogCapacity /\ Len(accepted) \in Nat
      BY LenProperties DEF RowsIn, Send, Log!Accept
<1>4. QED BY <1>1, <1>2, <1>3 DEF RowsIn, Send, Log!Accept

LEMMA PersistKeepsRows ==
    ASSUME NEW S, RowsIn(S), Persist
    PROVE  RowsIn(S)' /\ Len(accepted') <= Len(accepted)
<1>1. PICK n \in 1..LogMaxBatch : Log!Persist(n)
      BY DEF Persist
<1> DEFINE a == SubSeq(accepted, 1, n)
           z == SubSeq(accepted, n + 1, Len(accepted))
<1>2. n \in Nat /\ 1 <= n /\ n <= Len(accepted) /\ Len(accepted) \in Nat
      BY <1>1, LenProperties, FollowerAssumption DEF RowsIn, Log!Persist
<1>3. a \in Seq(S)
      BY <1>2, SubSeqProperties DEF RowsIn
<1>4. z \in Seq(S) /\ Len(z) <= Len(accepted)
      BY <1>2, SubSeqProperties DEF RowsIn
<1>5. durable' = durable \o a /\ accepted' = z /\ doubtful' = doubtful /\ outbox' = outbox
      BY <1>1 DEF Log!Persist, Persist
<1>6. durable \o a \in Seq(S)
      BY <1>3, ConcatProperties DEF RowsIn
<1> HIDE DEF a, z
<1>7. QED BY <1>4, <1>5, <1>6 DEF RowsIn

LEMMA SettleKeepsRows ==
    ASSUME NEW S, RowsIn(S), Settle
    PROVE  RowsIn(S)' /\ accepted' = accepted
<1>1. PICK b \in doubtful : Log!Settle(b)
      BY DEF Settle
<1>2. durable \o b \in Seq(S)
      BY ConcatProperties DEF RowsIn
<1>3. /\ durable' = durable \/ durable' = durable \o b
      /\ doubtful' \subseteq doubtful /\ accepted' = accepted /\ outbox' = outbox
      BY <1>1 DEF Log!Settle, Settle
<1>4. QED BY <1>2, <1>3 DEF RowsIn

LEMMA CrashKeepsRows ==
    ASSUME NEW S, RowsIn(S), Crash
    PROVE  RowsIn(S)' /\ accepted' = <<>>
<1>1. PICK n \in 0..LogMaxBatch : Log!Crash(n)
      BY DEF Crash
<1> DEFINE a == SubSeq(accepted, 1, n)
<1>2. n \in Nat /\ n <= Len(accepted) /\ Len(accepted) \in Nat
      BY <1>1, LenProperties, FollowerAssumption DEF RowsIn, Log!Crash
<1>3. n # 0 => a \in Seq(S)
      BY <1>2, SubSeqProperties DEF RowsIn
<1>4. /\ accepted' = <<>> /\ outbox' = <<>> /\ durable' = durable
      /\ doubtful' \subseteq doubtful \cup (IF n = 0 THEN {} ELSE {a})
      BY <1>1 DEF Log!Crash, Crash
<1> HIDE DEF a
<1>5. QED BY <1>3, <1>4, EmptySeq DEF RowsIn

LEMMA OthersKeepRows ==
    ASSUME NEW S, RowsIn(S), outbox' \in Seq(S), UNCHANGED log
    PROVE  RowsIn(S)'
BY DEF RowsIn, log

(***************************************************************************)
(* The node.                                                               *)
(***************************************************************************)

LEMMA NodeTypeInit == NodeInit => NodeTypeOK /\ chain[0] \in Block
<1> SUFFICES ASSUME NodeInit PROVE NodeTypeOK /\ chain[0] \in Block
    OBVIOUS
<1> USE NodeAssumption
<1>1. PICK bodies \in [1..InitialTip -> Bodies] :
          chain = [h \in 0..InitialTip |->
                       [fork |-> 0, body |-> IF h = 0 THEN Genesis ELSE bodies[h]]]
      BY DEF NodeInit
<1>2. \A h \in 0..InitialTip : chain[h] \in Block
      BY <1>1 DEF Block
<1>3. top = InitialTip /\ fork = 0
      BY DEF NodeInit
<1>4. QED BY <1>1, <1>2, <1>3 DEF NodeTypeOK

(* The chain never gets shorter, and only a reorganisation replaces        *)
(* blocks, MaxReorg of them at most and never the first one.               *)
LEMMA NodeStep ==
    ASSUME NodeTypeOK, NodeNext
    PROVE  /\ NodeTypeOK' /\ top <= top'
           /\ \A h \in 0..top : h = 0 \/ h <= top - MaxReorg => chain'[h] = chain[h]
<1> USE NodeAssumption
<1>1. CASE Extend
  <2>1. PICK body \in Bodies :
            chain' = Branch(top, top + 1, fork, [h \in {top + 1} |-> body])
        BY <1>1 DEF Extend
  <2>2. top' = top + 1 /\ top' \in 0..MaxTip /\ fork' = fork
        BY <1>1 DEF Extend, NodeTypeOK
  <2>3. \A h \in 0..top + 1 : chain'[h] = IF h <= top THEN chain[h]
                                          ELSE [fork |-> fork, body |-> body]
        BY <2>1, <2>2 DEF Branch, NodeTypeOK
  <2>4. \A h \in 0..top + 1 : chain'[h] \in Block
        BY <2>3 DEF NodeTypeOK, Block
  <2>5. chain' = [h \in 0..top + 1 |-> chain'[h]]
        BY <2>1 DEF Branch
  <2>6. QED BY <2>2, <2>3, <2>4, <2>5 DEF NodeTypeOK
<1>2. ASSUME NEW detached \in 1..MaxReorg, Reorganize(detached)
      PROVE  /\ NodeTypeOK' /\ top <= top'
             /\ \A h \in 0..top : h = 0 \/ h <= top - MaxReorg => chain'[h] = chain[h]
  <2>1. /\ detached <= top /\ top' \in top..MaxTip /\ fork' = fork + 1
        /\ fork + 1 \in 0..MaxForks
        BY <1>2 DEF Reorganize, NodeTypeOK
  <2>2. PICK bodies \in [top - detached + 1..top' -> Bodies] :
            chain' = Branch(top - detached, top', fork + 1, bodies)
        BY <1>2 DEF Reorganize
  <2>3. \A h \in 0..top' : chain'[h] = IF h <= top - detached THEN chain[h]
                                       ELSE [fork |-> fork + 1, body |-> bodies[h]]
        BY <2>1, <2>2 DEF Branch, NodeTypeOK
  <2>4. ASSUME NEW h \in 0..top' PROVE chain'[h] \in Block
    <3>1. CASE h <= top - detached
      <4>1. h \in 0..top
            BY <2>1, <3>1 DEF NodeTypeOK
      <4>2. QED BY <2>3, <3>1, <4>1 DEF NodeTypeOK
    <3>2. CASE ~(h <= top - detached)
      <4>1. h \in top - detached + 1..top'
            BY <2>1, <3>2 DEF NodeTypeOK
      <4>2. bodies[h] \in Bodies
            BY <2>2, <4>1
      <4>3. chain'[h] = [fork |-> fork + 1, body |-> bodies[h]]
            BY <2>3, <3>2
      <4>4. [fork |-> fork + 1, body |-> bodies[h]] \in Block
            BY <2>1, <4>2 DEF Block
      <4>5. QED BY <4>3, <4>4
    <3>3. QED BY <3>1, <3>2
  <2>5. chain' = [h \in 0..top' |-> chain'[h]]
        BY <2>2 DEF Branch
  <2>6. NodeTypeOK' /\ top <= top'
        BY <2>1, <2>4, <2>5 DEF NodeTypeOK
  <2>7. \A h \in 0..top : h = 0 \/ h <= top - MaxReorg
                              => h \in 0..top' /\ h <= top - detached
        BY <2>1 DEF NodeTypeOK
  <2>8. QED BY <2>3, <2>6, <2>7
<1>3. QED BY <1>1, <1>2 DEF NodeNext

LEMMA EpochType == \A n \in 0..MaxTip : EpochOf(n) \in 0..MaxTip
BY FollowerAssumption, NodeAssumption DEF EpochOf

LEMMA BlockType ==
    ASSUME NEW b \in Block
    PROVE  /\ b.body.proposals \in SUBSET Txs /\ b.body.commits \in Seq(Txs)
           /\ b.body.uncles \in Nat /\ b.body.known \in Nat /\ b.body.skew \in Int
           /\ b.fork \in 0..MaxForks
<1>1. Genesis \in BodyType
      BY EmptySeq DEF Genesis, BodyType
<1>2. b.body \in BodyType /\ b.fork \in 0..MaxForks
      BY <1>1, NodeAssumption DEF Block
<1>3. QED BY <1>2 DEF BodyType

(***************************************************************************)
(* Type correctness.                                                       *)
(***************************************************************************)

(* What the table of a row says of its columns.                            *)
LEMMA RowTypes ==
    ASSUME NEW r \in Rows
    PROVE  /\ r.table = "block" => r.number \in 1..MaxTip
           /\ r.table = "uncle" => r.number \in 0..MaxTip
<1> DEFINE B == [table : {"block"}, number : 1..MaxTip, fork : Nat, parent : Nat, time : Int]
           U == [table : {"uncle"}, number : 0..MaxTip, cousin : Nat]
           C == [table : {"2pc"}, number : Nat, delay : Nat]
           E == [table : {"epoch"}, number : Nat, uncles : Nat]
<1>1. CASE r \in B
  <2>1. r.table = "block" /\ r.number \in 1..MaxTip
        BY <1>1
  <2>2. QED BY <2>1
<1>2. CASE r \in U
  <2>1. r.table = "uncle" /\ r.number \in 0..MaxTip
        BY <1>2
  <2>2. QED BY <2>1
<1>3. CASE r \in C
  <2>1. r.table = "2pc"
        BY <1>3
  <2>2. QED BY <2>1
<1>4. CASE r \in E
  <2>1. r.table = "epoch"
        BY <1>4
  <2>2. QED BY <2>1
<1>5. QED BY <1>1, <1>2, <1>3, <1>4 DEF Rows

LEMMA ReachedKept ==
    ASSUME RowsIn(ReachedRows), outbox' \in Seq(ReachedRows), UNCHANGED <<log, top>>
    PROVE  RowsIn(ReachedRows)' /\ RowsIn(Rows)'
<1>1. ReachedRows' = ReachedRows /\ ReachedRows \subseteq Rows
      BY DEF ReachedRows
<1>2. outbox' \in Seq(Rows)
      BY <1>1, SeqOfSubset
<1>3. RowsIn(Rows)
      BY <1>1, RowsInMonotonic
<1>4. RowsIn(Rows)'
      BY <1>2, <1>3, OthersKeepRows
<1>5. QED BY <1>1, <1>4 DEF RowsIn, log

LEMMA NumberTypes ==
    ASSUME TypeInv
    PROVE  /\ number \in Nat /\ 1 <= number /\ number <= top + 1
           /\ top \in Nat /\ top <= MaxTip /\ tip \in Nat
           /\ Analyzing => number <= top
<1>1. number \in 1..MaxTip + 1 /\ tip \in 0..MaxTip /\ top \in 0..MaxTip
      BY DEF TypeInv, TypeOK, NodeTypeOK
<1>2. QED BY <1>1, NodeAssumption DEF TypeInv

LEMMA TypeInvInit == Init => TypeInv
<1> SUFFICES ASSUME Init PROVE TypeInv
    OBVIOUS
<1> USE NodeAssumption, FollowerAssumption
<1>1. NodeTypeOK /\ chain[0] \in Block
      BY NodeTypeInit DEF Init
<1>2. RowsIn(Rows) /\ RowsIn(ReachedRows) /\ Len(accepted) = 0
      BY EmptySeq DEF Init, RowsIn, Log!Init
<1>3. zones \in [DOMAIN zones -> SUBSET Txs] /\ DOMAIN zones = {}
      BY DEF Init, NoZones
<1>4. left \in Seq(Txs)
      BY EmptySeq DEF Init
<1>5. number = 1 /\ 1 \in 1..MaxTip + 1 /\ number <= top + 1
      BY <1>1 DEF Init, NodeTypeOK
<1>6. pc = "down" /\ tip = 0 /\ epoch = 0 /\ uncles = 0 /\ unread = 0 /\ crashes = 0
          /\ parent = chain[0] /\ block = chain[0]
      BY DEF Init
<1>7. TypeOK
      BY <1>1, <1>2, <1>3, <1>4, <1>5, <1>6 DEF TypeOK
<1>8. QED BY <1>2, <1>5, <1>6, <1>7 DEF TypeInv, Analyzing

LEMMA TypeStart == TypeInv /\ Start => TypeInv'
<1> SUFFICES ASSUME TypeInv, Start PROVE TypeInv'
    OBVIOUS
<1> USE NodeAssumption, FollowerAssumption
<1>1. PICK last \in LastUpdated : number' = last + 1
      BY DEF Start
<1>2. ToSet(durable) \subseteq ReachedRows
      BY DEF TypeInv, RowsIn, ToSet
<1>3. ASSUME NEW r \in ToSet(durable), r.table = "block" PROVE r.number \in 0..top
  <2>1. r \in ReachedRows
        BY <1>2, <1>3
  <2>2. r \in Rows /\ r.number <= top
        BY <1>3, <2>1 DEF ReachedRows
  <2>3. r.number \in 0..MaxTip
        BY <1>3, <2>2, RowTypes, NodeAssumption
  <2>4. QED BY <2>2, <2>3, NumberTypes
<1>4. top \in 0..MaxTip
      BY DEF TypeInv, TypeOK, NodeTypeOK
<1>5. last \in 0..top
      BY <1>3, <1>4 DEF LastUpdated
<1>6. number' \in 1..MaxTip + 1 /\ number' <= top + 1
      BY <1>1, <1>4, <1>5
<1>7. zones' \in [DOMAIN zones' -> SUBSET Txs] /\ DOMAIN zones' = {}
      BY DEF Start, NoZones
<1>8. RowsIn(ReachedRows)' /\ RowsIn(Rows)'
      BY ReachedKept DEF TypeInv, Start, RowsIn, nodeVars
<1>9. QED BY <1>6, <1>7, <1>8
          DEF TypeInv, TypeOK, Analyzing, Start, nodeVars, log, NodeTypeOK

LEMMA TypeRead == TypeInv /\ (ReadTip \/ ReadParent \/ Refresh \/ CallPanics) => TypeInv'
<1> SUFFICES ASSUME TypeInv, ReadTip \/ ReadParent \/ Refresh \/ CallPanics
             PROVE TypeInv'
    OBVIOUS
<1> USE NodeAssumption, FollowerAssumption
<1>1. UNCHANGED <<log, outbox, nodeVars, number, block, unread, left, zones, crashes>>
      BY DEF ReadTip, ReadParent, Refresh, CallPanics, task
<1>2. RowsIn(ReachedRows)' /\ RowsIn(Rows)'
      BY <1>1, ReachedKept DEF TypeInv, RowsIn, nodeVars
<1>3. number - 1 \in 0..top /\ number - 1 \in 0..MaxTip
      BY NumberTypes
<1>4. chain[number - 1] \in Block
      BY <1>3 DEF TypeInv, TypeOK, NodeTypeOK
<1>5. EpochOf(number - 1) \in 0..MaxTip
      BY <1>3, EpochType
<1>6. CASE ReadTip
      BY <1>1, <1>2, <1>6 DEF TypeInv, TypeOK, Analyzing, ReadTip, nodeVars, log, NodeTypeOK
<1>7. CASE ReadParent
      BY <1>1, <1>2, <1>4, <1>5, <1>7
      DEF TypeInv, TypeOK, Analyzing, ReadParent, nodeVars, log, NodeTypeOK
<1>8. CASE Refresh
      BY <1>1, <1>2, <1>8 DEF TypeInv, TypeOK, Analyzing, Refresh, nodeVars, log, NodeTypeOK
<1>9. CASE CallPanics
      BY <1>1, <1>2, <1>9
      DEF TypeInv, TypeOK, Analyzing, CallPanics, task, nodeVars, log, NodeTypeOK
<1>10. QED BY <1>6, <1>7, <1>8, <1>9

LEMMA OneRow == ASSUME NEW S, NEW r \in S PROVE <<r>> \in Seq(S)
OBVIOUS

LEMMA TypeAnalyzeBlock == TypeInv /\ AnalyzeBlock => TypeInv'
<1> SUFFICES ASSUME TypeInv, AnalyzeBlock PROVE TypeInv'
    OBVIOUS
<1> USE NodeAssumption, FollowerAssumption
<1>1. number \in 1..MaxTip /\ number \in 0..top /\ number <= top
      BY NumberTypes DEF AnalyzeBlock
<1>2. chain[number] \in Block /\ parent \in Block
      BY <1>1 DEF TypeInv, TypeOK, NodeTypeOK
<1>3. block' \in Block /\ unread' \in Nat
      BY <1>2, BlockType DEF AnalyzeBlock
<1>4. BlockRow(number, block', parent) \in ReachedRows
  <2>1. block'.fork \in Nat /\ parent.fork \in Nat /\ block'.body.skew \in Int
        BY <1>2, <1>3, BlockType
  <2>2. BlockInterval * number + block'.body.skew \in Int
        BY <1>1, <2>1
  <2>3. BlockRow(number, block', parent) \in Rows
        BY <1>1, <2>1, <2>2 DEF BlockRow, Rows
  <2>4. BlockRow(number, block', parent).number = number
        BY DEF BlockRow
  <2>5. QED BY <1>1, <2>3, <2>4 DEF ReachedRows
<1>5. outbox' \in Seq(ReachedRows)
      BY <1>4, OneRow DEF AnalyzeBlock
<1>6. RowsIn(ReachedRows)' /\ RowsIn(Rows)'
      BY <1>5, ReachedKept DEF TypeInv, AnalyzeBlock, nodeVars
<1>7. QED BY <1>1, <1>3, <1>6
          DEF TypeInv, TypeOK, Analyzing, AnalyzeBlock, nodeVars, log, NodeTypeOK

LEMMA TypeAnalyzeUncle == TypeInv /\ AnalyzeUncle => TypeInv'
<1> SUFFICES ASSUME TypeInv, AnalyzeUncle PROVE TypeInv'
    OBVIOUS
<1> USE NodeAssumption, FollowerAssumption
<1>1. number - 1 \in 0..top /\ number - 1 \in 0..MaxTip
      BY NumberTypes
<1>2. chain[number - 1] \in Block
      BY <1>1 DEF TypeInv, TypeOK, NodeTypeOK
<1>3. chain[number - 1].fork \in Nat
      BY <1>2, BlockType
<1>4. UncleRow(number - 1, chain[number - 1]) \in ReachedRows
      BY <1>1, <1>3 DEF UncleRow, Rows, ReachedRows
<1>5. outbox' \in Seq(ReachedRows)
      BY <1>4, OneRow DEF AnalyzeUncle
<1>6. RowsIn(ReachedRows)' /\ RowsIn(Rows)'
      BY <1>5, ReachedKept DEF TypeInv, AnalyzeUncle, nodeVars
<1>7. unread' \in Nat
  <2>1. unread \in Nat /\ unread > 0 /\ unread' = unread - 1
        BY DEF TypeInv, TypeOK, AnalyzeUncle
  <2>2. QED BY <2>1
<1>8. QED BY <1>6, <1>7
          DEF TypeInv, TypeOK, Analyzing, AnalyzeUncle, nodeVars, log, NodeTypeOK

LEMMA TypeAnalyzeTransactions == TypeInv /\ AnalyzeTransactions => TypeInv'
<1> SUFFICES ASSUME TypeInv, AnalyzeTransactions PROVE TypeInv'
    OBVIOUS
<1>1. left' \in Seq(Txs)
      BY BlockType DEF TypeInv, TypeOK, AnalyzeTransactions
<1>2. RowsIn(ReachedRows)' /\ RowsIn(Rows)'
      BY ReachedKept DEF TypeInv, AnalyzeTransactions, nodeVars, RowsIn
<1>3. QED BY <1>1, <1>2
          DEF TypeInv, TypeOK, Analyzing, AnalyzeTransactions, nodeVars, log, NodeTypeOK

LEMMA TypeAnalyzeTransaction == TypeInv /\ AnalyzeTransaction => TypeInv'
<1> SUFFICES ASSUME TypeInv, AnalyzeTransaction PROVE TypeInv'
    OBVIOUS
<1> USE NodeAssumption, FollowerAssumption
<1>1. left' \in Seq(Txs)
      BY HeadTailProperties DEF TypeInv, TypeOK, AnalyzeTransaction
<1>2. /\ zones' \in [DOMAIN zones' -> SUBSET Txs] /\ DOMAIN zones' = DOMAIN zones
      /\ outbox' \in Seq(ReachedRows)
  <2>1. CASE UNCHANGED <<outbox, zones>>
        BY <2>1 DEF TypeInv, TypeOK, RowsIn
  <2>2. ASSUME NEW tx, NEW m \in Zones(tx),
               outbox' = <<CommitRow(number, number - m)>>,
               zones' = [zones EXCEPT ![m] = @ \ {tx}]
        PROVE  /\ zones' \in [DOMAIN zones' -> SUBSET Txs] /\ DOMAIN zones' = DOMAIN zones
               /\ outbox' \in Seq(ReachedRows)
    <3>1. m \in DOMAIN zones
          BY DEF Zones
    <3>2. number - m \in Nat /\ number \in Nat
      <4>1. m \in 1..number /\ number \in 1..MaxTip + 1
            BY <3>1 DEF TypeInv, TypeOK
      <4>2. QED BY <4>1
    <3>3. CommitRow(number, number - m) \in ReachedRows
          BY <3>2 DEF CommitRow, Rows, ReachedRows
    <3>4. outbox' \in Seq(ReachedRows)
          BY <2>2, <3>3, OneRow
    <3>5. zones[m] \ {tx} \in SUBSET Txs
          BY <3>1 DEF TypeInv, TypeOK
    <3>6. zones \in [DOMAIN zones -> SUBSET Txs]
          BY DEF TypeInv, TypeOK
    <3>7. zones' \in [DOMAIN zones -> SUBSET Txs]
          BY <2>2, <3>5, <3>6
    <3>8. DOMAIN zones' = DOMAIN zones
          BY <2>2
    <3>9. QED BY <3>4, <3>7, <3>8, Zenon
  <2>3. \/ UNCHANGED <<outbox, zones>>
        \/ \E m \in Zones(Head(left)) :
               /\ outbox' = <<CommitRow(number, number - m)>>
               /\ zones' = [zones EXCEPT ![m] = @ \ {Head(left)}]
        BY Zenon DEF AnalyzeTransaction
  <2>4. QED BY <2>1, <2>2, <2>3, Zenon
<1>3. RowsIn(ReachedRows)' /\ RowsIn(Rows)'
      BY <1>2, ReachedKept DEF TypeInv, AnalyzeTransaction, nodeVars
<1>4. QED BY <1>1, <1>2, <1>3
          DEF TypeInv, TypeOK, Analyzing, AnalyzeTransaction, nodeVars, log, NodeTypeOK

LEMMA TypePruneZones == TypeInv /\ PruneZones => TypeInv'
<1> SUFFICES ASSUME TypeInv, PruneZones PROVE TypeInv'
    OBVIOUS
<1> USE NodeAssumption, FollowerAssumption
<1> DEFINE D == (DOMAIN zones \ {Leaving}) \cup {number}
<1>1. zones' = [m \in D |-> IF m = number THEN block.body.proposals ELSE zones[m]]
      BY DEF PruneZones
<1>2. number \in Nat /\ 1 <= number /\ number <= top /\ top \in Nat
      BY NumberTypes DEF Analyzing, PruneZones
<1>3. zones' \in [D -> SUBSET Txs] /\ DOMAIN zones' = D
  <2>1. block.body.proposals \in SUBSET Txs
        BY BlockType DEF TypeInv, TypeOK
  <2>2. \A m \in D : m # number => zones[m] \in SUBSET Txs
        BY DEF TypeInv, TypeOK
  <2> HIDE DEF D
  <2>3. QED BY <1>1, <2>1, <2>2
<1>4. ASSUME NEW m \in D
      PROVE  m \in 1..number /\ number < m + WindowFar
  <2>1. CASE m = number
        BY <1>2, <2>1
  <2>2. CASE m # number
    <3>1. m \in 1..number /\ number <= m + WindowFar /\ m # Leaving
          BY <2>2 DEF TypeInv, TypeOK
    <3>2. CASE number = m + WindowFar
      <4>1. number - WindowFar = m /\ number >= WindowFar
            BY <1>2, <3>1, <3>2
      <4>2. Leaving = m
            BY <4>1 DEF Leaving, Minus
      <4>3. QED BY <3>1, <4>2
    <3>3. CASE number # m + WindowFar
          BY <1>2, <3>1, <3>3
    <3>4. QED BY <3>2, <3>3
  <2>3. QED BY <2>1, <2>2
<1>5. \A m \in D : number <= m + WindowFar
      BY <1>2, <1>4
<1>6. RowsIn(ReachedRows)' /\ RowsIn(Rows)'
      BY ReachedKept DEF TypeInv, PruneZones, nodeVars, RowsIn
<1> HIDE DEF D
<1>7. /\ zones' \in [DOMAIN zones' -> SUBSET Txs]
      /\ DOMAIN zones' \subseteq {m \in 1..number : number <= m + WindowFar}
      /\ \A m \in DOMAIN zones' : number < m + WindowFar
      BY <1>3, <1>4, <1>5
<1>8. QED BY <1>2, <1>6, <1>7
          DEF TypeInv, TypeOK, Analyzing, PruneZones, nodeVars, log, NodeTypeOK

LEMMA TypeAnalyzeEpoch == TypeInv /\ AnalyzeEpoch => TypeInv'
<1> SUFFICES ASSUME TypeInv, AnalyzeEpoch PROVE TypeInv'
    OBVIOUS
<1> USE NodeAssumption, FollowerAssumption
<1>1. number \in Nat /\ 1 <= number /\ number <= top /\ top \in Nat /\ top <= MaxTip
      BY NumberTypes DEF Analyzing, AnalyzeEpoch
<1>2. EpochOf(number) \in 0..MaxTip
      BY <1>1, EpochType
<1>3. uncles' \in Nat /\ epoch' \in 0..MaxTip
  <2>1. uncles \in Nat /\ block.body.uncles \in Nat
        BY BlockType DEF TypeInv, TypeOK
  <2>2. epoch' = EpochOf(number)
        BY DEF AnalyzeEpoch
  <2>3. uncles' = 0 + block.body.uncles \/ uncles' = uncles + block.body.uncles
        BY DEF AnalyzeEpoch
  <2>4. QED BY <1>2, <2>1, <2>2, <2>3
<1>4. EpochRow(epoch, uncles) \in ReachedRows
      BY DEF TypeInv, TypeOK, EpochRow, Rows, ReachedRows
<1>5. outbox' \in Seq(ReachedRows)
      BY <1>4, OneRow, EmptySeq DEF AnalyzeEpoch
<1>6. RowsIn(ReachedRows)' /\ RowsIn(Rows)'
      BY <1>5, ReachedKept DEF TypeInv, AnalyzeEpoch, nodeVars
<1>7. number' = number + 1 /\ number' \in 1..MaxTip + 1 /\ number' <= top + 1
      BY <1>1 DEF AnalyzeEpoch
<1>8. DOMAIN zones \subseteq {m \in 1..number + 1 : number + 1 <= m + WindowFar}
  <2>1. ASSUME NEW m \in DOMAIN zones
        PROVE  m \in 1..number + 1 /\ number + 1 <= m + WindowFar
    <3>1. m \in 1..number /\ number < m + WindowFar
          BY DEF TypeInv, TypeOK, AnalyzeEpoch
    <3>2. QED BY <1>1, <3>1
  <2>2. QED BY <2>1
<1>9. QED BY <1>3, <1>6, <1>7, <1>8
          DEF TypeInv, TypeOK, Analyzing, AnalyzeEpoch, nodeVars, log, NodeTypeOK

(* The steps of the log, of the process and of the node.                   *)
LEMMA TypeLog == TypeInv /\ (Send \/ Persist \/ Settle \/ Crash) => TypeInv'
<1> SUFFICES ASSUME TypeInv, Send \/ Persist \/ Settle \/ Crash PROVE TypeInv'
    OBVIOUS
<1> USE NodeAssumption, FollowerAssumption
<1>1. /\ RowsIn(Rows)' /\ Len(accepted') <= LogCapacity
      /\ RowsIn(ReachedRows)
      /\ RowsIn(ReachedRows) => outbox' \in Seq(ReachedRows) /\ accepted' \in Seq(ReachedRows)
               /\ durable' \in Seq(ReachedRows) /\ doubtful' \subseteq Seq(ReachedRows)
      /\ ReachedRows' = ReachedRows
  <2>1. RowsIn(Rows) /\ Len(accepted) \in Nat /\ Len(accepted) <= LogCapacity
        BY LenProperties DEF TypeInv, TypeOK, RowsIn
  <2>2. ASSUME NEW S, RowsIn(S)
        PROVE  /\ outbox' \in Seq(S) /\ accepted' \in Seq(S)
               /\ durable' \in Seq(S) /\ doubtful' \subseteq Seq(S)
               /\ Len(accepted') <= LogCapacity
    <3>1. CASE Send
          BY <2>2, <3>1, SendKeepsRows DEF RowsIn
    <3>2. CASE Persist
      <4>1. RowsIn(S)' /\ Len(accepted') <= Len(accepted)
            BY <2>2, <3>2, PersistKeepsRows
      <4>2. Len(accepted') \in Nat
            BY <4>1, LenProperties DEF RowsIn
      <4>3. QED BY <2>1, <4>1, <4>2 DEF RowsIn
    <3>3. CASE Settle
          BY <2>1, <2>2, <3>3, SettleKeepsRows DEF RowsIn
    <3>4. CASE Crash
          BY <2>2, <3>4, CrashKeepsRows, EmptySeq DEF RowsIn
    <3>5. QED BY <3>1, <3>2, <3>3, <3>4
  <2>3. top' = top
        BY DEF Send, Persist, Settle, Crash, nodeVars
  <2>4. ReachedRows' = ReachedRows
        BY <2>3 DEF ReachedRows
  <2>5. RowsIn(Rows)' /\ Len(accepted') <= LogCapacity
        BY <2>1, <2>2 DEF RowsIn
  <2>6. QED BY <2>2, <2>4, <2>5 DEF TypeInv
<1>2. RowsIn(ReachedRows)'
      BY <1>1 DEF RowsIn
<1>3. CASE Crash
  <2>1. crashes \in Nat /\ crashes < MaxCrashes /\ crashes' = crashes + 1
        BY <1>3 DEF TypeInv, TypeOK, Crash
  <2>2. crashes' \in 0..MaxCrashes
        BY <2>1
  <2>3. QED
      BY <1>1, <1>2, <1>3, <2>2 DEF TypeInv, TypeOK, Analyzing, Crash, nodeVars, task, NodeTypeOK
<1>4. CASE Send \/ Persist \/ Settle
      BY <1>1, <1>2, <1>4
      DEF TypeInv, TypeOK, Analyzing, Send, Persist, Settle, nodeVars, task, NodeTypeOK
<1>5. QED BY <1>3, <1>4

LEMMA TypeNodeMoves == TypeInv /\ NodeMoves => TypeInv'
<1> SUFFICES ASSUME TypeInv, NodeMoves PROVE TypeInv'
    OBVIOUS
<1>1. NodeTypeOK' /\ top <= top' /\ top \in Nat /\ top' \in Nat
  <2>1. NodeTypeOK /\ NodeNext
        BY DEF TypeInv, TypeOK, NodeMoves
  <2>2. NodeTypeOK' /\ top <= top'
        BY <2>1, NodeStep
  <2>3. QED BY <2>1, <2>2, NodeAssumption DEF NodeTypeOK
<1>2. ReachedRows \subseteq ReachedRows'
  <2>1. ASSUME NEW r \in ReachedRows, r.table = "block" PROVE r.number <= top'
        BY <1>1, <2>1, RowTypes DEF ReachedRows
  <2>2. QED BY <2>1 DEF ReachedRows
<1>3. UNCHANGED <<pc, task, outbox, log, crashes>>
      BY DEF NodeMoves
<1>4. RowsIn(ReachedRows')
      BY <1>2, RowsInMonotonic DEF TypeInv
<1>5. RowsIn(ReachedRows)' /\ RowsIn(Rows)'
      BY <1>3, <1>4 DEF RowsIn, log, TypeInv, TypeOK
<1>6. number <= top' + 1 /\ (Analyzing => number <= top')
      BY <1>1, NumberTypes
<1>7. QED BY <1>1, <1>3, <1>5, <1>6 DEF TypeInv, TypeOK, Analyzing, log, task

LEMMA TypeInvStep == TypeInv /\ [Next]_vars => TypeInv'
<1> SUFFICES ASSUME TypeInv, [Next]_vars PROVE TypeInv'
    OBVIOUS
<1>1. CASE UNCHANGED vars
  <2>1. RowsIn(ReachedRows)' /\ RowsIn(Rows)'
        BY <1>1, ReachedKept DEF TypeInv, vars, nodeVars, RowsIn
  <2>2. QED BY <1>1, <2>1
            DEF TypeInv, TypeOK, Analyzing, vars, task, log, nodeVars, NodeTypeOK
<1>2. QED BY <1>1, TypeStart, TypeRead, TypeAnalyzeBlock, TypeAnalyzeUncle,
             TypeAnalyzeTransactions, TypeAnalyzeTransaction, TypePruneZones,
             TypeAnalyzeEpoch, TypeLog, TypeNodeMoves
          DEF Next, Analyze

(* Every variable keeps its type; in particular the zones kept are those   *)
(* that a block not yet analysed may still commit from, and the queue      *)
(* never exceeds its capacity.                                             *)
THEOREM TypeCorrect == Spec => []TypeOK
<1>1. TypeInv => TypeOK
      BY DEF TypeInv
<1>2. QED BY <1>1, TypeInvInit, TypeInvStep, PTL DEF Spec

(***************************************************************************)
(* What is recorded is buried.                                             *)
(***************************************************************************)

LEMMA BuriedKept ==
    ASSUME RowsIn(BuriedRows), outbox' \in Seq(BuriedRows), UNCHANGED <<log, nodeVars>>
    PROVE  RowsIn(BuriedRows)'
<1>1. BuriedRows' = BuriedRows
      BY DEF BuriedRows, Buried, nodeVars
<1>2. QED BY <1>1 DEF RowsIn, log

LEMMA RowOfOne == ASSUME NEW S, NEW r, <<r>> \in Seq(S) PROVE r \in S
<1>1. Head(<<r>>) \in S
      BY HeadTailProperties
<1>2. QED BY <1>1

LEMMA FollowsInit == ASSUME MatureChain PROVE Init => FollowsBuried
<1> SUFFICES ASSUME Init PROVE FollowsBuried
    OBVIOUS
<1>1. RowsIn(BuriedRows)
      BY EmptySeq DEF Init, RowsIn, Log!Init
<1>2. top = InitialTip /\ pc = "down" /\ number = 1
      BY DEF Init, NodeInit
<1>3. QED BY <1>1, <1>2 DEF FollowsBuried, MatureChain, Analyzing

LEMMA FollowsStart == TypeInv /\ FollowsBuried /\ Start => FollowsBuried'
<1> SUFFICES ASSUME TypeInv, FollowsBuried, Start PROVE FollowsBuried'
    OBVIOUS
<1> USE NodeAssumption, FollowerAssumption
<1>1. PICK last \in LastUpdated : number' = last + 1
      BY DEF Start
<1>2. ToSet(durable) \subseteq BuriedRows
      BY DEF FollowsBuried, RowsIn, ToSet
<1>3. ASSUME NEW r \in ToSet(durable), r.table = "block"
      PROVE  r.number \in Nat /\ r.number + Confirmations < top
  <2>1. r \in Rows /\ r.number + Confirmations < top
        BY <1>2, <1>3 DEF BuriedRows, Buried
  <2>2. QED BY <1>3, <2>1, RowTypes
<1>4. last = 0 \/ (last \in Nat /\ last + Confirmations < top)
  <2>1. last = 0 \/ \E r \in ToSet(durable) : r.table = "block" /\ last = r.number
    <3> DEFINE blocks == {r \in ToSet(durable) : r.table = "block"}
               latest == {r \in blocks : \A q \in blocks : q.time <= r.time}
    <3>1. last \in IF blocks = {} THEN {0} ELSE {r.number : r \in latest}
          BY Zenon DEF LastUpdated
    <3>2. \A r \in latest : r \in ToSet(durable) /\ r.table = "block"
          BY Zenon
    <3> HIDE DEF blocks, latest
    <3>3. CASE blocks = {}
          BY <3>1, <3>3
    <3>4. CASE blocks # {}
      <4>1. last \in {r.number : r \in latest}
            BY <3>1, <3>4
      <4>2. \E r \in latest : last = r.number
            BY <4>1
      <4>3. QED BY <3>2, <4>2
    <3>5. QED BY <3>3, <3>4
  <2>2. QED BY <1>3, <2>1
<1>5. number' = 1 \/ number' + Confirmations <= top
      BY <1>1, <1>4, NumberTypes
<1>6. RowsIn(BuriedRows)'
      BY BuriedKept DEF FollowsBuried, Start, RowsIn
<1>7. QED BY <1>5, <1>6 DEF FollowsBuried, Start, Analyzing, nodeVars

LEMMA FollowsRead ==
    TypeInv /\ FollowsBuried /\ (ReadTip \/ ReadParent \/ Refresh \/ CallPanics)
        => FollowsBuried'
<1> SUFFICES ASSUME TypeInv, FollowsBuried, ReadTip \/ ReadParent \/ Refresh \/ CallPanics
    PROVE FollowsBuried'
    OBVIOUS
<1>1. RowsIn(BuriedRows)'
      BY BuriedKept DEF FollowsBuried, ReadTip, ReadParent, Refresh, CallPanics, RowsIn
<1>2. CASE ReadTip
      BY <1>1, <1>2, NumberTypes DEF FollowsBuried, ReadTip, Analyzing, nodeVars
<1>3. CASE ReadParent
      BY <1>1, <1>3 DEF FollowsBuried, ReadParent, Analyzing, nodeVars
<1>4. CASE Refresh
      BY <1>1, <1>4, NumberTypes DEF FollowsBuried, Refresh, Analyzing, nodeVars
<1>5. CASE CallPanics
      BY <1>1, <1>5 DEF FollowsBuried, CallPanics, task, Analyzing, nodeVars
<1>6. QED BY <1>2, <1>3, <1>4, <1>5

LEMMA FollowsAnalyzeBlock ==
    TypeInv /\ TypeInv' /\ FollowsBuried /\ AnalyzeBlock => FollowsBuried'
<1> SUFFICES ASSUME TypeInv, TypeInv', FollowsBuried, AnalyzeBlock PROVE FollowsBuried'
    OBVIOUS
<1> USE NodeAssumption, FollowerAssumption
<1>1. /\ number \in Nat /\ 1 <= number /\ tip \in Nat /\ top \in Nat
      /\ Confirmations <= tip /\ tip <= top /\ Confirmations \in Nat
      BY NumberTypes DEF FollowsBuried, AnalyzeBlock
<1>2. number + Confirmations < top
  <2>1. Minus(tip, Confirmations) = tip - Confirmations
        BY <1>1 DEF Minus
  <2>2. number < tip - Confirmations
        BY <2>1 DEF AnalyzeBlock, Confirmed
  <2>3. QED BY <1>1, <2>2
<1>3. Buried(number, block'.fork) /\ Buried(number - 1, parent.fork)
      BY <1>1, <1>2 DEF Buried, FollowsBuried, AnalyzeBlock
<1> DEFINE row == BlockRow(number, block', parent)
<1>4. row \in BuriedRows
  <2>1. outbox' = <<row>> /\ outbox' \in Seq(Rows)
        BY DEF AnalyzeBlock, TypeInv, TypeOK, RowsIn
  <2>2. row.table = "block" /\ row.number = number /\ row.fork = block'.fork
            /\ row.parent = parent.fork
        BY DEF BlockRow
  <2> HIDE DEF row
  <2>3. row \in Rows
        BY <2>1, RowOfOne
  <2>4. QED BY <1>3, <2>2, <2>3 DEF BuriedRows
<1>5. outbox' \in Seq(BuriedRows)
      BY <1>4, OneRow DEF AnalyzeBlock
<1>6. RowsIn(BuriedRows)'
      BY <1>5, BuriedKept DEF FollowsBuried, AnalyzeBlock
<1>7. QED BY <1>3, <1>6 DEF FollowsBuried, Buried, AnalyzeBlock, Analyzing, nodeVars

LEMMA FollowsAnalyzeUncle ==
    TypeInv /\ TypeInv' /\ FollowsBuried /\ AnalyzeUncle => FollowsBuried'
<1> SUFFICES ASSUME TypeInv, TypeInv', FollowsBuried, AnalyzeUncle PROVE FollowsBuried'
    OBVIOUS
<1> USE NodeAssumption, FollowerAssumption
<1>1. number + Confirmations < top /\ number \in Nat /\ top \in Nat
      BY NumberTypes DEF FollowsBuried, Buried, AnalyzeUncle, Analyzing
<1>2. Buried(number - 1, chain[number - 1].fork)
      BY <1>1 DEF Buried
<1> DEFINE row == UncleRow(number - 1, chain[number - 1])
<1>3. row \in BuriedRows
  <2>1. outbox' = <<row>> /\ outbox' \in Seq(Rows)
        BY DEF AnalyzeUncle, TypeInv, TypeOK, RowsIn
  <2>2. row.table = "uncle" /\ row.number = number - 1
            /\ row.cousin = chain[number - 1].fork
        BY DEF UncleRow
  <2> HIDE DEF row
  <2>3. row \in Rows
        BY <2>1, RowOfOne
  <2>4. QED BY <1>2, <2>2, <2>3 DEF BuriedRows
<1>4. outbox' \in Seq(BuriedRows)
      BY <1>3, OneRow DEF AnalyzeUncle
<1>5. RowsIn(BuriedRows)'
      BY <1>4, BuriedKept DEF FollowsBuried, AnalyzeUncle
<1>6. QED BY <1>5 DEF FollowsBuried, Buried, AnalyzeUncle, Analyzing, nodeVars

LEMMA FollowsTransactions ==
    /\ TypeInv /\ TypeInv' /\ FollowsBuried
    /\ AnalyzeTransactions \/ AnalyzeTransaction \/ PruneZones
    => FollowsBuried'
<1> SUFFICES ASSUME TypeInv, TypeInv', FollowsBuried,
                    AnalyzeTransactions \/ AnalyzeTransaction \/ PruneZones
             PROVE  FollowsBuried'
    OBVIOUS
<1>1. outbox' \in Seq(Rows) /\ outbox \in Seq(BuriedRows)
      BY DEF TypeInv, TypeOK, RowsIn, FollowsBuried
<1>2. ASSUME NEW m, outbox' = <<CommitRow(number, number - m)>>
      PROVE  outbox' \in Seq(BuriedRows)
  <2>1. CommitRow(number, number - m) \in Rows
        BY <1>1, <1>2, RowOfOne
  <2>2. CommitRow(number, number - m).table = "2pc"
        BY DEF CommitRow
  <2>3. CommitRow(number, number - m) \in BuriedRows
        BY <2>1, <2>2 DEF BuriedRows
  <2>4. QED BY <1>2, <2>3, OneRow
<1>3. outbox' = outbox \/ \E m : outbox' = <<CommitRow(number, number - m)>>
      BY Zenon DEF AnalyzeTransactions, AnalyzeTransaction, PruneZones
<1>4. outbox' \in Seq(BuriedRows)
      BY <1>1, <1>2, <1>3
<1>5. UNCHANGED <<number, tip, parent, block, log, nodeVars>> /\ pc \notin {"down", "failed", "tip"}
          /\ Analyzing
      BY DEF AnalyzeTransactions, AnalyzeTransaction, PruneZones, Analyzing
<1>6. RowsIn(BuriedRows)'
      BY <1>4, <1>5, BuriedKept DEF FollowsBuried
<1>7. QED BY <1>5, <1>6 DEF FollowsBuried, Buried, nodeVars, Analyzing

LEMMA FollowsAnalyzeEpoch ==
    TypeInv /\ TypeInv' /\ FollowsBuried /\ AnalyzeEpoch => FollowsBuried'
<1> SUFFICES ASSUME TypeInv, TypeInv', FollowsBuried, AnalyzeEpoch PROVE FollowsBuried'
    OBVIOUS
<1> USE NodeAssumption, FollowerAssumption
<1>1. number + Confirmations < top /\ number \in Nat /\ top \in Nat
          /\ chain[number].fork = block.fork
      BY NumberTypes DEF FollowsBuried, Buried, AnalyzeEpoch, Analyzing
<1> DEFINE row == EpochRow(epoch, uncles)
<1>2. row.table = "epoch"
      BY DEF EpochRow
<1>3. outbox' \in Seq(Rows) /\ (outbox' = <<>> \/ outbox' = <<row>>)
      BY DEF AnalyzeEpoch, TypeInv, TypeOK, RowsIn
<1> HIDE DEF row
<1>4. outbox' \in Seq(BuriedRows)
  <2>1. CASE outbox' = <<row>>
    <3>1. row \in Rows
          BY <1>3, <2>1, RowOfOne
    <3>2. row \in BuriedRows
          BY <1>2, <3>1 DEF BuriedRows
    <3>3. QED BY <2>1, <3>2, OneRow
  <2>2. QED BY <1>3, <2>1, EmptySeq
<1>5. RowsIn(BuriedRows)'
      BY <1>4, BuriedKept DEF FollowsBuried, AnalyzeEpoch
<1>6. UNCHANGED <<tip, nodeVars>> /\ pc \notin {"down", "failed", "tip"} /\ pc' = "block"
          /\ number' = number + 1 /\ parent' = block
      BY DEF AnalyzeEpoch
<1>7. number' - 1 = number /\ number' + Confirmations <= top
      BY <1>1, <1>6
<1>8. QED BY <1>1, <1>5, <1>6, <1>7 DEF FollowsBuried, nodeVars, Analyzing

LEMMA FollowsLog ==
    FollowsBuried /\ (Send \/ Persist \/ Settle \/ Crash) => FollowsBuried'
<1> SUFFICES ASSUME FollowsBuried, Send \/ Persist \/ Settle \/ Crash
             PROVE  FollowsBuried'
    OBVIOUS
<1>1. UNCHANGED <<task, nodeVars>> /\ (pc' = pc \/ pc' = "down")
      BY DEF Send, Persist, Settle, Crash
<1>2. BuriedRows' = BuriedRows
      BY <1>1 DEF BuriedRows, Buried, nodeVars
<1>3. ASSUME NEW S, RowsIn(S)
      PROVE  /\ outbox' \in Seq(S) /\ accepted' \in Seq(S)
             /\ durable' \in Seq(S) /\ doubtful' \subseteq Seq(S)
      BY <1>3, SendKeepsRows, PersistKeepsRows, SettleKeepsRows, CrashKeepsRows DEF RowsIn
<1>4. RowsIn(BuriedRows)'
      BY <1>2, <1>3 DEF RowsIn, FollowsBuried
<1>5. QED BY <1>1, <1>4 DEF FollowsBuried, Buried, task, nodeVars, Analyzing

(* A reorganisation does not reach what is buried.                         *)
LEMMA BuriedStays ==
    ASSUME MatureChain, NodeTypeOK, NodeNext, NEW n \in Int, 0 <= n, NEW f, Buried(n, f)
    PROVE  Buried(n, f)'
<1> USE NodeAssumption, FollowerAssumption
<1>1. top \in Nat /\ top' \in Nat /\ top <= top'
      BY NodeStep DEF NodeTypeOK
<1>2. n \in 0..top /\ n <= top - MaxReorg
      BY <1>1 DEF Buried, MatureChain
<1>3. chain'[n] = chain[n]
      BY <1>2, NodeStep
<1>4. QED BY <1>1, <1>3 DEF Buried

LEMMA FollowsNodeMoves ==
    ASSUME MatureChain PROVE TypeInv /\ FollowsBuried /\ NodeMoves => FollowsBuried'
<1> SUFFICES ASSUME TypeInv, FollowsBuried, NodeMoves PROVE FollowsBuried'
    OBVIOUS
<1> USE NodeAssumption, FollowerAssumption
<1>1. NodeTypeOK /\ NodeNext /\ UNCHANGED <<pc, task, outbox, log, crashes>>
      BY DEF TypeInv, TypeOK, NodeMoves
<1>2. top \in Nat /\ top' \in Nat /\ top <= top'
      BY <1>1, NodeStep DEF NodeTypeOK
<1>3. number \in Nat /\ 1 <= number /\ tip \in Nat
      BY NumberTypes
<1>4. BuriedRows \subseteq BuriedRows'
  <2>1. ASSUME NEW r \in BuriedRows, r.table = "block"
        PROVE  Buried(r.number, r.fork)' /\ Buried(r.number - 1, r.parent)'
    <3>1. r.number \in 1..MaxTip
          BY <2>1, RowTypes DEF BuriedRows
    <3>2. Buried(r.number, r.fork) /\ Buried(r.number - 1, r.parent)
          BY <2>1 DEF BuriedRows
    <3>3. Buried(r.number, r.fork)'
          BY <1>1, <3>1, <3>2, BuriedStays
    <3>4. Buried(r.number - 1, r.parent)'
      <4>1. r.number - 1 \in Int /\ 0 <= r.number - 1
            BY <3>1
      <4>2. QED BY <1>1, <3>2, <4>1, BuriedStays
    <3>5. QED BY <3>3, <3>4
  <2>2. ASSUME NEW r \in BuriedRows, r.table = "uncle"
        PROVE  Buried(r.number, r.cousin)'
    <3>1. r.number \in 0..MaxTip /\ Buried(r.number, r.cousin)
          BY <2>2, RowTypes DEF BuriedRows
    <3>2. QED BY <1>1, <3>1, BuriedStays
  <2>3. QED BY <2>1, <2>2 DEF BuriedRows
<1>5. RowsIn(BuriedRows)'
  <2>1. RowsIn(BuriedRows')
        BY <1>4, RowsInMonotonic DEF FollowsBuried
  <2>2. QED BY <1>1, <2>1 DEF RowsIn, log
<1>6. Analyzing => Buried(number, block.fork)'
      BY <1>1, <1>3, BuriedStays DEF FollowsBuried, task
<1>7. Analyzing \/ pc = "block" => chain'[number - 1].fork = parent.fork
  <2>1. SUFFICES ASSUME Analyzing \/ pc = "block"
                 PROVE  chain'[number - 1].fork = parent.fork
        OBVIOUS
  <2>2. chain[number - 1].fork = parent.fork
        BY <2>1 DEF FollowsBuried
  <2>3. CASE number = 1
    <3>1. chain'[0] = chain[0]
          BY <1>1, <1>2, NodeStep
    <3>2. QED BY <2>2, <2>3, <3>1
  <2>4. CASE number # 1
    <3>1. number + Confirmations <= top
          BY <2>4 DEF FollowsBuried
    <3>2. number - 1 \in 0..top /\ number - 1 <= top - MaxReorg
          BY <1>2, <1>3, <3>1 DEF MatureChain
    <3>3. chain'[number - 1] = chain[number - 1]
          BY <1>1, <3>2, NodeStep
    <3>4. QED BY <2>2, <3>3
  <2>5. QED BY <2>3, <2>4
<1>8. /\ Confirmations <= top'
      /\ pc \notin {"down", "failed", "tip"} => Confirmations <= tip /\ tip <= top'
      /\ number = 1 \/ number + Confirmations <= top'
      BY <1>2, <1>3 DEF FollowsBuried
<1>9. UNCHANGED <<pc, number, tip, parent, block>>
      BY <1>1 DEF task
<1>10. QED BY <1>5, <1>6, <1>7, <1>8, <1>9 DEF FollowsBuried, Analyzing

LEMMA FollowsStep ==
    ASSUME MatureChain PROVE TypeInv /\ FollowsBuried /\ [Next]_vars => FollowsBuried'
<1> SUFFICES ASSUME TypeInv, FollowsBuried, [Next]_vars PROVE FollowsBuried'
    OBVIOUS
<1>1. TypeInv'
      BY TypeInvStep
<1>2. CASE UNCHANGED vars
  <2>1. RowsIn(BuriedRows)'
        BY <1>2, BuriedKept DEF FollowsBuried, vars, RowsIn
  <2>2. QED BY <1>2, <2>1 DEF FollowsBuried, Buried, Analyzing, vars, task, nodeVars
<1>3. QED BY <1>1, <1>2, FollowsStart, FollowsRead, FollowsAnalyzeBlock,
             FollowsAnalyzeUncle, FollowsTransactions, FollowsAnalyzeEpoch, FollowsLog,
             FollowsNodeMoves
          DEF Next, Analyze

(* Every recorded row is one of those the invariant speaks of.             *)
LEMMA RecordedBuried == FollowsBuried => Recorded \subseteq BuriedRows
<1> SUFFICES ASSUME FollowsBuried PROVE Recorded \subseteq BuriedRows
    OBVIOUS
<1>1. History \in Seq(BuriedRows)
      BY ConcatProperties DEF History, FollowsBuried, RowsIn
<1>2. ASSUME NEW s \in Seq(BuriedRows) PROVE ToSet(s) \subseteq BuriedRows
      BY DEF ToSet
<1>3. doubtful \subseteq Seq(BuriedRows)
      BY DEF FollowsBuried, RowsIn
<1>4. QED BY <1>1, <1>2, <1>3 DEF Recorded

LEMMA FollowsImplies ==
    TypeInv /\ FollowsBuried => RecordedStayCanonical /\ LagsBehindTip
<1> SUFFICES ASSUME TypeInv, FollowsBuried PROVE RecordedStayCanonical /\ LagsBehindTip
    OBVIOUS
<1> USE NodeAssumption, FollowerAssumption
<1>1. top \in Nat /\ DOMAIN chain = 0..top
      BY NumberTypes DEF TypeInv, TypeOK, NodeTypeOK
<1>2. ASSUME NEW r \in Recorded, r.table = "block"
      PROVE  /\ r.number \in DOMAIN chain /\ r.number + Confirmations < top
             /\ chain[r.number].fork = r.fork /\ chain[r.number - 1].fork = r.parent
  <2>1. r \in BuriedRows /\ r \in Rows
        BY RecordedBuried DEF BuriedRows
  <2>2. r.number \in 1..MaxTip
        BY <1>2, <2>1, RowTypes
  <2>3. Buried(r.number, r.fork) /\ Buried(r.number - 1, r.parent)
        BY <1>2, <2>1 DEF BuriedRows
  <2>4. QED BY <1>1, <2>2, <2>3 DEF Buried
<1>3. ASSUME NEW r \in Recorded, r.table = "uncle"
      PROVE  r.number \in DOMAIN chain /\ chain[r.number].fork = r.cousin
  <2>1. r \in BuriedRows /\ r \in Rows
        BY RecordedBuried DEF BuriedRows
  <2>2. r.number \in 0..MaxTip
        BY <1>3, <2>1, RowTypes
  <2>3. Buried(r.number, r.cousin)
        BY <1>3, <2>1 DEF BuriedRows
  <2>4. QED BY <1>1, <2>2, <2>3 DEF Buried
<1>4. QED BY <1>2, <1>3 DEF RecordedStayCanonical, LagsBehindTip

(* For a mature chain every row about a block names the block that the     *)
(* main chain has at that height, and keeps to have, and its parent there. *)
THEOREM RecordsAreCanonical ==
    ASSUME MatureChain PROVE Spec => []RecordedStayCanonical
<1>1. Init => TypeInv /\ FollowsBuried
      BY TypeInvInit, FollowsInit
<1>2. TypeInv /\ FollowsBuried /\ [Next]_vars => TypeInv' /\ FollowsBuried'
      BY TypeInvStep, FollowsStep
<1>3. TypeInv /\ FollowsBuried => RecordedStayCanonical
      BY FollowsImplies
<1>4. QED BY <1>1, <1>2, <1>3, PTL DEF Spec

(* For a mature chain no block is recorded before it has its               *)
(* confirmations.                                                          *)
THEOREM RecordsLagBehind ==
    ASSUME MatureChain PROVE Spec => []LagsBehindTip
<1>1. Init => TypeInv /\ FollowsBuried
      BY TypeInvInit, FollowsInit
<1>2. TypeInv /\ FollowsBuried /\ [Next]_vars => TypeInv' /\ FollowsBuried'
      BY TypeInvStep, FollowsStep
<1>3. TypeInv /\ FollowsBuried => LagsBehindTip
      BY FollowsImplies
<1>4. QED BY <1>1, <1>2, <1>3, PTL DEF Spec

(* A reorganisation does not reach a block that has its confirmations.     *)
LEMMA SettledStays ==
    ASSUME MatureChain, NodeTypeOK, NodeNext,
           NEW n \in Int, 0 <= n, n + Confirmations < top
    PROVE  chain'[n] = chain[n] /\ n + Confirmations < top'
<1> USE NodeAssumption, FollowerAssumption
<1>1. top \in Nat /\ top' \in Nat /\ top <= top'
      BY NodeStep DEF NodeTypeOK
<1>2. n \in 0..top /\ n <= top - MaxReorg
      BY <1>1 DEF MatureChain
<1>3. QED BY <1>1, <1>2, NodeStep

(* So all the blocks up to it stay the same.                               *)
LEMMA SettledBelow ==
    ASSUME MatureChain, NodeTypeOK, NodeNext,
           NEW n \in 0..top, n = 0 \/ n + Confirmations < top
    PROVE  \A m \in 0..n : chain'[m] = chain[m]
<1> USE NodeAssumption, FollowerAssumption
<1>1. top \in Nat
      BY DEF NodeTypeOK
<1>2. chain'[0] = chain[0]
      BY <1>1, NodeStep
<1>3. ASSUME NEW m \in 0..n, m # 0 PROVE chain'[m] = chain[m]
  <2>1. m \in Int /\ 0 <= m /\ m + Confirmations < top
        BY <1>1, <1>3
  <2>2. QED BY <2>1, SettledStays
<1>4. QED BY <1>2, <1>3

(***************************************************************************)
(* What is recorded and on its way, as one sequence.                       *)
(***************************************************************************)

LEMMA HistoryType ==
    ASSUME NEW S, RowsIn(S)
    PROVE  /\ History \in Seq(S) /\ Len(History) \in Nat /\ DOMAIN History = 1..Len(History)
           /\ \A i \in 1..Len(History) : History[i] \in S
<1>1. History \in Seq(S)
      BY ConcatProperties DEF History, RowsIn
<1>2. QED BY <1>1, LenProperties

(* Sending a row and committing a batch only move rows along.              *)
LEMMA HistoryMoves == RowsIn(Rows) /\ (Send \/ Persist) => History' = History
<1> SUFFICES ASSUME RowsIn(Rows), Send \/ Persist PROVE History' = History
    OBVIOUS
<1>1. outbox \in Seq(Rows) /\ accepted \in Seq(Rows) /\ durable \in Seq(Rows)
      BY DEF RowsIn
<1>2. CASE Send
  <2> DEFINE h == Head(outbox)  z == Tail(outbox)
  <2>1. /\ outbox # <<>> /\ accepted' = Append(accepted, h) /\ outbox' = z
        /\ durable' = durable
        BY <1>2 DEF Send, Log!Accept
  <2>2. h \in Rows /\ z \in Seq(Rows) /\ outbox = <<h>> \o z
    <3>1. Len(outbox) \in Nat /\ 1 <= Len(outbox)
          BY <1>1, <2>1, EmptySeq
    <3>2. SubSeq(outbox, 1, Len(outbox)) = <<outbox[1]>> \o SubSeq(outbox, 2, Len(outbox))
          BY <1>1, <3>1, SubSeqRecursiveFirst
    <3>3. QED BY <1>1, <2>1, <3>2, SubSeqFull, TailIsSubSeq, HeadTailProperties
  <2> HIDE DEF h, z
  <2>3. <<h>> \in Seq(Rows) /\ Append(accepted, h) = accepted \o <<h>>
        BY <1>1, <2>2, AppendIsConcat, OneRow
  <2>4. durable \o (accepted \o <<h>>) = (durable \o accepted) \o <<h>>
        BY <1>1, <2>3, ConcatAssociative
  <2>5. durable \o accepted \in Seq(Rows)
        BY <1>1, ConcatProperties
  <2>6. ((durable \o accepted) \o <<h>>) \o z = (durable \o accepted) \o (<<h>> \o z)
        BY <2>2, <2>3, <2>5, ConcatAssociative
  <2>7. QED BY <2>1, <2>2, <2>3, <2>4, <2>6 DEF History
<1>3. CASE Persist
  <2>1. PICK n \in 1..LogMaxBatch : Log!Persist(n)
        BY <1>3 DEF Persist
  <2> DEFINE a == SubSeq(accepted, 1, n)
             z == SubSeq(accepted, n + 1, Len(accepted))
  <2>2. n \in 1..Len(accepted) /\ Len(accepted) \in Nat
        BY <1>1, <2>1, LenProperties, FollowerAssumption DEF Log!Persist
  <2>3. a \o z = SubSeq(accepted, 1, Len(accepted))
        BY <1>1, <2>2, ConcatAdjacentSubSeq
  <2>4. accepted = a \o z
        BY <1>1, <2>3, SubSeqFull
  <2>5. a \in Seq(Rows) /\ z \in Seq(Rows)
        BY <1>1, <2>2, SubSeqProperties
  <2>6. durable' = durable \o a /\ accepted' = z /\ outbox' = outbox
        BY <1>3, <2>1 DEF Log!Persist, Persist
  <2> HIDE DEF a, z
  <2>7. QED BY <1>1, <2>4, <2>5, <2>6, ConcatAssociative DEF History
<1>4. QED BY <1>2, <1>3

(* The rows of a step of the task come last.                               *)
LEMMA HistoryGrows ==
    ASSUME NEW row, RowsIn(Rows), outbox = <<>>, UNCHANGED log, outbox' = <<row>>
    PROVE  History' = Append(History, row)
<1>1. log' = log /\ durable \o accepted \in Seq(Rows)
      BY ConcatProperties DEF RowsIn
<1>2. History = durable \o accepted
      BY <1>1, ConcatEmptySeq DEF History
<1>3. History' = (durable \o accepted) \o <<row>>
      BY DEF History, log
<1>4. QED BY <1>1, <1>2, <1>3

LEMMA HistoryStays ==
    ASSUME UNCHANGED <<log, outbox>>
    PROVE  History' = History
BY DEF History, log

LEMMA PlacesStay ==
    ASSUME History' = History, NEW t, NEW n
    PROVE  Places(t, n)' = Places(t, n)
BY DEF Places

LEMMA PlacesGrow ==
    ASSUME RowsIn(Rows), NEW row, History' = Append(History, row), NEW t, NEW n
    PROVE  Places(t, n)' = IF row.table = t /\ row.number = n
                           THEN Places(t, n) \cup {Len(History) + 1} ELSE Places(t, n)
<1>1. /\ Len(History) \in Nat /\ DOMAIN History = 1..Len(History)
      /\ History \in Seq(Rows)
      BY HistoryType
<1>2. /\ DOMAIN History' = 1..Len(History) + 1
      /\ \A i \in 1..Len(History) : History'[i] = History[i]
      /\ History'[Len(History) + 1] = row
      BY <1>1
<1>3. QED BY <1>1, <1>2 DEF Places

(***************************************************************************)
(* The first life of the process.                                          *)
(***************************************************************************)

FirstLife ==
    crashes = 0 =>
        /\ doubtful = {}
        /\ pc \in {"down", "tip", "parent"} => number = 1 /\ History = <<>>

LEMMA EmptyHistory ==
    ASSUME RowsIn(Rows), History = <<>>
    PROVE  durable = <<>> /\ accepted = <<>> /\ outbox = <<>>
<1>1. outbox \in Seq(Rows) /\ accepted \in Seq(Rows) /\ durable \in Seq(Rows)
          /\ durable \o accepted \in Seq(Rows)
      BY ConcatProperties DEF RowsIn
<1>2. durable \o accepted = <<>> /\ outbox = <<>>
      BY <1>1, ConcatEqualIffEmpty DEF History
<1>3. QED BY <1>1, <1>2, ConcatEqualIffEmpty

LEMMA FirstInit == Init => FirstLife
<1> SUFFICES ASSUME Init PROVE FirstLife
    OBVIOUS
<1>1. History = <<>>
      BY ConcatEmptySeq, EmptySeq DEF Init, Log!Init, History
<1>2. QED BY <1>1 DEF Init, Log!Init, FirstLife

(* A life is the first one if the next state is in it, and a task that    *)
(* goes on has not failed before.                                          *)
LEMMA FirstBefore ==
    ASSUME FirstLife, [Next]_vars, crashes \in Nat, crashes' = 0
    PROVE  /\ crashes = 0 /\ ~Settle /\ ~Crash
           /\ pc' # "failed" => pc # "failed" /\ ~CallPanics
<1>1. ~Crash /\ crashes = 0
  <2>1. ~Crash
        BY DEF Crash
  <2>2. crashes' = crashes
        BY <2>1 DEF Next, Start, ReadTip, ReadParent, Refresh, Analyze, AnalyzeBlock,
                    AnalyzeUncle, AnalyzeTransactions, AnalyzeTransaction, PruneZones,
                    AnalyzeEpoch, Send, CallPanics, Persist, Settle, NodeMoves, vars
  <2>3. QED BY <2>1, <2>2
<1>2. ~Settle
      BY <1>1 DEF FirstLife, Settle
<1>3. pc' # "failed" => ~CallPanics
      BY DEF CallPanics
<1>4. pc = "failed" => pc' = "failed"
      BY <1>1 DEF Next, Start, ReadTip, ReadParent, Refresh, Analyze, AnalyzeBlock,
                  AnalyzeUncle, AnalyzeTransactions, AnalyzeTransaction, PruneZones,
                  AnalyzeEpoch, Send, CallPanics, Persist, Settle, NodeMoves, vars
<1>5. QED BY <1>1, <1>2, <1>3, <1>4

LEMMA FirstStep == TypeInv /\ FirstLife /\ [Next]_vars => FirstLife'
<1> SUFFICES ASSUME TypeInv, FirstLife, [Next]_vars, crashes' = 0
             PROVE  /\ doubtful' = {}
                    /\ pc' \in {"down", "tip", "parent"} => number' = 1 /\ History' = <<>>
    BY DEF FirstLife
<1>1. /\ doubtful = {} /\ RowsIn(Rows) /\ ~Settle /\ ~Crash
      /\ pc \in {"down", "tip", "parent"} => number = 1 /\ History = <<>>
  <2>1. RowsIn(Rows) /\ crashes \in Nat
        BY DEF TypeInv, TypeOK
  <2>2. QED BY <2>1, FirstBefore DEF FirstLife
<1>2. CASE Start
  <2>1. pc = "down" /\ UNCHANGED <<log, outbox>> /\ pc' = "tip"
        BY <1>2 DEF Start
  <2>2. durable = <<>> /\ History' = <<>>
        BY <1>1, <2>1, EmptyHistory, HistoryStays
  <2>3. LastUpdated = {0}
        BY <2>2 DEF LastUpdated, ToSet
  <2>4. number' = 1
        BY <1>2, <2>3 DEF Start
  <2>5. QED BY <1>1, <2>1, <2>2, <2>4 DEF log
<1>3. CASE ReadTip \/ ReadParent \/ Refresh
  <2>1. /\ UNCHANGED <<log, outbox, number>> /\ pc' \in {"parent", "block"}
        /\ pc' = "parent" => pc = "tip"
        BY <1>3 DEF ReadTip, ReadParent, Refresh
  <2>2. QED BY <1>1, <2>1, HistoryStays DEF log
<1>4. CASE Analyze
  <2>1. pc' \notin {"down", "failed", "tip", "parent"} /\ UNCHANGED log
        BY <1>4 DEF Analyze, AnalyzeBlock, AnalyzeUncle, AnalyzeTransactions,
                    AnalyzeTransaction, PruneZones, AnalyzeEpoch
  <2>2. QED BY <1>1, <2>1 DEF log
<1>5. CASE Send \/ Persist
  <2>1. UNCHANGED <<pc, number, doubtful>>
        BY <1>5 DEF Send, Persist, task, Log!Accept, Log!Persist
  <2>2. QED BY <1>1, <1>5, <2>1, HistoryMoves
<1>6. CASE CallPanics
      BY <1>1, <1>6 DEF CallPanics, log
<1>7. CASE NodeMoves \/ UNCHANGED vars
  <2>1. UNCHANGED <<pc, number, outbox, log>>
        BY <1>7 DEF NodeMoves, vars, task
  <2>2. QED BY <1>1, <2>1, HistoryStays DEF log
<1>8. QED BY <1>1, <1>2, <1>3, <1>4, <1>5, <1>6, <1>7 DEF Next

(* Induction over the natural numbers: a set of them has a least one.      *)
LEMMA Least ==
    ASSUME NEW T, T \subseteq Nat, T # {}
    PROVE  \E x \in T : \A y \in T : x <= y
<1>1. PICK x \in T : \A y \in T : ~(<<y, x>> \in OpToRel(<, Nat))
      BY NatLessThanWellFounded, WFMin
<1>2. ASSUME NEW y \in T PROVE x <= y
  <2>1. <<y, x>> \in Nat \X Nat /\ ~(<<y, x>> \in OpToRel(<, Nat))
        BY <1>1
  <2>2. ~(y < x)
        BY <2>1 DEF OpToRel
  <2>3. QED BY <2>2
<1>3. QED BY <1>2
=============================================================================

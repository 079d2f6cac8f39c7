--------------------------- MODULE CommitmentProofs ---------------------------
(***************************************************************************)
(* What CanonicalChainState records of commitments and of epochs.          *)
(*                                                                         *)
(* The delays are real: the proposal zones, although a restart empties     *)
(* them and reorganisations go on, never pair a transaction with a block   *)
(* that did not propose it.  No epoch is recorded with more uncles than    *)
(* its blocks have.  And until it ends a process records every commitment, *)
(* with the distance to its first proposal, and every epoch, with all its  *)
(* uncles, exactly once.                                                   *)
(***************************************************************************)
EXTENDS CanonicalChainProofs, FiniteSetTheorems, WellFoundedInduction

USE DEF GetTipBlockNumber, Reached, GetBlockByNumber, GetHeaderByNumber

(* The proposals that a settled block can commit stay.                     *)
LEMMA ProposalsStay ==
    ASSUME MatureChain, NodeTypeOK, NodeNext, NEW tx,
           NEW n \in Nat, n + Confirmations < top,
           NEW m \in ProposalsOf(chain, tx, n)
    PROVE  m \in ProposalsOf(chain', tx, n)
<1> USE NodeAssumption, FollowerAssumption
<1>1. top \in Nat
      BY DEF NodeTypeOK
<1>2. m \in 1..n /\ n <= m + WindowFar /\ m + WindowClose <= n
          /\ tx \in chain[m].body.proposals
      BY DEF ProposalsOf
<1>3. m \in Int /\ 0 <= m /\ m + Confirmations < top
      BY <1>1, <1>2
<1>4. chain'[m] = chain[m]
      BY <1>3, SettledStays
<1>5. QED BY <1>2, <1>4 DEF ProposalsOf

LEMMA RealKept ==
    ASSUME RowsIn(RealRows), outbox' \in Seq(RealRows), UNCHANGED <<log, nodeVars>>
    PROVE  RowsIn(RealRows)'
<1>1. RealRows' = RealRows
      BY DEF RealRows, nodeVars
<1>2. QED BY <1>1 DEF RowsIn, log

(* A row of another table says nothing of delays.                          *)
LEMMA OtherRowsAreReal ==
    ASSUME NEW row, row.table # "2pc", <<row>> \in Seq(Rows)
    PROVE  <<row>> \in Seq(RealRows)
<1>1. row \in Rows
      BY RowOfOne
<1>2. row \in RealRows
      BY <1>1 DEF RealRows
<1>3. QED BY <1>2, OneRow

LEMMA RealInit == Init => RememberedAreReal
<1> SUFFICES ASSUME Init PROVE RememberedAreReal
    OBVIOUS
<1>1. RowsIn(RealRows)
      BY EmptySeq DEF Init, RowsIn, Log!Init
<1>2. DOMAIN zones = {} /\ pc = "down"
      BY DEF Init, NoZones
<1>3. QED BY <1>1, <1>2 DEF RememberedAreReal, Analyzing

LEMMA RealStart == RememberedAreReal /\ Start => RememberedAreReal'
<1> SUFFICES ASSUME RememberedAreReal, Start PROVE RememberedAreReal'
    OBVIOUS
<1>1. RowsIn(RealRows)'
      BY RealKept DEF RememberedAreReal, Start, RowsIn
<1>2. DOMAIN zones' = {} /\ pc' = "tip"
      BY DEF Start, NoZones
<1>3. QED BY <1>1, <1>2 DEF RememberedAreReal, Analyzing

LEMMA RealRead ==
    RememberedAreReal /\ (ReadTip \/ ReadParent \/ Refresh \/ CallPanics)
        => RememberedAreReal'
<1> SUFFICES ASSUME RememberedAreReal, ReadTip \/ ReadParent \/ Refresh \/ CallPanics
             PROVE  RememberedAreReal'
    OBVIOUS
<1>1. /\ UNCHANGED <<number, block, left, zones, outbox, log, nodeVars>>
      /\ pc' = pc \/ pc' \in {"parent", "block", "failed"}
      BY DEF ReadTip, ReadParent, Refresh, CallPanics, task
<1>2. RowsIn(RealRows)'
      BY <1>1, RealKept DEF RememberedAreReal, RowsIn
<1>3. QED BY <1>1, <1>2 DEF RememberedAreReal, Analyzing, nodeVars

LEMMA RealAnalyzeBlock ==
    TypeInv' /\ RememberedAreReal /\ AnalyzeBlock => RememberedAreReal'
<1> SUFFICES ASSUME TypeInv', RememberedAreReal, AnalyzeBlock PROVE RememberedAreReal'
    OBVIOUS
<1> DEFINE row == BlockRow(number, block', parent)
<1>1. outbox' = <<row>> /\ outbox' \in Seq(Rows)
      BY DEF AnalyzeBlock, TypeInv, TypeOK, RowsIn
<1>2. row.table = "block"
      BY DEF BlockRow
<1> HIDE DEF row
<1>3. outbox' \in Seq(RealRows)
      BY <1>1, <1>2, OtherRowsAreReal
<1>4. RowsIn(RealRows)'
      BY <1>3, RealKept DEF RememberedAreReal, AnalyzeBlock
<1>5. QED BY <1>4 DEF RememberedAreReal, Analyzing, AnalyzeBlock, nodeVars

LEMMA RealAnalyzeUncle ==
    TypeInv' /\ RememberedAreReal /\ AnalyzeUncle => RememberedAreReal'
<1> SUFFICES ASSUME TypeInv', RememberedAreReal, AnalyzeUncle PROVE RememberedAreReal'
    OBVIOUS
<1> DEFINE row == UncleRow(number - 1, chain[number - 1])
<1>1. outbox' = <<row>> /\ outbox' \in Seq(Rows)
      BY DEF AnalyzeUncle, TypeInv, TypeOK, RowsIn
<1>2. row.table = "uncle"
      BY DEF UncleRow
<1> HIDE DEF row
<1>3. outbox' \in Seq(RealRows)
      BY <1>1, <1>2, OtherRowsAreReal
<1>4. RowsIn(RealRows)'
      BY <1>3, RealKept DEF RememberedAreReal, AnalyzeUncle
<1>5. QED BY <1>4 DEF RememberedAreReal, Analyzing, AnalyzeUncle, nodeVars

LEMMA RealAnalyzeTransactions ==
    RememberedAreReal /\ AnalyzeTransactions => RememberedAreReal'
<1> SUFFICES ASSUME RememberedAreReal, AnalyzeTransactions PROVE RememberedAreReal'
    OBVIOUS
<1>1. RowsIn(RealRows)'
      BY RealKept DEF RememberedAreReal, AnalyzeTransactions, RowsIn
<1>2. QED BY <1>1 DEF RememberedAreReal, Analyzing, AnalyzeTransactions, nodeVars

(* u64 heights of the window below the block: where the subtraction wraps, *)
(* there is no zone.                                                       *)
LEMMA WindowIsBelow ==
    ASSUME NEW m \in Window, number \in Nat, m \in 1..number
    PROVE  m + WindowClose <= number
<1> USE NodeAssumption, FollowerAssumption
<1>1. Minus(number, WindowFar) <= m /\ m <= Minus(number, WindowClose) /\ m \in Int
      BY DEF Window
<1>2. CASE number >= WindowClose
      BY <1>1, <1>2 DEF Minus
<1>3. CASE ~(number >= WindowClose)
  <2>1. Minus(number, WindowFar) = number - WindowFar + Word
        BY <1>3 DEF Minus
  <2>2. QED BY <1>1, <2>1
<1>4. QED BY <1>2, <1>3

LEMMA RealAnalyzeTransaction ==
    /\ TypeInv /\ TypeInv' /\ FollowsBuried /\ RememberedAreReal /\ AnalyzeTransaction
    => RememberedAreReal'
<1> SUFFICES ASSUME TypeInv, TypeInv', FollowsBuried, RememberedAreReal, AnalyzeTransaction
             PROVE  RememberedAreReal'
    OBVIOUS
<1> USE NodeAssumption, FollowerAssumption
<1>1. /\ number \in 1..top /\ number + Confirmations < top
      /\ block = chain[number] /\ left \in Seq(Txs) /\ left # <<>>
      /\ ToSet(left) \subseteq ToSet(chain[number].body.commits)
  <2>1. Analyzing /\ pc = "transactions" /\ left # <<>>
        BY DEF Analyzing, AnalyzeTransaction
  <2>2. number \in 1..top
        BY <2>1, NumberTypes
  <2>3. number + Confirmations < top
        BY <2>1 DEF FollowsBuried, Buried
  <2>4. block = chain[number] /\ ToSet(left) \subseteq ToSet(block.body.commits)
        BY <2>1 DEF RememberedAreReal
  <2>5. left \in Seq(Txs)
        BY DEF TypeInv, TypeOK
  <2>6. QED BY <2>1, <2>2, <2>3, <2>4, <2>5
<1>2. Head(left) \in ToSet(left) /\ ToSet(Tail(left)) \subseteq ToSet(left)
  <2>1. Len(left) \in Nat /\ Len(left) >= 1 /\ Head(left) = left[1]
        BY <1>1, EmptySeq, LenProperties
  <2>2. /\ Tail(left) \in Seq(Txs) /\ Len(Tail(left)) = Len(left) - 1
        /\ \A i \in 1..Len(Tail(left)) : Tail(left)[i] = left[i + 1]
        BY <1>1, HeadTailProperties
  <2>3. ASSUME NEW i \in DOMAIN Tail(left)
        PROVE  Tail(left)[i] \in ToSet(left)
    <3>1. i \in 1..Len(Tail(left))
          BY <2>2, LenProperties
    <3>2. i + 1 \in DOMAIN left /\ Tail(left)[i] = left[i + 1]
          BY <1>1, <2>1, <2>2, <3>1, LenProperties
    <3>3. QED BY <3>2 DEF ToSet
  <2>4. 1 \in DOMAIN left
        BY <1>1, <2>1, LenProperties
  <2>5. Head(left) \in ToSet(left)
        BY <2>1, <2>4 DEF ToSet
  <2>6. ToSet(Tail(left)) \subseteq ToSet(left)
        BY <2>3 DEF ToSet
  <2>7. QED BY <2>5, <2>6
<1>3. \/ UNCHANGED <<outbox, zones>>
      \/ \E m \in Zones(Head(left)) :
             /\ outbox' = <<CommitRow(number, number - m)>>
             /\ zones' = [zones EXCEPT ![m] = @ \ {Head(left)}]
      BY Zenon DEF AnalyzeTransaction
<1>4. /\ outbox' \in Seq(RealRows)
      /\ DOMAIN zones' = DOMAIN zones /\ \A k \in DOMAIN zones : zones'[k] \subseteq zones[k]
  <2>1. CASE UNCHANGED <<outbox, zones>>
        BY <2>1 DEF RememberedAreReal, RowsIn
  <2>2. ASSUME NEW m \in Zones(Head(left)),
               outbox' = <<CommitRow(number, number - m)>>,
               zones' = [zones EXCEPT ![m] = @ \ {Head(left)}]
        PROVE  /\ outbox' \in Seq(RealRows) /\ DOMAIN zones' = DOMAIN zones
               /\ \A k \in DOMAIN zones : zones'[k] \subseteq zones[k]
    <3>1. m \in Window /\ m \in DOMAIN zones /\ Head(left) \in zones[m]
          BY DEF Zones
    <3>2. m \in 1..number /\ number <= m + WindowFar
          BY <3>1 DEF TypeInv, TypeOK
    <3>3. m + WindowClose <= number
          BY <1>1, <3>1, <3>2, WindowIsBelow
    <3>4. Head(left) \in chain[m].body.proposals
          BY <3>1 DEF RememberedAreReal
    <3>5. m \in ProposalsOf(chain, Head(left), number)
          BY <3>2, <3>3, <3>4 DEF ProposalsOf
    <3> DEFINE row == CommitRow(number, number - m)
    <3>6. row.table = "2pc" /\ row.number = number /\ row.delay = number - m
          BY DEF CommitRow
    <3>7. row \in Rows
      <4>1. <<row>> \in Seq(Rows)
            BY <2>2 DEF TypeInv, TypeOK, RowsIn
      <4> HIDE DEF row
      <4>2. QED BY <4>1, RowOfOne
    <3>8. number - (number - m) = m
          BY <1>1, <3>2
    <3>9. Head(left) \in ToSet(chain[number].body.commits)
          BY <1>1, <1>2
    <3>10. outbox' = <<row>>
          BY <2>2
    <3> HIDE DEF row
    <3>11. row.number - row.delay = m
          BY <3>6, <3>8
    <3>12. row \in RealRows
          BY <1>1, <3>5, <3>6, <3>7, <3>9, <3>11 DEF RealRows
    <3>13. outbox' \in Seq(RealRows)
          BY <3>10, <3>12, OneRow
    <3>14. DOMAIN zones' = DOMAIN zones /\ \A k \in DOMAIN zones : zones'[k] \subseteq zones[k]
          BY <2>2
    <3>15. QED BY <3>13, <3>14
  <2>3. QED BY <1>3, <2>1, <2>2, Zenon
<1>5. RowsIn(RealRows)'
      BY <1>4, RealKept DEF RememberedAreReal, AnalyzeTransaction
<1>6. UNCHANGED <<pc, number, block, nodeVars>> /\ left' = Tail(left)
      BY DEF AnalyzeTransaction
<1>7. ToSet(left') \subseteq ToSet(block'.body.commits)
      BY <1>1, <1>2, <1>6
<1>8. QED BY <1>4, <1>5, <1>6, <1>7 DEF RememberedAreReal, Analyzing, nodeVars

LEMMA RealPruneZones ==
    TypeInv /\ FollowsBuried /\ RememberedAreReal /\ PruneZones => RememberedAreReal'
<1> SUFFICES ASSUME TypeInv, FollowsBuried, RememberedAreReal, PruneZones
             PROVE  RememberedAreReal'
    OBVIOUS
<1>1. number + Confirmations < top /\ block = chain[number]
      BY DEF FollowsBuried, RememberedAreReal, Buried, Analyzing, PruneZones
<1> DEFINE D == (DOMAIN zones \ {Leaving}) \cup {number}
<1>2. zones' = [m \in D |-> IF m = number THEN block.body.proposals ELSE zones[m]]
      BY DEF PruneZones
<1>3. ASSUME NEW m \in D
      PROVE  m + Confirmations < top /\ zones'[m] \subseteq chain[m].body.proposals
      BY <1>1, <1>2 DEF RememberedAreReal
<1>4. DOMAIN zones' = D
      BY <1>2
<1> HIDE DEF D
<1>5. RowsIn(RealRows)'
      BY RealKept DEF RememberedAreReal, PruneZones, RowsIn
<1>6. UNCHANGED <<number, block, nodeVars>> /\ pc' = "epoch" /\ Analyzing
      BY DEF PruneZones, Analyzing
<1>7. QED BY <1>3, <1>4, <1>5, <1>6 DEF RememberedAreReal, Analyzing, nodeVars

LEMMA RealAnalyzeEpoch ==
    TypeInv' /\ RememberedAreReal /\ AnalyzeEpoch => RememberedAreReal'
<1> SUFFICES ASSUME TypeInv', RememberedAreReal, AnalyzeEpoch PROVE RememberedAreReal'
    OBVIOUS
<1> DEFINE row == EpochRow(epoch, uncles)
<1>1. row.table = "epoch"
      BY DEF EpochRow
<1>2. outbox' \in Seq(Rows) /\ (outbox' = <<>> \/ outbox' = <<row>>)
      BY DEF AnalyzeEpoch, TypeInv, TypeOK, RowsIn
<1> HIDE DEF row
<1>3. outbox' \in Seq(RealRows)
      BY <1>1, <1>2, OtherRowsAreReal, EmptySeq
<1>4. RowsIn(RealRows)'
      BY <1>3, RealKept DEF RememberedAreReal, AnalyzeEpoch
<1>5. QED BY <1>4 DEF RememberedAreReal, Analyzing, AnalyzeEpoch, nodeVars

LEMMA RealLog ==
    RememberedAreReal /\ (Send \/ Persist \/ Settle \/ Crash) => RememberedAreReal'
<1> SUFFICES ASSUME RememberedAreReal, Send \/ Persist \/ Settle \/ Crash
             PROVE  RememberedAreReal'
    OBVIOUS
<1>1. UNCHANGED <<task, nodeVars>> /\ (pc' = pc \/ pc' = "down")
      BY DEF Send, Persist, Settle, Crash
<1>2. RealRows' = RealRows
      BY <1>1 DEF RealRows, nodeVars
<1>3. ASSUME NEW S, RowsIn(S)
      PROVE  /\ outbox' \in Seq(S) /\ accepted' \in Seq(S)
             /\ durable' \in Seq(S) /\ doubtful' \subseteq Seq(S)
      BY <1>3, SendKeepsRows, PersistKeepsRows, SettleKeepsRows, CrashKeepsRows DEF RowsIn
<1>4. RowsIn(RealRows)'
      BY <1>2, <1>3 DEF RowsIn, RememberedAreReal
<1>5. QED BY <1>1, <1>4 DEF RememberedAreReal, task, nodeVars, Analyzing

LEMMA RealNodeMoves ==
    ASSUME MatureChain
    PROVE  TypeInv /\ FollowsBuried /\ RememberedAreReal /\ NodeMoves => RememberedAreReal'
<1> SUFFICES ASSUME TypeInv, FollowsBuried, RememberedAreReal, NodeMoves
             PROVE  RememberedAreReal'
    OBVIOUS
<1> USE NodeAssumption, FollowerAssumption
<1>1. NodeTypeOK /\ NodeNext /\ UNCHANGED <<pc, task, outbox, log, crashes>>
      BY DEF TypeInv, TypeOK, NodeMoves
<1>2. top \in Nat /\ top' \in Nat /\ top <= top'
      BY <1>1, NodeStep DEF NodeTypeOK
<1>3. UNCHANGED <<number, block, left, zones>>
      BY <1>1 DEF task
<1>4. RealRows \subseteq RealRows'
  <2>1. ASSUME NEW r \in RealRows, r.table = "2pc"
        PROVE  /\ r.number \in 1..top' /\ r.number + Confirmations < top'
               /\ \E tx \in ToSet(chain'[r.number].body.commits) :
                      r.number - r.delay \in ProposalsOf(chain', tx, r.number)
    <3>1. /\ r.number \in 1..top /\ r.number + Confirmations < top
          /\ \E tx \in ToSet(chain[r.number].body.commits) :
                 r.number - r.delay \in ProposalsOf(chain, tx, r.number)
          BY <2>1 DEF RealRows
    <3>2. PICK tx \in ToSet(chain[r.number].body.commits) :
              r.number - r.delay \in ProposalsOf(chain, tx, r.number)
          BY <3>1
    <3>3. r.number \in Nat /\ r.number \in Int /\ 0 <= r.number
          BY <1>2, <3>1
    <3>4. chain'[r.number] = chain[r.number] /\ r.number + Confirmations < top'
          BY <1>1, <3>1, <3>3, SettledStays
    <3>5. r.number - r.delay \in ProposalsOf(chain', tx, r.number)
          BY <1>1, <3>1, <3>2, <3>3, ProposalsStay
    <3>6. r.number \in 1..top'
          BY <1>2, <3>1
    <3>7. QED BY <3>2, <3>4, <3>5, <3>6
  <2>2. RealRows' = {r \in Rows : r.table = "2pc" =>
            /\ r.number \in 1..top' /\ r.number + Confirmations < top'
            /\ \E tx \in ToSet(chain'[r.number].body.commits) :
                   r.number - r.delay \in ProposalsOf(chain', tx, r.number)}
        BY DEF RealRows
  <2>3. \A r \in RealRows : r \in Rows
        BY DEF RealRows
  <2>4. QED BY <2>1, <2>2, <2>3, Zenon
<1>5. RowsIn(RealRows)'
  <2>1. RowsIn(RealRows')
        BY <1>4, RowsInMonotonic DEF RememberedAreReal
  <2>2. QED BY <1>1, <2>1 DEF RowsIn, log
<1>6. Analyzing => chain'[number] = chain[number]
  <2>1. Analyzing => number \in Int /\ 0 <= number /\ number + Confirmations < top
        BY NumberTypes DEF FollowsBuried, Buried
  <2>2. QED BY <1>1, <2>1, SettledStays
<1>7. ASSUME NEW m \in DOMAIN zones
      PROVE  m + Confirmations < top' /\ zones[m] \subseteq chain'[m].body.proposals
  <2>1. m \in 1..number /\ m + Confirmations < top /\ zones[m] \subseteq chain[m].body.proposals
        BY DEF TypeInv, TypeOK, RememberedAreReal
  <2>2. m \in Int /\ 0 <= m
        BY <2>1
  <2>3. chain'[m] = chain[m] /\ m + Confirmations < top'
        BY <1>1, <2>1, <2>2, SettledStays
  <2>4. QED BY <2>1, <2>3
<1>8. UNCHANGED pc
      BY <1>1
<1>9. QED BY <1>3, <1>5, <1>6, <1>7, <1>8 DEF RememberedAreReal, Analyzing

LEMMA RealStep ==
    ASSUME MatureChain
    PROVE  TypeInv /\ FollowsBuried /\ RememberedAreReal /\ [Next]_vars => RememberedAreReal'
<1> SUFFICES ASSUME TypeInv, FollowsBuried, RememberedAreReal, [Next]_vars
             PROVE  RememberedAreReal'
    OBVIOUS
<1>1. TypeInv'
      BY TypeInvStep
<1>2. CASE UNCHANGED vars
  <2>1. RowsIn(RealRows)'
        BY <1>2, RealKept DEF RememberedAreReal, vars, RowsIn
  <2>2. QED BY <1>2, <2>1 DEF RememberedAreReal, Analyzing, vars, task, nodeVars
<1>3. QED BY <1>1, <1>2, RealStart, RealRead, RealAnalyzeBlock, RealAnalyzeUncle,
             RealAnalyzeTransactions, RealAnalyzeTransaction, RealPruneZones,
             RealAnalyzeEpoch, RealLog, RealNodeMoves
          DEF Next, Analyze

LEMMA RealImplies == RememberedAreReal => DelaysAreReal
<1> SUFFICES ASSUME RememberedAreReal PROVE DelaysAreReal
    OBVIOUS
<1>1. History \in Seq(RealRows) /\ doubtful \subseteq Seq(RealRows)
      BY ConcatProperties DEF History, RememberedAreReal, RowsIn
<1>2. ASSUME NEW s \in Seq(RealRows) PROVE ToSet(s) \subseteq RealRows
      BY DEF ToSet
<1>3. Recorded \subseteq RealRows
      BY <1>1, <1>2 DEF Recorded
<1>4. QED BY <1>3 DEF DelaysAreReal, RealRows

(* For a mature chain every delay recorded is the distance to a block that *)
(* proposed a transaction of the block in its window: through any number   *)
(* of restarts, which empty proposals_zones, and of reorganisations.       *)
THEOREM DelaysStayReal ==
    ASSUME MatureChain PROVE Spec => []DelaysAreReal
<1>1. Init => TypeInv /\ FollowsBuried /\ RememberedAreReal
      BY TypeInvInit, FollowsInit, RealInit
<1>2. TypeInv /\ FollowsBuried /\ RememberedAreReal /\ [Next]_vars
          => TypeInv' /\ FollowsBuried' /\ RememberedAreReal'
      BY TypeInvStep, FollowsStep, RealStep
<1>3. QED BY <1>1, <1>2, RealImplies, PTL DEF Spec

(***************************************************************************)
(* The commitments recorded in the first life of the process.              *)
(***************************************************************************)

LEMMA ValidInit == Init => ValidChain(chain)
BY DEF Init, NodeInit

LEMMA ValidStep == ValidChain(chain) /\ [Next]_vars => ValidChain(chain)'
<1> SUFFICES ASSUME ValidChain(chain), [Next]_vars PROVE ValidChain(chain')
    OBVIOUS
<1>1. CASE NodeMoves
      BY <1>1 DEF NodeMoves, NodeNext, Extend, Reorganize
<1>2. CASE Send \/ Persist \/ Settle \/ Crash \/ UNCHANGED vars
      BY <1>2 DEF Send, Persist, Settle, Crash, vars, nodeVars
<1>3. CASE Start \/ ReadTip \/ ReadParent \/ Refresh \/ CallPanics
      BY <1>3 DEF Start, ReadTip, ReadParent, Refresh, CallPanics, nodeVars
<1>4. CASE Analyze
      BY <1>4 DEF Analyze, AnalyzeBlock, AnalyzeUncle, AnalyzeTransactions,
                  AnalyzeTransaction, PruneZones, AnalyzeEpoch, nodeVars
<1>5. QED BY <1>1, <1>2, <1>3, <1>4 DEF Next

(* Transactions of the block in work that have been looked at.             *)
Done == IF pc \in {"transactions", "epoch"} THEN Len(block.body.commits) - Len(left) ELSE 0

(* They are the first ones.                                                *)
InOrder ==
    /\ pc \in {"transactions", "epoch"} =>
           /\ Len(left) <= Len(block.body.commits)
           /\ \A i \in 1..Len(left) : left[i] = block.body.commits[Done + i]
    /\ pc = "epoch" => left = <<>>

LEMMA InOrderStep == TypeInv /\ InOrder /\ [Next]_vars => InOrder'
<1> SUFFICES ASSUME TypeInv, InOrder, [Next]_vars PROVE InOrder'
    OBVIOUS
<1>1. /\ left \in Seq(Txs) /\ block.body.commits \in Seq(Txs)
      /\ Len(left) \in Nat /\ Len(block.body.commits) \in Nat
      BY BlockType, LenProperties DEF TypeInv, TypeOK
<1>2. CASE UNCHANGED <<pc, block, left>>
      BY <1>2 DEF InOrder, Done
<1>3. CASE pc' \notin {"transactions", "epoch"}
      BY <1>3 DEF InOrder
<1>4. CASE AnalyzeTransactions
  <2>1. left' = block.body.commits /\ block' = block /\ pc' = "transactions"
        BY <1>4 DEF AnalyzeTransactions
  <2>2. Done' = 0
        BY <1>1, <2>1 DEF Done
  <2>3. QED BY <1>1, <2>1, <2>2 DEF InOrder
<1>5. CASE AnalyzeTransaction
  <2>1. /\ left' = Tail(left) /\ block' = block /\ pc = "transactions" /\ pc' = pc
        /\ left # <<>>
        BY <1>5 DEF AnalyzeTransaction
  <2>2. /\ Len(left') = Len(left) - 1 /\ Len(left') \in Nat
        /\ \A i \in 1..Len(left') : left'[i] = left[i + 1]
        BY <1>1, <2>1, HeadTailProperties, LenProperties
  <2>3. Done' = Done + 1 /\ Done \in Int
        BY <1>1, <2>1, <2>2 DEF Done
  <2>4. ASSUME NEW i \in 1..Len(left') PROVE left'[i] = block.body.commits[Done' + i]
    <3>1. i + 1 \in 1..Len(left) /\ Done + (i + 1) = Done' + i
          BY <1>1, <2>2, <2>3
    <3>2. QED BY <2>1, <2>2, <3>1 DEF InOrder
  <2>5. QED BY <1>1, <2>1, <2>2, <2>4 DEF InOrder
<1>6. CASE PruneZones
  <2>1. UNCHANGED <<left, block>> /\ pc = "transactions" /\ pc' = "epoch" /\ left = <<>>
        BY <1>6 DEF PruneZones
  <2>2. QED BY <2>1 DEF InOrder, Done
<1>7. CASE Start \/ ReadTip \/ ReadParent \/ CallPanics \/ AnalyzeBlock \/ AnalyzeEpoch
      BY <1>3, <1>7 DEF Start, ReadTip, ReadParent, CallPanics, AnalyzeBlock, AnalyzeEpoch
<1>8. CASE Refresh \/ AnalyzeUncle \/ Send \/ Persist \/ Settle \/ NodeMoves
      BY <1>2, <1>8 DEF Refresh, AnalyzeUncle, Send, Persist, Settle, NodeMoves, task
<1>9. CASE Crash \/ UNCHANGED vars
      BY <1>2, <1>3, <1>9 DEF Crash, vars, task
<1>10. QED BY <1>4, <1>5, <1>6, <1>7, <1>8, <1>9 DEF Next, Analyze

(* The next transaction is one of the block, and none that was looked at   *)
(* before, here or in an earlier block: nothing is committed twice.        *)
Handled(tx) ==
    \/ \E n \in 1..number - 1 : tx \in ToSet(chain[n].body.commits)
    \/ \E i \in 1..Done : block.body.commits[i] = tx

LEMMA NextIsNew ==
    ASSUME TypeInv, RememberedAreReal, ValidChain(chain), InOrder,
           pc = "transactions", left # <<>>
    PROVE  LET commits == chain[number].body.commits
           IN  /\ Done \in Nat /\ Done + 1 \in 1..Len(commits)
               /\ Head(left) = commits[Done + 1] /\ ~Handled(Head(left))
               /\ ProposalsOf(chain, Head(left), number) # {}
               /\ Len(left) \in Nat \ {0} /\ Len(commits) \in Nat
<1> DEFINE commits == chain[number].body.commits  tx == Head(left)
<1>1. /\ block = chain[number] /\ number \in 1..top /\ top \in Nat
      /\ DOMAIN chain = 0..top
      BY NumberTypes DEF RememberedAreReal, Analyzing, TypeInv, TypeOK, NodeTypeOK
<1>2. /\ left \in Seq(Txs) /\ block.body.commits \in Seq(Txs)
      /\ Len(left) \in Nat \ {0} /\ Len(block.body.commits) \in Nat
      BY BlockType, LenProperties, EmptySeq DEF TypeInv, TypeOK
<1>3. commits \in Seq(Txs) /\ Len(commits) \in Nat /\ DOMAIN commits = 1..Len(commits)
      BY <1>1, <1>2, LenProperties
<1>4. Done = Len(commits) - Len(left) /\ Len(left) <= Len(commits)
      BY <1>1 DEF Done, InOrder
<1>5. Done \in Nat /\ Done + 1 \in 1..Len(commits)
      BY <1>2, <1>3, <1>4
<1>6. tx = commits[Done + 1]
  <2>1. tx = left[1] /\ 1 \in 1..Len(left)
        BY <1>2
  <2>2. QED BY <1>1, <2>1 DEF InOrder
<1>7. tx \in ToSet(commits)
      BY <1>3, <1>5, <1>6 DEF ToSet
<1>8. /\ IsInjective(commits) /\ ProposalsOf(chain, tx, number) # {}
      /\ \A m \in 0..top : m # number => tx \notin ToSet(chain[m].body.commits)
  <2>1. number \in DOMAIN chain
        BY <1>1
  <2>2. QED BY <1>1, <1>7, <2>1 DEF ValidChain
<1>9. ASSUME NEW n \in 1..number - 1 PROVE tx \notin ToSet(chain[n].body.commits)
  <2>1. n \in 0..top /\ n # number
        BY <1>1
  <2>2. QED BY <1>8, <2>1
<1>10. ASSUME NEW i \in 1..Done PROVE block.body.commits[i] # tx
  <2>1. i \in 1..Len(commits) /\ i # Done + 1
        BY <1>3, <1>5
  <2>2. QED BY <1>1, <1>3, <1>5, <1>6, <1>8, <2>1 DEF IsInjective
<1>11. ~Handled(tx)
       BY <1>9, <1>10 DEF Handled
<1>12. QED BY <1>2, <1>3, <1>5, <1>6, <1>8, <1>11

(* The zones are those of the window, and miss nothing but what has been   *)
(* looked at, in the first life of the process and until the task fails.   *)
RememberedHeights ==
    IF pc = "epoch" THEN {m \in 1..number : number < m + WindowFar}
                    ELSE {m \in 1..number - 1 : number <= m + WindowFar}

ZonesComplete ==
    crashes = 0 /\ pc # "failed" =>
        /\ DOMAIN zones = RememberedHeights
        /\ \A m \in DOMAIN zones :
               \A tx \in chain[m].body.proposals : tx \in zones[m] \/ Handled(tx)

(* What the steps of a task in its first life are.                         *)
LEMMA FirstSteps ==
    ASSUME TypeInv, FirstLife, [Next]_vars, crashes' = 0
    PROVE  /\ crashes = 0 /\ ~Settle /\ ~Crash
           /\ pc' # "failed" => pc # "failed" /\ ~CallPanics
           /\ Start => number' = number /\ number = 1
<1>1. crashes \in Nat
      BY DEF TypeInv, TypeOK
<1>2. crashes = 0
      BY <1>1, FirstBefore
<1>3. ASSUME Start PROVE number' = number /\ number = 1
  <2>1. pc = "down" /\ pc' = "tip" /\ FirstLife'
        BY <1>3, FirstStep DEF Start
  <2>2. QED BY <1>2, <2>1 DEF FirstLife
<1>4. QED BY <1>1, <1>3, FirstBefore

LEMMA ZonesInit == Init => ZonesComplete
<1> SUFFICES ASSUME Init PROVE ZonesComplete
    OBVIOUS
<1>1. DOMAIN zones = {} /\ number = 1 /\ pc = "down"
      BY DEF Init, NoZones
<1>2. RememberedHeights = {}
      BY <1>1 DEF RememberedHeights
<1>3. QED BY <1>1, <1>2 DEF ZonesComplete

(* More may have been looked at.                                           *)
LEMMA ZonesKept ==
    ASSUME crashes = 0, pc # "failed", ZonesComplete, RememberedHeights' = RememberedHeights,
           DOMAIN zones' = DOMAIN zones,
           \A m \in DOMAIN zones : /\ chain'[m] = chain[m]
                                   /\ \A tx \in zones[m] : tx \in zones'[m] \/ Handled(tx)',
           \A tx : Handled(tx) => Handled(tx)'
    PROVE  ZonesComplete'
<1>1. DOMAIN zones' = RememberedHeights'
      BY DEF ZonesComplete
<1>2. ASSUME NEW m \in DOMAIN zones', NEW tx \in chain'[m].body.proposals
      PROVE  tx \in zones'[m] \/ Handled(tx)'
      BY DEF ZonesComplete
<1>3. QED BY <1>1, <1>2 DEF ZonesComplete

LEMMA ZonesStep ==
    ASSUME MatureChain
    PROVE  /\ TypeInv /\ FollowsBuried /\ RememberedAreReal /\ FirstLife
           /\ ValidChain(chain) /\ InOrder /\ ZonesComplete /\ [Next]_vars
           => ZonesComplete'
<1> SUFFICES ASSUME TypeInv, FollowsBuried, RememberedAreReal, FirstLife,
                    ValidChain(chain), InOrder, ZonesComplete, [Next]_vars,
                    crashes' = 0, pc' # "failed"
             PROVE  ZonesComplete'
    BY DEF ZonesComplete
<1> USE NodeAssumption, FollowerAssumption
<1>0. /\ crashes = 0 /\ pc # "failed" /\ ~CallPanics /\ ~Settle /\ ~Crash
      /\ Start => number' = number /\ number = 1
      BY FirstSteps
<1>1. /\ DOMAIN zones = RememberedHeights
      /\ \A m \in DOMAIN zones :
             \A tx \in chain[m].body.proposals : tx \in zones[m] \/ Handled(tx)
      BY <1>0 DEF ZonesComplete
<1>2. number \in Nat /\ number >= 1 /\ number <= MaxTip + 1
      BY NumberTypes
<1>3. CASE Start
  <2>1. number' = 1 /\ DOMAIN zones' = {} /\ pc' = "tip"
        BY <1>0, <1>3 DEF Start, NoZones
  <2>2. RememberedHeights' = {}
        BY <2>1 DEF RememberedHeights
  <2>3. QED BY <2>1, <2>2 DEF ZonesComplete
<1>4. CASE UNCHANGED <<number, block, left, zones, chain>> /\ Done' = Done
               /\ pc' # "epoch" /\ pc # "epoch"
  <2>1. \A tx : Handled(tx) => Handled(tx)'
        BY <1>4 DEF Handled
  <2>2. RememberedHeights' = RememberedHeights
        BY <1>4 DEF RememberedHeights
  <2>3. QED BY <1>0, <1>4, <2>1, <2>2, ZonesKept
<1>5. CASE UNCHANGED <<pc, number, block, left, zones, chain>>
  <2>1. \A tx : Handled(tx) => Handled(tx)'
        BY <1>5 DEF Handled, Done
  <2>2. RememberedHeights' = RememberedHeights
        BY <1>5 DEF RememberedHeights
  <2>3. QED BY <1>0, <1>5, <2>1, <2>2, ZonesKept
<1>6. CASE ReadTip \/ ReadParent
      BY <1>4, <1>6 DEF ReadTip, ReadParent, Done, nodeVars
<1>7. CASE Refresh \/ AnalyzeUncle
      BY <1>5, <1>7 DEF Refresh, AnalyzeUncle, nodeVars
<1>8. CASE Send \/ Persist \/ UNCHANGED vars
      BY <1>5, <1>8 DEF Send, Persist, task, vars, nodeVars
<1>9. CASE AnalyzeBlock
  <2>1. /\ UNCHANGED <<number, zones, chain>> /\ pc = "block" /\ pc' = "uncles"
        BY <1>9 DEF AnalyzeBlock, nodeVars
  <2>2. Done = 0 /\ Done' = 0
        BY <2>1 DEF Done
  <2>3. \A tx : Handled(tx) => Handled(tx)'
        BY <2>1, <2>2 DEF Handled
  <2>4. RememberedHeights' = RememberedHeights
        BY <2>1 DEF RememberedHeights
  <2>5. QED BY <1>0, <2>1, <2>3, <2>4, ZonesKept
<1>10. CASE AnalyzeTransactions
  <2>1. /\ UNCHANGED <<number, block, zones, chain>> /\ left' = block.body.commits
        /\ pc = "uncles" /\ pc' = "transactions"
        BY <1>10 DEF AnalyzeTransactions, nodeVars
  <2>2. Len(left') \in Nat
        BY <2>1, BlockType, LenProperties DEF TypeInv, TypeOK
  <2>3. Done = 0 /\ Done' = 0
        BY <2>1, <2>2 DEF Done
  <2>4. \A tx : Handled(tx) => Handled(tx)'
        BY <2>1, <2>3 DEF Handled
  <2>5. RememberedHeights' = RememberedHeights
        BY <2>1 DEF RememberedHeights
  <2>6. QED BY <1>0, <2>1, <2>4, <2>5, ZonesKept
<1>11. CASE AnalyzeTransaction
  <2> DEFINE h == Head(left)
  <2>1. /\ UNCHANGED <<pc, number, block, chain>> /\ left' = Tail(left)
        /\ pc = "transactions" /\ left # <<>>
        /\ \/ zones' = zones
           \/ \E m \in Zones(h) : zones' = [zones EXCEPT ![m] = @ \ {h}]
        BY <1>11, Zenon DEF AnalyzeTransaction, nodeVars
  <2>2. /\ block = chain[number] /\ Done \in Nat /\ h = block.body.commits[Done + 1]
        BY <2>1, NextIsNew DEF RememberedAreReal, Analyzing
  <2>3. Done' = Done + 1
    <3>1. /\ left \in Seq(Txs) /\ block.body.commits \in Seq(Txs)
          BY BlockType DEF TypeInv, TypeOK
    <3>2. Len(left') = Len(left) - 1 /\ Len(left) \in Nat /\ Len(block.body.commits) \in Nat
          BY <2>1, <3>1, HeadTailProperties, LenProperties
    <3>3. QED BY <2>1, <3>2 DEF Done
  <2>4. \A tx : Handled(tx) \/ tx = h => Handled(tx)'
        BY <2>1, <2>2, <2>3 DEF Handled
  <2>5. /\ DOMAIN zones' = DOMAIN zones
        /\ \A m \in DOMAIN zones : \A tx \in zones[m] : tx \in zones'[m] \/ tx = h
    <3>1. CASE zones' = zones
          BY <3>1
    <3>2. ASSUME NEW m, zones' = [zones EXCEPT ![m] = @ \ {h}]
          PROVE  /\ DOMAIN zones' = DOMAIN zones
                 /\ \A k \in DOMAIN zones : \A tx \in zones[k] : tx \in zones'[k] \/ tx = h
          BY <3>2
    <3>3. QED BY <2>1, <3>1, <3>2
  <2>6. RememberedHeights' = RememberedHeights
        BY <2>1 DEF RememberedHeights
  <2> HIDE DEF h
  <2>7. QED BY <1>0, <2>1, <2>4, <2>5, <2>6, ZonesKept
<1>12. CASE PruneZones
  <2> DEFINE D == (DOMAIN zones \ {Leaving}) \cup {number}
  <2>1. /\ UNCHANGED <<number, block, left, chain>> /\ pc = "transactions" /\ pc' = "epoch"
        /\ zones' = [m \in D |-> IF m = number THEN block.body.proposals ELSE zones[m]]
        BY <1>12 DEF PruneZones, nodeVars
  <2>2. DOMAIN zones' = D /\ block = chain[number]
        BY <2>1 DEF RememberedAreReal, Analyzing
  <2>3. D = RememberedHeights'
    <3>1. /\ DOMAIN zones = {m \in 1..number - 1 : number <= m + WindowFar}
          /\ RememberedHeights' = {m \in 1..number : number < m + WindowFar}
          BY <1>1, <2>1 DEF RememberedHeights
    <3>2. ASSUME NEW m \in 1..number - 1, number <= m + WindowFar
          PROVE  m # Leaving <=> number < m + WindowFar
      <4>1. CASE number >= WindowFar
            BY <1>2, <3>2, <4>1 DEF Leaving, Minus
      <4>2. CASE ~(number >= WindowFar)
            BY <1>2, <3>2, <4>2 DEF Leaving, Minus
      <4>3. QED BY <4>1, <4>2
    <3>3. number < number + WindowFar /\ number \in 1..number
          BY <1>2
    <3>4. QED BY <1>2, <3>1, <3>2, <3>3
  <2>4. \A tx : Handled(tx) => Handled(tx)'
        BY <2>1 DEF Handled, Done
  <2>5. ASSUME NEW m \in D, NEW tx \in chain'[m].body.proposals
        PROVE  tx \in zones'[m] \/ Handled(tx)'
        BY <1>1, <2>1, <2>2, <2>4
  <2> HIDE DEF D
  <2>6. QED BY <2>2, <2>3, <2>5 DEF ZonesComplete
<1>13. CASE AnalyzeEpoch
  <2>1. /\ UNCHANGED <<zones, chain, block, left>> /\ number' = number + 1
        /\ pc = "epoch" /\ pc' = "block"
        BY <1>13 DEF AnalyzeEpoch, nodeVars
  <2>2. Done' = 0 /\ block = chain[number] /\ left = <<>>
        BY <2>1 DEF Done, RememberedAreReal, Analyzing, InOrder
  <2>3. block.body.commits \in Seq(Txs)
        BY BlockType DEF TypeInv, TypeOK
  <2>4. Done = Len(block.body.commits) /\ DOMAIN block.body.commits = 1..Done
        BY <2>1, <2>2, <2>3, LenProperties, EmptySeq DEF Done
  <2>5. ASSUME NEW tx, Handled(tx) PROVE Handled(tx)'
    <3>1. CASE \E i \in 1..Done : block.body.commits[i] = tx
      <4>1. tx \in ToSet(chain[number].body.commits)
            BY <2>2, <2>4, <3>1 DEF ToSet
      <4>2. number \in 1..number' - 1
            BY <1>2, <2>1
      <4>3. QED BY <2>1, <4>1, <4>2 DEF Handled
    <3>2. CASE \E n \in 1..number - 1 : tx \in ToSet(chain[n].body.commits)
          BY <1>2, <2>1, <3>2 DEF Handled
    <3>3. QED BY <2>5, <3>1, <3>2 DEF Handled
  <2>6. RememberedHeights' = RememberedHeights
        BY <1>2, <2>1 DEF RememberedHeights
  <2>7. QED BY <1>0, <2>1, <2>5, <2>6, ZonesKept
<1>14. CASE NodeMoves
  <2>1. NodeTypeOK /\ NodeNext /\ UNCHANGED <<pc, number, block, left, zones>>
        BY <1>14 DEF TypeInv, TypeOK, NodeMoves, task
  <2>2. ASSUME NEW m \in DOMAIN zones PROVE chain'[m] = chain[m]
    <3>1. m \in 1..number /\ m + Confirmations < top
          BY DEF TypeInv, TypeOK, RememberedAreReal
    <3>2. m \in Int /\ 0 <= m
          BY <3>1
    <3>3. QED BY <2>1, <3>1, <3>2, SettledStays
  <2>3. ASSUME NEW n \in 1..number - 1 PROVE chain'[n] = chain[n]
    <3>1. n \in Int /\ 0 <= n /\ n + Confirmations < top
          BY <1>2, NumberTypes DEF FollowsBuried
    <3>2. QED BY <2>1, <3>1, SettledStays
  <2>4. \A tx : Handled(tx) => Handled(tx)'
        BY <2>1, <2>3 DEF Handled, Done
  <2>5. RememberedHeights' = RememberedHeights
        BY <2>1 DEF RememberedHeights
  <2>6. QED BY <1>0, <2>1, <2>2, <2>4, <2>5, ZonesKept
<1>15. QED BY <1>0, <1>3, <1>6, <1>7, <1>8, <1>9, <1>10, <1>11, <1>12, <1>13, <1>14
           DEF Next, Analyze

(* With the zones complete, those of the window that have a transaction    *)
(* are the blocks that proposed it in time.                                *)
LEMMA ZonesAreProposals ==
    ASSUME TypeInv, RememberedAreReal, ZonesComplete, crashes = 0,
           pc = "transactions", number >= WindowFar, NEW tx, ~Handled(tx)
    PROVE  Zones(tx) = ProposalsOf(chain, tx, number)
<1> USE NodeAssumption, FollowerAssumption
<1>1. number \in Nat
      BY NumberTypes
<1>2. DOMAIN zones = {m \in 1..number - 1 : number <= m + WindowFar}
      BY DEF ZonesComplete, RememberedHeights
<1>3. Window = number - WindowFar..number - WindowClose
      BY <1>1 DEF Window, Minus
<1>4. ASSUME NEW m \in DOMAIN zones
      PROVE  tx \in zones[m] <=> tx \in chain[m].body.proposals
      BY DEF ZonesComplete, RememberedAreReal
<1>5. ASSUME NEW m
      PROVE  m \in Window \cap DOMAIN zones
                 <=> m \in 1..number /\ number <= m + WindowFar /\ m + WindowClose <= number
      BY <1>1, <1>2, <1>3
<1>6. QED BY <1>4, <1>5 DEF Zones, ProposalsOf

(* The rows of the block at height n among h, for the first k of its       *)
(* transactions: they follow each other after the first b rows, and each   *)
(* has the distance to the first proposal.                                 *)
CommitsAt(h, n) == {i \in DOMAIN h : h[i].table = "2pc" /\ h[i].number = n}

IsFirst(first, proposed) == first \in proposed /\ \A m \in proposed : first <= m

Matched(h, c, n, k, b) ==
    /\ CommitsAt(h, n) = b + 1..b + k
    /\ \A i \in 1..k : IsFirst(n - h[b + i].delay, ProposalsOf(c, c[n].body.commits[i], n))

CommitsMatch ==
    /\ crashes = 0 =>
           \A n \in WindowFar..number - 1 : \E b \in 0..Len(History) :
               Matched(History, chain, n, Len(chain[n].body.commits), b)
    /\ crashes = 0 /\ pc # "failed" =>
           /\ Analyzing /\ number >= WindowFar =>
                  /\ Done <= Len(History)
                  /\ Matched(History, chain, number, Done, Len(History) - Done)
           /\ \A n \in number..MaxTip + 1 :
                  (n = number /\ Analyzing) \/ CommitsAt(History, n) = {}

LEMMA MatchedGrows ==
    ASSUME NEW h \in Seq(Rows), NEW row, NEW c, NEW n, NEW k \in Nat, NEW b \in Nat,
           Matched(h, c, n, k, b), row.table # "2pc" \/ row.number # n
    PROVE  Matched(Append(h, row), c, n, k, b)
<1> DEFINE g == Append(h, row)
<1>1. /\ Len(h) \in Nat /\ DOMAIN h = 1..Len(h) /\ DOMAIN g = 1..Len(h) + 1
      /\ \A i \in 1..Len(h) : g[i] = h[i]
      /\ g[Len(h) + 1] = row
      BY LenProperties
<1> HIDE DEF g
<1>2. CommitsAt(g, n) = CommitsAt(h, n)
      BY <1>1 DEF CommitsAt
<1>3. ASSUME NEW i \in 1..k PROVE g[b + i] = h[b + i]
  <2>1. b + i \in CommitsAt(h, n)
        BY DEF Matched
  <2>2. b + i \in 1..Len(h)
        BY <1>1, <2>1 DEF CommitsAt
  <2>3. QED BY <1>1, <2>2
<1>4. Matched(g, c, n, k, b)
      BY <1>2, <1>3 DEF Matched
<1>5. QED BY <1>4 DEF g

LEMMA MatchedNext ==
    ASSUME NEW h \in Seq(Rows), NEW row, NEW c, NEW n, NEW k \in Nat, k <= Len(h),
           Matched(h, c, n, k, Len(h) - k), row.table = "2pc", row.number = n,
           IsFirst(n - row.delay, ProposalsOf(c, c[n].body.commits[k + 1], n))
    PROVE  Matched(Append(h, row), c, n, k + 1, Len(h) - k)
<1> DEFINE g == Append(h, row)  b == Len(h) - k
<1>1. /\ Len(h) \in Nat /\ DOMAIN h = 1..Len(h) /\ DOMAIN g = 1..Len(h) + 1
      /\ \A i \in 1..Len(h) : g[i] = h[i]
      /\ g[Len(h) + 1] = row
      BY LenProperties
<1>2. b \in Nat /\ b + k = Len(h) /\ b + (k + 1) = Len(h) + 1
      BY <1>1
<1>3. CommitsAt(h, n) = b + 1..b + k
      BY DEF Matched
<1> HIDE DEF g, b
<1>4. CommitsAt(g, n) = b + 1..b + (k + 1)
  <2>1. CommitsAt(g, n) = CommitsAt(h, n) \cup {Len(h) + 1}
        BY <1>1 DEF CommitsAt
  <2>2. QED BY <1>2, <1>3, <2>1
<1>5. ASSUME NEW i \in 1..k + 1
      PROVE  IsFirst(n - g[b + i].delay, ProposalsOf(c, c[n].body.commits[i], n))
  <2>1. CASE i \in 1..k
    <3>1. b + i \in 1..Len(h)
          BY <1>2, <2>1
    <3>2. IsFirst(n - h[b + i].delay, ProposalsOf(c, c[n].body.commits[i], n))
          BY <2>1 DEF Matched, b
    <3>3. QED BY <1>1, <3>1, <3>2
  <2>2. CASE i = k + 1
        BY <1>1, <1>2, <2>2
  <2>3. QED BY <2>1, <2>2
<1>6. Matched(g, c, n, k + 1, b)
      BY <1>4, <1>5 DEF Matched
<1>7. QED BY <1>6 DEF g, b

LEMMA MatchedSettled ==
    ASSUME NEW h, NEW c, NEW d, NEW n \in Nat, NEW k, NEW b,
           \A m \in 0..n : d[m] = c[m], Matched(h, c, n, k, b)
    PROVE  Matched(h, d, n, k, b)
<1>1. \A tx : ProposalsOf(d, tx, n) = ProposalsOf(c, tx, n)
      BY DEF ProposalsOf
<1>2. d[n] = c[n]
      OBVIOUS
<1>3. QED BY <1>1, <1>2 DEF Matched

LEMMA CommitsType ==
    ASSUME TypeInv, NEW n \in 0..top
    PROVE  LET commits == chain[n].body.commits
           IN  commits \in Seq(Txs) /\ Len(commits) \in Nat /\ DOMAIN commits = 1..Len(commits)
<1>1. chain[n] \in Block
      BY DEF TypeInv, TypeOK, NodeTypeOK
<1>2. chain[n].body.commits \in Seq(Txs)
      BY <1>1, BlockType
<1>3. QED BY <1>2, LenProperties

LEMMA MatchInit == Init => CommitsMatch
<1> SUFFICES ASSUME Init PROVE CommitsMatch
    OBVIOUS
<1> USE NodeAssumption, FollowerAssumption
<1>1. History = <<>> /\ number = 1 /\ ~Analyzing
      BY ConcatEmptySeq, EmptySeq DEF Init, Log!Init, History, Analyzing
<1>2. \A n : CommitsAt(History, n) = {}
      BY <1>1 DEF CommitsAt
<1>3. WindowFar..number - 1 = {}
      BY <1>1
<1>4. QED BY <1>1, <1>2, <1>3 DEF CommitsMatch

LEMMA MatchKept ==
    ASSUME CommitsMatch, UNCHANGED <<History, chain, number>>, Done' = Done,
           Analyzing' = Analyzing, crashes = 0, pc' # "failed" => pc # "failed"
    PROVE  CommitsMatch'
BY DEF CommitsMatch

(* A row that is not of a commitment, of the block in work or of the next. *)
LEMMA MatchGrows ==
    ASSUME NEW row, TypeInv, CommitsMatch, crashes = 0, pc # "failed",
           History' = Append(History, row), row.table # "2pc",
           UNCHANGED <<chain, number>>, Done' = 0, Analyzing', Analyzing => Done = 0
    PROVE  CommitsMatch'
<1> USE NodeAssumption, FollowerAssumption
<1>1. /\ History \in Seq(Rows) /\ Len(History) \in Nat /\ Len(History') = Len(History) + 1
      /\ number \in Nat /\ number \in number..MaxTip + 1
  <2>1. RowsIn(Rows)
        BY DEF TypeInv, TypeOK
  <2>2. History \in Seq(Rows) /\ Len(History) \in Nat
        BY <2>1, HistoryType
  <2>3. number \in Nat /\ number <= MaxTip + 1
        BY NumberTypes
  <2>4. QED BY <2>2, <2>3
<1>2. \A n : CommitsAt(History', n) = CommitsAt(History, n)
  <2>1. /\ DOMAIN History = 1..Len(History) /\ DOMAIN History' = 1..Len(History) + 1
        /\ \A i \in 1..Len(History) : History'[i] = History[i]
        /\ History'[Len(History) + 1] = row
        BY <1>1, LenProperties
  <2>2. QED BY <1>1, <2>1 DEF CommitsAt
<1>3. ASSUME NEW n \in WindowFar..number - 1
      PROVE  \E b \in 0..Len(History') :
                 Matched(History', chain, n, Len(chain[n].body.commits), b)
  <2>1. PICK b \in 0..Len(History) :
            Matched(History, chain, n, Len(chain[n].body.commits), b)
        BY DEF CommitsMatch
  <2>2. Len(chain[n].body.commits) \in Nat
    <3>1. n \in 0..top
          BY NumberTypes
    <3>2. QED BY <3>1, CommitsType
  <2>3. Matched(History', chain, n, Len(chain[n].body.commits), b)
        BY <1>1, <2>1, <2>2, MatchedGrows
  <2>4. QED BY <1>1, <2>3
<1>4. ASSUME number >= WindowFar
      PROVE  Matched(History', chain, number, 0, Len(History') - 0)
  <2>1. CommitsAt(History, number) = {}
    <3>1. CASE Analyzing
      <4>1. Done = 0 /\ Matched(History, chain, number, Done, Len(History) - Done)
            BY <1>4, <3>1 DEF CommitsMatch
      <4>2. QED BY <1>1, <4>1 DEF Matched
    <3>2. CASE ~Analyzing
          BY <1>1, <3>2 DEF CommitsMatch
    <3>3. QED BY <3>1, <3>2
  <2>2. CommitsAt(History', number) = {}
        BY <1>2, <2>1
  <2>3. QED BY <1>1, <2>2 DEF Matched
<1>5. \A n \in number..MaxTip + 1 : n = number \/ CommitsAt(History', n) = {}
      BY <1>2 DEF CommitsMatch
<1>6. QED BY <1>1, <1>3, <1>4, <1>5 DEF CommitsMatch

LEMMA MatchCommit ==
    /\ TypeInv /\ TypeInv' /\ RememberedAreReal /\ ValidChain(chain) /\ InOrder
    /\ ZonesComplete /\ CommitsMatch /\ crashes = 0 /\ AnalyzeTransaction
    => CommitsMatch'
<1> SUFFICES ASSUME TypeInv, TypeInv', RememberedAreReal, ValidChain(chain), InOrder,
                    ZonesComplete, CommitsMatch, crashes = 0, AnalyzeTransaction
             PROVE  CommitsMatch'
    OBVIOUS
<1> USE NodeAssumption, FollowerAssumption
<1> DEFINE tx == Head(left)  commits == chain[number].body.commits
<1>1. /\ UNCHANGED <<pc, number, block, chain, log>> /\ left' = Tail(left)
      /\ pc = "transactions" /\ left # <<>> /\ outbox = <<>> /\ Analyzing /\ Analyzing'
      /\ \/ \E m \in Zones(tx) :
               (\A k \in Zones(tx) : m <= k) /\ outbox' = <<CommitRow(number, number - m)>>
         \/ Zones(tx) = {} /\ outbox' = outbox
      BY Zenon DEF AnalyzeTransaction, Analyzing, nodeVars
<1>2. /\ History \in Seq(Rows) /\ Len(History) \in Nat /\ RowsIn(Rows)
      /\ number \in Nat /\ top \in Nat /\ number \in 0..top
  <2>1. RowsIn(Rows)
        BY DEF TypeInv, TypeOK
  <2>2. number \in Nat /\ top \in Nat /\ number \in 0..top
        BY <1>1, NumberTypes
  <2>3. QED BY <2>1, <2>2, HistoryType
<1>3. /\ Done \in Nat /\ Done + 1 \in 1..Len(commits) /\ tx = commits[Done + 1]
      /\ ~Handled(tx) /\ ProposalsOf(chain, tx, number) # {} /\ block = chain[number]
      BY <1>1, NextIsNew DEF RememberedAreReal
<1>4. Done' = Done + 1
  <2>1. left \in Seq(Txs)
        BY DEF TypeInv, TypeOK
  <2>2. Len(left') = Len(left) - 1 /\ Len(left) \in Nat /\ Len(block.body.commits) \in Nat
        BY <1>1, <1>2, <1>3, <2>1, HeadTailProperties, LenProperties, CommitsType
  <2>3. QED BY <1>1, <2>2 DEF Done
<1>5. /\ \A n \in WindowFar..number - 1 : \E b \in 0..Len(History) :
             Matched(History, chain, n, Len(chain[n].body.commits), b)
      /\ number >= WindowFar =>
             /\ Done <= Len(History)
             /\ Matched(History, chain, number, Done, Len(History) - Done)
      /\ \A n \in number..MaxTip + 1 : n = number \/ CommitsAt(History, n) = {}
      BY <1>1 DEF CommitsMatch
<1>6. number >= WindowFar => Zones(tx) = ProposalsOf(chain, tx, number)
      BY <1>1, <1>3, ZonesAreProposals
<1> HIDE DEF tx
<1>7. CASE Zones(tx) = {} /\ outbox' = outbox
  <2>1. History' = History /\ ~(number >= WindowFar)
        BY <1>1, <1>3, <1>6, <1>7, HistoryStays
  <2>2. QED BY <1>1, <1>5, <2>1 DEF CommitsMatch
<1>8. ASSUME NEW m \in Zones(tx), \A k \in Zones(tx) : m <= k,
             outbox' = <<CommitRow(number, number - m)>>
      PROVE  CommitsMatch'
  <2> DEFINE row == CommitRow(number, number - m)
  <2>1. row.table = "2pc" /\ row.number = number /\ row.delay = number - m
        BY DEF CommitRow
  <2> HIDE DEF row
  <2>2. History' = Append(History, row)
        BY <1>1, <1>2, <1>8, HistoryGrows DEF row
  <2>3. Len(History') = Len(History) + 1
        BY <1>2, <2>2
  <2>4. ASSUME NEW n \in WindowFar..number - 1
        PROVE  \E b \in 0..Len(History') :
                   Matched(History', chain, n, Len(chain[n].body.commits), b)
    <3>1. PICK b \in 0..Len(History) :
              Matched(History, chain, n, Len(chain[n].body.commits), b)
          BY <1>5
    <3>2. n \in 0..top /\ n # number
          BY <1>2
    <3>3. Len(chain[n].body.commits) \in Nat
          BY <3>2, CommitsType
    <3>4. Matched(History', chain, n, Len(chain[n].body.commits), b)
          BY <1>2, <2>1, <2>2, <3>1, <3>2, <3>3, MatchedGrows
    <3>5. QED BY <1>2, <2>3, <3>4
  <2>5. ASSUME number >= WindowFar
        PROVE  Done + 1 <= Len(History')
               /\ Matched(History', chain, number, Done + 1, Len(History') - (Done + 1))
    <3>1. Done <= Len(History) /\ Matched(History, chain, number, Done, Len(History) - Done)
          BY <1>5, <2>5
    <3>2. m \in DOMAIN zones
          BY DEF Zones
    <3>3. m \in Nat
      <4>1. DOMAIN zones \subseteq {h \in 1..number : number <= h + WindowFar}
            BY Zenon DEF TypeInv, TypeOK
      <4>2. QED BY <1>2, <3>2, <4>1
    <3>4. number - row.delay = m
          BY <1>2, <2>1, <3>3
    <3>5. IsFirst(number - row.delay, ProposalsOf(chain, commits[Done + 1], number))
          BY <1>3, <1>6, <1>8, <2>5, <3>4 DEF IsFirst
    <3>6. Matched(History', chain, number, Done + 1, Len(History) - Done)
          BY <1>2, <1>3, <2>1, <2>2, <3>1, <3>5, MatchedNext
    <3>7. Len(History') - (Done + 1) = Len(History) - Done /\ Done + 1 <= Len(History')
      <4>1. Len(History) \in Nat /\ Done \in Nat /\ Done <= Len(History)
            BY <1>2, <1>3, <3>1
      <4>2. QED BY <2>3, <4>1
    <3>8. QED BY <3>6, <3>7
  <2>6. ASSUME NEW n \in number..MaxTip + 1, n # number PROVE CommitsAt(History', n) = {}
    <3>1. /\ DOMAIN History = 1..Len(History) /\ DOMAIN History' = 1..Len(History) + 1
          /\ \A i \in 1..Len(History) : History'[i] = History[i]
          /\ History'[Len(History) + 1] = row
          BY <1>2, <2>2, LenProperties
    <3>2. CommitsAt(History, n) = {}
          BY <1>5, <2>6
    <3>3. QED BY <1>2, <2>1, <2>6, <3>1, <3>2 DEF CommitsAt
  <2>7. QED BY <1>1, <1>4, <2>4, <2>5, <2>6 DEF CommitsMatch
<1>9. QED BY <1>1, <1>7, <1>8

LEMMA MatchEpoch ==
    /\ TypeInv /\ TypeInv' /\ RememberedAreReal /\ InOrder
    /\ CommitsMatch /\ crashes = 0 /\ AnalyzeEpoch
    => CommitsMatch'
<1> SUFFICES ASSUME TypeInv, TypeInv', RememberedAreReal, InOrder,
                    CommitsMatch, crashes = 0, AnalyzeEpoch
             PROVE  CommitsMatch'
    OBVIOUS
<1> USE NodeAssumption, FollowerAssumption
<1> DEFINE row == EpochRow(epoch, uncles)  commits == chain[number].body.commits
<1>1. /\ UNCHANGED <<block, chain, log>> /\ pc = "epoch" /\ Analyzing /\ ~Analyzing'
      /\ outbox = <<>> /\ (outbox' = <<>> \/ outbox' = <<row>>) /\ number' = number + 1
      BY DEF AnalyzeEpoch, Analyzing, nodeVars
<1>2. /\ History \in Seq(Rows) /\ Len(History) \in Nat /\ RowsIn(Rows)
      /\ number \in Nat /\ top \in Nat /\ number \in 0..top
  <2>1. RowsIn(Rows)
        BY DEF TypeInv, TypeOK
  <2>2. number \in Nat /\ top \in Nat /\ number \in 0..top
        BY <1>1, NumberTypes
  <2>3. QED BY <2>1, <2>2, HistoryType
<1>3. Done = Len(commits) /\ Len(commits) \in Nat
  <2>1. left = <<>> /\ block = chain[number]
        BY <1>1 DEF InOrder, RememberedAreReal
  <2>2. Len(commits) \in Nat /\ Len(left) = 0
        BY <1>2, <2>1, CommitsType, EmptySeq
  <2>3. QED BY <1>1, <2>1, <2>2 DEF Done
<1>4. /\ \A n \in WindowFar..number - 1 : \E b \in 0..Len(History) :
             Matched(History, chain, n, Len(chain[n].body.commits), b)
      /\ number >= WindowFar =>
             /\ Done <= Len(History)
             /\ Matched(History, chain, number, Done, Len(History) - Done)
      /\ \A n \in number..MaxTip + 1 : n = number \/ CommitsAt(History, n) = {}
      BY <1>1 DEF CommitsMatch
<1>5. ASSUME NEW n \in WindowFar..number
      PROVE  \E b \in 0..Len(History) :
                 Matched(History, chain, n, Len(chain[n].body.commits), b)
  <2>1. CASE n = number
    <3>1. /\ Matched(History, chain, n, Len(chain[n].body.commits), Len(History) - Done)
          /\ Len(History) - Done \in 0..Len(History)
          BY <1>2, <1>3, <1>4, <2>1
    <3>2. QED BY <3>1
  <2>2. CASE n # number
    <3>1. n \in WindowFar..number - 1
          BY <1>2, <2>2
    <3>2. QED BY <1>4, <3>1
  <2>3. QED BY <2>1, <2>2
<1>6. \A n \in number + 1..MaxTip + 1 : CommitsAt(History, n) = {}
      BY <1>2, <1>4
<1>7. number' - 1 = number
      BY <1>1, <1>2
<1>8. CASE outbox' = <<>>
  <2>1. History' = History
        BY <1>1, <1>8, HistoryStays
  <2>2. QED BY <1>1, <1>5, <1>6, <1>7, <2>1 DEF CommitsMatch
<1>9. CASE outbox' = <<row>>
  <2>1. row.table = "epoch"
        BY DEF EpochRow
  <2>2. History' = Append(History, row)
        BY <1>1, <1>2, <1>9, HistoryGrows
  <2> HIDE DEF row
  <2>3. /\ DOMAIN History = 1..Len(History) /\ DOMAIN History' = 1..Len(History) + 1
        /\ \A i \in 1..Len(History) : History'[i] = History[i]
        /\ History'[Len(History) + 1] = row /\ Len(History') = Len(History) + 1
        BY <1>2, <2>2, LenProperties
  <2>4. \A n \in number + 1..MaxTip + 1 : CommitsAt(History', n) = {}
        BY <1>2, <1>6, <2>1, <2>3 DEF CommitsAt
  <2>5. ASSUME NEW n \in WindowFar..number
        PROVE  \E b \in 0..Len(History') :
                   Matched(History', chain, n, Len(chain[n].body.commits), b)
    <3>1. PICK b \in 0..Len(History) :
              Matched(History, chain, n, Len(chain[n].body.commits), b)
          BY <1>5
    <3>2. n \in 0..top
          BY <1>2
    <3>3. Len(chain[n].body.commits) \in Nat
          BY <3>2, CommitsType
    <3>4. row.table # "2pc"
          BY <2>1
    <3>5. Matched(History', chain, n, Len(chain[n].body.commits), b)
          BY <1>2, <2>2, <3>1, <3>3, <3>4, MatchedGrows
    <3>6. QED BY <1>2, <2>3, <3>5
  <2>6. QED BY <1>1, <1>7, <2>4, <2>5 DEF CommitsMatch
<1>10. QED BY <1>1, <1>8, <1>9

LEMMA MatchNodeMoves ==
    ASSUME MatureChain
    PROVE  /\ TypeInv /\ FollowsBuried /\ CommitsMatch /\ crashes = 0 /\ NodeMoves
           => CommitsMatch'
<1> SUFFICES ASSUME TypeInv, FollowsBuried, CommitsMatch, crashes = 0, NodeMoves
             PROVE  CommitsMatch'
    OBVIOUS
<1> USE NodeAssumption, FollowerAssumption
<1>1. NodeTypeOK /\ NodeNext /\ UNCHANGED <<pc, number, block, left, outbox, log>>
      BY DEF TypeInv, TypeOK, NodeMoves, task
<1>2. History' = History /\ Done' = Done /\ Analyzing' = Analyzing /\ number' = number
      BY <1>1, HistoryStays DEF Done, Analyzing
<1>3. number \in Nat /\ top \in Nat /\ 1 <= number
      BY NumberTypes
<1>4. ASSUME NEW n \in WindowFar..number - 1
      PROVE  \E b \in 0..Len(History) :
                 Matched(History, chain', n, Len(chain'[n].body.commits), b)
  <2>1. PICK b \in 0..Len(History) :
            Matched(History, chain, n, Len(chain[n].body.commits), b)
        BY DEF CommitsMatch
  <2>2. n \in 0..top /\ n \in Nat /\ n + Confirmations < top
        BY <1>3 DEF FollowsBuried
  <2>3. \A m \in 0..n : chain'[m] = chain[m]
        BY <1>1, <2>2, SettledBelow
  <2>4. chain'[n] = chain[n]
        BY <2>2, <2>3
  <2>5. QED BY <2>1, <2>2, <2>3, <2>4, MatchedSettled
<1>5. ASSUME Analyzing, pc # "failed", number >= WindowFar
      PROVE  Done <= Len(History) /\ Matched(History, chain', number, Done, Len(History) - Done)
  <2>1. Done <= Len(History) /\ Matched(History, chain, number, Done, Len(History) - Done)
        BY <1>5 DEF CommitsMatch
  <2>2. number \in 0..top /\ number + Confirmations < top
        BY <1>3, <1>5, NumberTypes DEF FollowsBuried, Buried
  <2>3. \A m \in 0..number : chain'[m] = chain[m]
        BY <1>1, <2>2, SettledBelow
  <2>4. QED BY <1>3, <2>1, <2>3, MatchedSettled
<1>6. QED BY <1>1, <1>2, <1>4, <1>5 DEF CommitsMatch

LEMMA MatchStep ==
    ASSUME MatureChain
    PROVE  /\ TypeInv /\ FollowsBuried /\ RememberedAreReal /\ FirstLife /\ ValidChain(chain)
           /\ InOrder /\ ZonesComplete /\ CommitsMatch /\ [Next]_vars
           => CommitsMatch'
<1> SUFFICES ASSUME TypeInv, FollowsBuried, RememberedAreReal, FirstLife, ValidChain(chain),
                    InOrder, ZonesComplete, CommitsMatch, [Next]_vars, crashes' = 0
             PROVE  CommitsMatch'
    BY DEF CommitsMatch
<1>0. /\ crashes = 0 /\ ~Settle /\ ~Crash
      /\ pc' # "failed" => pc # "failed"
      /\ Start => number' = number /\ number = 1
      BY FirstSteps
<1>1. TypeInv' /\ RowsIn(Rows)
      BY TypeInvStep DEF TypeInv, TypeOK
<1>2. CASE Start \/ ReadTip \/ ReadParent
  <2>1. UNCHANGED <<log, outbox, chain, number>> /\ ~Analyzing /\ ~Analyzing'
        /\ Done = 0 /\ Done' = 0
        BY <1>0, <1>2 DEF Start, ReadTip, ReadParent, Analyzing, Done, nodeVars
  <2>2. History' = History /\ Done' = Done /\ Analyzing' = Analyzing
    <3>1. History' = History
          BY <2>1, HistoryStays
    <3>2. Analyzing' = Analyzing
          BY <2>1 DEF Analyzing
    <3>3. QED BY <2>1, <3>1, <3>2
  <2>3. QED BY <1>0, <2>1, <2>2, MatchKept
<1>3. CASE Refresh \/ UNCHANGED vars
  <2>1. UNCHANGED <<log, outbox, chain, number, pc, block, left>>
        BY <1>3 DEF Refresh, vars, task, nodeVars
  <2>2. Analyzing' = Analyzing /\ Done' = Done
        BY <2>1 DEF Analyzing, Done
  <2>3. QED BY <1>0, <2>1, <2>2, MatchKept, HistoryStays
<1>4. CASE Send \/ Persist
  <2>1. UNCHANGED <<chain, number, pc, block, left>>
        BY <1>4 DEF Send, Persist, task, nodeVars
  <2>2. Analyzing' = Analyzing /\ Done' = Done
        BY <2>1 DEF Analyzing, Done
  <2>3. QED BY <1>0, <1>1, <1>4, <2>1, <2>2, MatchKept, HistoryMoves
<1>5. CASE AnalyzeBlock
  <2> DEFINE row == BlockRow(number, block', parent)
  <2>1. /\ outbox = <<>> /\ outbox' = <<row>> /\ UNCHANGED <<log, chain, number>>
        /\ pc = "block" /\ pc' = "uncles"
        BY <1>5 DEF AnalyzeBlock, nodeVars
  <2>2. row.table # "2pc"
        BY DEF BlockRow
  <2>3. Done' = 0 /\ Analyzing' /\ ~Analyzing
        BY <2>1 DEF Done, Analyzing
  <2> HIDE DEF row
  <2>4. History' = Append(History, row)
        BY <1>1, <2>1, HistoryGrows
  <2>5. QED BY <1>0, <2>1, <2>2, <2>3, <2>4, MatchGrows
<1>6. CASE AnalyzeUncle
  <2> DEFINE row == UncleRow(number - 1, chain[number - 1])
  <2>1. /\ outbox = <<>> /\ outbox' = <<row>> /\ UNCHANGED <<log, chain, number>>
        /\ pc = "uncles" /\ pc' = "uncles"
        BY <1>6 DEF AnalyzeUncle, nodeVars
  <2>2. row.table # "2pc"
        BY DEF UncleRow
  <2>3. Done' = 0 /\ Analyzing' /\ Done = 0
        BY <2>1 DEF Done, Analyzing
  <2> HIDE DEF row
  <2>4. History' = Append(History, row)
        BY <1>1, <2>1, HistoryGrows
  <2>5. QED BY <1>0, <2>1, <2>2, <2>3, <2>4, MatchGrows
<1>7. CASE AnalyzeTransactions
  <2>1. /\ UNCHANGED <<log, outbox, chain, number, block>> /\ left' = block.body.commits
        /\ pc = "uncles" /\ pc' = "transactions"
        BY <1>7 DEF AnalyzeTransactions, nodeVars
  <2>2. Len(left') \in Nat
        BY <2>1, BlockType, LenProperties DEF TypeInv, TypeOK
  <2>3. Done = 0 /\ Done' = 0 /\ Analyzing' = Analyzing
        BY <2>1, <2>2 DEF Done, Analyzing
  <2>4. QED BY <1>0, <2>1, <2>3, MatchKept, HistoryStays
<1>8. CASE PruneZones
  <2>1. /\ UNCHANGED <<log, outbox, chain, number, block, left>>
        /\ pc = "transactions" /\ pc' = "epoch"
        BY <1>8 DEF PruneZones, nodeVars
  <2>2. Done' = Done /\ Analyzing' = Analyzing
        BY <2>1 DEF Done, Analyzing
  <2>3. QED BY <1>0, <2>1, <2>2, MatchKept, HistoryStays
<1>9. CASE CallPanics
  <2>1. pc' = "failed" /\ UNCHANGED <<log, outbox, chain, number>>
        BY <1>9 DEF CallPanics, task, nodeVars
  <2>2. QED BY <1>0, <2>1, HistoryStays DEF CommitsMatch
<1>10. QED BY <1>0, <1>1, <1>2, <1>3, <1>4, <1>5, <1>6, <1>7, <1>8, <1>9, MatchCommit,
              MatchEpoch, MatchNodeMoves
          DEF Next, Analyze

LEMMA MatchImplies ==
    ASSUME TypeInv, CommitsMatch PROVE CommitmentsExact
<1> SUFFICES ASSUME crashes = 0, NEW n \in WindowFar..number - 1
             PROVE  LET commits == chain[n].body.commits
                    IN  \E k \in 0..Len(History) :
                            /\ Places("2pc", n) = k + 1..k + Len(commits)
                            /\ \A i \in DOMAIN commits :
                                   LET first == n - History[k + i].delay
                                       proposed == ProposalsOf(chain, commits[i], n)
                                   IN  first \in proposed /\ \A m \in proposed : first <= m
    BY DEF CommitmentsExact
<1>1. PICK k \in 0..Len(History) :
          Matched(History, chain, n, Len(chain[n].body.commits), k)
      BY DEF CommitsMatch
<1>2. n \in 0..top
      BY NumberTypes, NodeAssumption
<1>3. DOMAIN chain[n].body.commits = 1..Len(chain[n].body.commits)
      BY <1>2, CommitsType
<1>4. Places("2pc", n) = k + 1..k + Len(chain[n].body.commits)
      BY <1>1 DEF Matched, CommitsAt, Places
<1>5. QED BY <1>1, <1>3, <1>4 DEF Matched, IsFirst

(* On a mature chain every transaction that a block commits, from height   *)
(* WindowFar on, has one row until the process ends, in the block's order, *)
(* with the distance to its first proposal in the window: the zones,       *)
(* filled, emptied and pruned block by block, forget none.                 *)
THEOREM CommitmentsAreExact ==
    ASSUME MatureChain PROVE Spec => []CommitmentsExact
<1> DEFINE Inv == /\ TypeInv /\ FollowsBuried /\ RememberedAreReal /\ FirstLife
                  /\ ValidChain(chain) /\ InOrder /\ ZonesComplete /\ CommitsMatch
<1>1. Init => Inv
  <2>1. Init => InOrder
        BY DEF Init, InOrder
  <2>2. QED BY <2>1, TypeInvInit, FollowsInit, RealInit, FirstInit, ValidInit, ZonesInit,
               MatchInit
<1>2. Inv /\ [Next]_vars => Inv'
      BY TypeInvStep, FollowsStep, RealStep, FirstStep, ValidStep, InOrderStep, ZonesStep,
         MatchStep
<1>3. Inv => CommitmentsExact
      BY MatchImplies
<1>4. QED BY <1>1, <1>2, <1>3, PTL DEF Spec

(***************************************************************************)
(* Sums of uncles over heights.                                            *)
(***************************************************************************)

(* Induction over the natural numbers, for a set of them.                  *)
LEMMA Upwards ==
    ASSUME NEW T, T \subseteq Nat, 0 \in T, \A n \in T : n + 1 \in T
    PROVE  \A n \in Nat : n \in T
<1> SUFFICES ASSUME Nat \ T # {} PROVE FALSE
    OBVIOUS
<1>1. PICK x \in Nat \ T : \A y \in Nat \ T : x <= y
      BY Least
<1>2. x # 0 /\ x - 1 \in Nat
      OBVIOUS
<1>3. x - 1 \in T
      BY <1>1, <1>2
<1>4. QED BY <1>2, <1>3

UnclesIn(c, S) == MapThenSumSet(LAMBDA n : c[n].body.uncles, S)

Pick(S) == CHOOSE x \in S : TRUE

(* g is the recursive function by which UnclesIn is defined.               *)
SumsUp(c, S, g) ==
    g = [s \in SUBSET S |->
             IF s = {} THEN 0 ELSE c[Pick(s)].body.uncles + g[s \ {Pick(s)}]]

Counted(c, S) == IsFiniteSet(S) /\ \A n \in S : c[n].body.uncles \in Nat

LEMMA PickIs == ASSUME NEW S, S # {} PROVE Pick(S) \in S
BY DEF Pick

LEMMA UnclesInIs ==
    ASSUME NEW c, NEW S
    PROVE  UnclesIn(c, S) = (CHOOSE g : SumsUp(c, S, g))[S]
BY DEF UnclesIn, MapThenSumSet, MapThenFoldSet, Pick, SumsUp

(* Wherever two such functions are defined they agree.                     *)
LEMMA SumsAgree ==
    ASSUME NEW c, NEW d, NEW S, NEW T, NEW g, NEW h, S \subseteq T,
           Counted(c, S), \A n \in S : d[n].body.uncles = c[n].body.uncles,
           SumsUp(c, S, g), SumsUp(d, T, h)
    PROVE  \A s \in SUBSET S : g[s] = h[s] /\ g[s] \in Nat
<1> DEFINE Same(s) == g[s] = h[s] /\ g[s] \in Nat
           N == {n \in Nat : \A s \in SUBSET S : Cardinality(s) = n => Same(s)}
<1>1. ASSUME NEW s \in SUBSET S
      PROVE  IsFiniteSet(s) /\ Cardinality(s) \in Nat
      BY FS_Subset, FS_CardinalityType DEF Counted
<1>2. ASSUME NEW s \in SUBSET S
      PROVE  /\ s = {} => g[s] = 0 /\ h[s] = 0
             /\ s # {} => /\ g[s] = c[Pick(s)].body.uncles + g[s \ {Pick(s)}]
                          /\ h[s] = d[Pick(s)].body.uncles + h[s \ {Pick(s)}]
  <2>1. s \in SUBSET T
        OBVIOUS
  <2>2. g[s] = IF s = {} THEN 0 ELSE c[Pick(s)].body.uncles + g[s \ {Pick(s)}]
        BY Zenon DEF SumsUp
  <2>3. h[s] = IF s = {} THEN 0 ELSE d[Pick(s)].body.uncles + h[s \ {Pick(s)}]
        BY <2>1, Zenon DEF SumsUp
  <2>4. QED BY <2>2, <2>3
<1>3. 0 \in N
  <2>1. ASSUME NEW s \in SUBSET S, Cardinality(s) = 0 PROVE Same(s)
    <3>1. s = {}
          BY <1>1, <2>1, FS_EmptySet
    <3>2. g[s] = 0 /\ h[s] = 0
          BY <1>2, <3>1
    <3>3. QED BY <3>2
  <2>2. QED BY <2>1
<1>4. ASSUME NEW n \in N PROVE n + 1 \in N
  <2>1. ASSUME NEW s \in SUBSET S, Cardinality(s) = n + 1 PROVE Same(s)
    <3> DEFINE x == Pick(s)
    <3>1. s # {}
          BY <2>1, FS_EmptySet
    <3>2. x \in s
          BY <3>1, PickIs
    <3> HIDE DEF x
    <3>3. Cardinality(s \ {x}) = n
          BY <1>1, <2>1, <3>2, FS_RemoveElement
    <3>4. s \ {x} \in SUBSET S
          OBVIOUS
    <3> HIDE DEF Same
    <3>5. Same(s \ {x})
          BY <3>3, <3>4
    <3>6. c[x].body.uncles \in Nat /\ d[x].body.uncles = c[x].body.uncles
          BY <3>2 DEF Counted
    <3>7. g[s] = c[x].body.uncles + g[s \ {x}] /\ h[s] = d[x].body.uncles + h[s \ {x}]
          BY <1>2, <3>1 DEF x
    <3>8. QED BY <3>5, <3>6, <3>7 DEF Same
  <2>2. QED BY <2>1
<1>5. \A n \in Nat : n \in N
  <2>1. N \subseteq Nat
        OBVIOUS
  <2> HIDE DEF N
  <2>2. QED BY <1>3, <1>4, <2>1, Upwards
<1> HIDE DEF Same
<1>6. QED
  <2>1. ASSUME NEW s \in SUBSET S PROVE Same(s)
    <3>1. Cardinality(s) \in N
          BY <1>1, <1>5
    <3>2. QED BY <3>1
  <2>2. QED BY <2>1 DEF Same

(* There is one, for every finite set.                                     *)
LEMMA SumsExist ==
    ASSUME NEW c, NEW S, IsFiniteSet(S)
    PROVE  \E g : SumsUp(c, S, g)
<1> DEFINE Small(n) == {s \in SUBSET S : Cardinality(s) <= n}
           Sums(n, g) == g = [s \in Small(n) |->
                                IF s = {} THEN 0
                                ELSE c[Pick(s)].body.uncles + g[s \ {Pick(s)}]]
           N == {n \in Nat : \E g : Sums(n, g)}
<1>1. ASSUME NEW s \in SUBSET S
      PROVE  /\ IsFiniteSet(s) /\ Cardinality(s) \in Nat
             /\ s # {} => Pick(s) \in s /\ Cardinality(s \ {Pick(s)}) = Cardinality(s) - 1
  <2>1. IsFiniteSet(s) /\ Cardinality(s) \in Nat
        BY FS_Subset, FS_CardinalityType
  <2>2. s # {} => Pick(s) \in s
        BY PickIs
  <2>3. QED BY <2>1, <2>2, FS_RemoveElement
<1>2. 0 \in N
  <2> DEFINE g == [s \in Small(0) |-> 0]
  <2>1. ASSUME NEW s \in Small(0) PROVE s = {}
    <3>1. IsFiniteSet(s) /\ Cardinality(s) \in Nat /\ Cardinality(s) <= 0
          BY <1>1
    <3>2. Cardinality(s) = 0
          BY <3>1
    <3>3. QED BY <3>1, <3>2, FS_EmptySet
  <2>2. Sums(0, g)
        BY <2>1
  <2> HIDE DEF Sums, g
  <2>3. QED BY <2>2
<1>3. ASSUME NEW n \in N PROVE n + 1 \in N
  <2>1. PICK g : Sums(n, g)
        OBVIOUS
  <2> DEFINE h == [s \in Small(n + 1) |->
                      IF s = {} THEN 0 ELSE c[Pick(s)].body.uncles + g[s \ {Pick(s)}]]
  <2>2. ASSUME NEW s \in Small(n + 1), s # {}
        PROVE  g[s \ {Pick(s)}] = h[s \ {Pick(s)}]
    <3> DEFINE r == s \ {Pick(s)}
    <3>1. r \in Small(n)
          BY <1>1, <2>2
    <3>2. Cardinality(r) \in Nat
          BY <1>1
    <3>3. r \in Small(n + 1)
          BY <3>1, <3>2
    <3> HIDE DEF r, Small
    <3>4. g[r] = IF r = {} THEN 0 ELSE c[Pick(r)].body.uncles + g[r \ {Pick(r)}]
          BY <2>1, <3>1, Zenon
    <3>5. h[r] = IF r = {} THEN 0 ELSE c[Pick(r)].body.uncles + g[r \ {Pick(r)}]
          BY <3>3, Zenon
    <3>6. QED BY <3>4, <3>5 DEF r
  <2>3. Sums(n + 1, h)
    <3> HIDE DEF Small
    <3>1. h = [s \in Small(n + 1) |->
                  IF s = {} THEN 0 ELSE c[Pick(s)].body.uncles + g[s \ {Pick(s)}]]
          OBVIOUS
    <3> HIDE DEF h
    <3>2. [s \in Small(n + 1) |->
              IF s = {} THEN 0 ELSE c[Pick(s)].body.uncles + g[s \ {Pick(s)}]]
          = [s \in Small(n + 1) |->
              IF s = {} THEN 0 ELSE c[Pick(s)].body.uncles + h[s \ {Pick(s)}]]
          BY <2>2
    <3>3. QED BY <3>1, <3>2
  <2> HIDE DEF Sums, h
  <2>4. QED BY <2>3
<1>4. \A n \in Nat : n \in N
  <2>1. N \subseteq Nat
        OBVIOUS
  <2> HIDE DEF N
  <2>2. QED BY <1>2, <1>3, <2>1, Upwards
<1>5. Cardinality(S) \in Nat /\ Small(Cardinality(S)) = SUBSET S
      BY FS_CardinalityType, FS_Subset
<1>6. PICK g : Sums(Cardinality(S), g)
      BY <1>4, <1>5
<1> HIDE DEF Small
<1>7. SumsUp(c, S, g)
      BY <1>5, <1>6 DEF SumsUp
<1>8. QED BY <1>7

LEMMA UnclesSumUp ==
    ASSUME NEW c, NEW S, IsFiniteSet(S)
    PROVE  \E g : SumsUp(c, S, g) /\ UnclesIn(c, S) = g[S]
<1> DEFINE g == CHOOSE h : SumsUp(c, S, h)
<1>1. SumsUp(c, S, g)
      BY SumsExist
<1>2. UnclesIn(c, S) = g[S]
      BY UnclesInIs
<1> HIDE DEF g
<1>3. QED BY <1>1, <1>2

(* The sum depends on the blocks of its heights only.                      *)
LEMMA UnclesAgree ==
    ASSUME NEW c, NEW d, NEW S, Counted(c, S),
           \A n \in S : d[n].body.uncles = c[n].body.uncles
    PROVE  UnclesIn(c, S) = UnclesIn(d, S) /\ UnclesIn(c, S) \in Nat
<1>1. PICK g : SumsUp(c, S, g) /\ UnclesIn(c, S) = g[S]
      BY UnclesSumUp DEF Counted
<1>2. PICK h : SumsUp(d, S, h) /\ UnclesIn(d, S) = h[S]
      BY UnclesSumUp DEF Counted
<1>3. g[S] = h[S] /\ g[S] \in Nat
      BY <1>1, <1>2, SumsAgree, S \subseteq S, S \in SUBSET S
<1>4. QED BY <1>1, <1>2, <1>3

LEMMA UnclesOfNone == ASSUME NEW c PROVE UnclesIn(c, {}) = 0
<1>1. PICK g : SumsUp(c, {}, g) /\ UnclesIn(c, {}) = g[{}]
      BY UnclesSumUp, FS_EmptySet
<1>2. QED BY <1>1, {} \in SUBSET {}, Zenon DEF SumsUp

LEMMA UnclesOfPick ==
    ASSUME NEW c, NEW S, Counted(c, S), S # {}
    PROVE  UnclesIn(c, S) = c[Pick(S)].body.uncles + UnclesIn(c, S \ {Pick(S)})
<1> DEFINE R == S \ {Pick(S)}
<1>1. PICK g : SumsUp(c, S, g) /\ UnclesIn(c, S) = g[S]
      BY UnclesSumUp DEF Counted
<1>2. Counted(c, R)
      BY FS_RemoveElement DEF Counted
<1>3. PICK h : SumsUp(c, R, h) /\ UnclesIn(c, R) = h[R]
      BY <1>2, UnclesSumUp DEF Counted
<1>4. R \subseteq S /\ R \in SUBSET R
      OBVIOUS
<1>5. g[S] = c[Pick(S)].body.uncles + g[R]
      BY <1>1, S \in SUBSET S, Zenon DEF SumsUp
<1> HIDE DEF R
<1>6. \A s \in SUBSET R : h[s] = g[s] /\ h[s] \in Nat
      BY <1>1, <1>2, <1>3, <1>4, SumsAgree
<1>7. h[R] = g[R]
      BY <1>4, <1>6
<1>8. QED BY <1>1, <1>3, <1>5, <1>7 DEF R

(* Any height can be taken out first.                                      *)
LEMMA UnclesOfOther ==
    ASSUME NEW c, NEW S, Counted(c, S)
    PROVE  \A x \in S : UnclesIn(c, S) = c[x].body.uncles + UnclesIn(c, S \ {x})
<1> DEFINE Splits(s) == \A x \in s : UnclesIn(c, s) = c[x].body.uncles + UnclesIn(c, s \ {x})
           N == {n \in Nat : \A s \in SUBSET S : Cardinality(s) = n => Splits(s)}
<1>1. ASSUME NEW s \in SUBSET S
      PROVE  /\ Counted(c, s) /\ Cardinality(s) \in Nat /\ UnclesIn(c, s) \in Nat
             /\ s = {} <=> Cardinality(s) = 0
             /\ \A x \in s : Cardinality(s \ {x}) = Cardinality(s) - 1
  <2>1. Counted(c, s)
        BY FS_Subset DEF Counted
  <2>2. UnclesIn(c, s) \in Nat
        BY <2>1, UnclesAgree
  <2>3. QED BY <2>1, <2>2, FS_CardinalityType, FS_EmptySet, FS_RemoveElement DEF Counted
<1>2. 0 \in N
      BY <1>1
<1>3. ASSUME NEW n \in N PROVE n + 1 \in N
  <2>1. ASSUME NEW s \in SUBSET S, Cardinality(s) = n + 1, NEW x \in s
        PROVE  UnclesIn(c, s) = c[x].body.uncles + UnclesIn(c, s \ {x})
    <3> DEFINE p == Pick(s)
    <3>1. p \in s /\ UnclesIn(c, s) = c[p].body.uncles + UnclesIn(c, s \ {p})
          BY <1>1, PickIs, UnclesOfPick
    <3> HIDE DEF p
    <3>2. CASE x = p
          BY <3>1, <3>2
    <3>3. CASE x # p
      <4>1. s \ {p} \in SUBSET S /\ s \ {x} \in SUBSET S
            OBVIOUS
      <4>2. Cardinality(s \ {p}) = n /\ Cardinality(s \ {x}) = n
            BY <1>1, <2>1, <3>1
      <4> HIDE DEF Splits
      <4>3. Splits(s \ {p}) /\ Splits(s \ {x})
            BY <4>1, <4>2
      <4>4. x \in s \ {p} /\ p \in s \ {x} /\ (s \ {p}) \ {x} = (s \ {x}) \ {p}
            BY <3>1, <3>3
      <4> DEFINE r == (s \ {x}) \ {p}
      <4>5. /\ UnclesIn(c, s \ {p}) = c[x].body.uncles + UnclesIn(c, r)
            /\ UnclesIn(c, s \ {x}) = c[p].body.uncles + UnclesIn(c, r)
            BY <4>3, <4>4 DEF Splits
      <4>6. UnclesIn(c, r) \in Nat
            BY <1>1
      <4>7. c[x].body.uncles \in Nat /\ c[p].body.uncles \in Nat
            BY <3>1 DEF Counted
      <4> HIDE DEF r
      <4>8. QED BY <3>1, <4>5, <4>6, <4>7
    <3>4. QED BY <3>2, <3>3
  <2>2. QED BY <2>1
<1>4. \A n \in Nat : n \in N
  <2>1. N \subseteq Nat
        OBVIOUS
  <2> HIDE DEF N
  <2>2. QED BY <1>2, <1>3, <2>1, Upwards
<1>5. Cardinality(S) \in Nat /\ S \in SUBSET S
      BY FS_CardinalityType DEF Counted
<1>6. QED BY <1>4, <1>5

(***************************************************************************)
(* The totals of the epochs.                                               *)
(***************************************************************************)

(* Epochs follow each other.                                               *)
LEMMA EpochSteps ==
    /\ EpochOf(0) = 0
    /\ \A n \in Nat : /\ EpochOf(n) \in Nat
                      /\ EpochOf(n + 1) = EpochOf(n) \/ EpochOf(n + 1) = EpochOf(n) + 1
BY FollowerAssumption DEF EpochOf

LEMMA EpochsAscend ==
    ASSUME NEW n \in Nat, NEW m \in 0..n
    PROVE  EpochOf(m) <= EpochOf(n)
BY FollowerAssumption DEF EpochOf

LEMMA UnclesOfIs ==
    ASSUME NEW e
    PROVE  /\ UnclesOf(e) = UnclesIn(chain, {n \in DOMAIN chain : EpochOf(n) = e})
           /\ UnclesOf(e)' = UnclesIn(chain', {n \in DOMAIN chain' : EpochOf(n) = e})
BY DEF UnclesOf, UnclesIn, MapThenSumSet, MapThenFoldSet

(* The heights up to n that are in epoch e.                                *)
Until(n, e) == {m \in 0..n : EpochOf(m) = e}

(* Rows of epochs that are over, with no uncle too many; with all of them  *)
(* in the first life of the process.                                       *)
CountedRows ==
    {r \in Rows : r.table = "epoch" =>
        /\ \E n \in 1..top : n + Confirmations < top /\ r.number < EpochOf(n)
        /\ r.uncles <= UnclesOf(r.number)
        /\ crashes = 0 => r.uncles = UnclesOf(r.number)}

(* EpochNeverOvercounts made inductive: so far the task has counted the    *)
(* uncles of the epoch of the block before, below the block in work.       *)
CountsUncles ==
    /\ chain[0].body = Genesis
    /\ Analyzing \/ pc = "block" =>
           LET total == UnclesIn(chain, Until(number - 1, epoch))
           IN  /\ epoch = EpochOf(number - 1) /\ uncles <= total
               /\ crashes = 0 => uncles = total
    /\ RowsIn(CountedRows)

LEMMA UntilIs ==
    ASSUME NodeTypeOK, NEW n \in 0..top, NEW e
    PROVE  /\ Counted(chain, Until(n, e)) /\ UnclesIn(chain, Until(n, e)) \in Nat
           /\ Until(n, e) \subseteq 0..n
<1>1. top \in Nat /\ n \in Nat
      BY NodeAssumption DEF NodeTypeOK
<1>2. IsFiniteSet(Until(n, e)) /\ Until(n, e) \subseteq 0..n
  <2>1. IsFiniteSet(0..n) /\ Until(n, e) \in SUBSET (0..n)
        BY <1>1, FS_Interval DEF Until
  <2>2. QED BY <2>1, FS_Subset
<1>3. \A m \in Until(n, e) : chain[m] \in Block
      BY <1>1, <1>2 DEF NodeTypeOK
<1>4. Counted(chain, Until(n, e))
      BY <1>2, <1>3, BlockType DEF Counted
<1>5. QED BY <1>2, <1>4, UnclesAgree

(* The heights of an epoch that is over.                                   *)
LEMMA UntilOver ==
    ASSUME NodeTypeOK, NEW n \in 1..top, NEW e, e = EpochOf(n - 1), e < EpochOf(n)
    PROVE  UnclesOf(e) = UnclesIn(chain, Until(n - 1, e))
<1>1. top \in Nat /\ DOMAIN chain = 0..top
      BY NodeAssumption DEF NodeTypeOK
<1>2. ASSUME NEW m \in 0..top, EpochOf(m) = e PROVE m <= n - 1
  <2>1. n \in Nat /\ m \in Nat /\ EpochOf(n) \in Nat /\ EpochOf(m) \in Nat
        BY <1>1, EpochSteps
  <2>2. n <= m => EpochOf(n) <= EpochOf(m)
        BY <2>1, EpochsAscend
  <2>3. QED BY <1>2, <2>1, <2>2
<1>3. {m \in DOMAIN chain : EpochOf(m) = e} = Until(n - 1, e)
      BY <1>1, <1>2 DEF Until
<1>4. QED BY <1>3, UnclesOfIs

LEMMA CountedSame ==
    ASSUME UNCHANGED nodeVars, crashes' = 0 => crashes = 0
    PROVE  CountedRows \subseteq CountedRows'
<1>1. chain' = chain /\ top' = top
      BY DEF nodeVars
<1>2. \A e : UnclesOf(e)' = UnclesOf(e)
      BY <1>1, UnclesOfIs
<1>3. QED BY <1>1, <1>2 DEF CountedRows

LEMMA CountedKept ==
    ASSUME RowsIn(CountedRows), outbox' \in Seq(CountedRows),
           UNCHANGED <<log, crashes, nodeVars>>
    PROVE  RowsIn(CountedRows)'
<1>1. CountedRows \subseteq CountedRows'
      BY CountedSame
<1>2. Seq(CountedRows) \subseteq Seq(CountedRows')
      BY <1>1, SeqOfSubset
<1>3. QED BY <1>2 DEF RowsIn, log

LEMMA CountsInit == Init => CountsUncles
<1> SUFFICES ASSUME Init PROVE CountsUncles
    OBVIOUS
<1>1. RowsIn(CountedRows)
      BY EmptySeq DEF Init, RowsIn, Log!Init
<1>2. chain[0].body = Genesis
      BY NodeAssumption DEF Init, NodeInit
<1>3. QED BY <1>1, <1>2 DEF CountsUncles, Init, Analyzing

(* The steps that leave the count alone and report no epoch.               *)
LEMMA CountsOther ==
    TypeInv' /\ CountsUncles
    /\ (Start \/ ReadTip \/ Refresh \/ CallPanics \/ AnalyzeBlock \/ AnalyzeUncle
            \/ AnalyzeTransactions \/ AnalyzeTransaction \/ PruneZones)
        => CountsUncles'
<1> SUFFICES ASSUME TypeInv', CountsUncles,
                    Start \/ ReadTip \/ Refresh \/ CallPanics \/ AnalyzeBlock \/ AnalyzeUncle
                        \/ AnalyzeTransactions \/ AnalyzeTransaction \/ PruneZones
             PROVE  CountsUncles'
    OBVIOUS
<1>1. /\ UNCHANGED <<epoch, uncles, log, crashes, nodeVars>>
      /\ Analyzing' \/ pc' = "block" => (Analyzing \/ pc = "block") /\ number' = number
      BY DEF Start, ReadTip, Refresh, CallPanics, AnalyzeBlock, AnalyzeUncle,
             AnalyzeTransactions, AnalyzeTransaction, PruneZones, task, Analyzing
<1>2. outbox' = outbox \/ \E row : row.table # "epoch" /\ outbox' = <<row>>
  <2>1. CASE AnalyzeBlock
        BY <2>1 DEF AnalyzeBlock, BlockRow
  <2>2. CASE AnalyzeUncle
        BY <2>2 DEF AnalyzeUncle, UncleRow
  <2>3. CASE AnalyzeTransaction
    <3>1. \/ outbox' = outbox
          \/ \E m \in Zones(Head(left)) : outbox' = <<CommitRow(number, number - m)>>
          BY <2>3, Zenon DEF AnalyzeTransaction
    <3>2. \A m : CommitRow(number, number - m).table # "epoch"
          BY DEF CommitRow
    <3>3. QED BY <3>1, <3>2
  <2>4. QED BY <2>1, <2>2, <2>3 DEF Start, ReadTip, Refresh, CallPanics,
                                    AnalyzeTransactions, PruneZones, task
<1>3. outbox' \in Seq(CountedRows)
  <2>1. CASE outbox' = outbox
        BY <2>1 DEF CountsUncles, RowsIn
  <2>2. ASSUME NEW row, row.table # "epoch", outbox' = <<row>> PROVE outbox' \in Seq(CountedRows)
    <3>1. row \in Rows
          BY <2>2, RowOfOne DEF TypeInv, TypeOK, RowsIn
    <3>2. row \in CountedRows
          BY <2>2, <3>1 DEF CountedRows
    <3>3. QED BY <2>2, <3>2, OneRow
  <2>3. QED BY <1>2, <2>1, <2>2
<1>4. RowsIn(CountedRows)'
      BY <1>1, <1>3, CountedKept DEF CountsUncles
<1>5. QED BY <1>1, <1>4 DEF CountsUncles, Analyzing, nodeVars

LEMMA CountsReadParent ==
    TypeInv /\ FirstLife /\ CountsUncles /\ ReadParent => CountsUncles'
<1> SUFFICES ASSUME TypeInv, FirstLife, CountsUncles, ReadParent PROVE CountsUncles'
    OBVIOUS
<1> DEFINE e == EpochOf(number - 1)  S == Until(number - 1, e)
<1>1. /\ UNCHANGED <<number, log, outbox, crashes, nodeVars>>
      /\ epoch' = e /\ uncles' = 0 /\ pc = "parent"
      BY DEF ReadParent
<1>2. RowsIn(CountedRows)'
      BY <1>1, CountedKept DEF CountsUncles, RowsIn
<1>3. NodeTypeOK /\ number - 1 \in 0..top
      BY NumberTypes DEF TypeInv, TypeOK
<1>4. Counted(chain, S) /\ UnclesIn(chain, S) \in Nat
      BY <1>3, UntilIs
<1>5. ASSUME crashes = 0 PROVE UnclesIn(chain, S) = 0
  <2>1. number - 1 = 0
        BY <1>1, <1>5 DEF FirstLife
  <2>2. S = {0}
        BY <2>1 DEF Until
  <2>3. UnclesIn(chain, S) = chain[0].body.uncles + UnclesIn(chain, S \ {0})
        BY <1>4, <2>2, UnclesOfOther
  <2>4. S \ {0} = {} /\ chain[0].body.uncles = 0
        BY <2>2 DEF CountsUncles, Genesis
  <2>5. QED BY <2>3, <2>4, UnclesOfNone
<1>6. chain' = chain
      BY <1>1 DEF nodeVars
<1>7. CountsUncles' <=>
          /\ chain[0].body = Genesis
          /\ Analyzing' \/ pc' = "block" =>
                 /\ epoch' = e /\ uncles' <= UnclesIn(chain, Until(number - 1, epoch'))
                 /\ crashes = 0 => uncles' = UnclesIn(chain, Until(number - 1, epoch'))
          /\ RowsIn(CountedRows)'
      BY <1>1, <1>6 DEF CountsUncles
<1> HIDE DEF e
<1>8. QED BY <1>1, <1>2, <1>4, <1>5, <1>7 DEF CountsUncles

LEMMA CountsAnalyzeEpoch ==
    /\ TypeInv /\ TypeInv' /\ FollowsBuried /\ RememberedAreReal /\ CountsUncles
    /\ AnalyzeEpoch
    => CountsUncles'
<1> SUFFICES ASSUME TypeInv, TypeInv', FollowsBuried, RememberedAreReal, CountsUncles,
                    AnalyzeEpoch
             PROVE  CountsUncles'
    OBVIOUS
<1> USE NodeAssumption, FollowerAssumption
<1> DEFINE e == EpochOf(number)
           before == UnclesIn(chain, Until(number - 1, epoch))
           u == block.body.uncles
           row == EpochRow(epoch, uncles)
<1>1. /\ pc = "epoch" /\ Analyzing /\ number' = number + 1 /\ epoch' = e
      /\ uncles' = (IF epoch # e THEN 0 ELSE uncles) + u
      /\ outbox' = IF epoch # e THEN <<row>> ELSE <<>>
      /\ UNCHANGED <<log, crashes, nodeVars>>
      BY DEF AnalyzeEpoch, Analyzing
<1>2. /\ number \in 1..top /\ number \in Nat /\ number + Confirmations < top
      /\ block = chain[number] /\ NodeTypeOK /\ top \in Nat
  <2>1. number \in 1..top /\ number \in Nat /\ top \in Nat
        BY <1>1, NumberTypes
  <2>2. number + Confirmations < top
        BY <1>1 DEF FollowsBuried, Buried
  <2>3. block = chain[number]
        BY <1>1 DEF RememberedAreReal
  <2>4. NodeTypeOK
        BY DEF TypeInv, TypeOK
  <2>5. QED BY <2>1, <2>2, <2>3, <2>4
<1>3. /\ epoch = EpochOf(number - 1) /\ uncles <= before
      /\ crashes = 0 => uncles = before
      BY <1>1 DEF CountsUncles
<1>4. /\ number - 1 \in Nat /\ number - 1 \in 0..top
      /\ epoch \in Nat /\ e \in Nat /\ (e = epoch \/ e = epoch + 1)
  <2>1. number - 1 \in Nat /\ (number - 1) + 1 = number /\ number - 1 \in 0..top
        BY <1>2
  <2>2. QED BY <1>2, <1>3, <2>1, EpochSteps
<1>5. /\ before \in Nat /\ Until(number - 1, epoch) \subseteq 0..number - 1
      /\ Counted(chain, Until(number, e))
      BY <1>2, <1>4, UntilIs
<1>6. uncles \in Nat /\ u \in Nat
  <2>1. chain[number] \in Block
        BY <1>2 DEF NodeTypeOK
  <2>2. QED BY <1>2, <2>1, BlockType DEF TypeInv, TypeOK
<1>7. UnclesIn(chain, Until(number, e)) = u + UnclesIn(chain, Until(number, e) \ {number})
  <2>1. number \in Until(number, e)
        BY <1>2 DEF Until
  <2>2. QED BY <1>2, <1>5, <2>1, UnclesOfOther
<1>8. Until(number, e) \ {number} = IF epoch = e THEN Until(number - 1, epoch) ELSE {}
  <2>1. \A m \in 0..number : m # number <=> m \in 0..number - 1
        BY <1>2
  <2>2. ASSUME NEW m \in 0..number - 1, epoch # e PROVE EpochOf(m) # e
    <3>1. EpochOf(m) <= epoch /\ EpochOf(m) \in Nat
          BY <1>3, <1>4, EpochsAscend, EpochSteps
    <3>2. QED BY <1>4, <2>2, <3>1
  <2>3. QED BY <1>2, <2>1, <2>2 DEF Until
<1>9. UnclesIn(chain, Until(number, e)) = u + (IF epoch = e THEN before ELSE 0)
      BY <1>7, <1>8, UnclesOfNone
<1>10. /\ uncles' <= UnclesIn(chain, Until(number, e))
       /\ crashes = 0 => uncles' = UnclesIn(chain, Until(number, e))
  <2> HIDE DEF before, u, e
  <2>1. QED BY <1>1, <1>3, <1>5, <1>6, <1>9
<1>11. outbox' \in Seq(CountedRows)
  <2>1. CASE epoch = e
        BY <1>1, <2>1, EmptySeq
  <2>2. CASE epoch # e
    <3>1. epoch < e /\ UnclesOf(epoch) = before
          BY <1>2, <1>3, <1>4, <2>2, UntilOver
    <3>2. row.table = "epoch" /\ row.number = epoch /\ row.uncles = uncles
          BY DEF EpochRow
    <3> HIDE DEF row, before
    <3>3. row \in Rows
          BY <1>1, <2>2, RowOfOne DEF TypeInv, TypeOK, RowsIn
    <3>4. row \in CountedRows
          BY <1>2, <1>3, <3>1, <3>2, <3>3 DEF CountedRows
    <3>5. QED BY <1>1, <2>2, <3>4, OneRow
  <2>3. QED BY <2>1, <2>2
<1>12. RowsIn(CountedRows)'
       BY <1>1, <1>11, CountedKept DEF CountsUncles
<1>13. chain' = chain /\ number' - 1 = number /\ epoch' = e
       BY <1>1, <1>2 DEF nodeVars
<1> HIDE DEF e
<1>14. UnclesIn(chain', Until(number' - 1, epoch')) = UnclesIn(chain, Until(number, e))
       BY <1>13
<1>15. epoch' = EpochOf(number' - 1) /\ chain'[0].body = Genesis
       BY <1>13 DEF e, CountsUncles
<1>16. crashes' = crashes
       BY <1>1
<1>17. QED BY <1>10, <1>12, <1>14, <1>15, <1>16 DEF CountsUncles

LEMMA CountsLog ==
    TypeInv /\ CountsUncles /\ (Send \/ Persist \/ Settle \/ Crash) => CountsUncles'
<1> SUFFICES ASSUME TypeInv, CountsUncles, Send \/ Persist \/ Settle \/ Crash
             PROVE  CountsUncles'
    OBVIOUS
<1>1. /\ UNCHANGED <<task, nodeVars>> /\ (pc' = pc \/ pc' = "down")
      /\ crashes' = 0 => crashes = 0
  <2>1. crashes \in Nat
        BY DEF TypeInv, TypeOK
  <2>2. QED BY <2>1 DEF Send, Persist, Settle, Crash
<1>2. CountedRows \subseteq CountedRows'
      BY <1>1, CountedSame
<1>3. ASSUME NEW S, RowsIn(S)
      PROVE  /\ outbox' \in Seq(S) /\ accepted' \in Seq(S)
             /\ durable' \in Seq(S) /\ doubtful' \subseteq Seq(S)
      BY <1>3, SendKeepsRows, PersistKeepsRows, SettleKeepsRows, CrashKeepsRows DEF RowsIn
<1>4. RowsIn(CountedRows')
      BY <1>2, RowsInMonotonic DEF CountsUncles
<1>5. RowsIn(CountedRows)'
      BY <1>3, <1>4 DEF RowsIn
<1>6. QED BY <1>1, <1>5 DEF CountsUncles, task, nodeVars, Analyzing

LEMMA CountsNodeMoves ==
    ASSUME MatureChain
    PROVE  TypeInv /\ FollowsBuried /\ CountsUncles /\ NodeMoves => CountsUncles'
<1> SUFFICES ASSUME TypeInv, FollowsBuried, CountsUncles, NodeMoves PROVE CountsUncles'
    OBVIOUS
<1> USE NodeAssumption, FollowerAssumption
<1>1. NodeTypeOK /\ NodeNext /\ UNCHANGED <<pc, task, outbox, log, crashes>>
      BY DEF TypeInv, TypeOK, NodeMoves
<1>2. /\ top \in Nat /\ top' \in Nat /\ top <= top' /\ NodeTypeOK'
      /\ DOMAIN chain = 0..top /\ DOMAIN chain' = 0..top'
      BY <1>1, NodeStep DEF NodeTypeOK
<1>3. chain'[0] = chain[0]
      BY <1>1, <1>2, NodeStep
<1>4. ASSUME NEW n \in 0..top, n = 0 \/ n + Confirmations < top, NEW e
      PROVE  UnclesIn(chain', Until(n, e)) = UnclesIn(chain, Until(n, e))
  <2>1. Counted(chain, Until(n, e)) /\ Until(n, e) \subseteq 0..n
        BY <1>1, UntilIs
  <2>2. \A m \in 0..n : chain'[m] = chain[m]
        BY <1>1, <1>4, SettledBelow
  <2>3. \A m \in Until(n, e) : chain'[m].body.uncles = chain[m].body.uncles
        BY <2>1, <2>2
  <2>4. QED BY <2>1, <2>3, UnclesAgree
<1>5. CountedRows \subseteq CountedRows'
  <2>1. ASSUME NEW r \in CountedRows, r.table = "epoch"
        PROVE  /\ \E n \in 1..top' : n + Confirmations < top' /\ r.number < EpochOf(n)
               /\ UnclesOf(r.number)' = UnclesOf(r.number)
    <3>1. PICK n \in 1..top : n + Confirmations < top /\ r.number < EpochOf(n)
          BY <2>1 DEF CountedRows
    <3>2. r.number \in Nat
          BY <2>1 DEF CountedRows, Rows
    <3> DEFINE e == r.number
    <3>3. ASSUME NEW t \in Nat, n <= t
          PROVE  {m \in 0..t : EpochOf(m) = e} = Until(n, e)
      <4>1. ASSUME NEW m \in 0..t, EpochOf(m) = e PROVE m <= n
        <5>1. n \in Nat /\ m \in Nat /\ EpochOf(n) \in Nat
              BY <1>2, EpochSteps
        <5>2. n <= m => EpochOf(n) <= EpochOf(m)
              BY <5>1, EpochsAscend
        <5>3. QED BY <3>1, <3>2, <4>1, <5>1, <5>2
      <4>2. QED BY <1>2, <3>3, <4>1 DEF Until
    <3>4. /\ UnclesOf(e) = UnclesIn(chain, Until(n, e))
          /\ UnclesOf(e)' = UnclesIn(chain', Until(n, e))
      <4>1. /\ {m \in DOMAIN chain : EpochOf(m) = e} = Until(n, e)
            /\ {m \in DOMAIN chain' : EpochOf(m) = e} = Until(n, e)
            BY <1>2, <3>3
      <4>2. QED BY <4>1, UnclesOfIs
    <3>5. n \in 0..top
          BY <1>2
    <3>6. UnclesIn(chain', Until(n, e)) = UnclesIn(chain, Until(n, e))
          BY <1>4, <3>1, <3>5
    <3>7. n \in 1..top' /\ n + Confirmations < top'
          BY <1>2, <3>1
    <3>8. QED BY <3>1, <3>4, <3>6, <3>7
  <2>2. ASSUME NEW r \in CountedRows
        PROVE  r \in Rows /\ (r.table = "epoch" =>
                   /\ \E n \in 1..top' : n + Confirmations < top' /\ r.number < EpochOf(n)
                   /\ r.uncles <= UnclesOf(r.number)'
                   /\ crashes = 0 => r.uncles = UnclesOf(r.number)')
        BY <2>1 DEF CountedRows
  <2>3. CountedRows' = {r \in Rows : r.table = "epoch" =>
                   /\ \E n \in 1..top' : n + Confirmations < top' /\ r.number < EpochOf(n)
                   /\ r.uncles <= UnclesOf(r.number)'
                   /\ crashes = 0 => r.uncles = UnclesOf(r.number)'}
        BY <1>1 DEF CountedRows
  <2>4. QED BY <2>2, <2>3
<1>6. RowsIn(CountedRows)'
  <2>1. RowsIn(CountedRows')
        BY <1>5, RowsInMonotonic DEF CountsUncles
  <2>2. QED BY <1>1, <2>1 DEF RowsIn, log
<1>7. UNCHANGED <<pc, number, epoch, uncles>>
      BY <1>1 DEF task
<1>8. ASSUME Analyzing \/ pc = "block"
      PROVE  UnclesIn(chain', Until(number - 1, epoch))
                 = UnclesIn(chain, Until(number - 1, epoch))
  <2>1. number - 1 \in 0..top /\ (number - 1 = 0 \/ (number - 1) + Confirmations < top)
        BY <1>2, NumberTypes DEF FollowsBuried
  <2>2. QED BY <1>4, <2>1
<1>9. QED BY <1>1, <1>3, <1>6, <1>7, <1>8 DEF CountsUncles, Analyzing

LEMMA CountsStep ==
    ASSUME MatureChain
    PROVE  /\ TypeInv /\ FollowsBuried /\ RememberedAreReal /\ FirstLife /\ CountsUncles
           /\ [Next]_vars
           => CountsUncles'
<1> SUFFICES ASSUME TypeInv, FollowsBuried, RememberedAreReal, FirstLife, CountsUncles,
                    [Next]_vars
             PROVE  CountsUncles'
    OBVIOUS
<1>1. TypeInv'
      BY TypeInvStep
<1>2. CASE UNCHANGED vars
  <2>1. UNCHANGED <<pc, task, outbox, log, crashes, nodeVars>>
        BY <1>2 DEF vars
  <2>2. RowsIn(CountedRows)'
        BY <2>1, CountedKept DEF CountsUncles, RowsIn
  <2>3. QED BY <2>1, <2>2 DEF CountsUncles, Analyzing, task, nodeVars
<1>3. QED BY <1>1, <1>2, CountsOther, CountsReadParent, CountsAnalyzeEpoch, CountsLog,
             CountsNodeMoves
          DEF Next, Analyze

LEMMA CountsImplies == CountsUncles => EpochNeverOvercounts
<1> SUFFICES ASSUME CountsUncles PROVE EpochNeverOvercounts
    OBVIOUS
<1>1. History \in Seq(CountedRows) /\ doubtful \subseteq Seq(CountedRows)
      BY HistoryType DEF CountsUncles, RowsIn
<1>2. ASSUME NEW s \in Seq(CountedRows) PROVE ToSet(s) \subseteq CountedRows
      BY DEF ToSet
<1>3. Recorded \subseteq CountedRows
      BY <1>1, <1>2 DEF Recorded
<1>4. QED BY <1>3 DEF EpochNeverOvercounts, CountedRows

(* For a mature chain no epoch is recorded with more uncles than its       *)
(* blocks have, through any number of restarts, panics and                 *)
(* reorganisations: no uncle is counted twice, and none of the next epoch. *)
THEOREM EpochsAreNotOvercounted ==
    ASSUME MatureChain PROVE Spec => []EpochNeverOvercounts
<1> DEFINE Inv == TypeInv /\ FollowsBuried /\ RememberedAreReal /\ FirstLife /\ CountsUncles
<1>1. Init => Inv
      BY TypeInvInit, FollowsInit, RealInit, FirstInit, CountsInit
<1>2. Inv /\ [Next]_vars => Inv'
      BY TypeInvStep, FollowsStep, RealStep, FirstStep, CountsStep
<1>3. Inv => EpochNeverOvercounts
      BY CountsImplies
<1>4. QED BY <1>1, <1>2, <1>3, PTL DEF Spec

(***************************************************************************)
(* In the first life of the process every epoch is reported once.          *)
(***************************************************************************)

EpochsOnce ==
    crashes = 0 =>
        \A e \in 0..MaxTip + 1 :
            IF e < EpochOf(number - 1) THEN \E i \in DOMAIN History : Places("epoch", e) = {i}
                                       ELSE Places("epoch", e) = {}

LEMMA OnceInit == Init => EpochsOnce
<1> SUFFICES ASSUME Init PROVE EpochsOnce
    OBVIOUS
<1>1. History = <<>> /\ number = 1
      BY ConcatEmptySeq, EmptySeq DEF Init, Log!Init, History
<1>2. \A e : Places("epoch", e) = {}
      BY <1>1 DEF Places
<1>3. EpochOf(number - 1) = 0
      BY <1>1, EpochSteps
<1>4. QED BY <1>2, <1>3 DEF EpochsOnce

LEMMA OnceStep ==
    TypeInv /\ FirstLife /\ CountsUncles /\ EpochsOnce /\ [Next]_vars
        => EpochsOnce'
<1> SUFFICES ASSUME TypeInv, FirstLife, CountsUncles, EpochsOnce, [Next]_vars,
                    crashes' = 0,
                    NEW e \in 0..MaxTip + 1
             PROVE  IF e < EpochOf(number' - 1)
                    THEN \E i \in DOMAIN History' : Places("epoch", e)' = {i}
                    ELSE Places("epoch", e)' = {}
    BY DEF EpochsOnce
<1> USE NodeAssumption, FollowerAssumption
<1>1. /\ IF e < EpochOf(number - 1) THEN \E i \in DOMAIN History : Places("epoch", e) = {i}
                                     ELSE Places("epoch", e) = {}
      /\ RowsIn(Rows) /\ ~Settle /\ ~Crash /\ (Start => number' = number)
  <2>1. crashes = 0 /\ ~Settle /\ ~Crash /\ (Start => number' = number)
        BY FirstSteps
  <2>2. RowsIn(Rows)
        BY DEF TypeInv, TypeOK
  <2>3. QED BY <2>1, <2>2 DEF EpochsOnce
<1>2. ASSUME History' = History, number' = number
      PROVE  IF e < EpochOf(number' - 1)
             THEN \E i \in DOMAIN History' : Places("epoch", e)' = {i}
             ELSE Places("epoch", e)' = {}
      BY <1>1, <1>2, PlacesStay
<1>3. ASSUME NEW row, row.table # "epoch", outbox' = <<row>>, outbox = <<>>, UNCHANGED log,
             number' = number
      PROVE  IF e < EpochOf(number' - 1)
             THEN \E i \in DOMAIN History' : Places("epoch", e)' = {i}
             ELSE Places("epoch", e)' = {}
  <2>1. History' = Append(History, row)
        BY <1>1, <1>3, HistoryGrows
  <2>2. Places("epoch", e)' = Places("epoch", e)
        BY <1>1, <1>3, <2>1, PlacesGrow
  <2>3. DOMAIN History \subseteq DOMAIN History'
        BY <1>1, <2>1, HistoryType
  <2>4. QED BY <1>1, <1>3, <2>2, <2>3
<1>4. CASE Start
  <2>1. UNCHANGED <<log, outbox>>
        BY <1>4 DEF Start
  <2>2. QED BY <1>1, <1>2, <1>4, <2>1, HistoryStays
<1>5. CASE ReadTip \/ ReadParent \/ Refresh \/ AnalyzeTransactions \/ PruneZones
  <2>1. UNCHANGED <<log, outbox, number>>
        BY <1>5 DEF ReadTip, ReadParent, Refresh, AnalyzeTransactions, PruneZones
  <2>2. QED BY <1>2, <2>1, HistoryStays
<1>6. CASE AnalyzeBlock
      BY <1>3, <1>6 DEF AnalyzeBlock, BlockRow
<1>7. CASE AnalyzeUncle
      BY <1>3, <1>7 DEF AnalyzeUncle, UncleRow
<1>8. CASE AnalyzeTransaction
  <2>1. /\ outbox = <<>> /\ UNCHANGED <<log, number>>
        /\ \/ outbox' = outbox
           \/ \E m \in Zones(Head(left)) : outbox' = <<CommitRow(number, number - m)>>
        BY <1>8, Zenon DEF AnalyzeTransaction
  <2>2. \A m : CommitRow(number, number - m).table # "epoch"
        BY DEF CommitRow
  <2>3. CASE outbox' = outbox
        BY <1>2, <2>1, <2>3, HistoryStays
  <2>4. ASSUME NEW m, outbox' = <<CommitRow(number, number - m)>>
        PROVE  IF e < EpochOf(number' - 1)
               THEN \E i \in DOMAIN History' : Places("epoch", e)' = {i}
               ELSE Places("epoch", e)' = {}
        BY <1>3, <2>1, <2>2, <2>4
  <2>5. QED BY <2>1, <2>3, <2>4
<1>9. CASE AnalyzeEpoch
  <2> DEFINE row == EpochRow(epoch, uncles)
  <2>1. /\ pc = "epoch" /\ Analyzing /\ number' = number + 1 /\ outbox = <<>>
        /\ outbox' = IF epoch # EpochOf(number) THEN <<row>> ELSE <<>>
        /\ UNCHANGED log
        BY <1>9 DEF AnalyzeEpoch, Analyzing
  <2>2. number \in Nat /\ number - 1 \in Nat /\ (number - 1) + 1 = number /\ number' - 1 = number
        BY <2>1, NumberTypes
  <2>3. epoch = EpochOf(number - 1)
        BY <2>1 DEF CountsUncles
  <2>4. /\ epoch \in Nat /\ (EpochOf(number) = epoch \/ EpochOf(number) = epoch + 1)
        BY <2>2, <2>3, EpochSteps
  <2>5. CASE epoch = EpochOf(number)
    <3>1. History' = History
          BY <2>1, <2>5, HistoryStays
    <3>2. QED BY <1>1, <2>2, <2>3, <2>5, <3>1, PlacesStay
  <2>6. CASE epoch # EpochOf(number)
    <3>1. row.table = "epoch" /\ row.number = epoch
          BY DEF EpochRow
    <3> HIDE DEF row
    <3>2. History' = Append(History, row)
          BY <1>1, <2>1, <2>6, HistoryGrows
    <3>3. Places("epoch", e)' = IF epoch = e THEN Places("epoch", e) \cup {Len(History) + 1}
                                             ELSE Places("epoch", e)
          BY <1>1, <3>1, <3>2, PlacesGrow
    <3>4. /\ DOMAIN History \subseteq DOMAIN History'
          /\ Len(History) + 1 \in DOMAIN History'
          BY <1>1, <3>2, HistoryType
    <3>5. EpochOf(number' - 1) = epoch + 1
          BY <2>2, <2>4, <2>6
    <3>6. CASE epoch = e
          BY <1>1, <2>3, <2>4, <3>3, <3>4, <3>5, <3>6
    <3>7. CASE epoch # e
      <4>1. e < epoch <=> e < EpochOf(number' - 1)
            BY <2>4, <3>5, <3>7
      <4>2. QED BY <1>1, <2>3, <3>3, <3>4, <3>7, <4>1
    <3>8. QED BY <3>6, <3>7
  <2>7. QED BY <2>5, <2>6
<1>10. CASE Send \/ Persist
  <2>1. UNCHANGED number
        BY <1>10 DEF Send, Persist, task
  <2>2. QED BY <1>1, <1>2, <1>10, <2>1, HistoryMoves
<1>11. CASE CallPanics
  <2>1. UNCHANGED <<log, outbox, number>>
        BY <1>11 DEF CallPanics, task
  <2>2. QED BY <1>2, <2>1, HistoryStays
<1>12. CASE NodeMoves \/ UNCHANGED vars
  <2>1. UNCHANGED <<number, outbox, log>>
        BY <1>12 DEF NodeMoves, vars, task
  <2>2. QED BY <1>2, <2>1, HistoryStays
<1>13. QED BY <1>1, <1>4, <1>5, <1>6, <1>7, <1>8, <1>9, <1>10, <1>11, <1>12
          DEF Next, Analyze

LEMMA OnceImplies == TypeInv /\ CountsUncles /\ EpochsOnce => EpochUnclesExact
<1> SUFFICES ASSUME TypeInv, CountsUncles, EpochsOnce, crashes = 0, NEW e \in 0..EpochOf(number)
             PROVE  IF e < EpochOf(number - 1)
                    THEN \E i \in DOMAIN History : /\ Places("epoch", e) = {i}
                                                   /\ History[i] = EpochRow(e, UnclesOf(e))
                    ELSE Places("epoch", e) = {}
    BY DEF EpochUnclesExact
<1> USE NodeAssumption, FollowerAssumption
<1>1. number \in 0..MaxTip + 1
      BY NumberTypes
<1>2. EpochOf(number) \in 0..MaxTip + 1
      BY <1>1 DEF EpochOf
<1>3. e \in 0..MaxTip + 1
      BY <1>2
<1>4. IF e < EpochOf(number - 1) THEN \E i \in DOMAIN History : Places("epoch", e) = {i}
                                 ELSE Places("epoch", e) = {}
      BY <1>3 DEF EpochsOnce
<1>5. ASSUME NEW i \in DOMAIN History, Places("epoch", e) = {i}
      PROVE  History[i] = EpochRow(e, UnclesOf(e))
  <2>1. History[i].table = "epoch" /\ History[i].number = e
        BY <1>5 DEF Places
  <2>2. History[i] \in CountedRows
        BY HistoryType DEF CountsUncles
  <2>3. History[i] \in Rows /\ History[i].uncles = UnclesOf(e)
        BY <2>1, <2>2 DEF CountedRows
  <2>4. History[i] \in [table : {"epoch"}, number : Nat, uncles : Nat]
        BY <2>1, <2>3 DEF Rows
  <2>5. QED BY <2>1, <2>3, <2>4 DEF EpochRow
<1>6. QED BY <1>4, <1>5

(* On a mature chain every epoch that the task has left has exactly one    *)
(* row until the process ends, and its total is the number of uncles in    *)
(* the blocks of the epoch, whatever is reorganised meanwhile.             *)
THEOREM EpochsAreExact ==
    ASSUME MatureChain PROVE Spec => []EpochUnclesExact
<1> DEFINE Inv == /\ TypeInv /\ FollowsBuried /\ RememberedAreReal
                  /\ FirstLife /\ CountsUncles /\ EpochsOnce
<1>1. Init => Inv
      BY TypeInvInit, FollowsInit, RealInit, FirstInit, CountsInit, OnceInit
<1>2. Inv /\ [Next]_vars => Inv'
      BY TypeInvStep, FollowsStep, RealStep, FirstStep, CountsStep, OnceStep
<1>3. Inv => EpochUnclesExact
      BY OnceImplies
<1>4. QED BY <1>1, <1>2, <1>3, PTL DEF Spec
=============================================================================

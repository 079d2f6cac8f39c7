------------------------- MODULE TxTransitionProofs -------------------------
(***************************************************************************)
(* Theorems about TxTransition, for any set of transactions and whatever   *)
(* the node makes of them: a verdict finds the row it is about, undecided.  *)
(***************************************************************************)
EXTENDS TxTransition, SequenceTheorems, FiniteSetTheorems, TLAPS

USE DEF Messages!Take, Messages!Put, Messages!Cut

RowType == [tx : Txs, commit_time : BOOLEAN, remove_time : BOOLEAN]

(***************************************************************************)
(* Type correctness.                                                       *)
(***************************************************************************)

LEMMA AtMostOne ==
    ASSUME NEW T
    PROVE  Cardinality({}) <= 1 /\ \A t \in T : Cardinality({t}) <= 1
<1>1. Cardinality({}) = 0
      BY FS_EmptySet
<1>2. ASSUME NEW t \in T PROVE Cardinality({t}) = 1
      BY FS_Singleton
<1>3. QED BY <1>1, <1>2

LEMMA TypeInit == Init => TypeOK
<1> SUFFICES ASSUME Init PROVE TypeOK
    OBVIOUS
<1>1. /\ 0 \in 0..SUSPEND_SECONDS + 1 /\ 0 \in 0..CheckInterval
      /\ 0 \in 0..MaxSubmits /\ 0 \in 0..MaxCommits
      BY TxTransitionAssumption
<1>2. <<>> \in Seq(Txs) /\ <<>> \in Seq(RowType)
      BY EmptySeq
<1>3. QED BY <1>1, <1>2, AtMostOne DEF Init, TypeOK, RowType, Messages!Init

LEMMA TypeNode ==
    TypeOK /\ ((\E t \in Txs : Submit(t) \/ Commit(t) \/ Drop(t) \/ Detach(t)) \/ Disconnect)
    => TypeOK'
<1> SUFFICES ASSUME TypeOK PROVE
      (\E t \in Txs : Submit(t) \/ Commit(t) \/ Drop(t) \/ Detach(t)) \/ Disconnect => TypeOK'
    OBVIOUS
<1> USE TxTransitionAssumption
<1>1. ASSUME NEW t \in Txs, Submit(t) PROVE TypeOK'
  <2>1. submits' \in 0..MaxSubmits
        BY <1>1 DEF Submit, TypeOK
  <2>2. pending' \in Seq(Txs) /\ taken' = taken /\ open' = open
    <3>1. pending \in Seq(Txs)
          BY DEF TypeOK
    <3>2. pending' = Append(pending, t) \/ pending' = pending
          BY <1>1 DEF Submit, pipe
    <3>3. taken' = taken /\ open' = open
          BY <1>1 DEF Submit, pipe
    <3>4. QED BY <3>1, <3>2, <3>3, AppendProperties
  <2>3. status' \in [Txs -> {"unknown", "pool", "committed"}]
        BY <1>1 DEF Submit, TypeOK
  <2>4. QED BY <1>1, <2>1, <2>2, <2>3 DEF Submit, TypeOK
<1>2. ASSUME NEW t \in Txs, Commit(t) \/ Drop(t) \/ Detach(t) PROVE TypeOK'
  <2>1. commits' \in 0..MaxCommits
        BY <1>2 DEF Commit, Drop, Detach, TypeOK
  <2>2. status' \in [Txs -> {"unknown", "pool", "committed"}]
        BY <1>2 DEF Commit, Drop, Detach, TypeOK
  <2>3. attached' \in BOOLEAN
        BY <1>2 DEF Commit, Drop, Detach, TypeOK
  <2>4. UNCHANGED <<submits, pipe, pc, entries, age, lastChecking, toCheck, tx, table>>
        BY <1>2 DEF Commit, Drop, Detach
  <2>5. QED BY <2>1, <2>2, <2>3, <2>4 DEF TypeOK, pipe
<1>3. ASSUME Disconnect PROVE TypeOK'
  <2>1. PICK n \in 0..Len(pending) : pending' = SubSeq(pending, 1, n)
        BY <1>3 DEF Disconnect
  <2>2. pending \in Seq(Txs) /\ n \in Int /\ 1 \in Int /\ Len(pending) \in Nat
        BY LenProperties DEF TypeOK
  <2>3. \A i \in 1..n : pending[i] \in Txs
        BY <2>2, ElementOfSeq
  <2>4. pending' \in Seq(Txs)
        BY <2>1, <2>2, <2>3, SubSeqProperties
  <2>5. QED BY <1>3, <2>4 DEF Disconnect, TypeOK, node
<1>4. QED BY <1>1, <1>2, <1>3

LEMMA TypeTick == TypeOK /\ Tick => TypeOK'
<1> SUFFICES ASSUME TypeOK, Tick PROVE TypeOK'
    OBVIOUS
<1>1. \A n \in Nat, limit \in Nat : AtMost(n, limit) \in 0..limit
      BY DEF AtMost
<1>2. age' \in [Txs -> 0..SUSPEND_SECONDS + 1]
  <2>1. ASSUME NEW t \in Txs
        PROVE  AtMost(age[t] + 1, SUSPEND_SECONDS + 1) \in 0..SUSPEND_SECONDS + 1
    <3>1. age[t] + 1 \in Nat /\ SUSPEND_SECONDS + 1 \in Nat
          BY TxTransitionAssumption DEF TypeOK
    <3>2. QED BY <1>1, <3>1
  <2>2. QED BY <2>1 DEF Tick
<1>3. lastChecking' \in 0..CheckInterval
  <2>1. lastChecking + 1 \in Nat /\ CheckInterval \in Nat
        BY TxTransitionAssumption DEF TypeOK
  <2>2. QED BY <1>1, <2>1 DEF Tick
<1>4. QED BY <1>2, <1>3 DEF Tick, TypeOK, node, pipe

(* The next message, and what is left.                                     *)
LEMMA TakeType ==
    ASSUME TypeOK, Messages!Take
    PROVE  /\ Head(pending) \in Txs /\ pending' \in Seq(Txs) /\ taken' \in Seq(Txs)
           /\ open' = open
<1>1. pending \in Seq(Txs) /\ taken \in Seq(Txs) /\ pending # <<>>
      BY DEF TypeOK
<1>2. Head(pending) \in Txs /\ Tail(pending) \in Seq(Txs)
      BY <1>1, HeadTailProperties
<1>3. taken' \in Seq(Txs)
      BY <1>1, <1>2, AppendProperties
<1>4. QED BY <1>2, <1>3

(* A row is appended.                                                      *)
RowOf(t) ==
    /\ Len(table') = Len(table) + 1 /\ Len(table) \in Nat
    /\ \A i \in 1..Len(table) : table'[i] = table[i]
    /\ table'[Len(table) + 1] = Row(t)

LEMMA RowAppended ==
    ASSUME TypeOK, NEW t \in Txs, table' = Append(table, Row(t))
    PROVE  RowOf(t) /\ table' \in Seq(RowType)
<1> DEFINE r == Row(t)
<1>1. r \in RowType /\ table \in Seq(RowType)
      BY DEF Row, RowType, TypeOK
<1>2. table' = Append(table, r)
      OBVIOUS
<1> HIDE DEF r
<1>3. table' \in Seq(RowType) /\ Len(table') = Len(table) + 1 /\ Len(table) \in Nat
      /\ \A i \in 1..Len(table) : table'[i] = table[i]
      /\ table'[Len(table) + 1] = r
      BY <1>1, <1>2, AppendProperties, LenProperties
<1>4. QED BY <1>3 DEF RowOf, r

(* The rows of a transaction are updated, the others are as they were.     *)
UpdateOf(t) ==
    /\ Len(table') = Len(table) /\ Len(table) \in Nat
    /\ \A i \in 1..Len(table) : table'[i].tx = table[i].tx
    /\ \A i \in 1..Len(table) : (table[i].tx # t) => (table'[i] = table[i])

LEMMA RowsUpdated ==
    ASSUME TypeOK, NEW t \in Txs, table' = SetCommitTime(t) \/ table' = SetRemoveTime(t)
    PROVE  UpdateOf(t) /\ table' \in Seq(RowType)
<1>1. table \in Seq(RowType)
      BY DEF TypeOK, RowType
<1>2. /\ Len(table) \in Nat /\ DOMAIN table = 1..Len(table)
      /\ \A i \in 1..Len(table) : table[i] \in RowType
      BY <1>1, LenProperties, ElementOfSeq
<1>3. /\ DOMAIN table' = 1..Len(table) /\ table' = [i \in 1..Len(table) |-> table'[i]]
      /\ \A i \in 1..Len(table) : table'[i] \in RowType /\ table'[i].tx = table[i].tx
      /\ \A i \in 1..Len(table) : (table[i].tx # t) => (table'[i] = table[i])
      BY <1>2 DEF SetCommitTime, SetRemoveTime, RowType
<1>4. table' \in Seq(RowType)
      BY <1>2, <1>3, IsASeq
<1>5. Len(table') = Len(table)
      BY <1>2, <1>3, <1>4, LenProperties
<1>6. QED BY <1>2, <1>3, <1>4, <1>5 DEF UpdateOf

(* Transactions are being checked only in check, and at most one is in     *)
(* work, which is neither waiting nor still to be checked.                 *)
Stages ==
    /\ pc \in {"polling", "report_enter", "ended"} => toCheck = {}
    /\ pc \in {"polling", "checking", "ended"} => tx = {}
    /\ toCheck \cap tx = {}

LEMMA TypeReceive ==
    TypeOK /\ Stages /\ (Receive \/ Ignore \/ ReportEnter \/ End) => TypeOK' /\ Stages'
<1> SUFFICES ASSUME TypeOK, Stages, Receive \/ Ignore \/ ReportEnter \/ End
             PROVE  TypeOK' /\ Stages'
    OBVIOUS
<1>1. CASE Receive
  <2>1. /\ Head(pending) \in Txs /\ pending' \in Seq(Txs) /\ taken' \in Seq(Txs)
        /\ open' = open
        BY <1>1, TakeType DEF Receive
  <2>2. age' \in [Txs -> 0..SUSPEND_SECONDS + 1]
        BY <1>1, <2>1, TxTransitionAssumption DEF Receive, TypeOK
  <2>3. tx' \subseteq Txs /\ entries \cap tx' = {} /\ toCheck = {}
        BY <1>1, <2>1 DEF Receive, Stages
  <2>4. Cardinality(tx') <= 1
        BY <1>1, <2>1, AtMostOne DEF Receive
  <2>5. TypeOK'
        BY <1>1, <2>1, <2>2, <2>3, <2>4 DEF Receive, TypeOK, node
  <2>6. QED BY <1>1, <2>3, <2>5 DEF Receive, Stages
<1>2. CASE Ignore
      BY <1>2, TakeType DEF Ignore, TypeOK, Stages, node
<1>3. CASE ReportEnter
  <2>1. PICK t \in tx : table' = Append(table, Row(t)) /\ entries' = entries \cup {t}
        BY <1>3 DEF ReportEnter
  <2>2. t \in Txs /\ entries' \subseteq Txs /\ toCheck = {}
        BY <1>3, <2>1 DEF ReportEnter, TypeOK, Stages
  <2>3. table' \in Seq(RowType)
        BY <2>1, <2>2, RowAppended
  <2>4. tx' = {} /\ entries' \cap (toCheck' \cup tx') = {}
        BY <1>3, <2>2 DEF ReportEnter
  <2>5. Cardinality(tx') <= 1
        BY <2>4, AtMostOne
  <2>6. TypeOK'
        BY <1>3, <2>2, <2>3, <2>4, <2>5 DEF ReportEnter, TypeOK, node, pipe, RowType
  <2>7. QED BY <1>3, <2>2, <2>4, <2>6 DEF ReportEnter, Stages
<1>4. CASE End
      BY <1>4 DEF End, TypeOK, Stages, node, pipe
<1>5. QED BY <1>1, <1>2, <1>3, <1>4

LEMMA TypeCheck ==
    TypeOK /\ Stages /\ (Check \/ CheckEntry \/ Checked) => TypeOK' /\ Stages'
<1> SUFFICES ASSUME TypeOK, Stages, Check \/ CheckEntry \/ Checked
             PROVE  TypeOK' /\ Stages'
    OBVIOUS
<1>1. CASE Check
  <2>1. Overdue \subseteq entries /\ tx = {}
        BY <1>1 DEF Overdue, Check, Stages
  <2>2. /\ entries' \subseteq Txs /\ toCheck' \subseteq Txs
        /\ entries' \cap (toCheck' \cup tx') = {}
        BY <1>1, <2>1 DEF Check, TypeOK
  <2>3. TypeOK'
        BY <1>1, <2>2 DEF Check, TypeOK, node, pipe
  <2>4. QED BY <1>1, <2>1, <2>3 DEF Check, Stages
<1>2. CASE CheckEntry
  <2>1. PICK t \in toCheck :
            /\ toCheck' = toCheck \ {t}
            /\ \/ pc' \in {"get_header", "report_remove"} /\ tx' = {t}
                  /\ attached' \in {TRUE, attached}
               \/ UNCHANGED <<pc, tx, attached>>
        BY <1>2 DEF CheckEntry
  <2>2. /\ t \in Txs /\ t \notin entries /\ tx = {} /\ pc = "checking"
        /\ UNCHANGED <<status, submits, commits, pending, taken, open, entries, age,
                       lastChecking, table>>
        BY <1>2, <2>1 DEF CheckEntry, Stages, TypeOK, node, pipe
  <2>3. /\ tx' \subseteq Txs /\ toCheck' \subseteq Txs /\ attached' \in BOOLEAN
        /\ entries' \cap (toCheck' \cup tx') = {} /\ toCheck' \cap tx' = {}
        BY <2>1, <2>2 DEF TypeOK
  <2>4. Cardinality(tx') <= 1
        BY <2>1, <2>2, AtMostOne DEF TypeOK
  <2>5. TypeOK'
        BY <2>1, <2>2, <2>3, <2>4 DEF TypeOK
  <2>6. QED BY <2>1, <2>2, <2>3, <2>5 DEF Stages
<1>3. CASE Checked
  <2>1. lastChecking' \in 0..CheckInterval
        BY <1>3, TxTransitionAssumption DEF Checked
  <2>2. QED BY <1>3, <2>1 DEF Checked, TypeOK, Stages, node, pipe
<1>4. QED BY <1>1, <1>2, <1>3

LEMMA TypeReport ==
    TypeOK /\ Stages
    /\ (GetHeader \/ HeaderIsGone \/ ReportCommit \/ ReportRemove \/ CallPanics)
    => TypeOK' /\ Stages'
<1> SUFFICES ASSUME TypeOK, Stages,
                    GetHeader \/ HeaderIsGone \/ ReportCommit \/ ReportRemove \/ CallPanics
             PROVE  TypeOK' /\ Stages'
    OBVIOUS
<1>1. CASE GetHeader
      BY <1>1 DEF GetHeader, TypeOK, Stages, node, pipe
<1>2. CASE HeaderIsGone
      BY <1>2, AtMostOne DEF HeaderIsGone, TypeOK, Stages, node, pipe
<1>3. CASE ReportCommit \/ ReportRemove
  <2>1. PICK t \in tx : table' = SetCommitTime(t) \/ table' = SetRemoveTime(t)
        BY <1>3 DEF ReportCommit, ReportRemove
  <2>2. t \in Txs /\ table' \in Seq(RowType)
        BY <2>1, RowsUpdated DEF TypeOK
  <2>3. /\ pc' = "checking" /\ tx' = {} /\ attached' \in BOOLEAN
        /\ UNCHANGED <<node, pipe, entries, age, lastChecking, toCheck>>
        BY <1>3 DEF ReportCommit, ReportRemove, TypeOK
  <2>4. Cardinality(tx') <= 1
        BY <2>3, AtMostOne
  <2>5. TypeOK'
        BY <2>2, <2>3, <2>4 DEF TypeOK, RowType, node, pipe
  <2>6. QED BY <2>3, <2>5 DEF Stages
<1>4. CASE CallPanics
  <2>1. pending' \in Seq(Txs)
        BY <1>4, EmptySeq DEF CallPanics
  <2>2. QED BY <1>4, <2>1 DEF CallPanics, TypeOK, Stages, node
<1>5. QED BY <1>1, <1>2, <1>3, <1>4

LEMMA StagesOthers ==
    TypeOK /\ Stages
    /\ ((\E t \in Txs : Submit(t) \/ Commit(t) \/ Drop(t) \/ Detach(t)) \/ Disconnect \/ Tick)
    => Stages'
BY DEF Stages, Submit, Commit, Drop, Detach, Disconnect, Tick

LEMMA TypeStep == TypeOK /\ Stages /\ [Next]_vars => TypeOK' /\ Stages'
<1>1. TypeOK /\ Stages /\ UNCHANGED vars => TypeOK' /\ Stages'
      BY DEF TypeOK, Stages, vars, node, pipe
<1>2. QED
      BY <1>1, TypeNode, TypeTick, StagesOthers, TypeReceive, TypeCheck, TypeReport
      DEF Next, Handler

LEMMA StagesInit == Init => Stages
BY DEF Init, Stages

(* A transaction is waiting, or is due or in work, never both: the check   *)
(* takes out what it looks at (tx_transition.rs:101).                      *)
THEOREM TransitionTypeCorrect == Spec => []TypeOK
BY TypeInit, StagesInit, TypeStep, PTL DEF Spec

(***************************************************************************)
(* Verdicts.                                                               *)
(***************************************************************************)

(* What waits, is due or in check has a row of its own life, undecided.    *)
Undecided ==
    \A t \in entries \cup toCheck \cup tx :
        \/ pc = "report_enter" /\ t \in tx
        \/ Awaits(t)

Inv == TypeOK /\ Stages /\ Undecided

LEMMA RowsAre ==
    TypeOK => DOMAIN table = 1..Len(table) /\ Len(table) \in Nat
BY LenProperties DEF TypeOK

(* Insert and update of a transaction leave the newest rows of the others. *)
LEMMA OthersAwait ==
    ASSUME TypeOK, TypeOK', NEW t \in Txs, RowOf(t) \/ UpdateOf(t),
           NEW u \in Txs, u # t, Awaits(u)
    PROVE  Awaits(u)'
<1> DEFINE n == Len(table)
           m == Len(table')
<1>1. DOMAIN table = 1..n /\ DOMAIN table' = 1..m /\ n \in Nat /\ m \in Nat
      BY RowsAre
<1>2. PICK i \in 1..n :
          /\ table[i].tx = u /\ \A j \in 1..n : i < j => table[j].tx # u
          /\ ~table[i].commit_time /\ ~table[i].remove_time
      BY <1>1 DEF Awaits, Newest
<1>3. n <= m /\ \A j \in n + 1..m : table'[j].tx = t
  <2>1. CASE RowOf(t)
    <3>1. m = n + 1 /\ table'[m].tx = t
          BY <2>1 DEF RowOf, Row
    <3>2. QED BY <1>1, <3>1
  <2>2. CASE UpdateOf(t)
    <3>1. m = n
          BY <2>2 DEF UpdateOf
    <3>2. QED BY <1>1, <3>1
  <2>3. QED BY <2>1, <2>2
<1>4. \A j \in 1..n : table'[j].tx = table[j].tx
  <2>1. CASE RowOf(t)
        BY <2>1 DEF RowOf
  <2>2. CASE UpdateOf(t)
        BY <2>2 DEF UpdateOf
  <2>3. QED BY <2>1, <2>2
<1>5. table'[i] = table[i]
  <2>1. CASE RowOf(t)
        BY <2>1 DEF RowOf
  <2>2. CASE UpdateOf(t)
        BY <1>2, <2>2 DEF UpdateOf
  <2>3. QED BY <2>1, <2>2
<1> HIDE DEF n, m
<1>6. ASSUME NEW j \in 1..m, i < j PROVE table'[j].tx # u
  <2>1. CASE j \in 1..n
        BY <1>2, <1>4, <1>6, <2>1
  <2>2. CASE j \notin 1..n
    <3>1. j \in n + 1..m
          BY <1>1, <2>2
    <3>2. QED BY <1>3, <3>1
  <2>3. QED BY <2>1, <2>2
<1>7. i \in 1..m
      BY <1>1, <1>3
<1>8. QED BY <1>1, <1>2, <1>5, <1>6, <1>7 DEF Awaits, Newest

LEMMA EnteredAwaits ==
    ASSUME TypeOK, TypeOK', NEW t \in Txs, RowOf(t)
    PROVE  Awaits(t)'
<1>1. /\ DOMAIN table' = 1..Len(table) + 1 /\ Len(table) + 1 \in DOMAIN table'
      /\ table'[Len(table) + 1] = Row(t)
      BY RowsAre DEF RowOf
<1>2. \A j \in DOMAIN table' : ~(Len(table) + 1 < j)
      BY <1>1, RowsAre
<1>3. QED BY <1>1, <1>2 DEF Awaits, Newest, Row

LEMMA InvReportEnter ==
    ASSUME Inv, TypeOK', ReportEnter
    PROVE  Undecided'
<1>1. PICK t \in tx : table' = Append(table, Row(t)) /\ entries' = entries \cup {t}
      BY DEF ReportEnter
<1>2. t \in Txs /\ toCheck' = {} /\ tx' = {} /\ t \notin entries /\ entries \cap tx = {}
      BY <1>1 DEF ReportEnter, Inv, TypeOK, Stages
<1>3. RowOf(t)
      BY <1>1, <1>2, RowAppended DEF Inv
<1>4. ASSUME NEW u \in entries PROVE Awaits(u)'
  <2>1. u \in Txs /\ u # t /\ Awaits(u)
        BY <1>1, <1>2 DEF Inv, Undecided, TypeOK
  <2>2. QED BY <1>2, <1>3, <2>1, OthersAwait DEF Inv
<1>5. Awaits(t)'
      BY <1>2, <1>3, EnteredAwaits DEF Inv
<1>6. QED BY <1>1, <1>2, <1>4, <1>5 DEF Undecided

LEMMA InvVerdict ==
    ASSUME Inv, TypeOK', ReportCommit \/ ReportRemove
    PROVE  Undecided'
<1>1. PICK t \in tx : table' = SetCommitTime(t) \/ table' = SetRemoveTime(t)
      BY DEF ReportCommit, ReportRemove
<1>2. /\ t \in Txs /\ pc # "report_enter" /\ tx' = {}
      /\ UNCHANGED <<entries, toCheck>> /\ t \notin entries /\ t \notin toCheck
      BY <1>1 DEF ReportCommit, ReportRemove, Inv, TypeOK, Stages
<1>3. UpdateOf(t)
      BY <1>1, <1>2, RowsUpdated DEF Inv
<1>4. ASSUME NEW u \in entries' \cup toCheck' PROVE Awaits(u)'
  <2>1. u \in entries \cup toCheck /\ u \in Txs /\ u # t
        BY <1>2 DEF Inv, TypeOK
  <2>2. Awaits(u)
        BY <1>2, <2>1 DEF Inv, Undecided
  <2>3. QED BY <1>2, <1>3, <2>1, <2>2, OthersAwait DEF Inv
<1>5. QED BY <1>2, <1>4 DEF Undecided

(* No row changes, and what is undecided was so before, or is to enter.    *)
LEMMA InvOthers ==
    ASSUME Inv, UNCHANGED table,
           \A t \in entries' \cup toCheck' \cup tx' :
               \/ pc' = "report_enter" /\ t \in tx'
               \/ pc # "report_enter" /\ t \in entries \cup toCheck \cup tx
               \/ t \in entries \cup toCheck
    PROVE  Undecided'
<1>1. ASSUME NEW t \in entries \cup toCheck \cup tx,
             pc # "report_enter" \/ t \in entries \cup toCheck
      PROVE  Awaits(t)'
  <2>1. ~(pc = "report_enter" /\ t \in tx)
        BY <1>1 DEF Inv, TypeOK, Stages
  <2>2. Awaits(t)
        BY <2>1 DEF Inv, Undecided
  <2>3. QED BY <2>2 DEF Awaits, Newest
<1>2. QED BY <1>1 DEF Undecided

LEMMA InvStep == Inv /\ [Next]_vars => Inv'
<1> SUFFICES ASSUME Inv, [Next]_vars PROVE Inv'
    OBVIOUS
<1>1. TypeOK' /\ Stages'
      BY TypeStep DEF Inv
<1>2. CASE ReportEnter
      BY <1>1, <1>2, InvReportEnter DEF Inv
<1>3. CASE ReportCommit \/ ReportRemove
      BY <1>1, <1>3, InvVerdict DEF Inv
<1>4. CASE (\E t \in Txs : Submit(t) \/ Commit(t) \/ Drop(t) \/ Detach(t)) \/ Disconnect
           \/ Tick \/ Ignore \/ End \/ GetHeader \/ Checked \/ UNCHANGED vars
  <2>1. UNCHANGED <<table, entries, toCheck, tx>>
        /\ (pc = "report_enter" => pc' = "report_enter")
        BY <1>4 DEF Submit, Commit, Drop, Detach, Disconnect, Tick, Ignore, End, GetHeader,
           Checked, vars
  <2>2. QED BY <1>1, <2>1, InvOthers DEF Inv
<1>5. CASE Receive
  <2>1. UNCHANGED <<table, entries, toCheck>> /\ pc' = "report_enter"
        BY <1>5 DEF Receive
  <2>2. QED BY <1>1, <2>1, InvOthers DEF Inv
<1>6. CASE Check
  <2>1. /\ UNCHANGED <<table, tx>> /\ pc # "report_enter"
        /\ entries' \cup toCheck' \subseteq entries
        BY <1>6 DEF Check, Overdue
  <2>2. QED BY <1>1, <2>1, InvOthers DEF Inv
<1>7. CASE CheckEntry
  <2>1. /\ UNCHANGED <<table, entries>> /\ pc # "report_enter"
        /\ toCheck' \cup tx' \subseteq toCheck \cup tx
        BY <1>7 DEF CheckEntry
  <2>2. QED BY <1>1, <2>1, InvOthers DEF Inv
<1>8. CASE HeaderIsGone
  <2>1. UNCHANGED <<table, entries, toCheck>> /\ tx' = {}
        BY <1>8 DEF HeaderIsGone
  <2>2. QED BY <1>1, <2>1, InvOthers DEF Inv
<1>9. CASE CallPanics
  <2>1. UNCHANGED <<table, entries, toCheck, tx>> /\ pc # "report_enter"
        BY <1>9 DEF CallPanics
  <2>2. QED BY <1>1, <2>1, InvOthers DEF Inv
<1>10. QED
      BY <1>2, <1>3, <1>4, <1>5, <1>6, <1>7, <1>8, <1>9 DEF Next, Handler

LEMMA InvInit == Init => Inv
BY TypeInit, StagesInit DEF Init, Inv, Undecided

(* Whatever becomes of a transaction between the announcement, the check   *)
(* and the two calls of the node, and however often it comes back, an      *)
(* update finds the row of its running life there and undecided            *)
(* (tx_transition.rs:109).                                                 *)
THEOREM EveryVerdictFindsItsRow == Spec => []VerdictsFindTheirRow
<1>1. Inv => VerdictsFindTheirRow
      BY DEF Inv, Undecided, VerdictsFindTheirRow
<1>2. QED BY <1>1, InvInit, InvStep, PTL DEF Spec
=============================================================================

------------------------- MODULE CanonicalChainState -------------------------
(***************************************************************************)
(* The topic CanonicalChainState (src/src/topic/canonical_chain_state.rs): *)
(* it follows the main chain of a ckb node some confirmations behind its   *)
(* tip and records every block, its known uncles, the two-phase-commit     *)
(* delay of its transactions and the totals of each epoch.  It resumes     *)
(* from what the database holds when the process starts                    *)
(* (get_last_updated_block_number, src/src/util/mod.rs).                   *)
(*                                                                         *)
(* The node is CkbNode; the way of the rows to the database is the one     *)
(* promised by WriteLog, which QueryWriter is shown to keep.               *)
(***************************************************************************)
EXTENDS CkbNode, FiniteSetsExt

CONSTANTS Confirmations,  \* 10 in the code
          EpochLength,    \* blocks of an epoch, fixed here
          BlockInterval,  \* time between two blocks
          Word,           \* block numbers are u64: modulo 2^64 in the code
          LogCapacity, LogMaxBatch,
          MaxCrashes      \* bound: ends of the process

ASSUME FollowerAssumption ==
    /\ Confirmations \in Nat /\ MaxCrashes \in Nat
    /\ EpochLength \in Nat \ {0} /\ BlockInterval \in Nat
    /\ Word \in Nat /\ MaxTip + 1 < Word /\ WindowFar < Word
    /\ LogCapacity \in Nat \ {0} /\ LogMaxBatch \in Nat \ {0}

VARIABLES
    pc,         \* what the task does next; "down" without a process,
                \* "failed" after a panic
    number,     \* the block to analyse
    tip,        \* the node's tip when it was last read
    parent,     \* the block analysed before
    block,      \* the block being analysed
    unread,     \* its uncles still to be fetched, those the node has
    left,       \* its transactions still to be looked at
    zones,      \* proposals_zones
    epoch,      \* current_epoch_number
    uncles,     \* current_epoch_uncles_total
    outbox,     \* rows of the running function that retry_send still has
    accepted, durable, doubtful,    \* the log of rows, see WriteLog
    crashes     \* ends of the process so far

log == <<accepted, durable, doubtful>>
task == <<number, tip, parent, block, unread, left, zones, epoch, uncles>>
vars == <<pc, task, outbox, log, crashes, nodeVars>>

-----------------------------------------------------------------------------
(* The rows, as far as the properties tell them apart.  The one of an      *)
(* uncle has the uncle's height, and its lag to the block of the main      *)
(* chain there, its cousin.                                                *)
BlockRow(n, b, p) ==
    [table |-> "block", number |-> n, fork |-> b.fork, parent |-> p.fork,
     time |-> BlockInterval * n + b.body.skew]

UncleRow(n, cousin) == [table |-> "uncle", number |-> n, cousin |-> cousin.fork]

CommitRow(n, delay) == [table |-> "2pc", number |-> n, delay |-> delay]

EpochRow(e, total) == [table |-> "epoch", number |-> e, uncles |-> total]

Rows ==
    [table : {"block"}, number : 1..MaxTip, fork : Nat, parent : Nat, time : Int]
        \cup [table : {"uncle"}, number : 0..MaxTip, cousin : Nat]
        \cup [table : {"2pc"}, number : Nat, delay : Nat]
        \cup [table : {"epoch"}, number : Nat, uncles : Nat]

Log == INSTANCE WriteLog WITH Query <- Rows, Capacity <- LogCapacity,
                              MaxBatch <- LogMaxBatch
-----------------------------------------------------------------------------
(* u64 subtraction of a release build.                                     *)
Minus(a, b) == IF a >= b THEN a - b ELSE a - b + Word

EpochOf(n) == n \div EpochLength

NoZones == [n \in {} |-> {}]

(* get_last_updated_block_number: the row with the latest time, not the    *)
(* one with the highest number; zero without any.                          *)
LastUpdated ==
    LET blocks == {r \in ToSet(durable) : r.table = "block"}
        latest == {r \in blocks : \A q \in blocks : q.time <= r.time}
    IN  IF blocks = {} THEN {0} ELSE {r.number : r \in latest}

Init ==
    /\ NodeInit
    /\ pc = "down" /\ number = 1 /\ tip = 0
    /\ parent = chain[0] /\ block = chain[0]
    /\ unread = 0 /\ left = <<>> /\ zones = NoZones /\ epoch = 0 /\ uncles = 0
    /\ outbox = <<>> /\ Log!Init /\ crashes = 0

(* Mutant of Start: the task resumes two blocks after the last one.        *)
StartTooFar ==
    /\ pc = "down"
    /\ pc' = "tip"
    /\ \E last \in LastUpdated : number' = last + (IF last = 0 THEN 1 ELSE 2)
    /\ zones' = NoZones
    /\ UNCHANGED <<tip, parent, block, unread, left, epoch, uncles, outbox, log,
                   crashes, nodeVars>>

(* The process starts and main reads the database.                         *)
Start ==
    /\ pc = "down"
    /\ pc' = "tip"
    /\ \E last \in LastUpdated : number' = last + 1
    /\ zones' = NoZones
    /\ UNCHANGED <<tip, parent, block, unread, left, epoch, uncles, outbox, log,
                   crashes, nodeVars>>

ReadTip ==
    /\ pc = "tip"
    /\ pc' = "parent"
    /\ tip' = GetTipBlockNumber
    /\ UNCHANGED <<number, parent, block, unread, left, zones, epoch, uncles, outbox,
                   log, crashes, nodeVars>>

ReadParent ==
    /\ pc = "parent"
    /\ pc' = "block"
    /\ parent' = GetBlockByNumber(number - 1)
    /\ epoch' = EpochOf(number - 1)
    /\ uncles' = 0
    /\ UNCHANGED <<number, tip, block, unread, left, zones, outbox, log, crashes, nodeVars>>

ConfirmedTooEarly == number <= Minus(tip, Confirmations)   \* mutant of Confirmed

Confirmed == number < Minus(tip, Confirmations)

(* Mutant of Refresh: the tip is read once and for all.                    *)
RefreshNothing ==
    /\ pc = "block" /\ outbox = <<>> /\ ~Confirmed
    /\ UNCHANGED vars

(* Not confirmed yet: sleep a second and read the tip again.               *)
Refresh ==
    /\ pc = "block" /\ outbox = <<>> /\ ~Confirmed
    /\ tip' = GetTipBlockNumber
    /\ UNCHANGED <<pc, number, parent, block, unread, left, zones, epoch, uncles, outbox,
                   log, crashes, nodeVars>>

(* get_block_by_number; without a block the loop tries the same again.     *)
AnalyzeBlock ==
    /\ pc = "block" /\ outbox = <<>> /\ Confirmed /\ Reached(number)
    /\ pc' = "uncles"
    /\ block' = GetBlockByNumber(number)
    /\ outbox' = <<BlockRow(number, block', parent)>>
    /\ unread' = block'.body.known
    /\ UNCHANGED <<number, tip, parent, left, zones, epoch, uncles, log, crashes,
                   nodeVars>>

(* A row for the next uncle that get_fork_block finds; its cousin is read  *)
(* from the main chain of the moment.  Uncles are of the height before     *)
(* here: consensus allows lower ones, which only a deeper reorganisation   *)
(* could affect.                                                           *)
AnalyzeUncle ==
    /\ pc = "uncles" /\ outbox = <<>> /\ unread > 0
    /\ unread' = unread - 1
    /\ outbox' = <<UncleRow(number - 1, GetHeaderByNumber(number - 1))>>
    /\ UNCHANGED <<pc, number, tip, parent, block, left, zones, epoch, uncles, log,
                   crashes, nodeVars>>

AnalyzeTransactions ==
    /\ pc = "uncles" /\ outbox = <<>> /\ unread = 0
    /\ pc' = "transactions"
    /\ left' = block.body.commits
    /\ UNCHANGED <<number, tip, parent, block, unread, zones, epoch, uncles, outbox,
                   log, crashes, nodeVars>>

(* Mutant of Window: the end is exclusive.                                 *)
WindowExclusive == Minus(number, WindowFar)..Minus(number, WindowClose) - 1

(* Mutant of Window: a height too close to the block is included.          *)
WindowTooClose == Minus(number, WindowFar)..Minus(number, WindowClose) + 1

(* The heights number - WindowFar ..= number - WindowClose, in u64.        *)
Window == Minus(number, WindowFar)..Minus(number, WindowClose)

Zones(tx) == {m \in Window \cap DOMAIN zones : tx \in zones[m]}

(* The next transaction is taken out of the earliest zone that has it; a   *)
(* transaction in none of them is passed over.                             *)
AnalyzeTransaction ==
    /\ pc = "transactions" /\ outbox = <<>> /\ left # <<>>
    /\ left' = Tail(left)
    /\ LET tx == Head(left)
       IN  \/ \E m \in Zones(tx) :
                 /\ \A k \in Zones(tx) : m <= k
                 /\ outbox' = <<CommitRow(number, number - m)>>
                 /\ zones' = [zones EXCEPT ![m] = @ \ {tx}]
           \/ Zones(tx) = {} /\ UNCHANGED <<outbox, zones>>
    /\ UNCHANGED <<pc, number, tip, parent, block, unread, epoch, uncles, log, crashes,
                   nodeVars>>

(* Mutant of Leaving: one block more is kept than the window has.          *)
LeavingLate == Minus(number, WindowFar + 1)

(* The height that leaves the window with this block.                      *)
Leaving == Minus(number, WindowFar)

(* After the last transaction: drop the zone that leaves the window, add   *)
(* that of the block.                                                      *)
PruneZones ==
    /\ pc = "transactions" /\ outbox = <<>> /\ left = <<>>
    /\ pc' = "epoch"
    /\ zones' = [m \in (DOMAIN zones \ {Leaving}) \cup {number} |->
                     IF m = number THEN block.body.proposals ELSE zones[m]]
    /\ UNCHANGED <<number, tip, parent, block, unread, left, epoch, uncles, outbox, log,
                   crashes, nodeVars>>

(* Mutant of AnalyzeEpoch: the uncles are added before the report.         *)
AnalyzeEpochAddsFirst ==
    /\ pc = "epoch" /\ outbox = <<>>
    /\ pc' = "block"
    /\ LET over == epoch # EpochOf(number)
           total == uncles + block.body.uncles
       IN  /\ outbox' = IF over THEN <<EpochRow(epoch, total)>> ELSE <<>>
           /\ epoch' = EpochOf(number)
           /\ uncles' = IF over THEN 0 ELSE total
    /\ number' = number + 1
    /\ parent' = block
    /\ UNCHANGED <<tip, block, unread, left, zones, log, crashes, nodeVars>>

(* The first block of an epoch reports the one before; the uncles of the   *)
(* block count for its own.  Then on to the next block.                    *)
AnalyzeEpoch ==
    /\ pc = "epoch" /\ outbox = <<>>
    /\ pc' = "block"
    /\ LET over == epoch # EpochOf(number)
       IN  /\ outbox' = IF over THEN <<EpochRow(epoch, uncles)>> ELSE <<>>
           /\ epoch' = EpochOf(number)
           /\ uncles' = (IF over THEN 0 ELSE uncles) + block.body.uncles
    /\ number' = number + 1
    /\ parent' = block
    /\ UNCHANGED <<tip, block, unread, left, zones, log, crashes, nodeVars>>

(* Mutant of Send: the row is dropped if the channel is full.              *)
SendOrDrop ==
    /\ outbox # <<>>
    /\ Log!Accept(Head(outbox)) \/ (Len(accepted) = LogCapacity /\ UNCHANGED log)
    /\ outbox' = Tail(outbox)
    /\ UNCHANGED <<pc, task, crashes, nodeVars>>

(* A call fails, and the task panics.  The process goes on and writes what *)
(* the task has sent; nothing starts the task again.  Bound: not in the    *)
(* last life of the process.                                               *)
CallPanics ==
    /\ pc \in {"tip", "parent", "block", "uncles", "epoch"} /\ outbox = <<>>
    /\ crashes < MaxCrashes
    /\ pc' = "failed"
    /\ UNCHANGED <<task, outbox, log, crashes, nodeVars>>

(* retry_send gets the next row of the function into the channel.          *)
Send ==
    /\ outbox # <<>>
    /\ Log!Accept(Head(outbox))
    /\ outbox' = Tail(outbox)
    /\ UNCHANGED <<pc, task, crashes, nodeVars>>
-----------------------------------------------------------------------------
Persist ==
    /\ \E n \in 1..LogMaxBatch : Log!Persist(n)
    /\ UNCHANGED <<pc, task, outbox, crashes, nodeVars>>

Settle ==
    /\ \E b \in doubtful : Log!Settle(b)
    /\ UNCHANGED <<pc, task, outbox, crashes, nodeVars>>

Crash ==
    /\ pc # "down" /\ crashes < MaxCrashes
    /\ crashes' = crashes + 1
    /\ pc' = "down"
    /\ outbox' = <<>>
    /\ \E n \in 0..LogMaxBatch : Log!Crash(n)
    /\ UNCHANGED <<task, nodeVars>>

NodeMoves == NodeNext /\ UNCHANGED <<pc, task, outbox, log, crashes>>

Analyze ==
    \/ AnalyzeBlock \/ AnalyzeUncle
    \/ AnalyzeTransactions \/ AnalyzeTransaction \/ PruneZones \/ AnalyzeEpoch

Next ==
    \/ Start \/ ReadTip \/ ReadParent
    \/ Refresh \/ Analyze \/ Send \/ CallPanics
    \/ Persist \/ Settle \/ Crash
    \/ NodeMoves

Spec == Init /\ [][Next]_vars

(* The task is scheduled, the node answers, and the log makes progress.    *)
(* Nothing is assumed of the supervisor that starts the process, nor of    *)
(* the growth of the chain.                                                *)
Fairness ==
    /\ WF_vars(ReadTip) /\ WF_vars(ReadParent)
    /\ WF_vars(Refresh) /\ WF_vars(Analyze) /\ WF_vars(Send)
    /\ WF_vars(Persist)

FairSpec == Spec /\ Fairness
-----------------------------------------------------------------------------
(* Every place where rows are has only rows of S.                          *)
RowsIn(S) ==
    /\ outbox \in Seq(S) /\ accepted \in Seq(S) /\ durable \in Seq(S)
    /\ doubtful \subseteq Seq(S)

TypeOK ==
    /\ NodeTypeOK
    /\ pc \in {"down", "failed", "tip", "parent", "block", "uncles", "transactions",
              "epoch"}
    /\ number \in 1..MaxTip + 1 /\ tip \in 0..MaxTip
    /\ parent \in Block /\ block \in Block
    /\ unread \in Nat /\ left \in Seq(Txs)
    /\ zones \in [DOMAIN zones -> SUBSET Txs]
    /\ DOMAIN zones \subseteq {m \in 1..number : number <= m + WindowFar}
    /\ epoch \in 0..MaxTip /\ uncles \in Nat
    /\ RowsIn(Rows) /\ Len(accepted) <= LogCapacity
    /\ crashes \in 0..MaxCrashes

(* Everything recorded or on its way to the database, oldest first.        *)
History == durable \o accepted \o outbox

Recorded == UNION {ToSet(s) : s \in {History} \cup doubtful}

(* What is recorded is the main chain for good: the block at the height,   *)
(* its predecessor and the cousin an uncle is compared with, although the  *)
(* tip was read long ago, the chain is reorganised meanwhile, `parent` is  *)
(* the block of an earlier iteration or of an earlier process, and rows    *)
(* wait in channels and orphaned transactions.  It depends on MatureChain. *)
RecordedStayCanonical ==
    \A r \in Recorded :
        /\ r.table = "block" => /\ r.number \in DOMAIN chain
                                /\ chain[r.number].fork = r.fork
                                /\ chain[r.number - 1].fork = r.parent
        /\ r.table = "uncle" => /\ r.number \in DOMAIN chain
                                /\ chain[r.number].fork = r.cousin

(* What the choice of the confirmations takes for granted: the chain has   *)
(* that many blocks, and no reorganisation detaches more than one beyond.  *)
MatureChain == Confirmations <= InitialTip /\ MaxReorg <= Confirmations + 1

(* dashboards.md:39-41: the recorded chain lags behind the real one by the *)
(* confirmations, at every moment and after every restart.                 *)
LagsBehindTip ==
    \A r \in Recorded : r.table = "block" => r.number + Confirmations < top

-----------------------------------------------------------------------------
(* Rows of blocks that the chain has reached.                              *)
ReachedRows == {r \in Rows : r.table = "block" => r.number <= top}

Analyzing == pc \in {"uncles", "transactions", "epoch"}

(* TypeOK made inductive: the heights the task and the rows hold exist,    *)
(* and PruneZones has dropped the zone that AnalyzeEpoch would leave       *)
(* behind.                                                                 *)
TypeInv ==
    /\ TypeOK
    /\ number <= top + 1
    /\ Analyzing => number <= top
    /\ pc = "epoch" => \A m \in DOMAIN zones : number < m + WindowFar
    /\ RowsIn(ReachedRows)

(* The block at height n has its confirmations and is that of branch f.    *)
Buried(n, f) == n + Confirmations < top /\ chain[n].fork = f

BuriedRows ==
    {r \in Rows :
        /\ r.table = "block" => /\ Buried(r.number, r.fork)
                                /\ Buried(r.number - 1, r.parent)
        /\ r.table = "uncle" => Buried(r.number, r.cousin)}

(* RecordedStayCanonical and LagsBehindTip made inductive, for a mature    *)
(* chain: also the blocks the task holds are buried.                       *)
FollowsBuried ==
    /\ Confirmations <= top
    /\ pc \notin {"down", "failed", "tip"} => Confirmations <= tip /\ tip <= top
    /\ number = 1 \/ number + Confirmations <= top
    /\ Analyzing \/ pc = "block" => chain[number - 1].fork = parent.fork
    /\ Analyzing => Buried(number, block.fork)
    /\ RowsIn(BuriedRows)
-----------------------------------------------------------------------------
(* The heights of the blocks among the first k rows of s.                  *)
HeightsUpTo(s, k) == {s[i].number : i \in {j \in 1..k : s[j].table = "block"}}

Heights(s) == HeightsUpTo(s, Len(s))

(* No height is missing below one of S.                                    *)
Gapless(S) == \A n \in S : 1..n \subseteq S

(* The heights in the database have no gap, whatever the crashes lose,     *)
(* whichever row the clocks of the miners make the latest one, and however *)
(* late the server commits the batch of a dead process.                    *)
NoGaps == Gapless(Heights(durable))

(* NoGaps made inductive: neither the batch of a dead process nor as much  *)
(* as the next batch may take makes a gap, and what is below the block in  *)
(* work is there or on its way.                                            *)
OnItsWay == Heights(durable) \cup Heights(accepted)

FollowsWithoutGaps ==
    /\ NoGaps
    /\ \A b \in doubtful : Gapless(Heights(durable) \cup Heights(b))
    /\ \A k \in 0..Len(accepted) :
           Gapless(Heights(durable) \cup HeightsUpTo(accepted, k))
    /\ \A n \in Heights(outbox) : 1..n - 1 \subseteq OnItsWay
    /\ pc \notin {"down", "failed"} =>
           1..number - 1 \subseteq OnItsWay \cup Heights(outbox)
    /\ Analyzing => number \in OnItsWay \cup Heights(outbox)

(* Where History has the rows of table t with number n.                    *)
Places(t, n) ==
    {i \in DOMAIN History : History[i].table = t /\ History[i].number = n}

(* Blocks of the database that miss a row of an uncle, without the one in  *)
(* work: not there and not on its way.  Rows of uncles are counted, which  *)
(* tells no two of one block apart: exact where `known` is at most 1.      *)
Damaged ==
    {n \in 1..top : /\ \E r \in ToSet(durable) : r.table = "block" /\ r.number = n
                    /\ pc \in {"down", "failed"} \/ n # number
                    /\ Cardinality(Places("uncle", n - 1)) < chain[n].body.known}

(* A crash costs the uncles of one block at most, and so does a panic: the *)
(* rows of a block are in several batches, the process resumes after the   *)
(* last block of which any row has arrived, and what the server commits    *)
(* later makes nothing worse (canonical_chain_state.rs:67).                *)
CrashCostsOneBlock ==
    Cardinality(Damaged) <= crashes + (IF pc = "failed" THEN 1 ELSE 0)

(* After a restart proposals_zones has forgotten the blocks before:         *)
(* commitments go unrecorded, or are compared with the next proposal of    *)
(* the same transaction.  Yet every delay recorded is the distance to a    *)
(* block that proposed a transaction of the block, in time for it.         *)
DelaysAreReal ==
    \A r \in Recorded : r.table = "2pc" =>
        \E tx \in ToSet(chain[r.number].body.commits) :
            r.number - r.delay \in ProposalsOf(chain, tx, r.number)

(* metrics.md:27: the delay is that from the height where the transaction  *)
(* was proposed first, of the proposals the block may commit.              *)
DelaysFromFirstProposal ==
    \A r \in Recorded : r.table = "2pc" =>
        \E tx \in ToSet(chain[r.number].body.commits) :
            \A m \in ProposalsOf(chain, tx, r.number) : r.number - r.delay <= m

(* DelaysAreReal made inductive, for a mature chain: the zones are of      *)
(* buried blocks, and the block in work is the one of the chain, with its  *)
(* body.                                                                   *)
RealRows ==
    {r \in Rows : r.table = "2pc" =>
        /\ r.number \in 1..top /\ r.number + Confirmations < top
        /\ \E tx \in ToSet(chain[r.number].body.commits) :
               r.number - r.delay \in ProposalsOf(chain, tx, r.number)}

RememberedAreReal ==
    /\ Analyzing => block = chain[number]
    /\ pc = "transactions" => ToSet(left) \subseteq ToSet(block.body.commits)
    /\ \A m \in DOMAIN zones :
           m + Confirmations < top /\ zones[m] \subseteq chain[m].body.proposals
    /\ RowsIn(RealRows)

(* A block that has its confirmations is written to the database, unless   *)
(* the process is down or a call of the node has failed.                   *)
ConfirmedAreWritten ==
    \A n \in 1..MaxTip :
        n + Confirmations < top
            ~> (pc \in {"down", "failed"} \/ \E r \in ToSet(durable) : r.table = "block" /\ r.number = n)

(* Until the process ends: once the task is past a block there is exactly  *)
(* one row for each transaction it commits, in their order, and the delay  *)
(* is the distance to the first block that proposed the transaction in the *)
(* window, although the zones are filled, emptied and pruned block by      *)
(* block.  (Below height WindowFar the window of the code wraps around.)   *)
CommitmentsExact ==
    crashes = 0 => \A n \in WindowFar..number - 1 :
        LET commits == chain[n].body.commits
        IN  \E k \in 0..Len(History) :
                /\ Places("2pc", n) = k + 1..k + Len(commits)
                /\ \A i \in DOMAIN commits :
                       LET first == n - History[k + i].delay
                           proposed == ProposalsOf(chain, commits[i], n)
                       IN  first \in proposed /\ \A m \in proposed : first <= m

(* The uncles of the blocks of an epoch.                                   *)
UnclesOf(e) ==
    MapThenSumSet(LAMBDA n : chain[n].body.uncles,
                  {n \in DOMAIN chain : EpochOf(n) = e})

(* Until the process ends: every epoch the task has left has exactly one   *)
(* row, and its total is the number of uncles in the blocks of that epoch, *)
(* although the row is written by the first block of the next one.         *)
EpochUnclesExact ==
    crashes = 0 => \A e \in 0..EpochOf(number) :
        IF e < EpochOf(number - 1)
        THEN \E i \in DOMAIN History : /\ Places("epoch", e) = {i}
                                       /\ History[i] = EpochRow(e, UnclesOf(e))
        ELSE Places("epoch", e) = {}

(* A restart inside an epoch leaves uncles out of its total, but no        *)
(* restart, and no block recorded twice, makes it count one twice.         *)
EpochNeverOvercounts ==
    \A r \in Recorded : r.table = "epoch" => r.uncles <= UnclesOf(r.number)
=============================================================================

# ckb-analyzer in TLA+

ckb-analyzer is a single process beside a ckb full node. Its *topics* read the
node, over JSON-RPC calls, over subscriptions and over the peer-to-peer
network, and turn what they see into SQL queries; one task writes the queries
in batches into PostgreSQL. This directory models the concurrency of that
process, its crashes and restarts, and the moving chain it follows. TLC checks
the models on small instances, TLAPS proves the central safety properties for
every value of the constants.

Paths below are relative to `src/`; `src/topic/x.rs` of the crate is
`src/src/topic/x.rs` in `PROJECT.json`.

## The system

    ckb node --JSON-RPC--> CanonicalChainState ---retry_send--+
       |                                                      |
       +--subscription--> Reorganization, TxTransition,       |   channel      main task
       |   (socket, two   SubscribeNewTipHeader,  ------------+-> (5000) ----> batch (100) ---> PostgreSQL
       |    channels)     SubscribeNewTransaction,            |                                    |
       |                  SubscribeProposedTransaction        |                                    |
    ckb peers --p2p-----> NetworkPropagation --Sender::send---+        SELECT at the start <-------+

| Component | State | Operations | What is hard, and what makes it correct |
|---|---|---|---|
| Channel and writer: `src/main.rs` `run`, `handle_message`; `src/util/mod.rs` `retry_send` | channel, batch, clock of the last batch, table | send with retry, blocking send, take a query, three ways to flush, fail, restart | many producers, a full channel, a batch at its limit, a failing batch, a process that dies with a batch in the server's hands. Queries arrive at most once, in each producer's order, and eventually. |
| CanonicalChainState: `src/topic/canonical_chain_state.rs`, `get_last_updated_block_number` | next number, cached tip, previous block, proposal zones, epoch totals; the table across restarts | wait for confirmations, record block, uncles, commitments, epoch | every read is from another moment of a chain that is reorganised. The record is the main chain for good, without gaps, and its totals are the chain's. |
| Subscription: `src/subscribe.rs`, `forward_tokio1_channel` | socket, two bounded channels, a message in the forwarder's hand | publish, forward, poll, and the end of each part | blocking on full channels in three threads, ends and panics that cascade. No message is lost, repeated or overtaken, and every part ends. |
| SubscribeNewTipHeader, ...NewTransaction, ...ProposedTransaction | none of their own | receive, report | the polling end of a subscription |
| Reorganization: `src/topic/reorganization.rs` | last tip; the header cache of Jsonrpc | extend, walk to the common ancestor, report | the walk asks the node block by block while its tip moves. One row for each change of branch, with the true ancestor. |
| TxTransition: `src/topic/tx_transition.rs` | entries with their times, time of the last check | enter, check, report commit or removal | the fate of a transaction changes between the two calls that ask for it, and it may come back after its verdict. Each update finds the row it is about. |
| NetworkPropagation: `src/topic/network_propagation.rs` | queue of peers under a mutex | connected, disconnected, received (relay a row, report heartbeats) | two protocol handlers, slow reports and panics under the mutex, head-of-line blocking. Each peer followed once and reported for ever; one handler survives the other. |
| Threads: `src/main.rs` `main`, `run`, `create_pg`; `src/util/mod.rs:99-109` | what is started, which task has a worker, the request to PostgreSQL | start the topics, SELECT, batch, sleep, end | topics and the connection share the workers, and each may wait for the other. Nothing is suspended for ever, whatever ends. |
| Jsonrpc: `ckb-suite-rpc/src/rpc.rs` | two LRU caches | one wrapper for each call; a failed call panics | cached headers outlive their place on the main chain |
| NetworkTopology, CanonicalChainGrowth, configuration, dashboards index, scripts | none that lasts | | not modelled, see below |

## Modules

| Module | Stands for | Uses |
|---|---|---|
| `WriteLog` | what the writing side promises: accepted queries become durable in order, a batch at a time, all or nothing | |
| `QueryWriter` | channel, `retry_send`, `handle_message`, PostgreSQL, end and restart of the process | implements `WriteLog` |
| `Runtime`, `MCRuntime` | the start of the process, the main thread, the workers, the connection task, the ends of topics | extends `QueryWriter`, and gives its actions to the tasks that take them |
| `RuntimeProofs` | theorems about `QueryWriter` and `Runtime` | |
| `CkbNode` | external: main chain, reorganisations, the two-step confirmation rules | |
| `CanonicalChainState`, `MCCanonicalChainState` | the topic, its restarts, its rows | extends `CkbNode`, writes through `WriteLog` |
| `CanonicalChainProofs` | theorems about `CanonicalChainState`: types, the recorded chain; lemmas on its rows | |
| `CommitmentProofs`, `RestartProofs` | commitments and epochs; gaps and losses | `CanonicalChainProofs` |
| `Pipe` | what a topic may expect of its subscription | |
| `Subscription` | socket to topic, with both channels and the forwarder | implements `Pipe` |
| `SubscriptionProofs` | theorems about `Subscription` | |
| `Reorganization`, `ReorganizationProofs` | the topic over a tree of blocks, and theorems about it | reads from a `Pipe` |
| `TxTransition`, `TxTransitionProofs` | the topic over a pool, and theorems about it | reads from a `Pipe` |
| `Heartbeats`, `HeartbeatsProofs` | the handlers of NetworkPropagation and their queue, and theorems about them | |

The two abstract modules are where the components meet: the topics are checked
over `WriteLog` and `Pipe`, and the detailed modules are shown to implement
those. `Runtime` is `QueryWriter` again with the threads added: its actions are
conjunctions of an action of `QueryWriter` and of what happens to the tasks, and
the fairness that `QueryWriter` states as an assumption (`Fairness`) is there a
property, `WriterIsScheduled`, that follows from the scheduling. An action is what one task does between two points where another task,
the node, the server or the clock can act: a JSON-RPC call, an `await`, a
channel operation, a critical section. Names follow the source (`number`,
`tip`, `parent`, `zones`, `batch`, `entries`, `last_heartbeat`); `pc` says where
in its function a task is; `map` in `PROJECT.json` gives the lines of each
definition. Operators commented as "Mutant of ..." are faulty versions that no
specification uses: each property is known to fail with one of them in place.

How data is abstracted:

* A query is its producer, a running number and the life of the process it
  was sent in; its SQL is left out. The overdue clock of the batch is a flag
  that may rise at any moment.
* A block of the main chain is the branch it was mined on and a body
  (proposals, commitments, counts of uncles, clock skew). A row of the
  follower holds the columns that name blocks, heights, delays and totals.
  Epochs have a fixed length. Uncles are one below their block's height;
  consensus allows lower ones, which are buried deeper still. Rows of uncles
  have no hash: `CrashCostsOneBlock` counts them, which is exact where a block
  has one known uncle at most, as in `chain_restart`.
* A reorganisation does not lower the chain (`CkbNode`). ckb compares total
  difficulties, so a lower branch may be the heavier one; that is not covered.
* `u64` subtraction is modulo `Word` (`Minus`), as in a release build.
* In `Reorganization` a block is its path from genesis, as a hash commits to
  all ancestors. The tips announced rise by one each: the arm of
  `locate_ancestor` for an old tip that is the higher one
  (`reorganization.rs:103-106`) is never taken, and the other one takes one step.
* In `TxTransition` the rows sent are applied to `table` in the order of
  sending, which the writer keeps. A row is its transaction and whether
  `commit_time` and `remove_time` are NULL; an update touches every row of its
  transaction, as `WHERE hash` does. A transaction that is back in the pool is
  announced again only after it has left (`Drop`, `Submit`).
* In `Runtime` a worker keeps a task until that awaits something, and timers and
  sockets are served by workers without a task (tokio parks one of them on the
  driver); work stealing makes all queues one set, `runnable`. The thread of
  NetworkPropagation and its runtime are no workers: it only blocks.
* A panic is an action of its own (`CallPanics`, `RelayPanics`, `ReportPanics`,
  `HandlerPanics`, `End`, `BatchFailed`): which call fails is not told apart,
  only where the function is left.
* `TxTransition` and `Heartbeats` count time in ticks and keep ages, not
  instants, up to the largest the code compares with. `sinceReport` and `panics`
  are history.

## Runs

`tlc -workers 2 -config X.cfg M`; the names are those of `PROJECT.json`.

| Run | Instance | Shows |
|---|---|---|
| `query_writer` | module `MCRuntime`: the follower and the connection on 1 worker, NetworkPropagation, 2 queries each, channel 2, batch 2, 1 end of the process | the scheduled writer implements `WriteLog`; batches bounded, order kept; `WriterIsScheduled`, `NothingLeftBehind` |
| `chain_reorg` | height 3 to 6, 2 confirmations, 2 reorganisations of depth up to 3, 1 crash | `RecordedStayCanonical`, `LagsBehindTip`, `ConfirmedAreWritten` |
| `chain_restart` | 4 blocks with uncles, proposals and commitments, skewed clocks, 2 crashes, panics, batches of 2 | `NoGaps`, `CrashCostsOneBlock`, `EpochNeverOvercounts` |
| `chain_contents` | every valid chain of 6 blocks over 5 bodies, window 2 to 4, epochs of 2, 1 crash or panic, the clocks of committing blocks ahead | `CommitmentsExact`, `EpochUnclesExact`, `DelaysAreReal`, zones within the window |
| `young_chain` (violation) | a chain of height 1 with 2 confirmations | finding 1 |
| `restart_delay` (violation) | 4 blocks, window 1 to 2, 1 crash | finding 2 |
| `subscription` | 6 messages, channels of 2 | implements `Pipe`; drained at the end; all parts end |
| `reorganization` | trees of up to 6 blocks, height 4, cache of 1 | `RowsExact`, `RowsDetach`, `WalkEnds` |
| `reorg_race` (violation) | the same | finding 3 |
| `tx_transition` | 2 transactions, 3 submissions, 2 commitments, suspension and interval of 1 tick | `VerdictsFindTheirRow`, `DecidedIsReported` |
| `tx_late_commit` (violation) | 1 submission, 1 commitment | finding 4 |
| `heartbeats` | 3 peers, 2 protocols, interval of 2 ticks, new peers 1 tick early, a panic of one handler | `FollowedOnce`, `OthersSurvive`, spacing, lateness, `EveryPeerBeats` |

The bounds: a channel and a batch of two are full, at their limit and one below;
two producers compete for a place; an orphaned batch can be committed before,
during or after the next life. One worker is the hardest number: with more, a
task that keeps one leaves others. One end of the process keeps the liveness
properties within reach; that several ends, and any number of workers, do no
harm to the order and to the types is what the proofs show. `chain_restart`
starts with its whole chain, as its properties are about the process, and two
ends of the process let the rows of one life overlap those of two others. In
`chain_contents` blocks 1 to 5 are analysed; block 5 may commit what blocks 1 to
3 proposed, block 4 what 1 or 2 did: both ends of the window and a height
between, a proposal repeated at up to three heights, two transactions committed
together, two epochs completed. The process may end before, between and after
the proposals of one transaction, whose commitment is then recorded with the
distance to a later one (`DelaysFromFirstProposal` is false there too). A window
of 2 to 4 has both ends and an inner height, like 2 to 10. Three blocks may be
detached with two confirmations, one more than the confirmations, which is the
most the guard `number >= tip - 10` tolerates (a block is recorded with one
confirmation more). Six messages are one more than the five places between
socket and handler. A tree of six blocks has two branches of three that overtake
each other. Three peers give a queue a front, a middle and an end. Every
disjunct of every `Next` is taken.

`CHECK_DEADLOCK FALSE` is set where the environment is bounded and everything
may come to its end: producers out of queries, a subscription that has ended.

## Fairness

Always of the program's own steps, never of the node, the peers' connections,
crashes, panics or restarts.

* `Runtime` (`RuntimeFairness`): the main thread runs; a topic that has a worker
  reports or awaits; the server answers. The connection is taken by a worker
  (`Poll(connection)`) and its socket served (`ServerAnswers`) if workers become
  free again and again, which is strong fairness: tokio's queues are first in,
  first out, with a bound on the tasks run before the driver is polled. Nothing
  is assumed of the other tasks: a topic may never be polled, a timer never
  fire. From this TLC derives the fairness that `QueryWriter` states. That one
  of several retrying topics is served in the end is not claimed; `retry_send`
  does not guarantee it. The assumption that a topic awaits in the end has one
  exception in the code: `analyze_blocks` repeats `get_block_by_number` without
  an await when it answers None for a confirmed number
  (`canonical_chain_state.rs:61`); it takes a chain younger than the
  confirmations (finding 1), and then one worker is lost to it.
* `CanonicalChainState`: the task is scheduled, calls return, the log makes
  progress (which `NothingLeftBehind` establishes).
* `Subscription`: threads and tasks are scheduled and a report gets through.
* `Reorganization`, `TxTransition`: the same; in the latter also that time
  passes. Its calls of the node return or panic (`CallPanics`); a panic ends what is
  promised. `TxTransition` checks only when the channel is empty, so its
  liveness needs a pause in the messages, which the bound on submissions gives
  and a busy node does not: no property is about a steady stream.
* `Heartbeats`: time passes, and some message of Sync or Relay comes while a
  session is open: peers send headers, blocks and transactions. Pings are of another
  protocol and do not count. `EveryPeerBeats` promises nothing once the mutex is
  poisoned, and `OthersSurvive` only that the other handler is not lost as well.

## Findings

1. `tip - 10` wraps on a chain younger than the confirmations: unconfirmed
   blocks are recorded (`canonical_chain_state.rs:55`, `dashboards.md:39-41`).
2. After a restart the delay of a commitment may be that from a later proposal
   than the first (`canonical_chain_state.rs:35`, `metrics.md:27`).
3. `unreachable!()` of `reorganization.rs:163` is reached when a block is
   attached again between the two calls of `get_header`.
4. A transaction that is still in the pool at its only check is never reported
   as committed (`tx_transition.rs:124`, lines 17-18).

Two more, which no run shows. The total of an epoch restarts at zero with the
process (`canonical_chain_state.rs:51`), so it may be too low for the epoch of a
restart; `EpochNeverOvercounts` says only that it is never too high. And the
update by hash sets its time in the rows of earlier lives of the transaction as
well (`table.rs:255`): one that was removed, came back and was committed has a
first row with both times, which `tx_transition.rs:17` does not provide for.
`VerdictsFindTheirRow` is about the newest row.

## What is proved

Every safety property that a run checks, invariants, action properties and
refinements, is proved for every value of the constants: any number of
producers, workers and peers, any capacity, window, epoch length, depth of
reorganisation and number of crashes.

### The writer and its threads: `RuntimeProofs`

About `QueryWriter`, from `WriterAssumption` alone (capacities and limits are
positive, blocking producers are producers):

* `TypeCorrect`, `BatchesAreBounded`, `StreamOnlyGrows`;
* `ProducersStayInOrder`: `ProducerOrder` is not inductive, because the server
  may append an orphaned batch to the table at any time. `Sequenced` adds that
  what is in the batch and the channel is of the running life, that a doubtful
  batch is of an earlier life which no other doubtful batch shares, that it
  would be in order at the end of the table now, and that each producer's
  counter is above all its queries;
* `WriterImplementsLog`: each action maps to `Accept`, `Persist`, `Crash`,
  `Settle` of `WriteLog` or to a stutter; `BatchBounded` is needed for
  the sizes of `Persist` and the capacity of `Accept`.

About `Runtime`, with `RuntimeAssumption` as well:

* `RuntimeImplementsWriter`: every step of `Runtime` is a step of `QueryWriter` or
  leaves its variables alone; the exit of the Disconnected arm, which would not
  be one, is excluded because `Senders` always holds `run`;
* `TasksStayInOrder`, which follows from it and `ProducersStayInOrder`;
* `RuntimeTypeCorrect`, by `RuntimeInv`: the sets of tasks that are not started,
  runnable, running, asleep and ended are disjoint, and the connection is
  runnable or running exactly as long as a request or an answer is on its way.

### The follower of the chain

From `NodeAssumption` and `FollowerAssumption`; all but `TypeCorrect` and
`NoGapsEver` also on `MatureChain`: at least as many blocks as confirmations,
and no reorganisation that detaches more than one beyond them. Without it
the statements about the record are false, see `young_chain`.

`CanonicalChainProofs`:

* `TypeCorrect`, by `TypeInv`: the heights the task holds exist, and `PruneZones`
  leaves no zone that the step to the next number would push out of the window;
* `RecordsAreCanonical` and `RecordsLagBehind`. The invariant `FollowsBuried` adds
  that the block in work and its predecessor are buried and that every row,
  wherever it is on its way, is of a buried block; a buried block stays buried
  under every move of the chain.

`CommitmentProofs`:

* `DelaysStayReal`, by `RememberedAreReal`: each zone is part of the proposals of the block at its height, which has its
  confirmations, and the block in work is that of the chain, with its body. A
  restart empties the zones and so keeps this true, and a reorganisation does
  not reach them; the window matches only heights below the block, because
  where `number - 2` wraps there is no zone;
* `CommitmentsAreExact`, until the process first ends (after a restart the zones
  are incomplete, and it would be false), whatever happens later.
  `ZonesComplete`: the zones are those of the window, and what a zone lacks of
  the proposals of its block has been looked at. `ValidChain` says that a
  transaction is committed once, so the next one has not been looked at
  (`NextIsNew`), its first proposal in the window is still in its zone, and
  every other zone that has it is later. `CommitsMatch`: the rows of each block
  follow each other in the order of its transactions, those of the block in
  work at the end of `History`;
* `EpochsAreNotOvercounted`, with crashes, by `CountsUncles`: the running total is no more
  than the uncles of the blocks of its epoch below the block in work, and
  exactly these in the first life; rows of epochs are of epochs whose last block
  is settled, so their sum no longer changes. `UnclesOf` is a fold; that sums over
  disjoint sets add up and that equal summands give equal sums is shown by
  taking a least counterexample (`Least`), which needs no induction theorem;
* `EpochsAreExact`, until the process first ends, from `CountsUncles` and
  `EpochsOnce`: one row for each epoch that is over, none for the others.

`RestartProofs`:

* `NoGapsEver`, on any chain, by `FollowsWithoutGaps`: the rows in the table
  without a gap, whatever the orphaned batch or a prefix of the accepted rows
  adds leaves none either, and all heights below `number` are in the table or
  on their way to it. A restart resumes at a row of the table, whichever the
  clocks make the latest, so everything below it is there;
* `CrashesCostOneBlock`. That few blocks are damaged says nothing of which end
  damaged them, and a batch committed late may heal one block and damage
  another. `CrashesAreCharged` names for each end one block at most: a block of
  the set `C` for good, or block `D[b]` for as long as the server may still
  commit batch `b`; in the running life block `n` is the one of which the table
  has the row and perhaps not the rest. `Orderly`: in what one life hands over,
  a block comes after all rows of the blocks before. So when more rows of a
  life arrive (`Advance`), block `n` is complete before another takes its place.
  An end of the process charges `n` to the new batch in doubt, or to `C` if
  there is none or if the same batch is in doubt already; when batch `b` is
  settled, `D[b]` or the block that took its place is charged to `C`. Rows of a
  dead life that come in between those of the running one disturb neither
  order (`OrderlyInsert`).

### The subscriptions and their topics

`SubscriptionProofs`, from `SubscriptionAssumption`:

* `SubscriptionIsPipe`: of channel, hand, publisher and wire in a row, a step moves
  a message on, which changes nothing, takes the first, puts one at the end,
  or cuts the end off; a handler that is gone makes it empty for good;
* `HandlerEndsDrained` and `SubscriptionTypeCorrect`, by `Orderly`: each stage ends
  after the one before it and empty, unless the handler has panicked.

`ReorganizationProofs`, for any tree of blocks and any cache:

* `ReorganizationTypeCorrect`, by `Typed`: the node has all ancestors of its blocks
  (`Tree`), so every parent the walk asks for exists and genesis is not passed;
* `EveryChangeIsReported`: `Announced` (a header that the topic takes is
  one higher than the last, as the pipe loses none), `Tips` (the walk is between the last
  two headers taken) and `Descends` (both sides of the walk have all common
  ancestors of the two tips, at every step and whatever moves meanwhile) make
  the block where the sides meet the lowest common ancestor; `Reports` says the
  rows so far are those of the headers handled;
* `EveryRowDetaches`: the ancestor is never the old tip itself.

`TxTransitionProofs`, from `TxTransitionAssumption`:

* `EveryVerdictFindsItsRow`, by `Undecided`: what waits, is due or is being checked has
  a row, and the newest one has no verdict (`Awaits`). Inserts and updates of one
  transaction leave the newest rows of the others as they are (`OthersAwait`),
  and a transaction in work is neither waiting nor due;
  `TransitionTypeCorrect`, with `Stages`. Of the rows of earlier lives nothing is
  claimed: the update by hash changes them too.

### The heartbeats: `HeartbeatsProofs`, from `HeartbeatsAssumption`

* `EachPeerFollowedOnce`, `ReportsKeepTheInterval`, `NoneIsLateByMore` and
  `HeartbeatsTypeCorrect`, by an invariant of three parts: `Once`; `Close`, no entry is older
  than one ahead of it by more than `HEARTBEAT_INTERVAL - Soon`; `Spaced`, no
  entry is older than the last row of its peer, and a peer with a recent row
  is followed, so that it cannot join a second time with an old instant. That
  the loop ends where `Overdue` says needs a least number, from
  `WellFoundedInduction`;
* `HandlersSurviveOthers`: each handler lost is one panic of its own, for any
  number of handlers and of panics (`MaxPanics` is 1 in the run: a second one
  would leave neither of the two). One that finds the mutex poisoned skips the
  queue and goes on. `FS_AddElement` counts them.

### Only model-checked

Liveness: `WriterIsScheduled`, `NothingLeftBehind`, `ConfirmedAreWritten`, `AllEnd`,
`ReadIsReported`, `WalkEnds`, `DecidedIsReported`, `EveryPeerBeats`. Fairness is about
`ENABLED`, which the provers do not handle. And the four violations, which are
counterexamples.

## Not modelled

* The wording of SQL, the columns the properties do not tell apart.
* What is inside a relayed message: the rows of relayed blocks and transactions
  depend on no state, so one is any `BlockingReport`. The table takes each
  row: there is no CONFLICT clause (`table.rs:332`), although the notes of
  `network_propagation.rs:61` plan one.
* The p2p network service, beyond the callbacks it makes.
* NetworkTopology: it calls itself experimental, `main.rs:222` gives it no
  addresses, and so it logs a graph without nodes every ten minutes. With no
  peer to ask and no query to send it has no state to be wrong about.
* CanonicalChainGrowth is a comment; configuration is data; the dashboards
  index is text; the scripts run once. The wrappers of Jsonrpc that nothing calls.

## Plan

Done in this order: `QueryWriter` with `WriteLog`; `CanonicalChainState` over
it; `Subscription` with `Pipe`; `Reorganization`, `TxTransition`, `Heartbeats`; then
`Runtime` over `QueryWriter`, panics and the poisoned mutex, and what restarts
may cost.

Then the proofs: types and refinements first, what is recorded of the chain,
the walk of `Reorganization`, and last the properties that take a history,
the exact commitments and epochs and the price of a crash.

Next:

1. The follower over `QueryWriter` itself instead of over `WriteLog`, in one module, with
   the theorem that it implements `CanonicalChainState`.
2. Several topics that retry on more workers than one, in a larger instance of
   `Runtime`.

----------------------------- MODULE QueryWriter -----------------------------
(***************************************************************************)
(* The writing side of the process: the bounded crossbeam channel that     *)
(* every topic sends its SQL queries into, and the main task that drains   *)
(* it in batches into PostgreSQL (src/src/main.rs, `run` from line 276 on, *)
(* and `handle_message`; src/src/util/mod.rs, `retry_send`).               *)
(*                                                                         *)
(* A batch is one simple-query message, hence one implicit transaction of  *)
(* the server: it is committed as a whole or not at all.  When the process *)
(* dies while a batch is executed, the server still holds the batch and    *)
(* settles it on its own, possibly after the process was started again.    *)
(***************************************************************************)
EXTENDS Naturals, Sequences, SequencesExt

CONSTANTS Producers,        \* the topics
          Blocking,         \* those that use Sender::send and not retry_send
          ChannelCapacity,  \* 5000 in the code
          MaxBatchSize,     \* 100 in the code
          MaxQueries,       \* bound: queries of one producer
          MaxCrashes        \* bound: ends of the process

ASSUME WriterAssumption ==
    /\ Blocking \subseteq Producers
    /\ ChannelCapacity \in Nat \ {0}
    /\ MaxBatchSize \in Nat \ {0}
    /\ MaxQueries \in Nat /\ MaxCrashes \in Nat

VARIABLES
    sent,       \* queries each producer has put into the channel
    asleep,     \* producers in the one-second sleep of retry_send
    channel,    \* the crossbeam channel
    batch,      \* `batch` of `run`
    overdue,    \* last_batch_instant.elapsed() >= max_batch_timeout
    executing,  \* the main task awaits pg.batch_execute(batch)
    table,      \* rows of the database in commit order
    doubtful,   \* batches of dead processes the server has not settled yet
    up,         \* the process runs
    crashes     \* how often it has ended

vars == <<sent, asleep, channel, batch, overdue, executing, table, doubtful,
          up, crashes>>

(* A query is known by its producer, a running number and the life of the  *)
(* process in which it was sent.                                           *)
Query == [from : Producers, n : 0..MaxQueries, life : 0..MaxCrashes]

TypeOK ==
    /\ sent \in [Producers -> 0..MaxQueries]
    /\ asleep \subseteq Producers
    /\ channel \in Seq(Query) /\ Len(channel) <= ChannelCapacity
    /\ batch \in Seq(Query)
    /\ overdue \in BOOLEAN /\ executing \in BOOLEAN /\ up \in BOOLEAN
    /\ table \in Seq(Query)
    /\ doubtful \subseteq Seq(Query)
    /\ crashes \in 0..MaxCrashes

Init ==
    /\ sent = [p \in Producers |-> 0]
    /\ asleep = {}
    /\ channel = <<>> /\ batch = <<>> /\ table = <<>>
    /\ overdue = FALSE /\ executing = FALSE
    /\ doubtful = {}
    /\ up = TRUE /\ crashes = 0
-----------------------------------------------------------------------------
FullTooLate == Len(channel) > ChannelCapacity     \* mutant of Full

Full == Len(channel) >= ChannelCapacity

Ready(p) == up /\ sent[p] < MaxQueries

Enqueue(p) ==
    /\ channel' = Append(channel, [from |-> p, n |-> sent[p], life |-> crashes])
    /\ sent' = [sent EXCEPT ![p] = @ + 1]

(* try_send of retry_send; on a full channel the producer goes to sleep    *)
(* with the query in its hands.                                            *)
TrySend(p) ==
    /\ Ready(p) /\ p \notin Blocking \cup asleep
    /\ IF Full
       THEN asleep' = asleep \cup {p} /\ UNCHANGED <<channel, sent>>
       ELSE Enqueue(p) /\ UNCHANGED asleep
    /\ UNCHANGED <<batch, overdue, executing, table, doubtful, up, crashes>>

Wake(p) ==
    /\ p \in asleep
    /\ asleep' = asleep \ {p}
    /\ UNCHANGED <<sent, channel, batch, overdue, executing, table, doubtful,
                   up, crashes>>

(* Sender::send of the NetworkPropagation thread: parked while it is full. *)
BlockingSend(p) ==
    /\ Ready(p) /\ p \in Blocking /\ ~Full
    /\ Enqueue(p)
    /\ UNCHANGED <<asleep, batch, overdue, executing, table, doubtful, up,
                   crashes>>
-----------------------------------------------------------------------------
FlushDueTooLate(b) == Len(b) > MaxBatchSize \/ overdue    \* mutant of FlushDue

FlushDue(b) == Len(b) >= MaxBatchSize \/ overdue

(* Mutant of HandleQuery: the query that makes the batch due is not in it. *)
HandleQueryForgets ==
    /\ up /\ ~executing /\ channel # <<>>
    /\ executing' = (batch # <<>> /\ FlushDue(Append(batch, Head(channel))))
    /\ batch' = IF executing' THEN batch ELSE Append(batch, Head(channel))
    /\ channel' = Tail(channel)
    /\ UNCHANGED <<sent, asleep, overdue, table, doubtful, up, crashes>>

(* handle_message, arm Ok: push, then execute when the batch is due.       *)
HandleQuery ==
    /\ up /\ ~executing /\ channel # <<>>
    /\ batch' = Append(batch, Head(channel))
    /\ channel' = Tail(channel)
    /\ executing' = FlushDue(batch')
    /\ UNCHANGED <<sent, asleep, overdue, table, doubtful, up, crashes>>

(* handle_message, arm Empty: execute whatever there is.                   *)
HandleEmpty ==
    /\ up /\ ~executing /\ channel = <<>> /\ batch # <<>>
    /\ executing' = TRUE
    /\ UNCHANGED <<sent, asleep, channel, batch, overdue, table, doubtful, up,
                   crashes>>

(* Mutant of BatchExecuted: the batch is not emptied.                      *)
BatchExecutedKeeps ==
    /\ executing
    /\ table' = table \o batch
    /\ executing' = FALSE /\ overdue' = FALSE
    /\ UNCHANGED <<sent, asleep, channel, batch, doubtful, up, crashes>>

(* batch_execute returns Ok: restart the clock and forget the batch.       *)
BatchExecuted ==
    /\ executing
    /\ table' = table \o batch
    /\ batch' = <<>> /\ executing' = FALSE /\ overdue' = FALSE
    /\ UNCHANGED <<sent, asleep, channel, doubtful, up, crashes>>

(* Sixty seconds have passed since last_batch_instant.                     *)
Elapse ==
    /\ up /\ ~overdue
    /\ overdue' = TRUE
    /\ UNCHANGED <<sent, asleep, channel, batch, executing, table, doubtful, up,
                   crashes>>
-----------------------------------------------------------------------------
(* The process is gone, with its channel and its batch; a batch that was   *)
(* being executed is now the server's.                                     *)
ProcessEnds ==
    /\ crashes < MaxCrashes
    /\ crashes' = crashes + 1
    /\ up' = FALSE
    /\ doubtful' = doubtful \cup (IF executing THEN {batch} ELSE {})
    /\ channel' = <<>> /\ batch' = <<>> /\ asleep' = {}
    /\ executing' = FALSE /\ overdue' = FALSE
    /\ UNCHANGED <<sent, table>>

(* Mutant of BatchFailed: the error is logged, and the batch dropped.      *)
BatchFailedIsLogged ==
    /\ executing
    /\ batch' = <<>> /\ executing' = FALSE /\ overdue' = FALSE
    /\ UNCHANGED <<sent, asleep, channel, table, doubtful, up, crashes>>

(* batch_execute returns Err (an SQL error, or a broken connection): the   *)
(* main task panics and the process exits.                                 *)
BatchFailed == executing /\ ProcessEnds

(* The process is killed at any other point.                               *)
Kill == up /\ ProcessEnds

Restart ==
    /\ ~up
    /\ up' = TRUE
    /\ UNCHANGED <<sent, asleep, channel, batch, overdue, executing, table,
                   doubtful, crashes>>

(* The server commits or rolls back what a dead process left with it.      *)
Settle(b) ==
    /\ doubtful' = doubtful \ {b}
    /\ table' \in {table, table \o b}
    /\ UNCHANGED <<sent, asleep, channel, batch, overdue, executing, up, crashes>>
-----------------------------------------------------------------------------
Next ==
    \/ \E p \in Producers : TrySend(p) \/ Wake(p) \/ BlockingSend(p)
    \/ HandleQuery \/ HandleEmpty \/ Elapse
    \/ BatchExecuted \/ BatchFailed
    \/ Kill \/ Restart
    \/ \E b \in doubtful : Settle(b)

Spec == Init /\ [][Next]_vars

(* The loop of `run` never stops polling the channel, and the server       *)
(* answers every batch with Ok or Err.  Nothing is assumed of producers,   *)
(* of the clock, of the server's dealings with orphans, or of restarts.    *)
Fairness ==
    /\ WF_vars(HandleQuery)
    /\ WF_vars(HandleEmpty)
    /\ WF_vars(BatchExecuted \/ BatchFailed)
-----------------------------------------------------------------------------
(* Everything that is on its way or has arrived, oldest first.             *)
Flow == table \o batch \o channel

SameSource(q, r) == q.from = r.from /\ q.life = r.life

Ordered(s) ==
    \A i, j \in DOMAIN s : i < j /\ SameSource(s[i], s[j]) => s[i].n < s[j].n

(* A batch is sent to the server non-empty and never longer than           *)
(* max_batch_size, and none that is due waits for another query: the limit *)
(* of main.rs:295 is reached exactly, whatever the mix of the three        *)
(* flushes (size, timeout, empty channel).                                 *)
BatchBounded ==
    /\ executing => batch # <<>> /\ Len(batch) <= MaxBatchSize
    /\ ~executing => Len(batch) < MaxBatchSize

(* The queries one producer sends in one life of the process reach the     *)
(* database at most once and in the order sent, through retries with a     *)
(* full channel, three ways to flush, failing batches and orphaned batches *)
(* that the server commits only after the next life has begun.             *)
ProducerOrder == Ordered(Flow)

(* As long as the process lives and no orphan is settled, the stream of    *)
(* queries only grows at its end: taking a query off the channel, flushing *)
(* and the passing of the timeout move queries forward and neither drop,   *)
(* repeat nor overtake any of them.                                        *)
FlowOnlyGrows == [][up' /\ doubtful' = doubtful => IsPrefix(Flow, Flow')]_vars

(* The writer keeps the promise of WriteLog.                               *)
Log == INSTANCE WriteLog WITH accepted <- batch \o channel, durable <- table,
           Capacity <- ChannelCapacity + MaxBatchSize, MaxBatch <- MaxBatchSize

ImplementsLog == Log!Spec
=============================================================================

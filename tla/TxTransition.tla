---------------------------- MODULE TxTransition ----------------------------
(***************************************************************************)
(* The topic TxTransition (src/src/topic/tx_transition.rs): it inserts a   *)
(* row for each transaction the node announces and, once the transaction   *)
(* has been waiting for more than SUSPEND_SECONDS, asks the node a single  *)
(* time what became of it and updates the row.                             *)
(*                                                                         *)
(* Messages come through a Pipe, which Subscription is shown to implement. *)
(* Time is counted in ticks: only how long ago something was, up to the    *)
(* longest time the code compares with, is kept.                           *)
(***************************************************************************)
EXTENDS Naturals, Sequences, SequencesExt, FiniteSets

CONSTANTS Txs,
          CheckInterval,    \* 60 s in the code
          SUSPEND_SECONDS,  \* 180 s in the code
          MaxSubmits,       \* bound: transactions sent to the node
          MaxCommits        \* bound: transactions committed

ASSUME TxTransitionAssumption ==
    /\ CheckInterval \in Nat \ {0} /\ SUSPEND_SECONDS \in Nat
    /\ MaxSubmits \in Nat /\ MaxCommits \in Nat

VARIABLES
    status,             \* what the node knows of each transaction
    submits, commits,   \* how many there have been
    pending, taken, open,   \* the subscription, see Pipe
    pc,                 \* what the task does next
    entries,            \* transactions waiting for their check
    age,                \* ticks since the enter_time of each
    lastChecking,       \* ticks since last_checking_at
    toCheck,            \* to_remove_entries not yet checked
    tx,                 \* the transaction in work, at most one
    attached,           \* its block is still on the main chain
    table               \* what the rows sent make of network_transaction

node == <<status, submits, commits>>
pipe == <<pending, taken, open>>
vars == <<node, pipe, pc, entries, age, lastChecking, toCheck, tx, attached, table>>

Messages == INSTANCE Pipe WITH Message <- Txs

Init ==
    /\ status = [t \in Txs |-> "unknown"] /\ submits = 0 /\ commits = 0
    /\ Messages!Init
    /\ pc = "polling" /\ entries = {} /\ age = [t \in Txs |-> 0] /\ lastChecking = 0
    /\ toCheck = {} /\ tx = {} /\ attached = FALSE /\ table = <<>>
-----------------------------------------------------------------------------
(* The node.                                                               *)

(* A transaction enters the pool and is announced.                         *)
Submit(t) ==
    /\ status[t] = "unknown" /\ submits < MaxSubmits
    /\ submits' = submits + 1
    /\ status' = [status EXCEPT ![t] = "pool"]
    /\ Messages!Put(t) \/ (~open /\ UNCHANGED pipe)
    /\ UNCHANGED <<commits, pc, entries, age, lastChecking, toCheck, tx, attached,
                   table>>

Commit(t) ==
    /\ status[t] = "pool" /\ commits < MaxCommits
    /\ commits' = commits + 1
    /\ status' = [status EXCEPT ![t] = "committed"]
    /\ UNCHANGED <<submits, pipe, pc, entries, age, lastChecking, toCheck, tx, attached,
                   table>>

(* It is replaced, expires or becomes invalid.                             *)
Drop(t) ==
    /\ status[t] = "pool"
    /\ status' = [status EXCEPT ![t] = "unknown"]
    /\ UNCHANGED <<submits, commits, pipe, pc, entries, age, lastChecking, toCheck, tx,
                   attached, table>>

(* Its block is detached: it is back in the pool.  If the node announces   *)
(* it again, that is a Drop and another Submit.                            *)
Detach(t) ==
    /\ status[t] = "committed"
    /\ status' = [status EXCEPT ![t] = "pool"]
    /\ attached' = (attached /\ t \notin tx)
    /\ UNCHANGED <<submits, commits, pipe, pc, entries, age, lastChecking, toCheck, tx,
                   table>>

Disconnect ==
    /\ open /\ Messages!Cut
    /\ UNCHANGED <<node, pc, entries, age, lastChecking, toCheck, tx, attached, table>>

AtMost(n, limit) == IF n < limit THEN n ELSE limit

Tick ==
    /\ age' = [t \in Txs |-> AtMost(age[t] + 1, SUSPEND_SECONDS + 1)]
    /\ lastChecking' = AtMost(lastChecking + 1, CheckInterval)
    /\ UNCHANGED <<node, pipe, pc, entries, toCheck, tx, attached, table>>
-----------------------------------------------------------------------------
(* run                                                                     *)

(* The message of a transaction that is not waiting already.               *)
Receive ==
    /\ pc = "polling" /\ Messages!Take
    /\ Head(pending) \notin entries
    /\ pc' = "report_enter"
    /\ tx' = {Head(pending)}
    /\ age' = [age EXCEPT ![Head(pending)] = 0]
    /\ UNCHANGED <<node, entries, lastChecking, toCheck, attached, table>>

Ignore ==
    /\ pc = "polling" /\ Messages!Take
    /\ Head(pending) \in entries
    /\ UNCHANGED <<node, pc, entries, age, lastChecking, toCheck, tx, attached, table>>

(* insert_query: only the enter_time is known.  Of the other two columns   *)
(* it matters here whether they are NULL.                                  *)
Row(t) == [tx |-> t, commit_time |-> FALSE, remove_time |-> FALSE]

(* report_enter gets through and the entry is inserted.                    *)
ReportEnter ==
    /\ pc = "report_enter"
    /\ pc' = "polling"
    /\ \E t \in tx :
           /\ table' = Append(table, Row(t))
           /\ entries' = entries \cup {t}
    /\ tx' = {}
    /\ UNCHANGED <<node, pipe, age, lastChecking, toCheck, attached>>

End ==
    /\ pc = "polling" /\ pending = <<>> /\ ~open
    /\ pc' = "ended"
    /\ UNCHANGED <<node, pipe, entries, age, lastChecking, toCheck, tx, attached, table>>

Overdue == {t \in entries : age[t] > SUSPEND_SECONDS}

(* Mutant of Check: the entries are looked at, not taken out.              *)
CheckKeeps ==
    /\ pc = "polling" /\ open /\ lastChecking >= CheckInterval
    /\ pc' = "checking"
    /\ toCheck' = Overdue
    /\ UNCHANGED <<node, pipe, entries, age, lastChecking, tx, attached, table>>

(* check, up to its last loop: only when try_recv finds the channel empty, *)
(* as it may be with every pending message still on its way to it.  That   *)
(* the connection may be cut already is a later Disconnect.                *)
Check ==
    /\ pc = "polling" /\ open /\ lastChecking >= CheckInterval
    /\ pc' = "checking"
    /\ toCheck' = Overdue
    /\ entries' = entries \ Overdue
    /\ UNCHANGED <<node, pipe, age, lastChecking, tx, attached, table>>

(* The call of Jsonrpc; "unknown" is the answer None.                      *)
GetTransaction(t) == status[t]

(* check_entry: the answer of get_transaction decides.                     *)
CheckEntry ==
    /\ pc = "checking"
    /\ \E t \in toCheck :
           /\ toCheck' = toCheck \ {t}
           /\ \/ /\ GetTransaction(t) = "committed"
                 /\ pc' = "get_header" /\ tx' = {t} /\ attached' = TRUE
              \/ /\ GetTransaction(t) = "pool"
                 /\ UNCHANGED <<pc, tx, attached>>
              \/ /\ GetTransaction(t) = "unknown"
                 /\ pc' = "report_remove" /\ tx' = {t} /\ UNCHANGED attached
    /\ UNCHANGED <<node, pipe, entries, age, lastChecking, table>>

(* get_block_timestamp: the header of a block on the main chain, or a      *)
(* cached one.                                                             *)
GetHeader ==
    /\ pc = "get_header"
    /\ pc' = "report_commit"
    /\ UNCHANGED <<node, pipe, entries, age, lastChecking, toCheck, tx, attached, table>>

(* The block has been detached since, and its header is not in the cache.  *)
HeaderIsGone ==
    /\ pc = "get_header" /\ ~attached
    /\ pc' = "checking"
    /\ tx' = {}
    /\ UNCHANGED <<node, pipe, entries, age, lastChecking, toCheck, attached, table>>

(* update_query has the hash for its only condition: every row of the      *)
(* transaction is updated, those of its earlier lives too.                 *)
SetCommitTime(t) ==
    [i \in DOMAIN table |->
        IF table[i].tx = t THEN [table[i] EXCEPT !.commit_time = TRUE] ELSE table[i]]

SetRemoveTime(t) ==
    [i \in DOMAIN table |->
        IF table[i].tx = t THEN [table[i] EXCEPT !.remove_time = TRUE] ELSE table[i]]

(* Mutant of ReportCommit: the remaining checks are given up.              *)
ReportCommitReturns ==
    /\ pc = "report_commit"
    /\ pc' = "checking"
    /\ \E t \in tx : table' = SetCommitTime(t)
    /\ tx' = {} /\ attached' = FALSE /\ toCheck' = {}
    /\ UNCHANGED <<node, pipe, entries, age, lastChecking>>

ReportCommit ==
    /\ pc = "report_commit"
    /\ pc' = "checking"
    /\ \E t \in tx : table' = SetCommitTime(t)
    /\ tx' = {} /\ attached' = FALSE
    /\ UNCHANGED <<node, pipe, entries, age, lastChecking, toCheck>>

ReportRemove ==
    /\ pc = "report_remove"
    /\ pc' = "checking"
    /\ \E t \in tx : table' = SetRemoveTime(t)
    /\ tx' = {}
    /\ UNCHANGED <<node, pipe, entries, age, lastChecking, toCheck, attached>>

(* A call of the node fails and the task panics: what is left of the round *)
(* is lost with it, and so is the subscription.                            *)
CallPanics ==
    /\ pc = "get_header" \/ (pc = "checking" /\ toCheck # {})
    /\ pc' = "failed"
    /\ open' = FALSE /\ pending' = <<>>
    /\ UNCHANGED <<node, taken, entries, age, lastChecking, toCheck, tx, attached, table>>

(* check returns.                                                          *)
Checked ==
    /\ pc = "checking" /\ toCheck = {}
    /\ pc' = "polling"
    /\ lastChecking' = 0
    /\ UNCHANGED <<node, pipe, entries, age, toCheck, tx, attached, table>>

Handler ==
    \/ Receive \/ Ignore \/ ReportEnter \/ End
    \/ Check \/ CheckEntry \/ GetHeader \/ HeaderIsGone
    \/ ReportCommit \/ ReportRemove \/ Checked

Next ==
    \/ \E t \in Txs : Submit(t) \/ Commit(t) \/ Drop(t) \/ Detach(t)
    \/ Disconnect \/ Tick
    \/ Handler \/ CallPanics

Spec == Init /\ [][Next]_vars

(* The task is scheduled, its calls of the node return or panic, its rows  *)
(* get through, and time passes.  That messages pause is not assumed here: *)
(* it follows from the bounds, and without it nothing would be checked.    *)
FairSpec == Spec /\ WF_vars(Handler) /\ WF_vars(Tick)
-----------------------------------------------------------------------------
TypeOK ==
    /\ status \in [Txs -> {"unknown", "pool", "committed"}]
    /\ submits \in 0..MaxSubmits /\ commits \in 0..MaxCommits
    /\ pending \in Seq(Txs) /\ taken \in Seq(Txs) /\ open \in BOOLEAN
    /\ pc \in {"polling", "report_enter", "checking", "get_header", "report_commit",
               "report_remove", "ended", "failed"}
    /\ entries \subseteq Txs /\ toCheck \subseteq Txs
    /\ age \in [Txs -> 0..SUSPEND_SECONDS + 1] /\ lastChecking \in 0..CheckInterval
    /\ tx \subseteq Txs /\ Cardinality(tx) <= 1 /\ attached \in BOOLEAN
    /\ entries \cap (toCheck \cup tx) = {}
    /\ table \in Seq([tx : Txs, commit_time : BOOLEAN, remove_time : BOOLEAN])

(* The row of the running life of its transaction.                         *)
Newest(i) == \A j \in DOMAIN table : i < j => table[j].tx # table[i].tx

(* The newest row of t has a time in that column.                          *)
Says(t, column) ==
    \E i \in DOMAIN table : table[i].tx = t /\ Newest(i) /\ table[i][column]

(* The newest row of t has no verdict.                                     *)
Awaits(t) ==
    \E i \in DOMAIN table :
        /\ table[i].tx = t /\ Newest(i)
        /\ ~table[i].commit_time /\ ~table[i].remove_time

(* An update is of the row it judges: whenever one is sent, the newest row *)
(* of its transaction is there and has no verdict yet.  Nothing is said of *)
(* the rows of earlier lives, which the same update changes.               *)
VerdictsFindTheirRow ==
    pc \in {"report_commit", "report_remove"} => \A t \in tx : Awaits(t)

Column == [committed |-> "commit_time", unknown |-> "remove_time"]

(* What has become of a transaction while it waits for its check is        *)
(* reported, if it stays so and neither the subscription nor a call ends   *)
(* the task: it is not lost with the other entries of the same round,      *)
(* whatever becomes of these between the calls.                            *)
DecidedIsReported ==
    \A t \in Txs : \A what \in {"committed", "unknown"} :
        (t \in entries /\ status[t] = what)
            ~> (Says(t, Column[what]) \/ status[t] # what \/ pc \in {"ended", "failed"})

(* tx_transition.rs:17-18: the committed transactions are known.  A        *)
(* transaction that has entered and is committed for good is reported.     *)
CommittedIsReported ==
    \A t \in Txs :
        (Awaits(t) /\ status[t] = "committed")
            ~> (Says(t, "commit_time") \/ status[t] # "committed"
                \/ pc \in {"ended", "failed"})
=============================================================================

------------------------------- MODULE Runtime -------------------------------
(***************************************************************************)
(* The threads that the writer and its producers run on (src/src/main.rs). *)
(* The main task has the main thread to itself.  The topics and the task   *)
(* of the PostgreSQL connection share the workers of one tokio runtime: a  *)
(* task keeps its worker until it awaits something that is not ready, and  *)
(* timers and sockets are served by workers that no task keeps.            *)
(* NetworkPropagation has a thread and a runtime of its own.               *)
(*                                                                         *)
(* Every batch needs a worker for the connection while the topics may keep *)
(* all of them: "the communication may suspend" (src/src/util/mod.rs:100). *)
(* QueryWriter assumes that batches are answered; here that is derived     *)
(* from the scheduling of threads and tasks.                               *)
(***************************************************************************)
EXTENDS QueryWriter, FiniteSets

CONSTANTS Follower,     \* CanonicalChainState, started with the result of
                        \* a SELECT
          connection,   \* the task of create_pg
          Workers       \* worker threads, one for each core

ASSUME RuntimeAssumption ==
    /\ Follower \in Producers \ Blocking
    /\ connection \notin Producers
    /\ Workers \in Nat \ {0}

VARIABLES
    unspawned,  \* topics that `run` has not started yet
    runnable,   \* tasks that wait for a worker
    running,    \* tasks on a worker, and the thread of NetworkPropagation
    ended,      \* topics that have returned or panicked
    request     \* of the main task to the server: SELECT or batch

threads == <<unspawned, runnable, running, ended, request>>

Topics == Producers \ Blocking

RuntimeInit ==
    /\ Init
    /\ unspawned = Producers /\ runnable = {} /\ running = {} /\ ended = {}
    /\ request = "none"

(* Mutant of OnRuntime: NetworkPropagation is spawned like the others.     *)
OnRuntimeAll(t) == TRUE

OnRuntime(t) == t \notin Blocking

(* Mutant of FreeWorker: more tasks than threads.                          *)
FreeWorkerTooLate == Cardinality({t \in running : OnRuntime(t)}) <= Workers

FreeWorker == Cardinality({t \in running : OnRuntime(t)}) < Workers
-----------------------------------------------------------------------------
(* The main task: `run`.                                                   *)

(* It hands a request to the connection and awaits the answer.             *)
Ask ==
    /\ request' = "asked"
    /\ runnable' = runnable \cup {connection}

Spawn(p) ==
    /\ up /\ request = "none" /\ p \in unspawned \ {Follower}
    /\ unspawned' = unspawned \ {p}
    /\ runnable' = runnable \cup {p}
    /\ UNCHANGED <<vars, running, ended, request>>

(* get_last_updated_block_number, for the follower.                        *)
Select ==
    /\ up /\ request = "none" /\ Follower \in unspawned
    /\ Ask
    /\ UNCHANGED <<vars, unspawned, running, ended>>

(* handle_message, arm Ok.                                                 *)
TakeQuery ==
    /\ unspawned = {} /\ HandleQuery
    /\ IF executing' THEN Ask ELSE UNCHANGED <<request, runnable>>
    /\ UNCHANGED <<unspawned, running, ended>>

(* Mutant of Senders: `run` drops its own sender when all topics have one. *)
SendersOfTopics == Producers \ ended

(* Who has a sender of the channel: the topics that have not ended, and    *)
(* `run`, for good.                                                        *)
Senders == (Producers \ ended) \cup {"run"}

(* The process is at an end, and with it all its tasks.                    *)
Forget ==
    /\ unspawned' = Producers /\ runnable' = {} /\ running' = {} /\ ended' = {}
    /\ request' = "none"

(* std::process::exit, with what is in the batch.                          *)
Exit ==
    /\ up' = FALSE /\ batch' = <<>> /\ Forget
    /\ UNCHANGED <<sent, asleep, channel, overdue, executing, table, doubtful, crashes>>

(* handle_message, arms Empty and Disconnected.                            *)
FindNothing ==
    /\ up /\ unspawned = {} /\ ~executing /\ channel = <<>>
    /\ IF Senders = {} THEN Exit
       ELSE HandleEmpty /\ Ask /\ UNCHANGED <<unspawned, running, ended>>
-----------------------------------------------------------------------------
(* The runtime.                                                            *)

(* A worker takes a task; the thread of NetworkPropagation begins.         *)
Poll(t) ==
    /\ t \in runnable
    /\ OnRuntime(t) => FreeWorker
    /\ runnable' = runnable \ {t}
    /\ running' = running \cup {t}
    /\ UNCHANGED <<vars, unspawned, ended, request>>

(* A timer or a socket makes a task runnable.                              *)
Awake(t) == FreeWorker /\ runnable' = runnable \cup {t}

(* The task gives its worker back.                                         *)
Await(t) == t \in running /\ running' = running \ {t}

(* The connection writes the request to its socket.                        *)
WriteRequest ==
    /\ request = "asked" /\ Await(connection)
    /\ request' = "sent"
    /\ UNCHANGED <<vars, unspawned, runnable, ended>>

(* The server has answered and its socket is seen to be readable.          *)
ServerAnswers ==
    /\ request = "sent" /\ Awake(connection)
    /\ request' = "answered"
    /\ UNCHANGED <<vars, unspawned, running, ended>>

(* The connection reads the answer and `run` goes on: to the next query,   *)
(* or to the start of the follower.                                        *)
ReadAnswer ==
    /\ request = "answered" /\ Await(connection)
    /\ request' = "none"
    /\ \/ BatchExecuted /\ UNCHANGED <<unspawned, runnable>>
       \/ /\ ~executing
          /\ unspawned' = unspawned \ {Follower}
          /\ runnable' = runnable \cup {Follower}
          /\ UNCHANGED vars
    /\ UNCHANGED ended
-----------------------------------------------------------------------------
(* The topics.                                                             *)

(* A topic reports a row; if the channel is full it sleeps for a second.   *)
Report(t) ==
    /\ t \in running /\ TrySend(t)
    /\ running' = running \ asleep'
    /\ UNCHANGED <<unspawned, runnable, ended, request>>

(* It has nothing to report and sleeps, or awaits its subscription.        *)
Nap(t) ==
    /\ t \in Topics /\ Await(t)
    /\ UNCHANGED <<vars, unspawned, runnable, ended, request>>

Napping(t) == t \in Topics \ (unspawned \cup runnable \cup running \cup ended \cup asleep)

(* The timer of its sleep is over.                                         *)
WakeUp(t) ==
    /\ up /\ Awake(t)
    /\ Wake(t) \/ (Napping(t) /\ UNCHANGED vars)
    /\ UNCHANGED <<unspawned, running, ended, request>>

(* Its subscription is over, or a call of the node or an assumption of its *)
(* own fails and the task panics.                                          *)
End(t) ==
    /\ t \in Topics /\ Await(t)
    /\ ended' = ended \cup {t}
    /\ UNCHANGED <<vars, unspawned, runnable, request>>

(* A protocol handler of NetworkPropagation, on another runtime, reports.  *)
BlockingReport(p) == p \in running /\ BlockingSend(p) /\ UNCHANGED threads

(* NetworkPropagation panics before its service runs.                      *)
StartFails(p) ==
    /\ p \in Blocking \cap runnable
    /\ runnable' = runnable \ {p}
    /\ ended' = ended \cup {p}
    /\ UNCHANGED <<vars, unspawned, running, request>>
-----------------------------------------------------------------------------
(* The process fails or is killed.                                         *)

(* The connection reads an error and the main task panics.                 *)
ReadError == request = "answered" /\ connection \in running /\ BatchFailed /\ Forget

Killed == Kill /\ Forget

Others ==
    /\ Elapse \/ Restart \/ \E b \in doubtful : Settle(b)
    /\ UNCHANGED threads

Start == (\E p \in Producers : Spawn(p)) \/ Select

Work(t) == Report(t) \/ Nap(t) \/ End(t)

RuntimeNext ==
    \/ Start \/ TakeQuery \/ FindNothing
    \/ \E t \in Producers \cup {connection} : Poll(t)
    \/ WriteRequest \/ ServerAnswers \/ ReadAnswer
    \/ \E t \in Producers : Work(t) \/ WakeUp(t) \/ BlockingReport(t) \/ StartFails(t)
    \/ ReadError \/ Killed \/ Others

(* The main thread runs.  A topic that has a worker goes on until it       *)
(* awaits.  A worker that is free again and again takes the connection     *)
(* when it is runnable, and serves its socket.  Nothing is assumed of what *)
(* topics do, of their timers, or of NetworkPropagation.                   *)
RuntimeFairness ==
    /\ WF_<<vars, threads>>(Start)
    /\ WF_<<vars, threads>>(TakeQuery) /\ WF_<<vars, threads>>(FindNothing)
    /\ \A t \in Topics : WF_<<vars, threads>>(Work(t))
    /\ SF_<<vars, threads>>(Poll(connection)) /\ SF_<<vars, threads>>(ServerAnswers)
    /\ WF_<<vars, threads>>(WriteRequest) /\ WF_<<vars, threads>>(ReadAnswer \/ ReadError)

RuntimeSpec == RuntimeInit /\ [][RuntimeNext]_<<vars, threads>> /\ RuntimeFairness
-----------------------------------------------------------------------------
(* What has a worker is neither asleep nor at an end, and no task is in    *)
(* two queues.                                                             *)
RuntimeTypeOK ==
    /\ unspawned \subseteq Producers /\ ended \subseteq Producers
    /\ runnable \subseteq Producers \cup {connection}
    /\ running \subseteq Producers \cup {connection}
    /\ Cardinality(running \ Blocking) <= Workers
    /\ request \in {"none", "asked", "sent", "answered"}
    /\ running \cap (asleep \cup ended \cup runnable \cup unspawned) = {}
    /\ executing => request # "none"

(* RuntimeTypeOK made inductive: a task is in one place at a time, and the *)
(* connection has something to do as long as a request is on its way.      *)
RuntimeInv ==
    /\ RuntimeTypeOK /\ IsFiniteSet(running) /\ asleep \subseteq Producers
    /\ runnable \cap (unspawned \cup ended \cup asleep) = {}
    /\ unspawned \cap (ended \cup asleep) = {} /\ ended \cap asleep = {}
    /\ connection \in runnable \cup running <=> request \in {"asked", "answered"}
    /\ request # "none" => executing \/ Follower \in unspawned
    /\ executing => unspawned = {}

(* What QueryWriter assumes of the scheduling: the channel is polled and   *)
(* batches are answered.  util/mod.rs:99-104: the topics, the connection   *)
(* and the main task wait for one another, and yet nothing is suspended.   *)
WriterIsScheduled == Fairness

(* Whatever ends, topics or all of them, what they have sent is written,   *)
(* unless the process fails or is killed: it does not exit by itself with  *)
(* a batch in its hands (main.rs:314).                                     *)
NothingLeftBehind ==
    \A q \in Query :
        q \in ToSet(batch \o channel) ~> q \in ToSet(table) \/ crashes > q.life
=============================================================================

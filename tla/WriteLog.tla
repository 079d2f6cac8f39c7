------------------------------ MODULE WriteLog ------------------------------
(***************************************************************************)
(* What the writing side of ckb-analyzer promises to the topics that hand  *)
(* it SQL queries: a bounded queue in front of a durable log.  Queries     *)
(* become durable in the order in which they were accepted, a batch of     *)
(* them at a time, all of the batch or nothing.  A crash of the process    *)
(* loses what is not yet durable; the one batch that was being executed is *)
(* then in doubt, and the database settles it later, either way.           *)
(***************************************************************************)
EXTENDS Naturals, Sequences, SequencesExt

CONSTANTS Query,        \* the queries
          Capacity,     \* queries accepted and not yet durable, at most
          MaxBatch      \* queries made durable by one transaction, at most

VARIABLES accepted,     \* accepted and not yet durable, oldest first
          durable,      \* committed queries in commit order
          doubtful      \* batches whose fate a crash left to the database

vars == <<accepted, durable, doubtful>>

Init == accepted = <<>> /\ durable = <<>> /\ doubtful = {}

Accept(q) ==
    /\ Len(accepted) < Capacity
    /\ accepted' = Append(accepted, q)
    /\ UNCHANGED <<durable, doubtful>>

Persist(n) ==
    /\ n <= Len(accepted)
    /\ durable' = durable \o SubSeq(accepted, 1, n)
    /\ accepted' = SubSeq(accepted, n + 1, Len(accepted))
    /\ UNCHANGED doubtful

Crash(n) ==
    /\ n <= Len(accepted)
    /\ accepted' = <<>>
    /\ doubtful' = doubtful \cup (IF n = 0 THEN {} ELSE {SubSeq(accepted, 1, n)})
    /\ UNCHANGED durable

Settle(b) ==
    /\ doubtful' = doubtful \ {b}
    /\ durable' \in {durable, durable \o b}
    /\ UNCHANGED accepted

Next ==
    \/ \E q \in Query : Accept(q)
    \/ \E n \in 1..MaxBatch : Persist(n)
    \/ \E n \in 0..MaxBatch : Crash(n)
    \/ \E b \in doubtful : Settle(b)

Spec == Init /\ [][Next]_vars
=============================================================================

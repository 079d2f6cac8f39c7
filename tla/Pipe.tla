-------------------------------- MODULE Pipe --------------------------------
(***************************************************************************)
(* What a topic may expect of its subscription: the messages the node      *)
(* announces come in order and once each, until the connection is cut.     *)
(* The cut loses the last of them, never one in between.                   *)
(***************************************************************************)
EXTENDS Naturals, Sequences

CONSTANT Message

VARIABLES pending,      \* announced and not yet taken by the topic
          taken,        \* taken by the topic, oldest first
          open          \* the connection and the topic are alive

vars == <<pending, taken, open>>

Init == pending = <<>> /\ taken = <<>> /\ open = TRUE

Put(m) ==
    /\ open
    /\ pending' = Append(pending, m)
    /\ UNCHANGED <<taken, open>>

Take ==
    /\ pending # <<>>
    /\ taken' = Append(taken, Head(pending))
    /\ pending' = Tail(pending)
    /\ UNCHANGED open

Cut ==
    /\ open' = FALSE
    /\ \E n \in 0..Len(pending) : pending' = SubSeq(pending, 1, n)
    /\ UNCHANGED taken

Next == (\E m \in Message : Put(m)) \/ Take \/ Cut

Spec == Init /\ [][Next]_vars
=============================================================================

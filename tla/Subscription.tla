---------------------------- MODULE Subscription ----------------------------
(***************************************************************************)
(* The way of a subscribed message from the node to a topic, and the end   *)
(* of that way:                                                            *)
(*                                                                         *)
(*   socket -> runtime01 (subscribe.rs, a thread with a tokio 0.1 runtime) *)
(*     -> publisher (tokio 0.1 channel)                                    *)
(*     -> forwarder (util/mod.rs, a thread) -> channel (crossbeam)         *)
(*     -> handler (the task of the topic)                                  *)
(*                                                                         *)
(* The handler is the loop that SubscribeNewTipHeader,                     *)
(* SubscribeNewTransaction, SubscribeProposedTransaction, Reorganization   *)
(* and TxTransition share; the first three only report each message.       *)
(* Each part ends when it finds the next one gone or the one before it     *)
(* finished, and nobody starts it again.                                   *)
(***************************************************************************)
EXTENDS Naturals, Sequences, SequencesExt

CONSTANTS PublisherCapacity,    \* 100 in the code
          ChannelCapacity,      \* 100 in the code
          MaxMessages           \* bound: messages the node announces

ASSUME SubscriptionAssumption ==
    /\ PublisherCapacity \in Nat \ {0} /\ ChannelCapacity \in Nat \ {0}
    /\ MaxMessages \in Nat

VARIABLES
    announced,      \* messages of the node so far; the n-th is n
    connected,      \* the node keeps the connection
    wire,           \* announced and not yet read from the socket
    runtime01,      \* the thread of the subscription runs
    publisher,      \* the tokio 0.1 channel
    forwarder,      \* the forwarding thread runs
    hand,           \* what it took and has not yet sent
    channel,        \* the crossbeam channel
    handler,        \* the task of the topic
    message,        \* the message it is reporting
    reported        \* what it has reported

vars == <<announced, connected, wire, runtime01, publisher, forwarder, hand, channel,
          handler, message, reported>>

Init ==
    /\ announced = 0 /\ connected = TRUE /\ wire = <<>>
    /\ runtime01 = TRUE /\ publisher = <<>>
    /\ forwarder = TRUE /\ hand = <<>> /\ channel = <<>>
    /\ handler = "polling" /\ message = <<>> /\ reported = <<>>

HandlerAlive == handler \in {"polling", "reporting"}
-----------------------------------------------------------------------------
(* The node and the network.                                               *)
Announce ==
    /\ connected /\ announced < MaxMessages
    /\ announced' = announced + 1
    /\ wire' = Append(wire, announced')
    /\ UNCHANGED <<connected, runtime01, publisher, forwarder, hand, channel, handler,
                   message, reported>>

(* The connection ends; some of what was on its way still arrives.         *)
Disconnect ==
    /\ connected
    /\ connected' = FALSE
    /\ \E n \in 0..Len(wire) : wire' = SubSeq(wire, 1, n)
    /\ UNCHANGED <<announced, runtime01, publisher, forwarder, hand, channel, handler,
                   message, reported>>
-----------------------------------------------------------------------------
(* Subscription::run                                                       *)

(* Mutant of Publish: the callback does not wait.                          *)
PublishAtOnce ==
    /\ runtime01 /\ forwarder /\ wire # <<>>
    /\ publisher' = Append(publisher, Head(wire))
    /\ wire' = Tail(wire)
    /\ UNCHANGED <<announced, connected, runtime01, forwarder, hand, channel, handler,
                   message, reported>>

(* The callback of for_each waits for a place in the channel.              *)
Publish ==
    /\ runtime01 /\ forwarder /\ wire # <<>>
    /\ Len(publisher) < PublisherCapacity
    /\ publisher' = Append(publisher, Head(wire))
    /\ wire' = Tail(wire)
    /\ UNCHANGED <<announced, connected, runtime01, forwarder, hand, channel, handler,
                   message, reported>>

(* Its send fails without a receiver: panic.                               *)
PublishFails ==
    /\ runtime01 /\ ~forwarder /\ wire # <<>>
    /\ runtime01' = FALSE
    /\ UNCHANGED <<announced, connected, wire, publisher, forwarder, hand, channel,
                   handler, message, reported>>

(* The stream is over, with or without an error: block_on returns or the   *)
(* thread panics, and the publisher is dropped.                            *)
StreamEnds ==
    /\ runtime01 /\ ~connected /\ wire = <<>>
    /\ runtime01' = FALSE
    /\ UNCHANGED <<announced, connected, wire, publisher, forwarder, hand, channel,
                   handler, message, reported>>
-----------------------------------------------------------------------------
(* forward_tokio1_channel                                                  *)

ForwardTake ==
    /\ forwarder /\ hand = <<>> /\ publisher # <<>>
    /\ hand' = <<Head(publisher)>>
    /\ publisher' = Tail(publisher)
    /\ UNCHANGED <<announced, connected, wire, runtime01, forwarder, channel, handler,
                   message, reported>>

(* Mutant of ForwardSend: a full channel is not waited for.                *)
ForwardTrySend ==
    /\ forwarder /\ hand # <<>> /\ HandlerAlive
    /\ channel' = IF Len(channel) < ChannelCapacity THEN channel \o hand ELSE channel
    /\ hand' = <<>>
    /\ UNCHANGED <<announced, connected, wire, runtime01, publisher, forwarder, handler,
                   message, reported>>

(* The send of the forwarder blocks on a full channel.                     *)
ForwardSend ==
    /\ forwarder /\ hand # <<>> /\ HandlerAlive
    /\ Len(channel) < ChannelCapacity
    /\ channel' = channel \o hand
    /\ hand' = <<>>
    /\ UNCHANGED <<announced, connected, wire, runtime01, publisher, forwarder, handler,
                   message, reported>>

(* Without a receiver the send fails: panic, and what the tokio 0.1        *)
(* channel holds is dropped with its receiver.                             *)
ForwardFails ==
    /\ forwarder /\ hand # <<>> /\ ~HandlerAlive
    /\ forwarder' = FALSE
    /\ hand' = <<>> /\ publisher' = <<>>
    /\ UNCHANGED <<announced, connected, wire, runtime01, channel, handler, message,
                   reported>>

(* Mutant of ForwardEnds: a publisher is kept elsewhere.                   *)
ForwardStays ==
    /\ forwarder /\ hand = <<>> /\ publisher = <<>> /\ ~runtime01
    /\ UNCHANGED vars

(* All publishers are gone and the channel is empty.                       *)
ForwardEnds ==
    /\ forwarder /\ hand = <<>> /\ publisher = <<>> /\ ~runtime01
    /\ forwarder' = FALSE
    /\ UNCHANGED <<announced, connected, wire, runtime01, publisher, hand, channel,
                   handler, message, reported>>
-----------------------------------------------------------------------------
(* run of the topic                                                        *)

(* try_recv gets a message.                                                *)
Receive ==
    /\ handler = "polling" /\ channel # <<>>
    /\ handler' = "reporting"
    /\ message' = <<Head(channel)>>
    /\ channel' = Tail(channel)
    /\ UNCHANGED <<announced, connected, wire, runtime01, publisher, forwarder, hand,
                   reported>>

(* retry_send gets the row into the channel of queries.                    *)
Report ==
    /\ handler = "reporting"
    /\ handler' = "polling"
    /\ reported' = reported \o message
    /\ message' = <<>>
    /\ UNCHANGED <<announced, connected, wire, runtime01, publisher, forwarder, hand,
                   channel>>

(* The message cannot be decoded, or one of the handler's own assumptions  *)
(* about the node fails: the task panics and its receiver is dropped.      *)
HandlerPanics ==
    /\ handler = "reporting"
    /\ handler' = "dead"
    /\ channel' = <<>>
    /\ UNCHANGED <<announced, connected, wire, runtime01, publisher, forwarder, hand,
                   message, reported>>

(* Mutant of HandlerEnds: the end of the subscription is looked for before *)
(* the messages.                                                           *)
HandlerEndsEarly ==
    /\ handler = "polling" /\ ~forwarder
    /\ handler' = "ended"
    /\ UNCHANGED <<announced, connected, wire, runtime01, publisher, forwarder, hand,
                   channel, message, reported>>

(* TryRecvError::Disconnected                                              *)
HandlerEnds ==
    /\ handler = "polling" /\ channel = <<>> /\ ~forwarder
    /\ handler' = "ended"
    /\ UNCHANGED <<announced, connected, wire, runtime01, publisher, forwarder, hand,
                   channel, message, reported>>

Next ==
    \/ Announce \/ Disconnect
    \/ Publish \/ PublishFails \/ StreamEnds
    \/ ForwardTake \/ ForwardSend \/ ForwardFails \/ ForwardEnds
    \/ Receive \/ Report \/ HandlerPanics \/ HandlerEnds

Spec == Init /\ [][Next]_vars

(* Threads and tasks are scheduled and retry_send gets through in the end. *)
(* Neither the node's messages, nor the end of the connection, nor a panic *)
(* have to happen.                                                         *)
Fairness ==
    /\ WF_vars(Publish \/ PublishFails \/ StreamEnds)
    /\ WF_vars(ForwardTake \/ ForwardSend \/ ForwardFails \/ ForwardEnds)
    /\ WF_vars(Receive \/ Report \/ HandlerEnds)

FairSpec == Spec /\ Fairness
-----------------------------------------------------------------------------
Messages == 1..MaxMessages

TypeOK ==
    /\ announced \in 0..MaxMessages
    /\ connected \in BOOLEAN /\ runtime01 \in BOOLEAN /\ forwarder \in BOOLEAN
    /\ wire \in Seq(Messages) /\ publisher \in Seq(Messages) /\ hand \in Seq(Messages)
    /\ channel \in Seq(Messages) /\ message \in Seq(Messages) /\ reported \in Seq(Messages)
    /\ Len(publisher) <= PublisherCapacity /\ Len(channel) <= ChannelCapacity
    /\ Len(hand) <= 1 /\ Len(message) <= 1
    /\ handler \in {"polling", "reporting", "dead", "ended"}

(* The five stages between the node and the handler together are a Pipe.   *)
P == INSTANCE Pipe WITH
    Message <- Messages,
    pending <- IF HandlerAlive THEN channel \o hand \o publisher \o wire ELSE <<>>,
    taken <- reported \o message,
    open <- connected /\ HandlerAlive

(* No stage loses, repeats or overtakes a message, also while the stages   *)
(* fill up, block and end one after the other.                             *)
ImplementsPipe == P!Spec

(* A handler that ends without a panic has reported every message that was *)
(* read from the socket: it does not give up while one is still in a       *)
(* channel or in the forwarder's hand.                                     *)
EndsDrained ==
    handler = "ended" =>
        /\ ~connected /\ ~runtime01
        /\ wire \o publisher \o hand \o channel = <<>>

(* When the connection has ended, so do all three parts; none is left      *)
(* blocked on a channel.                                                   *)
AllEnd == ~connected ~> (~runtime01 /\ ~forwarder /\ ~HandlerAlive)

(* A message that has been read from the socket is reported, unless the    *)
(* handler panics before.                                                  *)
ReadIsReported ==
    \A m \in Messages :
        m \in ToSet(publisher) ~> (m \in ToSet(reported) \/ handler = "dead")
=============================================================================

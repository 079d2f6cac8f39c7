------------------------- MODULE SubscriptionProofs -------------------------
(***************************************************************************)
(* Theorems about Subscription, for all capacities of the two channels and *)
(* any number of messages: it is a Pipe, and a handler that ends has left  *)
(* nothing behind.                                                         *)
(***************************************************************************)
EXTENDS Subscription, SequenceTheorems, TLAPS

(***************************************************************************)
(* Concatenation, under a name the provers do not interpret.               *)
(***************************************************************************)
Cat(s, t) == s \o t

LEMMA CatType ==
    ASSUME NEW S, NEW s \in Seq(S), NEW t \in Seq(S)
    PROVE  Cat(s, t) \in Seq(S)
BY ConcatProperties DEF Cat

LEMMA CatEmpty ==
    ASSUME NEW S, NEW s \in Seq(S)
    PROVE  Cat(s, <<>>) = s /\ Cat(<<>>, s) = s
BY ConcatEmptySeq DEF Cat

LEMMA CatAssociative ==
    ASSUME NEW S, NEW s \in Seq(S), NEW t \in Seq(S), NEW u \in Seq(S)
    PROVE  Cat(Cat(s, t), u) = Cat(s, Cat(t, u))
BY ConcatAssociative DEF Cat

LEMMA One == ASSUME NEW S, NEW m \in S PROVE <<m>> \in Seq(S)
OBVIOUS

LEMMA AppendIsCat ==
    ASSUME NEW S, NEW s \in Seq(S), NEW m \in S
    PROVE  Append(s, m) = Cat(s, <<m>>)
BY AppendIsConcat DEF Cat

LEMMA HeadAndTail ==
    ASSUME NEW S, NEW s \in Seq(S), s # <<>>
    PROVE  Head(s) \in S /\ Tail(s) \in Seq(S) /\ Cat(<<Head(s)>>, Tail(s)) = s
<1>1. Head(s) \in S /\ Tail(s) \in Seq(S)
      BY HeadTailProperties
<1>2. 1 \in 1..Len(s) /\ Len(s) \in 1..Len(s) /\ s[1] = Head(s)
      BY LenProperties, EmptySeq
<1>3. SubSeq(s, 1, Len(s)) = <<s[1]>> \o SubSeq(s, 1 + 1, Len(s))
      BY <1>2, SubSeqRecursiveFirst
<1>4. SubSeq(s, 1, Len(s)) = s /\ SubSeq(s, 1 + 1, Len(s)) = Tail(s)
      BY SubSeqFull, TailIsSubSeq
<1>5. s = <<Head(s)>> \o Tail(s)
      BY <1>2, <1>3, <1>4
<1>6. QED BY <1>1, <1>5 DEF Cat

(* The first message of a flow is the first of its first stage.            *)
LEMMA HeadOfCat ==
    ASSUME NEW S, NEW s \in Seq(S), NEW t \in Seq(S), s # <<>>
    PROVE  /\ Cat(s, t) # <<>> /\ Head(Cat(s, t)) = Head(s)
           /\ Tail(Cat(s, t)) = Cat(Tail(s), t)
<1> DEFINE c == s \o t
           d == Tail(s) \o t
<1>1. /\ c \in Seq(S) /\ Len(c) = Len(s) + Len(t) /\ Len(s) \in Nat \ {0} /\ Len(t) \in Nat
      /\ \A i \in 1..Len(s) + Len(t) : c[i] = IF i <= Len(s) THEN s[i] ELSE t[i - Len(s)]
      BY ConcatProperties, LenProperties, EmptySeq
<1>2. /\ Tail(s) \in Seq(S) /\ Len(Tail(s)) = Len(s) - 1
      /\ \A i \in 1..Len(s) - 1 : Tail(s)[i] = s[i + 1]
      BY HeadTailProperties
<1>3. /\ d \in Seq(S) /\ Len(d) = Len(s) - 1 + Len(t)
      /\ \A i \in 1..Len(s) - 1 + Len(t) :
             d[i] = IF i <= Len(s) - 1 THEN Tail(s)[i] ELSE t[i - (Len(s) - 1)]
      BY <1>2, ConcatProperties
<1> HIDE DEF c, d
<1>4. c # <<>> /\ Head(c) = Head(s)
  <2>1. c[1] = s[1] /\ Len(c) # 0
        BY <1>1
  <2>2. QED BY <1>1, <2>1, EmptySeq
<1>5. /\ Tail(c) \in Seq(S) /\ Len(Tail(c)) = Len(c) - 1
      /\ \A i \in 1..Len(c) - 1 : Tail(c)[i] = c[i + 1]
      BY <1>1, <1>4, HeadTailProperties
<1>6. Len(Tail(c)) = Len(d)
      BY <1>1, <1>3, <1>5
<1>7. ASSUME NEW i \in 1..Len(d) PROVE Tail(c)[i] = d[i]
  <2>1. i \in 1..Len(c) - 1 /\ i + 1 \in 1..Len(s) + Len(t) /\ i \in 1..Len(s) - 1 + Len(t)
        BY <1>1, <1>3
  <2>2. Tail(c)[i] = c[i + 1]
        BY <1>5, <2>1
  <2>3. CASE i <= Len(s) - 1
    <3>1. c[i + 1] = s[i + 1] /\ i \in 1..Len(s) - 1
          BY <1>1, <2>1, <2>3
    <3>2. d[i] = s[i + 1]
          BY <1>2, <1>3, <2>1, <2>3, <3>1
    <3>3. QED BY <2>2, <3>1, <3>2
  <2>4. CASE ~(i <= Len(s) - 1)
    <3>1. c[i + 1] = t[i + 1 - Len(s)]
          BY <1>1, <2>1, <2>4
    <3>2. d[i] = t[i - (Len(s) - 1)] /\ i - (Len(s) - 1) = i + 1 - Len(s)
          BY <1>1, <1>3, <2>1, <2>4
    <3>3. QED BY <2>2, <3>1, <3>2
  <2>5. QED BY <2>3, <2>4
<1>8. Tail(c) = d
      BY <1>3, <1>5, <1>6, <1>7, SeqEqual
<1>9. QED BY <1>4, <1>8 DEF Cat, c, d

(* What remains of the last stage of a flow is what remains of the flow.   *)
LEMMA CutOfCat ==
    ASSUME NEW S, NEW s \in Seq(S), NEW t \in Seq(S), NEW n \in 0..Len(t)
    PROVE  \E k \in 0..Len(Cat(s, t)) : Cat(s, SubSeq(t, 1, n)) = SubSeq(Cat(s, t), 1, k)
<1> DEFINE c == s \o t
           z == SubSeq(t, 1, n)
           d == s \o z
           k == Len(s) + n
           e == SubSeq(c, 1, k)
<1>1. /\ c \in Seq(S) /\ Len(c) = Len(s) + Len(t) /\ Len(s) \in Nat /\ Len(t) \in Nat
      /\ \A i \in 1..Len(s) + Len(t) : c[i] = IF i <= Len(s) THEN s[i] ELSE t[i - Len(s)]
      BY ConcatProperties, LenProperties
<1>2. n \in Int /\ 1 \in Int /\ n \in 0..Len(t) /\ k \in Int /\ k \in 0..Len(c)
      BY <1>1
<1>3. z \in Seq(S) /\ Len(z) = n /\ \A i \in 1..n : z[i] = t[i]
  <2>1. \A i \in 1..n : t[i] \in S
        BY <1>1, <1>2, ElementOfSeq
  <2>2. /\ z \in Seq(S) /\ Len(z) = IF 1 <= n THEN n - 1 + 1 ELSE 0
        /\ \A i \in 1..n - 1 + 1 : z[i] = t[1 + i - 1]
        BY <1>2, <2>1, SubSeqProperties
  <2> HIDE DEF z
  <2>3. Len(z) = n
        BY <1>1, <1>2, <2>2
  <2>4. ASSUME NEW i \in 1..n PROVE z[i] = t[i]
    <3>1. i \in 1..n - 1 + 1 /\ 1 + i - 1 = i
          BY <1>2
    <3>2. QED BY <2>2, <3>1
  <2>5. QED BY <2>2, <2>3, <2>4
<1> HIDE DEF z
<1>4. /\ d \in Seq(S) /\ Len(d) = Len(s) + n
      /\ \A i \in 1..Len(s) + n : d[i] = IF i <= Len(s) THEN s[i] ELSE z[i - Len(s)]
      BY <1>3, ConcatProperties
<1> HIDE DEF c, d
<1>5. e \in Seq(S) /\ Len(e) = k /\ \A i \in 1..k : e[i] = c[i]
  <2>1. \A i \in 1..k : c[i] \in S
    <3>1. \A i \in 1..Len(c) : c[i] \in S
          BY <1>1, ElementOfSeq
    <3>2. QED BY <1>1, <1>2, <3>1
  <2>2. /\ e \in Seq(S) /\ Len(e) = IF 1 <= k THEN k - 1 + 1 ELSE 0
        /\ \A i \in 1..k - 1 + 1 : e[i] = c[1 + i - 1]
        BY <1>2, <2>1, SubSeqProperties
  <2>3. k \in Nat
        BY <1>1, <1>2
  <2> HIDE DEF e, k
  <2>4. Len(e) = k
        BY <2>2, <2>3
  <2>5. ASSUME NEW i \in 1..k PROVE e[i] = c[i]
    <3>1. i \in 1..k - 1 + 1 /\ 1 + i - 1 = i
          BY <2>3
    <3>2. QED BY <2>2, <3>1
  <2>6. QED BY <2>2, <2>4, <2>5
<1> HIDE DEF e
<1>6. ASSUME NEW i \in 1..k PROVE d[i] = e[i]
  <2>1. i \in 1..Len(s) + n /\ i \in 1..Len(s) + Len(t)
        BY <1>1, <1>2
  <2>2. e[i] = c[i]
        BY <1>5
  <2>3. CASE i <= Len(s)
        BY <1>1, <1>4, <2>1, <2>2, <2>3
  <2>4. CASE ~(i <= Len(s))
    <3>1. d[i] = z[i - Len(s)] /\ c[i] = t[i - Len(s)] /\ i - Len(s) \in 1..n
          BY <1>1, <1>2, <1>4, <2>1, <2>4
    <3>2. QED BY <1>3, <2>2, <3>1
  <2>5. QED BY <2>3, <2>4
<1>7. d = e
  <2>1. Len(d) = Len(e)
        BY <1>4, <1>5
  <2>2. \A i \in 1..Len(d) : d[i] = e[i]
        BY <1>4, <1>6
  <2>3. QED BY <1>4, <1>5, <2>1, <2>2, SeqEqual
<1>8. QED BY <1>2, <1>7 DEF Cat, c, d, e, z

(***************************************************************************)
(* Type correctness, and the order in which the stages end.                *)
(***************************************************************************)

(* Each stage ends after the one before it, and leaves nothing to it,      *)
(* unless the handler has panicked; a handler that polls has no message.   *)
Orderly ==
    /\ handler \in {"polling", "ended"} => message = <<>>
    /\ ~runtime01 /\ handler # "dead" => ~connected /\ wire = <<>>
    /\ ~forwarder /\ handler # "dead" => ~runtime01 /\ hand = <<>> /\ publisher = <<>>
    /\ handler = "ended" => ~forwarder /\ channel = <<>>

Inv == TypeOK /\ Orderly

LEMMA InvInit == Init => Inv
BY SubscriptionAssumption, EmptySeq DEF Init, Inv, Orderly, TypeOK, Messages

LEMMA InvNode == Inv /\ (Announce \/ Disconnect) => Inv'
<1> SUFFICES ASSUME Inv, Announce \/ Disconnect PROVE Inv'
    OBVIOUS
<1> USE SubscriptionAssumption
<1>1. CASE Announce
  <2>1. announced' \in Messages /\ announced' \in 0..MaxMessages
        BY <1>1 DEF Announce, Messages, Inv, TypeOK
  <2>2. wire' \in Seq(Messages)
        BY <1>1, <2>1, AppendProperties DEF Announce, Inv, TypeOK
  <2>3. QED BY <1>1, <2>1, <2>2 DEF Announce, Inv, Orderly, TypeOK
<1>2. CASE Disconnect
  <2>1. PICK n \in 0..Len(wire) : wire' = SubSeq(wire, 1, n)
        BY <1>2 DEF Disconnect
  <2>2. wire \in Seq(Messages) /\ n \in Int /\ 1 \in Int /\ Len(wire) \in Nat
        BY LenProperties DEF Inv, TypeOK
  <2>3. \A i \in 1..n : wire[i] \in Messages
        BY <2>2, ElementOfSeq
  <2>4. wire' \in Seq(Messages)
        BY <2>1, <2>2, <2>3, SubSeqProperties
  <2>5. wire = <<>> => wire' = <<>>
    <3>1. SUFFICES ASSUME wire = <<>> PROVE SubSeq(wire, 1, n) = <<>>
          BY <2>1
    <3>2. n < 1
          BY <3>1, <2>2, EmptySeq
    <3>3. QED BY <2>2, <3>2, SubSeqEmpty
  <2>6. QED BY <1>2, <2>4, <2>5 DEF Disconnect, Inv, Orderly, TypeOK
<1>3. QED BY <1>1, <1>2

LEMMA InvPublish == Inv /\ (Publish \/ PublishFails \/ StreamEnds) => Inv'
<1> SUFFICES ASSUME Inv, Publish \/ PublishFails \/ StreamEnds PROVE Inv'
    OBVIOUS
<1> USE SubscriptionAssumption
<1>1. CASE Publish
  <2>1. wire \in Seq(Messages) /\ publisher \in Seq(Messages)
        BY DEF Inv, TypeOK
  <2>2. Head(wire) \in Messages /\ wire' \in Seq(Messages)
        BY <1>1, <2>1, HeadTailProperties DEF Publish
  <2>3. publisher' \in Seq(Messages) /\ Len(publisher') = Len(publisher) + 1
        BY <1>1, <2>1, <2>2, AppendProperties DEF Publish
  <2>4. Len(publisher') <= PublisherCapacity
        BY <1>1, <2>1, <2>3, LenProperties DEF Publish
  <2>5. TypeOK'
        BY <1>1, <2>2, <2>3, <2>4 DEF Publish, Inv, TypeOK
  <2>6. QED BY <1>1, <2>5 DEF Publish, Inv, Orderly
<1>2. CASE PublishFails
      BY <1>2 DEF PublishFails, Inv, Orderly, TypeOK
<1>3. CASE StreamEnds
      BY <1>3 DEF StreamEnds, Inv, Orderly, TypeOK
<1>4. QED BY <1>1, <1>2, <1>3

LEMMA InvForward == Inv /\ (ForwardTake \/ ForwardSend \/ ForwardFails \/ ForwardEnds) => Inv'
<1> SUFFICES ASSUME Inv, ForwardTake \/ ForwardSend \/ ForwardFails \/ ForwardEnds
             PROVE  Inv'
    OBVIOUS
<1> USE SubscriptionAssumption
<1>1. publisher \in Seq(Messages) /\ hand \in Seq(Messages) /\ channel \in Seq(Messages)
      BY DEF Inv, TypeOK
<1>2. <<>> \in Seq(Messages) /\ Len(<<>>) = 0
      BY EmptySeq
<1>3. CASE ForwardTake
  <2>1. Head(publisher) \in Messages /\ publisher' \in Seq(Messages)
        /\ Len(publisher') = Len(publisher) - 1
        BY <1>1, <1>3, HeadTailProperties DEF ForwardTake
  <2>2. hand' \in Seq(Messages) /\ Len(hand') = 1
        BY <1>3, <2>1 DEF ForwardTake
  <2>3. Len(publisher') <= PublisherCapacity
        BY <1>1, <2>1, LenProperties DEF Inv, TypeOK
  <2>4. TypeOK'
        BY <1>3, <2>1, <2>2, <2>3 DEF ForwardTake, Inv, TypeOK
  <2>5. QED BY <1>3, <2>4 DEF ForwardTake, Inv, Orderly
<1>4. CASE ForwardSend
  <2>1. channel' \in Seq(Messages) /\ Len(channel') = Len(channel) + Len(hand)
        BY <1>1, <1>4, ConcatProperties DEF ForwardSend
  <2>2. Len(channel') <= ChannelCapacity
        BY <1>1, <1>4, <2>1, LenProperties DEF ForwardSend, Inv, TypeOK
  <2>3. TypeOK'
        BY <1>2, <1>4, <2>1, <2>2 DEF ForwardSend, Inv, TypeOK
  <2>4. QED BY <1>4, <2>3 DEF ForwardSend, HandlerAlive, Inv, Orderly
<1>5. CASE ForwardFails
  <2>1. handler = "dead"
        BY <1>5 DEF ForwardFails, HandlerAlive, Inv, Orderly, TypeOK
  <2>2. TypeOK'
    <3>1. /\ hand' \in Seq(Messages) /\ publisher' \in Seq(Messages)
          /\ Len(hand') <= 1 /\ Len(publisher') <= PublisherCapacity
          BY <1>2, <1>5 DEF ForwardFails
    <3>2. QED BY <1>5, <3>1 DEF ForwardFails, Inv, TypeOK
  <2>3. Orderly'
        BY <1>5, <2>1 DEF ForwardFails, Orderly
  <2>4. QED BY <2>2, <2>3 DEF Inv
<1>6. CASE ForwardEnds
      BY <1>6 DEF ForwardEnds, Inv, Orderly, TypeOK
<1>7. QED BY <1>3, <1>4, <1>5, <1>6

LEMMA InvHandler == Inv /\ (Receive \/ Report \/ HandlerPanics \/ HandlerEnds) => Inv'
<1> SUFFICES ASSUME Inv, Receive \/ Report \/ HandlerPanics \/ HandlerEnds PROVE Inv'
    OBVIOUS
<1> USE SubscriptionAssumption
<1>1. channel \in Seq(Messages) /\ message \in Seq(Messages) /\ reported \in Seq(Messages)
      BY DEF Inv, TypeOK
<1>2. <<>> \in Seq(Messages) /\ Len(<<>>) = 0
      BY EmptySeq
<1>3. CASE Receive
  <2>1. Head(channel) \in Messages /\ channel' \in Seq(Messages)
        /\ Len(channel') = Len(channel) - 1
        BY <1>1, <1>3, HeadTailProperties DEF Receive
  <2>2. message' \in Seq(Messages) /\ Len(message') = 1
        BY <1>3, <2>1 DEF Receive
  <2>3. Len(channel') <= ChannelCapacity
        BY <1>1, <2>1, LenProperties DEF Inv, TypeOK
  <2>4. TypeOK'
        BY <1>3, <2>1, <2>2, <2>3 DEF Receive, Inv, TypeOK
  <2>5. QED BY <1>3, <2>4 DEF Receive, Inv, Orderly
<1>4. CASE Report
  <2>1. reported' \in Seq(Messages)
        BY <1>1, <1>4, ConcatProperties DEF Report
  <2>2. TypeOK'
        BY <1>2, <1>4, <2>1 DEF Report, Inv, TypeOK
  <2>3. QED BY <1>4, <2>2 DEF Report, Inv, Orderly
<1>5. CASE HandlerPanics
      BY <1>2, <1>5 DEF HandlerPanics, Inv, Orderly, TypeOK
<1>6. CASE HandlerEnds
      BY <1>6 DEF HandlerEnds, Inv, Orderly, TypeOK
<1>7. QED BY <1>3, <1>4, <1>5, <1>6

LEMMA InvStep == Inv /\ [Next]_vars => Inv'
<1>1. Inv /\ UNCHANGED vars => Inv'
      BY DEF vars, Inv, Orderly, TypeOK
<1>2. QED BY <1>1, InvNode, InvPublish, InvForward, InvHandler DEF Next

LEMMA InvHolds == Spec => []Inv
BY InvInit, InvStep, PTL DEF Spec

(* The two channels never hold more than their capacity, and the forwarder *)
(* and the handler have at most one message each (subscribe.rs:54,         *)
(* util/mod.rs:30).                                                        *)
THEOREM SubscriptionTypeCorrect == Spec => []TypeOK
<1>1. Inv => TypeOK
      BY DEF Inv
<1>2. QED BY <1>1, InvHolds, PTL

(* A handler that ends without a panic has reported all that was read from *)
(* the socket: `Disconnected` of its channel comes after the last message  *)
(* (subscribe_new_tip_header.rs:50, reorganization.rs:75).                 *)
THEOREM HandlerEndsDrained == Spec => []EndsDrained
<1>1. Inv => EndsDrained
  <2> SUFFICES ASSUME Inv, handler = "ended"
               PROVE  /\ ~connected /\ ~runtime01
                      /\ wire \o publisher \o hand \o channel = <<>>
      BY DEF EndsDrained
  <2>1. /\ ~connected /\ ~runtime01
        /\ wire = <<>> /\ publisher = <<>> /\ hand = <<>> /\ channel = <<>>
        BY DEF Inv, Orderly
  <2>2. Cat(Cat(Cat(<<>>, <<>>), <<>>), <<>>) = <<>>
        BY EmptySeq, CatEmpty
  <2>3. QED BY <2>1, <2>2 DEF Cat
<1>2. QED BY <1>1, InvHolds, PTL

(***************************************************************************)
(* Subscription implements Pipe.                                           *)
(***************************************************************************)

(* The stages that hold what is pending, the first to be taken first.      *)
Way == Cat(Cat(Cat(channel, hand), publisher), wire)

Pending == IF HandlerAlive THEN Way ELSE <<>>
Taken == Cat(reported, message)
Open == connected /\ HandlerAlive

(* The steps of the Pipe, of these three.                                  *)
PipePut(m) ==
    Open /\ Pending' = Append(Pending, m) /\ Taken' = Taken /\ Open' = Open

PipeTake ==
    /\ Pending # <<>>
    /\ Taken' = Append(Taken, Head(Pending)) /\ Pending' = Tail(Pending)
    /\ Open' = Open

PipeCut ==
    /\ ~Open'
    /\ \E n \in 0..Len(Pending) : Pending' = SubSeq(Pending, 1, n)
    /\ Taken' = Taken

PipeStays == Pending' = Pending /\ Taken' = Taken /\ Open' = Open

PipeStep == (\E m \in Messages : PipePut(m)) \/ PipeTake \/ PipeCut \/ PipeStays

LEMMA StagesType ==
    Inv => /\ channel \in Seq(Messages) /\ hand \in Seq(Messages)
           /\ publisher \in Seq(Messages) /\ wire \in Seq(Messages)
           /\ reported \in Seq(Messages) /\ message \in Seq(Messages)
           /\ Cat(channel, hand) \in Seq(Messages)
           /\ Cat(Cat(channel, hand), publisher) \in Seq(Messages)
           /\ Way \in Seq(Messages)
BY CatType DEF Inv, TypeOK, Way

LEMMA CatThenOne ==
    ASSUME NEW S, NEW s \in Seq(S), NEW t \in Seq(S), NEW m \in S
    PROVE  Cat(Cat(s, t), <<m>>) = Cat(s, Cat(t, <<m>>))
<1> DEFINE o == <<m>>
<1>1. o \in Seq(S)
      BY One
<1> HIDE DEF o
<1>2. Cat(Cat(s, t), o) = Cat(s, Cat(t, o))
      BY <1>1, CatAssociative
<1>3. QED BY <1>2 DEF o

LEMMA StepOfNode == Inv /\ (Announce \/ Disconnect) => PipeStep
<1> SUFFICES ASSUME Inv, Announce \/ Disconnect PROVE PipeStep
    OBVIOUS
<1> DEFINE first == Cat(Cat(channel, hand), publisher)
<1>1. first \in Seq(Messages) /\ wire \in Seq(Messages)
      BY StagesType
<1>2. CASE Announce
  <2>1. announced' \in Messages
        BY <1>2, SubscriptionAssumption DEF Announce, Messages, Inv, TypeOK
  <2>2. wire' = Append(wire, announced') /\ Way' = Cat(first, wire')
        /\ connected' = connected /\ handler' = handler /\ Taken' = Taken /\ connected
        BY <1>2 DEF Announce, Way, Taken
  <2> HIDE DEF first
  <2>3. <<announced'>> \in Seq(Messages) /\ wire' = Cat(wire, <<announced'>>)
        BY <1>1, <2>1, <2>2, One, AppendIsCat
  <2>4. Way' = Cat(Way, <<announced'>>)
    <3>1. Way = Cat(first, wire)
          BY DEF Way, first
    <3>2. Cat(Cat(first, wire), <<announced'>>) = Cat(first, Cat(wire, <<announced'>>))
          BY <1>1, <2>1, CatThenOne
    <3>3. QED BY <2>2, <2>3, <3>1, <3>2
  <2>5. Way' = Append(Way, announced')
        BY <2>1, <2>4, StagesType, AppendIsCat
  <2>6. CASE HandlerAlive
        BY <2>1, <2>2, <2>5, <2>6 DEF PipeStep, PipePut, Pending, Open, HandlerAlive
  <2>7. CASE ~HandlerAlive
        BY <2>2, <2>7 DEF PipeStep, PipeStays, Pending, Open, HandlerAlive
  <2>8. QED BY <2>6, <2>7
<1>3. CASE Disconnect
  <2>1. PICK n \in 0..Len(wire) : wire' = SubSeq(wire, 1, n)
        BY <1>3 DEF Disconnect
  <2>2. Way' = Cat(first, wire') /\ ~connected' /\ handler' = handler /\ Taken' = Taken
        BY <1>3 DEF Disconnect, Way, Taken
  <2> HIDE DEF first
  <2>3. \E k \in 0..Len(Way) : Way' = SubSeq(Way, 1, k)
        BY <1>1, <2>1, <2>2, CutOfCat DEF Way, first
  <2>4. CASE HandlerAlive
        BY <2>2, <2>3, <2>4 DEF PipeStep, PipeCut, Pending, Open, HandlerAlive
  <2>5. CASE ~HandlerAlive
        BY <2>2, <2>5 DEF PipeStep, PipeStays, Pending, Open, HandlerAlive
  <2>6. QED BY <2>4, <2>5
<1>4. QED BY <1>2, <1>3

(* A message that moves on to the next stage stays where it is in the flow.*)
LEMMA MovesOn ==
    ASSUME NEW S, NEW s \in Seq(S), NEW t \in Seq(S), NEW u \in Seq(S), u # <<>>
    PROVE  Cat(Cat(s, Append(t, Head(u))), Tail(u)) = Cat(Cat(s, t), u)
<1> DEFINE o == <<Head(u)>>
           r == Tail(u)
<1>1. o \in Seq(S) /\ r \in Seq(S) /\ Cat(o, r) = u
      BY HeadAndTail, One
<1>2. Append(t, Head(u)) = Cat(t, o)
      BY HeadAndTail, AppendIsCat
<1> HIDE DEF o, r
<1>3. Cat(t, o) \in Seq(S)
      BY <1>1, CatType
<1>4. Cat(Cat(s, Cat(t, o)), r) = Cat(s, Cat(Cat(t, o), r))
      BY <1>1, <1>3, CatAssociative
<1>5. Cat(Cat(t, o), r) = Cat(t, u)
  <2>1. Cat(Cat(t, o), r) = Cat(t, Cat(o, r))
        BY <1>1, CatAssociative
  <2>2. QED BY <1>1, <2>1
<1>6. Cat(Cat(s, t), u) = Cat(s, Cat(t, u))
      BY CatAssociative
<1>7. QED BY <1>2, <1>4, <1>5, <1>6 DEF r

LEMMA StepOfPublish == Inv /\ (Publish \/ PublishFails \/ StreamEnds) => PipeStep
<1> SUFFICES ASSUME Inv, Publish \/ PublishFails \/ StreamEnds PROVE PipeStep
    OBVIOUS
<1>1. CASE Publish
  <2> DEFINE first == Cat(channel, hand)
  <2>1. first \in Seq(Messages) /\ publisher \in Seq(Messages) /\ wire \in Seq(Messages)
        BY StagesType
  <2>2. /\ wire # <<>> /\ publisher' = Append(publisher, Head(wire)) /\ wire' = Tail(wire)
        /\ Way' = Cat(Cat(first, publisher'), wire')
        /\ connected' = connected /\ handler' = handler /\ Taken' = Taken
        BY <1>1 DEF Publish, Way, Taken
  <2> HIDE DEF first
  <2>3. Way' = Way
        BY <2>1, <2>2, MovesOn DEF Way, first
  <2>4. QED BY <2>2, <2>3 DEF PipeStep, PipeStays, Pending, Open, HandlerAlive
<1>2. CASE PublishFails \/ StreamEnds
  <2>1. Way' = Way /\ connected' = connected /\ handler' = handler /\ Taken' = Taken
        BY <1>2 DEF PublishFails, StreamEnds, Way, Taken
  <2>2. QED BY <2>1 DEF PipeStep, PipeStays, Pending, Open, HandlerAlive
<1>3. QED BY <1>1, <1>2

LEMMA StepOfForward ==
    Inv /\ (ForwardTake \/ ForwardSend \/ ForwardFails \/ ForwardEnds) => PipeStep
<1> SUFFICES ASSUME Inv, ForwardTake \/ ForwardSend \/ ForwardFails \/ ForwardEnds
             PROVE  PipeStep
    OBVIOUS
<1>1. channel \in Seq(Messages) /\ publisher \in Seq(Messages) /\ hand \in Seq(Messages)
      BY StagesType
<1>2. <<>> \in Seq(Messages)
      BY EmptySeq
<1>3. CASE ForwardTake
  <2>1. /\ hand = <<>> /\ publisher # <<>>
        /\ hand' = <<Head(publisher)>> /\ publisher' = Tail(publisher)
        /\ Way' = Cat(Cat(Cat(channel, hand'), publisher'), wire)
        /\ connected' = connected /\ handler' = handler /\ Taken' = Taken
        BY <1>3 DEF ForwardTake, Way, Taken
  <2>2. hand' = Append(hand, Head(publisher))
        BY <2>1
  <2>3. Cat(Cat(channel, hand'), publisher') = Cat(Cat(channel, hand), publisher)
    <3>1. Cat(Cat(channel, Append(hand, Head(publisher))), Tail(publisher))
              = Cat(Cat(channel, hand), publisher)
      <4>1. publisher # <<>>
            BY <2>1
      <4>2. QED BY <1>1, <4>1, MovesOn
    <3>2. QED BY <2>1, <2>2, <3>1
  <2>4. Way' = Way
        BY <2>1, <2>3 DEF Way
  <2>5. QED BY <2>1, <2>4 DEF PipeStep, PipeStays, Pending, Open, HandlerAlive
<1>4. CASE ForwardSend
  <2>1. /\ channel' = Cat(channel, hand) /\ hand' = <<>>
        /\ Way' = Cat(Cat(Cat(channel', hand'), publisher), wire)
        /\ connected' = connected /\ handler' = handler /\ Taken' = Taken
        BY <1>4 DEF ForwardSend, Way, Taken, Cat
  <2>2. Cat(channel', hand') = Cat(channel, hand)
        BY <2>1, StagesType, CatEmpty
  <2>3. Way' = Way
        BY <2>1, <2>2 DEF Way
  <2>4. QED BY <2>1, <2>3 DEF PipeStep, PipeStays, Pending, Open, HandlerAlive
<1>5. CASE ForwardFails
  <2>1. ~HandlerAlive /\ connected' = connected /\ handler' = handler /\ Taken' = Taken
        BY <1>5 DEF ForwardFails, Taken
  <2>2. QED BY <2>1 DEF PipeStep, PipeStays, Pending, Open, HandlerAlive
<1>6. CASE ForwardEnds
  <2>1. Way' = Way /\ connected' = connected /\ handler' = handler /\ Taken' = Taken
        BY <1>6 DEF ForwardEnds, Way, Taken
  <2>2. QED BY <2>1 DEF PipeStep, PipeStays, Pending, Open, HandlerAlive
<1>7. QED BY <1>3, <1>4, <1>5, <1>6

(* Nothing is left of any flow.                                            *)
LEMMA CutToNothing ==
    ASSUME NEW S, NEW s \in Seq(S)
    PROVE  \E n \in 0..Len(s) : <<>> = SubSeq(s, 1, n)
<1>1. 0 \in 0..Len(s) /\ SubSeq(s, 1, 0) = <<>>
      BY LenProperties, SubSeqEmpty
<1>2. QED BY <1>1

LEMMA StepOfHandler ==
    Inv /\ (Receive \/ Report \/ HandlerPanics \/ HandlerEnds) => PipeStep
<1> SUFFICES ASSUME Inv, Receive \/ Report \/ HandlerPanics \/ HandlerEnds PROVE PipeStep
    OBVIOUS
<1>1. /\ channel \in Seq(Messages) /\ hand \in Seq(Messages) /\ publisher \in Seq(Messages)
      /\ wire \in Seq(Messages) /\ reported \in Seq(Messages) /\ message \in Seq(Messages)
      /\ Cat(channel, hand) \in Seq(Messages)
      /\ Cat(Cat(channel, hand), publisher) \in Seq(Messages)
      /\ Way \in Seq(Messages)
      BY StagesType
<1>2. CASE Receive
  <2>1. /\ handler = "polling" /\ channel # <<>> /\ handler' = "reporting"
        /\ message' = <<Head(channel)>> /\ message = <<>>
        /\ Way' = Cat(Cat(Cat(Tail(channel), hand), publisher), wire)
        /\ Taken' = Cat(reported, message') /\ Taken = Cat(reported, message)
        /\ connected' = connected
        BY <1>2 DEF Receive, Way, Taken, Inv, Orderly
  <2>2. Tail(channel) \in Seq(Messages) /\ Head(channel) \in Messages
        BY <1>1, <2>1, HeadTailProperties
  <2>3. /\ Cat(channel, hand) # <<>> /\ Head(Cat(channel, hand)) = Head(channel)
        /\ Tail(Cat(channel, hand)) = Cat(Tail(channel), hand)
        BY <1>1, <2>1, HeadOfCat
  <2> DEFINE ch == Cat(channel, hand)
             chp == Cat(ch, publisher)
  <2>4. ch \in Seq(Messages) /\ chp \in Seq(Messages) /\ Way = Cat(chp, wire)
        BY <1>1 DEF Way
  <2>5. Way' = Cat(Cat(Tail(ch), publisher), wire) /\ ch # <<>> /\ Head(ch) = Head(channel)
        BY <2>1, <2>3
  <2> HIDE DEF ch
  <2>6. chp # <<>> /\ Head(chp) = Head(ch) /\ Tail(chp) = Cat(Tail(ch), publisher)
        BY <1>1, <2>4, <2>5, HeadOfCat
  <2>7. Way' = Cat(Tail(chp), wire) /\ Head(chp) = Head(channel)
        BY <2>5, <2>6
  <2> HIDE DEF chp
  <2>8. Way # <<>> /\ Head(Way) = Head(channel) /\ Way' = Tail(Way)
        BY <1>1, <2>4, <2>6, <2>7, HeadOfCat
  <2>9. Taken = reported /\ Taken' = Append(reported, Head(channel))
        BY <1>1, <2>1, <2>2, CatEmpty, AppendIsCat
  <2>10. QED
        BY <2>1, <2>8, <2>9 DEF PipeStep, PipeTake, Pending, Open, HandlerAlive
<1>3. CASE Report
  <2>1. /\ handler = "reporting" /\ handler' = "polling" /\ connected' = connected
        /\ Way' = Way /\ reported' = Cat(reported, message) /\ message' = <<>>
        /\ Taken' = Cat(reported', message')
        BY <1>3 DEF Report, Way, Taken, Cat
  <2>2. Cat(reported, message) \in Seq(Messages)
        BY <1>1, CatType
  <2>3. Taken' = Taken
        BY <2>1, <2>2, CatEmpty DEF Taken
  <2>4. QED BY <2>1, <2>3 DEF PipeStep, PipeStays, Pending, Open, HandlerAlive
<1>4. CASE HandlerPanics
  <2>1. handler = "reporting" /\ handler' = "dead" /\ Taken' = Taken
        BY <1>4 DEF HandlerPanics, Taken
  <2>2. QED
        BY <1>1, <2>1, CutToNothing DEF PipeStep, PipeCut, Pending, Open, HandlerAlive
<1>5. CASE HandlerEnds
  <2>1. handler = "polling" /\ handler' = "ended" /\ Taken' = Taken
        BY <1>5 DEF HandlerEnds, Taken
  <2>2. QED
        BY <1>1, <2>1, CutToNothing DEF PipeStep, PipeCut, Pending, Open, HandlerAlive
<1>6. QED BY <1>2, <1>3, <1>4, <1>5

LEMMA StepOfPipe == Inv /\ [Next]_vars => PipeStep
<1>1. UNCHANGED vars => PipeStep
      BY DEF vars, PipeStep, PipeStays, Pending, Taken, Open, Way, HandlerAlive
<1>2. QED BY <1>1, StepOfNode, StepOfPublish, StepOfForward, StepOfHandler DEF Next

LEMMA PipeStepIsNext == PipeStep => [P!Next]_(P!vars)
BY DEF PipeStep, PipePut, PipeTake, PipeCut, PipeStays, Pending, Taken, Open, Way, Cat,
       P!Next, P!Put, P!Take, P!Cut, P!vars

LEMMA PipeInit == Init => P!Init
<1> SUFFICES ASSUME Init PROVE P!Init
    OBVIOUS
<1>1. /\ Cat(Cat(Cat(channel, hand), publisher), wire) = <<>>
      /\ Cat(reported, message) = <<>>
      BY EmptySeq, CatEmpty DEF Init
<1>2. QED BY <1>1 DEF Init, HandlerAlive, P!Init, Cat

(* A topic may count on the messages of its subscription: none is lost,    *)
(* repeated or overtaken on the way through the threads and the channels   *)
(* (subscribe.rs:97, util/mod.rs:24), whatever their capacity.             *)
THEOREM SubscriptionIsPipe == Spec => ImplementsPipe
BY InvInit, InvStep, PipeInit, StepOfPipe, PipeStepIsNext, PTL
DEF Spec, ImplementsPipe, P!Spec
=============================================================================

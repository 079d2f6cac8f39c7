---------------------------- MODULE RuntimeProofs ----------------------------
(***************************************************************************)
(* Theorems about the writer.  First about QueryWriter, for every set of   *)
(* producers, every capacity of the channel and every batch size; then     *)
(* about Runtime: on any number of workers, and whatever the scheduler     *)
(* does, the tasks behave as QueryWriter says, and no task is in two       *)
(* places.                                                                 *)
(***************************************************************************)
EXTENDS Runtime, SequenceTheorems, FiniteSetTheorems, TLAPS

(***************************************************************************)
(* Type correctness.                                                       *)
(***************************************************************************)

(* The query a producer sends next is one of Query.                        *)
LEMMA NextQueryType ==
    ASSUME TypeOK, NEW p \in Producers, sent[p] < MaxQueries
    PROVE  /\ [from |-> p, n |-> sent[p], life |-> crashes] \in Query
           /\ sent[p] + 1 \in 0..MaxQueries
BY WriterAssumption DEF TypeOK, Query

LEMMA TypeInit == Init => TypeOK
<1> SUFFICES ASSUME Init PROVE TypeOK
    OBVIOUS
<1> USE WriterAssumption
<1>1. sent \in [Producers -> 0..MaxQueries] /\ crashes \in 0..MaxCrashes
      BY DEF Init
<1>2. channel \in Seq(Query) /\ batch \in Seq(Query) /\ table \in Seq(Query)
      BY EmptySeq DEF Init
<1>3. Len(channel) <= ChannelCapacity
      BY EmptySeq DEF Init
<1>4. overdue \in BOOLEAN /\ executing \in BOOLEAN /\ up \in BOOLEAN
      BY DEF Init
<1> QED BY <1>1, <1>2, <1>3, <1>4 DEF Init, TypeOK

LEMMA TypeStep == TypeOK /\ [Next]_vars => TypeOK'
<1> SUFFICES ASSUME TypeOK, [Next]_vars PROVE TypeOK'
    OBVIOUS
<1> USE WriterAssumption
<1>1. ASSUME NEW p \in Producers, Ready(p), ~Full, Enqueue(p)
      PROVE  /\ sent' \in [Producers -> 0..MaxQueries]
             /\ channel' \in Seq(Query) /\ Len(channel') <= ChannelCapacity
  <2>1. sent[p] < MaxQueries
        BY <1>1 DEF Ready
  <2>2. sent' \in [Producers -> 0..MaxQueries]
        BY <1>1, <2>1, NextQueryType DEF TypeOK, Enqueue
  <2>3. channel' \in Seq(Query) /\ Len(channel') = Len(channel) + 1
        BY <1>1, <2>1, NextQueryType, AppendProperties DEF TypeOK, Enqueue
  <2>4. QED BY <1>1, <2>2, <2>3 DEF TypeOK, Full
<1>2. ASSUME NEW p \in Producers, TrySend(p) PROVE TypeOK'
      BY <1>1, <1>2 DEF TypeOK, TrySend
<1>3. ASSUME NEW p \in Producers, Wake(p) PROVE TypeOK'
      BY <1>3 DEF TypeOK, Wake
<1>4. ASSUME NEW p \in Producers, BlockingSend(p) PROVE TypeOK'
      BY <1>1, <1>4 DEF TypeOK, BlockingSend
<1>5. CASE HandleQuery
  <2>1. Head(channel) \in Query /\ Tail(channel) \in Seq(Query)
            /\ Len(Tail(channel)) = Len(channel) - 1
        BY <1>5, HeadTailProperties DEF TypeOK, HandleQuery
  <2>2. batch' \in Seq(Query)
        BY <1>5, <2>1, AppendProperties DEF TypeOK, HandleQuery
  <2>3. executing' \in BOOLEAN
        BY <1>5 DEF HandleQuery, FlushDue
  <2>4. QED BY <1>5, <2>1, <2>2, <2>3 DEF TypeOK, HandleQuery
<1>6. CASE HandleEmpty
      BY <1>6 DEF TypeOK, HandleEmpty
<1>7. CASE Elapse
      BY <1>7 DEF TypeOK, Elapse
<1>8. CASE BatchExecuted
  <2>1. table \o batch \in Seq(Query) /\ <<>> \in Seq(Query)
        BY ConcatProperties, EmptySeq DEF TypeOK
  <2>2. overdue' \in BOOLEAN /\ executing' \in BOOLEAN
        BY <1>8 DEF BatchExecuted
  <2>3. QED BY <1>8, <2>1, <2>2 DEF TypeOK, BatchExecuted
<1>9. ASSUME ProcessEnds PROVE TypeOK'
  <2>1. <<>> \in Seq(Query) /\ Len(<<>>) = 0
        BY EmptySeq
  <2>2. overdue' \in BOOLEAN /\ executing' \in BOOLEAN /\ up' \in BOOLEAN
        BY <1>9 DEF ProcessEnds
  <2>3. doubtful' \subseteq Seq(Query) /\ crashes' \in 0..MaxCrashes
        BY <1>9 DEF TypeOK, ProcessEnds
  <2>4. QED BY <1>9, <2>1, <2>2, <2>3 DEF TypeOK, ProcessEnds
<1>10. CASE Restart
      BY <1>10 DEF TypeOK, Restart
<1>11. ASSUME NEW b \in doubtful, Settle(b) PROVE TypeOK'
      BY <1>11, ConcatProperties DEF TypeOK, Settle
<1>12. CASE UNCHANGED vars
      BY <1>12 DEF TypeOK, vars
<1> QED BY <1>2, <1>3, <1>4, <1>5, <1>6, <1>7, <1>8, <1>9, <1>10, <1>11, <1>12
        DEF Next, BatchFailed, Kill

(* Every variable keeps its type; in particular the channel never holds    *)
(* more than its capacity.                                                 *)
THEOREM TypeCorrect == Spec => []TypeOK
BY TypeInit, TypeStep, PTL DEF Spec

(***************************************************************************)
(* The bounds of a batch.                                                  *)
(***************************************************************************)

LEMMA BoundedInit == Init => BatchBounded
<1> SUFFICES ASSUME Init PROVE BatchBounded
    OBVIOUS
<1>1. batch = <<>> /\ Len(batch) = 0 /\ executing = FALSE
      BY EmptySeq DEF Init
<1> QED BY <1>1, WriterAssumption DEF BatchBounded

LEMMA BoundedStep == TypeOK /\ BatchBounded /\ [Next]_vars => BatchBounded'
<1> SUFFICES ASSUME TypeOK, BatchBounded, [Next]_vars PROVE BatchBounded'
    OBVIOUS
<1> USE WriterAssumption
<1>1. CASE HandleQuery
  <2>1. Head(channel) \in Query
        BY <1>1, HeadTailProperties DEF TypeOK, HandleQuery
  <2>2. batch' # <<>> /\ Len(batch') = Len(batch) + 1 /\ Len(batch) \in Nat
        BY <1>1, <2>1, AppendProperties, LenProperties DEF TypeOK, HandleQuery
  <2>3. Len(batch) < MaxBatchSize
        BY <1>1 DEF BatchBounded, HandleQuery
  <2>4. ~executing' => ~(Len(batch') >= MaxBatchSize)
        BY <1>1, Zenon DEF HandleQuery, FlushDue
  <2>5. ~executing' => Len(batch') < MaxBatchSize
        BY <2>2, <2>4
  <2>6. Len(batch') <= MaxBatchSize
        BY <2>2, <2>3
  <2>7. QED BY <2>2, <2>5, <2>6 DEF BatchBounded
<1>2. CASE HandleEmpty
  <2>1. Len(batch) \in Nat
        BY LenProperties DEF TypeOK
  <2>2. QED BY <1>2, <2>1 DEF BatchBounded, HandleEmpty
<1>3. CASE BatchExecuted \/ ProcessEnds
  <2>1. batch' = <<>> /\ executing' = FALSE
        BY <1>3 DEF BatchExecuted, ProcessEnds
  <2>2. Len(batch') = 0
        BY <2>1, EmptySeq
  <2>3. QED BY <2>1, <2>2 DEF BatchBounded
<1>4. CASE UNCHANGED <<batch, executing>>
      BY <1>4 DEF BatchBounded
<1>5. QED
      BY <1>1, <1>2, <1>3, <1>4
      DEF Next, vars, BatchFailed, Kill, TrySend, Wake, BlockingSend, Elapse,
          Restart, Settle

(* No batch is sent to the server empty or longer than max_batch_size, and *)
(* none that has reached it is kept waiting.                               *)
THEOREM BatchesAreBounded == Spec => []BatchBounded
BY TypeInit, TypeStep, BoundedInit, BoundedStep, PTL DEF Spec

(***************************************************************************)
(* The stream of queries is only appended to.                              *)
(***************************************************************************)

LEMMA PrefixOfConcat ==
    ASSUME NEW S, NEW s \in Seq(S), NEW t \in Seq(S)
    PROVE  IsPrefix(s, s \o t)
<1>1. Len(s) <= Len(s \o t) /\ Len(s) \in Nat
      BY ConcatProperties, LenProperties
<1>2. CASE s = <<>>
  <2>1. Len(s) = 0
        BY <1>2, EmptySeq
  <2>2. SubSeq(s, 1, Len(s)) = <<>> /\ SubSeq(s \o t, 1, Len(s)) = <<>>
        BY <2>1, SubSeqEmpty
  <2>3. QED BY <1>1, <2>2 DEF IsPrefix
<1>3. CASE s # <<>>
  <2>1. Len(s) \in Nat \ {0}
        BY <1>3, EmptySeq
  <2>2. SubSeq(s \o t, 1, Len(s)) = SubSeq(s, 1, Len(s))
        BY <2>1, SubSeqOfConcat1
  <2>3. QED BY <1>1, <2>2 DEF IsPrefix
<1>4. QED BY <1>2, <1>3

LEMMA HeadThenTail ==
    ASSUME NEW S, NEW s \in Seq(S), s # <<>>
    PROVE  <<Head(s)>> \in Seq(S) /\ s = <<Head(s)>> \o Tail(s)
<1>1. /\ Head(s) \in S /\ Tail(s) \in Seq(S) /\ Len(Tail(s)) = Len(s) - 1
      /\ \A i \in 1..Len(Tail(s)) : Tail(s)[i] = s[i + 1]
      BY HeadTailProperties
<1>2. <<Head(s)>> \in Seq(S) /\ Len(<<Head(s)>>) = 1 /\ <<Head(s)>>[1] = s[1]
      BY <1>1
<1>3. /\ <<Head(s)>> \o Tail(s) \in Seq(S)
      /\ Len(<<Head(s)>> \o Tail(s)) = Len(s)
      /\ \A i \in 1..Len(s) : (<<Head(s)>> \o Tail(s))[i] = s[i]
      BY <1>1, <1>2, ConcatProperties, LenProperties
<1>4. QED BY <1>2, <1>3, SeqEqual

(* Concatenation under a name the provers do not interpret.                *)
Cat(s, t) == s \o t

LEMMA CatType ==
    ASSUME NEW S, NEW s \in Seq(S), NEW t \in Seq(S)
    PROVE  Cat(s, t) \in Seq(S)
BY ConcatProperties DEF Cat

LEMMA CatAssociative ==
    ASSUME NEW S, NEW s \in Seq(S), NEW t \in Seq(S), NEW u \in Seq(S)
    PROVE  Cat(Cat(s, t), u) = Cat(s, Cat(t, u))
BY ConcatAssociative DEF Cat

LEMMA FlowType == TypeOK => Flow \in Seq(Query)
BY ConcatProperties DEF TypeOK, Flow

(* Sending a query appends it to the stream.                               *)
LEMMA FlowAppends ==
    ASSUME TypeOK, NEW p \in Producers, Ready(p), Enqueue(p),
           UNCHANGED <<batch, table>>
    PROVE  LET q == [from |-> p, n |-> sent[p], life |-> crashes]
           IN  q \in Query /\ Flow' = Flow \o <<q>>
<1> DEFINE q == [from |-> p, n |-> sent[p], life |-> crashes]
<1>1. q \in Query
      BY NextQueryType DEF Ready
<1>2. channel' = Append(channel, q)
      BY DEF Enqueue
<1> HIDE DEF q
<1> DEFINE r == <<q>>
<1>3. channel' = Cat(channel, r) /\ r \in Seq(Query)
      BY <1>1, <1>2, AppendIsConcat DEF TypeOK, Cat
<1> HIDE DEF r
<1>4. Cat(table, batch) \in Seq(Query) /\ channel \in Seq(Query)
      BY CatType DEF TypeOK
<1>5. Cat(Cat(table, batch), Cat(channel, r)) = Cat(Cat(Cat(table, batch), channel), r)
      BY <1>3, <1>4, CatAssociative
<1>6. Flow' = Cat(Cat(table, batch), channel') /\ Flow = Cat(Cat(table, batch), channel)
      BY DEF Flow, Cat
<1>7. Flow' = Cat(Flow, r)
      BY <1>3, <1>5, <1>6, Zenon
<1>8. QED BY <1>1, <1>7, Zenon DEF q, r, Cat

(* Taking a query off the channel keeps what is in flight.                 *)
LEMMA HandleKeepsFlight ==
    ASSUME TypeOK, HandleQuery
    PROVE  Cat(batch', channel') = Cat(batch, channel)
<1> DEFINE h == <<Head(channel)>>
           c == Tail(channel)
<1>1. h \in Seq(Query) /\ c \in Seq(Query) /\ channel = Cat(h, c)
      BY HeadTailProperties, HeadThenTail DEF TypeOK, HandleQuery, Cat
<1>2. batch' = Cat(batch, h)
      BY HeadTailProperties, AppendIsConcat DEF TypeOK, HandleQuery, Cat
<1>3. channel' = c /\ batch \in Seq(Query)
      BY DEF TypeOK, HandleQuery
<1> HIDE DEF h, c
<1>4. Cat(Cat(batch, h), c) = Cat(batch, Cat(h, c))
      BY <1>1, <1>3, CatAssociative
<1>5. QED BY <1>1, <1>2, <1>3, <1>4, Zenon

(* Taking a query off the channel and executing a batch leave the stream   *)
(* as it is.                                                               *)
LEMMA FlowKept ==
    ASSUME TypeOK, HandleQuery \/ BatchExecuted
    PROVE  Flow' = Flow
<1>1. CASE HandleQuery
  <2>1. TypeOK' /\ table' = table
        BY <1>1, TypeStep DEF Next, HandleQuery
  <2>2. Flow' = Cat(table', Cat(batch', channel')) /\ Flow = Cat(table, Cat(batch, channel))
    <3>1. Flow' = Cat(Cat(table', batch'), channel') /\ Flow = Cat(Cat(table, batch), channel)
          BY DEF Flow, Cat
    <3>2. QED BY <2>1, <3>1, CatAssociative DEF TypeOK
  <2>3. QED BY <1>1, <2>1, <2>2, HandleKeepsFlight
<1>2. CASE BatchExecuted
  <2>1. table' \o batch' = table \o batch
        BY <1>2, ConcatProperties, ConcatEmptySeq DEF TypeOK, BatchExecuted
  <2>2. QED BY <1>2, <2>1 DEF Flow, BatchExecuted
<1>3. QED BY <1>1, <1>2

LEMMA PrefixOfItself == ASSUME NEW S, NEW s \in Seq(S) PROVE IsPrefix(s, s)
BY LenProperties DEF IsPrefix

LEMMA GrowingStep ==
    ASSUME TypeOK, Next, up', doubtful' = doubtful
    PROVE  IsPrefix(Flow, Flow')
<1>1. ASSUME NEW p \in Producers, Ready(p), Enqueue(p), UNCHANGED <<batch, table>>
      PROVE  IsPrefix(Flow, Flow')
  <2> DEFINE q == [from |-> p, n |-> sent[p], life |-> crashes]
  <2>1. q \in Query /\ Flow' = Flow \o <<q>>
        BY <1>1, FlowAppends
  <2> HIDE DEF q
  <2>2. <<q>> \in Seq(Query) /\ Flow \in Seq(Query)
        BY <2>1, FlowType
  <2>3. QED BY <2>1, <2>2, PrefixOfConcat
<1>2. CASE Flow' = Flow
      BY <1>2, FlowType, PrefixOfItself
<1>3. ASSUME UNCHANGED <<table, batch, channel>> PROVE Flow' = Flow
      BY <1>3 DEF Flow
<1>4. ASSUME NEW p \in Producers, TrySend(p) PROVE IsPrefix(Flow, Flow')
      BY <1>1, <1>2, <1>3, <1>4 DEF TrySend
<1>5. ASSUME NEW p \in Producers, BlockingSend(p) PROVE IsPrefix(Flow, Flow')
      BY <1>1, <1>5 DEF BlockingSend
<1>6. ASSUME NEW p \in Producers, Wake(p) PROVE Flow' = Flow
      BY <1>3, <1>6 DEF Wake
<1>7. CASE HandleEmpty \/ Elapse \/ Restart
      BY <1>2, <1>3, <1>7 DEF HandleEmpty, Elapse, Restart
<1>8. CASE HandleQuery \/ BatchExecuted
      BY <1>2, <1>8, FlowKept
<1>9. ~ProcessEnds
      BY DEF ProcessEnds
<1>10. ASSUME NEW b \in doubtful PROVE ~Settle(b)
      BY <1>10 DEF Settle
<1>11. QED BY <1>2, <1>4, <1>5, <1>6, <1>7, <1>8, <1>9, <1>10
           DEF Next, BatchFailed, Kill

(* While the process lives and the server settles nothing, no step drops,  *)
(* repeats or reorders a query that is on its way.                         *)
THEOREM StreamOnlyGrows == Spec => FlowOnlyGrows
<1>1. TypeOK /\ [Next]_vars
          => [up' /\ doubtful' = doubtful => IsPrefix(Flow, Flow')]_vars
      BY GrowingStep
<1>2. QED BY <1>1, TypeCorrect, PTL DEF Spec, FlowOnlyGrows

(***************************************************************************)
(* The order of the queries of a producer.                                 *)
(***************************************************************************)

Before(S, T) == \A q \in S, r \in T : SameSource(q, r) => q.n < r.n

LEMMA ToSetOfCat ==
    ASSUME NEW S, NEW s \in Seq(S), NEW t \in Seq(S)
    PROVE  ToSet(Cat(s, t)) = ToSet(s) \cup ToSet(t)
<1>1. /\ Len(s) \in Nat /\ Len(t) \in Nat
      /\ DOMAIN s = 1..Len(s) /\ DOMAIN t = 1..Len(t)
      /\ DOMAIN (s \o t) = 1..Len(s) + Len(t)
      BY ConcatProperties, LenProperties
<1>2. ASSUME NEW i \in 1..Len(s) + Len(t)
      PROVE  (s \o t)[i] \in ToSet(s) \cup ToSet(t)
  <2>1. CASE i <= Len(s)
        BY <1>1, <2>1, ConcatProperties DEF ToSet
  <2>2. CASE ~(i <= Len(s))
        BY <1>1, <2>2, i - Len(s) \in 1..Len(t), ConcatProperties DEF ToSet
  <2>3. QED BY <2>1, <2>2
<1>3. ASSUME NEW i \in 1..Len(s) PROVE s[i] \in ToSet(s \o t)
  <2>1. i \in 1..Len(s) + Len(t) /\ (s \o t)[i] = s[i]
        BY <1>1, ConcatProperties
  <2>2. QED BY <1>1, <2>1 DEF ToSet
<1>4. ASSUME NEW i \in 1..Len(t) PROVE t[i] \in ToSet(s \o t)
  <2>1. /\ i + Len(s) \in 1..Len(s) + Len(t)
        /\ (s \o t)[i + Len(s)] = t[i]
        BY <1>1, ConcatProperties
  <2>2. QED BY <1>1, <2>1 DEF ToSet
<1>5. QED BY <1>1, <1>2, <1>3, <1>4 DEF Cat, ToSet

(* A concatenation is ordered when its parts are and the first is before   *)
(* the second.                                                             *)
LEMMA OrderedCat ==
    ASSUME NEW s \in Seq(Query), NEW t \in Seq(Query)
    PROVE  Ordered(Cat(s, t))
               <=> Ordered(s) /\ Ordered(t) /\ Before(ToSet(s), ToSet(t))
<1> DEFINE c == s \o t
<1>1. /\ Len(s) \in Nat /\ Len(t) \in Nat
      /\ DOMAIN s = 1..Len(s) /\ DOMAIN t = 1..Len(t)
      /\ DOMAIN c = 1..Len(s) + Len(t)
      BY ConcatProperties, LenProperties
<1>2. /\ \A i \in 1..Len(s) : i \in DOMAIN c /\ c[i] = s[i]
      /\ \A i \in 1..Len(t) : i + Len(s) \in DOMAIN c /\ c[i + Len(s)] = t[i]
      BY <1>1, ConcatProperties
<1> HIDE DEF c
<1>3. ASSUME Ordered(c) PROVE Ordered(s)
      BY <1>1, <1>2, <1>3 DEF Ordered
<1>4. ASSUME Ordered(c) PROVE Ordered(t)
  <2>1. SUFFICES ASSUME NEW i \in 1..Len(t), NEW j \in 1..Len(t), i < j,
                        SameSource(t[i], t[j])
                 PROVE  t[i].n < t[j].n
        BY <1>1 DEF Ordered
  <2>2. i + Len(s) < j + Len(s)
        BY <1>1, <2>1
  <2>3. QED BY <1>2, <1>4, <2>1, <2>2 DEF Ordered
<1>5. ASSUME Ordered(c) PROVE Before(ToSet(s), ToSet(t))
  <2>1. SUFFICES ASSUME NEW i \in 1..Len(s), NEW j \in 1..Len(t),
                        SameSource(s[i], t[j])
                 PROVE  s[i].n < t[j].n
        BY <1>1 DEF Before, ToSet
  <2>2. i < j + Len(s)
        BY <1>1
  <2>3. QED BY <1>2, <1>5, <2>1, <2>2 DEF Ordered
<1>6. ASSUME Ordered(s), Ordered(t), Before(ToSet(s), ToSet(t)) PROVE Ordered(c)
  <2>1. SUFFICES ASSUME NEW i \in DOMAIN c, NEW j \in DOMAIN c, i < j,
                        SameSource(c[i], c[j])
                 PROVE  c[i].n < c[j].n
        BY DEF Ordered
  <2>2. CASE j <= Len(s)
    <3>1. i \in 1..Len(s) /\ j \in 1..Len(s)
          BY <1>1, <2>1, <2>2
    <3>2. QED BY <1>1, <1>2, <1>6, <2>1, <3>1 DEF Ordered
  <2>3. CASE i > Len(s)
    <3> DEFINE a == i - Len(s)
               b == j - Len(s)
    <3>1. /\ a \in 1..Len(t) /\ b \in 1..Len(t) /\ a < b
          /\ a + Len(s) = i /\ b + Len(s) = j
          BY <1>1, <2>1, <2>3
    <3> HIDE DEF a, b
    <3>2. c[i] = t[a] /\ c[j] = t[b]
          BY <1>2, <3>1
    <3>3. QED BY <1>1, <1>6, <2>1, <3>1, <3>2 DEF Ordered
  <2>4. CASE i <= Len(s) /\ j > Len(s)
    <3> DEFINE b == j - Len(s)
    <3>1. i \in 1..Len(s) /\ b \in 1..Len(t) /\ b + Len(s) = j
          BY <1>1, <2>1, <2>4
    <3> HIDE DEF b
    <3>2. c[i] = s[i] /\ c[j] = t[b]
          BY <1>2, <3>1
    <3>3. s[i] \in ToSet(s) /\ t[b] \in ToSet(t)
          BY <1>1, <3>1 DEF ToSet
    <3>4. QED BY <1>6, <2>1, <3>2, <3>3 DEF Before
  <2>5. QED BY <1>1, <2>2, <2>3, <2>4
<1>7. QED BY <1>3, <1>4, <1>5, <1>6, Zenon DEF Cat, c

(* The strengthening of ProducerOrder: what is in flight belongs to this   *)
(* life of the process, what is doubtful to earlier ones, each doubtful    *)
(* batch to one of its own; and each could be committed next.              *)
Sequenced ==
    /\ Ordered(Flow)
    /\ \A q \in ToSet(Flow) : q.n < sent[q.from] /\ q.life <= crashes
    /\ \A q \in ToSet(Cat(batch, channel)) : q.life = crashes
    /\ \A d \in doubtful :
           /\ Ordered(Cat(table, d))
           /\ \A q \in ToSet(d) : q.n < sent[q.from] /\ q.life < crashes
    /\ \A d, e \in doubtful : d # e =>
           \A q \in ToSet(d), r \in ToSet(e) : q.life # r.life

LEMMA FlowParts ==
    ASSUME TypeOK
    PROVE  /\ Flow = Cat(table, Cat(batch, channel))
           /\ Flow = Cat(Cat(table, batch), channel)
           /\ Cat(table, batch) \in Seq(Query) /\ Cat(batch, channel) \in Seq(Query)
<1>1. Flow = Cat(Cat(table, batch), channel)
      BY DEF Flow, Cat
<1>2. /\ table \in Seq(Query) /\ batch \in Seq(Query) /\ channel \in Seq(Query)
      BY DEF TypeOK
<1>3. QED BY <1>1, <1>2, CatAssociative, CatType

LEMMA ToSetType == ASSUME NEW s \in Seq(Query) PROVE ToSet(s) \subseteq Query
BY LenProperties, ElementOfSeq DEF ToSet

LEMMA ToSetEmpty == ToSet(<<>>) = {}
BY DEF ToSet

(* Sequences of different lives are before each other.                     *)
LEMMA BeforeByLife ==
    ASSUME NEW S, NEW T, \A q \in S, r \in T : q.life # r.life
    PROVE  Before(S, T)
BY DEF Before, SameSource

LEMMA SequencedInit == Init => Sequenced
<1> SUFFICES ASSUME Init PROVE Sequenced
    OBVIOUS
<1>1. Flow = <<>> /\ Cat(batch, channel) = <<>> /\ doubtful = {}
      BY ConcatEmptySeq, EmptySeq DEF Init, Flow, Cat
<1>2. Ordered(<<>>)
      BY DEF Ordered
<1>3. QED BY <1>1, <1>2, ToSetEmpty DEF Sequenced

LEMMA SequencedSend ==
    ASSUME TypeOK, Sequenced, NEW p \in Producers, Ready(p), Enqueue(p),
           UNCHANGED <<batch, table, doubtful, crashes>>
    PROVE  Sequenced'
<1> DEFINE q == [from |-> p, n |-> sent[p], life |-> crashes]
           r == <<q>>
<1>1. /\ q \in Query /\ q.from = p /\ q.n = sent[p] /\ q.life = crashes
      /\ Flow' = Cat(Flow, r) /\ channel' = Append(channel, q)
      BY FlowAppends DEF Cat, Enqueue
<1>2. r \in Seq(Query) /\ ToSet(r) = {q} /\ Ordered(r)
  <2>1. r \in Seq(Query) /\ DOMAIN r = {1} /\ r[1] = q
        BY <1>1
  <2> HIDE DEF r, q
  <2>2. QED BY <2>1 DEF ToSet, Ordered
<1> HIDE DEF q, r
<1>3. Flow \in Seq(Query) /\ ToSet(Flow) \subseteq Query
      BY FlowType, ToSetType
<1>4. /\ sent' = [sent EXCEPT ![p] = @ + 1]
      /\ \A x \in Producers : sent[x] \in Nat /\ sent[x] <= sent'[x]
      /\ sent'[p] = sent[p] + 1
      BY DEF TypeOK, Enqueue
<1>5. Ordered(Flow')
  <2>1. Before(ToSet(Flow), {q})
        BY <1>1 DEF Sequenced, Before, SameSource
  <2>2. QED BY <1>1, <1>2, <1>3, <2>1, OrderedCat DEF Sequenced
<1>6. ToSet(Flow') = ToSet(Flow) \cup {q}
      BY <1>1, <1>2, <1>3, ToSetOfCat
<1>7. \A x \in ToSet(Flow') : x.n < sent'[x.from] /\ x.life <= crashes'
  <2>1. \A x \in ToSet(Flow) : x.n < sent'[x.from] /\ x.life <= crashes'
        BY <1>3, <1>4 DEF Sequenced, Query
  <2>2. q.n < sent'[q.from] /\ q.life <= crashes'
        BY <1>1, <1>4 DEF TypeOK
  <2>3. QED BY <1>6, <2>1, <2>2
<1>8. \A x \in ToSet(Cat(batch, channel)') : x.life = crashes'
  <2>1. channel' = Cat(channel, r)
        BY <1>1, AppendIsConcat DEF TypeOK, Cat, r
  <2>2. Cat(batch, channel)' = Cat(Cat(batch, channel), r)
        BY <1>2, <2>1, CatAssociative DEF TypeOK
  <2>3. ToSet(Cat(batch, channel)') = ToSet(Cat(batch, channel)) \cup {q}
        BY <1>2, <2>2, FlowParts, ToSetOfCat
  <2>4. QED BY <1>1, <2>3 DEF Sequenced
<1>9. ASSUME NEW d \in doubtful
      PROVE  \A x \in ToSet(d) : x.n < sent'[x.from] /\ x.life < crashes'
  <2>1. ToSet(d) \subseteq Query
        BY ToSetType DEF TypeOK
  <2>2. QED BY <1>4, <2>1 DEF Sequenced, Query
<1>10. \A d \in doubtful : Ordered(Cat(table, d)')
       BY DEF Sequenced, Cat
<1>11. QED BY <1>5, <1>7, <1>8, <1>9, <1>10 DEF Sequenced

LEMMA SequencedHandle ==
    ASSUME TypeOK, Sequenced, HandleQuery
    PROVE  Sequenced'
<1>1. Flow' = Flow /\ UNCHANGED <<sent, table, doubtful, crashes>>
      BY FlowKept DEF HandleQuery
<1>2. \A q \in ToSet(Cat(batch, channel)') : q.life = crashes'
  <2>1. TypeOK'
        BY TypeStep DEF Next
  <2>2. ToSet(batch') = ToSet(batch) \cup {Head(channel)}
    <3> DEFINE r == <<Head(channel)>>
    <3>1. Head(channel) \in Query
          BY HeadTailProperties DEF TypeOK, HandleQuery
    <3>2. batch' = Cat(batch, r) /\ r \in Seq(Query)
          BY <3>1, AppendIsConcat DEF TypeOK, HandleQuery, Cat
    <3>3. DOMAIN r = {1} /\ r[1] = Head(channel)
          OBVIOUS
    <3> HIDE DEF r
    <3>4. ToSet(r) = {Head(channel)}
          BY <3>3 DEF ToSet
    <3>5. QED BY <3>2, <3>4, ToSetOfCat DEF TypeOK
  <2>3. {Head(channel)} \cup ToSet(channel') \subseteq ToSet(channel)
    <3>1. /\ channel \in Seq(Query) /\ channel # <<>> /\ channel' = Tail(channel)
          /\ Head(channel) = channel[1] /\ Len(channel) \in Nat \ {0}
          BY EmptySeq DEF TypeOK, HandleQuery
    <3>2. /\ DOMAIN channel = 1..Len(channel)
          /\ channel' \in Seq(Query) /\ Len(channel') = Len(channel) - 1
          /\ \A i \in 1..Len(channel') : channel'[i] = channel[i + 1]
          BY <3>1, HeadTailProperties, LenProperties
    <3>3. DOMAIN channel' = 1..Len(channel')
          BY <3>2, LenProperties
    <3>4. QED BY <3>1, <3>2, <3>3 DEF ToSet
  <2>4. ToSet(Cat(batch, channel)') = ToSet(batch') \cup ToSet(channel')
        BY <2>1, ToSetOfCat DEF TypeOK, Cat
  <2>5. ToSet(Cat(batch, channel)) = ToSet(batch) \cup ToSet(channel)
        BY ToSetOfCat DEF TypeOK
  <2>6. QED BY <1>1, <2>2, <2>3, <2>4, <2>5 DEF Sequenced
<1>3. \A d \in doubtful : Cat(table, d)' = Cat(table, d)
      BY <1>1 DEF Cat
<1>4. QED BY <1>1, <1>2, <1>3 DEF Sequenced

LEMMA SequencedExecuted ==
    ASSUME TypeOK, Sequenced, BatchExecuted
    PROVE  Sequenced'
<1>1. Flow' = Flow /\ UNCHANGED <<sent, doubtful, crashes, channel>>
      BY FlowKept DEF BatchExecuted
<1>2. table' = Cat(table, batch) /\ batch' = <<>>
      BY DEF BatchExecuted, Cat
<1>3. /\ table \in Seq(Query) /\ batch \in Seq(Query) /\ channel \in Seq(Query)
      /\ doubtful \subseteq Seq(Query)
      BY DEF TypeOK
<1>4. ToSet(Cat(batch, channel)) = ToSet(batch) \cup ToSet(channel)
      BY <1>3, ToSetOfCat
<1>5. \A q \in ToSet(Cat(batch, channel)') : q.life = crashes'
  <2>1. Cat(batch, channel)' = channel
        BY <1>1, <1>2, <1>3, ConcatEmptySeq DEF Cat
  <2>2. QED BY <1>1, <1>4, <2>1 DEF Sequenced
<1>6. ASSUME NEW d \in doubtful PROVE Ordered(Cat(table', d))
  <2>1. Ordered(table') /\ table' \in Seq(Query)
        BY <1>2, <1>3, FlowParts, OrderedCat DEF Sequenced
  <2>2. Ordered(d) /\ Before(ToSet(table), ToSet(d)) /\ d \in Seq(Query)
        BY <1>3, OrderedCat DEF Sequenced
  <2>3. Before(ToSet(batch), ToSet(d))
    <3>1. /\ \A q \in ToSet(batch) : q.life = crashes
          /\ \A r \in ToSet(d) : r.life < crashes /\ r \in Query
          BY <1>3, <1>4, ToSetType DEF Sequenced
    <3>2. \A q \in ToSet(batch), r \in ToSet(d) : q.life # r.life
          BY <3>1 DEF Query, TypeOK
    <3>3. QED BY <3>2, BeforeByLife
  <2>4. Before(ToSet(table'), ToSet(d))
        BY <1>2, <1>3, <2>2, <2>3, ToSetOfCat DEF Before
  <2>5. QED BY <2>1, <2>2, <2>4, OrderedCat
<1>7. \A d \in doubtful : Cat(table, d)' = Cat(table', d)
      BY DEF Cat
<1>8. QED BY <1>1, <1>5, <1>6, <1>7 DEF Sequenced

LEMMA SequencedEnds ==
    ASSUME TypeOK, Sequenced, ProcessEnds
    PROVE  Sequenced'
<1>1. /\ sent' = sent /\ table' = table /\ crashes' = crashes + 1 /\ crashes \in Nat
      /\ doubtful' \subseteq doubtful \cup {batch}
      /\ batch' = <<>> /\ channel' = <<>>
      BY DEF ProcessEnds, TypeOK
<1>2. /\ table \in Seq(Query) /\ batch \in Seq(Query) /\ channel \in Seq(Query)
      /\ doubtful \subseteq Seq(Query)
      BY DEF TypeOK
<1>3. /\ ToSet(Flow) = ToSet(table) \cup ToSet(Cat(batch, channel))
      /\ ToSet(Cat(batch, channel)) = ToSet(batch) \cup ToSet(channel)
      BY <1>2, FlowParts, ToSetOfCat
<1>4. Flow' = table /\ Cat(batch, channel)' = <<>>
      BY <1>1, <1>2, ConcatEmptySeq, EmptySeq DEF Flow, Cat
<1>5. Ordered(Flow')
      BY <1>2, <1>4, FlowParts, OrderedCat DEF Sequenced
<1>6. \A q \in ToSet(Flow') : q.n < sent'[q.from] /\ q.life <= crashes'
  <2>1. ToSet(table) \subseteq Query
        BY <1>2, ToSetType
  <2>2. QED BY <1>1, <1>3, <1>4, <2>1 DEF Sequenced, Query
<1>7. ASSUME NEW d \in doubtful'
      PROVE  /\ Ordered(Cat(table, d))
             /\ \A q \in ToSet(d) : q.n < sent'[q.from] /\ q.life < crashes'
  <2>1. CASE d \in doubtful
    <3>1. ToSet(d) \subseteq Query
          BY <1>2, <2>1, ToSetType
    <3>2. QED BY <1>1, <2>1, <3>1 DEF Sequenced, Query
  <2>2. CASE d = batch
    <3>1. Ordered(Cat(table, batch))
          BY <1>2, FlowParts, OrderedCat DEF Sequenced
    <3>2. \A q \in ToSet(batch) : q.n < sent[q.from] /\ q.life = crashes
          BY <1>3 DEF Sequenced
    <3>3. QED BY <1>1, <2>2, <3>1, <3>2
  <2>3. QED BY <1>1, <2>1, <2>2
<1>8. ASSUME NEW d \in doubtful', NEW e \in doubtful', d # e,
             NEW q \in ToSet(d), NEW r \in ToSet(e)
      PROVE  q.life # r.life
  <2>1. \A x \in doubtful : \A y \in ToSet(x) : y.life < crashes /\ y \in Query
        BY <1>2, ToSetType DEF Sequenced
  <2>2. \A y \in ToSet(batch) : y.life = crashes
        BY <1>3 DEF Sequenced
  <2>3. \A x \in doubtful : \A y \in ToSet(x), z \in ToSet(batch) : y.life # z.life
        BY <1>1, <2>1, <2>2 DEF Query
  <2>4. QED BY <1>1, <1>8, <2>3 DEF Sequenced
<1>9. \A d \in doubtful' : Cat(table', d) = Cat(table, d)
      BY <1>1
<1>10. QED BY <1>4, <1>5, <1>6, <1>7, <1>8, <1>9, ToSetEmpty DEF Sequenced, Cat

LEMMA SequencedSettle ==
    ASSUME TypeOK, Sequenced, NEW b \in doubtful, Settle(b)
    PROVE  Sequenced'
<1> DEFINE f == Cat(batch, channel)
<1>1. /\ UNCHANGED <<sent, batch, channel, crashes>>
      /\ doubtful' = doubtful \ {b}
      /\ table' = table \/ table' = Cat(table, b)
      BY DEF Settle, Cat
<1>2. /\ table \in Seq(Query) /\ f \in Seq(Query) /\ b \in Seq(Query)
      /\ doubtful \subseteq Seq(Query)
      BY FlowParts DEF TypeOK
<1>3. TypeOK'
      BY TypeStep DEF Next
<1>4. Flow = Cat(table, f) /\ Flow' = Cat(table', f) /\ table' \in Seq(Query)
  <2>1. Flow' = Cat(table', Cat(batch', channel'))
    <3>1. table' \in Seq(Query) /\ batch \in Seq(Query) /\ channel \in Seq(Query)
          BY <1>3 DEF TypeOK
    <3>2. Flow' = Cat(Cat(table', batch), channel)
          BY <1>1 DEF Flow, Cat
    <3>3. QED BY <1>1, <3>1, <3>2, CatAssociative
  <2>2. QED BY <1>1, <1>3, <2>1, FlowParts DEF TypeOK
<1>5. f' = f
      BY <1>1 DEF Cat
<1> HIDE DEF f
<1>6. /\ \A q \in ToSet(f) : q.life = crashes
      /\ \A q \in ToSet(b) : q.life < crashes /\ q \in Query /\ q.n < sent[q.from]
      BY <1>2, ToSetType DEF Sequenced, f
<1>7. CASE table' = table
  <2>1. Flow' = Flow /\ \A d \in doubtful' : Cat(table', d) = Cat(table, d)
        BY <1>4, <1>7
  <2>2. QED BY <1>1, <1>5, <2>1 DEF Sequenced, Cat, f
<1>8. CASE table' = Cat(table, b)
  <2>1. Ordered(table') /\ Ordered(b) /\ Before(ToSet(table), ToSet(b))
        BY <1>2, <1>8, OrderedCat DEF Sequenced
  <2>2. ToSet(table') = ToSet(table) \cup ToSet(b)
        BY <1>2, <1>8, ToSetOfCat
  <2>3. Before(ToSet(b), ToSet(f))
    <3>1. \A q \in ToSet(b), r \in ToSet(f) : q.life # r.life
          BY <1>6 DEF Query, TypeOK
    <3>2. QED BY <3>1, BeforeByLife
  <2>4. Ordered(f) /\ Before(ToSet(table), ToSet(f))
        BY <1>2, <1>4, OrderedCat DEF Sequenced
  <2>5. Ordered(Flow')
    <3>1. Before(ToSet(table'), ToSet(f))
          BY <2>2, <2>3, <2>4 DEF Before
    <3>2. QED BY <1>2, <1>4, <2>1, <2>4, <3>1, OrderedCat
  <2>6. \A q \in ToSet(Flow') : q.n < sent[q.from] /\ q.life <= crashes
    <3>1. /\ ToSet(Flow') = ToSet(Flow) \cup ToSet(b)
          BY <1>2, <1>4, <2>2, ToSetOfCat
    <3>2. QED BY <1>6, <3>1 DEF Sequenced, Query, TypeOK
  <2>7. ASSUME NEW d \in doubtful' PROVE Ordered(Cat(table', d))
    <3>1. d \in doubtful /\ d # b /\ d \in Seq(Query)
          BY <1>1, <1>2, <2>7
    <3>2. Ordered(d) /\ Before(ToSet(table), ToSet(d))
          BY <1>2, <3>1, OrderedCat DEF Sequenced
    <3>3. Before(ToSet(b), ToSet(d))
          BY <3>1, BeforeByLife DEF Sequenced
    <3>4. Before(ToSet(table'), ToSet(d))
          BY <2>2, <3>2, <3>3 DEF Before
    <3>5. QED BY <1>4, <2>1, <3>1, <3>2, <3>4, OrderedCat
  <2>8. /\ \A q \in ToSet(f') : q.life = crashes'
        /\ \A d \in doubtful' : \A q \in ToSet(d) : q.n < sent'[q.from] /\ q.life < crashes'
        /\ \A d, e \in doubtful' : d # e =>
               \A q \in ToSet(d), r \in ToSet(e) : q.life # r.life
        BY <1>1, <1>5, <1>6 DEF Sequenced
  <2>9. QED BY <1>1, <2>5, <2>6, <2>7, <2>8 DEF Sequenced, Cat, f
<1>9. QED BY <1>1, <1>7, <1>8

LEMMA SequencedStep == TypeOK /\ Sequenced /\ [Next]_vars => Sequenced'
<1> SUFFICES ASSUME TypeOK, Sequenced, [Next]_vars PROVE Sequenced'
    OBVIOUS
<1>1. ASSUME UNCHANGED <<sent, channel, batch, table, doubtful, crashes>>
      PROVE  Sequenced'
  <2>1. Flow' = Flow /\ Cat(batch, channel)' = Cat(batch, channel)
        BY <1>1 DEF Flow, Cat
  <2>2. \A d \in doubtful : Cat(table, d)' = Cat(table, d)
        BY <1>1 DEF Cat
  <2>3. QED BY <1>1, <2>1, <2>2 DEF Sequenced
<1>2. ASSUME NEW p \in Producers, TrySend(p) PROVE Sequenced'
      BY <1>1, <1>2, SequencedSend DEF TrySend
<1>3. ASSUME NEW p \in Producers, BlockingSend(p) PROVE Sequenced'
      BY <1>3, SequencedSend DEF BlockingSend
<1>4. ASSUME NEW p \in Producers, Wake(p) PROVE Sequenced'
      BY <1>1, <1>4 DEF Wake
<1>5. CASE HandleEmpty \/ Elapse \/ Restart \/ UNCHANGED vars
      BY <1>1, <1>5 DEF HandleEmpty, Elapse, Restart, vars
<1>6. QED
      BY <1>2, <1>3, <1>4, <1>5, SequencedHandle, SequencedExecuted, SequencedEnds,
         SequencedSettle DEF Next, BatchFailed, Kill

(* The queries of one producer and one life are committed at most once and *)
(* in the order in which they were sent.                                   *)
THEOREM ProducersStayInOrder == Spec => []ProducerOrder
<1>1. Sequenced => ProducerOrder
      BY DEF Sequenced, ProducerOrder
<1>2. QED BY <1>1, TypeInit, TypeStep, SequencedInit, SequencedStep, PTL DEF Spec

(***************************************************************************)
(* The writer implements the log.                                          *)
(***************************************************************************)

(* The first batch of what is accepted is `batch`, and the rest `channel`. *)
LEMMA SubSeqOfCat ==
    ASSUME NEW S, NEW s \in Seq(S), NEW t \in Seq(S), s # <<>>
    PROVE  /\ SubSeq(s \o t, 1, Len(s)) = s
           /\ SubSeq(s \o t, Len(s) + 1, Len(s \o t)) = t
<1>1. Len(s) \in Nat \ {0} /\ Len(t) \in Nat /\ Len(s \o t) = Len(s) + Len(t)
      BY EmptySeq, LenProperties, ConcatProperties
<1>2. SubSeq(s \o t, 1, Len(s)) = SubSeq(s, 1, Len(s))
      BY <1>1, SubSeqOfConcat1
<1>3. SubSeq(s, 1, Len(s)) = s
      BY SubSeqFull
<1>4. CASE t = <<>>
  <2>1. Len(t) = 0
        BY <1>4, EmptySeq
  <2>2. SubSeq(s \o t, Len(s) + 1, Len(s \o t)) = <<>>
        BY <1>1, <2>1, SubSeqEmpty
  <2>3. QED BY <1>2, <1>3, <1>4, <2>2
<1>5. CASE t # <<>>
  <2>1. Len(t) # 0
        BY <1>5, EmptySeq
  <2>2. SubSeq(s \o t, Len(s) + 1, Len(s) + Len(t)) = SubSeq(t, 1, Len(t))
    <3>1. /\ Len(s) + 1 \in Len(s) + 1..Len(s) + Len(t)
          /\ Len(s) + Len(t) \in Len(s) + 1..Len(s) + Len(t)
          /\ (Len(s) + 1) - Len(s) = 1 /\ (Len(s) + Len(t)) - Len(s) = Len(t)
          BY <1>1, <2>1
    <3>2. QED BY <3>1, SubSeqOfConcat2
  <2>3. SubSeq(t, 1, Len(t)) = t
        BY SubSeqFull
  <2>4. QED BY <1>1, <1>2, <1>3, <2>2, <2>3
<1>6. QED BY <1>4, <1>5

LEMMA LogSend ==
    ASSUME TypeOK, BatchBounded, NEW p \in Producers, Ready(p), ~Full, Enqueue(p),
           UNCHANGED <<batch, table, doubtful>>
    PROVE  Log!Next
<1> DEFINE q == [from |-> p, n |-> sent[p], life |-> crashes]
           r == <<q>>
<1>1. q \in Query /\ channel' = Append(channel, q)
      BY NextQueryType DEF Ready, Enqueue
<1> HIDE DEF q
<1>2. /\ batch \in Seq(Query) /\ channel \in Seq(Query) /\ r \in Seq(Query)
      /\ channel' = Cat(channel, r)
      BY <1>1, AppendIsConcat DEF TypeOK, Cat
<1>3. batch' \o channel' = Append(batch \o channel, q)
  <2>1. Cat(batch, channel) \in Seq(Query)
        BY <1>2, CatType
  <2>2. Append(Cat(batch, channel), q) = Cat(Cat(batch, channel), r)
        BY <1>1, <2>1, AppendIsConcat DEF Cat
  <2> HIDE DEF r
  <2>3. Cat(batch, Cat(channel, r)) = Cat(Cat(batch, channel), r)
        BY <1>2, CatAssociative
  <2>4. batch' = batch
        OBVIOUS
  <2>5. QED BY <1>2, <2>2, <2>3, <2>4, Zenon DEF Cat
<1>4. Len(batch \o channel) < ChannelCapacity + MaxBatchSize
  <2>1. Len(batch) \in Nat /\ Len(channel) \in Nat
            /\ Len(batch \o channel) = Len(batch) + Len(channel)
        BY <1>2, LenProperties, ConcatProperties
  <2>2. Len(batch) <= MaxBatchSize
        BY <2>1, WriterAssumption DEF BatchBounded
  <2>3. QED BY <2>1, <2>2, WriterAssumption DEF Full
<1>5. Log!Accept(q)
      BY <1>3, <1>4 DEF Log!Accept
<1>6. QED BY <1>1, <1>5 DEF Log!Next

LEMMA LogExecuted ==
    ASSUME TypeOK, BatchBounded, BatchExecuted
    PROVE  Log!Next
<1>1. /\ batch \in Seq(Query) /\ channel \in Seq(Query) /\ batch # <<>>
      /\ Len(batch) \in 1..MaxBatchSize
  <2>1. batch \in Seq(Query) /\ channel \in Seq(Query)
        BY DEF TypeOK
  <2>2. batch # <<>> /\ Len(batch) <= MaxBatchSize
        BY DEF BatchBounded, BatchExecuted
  <2>3. Len(batch) \in Nat \ {0}
        BY <2>1, <2>2, EmptySeq
  <2>4. QED BY <2>1, <2>2, <2>3, WriterAssumption
<1>2. /\ SubSeq(batch \o channel, 1, Len(batch)) = batch
      /\ SubSeq(batch \o channel, Len(batch) + 1, Len(batch \o channel)) = channel
      BY <1>1, SubSeqOfCat
<1>3. batch' \o channel' = channel
      BY <1>1, ConcatEmptySeq DEF BatchExecuted
<1>4. Len(batch) <= Len(batch \o channel)
      BY <1>1, ConcatProperties, LenProperties
<1>5. Log!Persist(Len(batch))
      BY <1>2, <1>3, <1>4 DEF BatchExecuted, Log!Persist
<1>6. QED BY <1>1, <1>5 DEF Log!Next

LEMMA LogEnds ==
    ASSUME TypeOK, BatchBounded, ProcessEnds
    PROVE  Log!Next
<1>1. /\ batch \in Seq(Query) /\ channel \in Seq(Query)
      /\ Len(batch \o channel) \in Nat
      BY ConcatProperties, LenProperties DEF TypeOK
<1>2. batch' \o channel' = <<>>
      BY ConcatEmptySeq, EmptySeq DEF ProcessEnds
<1>3. CASE executing
  <2>1. batch # <<>> /\ Len(batch) <= MaxBatchSize
        BY <1>3 DEF BatchBounded
  <2>2. Len(batch) \in 0..MaxBatchSize /\ Len(batch) # 0
        BY <1>1, <2>1, EmptySeq, WriterAssumption
  <2>3. Len(batch) <= Len(batch \o channel)
        BY <1>1, ConcatProperties, LenProperties
  <2>4. SubSeq(batch \o channel, 1, Len(batch)) = batch
        BY <1>1, <2>1, SubSeqOfCat
  <2>5. doubtful' = doubtful \cup {batch} /\ table' = table
        BY <1>3 DEF ProcessEnds
  <2>6. Log!Crash(Len(batch))
        BY <1>2, <2>2, <2>3, <2>4, <2>5 DEF Log!Crash
  <2>7. QED BY <2>2, <2>6 DEF Log!Next
<1>4. CASE ~executing
  <2>1. doubtful' = doubtful /\ table' = table
        BY <1>4 DEF ProcessEnds
  <2>2. Log!Crash(0)
        BY <1>1, <1>2, <2>1 DEF Log!Crash
  <2>3. QED BY <2>2, WriterAssumption DEF Log!Next
<1>5. QED BY <1>3, <1>4

LEMMA LogStep == TypeOK /\ BatchBounded /\ [Next]_vars => [Log!Next]_(Log!vars)
<1> SUFFICES ASSUME TypeOK, BatchBounded, [Next]_vars
             PROVE  Log!Next \/ UNCHANGED Log!vars
    OBVIOUS
<1>1. ASSUME UNCHANGED <<channel, batch, table, doubtful>> PROVE UNCHANGED Log!vars
      BY <1>1 DEF Log!vars
<1>2. ASSUME NEW p \in Producers, TrySend(p) PROVE Log!Next \/ UNCHANGED Log!vars
      BY <1>1, <1>2, LogSend DEF TrySend
<1>3. ASSUME NEW p \in Producers, BlockingSend(p) PROVE Log!Next
      BY <1>3, LogSend DEF BlockingSend
<1>4. ASSUME NEW p \in Producers, Wake(p) PROVE UNCHANGED Log!vars
      BY <1>1, <1>4 DEF Wake
<1>5. CASE HandleEmpty \/ Elapse \/ Restart \/ UNCHANGED vars
      BY <1>1, <1>5 DEF HandleEmpty, Elapse, Restart, vars
<1>6. CASE HandleQuery
  <2>1. batch' \o channel' = batch \o channel
        BY <1>6, HandleKeepsFlight DEF Cat
  <2>2. QED BY <1>6, <2>1 DEF HandleQuery, Log!vars
<1>7. ASSUME NEW b \in doubtful, Settle(b) PROVE Log!Next
  <2>1. Log!Settle(b)
        BY <1>7 DEF Settle, Log!Settle
  <2>2. QED BY <2>1 DEF Log!Next
<1>8. QED
      BY <1>2, <1>3, <1>4, <1>5, <1>6, <1>7, LogExecuted, LogEnds
      DEF Next, BatchFailed, Kill

LEMMA LogInit == Init => Log!Init
BY ConcatEmptySeq, EmptySeq DEF Init, Log!Init

(* Every step of the writer is a step of the log or none: what the topics  *)
(* may rely on is WriteLog, with room for the channel and one batch.       *)
THEOREM WriterImplementsLog == Spec => ImplementsLog
<1>1. Spec => []TypeOK /\ []BatchBounded
      BY TypeCorrect, BatchesAreBounded, PTL
<1>2. QED BY <1>1, LogInit, LogStep, PTL DEF Spec, ImplementsLog, Log!Spec
-----------------------------------------------------------------------------
(***************************************************************************)
(* Every step of the tasks is a step of QueryWriter or leaves its state    *)
(* alone.  `run` keeps a sender, so the process never exits by itself.     *)
(***************************************************************************)

LEMMA StepsOfWriter == RuntimeNext => [Next]_vars
<1> SUFFICES ASSUME RuntimeNext PROVE [Next]_vars
    OBVIOUS
<1>1. CASE Start \/ WriteRequest \/ ServerAnswers
      BY <1>1 DEF Start, Spawn, Select, WriteRequest, ServerAnswers
<1>2. CASE TakeQuery
      BY <1>2 DEF TakeQuery, Next
<1>3. CASE FindNothing
  <2>1. Senders # {}
        BY DEF Senders
  <2>2. QED BY <1>3, <2>1 DEF FindNothing, Next
<1>4. ASSUME NEW t \in Producers \cup {connection}, Poll(t) PROVE [Next]_vars
      BY <1>4 DEF Poll
<1>5. CASE ReadAnswer
      BY <1>5 DEF ReadAnswer, Next
<1>6. ASSUME NEW t \in Producers, Report(t) \/ BlockingReport(t) PROVE [Next]_vars
      BY <1>6 DEF Report, BlockingReport, Next
<1>7. ASSUME NEW t \in Producers, Nap(t) \/ End(t) \/ StartFails(t) PROVE [Next]_vars
      BY <1>7 DEF Nap, End, StartFails
<1>8. ASSUME NEW t \in Producers, WakeUp(t) PROVE [Next]_vars
      BY <1>8 DEF WakeUp, Next
<1>9. CASE ReadError \/ Killed \/ Others
      BY <1>9 DEF ReadError, Killed, Others, Next
<1>10. QED
      BY <1>1, <1>2, <1>3, <1>4, <1>5, <1>6, <1>7, <1>8, <1>9 DEF RuntimeNext, Work

(* Runtime implements QueryWriter: what is proved of the writer (order of  *)
(* the queries, bounded batches, WriteLog) holds for the tasks on their    *)
(* threads.                                                                *)
THEOREM RuntimeImplementsWriter == RuntimeSpec => Spec
<1>1. RuntimeInit => Init
      BY DEF RuntimeInit
<1>2. [RuntimeNext]_<<vars, threads>> => [Next]_vars
      BY StepsOfWriter
<1>3. QED BY <1>1, <1>2, PTL DEF RuntimeSpec, Spec

(* The queries of one producer reach the database at most once and in the  *)
(* order sent (util/mod.rs:105, main.rs:291), with its task on the threads *)
(* of the runtime.                                                         *)
THEOREM TasksStayInOrder == RuntimeSpec => []ProducerOrder
BY RuntimeImplementsWriter, ProducersStayInOrder

(***************************************************************************)
(* Type correctness.                                                       *)
(***************************************************************************)

LEMMA RuntimeInvInit == RuntimeInit => RuntimeInv
<1> SUFFICES ASSUME RuntimeInit PROVE RuntimeInv
    OBVIOUS
<1> USE RuntimeAssumption, WriterAssumption
<1>1. running \ Blocking = {} /\ Cardinality({}) = 0 /\ IsFiniteSet(running)
      BY FS_EmptySet DEF RuntimeInit
<1>2. Cardinality(running \ Blocking) <= Workers
      BY <1>1
<1>3. QED BY <1>1, <1>2 DEF RuntimeInit, Init, RuntimeInv, RuntimeTypeOK

(* A task that gets a worker was counted before it did.                    *)
LEMMA OneMore ==
    ASSUME RuntimeInv, NEW t, t \notin running, OnRuntime(t) => FreeWorker
    PROVE  /\ IsFiniteSet(running \cup {t})
           /\ Cardinality((running \cup {t}) \ Blocking) <= Workers
<1> USE RuntimeAssumption
<1> DEFINE r == running \ Blocking
<1>1. IsFiniteSet(running \cup {t})
      BY FS_AddElement DEF RuntimeInv
<1>2. IsFiniteSet(r) /\ Cardinality(r) <= Workers
      BY FS_Subset DEF RuntimeInv, RuntimeTypeOK
<1>3. CASE t \in Blocking
  <2>1. (running \cup {t}) \ Blocking = r
        BY <1>3
  <2>2. QED BY <1>1, <1>2, <2>1
<1>4. CASE t \notin Blocking
  <2>1. (running \cup {t}) \ Blocking = r \cup {t} /\ t \notin r
        BY <1>4
  <2>2. {q \in running : OnRuntime(q)} = r
        BY DEF OnRuntime
  <2>3. Cardinality(r) < Workers
        BY <1>4, <2>2 DEF FreeWorker, OnRuntime
  <2>4. Cardinality(r \cup {t}) = Cardinality(r) + 1 /\ Cardinality(r) \in Nat
        BY <1>2, <2>1, FS_AddElement, FS_CardinalityType
  <2>5. QED BY <1>1, <2>1, <2>3, <2>4
<1>5. QED BY <1>3, <1>4

LEMMA NoneMore ==
    ASSUME RuntimeInv, NEW S, S \subseteq running
    PROVE  IsFiniteSet(S) /\ Cardinality(S \ Blocking) <= Workers
<1> USE RuntimeAssumption
<1>1. IsFiniteSet(S) /\ IsFiniteSet(running \ Blocking)
      BY FS_Subset DEF RuntimeInv
<1>2. S \ Blocking \subseteq running \ Blocking
      OBVIOUS
<1>3. /\ Cardinality(S \ Blocking) <= Cardinality(running \ Blocking)
      /\ Cardinality(running \ Blocking) \in Nat /\ Cardinality(S \ Blocking) \in Nat
      BY <1>1, <1>2, FS_Subset, FS_CardinalityType
<1>4. QED BY <1>1, <1>3 DEF RuntimeInv, RuntimeTypeOK

LEMMA InvStart ==
    RuntimeInv /\ (Start \/ TakeQuery \/ FindNothing) => RuntimeInv'
<1> SUFFICES ASSUME RuntimeInv, Start \/ TakeQuery \/ FindNothing PROVE RuntimeInv'
    OBVIOUS
<1> USE RuntimeAssumption, WriterAssumption
<1>1. running' = running /\ ended' = ended /\ asleep' = asleep
  <2>1. Senders # {}
        BY DEF Senders
  <2>2. QED
        BY <2>1 DEF Start, Spawn, Select, TakeQuery, FindNothing, HandleQuery, HandleEmpty, vars
<1>2. IsFiniteSet(running') /\ Cardinality(running' \ Blocking) <= Workers
      BY <1>1 DEF RuntimeInv, RuntimeTypeOK
<1>3. ASSUME NEW p \in Producers, Spawn(p) PROVE RuntimeInv'
      BY <1>1, <1>2, <1>3 DEF RuntimeInv, RuntimeTypeOK, Spawn, vars
<1>4. CASE Select
      BY <1>1, <1>2, <1>4 DEF RuntimeInv, RuntimeTypeOK, Select, Ask, vars
<1>5. CASE TakeQuery
  <2>1. request = "none"
        BY <1>5 DEF RuntimeInv, TakeQuery, HandleQuery
  <2>2. CASE executing'
        BY <1>1, <1>2, <1>5, <2>1, <2>2 DEF RuntimeInv, RuntimeTypeOK, TakeQuery, Ask
  <2>3. CASE ~executing'
        BY <1>1, <1>2, <1>5, <2>1, <2>3 DEF RuntimeInv, RuntimeTypeOK, TakeQuery
  <2>4. QED BY <2>2, <2>3
<1>6. CASE FindNothing
  <2>1. Senders # {}
        BY DEF Senders
  <2>2. Ask /\ UNCHANGED unspawned /\ executing' = TRUE /\ unspawned = {}
        BY <1>6, <2>1 DEF FindNothing, HandleEmpty
  <2>3. request = "none"
        BY <1>6 DEF RuntimeInv, FindNothing
  <2>4. QED BY <1>1, <1>2, <2>2, <2>3 DEF RuntimeInv, RuntimeTypeOK, Ask
<1>7. QED BY <1>3, <1>4, <1>5, <1>6 DEF Start

LEMMA InvPoll ==
    ASSUME RuntimeInv, NEW t \in Producers \cup {connection}, Poll(t)
    PROVE  RuntimeInv'
<1> USE RuntimeAssumption, WriterAssumption
<1>1. t \notin running
      BY DEF RuntimeInv, RuntimeTypeOK, Poll
<1>2. IsFiniteSet(running') /\ Cardinality(running' \ Blocking) <= Workers
      BY <1>1, OneMore DEF Poll
<1>3. QED BY <1>1, <1>2 DEF RuntimeInv, RuntimeTypeOK, Poll, vars

LEMMA InvConnection ==
    RuntimeInv /\ (WriteRequest \/ ServerAnswers \/ ReadAnswer) => RuntimeInv'
<1> SUFFICES ASSUME RuntimeInv, WriteRequest \/ ServerAnswers \/ ReadAnswer
             PROVE  RuntimeInv'
    OBVIOUS
<1> USE RuntimeAssumption, WriterAssumption
<1>1. running' \subseteq running /\ asleep' = asleep /\ ended' = ended
      BY DEF WriteRequest, ServerAnswers, ReadAnswer, Await, BatchExecuted, vars
<1>2. IsFiniteSet(running') /\ Cardinality(running' \ Blocking) <= Workers
      BY <1>1, NoneMore
<1>3. CASE WriteRequest
      BY <1>1, <1>2, <1>3 DEF RuntimeInv, RuntimeTypeOK, WriteRequest, Await, vars
<1>4. CASE ServerAnswers
      BY <1>1, <1>2, <1>4 DEF RuntimeInv, RuntimeTypeOK, ServerAnswers, Awake, vars
<1>5. CASE ReadAnswer /\ BatchExecuted
      BY <1>1, <1>2, <1>5 DEF RuntimeInv, RuntimeTypeOK, ReadAnswer, Await, BatchExecuted
<1>6. CASE ReadAnswer /\ ~BatchExecuted
      BY <1>1, <1>2, <1>6 DEF RuntimeInv, RuntimeTypeOK, ReadAnswer, Await, vars
<1>7. QED BY <1>3, <1>4, <1>5, <1>6

LEMMA InvTopic ==
    ASSUME RuntimeInv, NEW t \in Producers,
           Work(t) \/ WakeUp(t) \/ BlockingReport(t) \/ StartFails(t)
    PROVE  RuntimeInv'
<1> USE RuntimeAssumption, WriterAssumption
<1>1. running' \subseteq running
      BY DEF Work, Report, Nap, End, WakeUp, BlockingReport, StartFails, Await, threads
<1>2. IsFiniteSet(running') /\ Cardinality(running' \ Blocking) <= Workers
      BY <1>1, NoneMore
<1>3. executing' = executing
      BY DEF Work, Report, Nap, End, WakeUp, BlockingReport, StartFails, TrySend, Wake,
             BlockingSend, vars
<1>4. CASE Report(t)
  <2>1. asleep' = asleep \cup {t} \/ asleep' = asleep
        BY <1>4 DEF Report, TrySend
  <2>2. QED BY <1>2, <1>3, <1>4, <2>1 DEF RuntimeInv, RuntimeTypeOK, Report
<1>5. CASE Nap(t)
      BY <1>2, <1>3, <1>5 DEF RuntimeInv, RuntimeTypeOK, Nap, Await, vars
<1>6. CASE End(t)
      BY <1>2, <1>3, <1>6 DEF RuntimeInv, RuntimeTypeOK, End, Await, vars
<1>7. CASE WakeUp(t) /\ Wake(t)
      BY <1>2, <1>3, <1>7 DEF RuntimeInv, RuntimeTypeOK, WakeUp, Awake, Wake
<1>8. CASE WakeUp(t) /\ ~Wake(t)
      BY <1>2, <1>3, <1>8 DEF RuntimeInv, RuntimeTypeOK, WakeUp, Awake, Napping, Topics, vars
<1>9. CASE BlockingReport(t)
      BY <1>2, <1>3, <1>9 DEF RuntimeInv, RuntimeTypeOK, BlockingReport, BlockingSend, threads
<1>10. CASE StartFails(t)
      BY <1>2, <1>3, <1>10 DEF RuntimeInv, RuntimeTypeOK, StartFails, vars
<1>11. QED BY <1>4, <1>5, <1>6, <1>7, <1>8, <1>9, <1>10 DEF Work

LEMMA InvEnd == RuntimeInv /\ (ReadError \/ Killed \/ Others) => RuntimeInv'
<1> SUFFICES ASSUME RuntimeInv, ReadError \/ Killed \/ Others PROVE RuntimeInv'
    OBVIOUS
<1> USE RuntimeAssumption, WriterAssumption
<1>1. CASE ReadError \/ Killed
  <2>1. Forget /\ ProcessEnds
        BY <1>1 DEF ReadError, Killed, BatchFailed, Kill
  <2>2. IsFiniteSet(running') /\ Cardinality(running' \ Blocking) <= Workers
        BY <2>1, NoneMore DEF Forget
  <2>3. QED BY <2>1, <2>2 DEF RuntimeInv, RuntimeTypeOK, Forget, ProcessEnds
<1>2. CASE Others
  <2>1. UNCHANGED <<threads, asleep, executing>>
        BY <1>2 DEF Others, Elapse, Restart, Settle
  <2>2. QED BY <2>1 DEF RuntimeInv, RuntimeTypeOK, threads
<1>3. QED BY <1>1, <1>2

(* No more tasks run than there are workers, and no task is run that is    *)
(* asleep, waiting or at its end (main.rs:157-281, util/mod.rs:99-109), for*)
(* any number of workers.                                                  *)
THEOREM RuntimeTypeCorrect == RuntimeSpec => []RuntimeTypeOK
<1>1. RuntimeInv /\ [RuntimeNext]_<<vars, threads>> => RuntimeInv'
  <2> SUFFICES ASSUME RuntimeInv, [RuntimeNext]_<<vars, threads>> PROVE RuntimeInv'
      OBVIOUS
  <2>1. CASE UNCHANGED <<vars, threads>>
        BY <2>1 DEF RuntimeInv, RuntimeTypeOK, vars, threads
  <2>2. CASE RuntimeNext
        BY <2>2, InvStart, InvPoll, InvConnection, InvTopic, InvEnd DEF RuntimeNext
  <2>3. QED BY <2>1, <2>2
<1>2. RuntimeInv => RuntimeTypeOK
      BY DEF RuntimeInv
<1>3. QED BY <1>1, <1>2, RuntimeInvInit, PTL DEF RuntimeSpec
=============================================================================

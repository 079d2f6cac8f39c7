-------------------------- MODULE HeartbeatsProofs --------------------------
(***************************************************************************)
(* Theorems about Heartbeats, for any set of peers and of handlers and any *)
(* interval: each peer is followed once, its reports are spaced, none is   *)
(* late by more than one interval, and a panic costs one handler.          *)
(***************************************************************************)
EXTENDS Heartbeats, SequenceTheorems, FiniteSetTheorems, WellFoundedInduction, TLAPS

(***************************************************************************)
(* How many entries Overdue takes.                                         *)
(***************************************************************************)

LEMMA Least ==
    ASSUME NEW T, T \subseteq Nat, T # {}
    PROVE  \E x \in T : \A y \in T : x <= y
<1>1. PICK x \in T : \A y \in T : ~(<<y, x>> \in OpToRel(<, Nat))
      BY NatLessThanWellFounded, WFMin
<1>2. ASSUME NEW y \in T PROVE x <= y
  <2>1. <<y, x>> \in Nat \X Nat /\ ~(<<y, x>> \in OpToRel(<, Nat))
        BY <1>1
  <2>2. ~(y < x)
        BY <2>1 DEF OpToRel
  <2>3. QED BY <2>2
<1>3. QED BY <1>2

QueueEntry == [peer : Peers, age : 0..MaxAge]
Due(i) == last_heartbeat[i].age >= HEARTBEAT_INTERVAL

LEMMA OverdueIs ==
    ASSUME TypeOK
    PROVE  /\ Overdue \in 0..Len(last_heartbeat)
           /\ \A i \in 1..Overdue : Due(i)
           /\ Overdue < Len(last_heartbeat) => ~Due(Overdue + 1)
<1> DEFINE len == Len(last_heartbeat)
           OK(n) == /\ \A i \in 1..n : Due(i)
                    /\ n < len => ~Due(n + 1)
           T == {n \in 0..len : n < len => ~Due(n + 1)}
<1>1. len \in Nat
      BY LenProperties DEF TypeOK
<1> HIDE DEF len
<1>2. T \subseteq Nat /\ len \in T
      BY <1>1
<1>3. PICK n \in T : \A k \in T : n <= k
      BY <1>2, Least
<1>4. n \in 0..len /\ (n < len => ~Due(n + 1))
      OBVIOUS
<1>5. ASSUME NEW i \in 1..n PROVE Due(i)
  <2>1. i - 1 \in 0..len /\ i - 1 < len /\ i - 1 + 1 = i /\ ~(n <= i - 1)
        BY <1>1, <1>4
  <2>2. i - 1 \notin T
        BY <1>3, <2>1
  <2>3. QED BY <2>1, <2>2
<1>6. \E m \in 0..len : OK(m)
      BY <1>4, <1>5
<1>7. Overdue = CHOOSE m \in 0..len : OK(m)
      BY DEF Overdue, Due, len
<1> HIDE DEF OK, T
<1>8. Overdue \in 0..len /\ OK(Overdue)
      BY <1>6, <1>7
<1>9. QED BY <1>8 DEF OK, len

(***************************************************************************)
(* Sequences.                                                              *)
(***************************************************************************)

LEMMA FrontIs ==
    ASSUME NEW S, NEW s \in Seq(S), s # <<>>
    PROVE  /\ Front(s) \in Seq(S) /\ Len(Front(s)) = Len(s) - 1 /\ Len(s) \in Nat \ {0}
           /\ Last(s) \in S /\ \A i \in 1..Len(s) - 1 : Front(s)[i] = s[i]
<1> DEFINE n == Len(s) - 1
           f == SubSeq(s, 1, n)
<1>1. Len(s) \in Nat \ {0}
      BY EmptySeq, LenProperties
<1>2. s[Len(s)] \in S /\ \A i \in 1..Len(s) : s[i] \in S
      BY <1>1, ElementOfSeq
<1>3. n \in Nat /\ n \in Int /\ 1 \in Int /\ \A i \in 1..n : s[i] \in S
      BY <1>1, <1>2
<1> HIDE DEF n
<1>4. /\ f \in Seq(S) /\ Len(f) = IF 1 <= n THEN n - 1 + 1 ELSE 0
      /\ \A i \in 1..n - 1 + 1 : f[i] = s[1 + i - 1]
      BY <1>3, SubSeqProperties
<1> HIDE DEF f
<1>5. Len(f) = n
      BY <1>3, <1>4
<1>6. ASSUME NEW i \in 1..n PROVE f[i] = s[i]
  <2>1. i \in 1..n - 1 + 1 /\ 1 + i - 1 = i
        BY <1>3
  <2>2. QED BY <1>4, <2>1
<1>7. QED BY <1>1, <1>2, <1>4, <1>5, <1>6 DEF Front, Last, f, n

LEMMA RestIs ==
    ASSUME NEW S, NEW s \in Seq(S), NEW n \in 0..Len(s)
    PROVE  /\ SubSeq(s, n + 1, Len(s)) \in Seq(S)
           /\ Len(SubSeq(s, n + 1, Len(s))) = Len(s) - n
           /\ \A i \in 1..Len(s) - n : SubSeq(s, n + 1, Len(s))[i] = s[n + i]
<1> DEFINE z == SubSeq(s, n + 1, Len(s))
<1>1. Len(s) \in Nat /\ n \in Nat /\ n <= Len(s)
      BY LenProperties
<1>2. \A i \in n + 1..Len(s) : s[i] \in S
      BY <1>1, ElementOfSeq
<1>3. n + 1 \in Int /\ Len(s) \in Int
      BY <1>1
<1>4. /\ z \in Seq(S)
      /\ Len(z) = IF n + 1 <= Len(s) THEN Len(s) - (n + 1) + 1 ELSE 0
      /\ \A i \in 1..Len(s) - (n + 1) + 1 : z[i] = s[(n + 1) + i - 1]
      BY <1>2, <1>3, SubSeqProperties
<1> HIDE DEF z
<1>5. Len(z) = Len(s) - n
      BY <1>1, <1>4
<1>6. ASSUME NEW i \in 1..Len(s) - n PROVE z[i] = s[n + i]
  <2>1. i \in 1..Len(s) - (n + 1) + 1 /\ (n + 1) + i - 1 = n + i
        BY <1>1
  <2>2. QED BY <1>4, <2>1
<1>7. QED BY <1>4, <1>5, <1>6 DEF z

LEMMA FunctionIsSeq ==
    ASSUME NEW S, NEW n \in Nat, NEW f \in [1..n -> S]
    PROVE  f \in Seq(S) /\ Len(f) = n
<1>1. f \in Seq(S)
      BY SeqDef
<1>2. DOMAIN f = 1..n /\ DOMAIN f = 1..Len(f) /\ Len(f) \in Nat
      BY <1>1, LenProperties
<1>3. QED BY <1>1, <1>2

(***************************************************************************)
(* What each action does to the queue and to the due peers.                *)
(***************************************************************************)


LEMMA Lengths ==
    TypeOK => /\ Len(last_heartbeat) \in Nat /\ Len(to_heartbeat) \in Nat
              /\ \A i \in 1..Len(last_heartbeat) :
                     /\ last_heartbeat[i] \in QueueEntry
                     /\ last_heartbeat[i].peer \in Peers /\ last_heartbeat[i].age \in 0..MaxAge
              /\ \A i \in 1..Len(to_heartbeat) : to_heartbeat[i] \in Peers
<1> SUFFICES ASSUME TypeOK
             PROVE  /\ Len(last_heartbeat) \in Nat /\ Len(to_heartbeat) \in Nat
                    /\ \A i \in 1..Len(last_heartbeat) :
                           /\ last_heartbeat[i] \in QueueEntry
                           /\ last_heartbeat[i].peer \in Peers
                           /\ last_heartbeat[i].age \in 0..MaxAge
                    /\ \A i \in 1..Len(to_heartbeat) : to_heartbeat[i] \in Peers
    OBVIOUS
<1>1. last_heartbeat \in Seq(QueueEntry) /\ to_heartbeat \in Seq(Peers)
      BY DEF TypeOK, QueueEntry
<1>2. \A i \in 1..Len(last_heartbeat) : last_heartbeat[i] \in QueueEntry
      BY <1>1, ElementOfSeq
<1>3. \A i \in 1..Len(to_heartbeat) : to_heartbeat[i] \in Peers
      BY <1>1, ElementOfSeq
<1>4. QED BY <1>1, <1>2, <1>3, LenProperties DEF QueueEntry

LEMMA Numbers ==
    /\ HEARTBEAT_INTERVAL \in Nat /\ Soon \in Nat /\ MaxAge \in Nat
    /\ 1 <= Soon /\ Soon <= HEARTBEAT_INTERVAL
    /\ MaxAge = HEARTBEAT_INTERVAL + HEARTBEAT_INTERVAL
    /\ HEARTBEAT_INTERVAL - Soon \in 0..MaxAge
BY HeartbeatsAssumption DEF MaxAge

(* A peer joins the end of the queue.                                      *)
Joins(p, age) ==
    /\ Len(last_heartbeat') = Len(last_heartbeat) + 1
    /\ \A i \in 1..Len(last_heartbeat) : last_heartbeat'[i] = last_heartbeat[i]
    /\ last_heartbeat'[Len(last_heartbeat) + 1].peer = p
    /\ last_heartbeat'[Len(last_heartbeat) + 1].age = age

LEMMA AppendJoins ==
    ASSUME TypeOK, NEW p \in Peers, NEW age \in 0..MaxAge,
           last_heartbeat' = Append(last_heartbeat, Entry(p, age))
    PROVE  Joins(p, age) /\ last_heartbeat' \in Seq(QueueEntry)
<1> DEFINE e == Entry(p, age)
<1>1. e \in QueueEntry /\ e.peer = p /\ e.age = age
      BY DEF Entry, QueueEntry
<1> HIDE DEF e
<1>2. last_heartbeat \in Seq(QueueEntry)
      BY DEF TypeOK, QueueEntry
<1>3. last_heartbeat' = Append(last_heartbeat, e)
      BY DEF e
<1>4. QED BY <1>1, <1>2, <1>3, AppendProperties DEF Joins

(* The last of the due peers leaves.                                       *)
LastLeaves ==
    /\ Len(to_heartbeat) \in Nat \ {0} /\ Len(to_heartbeat') = Len(to_heartbeat) - 1
    /\ \A i \in 1..Len(to_heartbeat) - 1 : to_heartbeat'[i] = to_heartbeat[i]

LEMMA FrontLeaves ==
    ASSUME TypeOK, to_heartbeat # <<>>, to_heartbeat' = Front(to_heartbeat)
    PROVE  /\ LastLeaves /\ to_heartbeat' \in Seq(Peers)
           /\ Last(to_heartbeat) \in Peers
           /\ Last(to_heartbeat) = to_heartbeat[Len(to_heartbeat)]
<1>1. to_heartbeat \in Seq(Peers)
      BY DEF TypeOK
<1>2. Last(to_heartbeat) = to_heartbeat[Len(to_heartbeat)]
      BY DEF Last
<1>3. QED BY <1>1, <1>2, FrontIs DEF LastLeaves

(* Lock moves the front of the queue to the due peers.                     *)
Splits(n) ==
    /\ n \in 0..Len(last_heartbeat)
    /\ Len(last_heartbeat') = Len(last_heartbeat) - n
    /\ \A i \in 1..Len(last_heartbeat) - n : last_heartbeat'[i] = last_heartbeat[n + i]
    /\ Len(to_heartbeat') = n
    /\ \A i \in 1..n : to_heartbeat'[i] = last_heartbeat[i].peer

LEMMA LockSplits ==
    ASSUME TypeOK, NEW h \in Handlers, Lock(h)
    PROVE  /\ Splits(Overdue)
           /\ last_heartbeat' \in Seq(QueueEntry) /\ to_heartbeat' \in Seq(Peers)
<1> DEFINE n == Overdue
           f == [i \in 1..n |-> last_heartbeat[i].peer]
<1>1. last_heartbeat \in Seq(QueueEntry) /\ n \in 0..Len(last_heartbeat) /\ n \in Nat
      BY OverdueIs, Lengths DEF TypeOK, QueueEntry
<1>2. /\ last_heartbeat' = SubSeq(last_heartbeat, n + 1, Len(last_heartbeat))
      /\ to_heartbeat' = f
      BY DEF Lock
<1> HIDE DEF n
<1>3. f \in [1..n -> Peers] /\ \A i \in 1..n : f[i] = last_heartbeat[i].peer
      BY <1>1, Lengths
<1>4. f \in Seq(Peers) /\ Len(f) = n
      BY <1>1, <1>3, FunctionIsSeq
<1>5. /\ last_heartbeat' \in Seq(QueueEntry)
      /\ Len(last_heartbeat') = Len(last_heartbeat) - n
      /\ \A i \in 1..Len(last_heartbeat) - n : last_heartbeat'[i] = last_heartbeat[n + i]
      BY <1>1, <1>2, RestIs
<1>6. Splits(n)
      BY <1>1, <1>2, <1>3, <1>4, <1>5 DEF Splits
<1>7. QED BY <1>2, <1>4, <1>5, <1>6 DEF n

(* Tick makes every entry older.                                           *)
Older ==
    /\ Len(last_heartbeat') = Len(last_heartbeat)
    /\ \A i \in 1..Len(last_heartbeat) :
           /\ last_heartbeat'[i].peer = last_heartbeat[i].peer
           /\ last_heartbeat'[i].age = AtMost(last_heartbeat[i].age + 1, MaxAge)

LEMMA AtMostType == \A x \in 0..MaxAge : AtMost(x + 1, MaxAge) \in 1..MaxAge
<1> SUFFICES ASSUME NEW x \in 0..MaxAge PROVE AtMost(x + 1, MaxAge) \in 1..MaxAge
    OBVIOUS
<1>1. MaxAge \in Nat /\ 1 <= MaxAge
      BY Numbers
<1>2. CASE x + 1 < MaxAge
      BY <1>1, <1>2 DEF AtMost
<1>3. CASE ~(x + 1 < MaxAge)
      BY <1>1, <1>3 DEF AtMost
<1>4. QED BY <1>2, <1>3

LEMMA TickIsOlder ==
    ASSUME TypeOK, Tick
    PROVE  Older /\ last_heartbeat' \in Seq(QueueEntry) /\ sinceReport' \in [Peers -> 0..MaxAge]
<1> DEFINE n == Len(last_heartbeat)
           f == [i \in 1..n |->
                    [last_heartbeat[i] EXCEPT !.age = AtMost(@ + 1, MaxAge)]]
<1>1. last_heartbeat \in Seq(QueueEntry) /\ n \in Nat /\ DOMAIN last_heartbeat = 1..n
      BY LenProperties DEF TypeOK, QueueEntry
<1>2. last_heartbeat' = f
      BY <1>1 DEF Tick
<1> HIDE DEF n
<1>3. ASSUME NEW i \in 1..n
      PROVE  /\ f[i] \in QueueEntry /\ f[i].peer = last_heartbeat[i].peer
             /\ f[i].age = AtMost(last_heartbeat[i].age + 1, MaxAge)
  <2>1. last_heartbeat[i] \in QueueEntry /\ last_heartbeat[i].age \in 0..MaxAge
        BY Lengths DEF n
  <2>2. AtMost(last_heartbeat[i].age + 1, MaxAge) \in 0..MaxAge
        BY <2>1, AtMostType
  <2>3. f[i] = [last_heartbeat[i] EXCEPT !.age = AtMost(last_heartbeat[i].age + 1, MaxAge)]
        OBVIOUS
  <2> HIDE DEF f
  <2>4. QED BY <2>1, <2>2, <2>3 DEF QueueEntry
<1>4. f \in [1..n -> QueueEntry]
      BY <1>3
<1> HIDE DEF f
<1>5. f \in Seq(QueueEntry) /\ Len(f) = n
      BY <1>1, <1>4, FunctionIsSeq
<1>6. Older
      BY <1>2, <1>3, <1>5 DEF Older, n
<1>7. sinceReport' \in [Peers -> 0..MaxAge]
  <2>1. \A p \in Peers : sinceReport[p] \in 0..MaxAge
        BY DEF TypeOK
  <2>2. \A p \in Peers : AtMost(sinceReport[p] + 1, MaxAge) \in 0..MaxAge
        BY <2>1, AtMostType
  <2>3. QED BY <2>2 DEF Tick
<1>8. QED BY <1>2, <1>5, <1>6, <1>7

(***************************************************************************)
(* Type correctness.                                                       *)
(***************************************************************************)

LEMMA TypeInit == Init => TypeOK
<1> SUFFICES ASSUME Init PROVE TypeOK
    OBVIOUS
<1>1. MaxAge \in 0..MaxAge /\ <<>> \in Seq(QueueEntry) /\ <<>> \in Seq(Peers)
      BY Numbers, EmptySeq
<1>2. sinceReport \in [Peers -> 0..MaxAge]
      BY <1>1 DEF Init
<1>3. panics \in 0..MaxPanics
      BY HeartbeatsAssumption DEF Init
<1>4. QED BY <1>1, <1>2, <1>3 DEF Init, TypeOK, QueueEntry

(* What the tasks are at changes, and no mutex is held without a holder.   *)
LEMMA TypeStage ==
    ASSUME TypeOK, NEW h \in Handlers, NEW w \in {"idle", "message", "holds", "dead"},
           stage' = [stage EXCEPT ![h] = w], to_heartbeat = <<>> \/ w = "holds",
           UNCHANGED <<session, last_heartbeat, sinceReport, to_heartbeat, panics>>,
           poisoned' \in BOOLEAN
    PROVE  TypeOK'
<1>1. w = "holds" => Locked'
      BY DEF TypeOK, Locked, Is
<1>2. stage' \in [Handlers -> {"idle", "message", "holds", "dead"}]
      BY DEF TypeOK
<1>3. QED BY <1>1, <1>2 DEF TypeOK

LEMMA TypePanic ==
    ASSUME TypeOK, NEW h \in Handlers, Panic(h)
    PROVE  panics' \in 0..MaxPanics
BY HeartbeatsAssumption DEF TypeOK, Panic

LEMMA TypeStep == TypeOK /\ [Next]_vars => TypeOK'
<1> SUFFICES ASSUME TypeOK, [Next]_vars PROVE TypeOK'
    OBVIOUS
<1>1. ASSUME NEW p \in Peers, OpenSession(p) \/ CloseSession(p) PROVE TypeOK'
  <2>1. session' \in [Peers -> {"unknown", "open", "closed"}]
        BY <1>1 DEF OpenSession, CloseSession, TypeOK
  <2>2. QED BY <1>1, <2>1 DEF OpenSession, CloseSession, TypeOK, Locked, Is
<1>2. ASSUME NEW h \in Handlers, NEW p \in Peers, Connected(h, p) PROVE TypeOK'
  <2>1. last_heartbeat' \in Seq(QueueEntry)
        BY <1>2, Numbers, AppendJoins DEF Connected
  <2>2. QED BY <1>2, <2>1 DEF Connected, TypeOK, QueueEntry, Locked, Is
<1>3. CASE Tick
      BY <1>3, TickIsOlder DEF Tick, TypeOK, QueueEntry, Locked, Is
<1>4. ASSUME NEW h \in Handlers, Lock(h) PROVE TypeOK'
  <2>1. last_heartbeat' \in Seq(QueueEntry) /\ to_heartbeat' \in Seq(Peers)
        BY <1>4, LockSplits
  <2>2. stage' \in [Handlers -> {"idle", "message", "holds", "dead"}] /\ stage'[h] = "holds"
        BY <1>4 DEF Lock, TypeOK
  <2>3. Locked'
        BY <2>2 DEF Locked, Is
  <2>4. QED BY <1>4, <2>1, <2>2, <2>3 DEF Lock, TypeOK, QueueEntry
<1>5. ASSUME NEW h \in Handlers, ReportHeartbeat(h) PROVE TypeOK'
  <2>1. to_heartbeat' \in Seq(Peers) /\ Last(to_heartbeat) \in Peers
        BY <1>5, FrontLeaves DEF ReportHeartbeat
  <2>2. 0 \in 0..MaxAge
        BY Numbers
  <2>3. last_heartbeat' \in Seq(QueueEntry)
        BY <1>5, <2>1, <2>2, AppendJoins DEF ReportHeartbeat
  <2>4. sinceReport' \in [Peers -> 0..MaxAge]
        BY <1>5, <2>2 DEF ReportHeartbeat, TypeOK
  <2>5. Locked'
        BY <1>5 DEF ReportHeartbeat, Locked, Is
  <2>6. QED BY <1>5, <2>1, <2>3, <2>4, <2>5 DEF ReportHeartbeat, TypeOK, QueueEntry
<1>6. ASSUME NEW h \in Handlers, Discard(h) PROVE TypeOK'
  <2>1. to_heartbeat' \in Seq(Peers)
        BY <1>6, FrontLeaves DEF Discard
  <2>2. Locked'
        BY <1>6 DEF Discard, Locked, Is
  <2>3. QED BY <1>6, <2>1, <2>2 DEF Discard, TypeOK
<1>7. ASSUME NEW h \in Handlers, ReportPanics(h) PROVE TypeOK'
  <2>1. stage' \in [Handlers -> {"idle", "message", "holds", "dead"}]
        BY <1>7 DEF ReportPanics, Panic, TypeOK
  <2>2. to_heartbeat' \in Seq(Peers)
        BY <1>7, EmptySeq DEF ReportPanics
  <2>3. panics' \in 0..MaxPanics
        BY <1>7, TypePanic DEF ReportPanics
  <2>4. QED BY <1>7, <2>1, <2>2, <2>3 DEF ReportPanics, Panic, TypeOK
<1>8. ASSUME NEW h \in Handlers, Received(h) \/ RelayPanics(h) \/ Skip(h) \/ Release(h)
      PROVE  TypeOK'
  <2>1. CASE Release(h)
        BY <2>1, TypeStage DEF Release, TypeOK
  <2>2. CASE Received(h) \/ RelayPanics(h) \/ Skip(h)
    <3>1. stage[h] # "holds" /\ \E w \in {"idle", "message", "dead"} :
              stage' = [stage EXCEPT ![h] = w]
          BY <2>2 DEF Received, RelayPanics, Panic, Skip
    <3>2. stage' \in [Handlers -> {"idle", "message", "holds", "dead"}]
          BY <3>1 DEF TypeOK
    <3>3. Locked' = Locked
          BY <3>1 DEF TypeOK, Locked, Is
    <3>4. UNCHANGED <<session, last_heartbeat, poisoned, to_heartbeat, sinceReport>>
          BY <2>2 DEF Received, RelayPanics, Panic, Skip
    <3>5. panics' \in 0..MaxPanics
          BY <2>2, TypePanic DEF Received, RelayPanics, Skip, TypeOK
    <3>6. QED BY <3>2, <3>3, <3>4, <3>5 DEF TypeOK
  <2>3. QED BY <1>8, <2>1, <2>2
<1>9. CASE UNCHANGED vars
      BY <1>9 DEF vars, TypeOK, Locked, Is
<1>10. QED
      BY <1>1, <1>2, <1>3, <1>4, <1>5, <1>6, <1>7, <1>8, <1>9 DEF Next, Handle

(* The queue holds peers with their ages, and nobody but the holder of the *)
(* mutex has due peers in hand (network_propagation.rs:316).               *)
THEOREM HeartbeatsTypeCorrect == Spec => []TypeOK
BY TypeInit, TypeStep, PTL DEF Spec

(***************************************************************************)
(* The invariant.                                                          *)
(***************************************************************************)

Once ==
    /\ \A i, j \in 1..Len(last_heartbeat) :
           last_heartbeat[i].peer = last_heartbeat[j].peer => i = j
    /\ \A i, j \in 1..Len(to_heartbeat) : to_heartbeat[i] = to_heartbeat[j] => i = j
    /\ \A i \in 1..Len(last_heartbeat), j \in 1..Len(to_heartbeat) :
           last_heartbeat[i].peer # to_heartbeat[j]

(* An entry is younger than one behind it by what a peer that joins may be *)
(* older than a row, at most.                                              *)
Close ==
    \A i, j \in 1..Len(last_heartbeat) :
        i < j => last_heartbeat[j].age
                     <= last_heartbeat[i].age + (HEARTBEAT_INTERVAL - Soon)

IsFollowed(p) ==
    \/ \E i \in 1..Len(last_heartbeat) : last_heartbeat[i].peer = p
    \/ \E i \in 1..Len(to_heartbeat) : to_heartbeat[i] = p

(* No entry is older than the last report of its peer, a due peer was not  *)
(* reported lately, and one that was is followed.                          *)
Spaced ==
    /\ \A i \in 1..Len(last_heartbeat) :
           session[last_heartbeat[i].peer] = "open" =>
               last_heartbeat[i].age <= sinceReport[last_heartbeat[i].peer]
    /\ \A i \in 1..Len(to_heartbeat) :
           session[to_heartbeat[i]] = "open" =>
               sinceReport[to_heartbeat[i]] >= HEARTBEAT_INTERVAL
    /\ \A p \in Peers :
           /\ session[p] = "open" /\ sinceReport[p] # MaxAge /\ ~poisoned => IsFollowed(p)
           /\ session[p] = "unknown" =>
                  /\ sinceReport[p] = MaxAge
                  /\ \A i \in 1..Len(last_heartbeat) : last_heartbeat[i].peer # p
                  /\ \A i \in 1..Len(to_heartbeat) : to_heartbeat[i] # p

Inv == TypeOK /\ Once /\ Close /\ Spaced

LEMMA InvInit == Init => Once /\ Close /\ Spaced
<1> SUFFICES ASSUME Init PROVE Once /\ Close /\ Spaced
    OBVIOUS
<1>1. /\ Len(last_heartbeat) = 0 /\ Len(to_heartbeat) = 0
      /\ \A p \in Peers : sinceReport[p] = MaxAge
      BY EmptySeq DEF Init
<1>2. QED BY <1>1 DEF Once, Close, Spaced

(* A handler goes on, a session opens or ends: the queue stays.            *)
LEMMA InvStays ==
    ASSUME Inv, UNCHANGED <<last_heartbeat, sinceReport>>, poisoned => poisoned',
           to_heartbeat' = to_heartbeat \/ (poisoned' /\ to_heartbeat' = <<>>),
           \A p \in Peers : /\ session'[p] = "open" => session[p] \in {"open", "unknown"}
                            /\ session'[p] = "unknown" => session[p] = "unknown"
    PROVE  Once' /\ Close' /\ Spaced'
<1>1. /\ Len(last_heartbeat) \in Nat /\ Len(to_heartbeat) \in Nat
      /\ \A i \in 1..Len(last_heartbeat) : last_heartbeat[i].peer \in Peers
      /\ \A i \in 1..Len(to_heartbeat) : to_heartbeat[i] \in Peers
      BY Lengths DEF Inv
<1>2. /\ Len(to_heartbeat') \in Nat
      /\ \A i \in 1..Len(to_heartbeat') :
             to_heartbeat'[i] = to_heartbeat[i] /\ i \in 1..Len(to_heartbeat)
  <2>1. CASE to_heartbeat' = to_heartbeat
        BY <1>1, <2>1
  <2>2. CASE to_heartbeat' = <<>>
    <3>1. Len(to_heartbeat') = 0
          BY <2>2, EmptySeq
    <3>2. QED BY <3>1
  <2>3. QED BY <2>1, <2>2
<1>3. \A p \in Peers : sinceReport[p] \in 0..MaxAge
      BY DEF Inv, TypeOK
<1>4. Once'
      BY <1>2 DEF Inv, Once
<1>5. Close'
      BY DEF Inv, Close
<1>6. Spaced'
  <2>1. \A i \in 1..Len(last_heartbeat') :
            session'[last_heartbeat'[i].peer] = "open" =>
                last_heartbeat'[i].age <= sinceReport'[last_heartbeat'[i].peer]
        BY <1>1 DEF Inv, Spaced
  <2>2. \A i \in 1..Len(to_heartbeat') :
            session'[to_heartbeat'[i]] = "open" =>
                sinceReport'[to_heartbeat'[i]] >= HEARTBEAT_INTERVAL
        BY <1>1, <1>2 DEF Inv, Spaced
  <2>3. ASSUME NEW p \in Peers, session'[p] = "unknown"
        PROVE  /\ sinceReport'[p] = MaxAge
               /\ \A i \in 1..Len(last_heartbeat') : last_heartbeat'[i].peer # p
               /\ \A i \in 1..Len(to_heartbeat') : to_heartbeat'[i] # p
        BY <1>2, <2>3 DEF Inv, Spaced
  <2>4. ASSUME NEW p \in Peers, session'[p] = "open", sinceReport'[p] # MaxAge, ~poisoned'
        PROVE  IsFollowed(p)'
    <3>1. session[p] = "open" /\ ~poisoned /\ to_heartbeat' = to_heartbeat
          BY <2>4 DEF Inv, Spaced
    <3>2. IsFollowed(p)
          BY <2>4, <3>1 DEF Inv, Spaced
    <3>3. QED BY <3>1, <3>2 DEF IsFollowed
  <2>5. QED BY <2>1, <2>2, <2>3, <2>4 DEF Spaced
<1>7. QED BY <1>4, <1>5, <1>6

LEMMA InvConnected ==
    ASSUME Inv, NEW h \in Handlers, NEW p \in Peers, Connected(h, p)
    PROVE  Once' /\ Close' /\ Spaced'
<1> DEFINE n == Len(last_heartbeat)
<1>1. /\ n \in Nat /\ Len(to_heartbeat) \in Nat
      /\ \A i \in 1..n : last_heartbeat[i].peer \in Peers /\ last_heartbeat[i].age \in 0..MaxAge
      BY Lengths DEF Inv
<1>2. /\ UNCHANGED <<session, to_heartbeat, sinceReport, poisoned>> /\ ~poisoned
      /\ to_heartbeat = <<>> /\ session[p] # "unknown" /\ p \notin Queued
      BY DEF Connected, Inv, TypeOK
<1>3. Joins(p, HEARTBEAT_INTERVAL - Soon)
      BY Numbers, AppendJoins DEF Connected, Inv
<1>4. Len(to_heartbeat) = 0
      BY <1>2, EmptySeq
<1>5. \A i \in 1..n : last_heartbeat[i].peer # p
  <2>1. DOMAIN last_heartbeat = 1..n
        BY LenProperties DEF Inv, TypeOK
  <2>2. QED BY <1>2, <2>1 DEF Queued
<1>6. /\ Len(last_heartbeat') = n + 1
      /\ \A i \in 1..n : last_heartbeat'[i] = last_heartbeat[i]
      /\ last_heartbeat'[n + 1].peer = p
      /\ last_heartbeat'[n + 1].age = HEARTBEAT_INTERVAL - Soon
      BY <1>3 DEF Joins
<1>7. sinceReport[p] = MaxAge \/ session[p] # "open"
      BY <1>2, <1>4, <1>5 DEF Inv, Spaced, IsFollowed
<1> HIDE DEF n
<1>8. \A i \in 1..n + 1 : i \in 1..n \/ i = n + 1
      BY <1>1
<1>9. Once'
  <2>1. ASSUME NEW i \in 1..n + 1, NEW j \in 1..n + 1,
               last_heartbeat'[i].peer = last_heartbeat'[j].peer
        PROVE  i = j
        BY <1>5, <1>6, <1>8, <2>1 DEF Inv, Once, n
  <2>2. Len(to_heartbeat') = 0
        BY <1>2, <1>4
  <2>3. QED BY <1>6, <2>1, <2>2 DEF Once
<1>10. Close'
  <2>1. ASSUME NEW i \in 1..n + 1, NEW j \in 1..n + 1, i < j
        PROVE  last_heartbeat'[j].age
                   <= last_heartbeat'[i].age + (HEARTBEAT_INTERVAL - Soon)
    <3>1. i \in 1..n
          BY <1>1, <2>1
    <3>2. CASE j \in 1..n
          BY <1>6, <2>1, <3>1, <3>2 DEF Inv, Close, n
    <3>3. CASE j = n + 1
          BY <1>1, <1>6, <3>1, <3>3, Numbers
    <3>4. QED BY <1>8, <3>2, <3>3
  <2>2. QED BY <1>6, <2>1 DEF Close
<1>11. Spaced'
  <2>1. ASSUME NEW i \in 1..n + 1, session'[last_heartbeat'[i].peer] = "open"
        PROVE  last_heartbeat'[i].age <= sinceReport'[last_heartbeat'[i].peer]
    <3>1. CASE i \in 1..n
          BY <1>2, <1>6, <2>1, <3>1 DEF Inv, Spaced, n
    <3>2. CASE i = n + 1
          BY <1>2, <1>6, <1>7, <2>1, <3>2, Numbers
    <3>3. QED BY <1>8, <3>1, <3>2
  <2>2. Len(to_heartbeat') = 0
        BY <1>2, <1>4
  <2>3. ASSUME NEW q \in Peers, session'[q] = "open", sinceReport'[q] # MaxAge, ~poisoned'
        PROVE  IsFollowed(q)'
    <3>1. IsFollowed(q)
          BY <1>2, <2>3 DEF Inv, Spaced
    <3>2. PICK i \in 1..n : last_heartbeat[i].peer = q
          BY <1>4, <3>1 DEF IsFollowed, n
    <3>3. i \in 1..n + 1 /\ last_heartbeat'[i].peer = q
          BY <1>1, <1>6, <3>2
    <3>4. QED BY <1>6, <3>3 DEF IsFollowed
  <2>4. ASSUME NEW q \in Peers, session'[q] = "unknown"
        PROVE  /\ sinceReport'[q] = MaxAge
               /\ \A i \in 1..n + 1 : last_heartbeat'[i].peer # q
    <3>1. /\ session[q] = "unknown" /\ q # p /\ sinceReport' = sinceReport
          /\ sinceReport[q] = MaxAge /\ \A i \in 1..n : last_heartbeat[i].peer # q
          BY <1>2, <2>4 DEF Inv, Spaced, n
    <3>2. QED BY <1>6, <1>8, <3>1
  <2>5. QED BY <1>6, <2>1, <2>2, <2>3, <2>4 DEF Spaced
<1>12. QED BY <1>9, <1>10, <1>11

LEMMA InvTick == ASSUME Inv, Tick PROVE Once' /\ Close' /\ Spaced'
<1> DEFINE n == Len(last_heartbeat)
<1>1. /\ n \in Nat /\ Len(to_heartbeat) \in Nat
      /\ \A i \in 1..n : last_heartbeat[i].peer \in Peers /\ last_heartbeat[i].age \in 0..MaxAge
      /\ \A i \in 1..Len(to_heartbeat) : to_heartbeat[i] \in Peers
      BY Lengths DEF Inv
<1>2. /\ UNCHANGED <<session, to_heartbeat, poisoned>>
      /\ \A p \in Peers : sinceReport'[p] = AtMost(sinceReport[p] + 1, MaxAge)
      BY DEF Tick
<1>3. /\ Len(last_heartbeat') = n
      /\ \A i \in 1..n :
             /\ last_heartbeat'[i].peer = last_heartbeat[i].peer
             /\ last_heartbeat'[i].age = AtMost(last_heartbeat[i].age + 1, MaxAge)
      BY TickIsOlder DEF Inv, Older
<1>4. \A p \in Peers : sinceReport[p] \in 0..MaxAge
      BY DEF Inv, TypeOK
<1> HIDE DEF n
<1>5. Once'
      BY <1>2, <1>3 DEF Inv, Once, n
<1>6. Close'
  <2>1. ASSUME NEW i \in 1..n, NEW j \in 1..n, i < j
        PROVE  last_heartbeat'[j].age
                   <= last_heartbeat'[i].age + (HEARTBEAT_INTERVAL - Soon)
    <3>1. last_heartbeat[j].age <= last_heartbeat[i].age + (HEARTBEAT_INTERVAL - Soon)
          BY <2>1 DEF Inv, Close, n
    <3> DEFINE a == last_heartbeat[i].age
               b == last_heartbeat[j].age
               d == HEARTBEAT_INTERVAL - Soon
    <3>2. a \in 0..MaxAge /\ b \in 0..MaxAge /\ b <= a + d /\ d \in Nat
          BY <1>1, <3>1, Numbers
    <3>3. /\ last_heartbeat'[i].age = AtMost(a + 1, MaxAge)
          /\ last_heartbeat'[j].age = AtMost(b + 1, MaxAge)
          BY <1>3
    <3> HIDE DEF a, b, d
    <3>4. AtMost(b + 1, MaxAge) <= AtMost(a + 1, MaxAge) + d
          BY <3>2, Numbers DEF AtMost
    <3>5. QED BY <3>3, <3>4 DEF d
  <2>2. QED BY <1>3, <2>1 DEF Close
<1>7. Spaced'
  <2>1. ASSUME NEW i \in 1..n, session'[last_heartbeat'[i].peer] = "open"
        PROVE  last_heartbeat'[i].age <= sinceReport'[last_heartbeat'[i].peer]
    <3> DEFINE p == last_heartbeat[i].peer
    <3>1. /\ p \in Peers /\ last_heartbeat'[i].peer = p /\ last_heartbeat[i].age \in 0..MaxAge
          /\ last_heartbeat[i].age <= sinceReport[p] /\ sinceReport[p] \in 0..MaxAge
          BY <1>1, <1>2, <1>3, <1>4, <2>1 DEF Inv, Spaced, n
    <3>2. /\ last_heartbeat'[i].age = AtMost(last_heartbeat[i].age + 1, MaxAge)
          /\ sinceReport'[p] = AtMost(sinceReport[p] + 1, MaxAge)
          BY <1>2, <1>3, <3>1
    <3> HIDE DEF p
    <3>3. QED BY <3>1, <3>2, Numbers DEF AtMost
  <2>2. ASSUME NEW i \in 1..Len(to_heartbeat), session'[to_heartbeat'[i]] = "open"
        PROVE  sinceReport'[to_heartbeat'[i]] >= HEARTBEAT_INTERVAL
    <3> DEFINE p == to_heartbeat[i]
    <3>1. /\ p \in Peers /\ to_heartbeat'[i] = p
          /\ sinceReport[p] >= HEARTBEAT_INTERVAL /\ sinceReport[p] \in 0..MaxAge
          BY <1>1, <1>2, <1>4, <2>2 DEF Inv, Spaced
    <3>2. sinceReport'[p] = AtMost(sinceReport[p] + 1, MaxAge)
          BY <1>2, <3>1
    <3> HIDE DEF p
    <3>3. QED BY <3>1, <3>2, Numbers DEF AtMost
  <2>3. ASSUME NEW p \in Peers, session'[p] = "open", sinceReport'[p] # MaxAge, ~poisoned'
        PROVE  IsFollowed(p)'
    <3>1. sinceReport[p] # MaxAge
          BY <1>2, <2>3, Numbers DEF AtMost
    <3>2. IsFollowed(p)
          BY <1>2, <2>3, <3>1 DEF Inv, Spaced
    <3>3. QED BY <1>2, <1>3, <3>2 DEF IsFollowed, n
  <2>4. ASSUME NEW p \in Peers, session'[p] = "unknown"
        PROVE  /\ sinceReport'[p] = MaxAge
               /\ \A i \in 1..n : last_heartbeat'[i].peer # p
               /\ \A i \in 1..Len(to_heartbeat) : to_heartbeat'[i] # p
    <3>1. /\ sinceReport[p] = MaxAge /\ \A i \in 1..n : last_heartbeat[i].peer # p
          /\ \A i \in 1..Len(to_heartbeat) : to_heartbeat[i] # p
          BY <1>2, <2>4 DEF Inv, Spaced, n
    <3>2. sinceReport'[p] = MaxAge
          BY <1>2, <3>1, Numbers DEF AtMost
    <3>3. QED BY <1>2, <1>3, <3>1, <3>2
  <2>5. QED BY <1>2, <1>3, <2>1, <2>2, <2>3, <2>4 DEF Spaced
<1>8. QED BY <1>5, <1>6, <1>7

LEMMA InvLock ==
    ASSUME Inv, NEW h \in Handlers, Lock(h)
    PROVE  Once' /\ Close' /\ Spaced'
<1> DEFINE len == Len(last_heartbeat)
           n == Overdue
<1>1. /\ len \in Nat /\ n \in 0..len
      /\ \A i \in 1..len : last_heartbeat[i].peer \in Peers /\ last_heartbeat[i].age \in 0..MaxAge
      /\ \A i \in 1..n : last_heartbeat[i].age >= HEARTBEAT_INTERVAL
      BY Lengths, OverdueIs DEF Inv, Due
<1>2. /\ UNCHANGED <<session, poisoned, sinceReport>> /\ Len(to_heartbeat) = 0
      BY EmptySeq DEF Lock, Inv, TypeOK
<1>3. /\ Len(last_heartbeat') = len - n
      /\ \A i \in 1..len - n : last_heartbeat'[i] = last_heartbeat[n + i]
      /\ Len(to_heartbeat') = n
      /\ \A i \in 1..n : to_heartbeat'[i] = last_heartbeat[i].peer
      BY LockSplits DEF Inv, Splits
<1>4. \A p \in Peers : sinceReport[p] \in 0..MaxAge
      BY DEF Inv, TypeOK
<1> HIDE DEF n, len
<1>5. \A i \in 1..len - n : n + i \in 1..len /\ n + i \notin 1..n
      BY <1>1
<1>6. \A i \in 1..n : i \in 1..len
      BY <1>1
<1>7. \A i, j \in 1..len : last_heartbeat[i].peer = last_heartbeat[j].peer => i = j
      BY DEF Inv, Once, len
<1>8. Once'
  <2>1. ASSUME NEW i \in 1..len - n, NEW j \in 1..len - n,
               last_heartbeat'[i].peer = last_heartbeat'[j].peer
        PROVE  i = j
    <3>1. n + i = n + j
          BY <1>3, <1>5, <1>7, <2>1
    <3>2. QED BY <1>1, <3>1
  <2>2. ASSUME NEW i \in 1..n, NEW j \in 1..n, to_heartbeat'[i] = to_heartbeat'[j]
        PROVE  i = j
        BY <1>3, <1>6, <1>7, <2>2
  <2>3. ASSUME NEW i \in 1..len - n, NEW j \in 1..n,
               last_heartbeat'[i].peer = to_heartbeat'[j]
        PROVE  FALSE
    <3>1. n + i = j
          BY <1>3, <1>5, <1>6, <1>7, <2>3
    <3>2. QED BY <1>5, <3>1
  <2>4. QED BY <1>3, <2>1, <2>2, <2>3 DEF Once
<1>9. Close'
  <2>1. ASSUME NEW i \in 1..len - n, NEW j \in 1..len - n, i < j
        PROVE  last_heartbeat'[j].age
                   <= last_heartbeat'[i].age + (HEARTBEAT_INTERVAL - Soon)
    <3>1. n + i \in 1..len /\ n + j \in 1..len /\ n + i < n + j
          BY <1>1, <1>5, <2>1
    <3>2. last_heartbeat[n + j].age
              <= last_heartbeat[n + i].age + (HEARTBEAT_INTERVAL - Soon)
          BY <3>1 DEF Inv, Close, len
    <3>3. QED BY <1>3, <3>2
  <2>2. QED BY <1>3, <2>1 DEF Close
<1>10. \A i \in 1..len :
           session[last_heartbeat[i].peer] = "open" =>
               last_heartbeat[i].age <= sinceReport[last_heartbeat[i].peer]
       BY DEF Inv, Spaced, len
<1>11. Spaced'
  <2>1. \A i \in 1..len - n :
            session'[last_heartbeat'[i].peer] = "open" =>
                last_heartbeat'[i].age <= sinceReport'[last_heartbeat'[i].peer]
        BY <1>2, <1>3, <1>5, <1>10
  <2>2. ASSUME NEW i \in 1..n, session'[to_heartbeat'[i]] = "open"
        PROVE  sinceReport'[to_heartbeat'[i]] >= HEARTBEAT_INTERVAL
    <3> DEFINE q == last_heartbeat[i].peer
               a == last_heartbeat[i].age
    <3>1. /\ q \in Peers /\ a \in 0..MaxAge /\ a >= HEARTBEAT_INTERVAL
          /\ to_heartbeat'[i] = q /\ a <= sinceReport[q]
          BY <1>1, <1>2, <1>3, <1>6, <1>10, <2>2
    <3>2. sinceReport[q] \in 0..MaxAge
          BY <1>4, <3>1
    <3> HIDE DEF q, a
    <3>3. sinceReport[q] >= HEARTBEAT_INTERVAL
          BY <3>1, <3>2, Numbers
    <3>4. QED BY <1>2, <3>1, <3>3
  <2>3. ASSUME NEW p \in Peers, session'[p] = "open", sinceReport'[p] # MaxAge, ~poisoned'
        PROVE  IsFollowed(p)'
    <3>1. IsFollowed(p)
          BY <1>2, <2>3 DEF Inv, Spaced
    <3>2. PICK i \in 1..len : last_heartbeat[i].peer = p
          BY <1>2, <3>1 DEF IsFollowed, len
    <3>3. CASE i \in 1..n
          BY <1>3, <3>2, <3>3 DEF IsFollowed
    <3>4. CASE i \notin 1..n
      <4>1. i - n \in 1..len - n /\ n + (i - n) = i
            BY <1>1, <3>4
      <4>2. last_heartbeat'[i - n].peer = p
            BY <1>3, <3>2, <4>1
      <4>3. QED BY <1>3, <4>1, <4>2 DEF IsFollowed
    <3>5. QED BY <3>3, <3>4
  <2>4. ASSUME NEW p \in Peers, session'[p] = "unknown"
        PROVE  /\ sinceReport'[p] = MaxAge
               /\ \A i \in 1..len - n : last_heartbeat'[i].peer # p
               /\ \A i \in 1..n : to_heartbeat'[i] # p
    <3>1. sinceReport[p] = MaxAge /\ \A i \in 1..len : last_heartbeat[i].peer # p
          BY <1>2, <2>4 DEF Inv, Spaced, len
    <3>2. QED BY <1>2, <1>3, <1>5, <1>6, <3>1
  <2>5. QED BY <1>3, <2>1, <2>2, <2>3, <2>4 DEF Spaced
<1>12. QED BY <1>8, <1>9, <1>11

(* The last of the due peers is not among the others, nor in the queue.    *)
LEMMA LastIsOther ==
    ASSUME Inv, to_heartbeat # <<>>, to_heartbeat' = Front(to_heartbeat)
    PROVE  /\ Len(to_heartbeat) \in Nat \ {0} /\ Len(to_heartbeat') = Len(to_heartbeat) - 1
           /\ Last(to_heartbeat) \in Peers
           /\ \A i \in 1..Len(to_heartbeat) - 1 :
                  /\ to_heartbeat'[i] = to_heartbeat[i] /\ to_heartbeat[i] \in Peers
                  /\ to_heartbeat[i] # Last(to_heartbeat)
                  /\ i \in 1..Len(to_heartbeat)
           /\ \A i \in 1..Len(to_heartbeat) :
                  i \in 1..Len(to_heartbeat) - 1 \/ to_heartbeat[i] = Last(to_heartbeat)
           /\ \A i \in 1..Len(last_heartbeat) : last_heartbeat[i].peer # Last(to_heartbeat)
<1> DEFINE k == Len(to_heartbeat)
           p == Last(to_heartbeat)
<1>1. /\ k \in Nat \ {0} /\ Len(to_heartbeat') = k - 1 /\ p \in Peers /\ p = to_heartbeat[k]
      /\ \A i \in 1..k - 1 : to_heartbeat'[i] = to_heartbeat[i]
      BY FrontLeaves DEF Inv, LastLeaves
<1>2. \A i \in 1..k : to_heartbeat[i] \in Peers
      BY Lengths DEF Inv
<1>3. /\ \A i, j \in 1..k : to_heartbeat[i] = to_heartbeat[j] => i = j
      /\ \A i \in 1..Len(last_heartbeat), j \in 1..k :
             last_heartbeat[i].peer # to_heartbeat[j]
      BY DEF Inv, Once
<1> HIDE DEF k, p
<1>4. k \in 1..k /\ \A i \in 1..k - 1 : i \in 1..k /\ i # k
      BY <1>1
<1>5. \A i \in 1..k : i \in 1..k - 1 \/ i = k
      BY <1>1
<1>6. \A i \in 1..k - 1 : to_heartbeat[i] # p
      BY <1>1, <1>3, <1>4
<1>7. \A i \in 1..Len(last_heartbeat) : last_heartbeat[i].peer # p
      BY <1>1, <1>3, <1>4
<1>8. QED BY <1>1, <1>2, <1>4, <1>5, <1>6, <1>7 DEF k, p

LEMMA InvDiscard ==
    ASSUME Inv, NEW h \in Handlers, Discard(h)
    PROVE  Once' /\ Close' /\ Spaced'
<1> DEFINE p == Last(to_heartbeat)
           k == Len(to_heartbeat)
<1>1. /\ UNCHANGED <<session, last_heartbeat, poisoned, sinceReport>>
      /\ session[p] # "open"
      BY DEF Discard
<1>2. /\ Len(to_heartbeat') = k - 1
      /\ \A i \in 1..k - 1 : to_heartbeat'[i] = to_heartbeat[i] /\ i \in 1..k
      /\ \A i \in 1..k : i \in 1..k - 1 \/ to_heartbeat[i] = p
      BY LastIsOther DEF Discard
<1> HIDE DEF p
<1>3. Once'
  <2>1. \A i, j \in 1..Len(last_heartbeat') :
            last_heartbeat'[i].peer = last_heartbeat'[j].peer => i = j
        BY <1>1 DEF Inv, Once
  <2>2. \A i, j \in 1..k - 1 : to_heartbeat'[i] = to_heartbeat'[j] => i = j
        BY <1>2 DEF Inv, Once
  <2>3. \A i \in 1..Len(last_heartbeat'), j \in 1..k - 1 :
            last_heartbeat'[i].peer # to_heartbeat'[j]
        BY <1>1, <1>2 DEF Inv, Once
  <2> HIDE DEF k
  <2>4. QED BY <1>2, <2>1, <2>2, <2>3 DEF Once
<1>4. Close'
      BY <1>1 DEF Inv, Close
<1>5. ASSUME NEW q \in Peers, session'[q] = "open", sinceReport'[q] # MaxAge, ~poisoned'
      PROVE  IsFollowed(q)'
  <2>1. IsFollowed(q) /\ q # p
        BY <1>1, <1>5 DEF Inv, Spaced
  <2>2. QED BY <1>1, <1>2, <2>1 DEF IsFollowed
<1>6. Spaced'
      BY <1>1, <1>2, <1>5 DEF Inv, Spaced
<1>7. QED BY <1>3, <1>4, <1>6

LEMMA InvReport ==
    ASSUME Inv, NEW h \in Handlers, ReportHeartbeat(h)
    PROVE  Once' /\ Close' /\ Spaced'
<1> DEFINE p == Last(to_heartbeat)
           k == Len(to_heartbeat)
           n == Len(last_heartbeat)
<1>1. /\ UNCHANGED <<session, poisoned>> /\ session[p] = "open"
      /\ sinceReport' = [sinceReport EXCEPT ![p] = 0]
      BY DEF ReportHeartbeat
<1>2. /\ p \in Peers /\ k \in Nat \ {0} /\ Len(to_heartbeat') = k - 1
      /\ \A i \in 1..k - 1 :
             /\ to_heartbeat'[i] = to_heartbeat[i] /\ to_heartbeat[i] \in Peers
             /\ to_heartbeat[i] # p /\ i \in 1..k
      /\ \A i \in 1..k : i \in 1..k - 1 \/ to_heartbeat[i] = p
      /\ \A i \in 1..n : last_heartbeat[i].peer # p
      BY LastIsOther DEF ReportHeartbeat
<1>3. /\ n \in Nat
      /\ \A i \in 1..n : last_heartbeat[i].peer \in Peers /\ last_heartbeat[i].age \in 0..MaxAge
      BY Lengths DEF Inv
<1>4. /\ Len(last_heartbeat') = n + 1
      /\ \A i \in 1..n : last_heartbeat'[i] = last_heartbeat[i]
      /\ last_heartbeat'[n + 1].peer = p /\ last_heartbeat'[n + 1].age = 0
      BY <1>2, Numbers, AppendJoins DEF ReportHeartbeat, Inv, Joins
<1> HIDE DEF p, k, n
<1>5. /\ sinceReport'[p] = 0
      /\ \A q \in Peers : q # p => sinceReport'[q] = sinceReport[q]
      BY <1>1, <1>2 DEF Inv, TypeOK
<1>6. \A i \in 1..n + 1 : i \in 1..n \/ i = n + 1
      BY <1>3
<1>7. Once'
  <2>1. ASSUME NEW i \in 1..n + 1, NEW j \in 1..n + 1,
               last_heartbeat'[i].peer = last_heartbeat'[j].peer
        PROVE  i = j
        BY <1>2, <1>4, <1>6, <2>1 DEF Inv, Once, n
  <2>2. ASSUME NEW i \in 1..k - 1, NEW j \in 1..k - 1, to_heartbeat'[i] = to_heartbeat'[j]
        PROVE  i = j
        BY <1>2, <2>2 DEF Inv, Once, k
  <2>3. ASSUME NEW i \in 1..n + 1, NEW j \in 1..k - 1
        PROVE  last_heartbeat'[i].peer # to_heartbeat'[j]
    <3>1. to_heartbeat'[j] = to_heartbeat[j] /\ to_heartbeat[j] # p /\ j \in 1..k
          BY <1>2
    <3>2. CASE i \in 1..n
      <4>1. last_heartbeat[i].peer # to_heartbeat[j]
            BY <3>1, <3>2 DEF Inv, Once, n, k
      <4>2. QED BY <1>4, <3>1, <3>2, <4>1
    <3>3. CASE i = n + 1
          BY <1>4, <3>1, <3>3
    <3>4. QED BY <1>6, <3>2, <3>3
  <2>4. QED BY <1>2, <1>4, <2>1, <2>2, <2>3 DEF Once
<1>8. Close'
  <2>1. ASSUME NEW i \in 1..n + 1, NEW j \in 1..n + 1, i < j
        PROVE  last_heartbeat'[j].age
                   <= last_heartbeat'[i].age + (HEARTBEAT_INTERVAL - Soon)
    <3>1. i \in 1..n
          BY <1>3, <2>1
    <3>2. CASE j \in 1..n
          BY <1>4, <2>1, <3>1, <3>2 DEF Inv, Close, n
    <3>3. CASE j = n + 1
          BY <1>3, <1>4, <3>1, <3>3, Numbers
    <3>4. QED BY <1>6, <3>2, <3>3
  <2>2. QED BY <1>4, <2>1 DEF Close
<1>9. Spaced'
  <2>1. ASSUME NEW i \in 1..n + 1, session'[last_heartbeat'[i].peer] = "open"
        PROVE  last_heartbeat'[i].age <= sinceReport'[last_heartbeat'[i].peer]
    <3>1. CASE i \in 1..n
      <4>1. /\ last_heartbeat'[i] = last_heartbeat[i] /\ last_heartbeat[i].peer \in Peers
            /\ last_heartbeat[i].peer # p
            BY <1>2, <1>3, <1>4, <3>1
      <4>2. last_heartbeat[i].age <= sinceReport[last_heartbeat[i].peer]
            BY <1>1, <2>1, <3>1, <4>1 DEF Inv, Spaced, n
      <4>3. QED BY <1>5, <4>1, <4>2
    <3>2. CASE i = n + 1
          BY <1>4, <1>5, <3>2
    <3>3. QED BY <1>6, <3>1, <3>2
  <2>2. ASSUME NEW i \in 1..k - 1, session'[to_heartbeat'[i]] = "open"
        PROVE  sinceReport'[to_heartbeat'[i]] >= HEARTBEAT_INTERVAL
    <3>1. sinceReport[to_heartbeat[i]] >= HEARTBEAT_INTERVAL
          BY <1>1, <1>2, <2>2 DEF Inv, Spaced, k
    <3>2. QED BY <1>2, <1>5, <3>1
  <2>3. ASSUME NEW q \in Peers, session'[q] = "open", sinceReport'[q] # MaxAge, ~poisoned'
        PROVE  IsFollowed(q)'
    <3>1. CASE q = p
      <4>1. n + 1 \in 1..Len(last_heartbeat')
            BY <1>3, <1>4
      <4>2. QED BY <1>4, <3>1, <4>1 DEF IsFollowed
    <3>2. CASE q # p
      <4>1. IsFollowed(q)
            BY <1>1, <1>5, <2>3, <3>2 DEF Inv, Spaced
      <4>2. CASE \E i \in 1..n : last_heartbeat[i].peer = q
        <5>1. PICK i \in 1..n : last_heartbeat[i].peer = q
              BY <4>2
        <5>2. i \in 1..n + 1 /\ last_heartbeat'[i].peer = q
              BY <1>3, <1>4, <5>1
        <5>3. QED BY <1>4, <5>2 DEF IsFollowed
      <4>3. CASE \E i \in 1..k : to_heartbeat[i] = q
            BY <1>2, <3>2, <4>3 DEF IsFollowed
      <4>4. QED BY <4>1, <4>2, <4>3 DEF IsFollowed, n, k
    <3>3. QED BY <3>1, <3>2
  <2>4. ASSUME NEW q \in Peers, session'[q] = "unknown"
        PROVE  /\ sinceReport'[q] = MaxAge
               /\ \A i \in 1..n + 1 : last_heartbeat'[i].peer # q
               /\ \A i \in 1..k - 1 : to_heartbeat'[i] # q
    <3>1. session[q] = "unknown" /\ q # p
          BY <1>1, <2>4
    <3>2. /\ sinceReport[q] = MaxAge /\ \A i \in 1..n : last_heartbeat[i].peer # q
          /\ \A i \in 1..k : to_heartbeat[i] # q
          BY <3>1 DEF Inv, Spaced, n, k
    <3>3. QED BY <1>2, <1>4, <1>5, <1>6, <3>1, <3>2
  <2>5. QED BY <1>2, <1>4, <2>1, <2>2, <2>3, <2>4 DEF Spaced
<1>10. QED BY <1>7, <1>8, <1>9

LEMMA InvStep == Inv /\ [Next]_vars => Inv'
<1> SUFFICES ASSUME Inv, [Next]_vars PROVE Inv'
    OBVIOUS
<1>1. TypeOK'
      BY TypeStep DEF Inv
<1>2. ASSUME NEW h \in Handlers, NEW p \in Peers, Connected(h, p)
      PROVE  Once' /\ Close' /\ Spaced'
      BY <1>2, InvConnected
<1>3. ASSUME Tick PROVE Once' /\ Close' /\ Spaced'
      BY <1>3, InvTick
<1>4. ASSUME NEW h \in Handlers, Lock(h) \/ Discard(h) \/ ReportHeartbeat(h)
      PROVE  Once' /\ Close' /\ Spaced'
  <2>1. CASE Lock(h)
        BY <2>1, InvLock
  <2>2. CASE Discard(h)
        BY <2>2, InvDiscard
  <2>3. CASE ReportHeartbeat(h)
        BY <2>3, InvReport
  <2>4. QED BY <1>4, <2>1, <2>2, <2>3
<1>5. ASSUME NEW p \in Peers, OpenSession(p) \/ CloseSession(p)
      PROVE  Once' /\ Close' /\ Spaced'
  <2>1. UNCHANGED <<stage, last_heartbeat, poisoned, to_heartbeat, sinceReport>>
        BY <1>5 DEF OpenSession, CloseSession
  <2>2. \A q \in Peers : /\ session'[q] = "open" => session[q] \in {"open", "unknown"}
                         /\ session'[q] = "unknown" => session[q] = "unknown"
        BY <1>5 DEF OpenSession, CloseSession, Inv, TypeOK
  <2>3. QED BY <2>1, <2>2, InvStays
<1>6. ASSUME NEW h \in Handlers,
             Received(h) \/ RelayPanics(h) \/ Skip(h) \/ Release(h) \/ ReportPanics(h)
      PROVE  Once' /\ Close' /\ Spaced'
  <2>1. /\ UNCHANGED <<session, last_heartbeat, sinceReport>> /\ (poisoned => poisoned')
        /\ to_heartbeat' = to_heartbeat \/ (poisoned' /\ to_heartbeat' = <<>>)
        BY <1>6 DEF Received, RelayPanics, Skip, Release, ReportPanics, Panic
  <2>2. \A q \in Peers : session'[q] = session[q]
        BY <2>1
  <2>3. QED BY <2>1, <2>2, InvStays
<1>7. ASSUME UNCHANGED vars PROVE Once' /\ Close' /\ Spaced'
  <2>1. UNCHANGED <<session, stage, last_heartbeat, poisoned, to_heartbeat, sinceReport>>
        BY <1>7 DEF vars
  <2>2. QED BY <2>1, InvStays
<1>8. Once' /\ Close' /\ Spaced'
      BY <1>2, <1>3, <1>4, <1>5, <1>6, <1>7 DEF Next, Handle
<1>9. QED BY <1>1, <1>8 DEF Inv

LEMMA InvHolds == Spec => []Inv
<1>1. Init => Inv
      BY TypeInit, InvInit DEF Inv
<1>2. QED BY <1>1, InvStep, PTL DEF Spec

(***************************************************************************)
(* The theorems.                                                           *)
(***************************************************************************)

(* Whatever messages of both protocols do at the same time, each peer is   *)
(* in the queue or in the hands of one handler, at most once               *)
(* (network_propagation.rs:288, :316).                                     *)
THEOREM EachPeerFollowedOnce == Spec => []FollowedOnce
<1>1. Inv => FollowedOnce
  <2> SUFFICES ASSUME Inv PROVE FollowedOnce
      OBVIOUS
  <2> DEFINE f == [i \in DOMAIN last_heartbeat |-> last_heartbeat[i].peer]
  <2>1. /\ DOMAIN last_heartbeat = 1..Len(last_heartbeat)
        /\ DOMAIN to_heartbeat = 1..Len(to_heartbeat)
        BY LenProperties DEF Inv, TypeOK
  <2>2. \A i, j \in DOMAIN f : f[i] = f[j] => i = j
        BY <2>1 DEF Inv, Once
  <2>3. IsInjective(f)
    <3> HIDE DEF f
    <3> QED BY <2>2 DEF IsInjective
  <2>4. IsInjective(to_heartbeat)
        BY <2>1 DEF IsInjective, Inv, Once
  <2>5. Queued \cap ToSet(to_heartbeat) = {}
        BY <2>1 DEF Queued, ToSet, Inv, Once
  <2>6. QED BY <2>3, <2>4, <2>5 DEF FollowedOnce
<1>2. QED BY <1>1, InvHolds, PTL

(* A peer is reported again after an interval at the earliest, also when   *)
(* another protocol of it is opened in between, or its handler panics      *)
(* (network_propagation.rs:316).                                           *)
THEOREM ReportsKeepTheInterval == Spec => ReportsAreSpaced
<1> DEFINE A == \A p \in Peers : sinceReport'[p] = 0 /\ sinceReport[p] # 0 =>
                    sinceReport[p] >= HEARTBEAT_INTERVAL
<1>1. Inv /\ [Next]_vars => [A]_vars
  <2> SUFFICES ASSUME Inv, Next, NEW q \in Peers, sinceReport'[q] = 0, sinceReport[q] # 0
               PROVE  sinceReport[q] >= HEARTBEAT_INTERVAL
      OBVIOUS
  <2>1. ~UNCHANGED sinceReport
        OBVIOUS
  <2>2. ~Tick
    <3>1. Tick => sinceReport'[q] = AtMost(sinceReport[q] + 1, MaxAge)
          BY DEF Tick
    <3>2. AtMost(sinceReport[q] + 1, MaxAge) # 0
          BY AtMostType DEF Inv, TypeOK
    <3>3. QED BY <3>1, <3>2
  <2>3. PICK h \in Handlers : ReportHeartbeat(h)
        BY <2>1, <2>2 DEF Next, Handle, OpenSession, CloseSession, Connected, Received, Lock,
           Skip, Discard, Release, RelayPanics, ReportPanics, Panic
  <2>4. /\ sinceReport' = [sinceReport EXCEPT ![Last(to_heartbeat)] = 0]
        /\ session[Last(to_heartbeat)] = "open" /\ to_heartbeat # <<>>
        BY <2>3 DEF ReportHeartbeat
  <2>5. q = Last(to_heartbeat)
        BY <2>4 DEF Inv, TypeOK
  <2>6. Len(to_heartbeat) \in 1..Len(to_heartbeat) /\ q = to_heartbeat[Len(to_heartbeat)]
        BY <2>4, <2>5, EmptySeq DEF Last, Inv, TypeOK
  <2>7. QED BY <2>4, <2>5, <2>6 DEF Inv, Spaced
<1> HIDE DEF A
<1>2. Spec => [][A]_vars
      BY <1>1, InvHolds, PTL DEF Spec
<1>3. QED BY <1>2 DEF ReportsAreSpaced, A

(* The loop of received stops at the first entry that is not due; what it  *)
(* leaves behind that one is late by less than an interval                 *)
(* (network_propagation.rs:316).                                           *)
THEOREM NoneIsLateByMore == Spec => LateByOneInterval
<1> DEFINE A == ~Locked /\ Locked' =>
                    \A i \in DOMAIN last_heartbeat' : last_heartbeat'[i].age < MaxAge - Soon
<1>1. Inv /\ [Next]_vars => [A]_vars
  <2> SUFFICES ASSUME Inv, Next, ~Locked, Locked', NEW i \in DOMAIN last_heartbeat'
               PROVE  last_heartbeat'[i].age < MaxAge - Soon
      OBVIOUS
  <2>1. stage' # stage
        BY DEF Locked, Is
  <2>2. PICK h \in Handlers : stage'[h] = "holds" /\ stage[h] # "holds"
        BY DEF Locked, Is
  <2>3. PICK g \in Handlers : Lock(g)
    <3>1. PICK g \in Handlers : Received(g) \/ Lock(g) \/ Skip(g) \/ Release(g)
                                    \/ RelayPanics(g) \/ ReportPanics(g)
          BY <2>1 DEF Next, Handle, OpenSession, CloseSession, Connected, Tick,
             ReportHeartbeat, Discard
    <3>2. \A w \in {"idle", "message", "dead"} : stage' # [stage EXCEPT ![g] = w]
          BY <2>2 DEF Inv, TypeOK
    <3>3. QED
          BY <3>1, <3>2 DEF Received, Skip, Release, RelayPanics, ReportPanics, Panic
  <2> DEFINE len == Len(last_heartbeat)
             n == Overdue
  <2>4. /\ len \in Nat /\ n \in 0..len /\ Len(last_heartbeat') = len - n
        /\ \A j \in 1..len - n : last_heartbeat'[j] = last_heartbeat[n + j]
        /\ \A j \in 1..len : last_heartbeat[j].age \in 0..MaxAge
        /\ n < len => ~(last_heartbeat[n + 1].age >= HEARTBEAT_INTERVAL)
        BY <2>3, LockSplits, OverdueIs, Lengths DEF Inv, Splits, Due
  <2>5. i \in 1..len - n
    <3>1. last_heartbeat' \in Seq(QueueEntry)
          BY <2>3, LockSplits DEF Inv
    <3>2. DOMAIN last_heartbeat' = 1..Len(last_heartbeat')
          BY <3>1, LenProperties
    <3>3. QED BY <2>4, <3>2
  <2> HIDE DEF len, n
  <2>6. n < len /\ n + 1 \in 1..len /\ n + i \in 1..len /\ (i = 1 \/ n + 1 < n + i)
        BY <2>4, <2>5
  <2> DEFINE a == last_heartbeat[n + 1].age
             b == last_heartbeat[n + i].age
  <2>7. a \in 0..MaxAge /\ b \in 0..MaxAge /\ ~(a >= HEARTBEAT_INTERVAL)
        BY <2>4, <2>6
  <2>8. i = 1 \/ b <= a + (HEARTBEAT_INTERVAL - Soon)
        BY <2>6 DEF Inv, Close, len
  <2>9. i = 1 => b = a
        OBVIOUS
  <2> HIDE DEF a, b
  <2>10. b < MaxAge - Soon
         BY <2>7, <2>8, <2>9, Numbers
  <2>11. last_heartbeat'[i].age = b
         BY <2>4, <2>5 DEF b
  <2>12. QED BY <2>10, <2>11
<1> HIDE DEF A
<1>2. Spec => [][A]_vars
      BY <1>1, InvHolds, PTL DEF Spec
<1>3. QED BY <1>2 DEF LateByOneInterval, A

(* Only a panic of its own ends a handler: one that finds the mutex        *)
(* poisoned by another goes on (network_propagation.rs:316).               *)
THEOREM HandlersSurviveOthers == Spec => []OthersSurvive
<1> DEFINE dead == {h \in Handlers : stage[h] = "dead"}
           Few == IsFiniteSet(dead) /\ Cardinality(dead) <= panics
<1>1. Few => OthersSurvive
      BY DEF OthersSurvive, Is
<1>2. Init => Few
  <2> SUFFICES ASSUME Init PROVE Few
      OBVIOUS
  <2>1. dead = {} /\ panics = 0
        BY DEF Init
  <2>2. QED BY <2>1, FS_EmptySet
<1>3. TypeOK /\ Few /\ [Next]_vars => Few'
  <2> SUFFICES ASSUME TypeOK, Few, [Next]_vars PROVE Few'
      OBVIOUS
  <2> HIDE DEF Few
  <2>1. CASE UNCHANGED <<stage, panics>>
        BY <2>1 DEF Few
  <2>2. ASSUME NEW h \in Handlers, NEW w \in {"idle", "message", "holds"},
               stage[h] # "dead", stage' = [stage EXCEPT ![h] = w], panics' = panics
        PROVE  Few'
    <3>1. dead' = dead
          BY <2>2 DEF TypeOK
    <3>2. QED BY <2>2, <3>1 DEF Few
  <2>3. ASSUME NEW h \in Handlers, stage[h] # "dead", Panic(h)
        PROVE  Few'
    <3>1. dead' = dead \cup {h} /\ h \notin dead /\ panics' = panics + 1
          BY <2>3 DEF Panic, TypeOK
    <3>2. IsFiniteSet(dead) /\ Cardinality(dead) <= panics
          BY DEF Few
    <3> HIDE DEF dead
    <3>3. IsFiniteSet(dead') /\ Cardinality(dead') = Cardinality(dead) + 1
          BY <3>1, <3>2, FS_AddElement
    <3>4. Cardinality(dead) \in Nat /\ panics \in Nat
          BY <3>2, FS_CardinalityType, HeartbeatsAssumption DEF TypeOK
    <3>5. Cardinality(dead') <= panics'
          BY <3>1, <3>2, <3>3, <3>4
    <3>6. QED BY <3>3, <3>5 DEF Few, dead
  <2>4. ASSUME NEW h \in Handlers, RelayPanics(h) \/ ReportPanics(h)
        PROVE  Few'
        BY <2>3, <2>4 DEF RelayPanics, ReportPanics
  <2>5. ASSUME NEW h \in Handlers, Received(h) \/ Lock(h) \/ Skip(h) \/ Release(h)
        PROVE  Few'
        BY <2>2, <2>5 DEF Received, Lock, Skip, Release
  <2>6. ASSUME NEW h \in Handlers, ReportHeartbeat(h) \/ Discard(h)
        PROVE  Few'
        BY <2>1, <2>6 DEF ReportHeartbeat, Discard
  <2>7. QED BY <2>1, <2>4, <2>5, <2>6
            DEF Next, Handle, vars, OpenSession, CloseSession, Connected, Tick
<1> HIDE DEF Few
<1>4. Spec => []Few
      BY <1>2, <1>3, HeartbeatsTypeCorrect, PTL DEF Spec
<1>5. QED BY <1>1, <1>4, PTL
=============================================================================

----------------------------- MODULE Heartbeats -----------------------------
(***************************************************************************)
(* The heartbeats of NetworkPropagation                                    *)
(* (src/src/topic/network_propagation.rs): a queue of peers, shared by the *)
(* handlers of the protocols Sync and Relay under a mutex, from which each *)
(* message received, of whatever peer, reports those that are due.  Before *)
(* that, a message of Relay is itself reported, a row for each hash.       *)
(*                                                                         *)
(* A handler is a task of the network service and does one thing at a      *)
(* time.  When it panics it is gone, and if it held the mutex that is      *)
(* poisoned: `if let Ok` of the other handler then skips the queue.        *)
(*                                                                         *)
(* Time is counted in ticks; the age of a queue entry is what its instant  *)
(* has elapsed, up to a limit above everything the code or a property      *)
(* compares it with.                                                       *)
(***************************************************************************)
EXTENDS Naturals, Sequences, SequencesExt

CONSTANTS Peers,            \* every PeerIndex the network service gives
          Handlers,         \* the protocol handlers: Sync and Relay
          HEARTBEAT_INTERVAL,   \* 10 min in the code
          Soon,             \* 10 s in the code
          MaxPanics         \* bound: panics of handlers

ASSUME HeartbeatsAssumption ==
    /\ HEARTBEAT_INTERVAL \in Nat /\ Soon \in 1..HEARTBEAT_INTERVAL
    /\ Handlers # {} /\ MaxPanics \in Nat

VARIABLES
    session,        \* of each peer with the network service
    stage,          \* of each handler: it has a message, the mutex, ...
    last_heartbeat, \* the queue: peers and the ages of their instants
    poisoned,       \* the mutex of last_heartbeat is
    to_heartbeat,   \* due peers its holder has taken and not yet dealt with
    sinceReport,    \* ticks since the last heartbeat row of each peer
    panics          \* of handlers so far

vars == <<session, stage, last_heartbeat, poisoned, to_heartbeat, sinceReport,
          panics>>

MaxAge == 2 * HEARTBEAT_INTERVAL
Entry(p, age) == [peer |-> p, age |-> age]
Is(what) == {h \in Handlers : stage[h] = what}
Locked == Is("holds") # {}
Queued == {last_heartbeat[i].peer : i \in DOMAIN last_heartbeat}

Init ==
    /\ session = [p \in Peers |-> "unknown"]
    /\ stage = [h \in Handlers |-> "idle"]
    /\ last_heartbeat = <<>> /\ poisoned = FALSE /\ to_heartbeat = <<>>
    /\ sinceReport = [p \in Peers |-> MaxAge] /\ panics = 0
-----------------------------------------------------------------------------
(* The network service: a session opens and closes, and each protocol of   *)
(* it is opened on its own.  A PeerIndex is not used again.                *)
OpenSession(p) ==
    /\ session[p] = "unknown"
    /\ session' = [session EXCEPT ![p] = "open"]
    /\ UNCHANGED <<stage, last_heartbeat, poisoned, to_heartbeat, sinceReport, panics>>

(* get_peer answers None from now on; disconnected only writes to the log. *)
CloseSession(p) ==
    /\ session[p] = "open"
    /\ session' = [session EXCEPT ![p] = "closed"]
    /\ UNCHANGED <<stage, last_heartbeat, poisoned, to_heartbeat, sinceReport, panics>>

AtMost(n, limit) == IF n < limit THEN n ELSE limit

Tick ==
    /\ last_heartbeat' = [i \in DOMAIN last_heartbeat |->
           [last_heartbeat[i] EXCEPT !.age = AtMost(@ + 1, MaxAge)]]
    /\ sinceReport' = [p \in Peers |-> AtMost(sinceReport[p] + 1, MaxAge)]
    /\ UNCHANGED <<session, stage, poisoned, to_heartbeat, panics>>
-----------------------------------------------------------------------------
(* Mutant of Connected: the queue is not searched for the peer.            *)
ConnectedTwice(h, p) ==
    /\ stage[h] = "idle" /\ session[p] # "unknown" /\ ~Locked /\ ~poisoned
    /\ last_heartbeat' = Append(last_heartbeat, Entry(p, HEARTBEAT_INTERVAL - Soon))
    /\ UNCHANGED <<session, stage, poisoned, to_heartbeat, sinceReport, panics>>

(* A protocol of the peer is opened; the session may be closed already.    *)
Connected(h, p) ==
    /\ stage[h] = "idle" /\ session[p] # "unknown" /\ ~Locked /\ ~poisoned
    /\ p \notin Queued
    /\ last_heartbeat' = Append(last_heartbeat, Entry(p, HEARTBEAT_INTERVAL - Soon))
    /\ UNCHANGED <<session, stage, poisoned, to_heartbeat, sinceReport, panics>>

(* received is called, with a message of some peer.  received_relay sends  *)
(* a row for each hash while get_peer knows the peer, waiting for places   *)
(* in the channel; nothing of the state here depends on them.              *)
Received(h) ==
    /\ stage[h] = "idle" /\ \E p \in Peers : session[p] = "open"
    /\ stage' = [stage EXCEPT ![h] = "message"]
    /\ UNCHANGED <<session, last_heartbeat, poisoned, to_heartbeat, sinceReport, panics>>

Panic(h) ==
    /\ panics < MaxPanics /\ panics' = panics + 1
    /\ stage' = [stage EXCEPT ![h] = "dead"]
    /\ UNCHANGED <<session, last_heartbeat, sinceReport>>

(* The message cannot be read, or the address of its peer has no peer id.  *)
RelayPanics(h) ==
    /\ stage[h] = "message" /\ Panic(h)
    /\ UNCHANGED <<poisoned, to_heartbeat>>

(* Mutant of Overdue: one at a time.                                       *)
OverdueAtMostOne ==
    IF last_heartbeat # <<>> /\ Head(last_heartbeat).age >= HEARTBEAT_INTERVAL
    THEN 1 ELSE 0

(* How many entries the loop takes from the front: all up to the first     *)
(* that is not due.                                                        *)
Overdue ==
    LET due(i) == last_heartbeat[i].age >= HEARTBEAT_INTERVAL
    IN  CHOOSE n \in 0..Len(last_heartbeat) :
            /\ \A i \in 1..n : due(i)
            /\ n < Len(last_heartbeat) => ~due(n + 1)

(* received, at its mutex.                                                 *)
Lock(h) ==
    /\ stage[h] = "message" /\ ~Locked /\ ~poisoned
    /\ stage' = [stage EXCEPT ![h] = "holds"]
    /\ to_heartbeat' = [i \in 1..Overdue |-> last_heartbeat[i].peer]
    /\ last_heartbeat' = SubSeq(last_heartbeat, Overdue + 1, Len(last_heartbeat))
    /\ UNCHANGED <<session, poisoned, sinceReport, panics>>

(* Mutant of Skip: lock().unwrap().                                        *)
SkipUnwraps(h) ==
    /\ stage[h] = "message" /\ poisoned
    /\ stage' = [stage EXCEPT ![h] = "dead"]
    /\ UNCHANGED <<session, last_heartbeat, poisoned, to_heartbeat, sinceReport, panics>>

(* The mutex is poisoned: there are no heartbeats.                         *)
Skip(h) ==
    /\ stage[h] = "message" /\ poisoned
    /\ stage' = [stage EXCEPT ![h] = "idle"]
    /\ UNCHANGED <<session, last_heartbeat, poisoned, to_heartbeat, sinceReport, panics>>

(* Mutant of ReportHeartbeat: the entry keeps its place at the front.      *)
ReportHeartbeatInPlace(h) ==
    /\ stage[h] = "holds" /\ to_heartbeat # <<>>
    /\ session[Last(to_heartbeat)] = "open"
    /\ last_heartbeat' =
           <<Entry(Last(to_heartbeat), HEARTBEAT_INTERVAL)>> \o last_heartbeat
    /\ sinceReport' = [sinceReport EXCEPT ![Last(to_heartbeat)] = 0]
    /\ to_heartbeat' = Front(to_heartbeat)
    /\ UNCHANGED <<session, stage, poisoned, panics>>

(* Mutant of ReportHeartbeat: the peer is not queued again.                *)
ReportHeartbeatOnce(h) ==
    /\ stage[h] = "holds" /\ to_heartbeat # <<>>
    /\ session[Last(to_heartbeat)] = "open"
    /\ sinceReport' = [sinceReport EXCEPT ![Last(to_heartbeat)] = 0]
    /\ to_heartbeat' = Front(to_heartbeat)
    /\ UNCHANGED <<session, stage, last_heartbeat, poisoned, panics>>

(* The due peers from the last to the first: the row is sent, waiting for  *)
(* ipinfo.io and for a place in the channel while the mutex is held, and   *)
(* the peer joins the end of the queue.                                    *)
ReportHeartbeat(h) ==
    /\ stage[h] = "holds" /\ to_heartbeat # <<>>
    /\ session[Last(to_heartbeat)] = "open"
    /\ last_heartbeat' = Append(last_heartbeat, Entry(Last(to_heartbeat), 0))
    /\ sinceReport' = [sinceReport EXCEPT ![Last(to_heartbeat)] = 0]
    /\ to_heartbeat' = Front(to_heartbeat)
    /\ UNCHANGED <<session, stage, poisoned, panics>>

(* get_peer answers None: the peer is discarded.                           *)
Discard(h) ==
    /\ stage[h] = "holds" /\ to_heartbeat # <<>>
    /\ session[Last(to_heartbeat)] # "open"
    /\ to_heartbeat' = Front(to_heartbeat)
    /\ UNCHANGED <<session, stage, last_heartbeat, poisoned, sinceReport, panics>>

(* Neither does ipinfo.io answer with the address, or it has no peer id:   *)
(* the due peers are lost, and the mutex is poisoned as it is released.    *)
ReportPanics(h) ==
    /\ stage[h] = "holds" /\ to_heartbeat # <<>> /\ session[Last(to_heartbeat)] = "open"
    /\ Panic(h)
    /\ poisoned' = TRUE /\ to_heartbeat' = <<>>

(* Mutant of Release: the mutex is left before the reports.                *)
ReleaseEarly(h) ==
    /\ stage[h] = "holds"
    /\ stage' = [stage EXCEPT ![h] = "idle"]
    /\ UNCHANGED <<session, last_heartbeat, poisoned, to_heartbeat, sinceReport, panics>>

(* The mutex is held to the end of received.                               *)
Release(h) ==
    /\ stage[h] = "holds" /\ to_heartbeat = <<>>
    /\ stage' = [stage EXCEPT ![h] = "idle"]
    /\ UNCHANGED <<session, last_heartbeat, poisoned, to_heartbeat, sinceReport, panics>>

Handle(h) ==
    Received(h) \/ Lock(h) \/ Skip(h) \/ ReportHeartbeat(h) \/ Discard(h) \/ Release(h)

Next ==
    \/ \E p \in Peers : OpenSession(p) \/ CloseSession(p)
    \/ \E h \in Handlers, p \in Peers : Connected(h, p)
    \/ Tick
    \/ \E h \in Handlers : Handle(h) \/ RelayPanics(h) \/ ReportPanics(h)

Spec == Init /\ [][Next]_vars

(* Time passes, and while a session is open some message of Sync or Relay  *)
(* comes: a header, a block, a transaction.  Pings are of another protocol *)
(* and do not reach `received`.                                            *)
FairSpec == Spec /\ WF_vars(Tick) /\ WF_vars(\E h \in Handlers : Handle(h))
-----------------------------------------------------------------------------
IsDue(p) == p \in ToSet(to_heartbeat)
Followed == Queued \cup ToSet(to_heartbeat)

TypeOK ==
    /\ session \in [Peers -> {"unknown", "open", "closed"}]
    /\ last_heartbeat \in Seq([peer : Peers, age : 0..MaxAge])
    /\ stage \in [Handlers -> {"idle", "message", "holds", "dead"}]
    /\ poisoned \in BOOLEAN /\ to_heartbeat \in Seq(Peers)
    /\ (~Locked => to_heartbeat = <<>>)
    /\ sinceReport \in [Peers -> 0..MaxAge] /\ panics \in 0..MaxPanics

(* Both protocols of a peer add it, messages of both report it, and yet it *)
(* is followed once.                                                       *)
FollowedOnce ==
    /\ IsInjective([i \in DOMAIN last_heartbeat |-> last_heartbeat[i].peer])
    /\ IsInjective(to_heartbeat)
    /\ Queued \cap ToSet(to_heartbeat) = {}

(* A peer is reported again after HEARTBEAT_INTERVAL at the earliest.      *)
ReportsAreSpaced ==
    [][\A p \in Peers : sinceReport'[p] = 0 /\ sinceReport[p] # 0 =>
           sinceReport[p] >= HEARTBEAT_INTERVAL]_vars

(* A message finds every due peer, or finds it at most                     *)
(* HEARTBEAT_INTERVAL - Soon late: only a peer queued with an old instant  *)
(* is behind one that is not due.                                          *)
LateByOneInterval ==
    [][~Locked /\ Locked' =>
           \A i \in DOMAIN last_heartbeat' :
               last_heartbeat'[i].age < MaxAge - Soon]_vars

(* One panic costs one handler: the other ones go on with their messages,  *)
(* also when the mutex is poisoned (network_propagation.rs:316).           *)
OthersSurvive == Cardinality(Is("dead")) <= panics

(* A peer whose protocol has been opened, or that was reported lately, is  *)
(* reported (again) unless its session ends, whatever the other peers do,  *)
(* and even by the other handler alone, unless the mutex is poisoned.      *)
EveryPeerBeats ==
    \A p \in Peers :
        ((p \in Followed \/ sinceReport[p] < MaxAge) /\ session[p] = "open")
            ~> (sinceReport[p] = 0 \/ session[p] = "closed" \/ poisoned)
=============================================================================

------------------------------- MODULE Delivery -------------------------------
(***************************************************************************)
(* The way of a notification from the outbox to the connections of its     *)
(* citizen: the outbox by its contract (OutboxContract, which Outbox       *)
(* implements), Redis Pub/Sub, one Subscriber per server process           *)
(* (notify/subscriber.go), and the registry of each process's hub.  What   *)
(* the hub does with a message once it is handed to a connection is the    *)
(* subject of Hub.                                                         *)
(*                                                                         *)
(* Redis keeps nothing: a process whose subscription is down when a        *)
(* message is published never sees it.  go-redis re-establishes the        *)
(* subscription by itself; the channel that runOnce reads stays open.      *)
(***************************************************************************)
EXTENDS Naturals, Sequences, FiniteSets

CONSTANTS
  Rows, Owner,         \* Owner[r]: the citizen of row r
  Processes,
  Conns, Home, Citizen, \* Home[c], Citizen[c]: the process and citizen of c
  MaxPublished         \* bound: messages published altogether

ASSUME DeliveryAssumption ==
  /\ DOMAIN Owner = Rows
  /\ Home \in [Conns -> Processes]
  /\ DOMAIN Citizen = Conns
  /\ MaxPublished \in Nat

VARIABLES
  state, copies,  \* the outbox, as its contract has it
  log,            \* rows in the order Redis executed their PUBLISH (history)
  sub,            \* sub[p]: down, up, or off once the Subscriber has returned
  chan,           \* chan[p]: positions in log that wait in p's channel
  lost,           \* lost[p]: positions p's subscription has missed (history)
  life,           \* life[p]: running, cancelled, or closed with its hub
  conn,           \* conn[c]: none, upgraded or registered
  joined,         \* joined[c]: messages published when c was registered (history)
  got,            \* got[c]: positions handed to c's channel
  list            \* list[c]: rows that c's client got by GET /notifications after
                  \* its registration, in a singleton; {} before

outbox == <<state, copies>>
process == <<sub, chan, lost, life>>
client == <<conn, joined, got, list>>
vars == <<outbox, log, process, client>>

Outbox == INSTANCE OutboxContract WITH PerAttempt <- 1

Init ==
  /\ Outbox!Init
  /\ log = <<>>
  /\ sub = [p \in Processes |-> "down"]
  /\ chan = [p \in Processes |-> <<>>]
  /\ lost = [p \in Processes |-> {}]
  /\ life = [p \in Processes |-> "running"]
  /\ conn = [c \in Conns |-> "none"]
  /\ joined = [c \in Conns |-> 0]
  /\ got = [c \in Conns |-> <<>>]
  /\ list = [c \in Conns |-> {}]

-----------------------------------------------------------------------------
Enqueue(r) ==
  /\ Outbox!Enqueue(r)
  /\ UNCHANGED <<log, process, client>>

Settle(sent, dead) ==
  /\ Outbox!Settle(sent, dead)
  /\ UNCHANGED <<log, process, client>>

\* Mutant: messages reach one process only, as from a queue.
PublishToOne(r) ==
  /\ Len(log) < MaxPublished
  /\ Outbox!Publish(r)
  /\ log' = Append(log, r)
  /\ \E q \in Processes :
       /\ chan' = [p \in Processes |->
                     IF p = q /\ sub[p] = "up" THEN Append(chan[p], Len(log')) ELSE chan[p]]
       /\ lost' = [p \in Processes |->
                     IF sub[p] = "down" THEN lost[p] \cup {Len(log')} ELSE lost[p]]
  /\ UNCHANGED <<sub, life, client>>

\* Redis executes a PUBLISH of some worker: every process whose subscription
\* is up has the message in its channel.
Publish(r) ==
  /\ Len(log) < MaxPublished
  /\ Outbox!Publish(r)
  /\ log' = Append(log, r)
  /\ chan' = [p \in Processes |->
                IF sub[p] = "up" THEN Append(chan[p], Len(log')) ELSE chan[p]]
  /\ lost' = [p \in Processes |->
                IF sub[p] = "down" THEN lost[p] \cup {Len(log')} ELSE lost[p]]
  /\ UNCHANGED <<sub, life, client>>

\* runOnce's PSUBSCRIBE, and go-redis after a broken connection.
Subscribe(p) ==
  /\ sub[p] = "down"
  /\ sub' = [sub EXCEPT ![p] = "up"]
  /\ UNCHANGED <<outbox, log, chan, lost, life, client>>

\* The connection to Redis breaks: what was on its way is gone with it.
Disconnect(p) ==
  /\ sub[p] = "up"
  /\ sub' = [sub EXCEPT ![p] = "down"]
  /\ \E n \in 0 .. Len(chan[p]) :
       /\ chan' = [chan EXCEPT ![p] = SubSeq(@, 1, n)]
       /\ lost' = [lost EXCEPT ![p] = @ \cup {chan[p][i] : i \in n + 1 .. Len(chan[p])}]
  /\ UNCHANGED <<outbox, log, life, client>>

\* Mutant: the channel's citizen is not looked at.
RegisteredOfAnyone(p, r) == {c \in Conns : conn[c] = "registered" /\ Home[c] = p}

\* Connections registered with the hub of p for the citizen of row r.
Registered(p, r) ==
  {c \in Conns : conn[c] = "registered" /\ Home[c] = p /\ Citizen[c] = Owner[r]}

\* Mutant: runOnce returns after a message and subscribes anew.
DispatchNextResubscribing(p) ==
  /\ sub[p] # "off" /\ chan[p] # <<>>
  /\ LET i == Head(chan[p])
         to == IF life[p] = "closed" THEN {} ELSE Registered(p, log[i])
     IN  got' = [c \in Conns |-> IF c \in to THEN Append(got[c], i) ELSE got[c]]
  /\ chan' = [chan EXCEPT ![p] = <<>>]
  /\ UNCHANGED <<outbox, log, sub, lost, life, conn, joined, list>>

\* The Subscriber takes a message and calls Dispatch, which returns early on
\* a closed hub.  A cancelled context may still lose the race in its select.
DispatchNext(p) ==
  /\ sub[p] # "off" /\ chan[p] # <<>>
  /\ LET i == Head(chan[p])
         to == IF life[p] = "closed" THEN {} ELSE Registered(p, log[i])
     IN  got' = [c \in Conns |-> IF c \in to THEN Append(got[c], i) ELSE got[c]]
  /\ chan' = [chan EXCEPT ![p] = Tail(@)]
  /\ UNCHANGED <<outbox, log, sub, lost, life, conn, joined, list>>

\* Run returns once the context is cancelled and closes the subscription.
SubscriberReturns(p) ==
  /\ life[p] # "running" /\ sub[p] # "off"
  /\ sub' = [sub EXCEPT ![p] = "off"]
  /\ chan' = [chan EXCEPT ![p] = <<>>]
  /\ UNCHANGED <<outbox, log, lost, life, client>>

\* waitShutdown cancels the root context ...
Cancel(p) ==
  /\ life[p] = "running"
  /\ life' = [life EXCEPT ![p] = "cancelled"]
  /\ UNCHANGED <<outbox, log, sub, chan, lost, client>>

\* The connections in C end; their clients may come back.
Drop(C) ==
  /\ conn' = [c \in Conns |-> IF c \in C THEN "none" ELSE conn[c]]
  /\ joined' = [c \in Conns |-> IF c \in C THEN 0 ELSE joined[c]]
  /\ got' = [c \in Conns |-> IF c \in C THEN <<>> ELSE got[c]]
  /\ list' = [c \in Conns |-> IF c \in C THEN {} ELSE list[c]]

\* ... and closes the hub, which drops its connections.
CloseHub(p) ==
  /\ life[p] = "cancelled"
  /\ life' = [life EXCEPT ![p] = "closed"]
  /\ Drop({c \in Conns : Home[c] = p /\ conn[c] = "registered"})
  /\ UNCHANGED <<outbox, log, sub, chan, lost>>

\* The process is replaced by a new one, after its shutdown or because it died.
Restart(p) ==
  /\ sub' = [sub EXCEPT ![p] = "down"]
  /\ chan' = [chan EXCEPT ![p] = <<>>]
  /\ lost' = [lost EXCEPT ![p] = {}]
  /\ life' = [life EXCEPT ![p] = "running"]
  /\ Drop({c \in Conns : Home[c] = p})
  /\ UNCHANGED <<outbox, log>>

-----------------------------------------------------------------------------
\* handleWS: the upgrade, which the client hears of, ...
Upgrade(c) ==
  /\ conn[c] = "none"
  /\ conn' = [conn EXCEPT ![c] = "upgraded"]
  /\ UNCHANGED <<outbox, log, process, joined, got, list>>

\* ... and then, in Run, the registration, which a closed hub declines.
Register(c) ==
  /\ conn[c] = "upgraded" /\ life[Home[c]] # "closed"
  /\ conn' = [conn EXCEPT ![c] = "registered"]
  /\ joined' = [joined EXCEPT ![c] = Len(log)]
  /\ UNCHANGED <<outbox, log, process, got, list>>

\* The connection ends: the peer leaves, or it is dropped as too slow.
Leave(c) ==
  /\ conn[c] # "none"
  /\ Drop({c})
  /\ UNCHANGED <<outbox, log, process>>

\* The client lists its notifications: a notification and its outbox row are
\* committed together.
List(c) ==
  /\ conn[c] = "registered" /\ list[c] = {}
  /\ list' = [list EXCEPT ![c] =
                {{r \in Rows : Owner[r] = Citizen[c] /\ state[r] # "absent"}}]
  /\ UNCHANGED <<outbox, log, process, conn, joined, got>>

Next ==
  \/ \E r \in Rows : Enqueue(r) \/ Publish(r)
  \/ \E sent, dead \in SUBSET Rows : sent \cup dead # {} /\ Settle(sent, dead)
  \/ \E p \in Processes :
       \/ Subscribe(p) \/ Disconnect(p) \/ DispatchNext(p)
       \/ Cancel(p) \/ SubscriberReturns(p) \/ CloseHub(p) \/ Restart(p)
  \/ \E c \in Conns : Upgrade(c) \/ Register(c) \/ Leave(c) \/ List(c)

Spec == Init /\ [][Next]_vars

-----------------------------------------------------------------------------
Elements(s) == {s[i] : i \in DOMAIN s}

\* Type invariant; rows settle with at least one copy in Redis' log each.
TypeOK ==
  /\ state \in [Rows -> {"absent", "pending", "sent", "dead"}]
  /\ copies = [r \in Rows |-> Cardinality({i \in DOMAIN log : log[i] = r})]
  /\ log \in Seq(Rows) /\ Len(log) <= MaxPublished
  /\ sub \in [Processes -> {"down", "up", "off"}]
  /\ \A p \in Processes : Elements(chan[p]) \cup lost[p] \subseteq DOMAIN log
  /\ life \in [Processes -> {"running", "cancelled", "closed"}]
  /\ conn \in [Conns -> {"none", "upgraded", "registered"}]
  /\ joined \in [Conns -> 0 .. MaxPublished]
  /\ \A c \in Conns : Elements(got[c]) \subseteq DOMAIN log
  /\ list \in [Conns -> SUBSET SUBSET Rows]

\* What a connection has been handed, or is about to be.
Reaches(c) == Elements(got[c]) \cup Elements(chan[Home[c]])

\* c is registered with a hub whose Subscriber is at work.
Attended(c) == conn[c] = "registered" /\ life[Home[c]] = "running"

\* Connections of a citizen, in whatever process, get its messages and no
\* others, each at most once and all in the order of Redis.
SameOrderEverywhere ==
  \A c \in Conns :
    /\ \A i \in Elements(got[c]) : Owner[log[i]] = Citizen[c]
    /\ \A i, j \in DOMAIN got[c] : i < j => got[c][i] < got[c][j]

\* docs/architecture.md: each process that has clients of a citizen gets the
\* citizen's messages as long as its subscriber is active.  What is published
\* after a connection was registered reaches it, unless the subscription of
\* its process missed the message.
PublishedReachesConnected ==
  \A c \in Conns : Attended(c) =>
    \A i \in joined[c] + 1 .. Len(log) :
      Owner[log[i]] = Citizen[c] => i \in Reaches(c) \cup lost[Home[c]]

\* A client that lists its notifications once it is registered misses no
\* notification: what is sent was listed, or a copy of it reaches the
\* connection, unless the subscription missed them all.
ListAndStreamMissNothing ==
  \A c \in Conns : Attended(c) =>
    \A listed \in list[c], r \in Rows :
      Owner[r] = Citizen[c] /\ state[r] = "sent" =>
        \/ r \in listed
        \/ \E i \in Reaches(c) \cup lost[Home[c]] : log[i] = r
=============================================================================

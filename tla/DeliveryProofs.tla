--------------------------- MODULE DeliveryProofs ---------------------------
(***************************************************************************)
(* Proofs about Delivery for any set of rows, processes and connections    *)
(* and any number of messages.  The channel of a process holds positions   *)
(* of Redis' log in ascending order, all after what its connections have   *)
(* been handed: that is what keeps the order, and what accounts for every  *)
(* message since a connection was registered.                              *)
(***************************************************************************)
EXTENDS Delivery, SequenceTheorems, FiniteSetTheorems, TLAPS

Ascending(s) == \A i, j \in DOMAIN s : i < j => s[i] < s[j]

\* Sequences of positions in ascending order.
Positions == {s \in Seq(Nat) : Ascending(s)}

\* Shapes, with the order inside them.
Typed ==
  /\ state \in [Rows -> {"absent", "pending", "sent", "dead"}]
  /\ copies \in [Rows -> Nat]
  /\ log \in Seq(Rows) /\ Len(log) <= MaxPublished
  /\ sub \in [Processes -> {"down", "up", "off"}]
  /\ chan \in [Processes -> Positions]
  /\ lost \in [Processes -> SUBSET Nat]
  /\ life \in [Processes -> {"running", "cancelled", "closed"}]
  /\ conn \in [Conns -> {"none", "upgraded", "registered"}]
  /\ joined \in [Conns -> Nat]
  /\ got \in [Conns -> Positions]
  /\ list \in [Conns -> SUBSET SUBSET Rows]

\* The log holds rows that were enqueued, as many copies as the outbox counts.
LogAccounted ==
  /\ \A i \in 1 .. Len(log) : state[log[i]] # "absent"
  /\ \A r \in Rows : copies[r] = Cardinality({i \in 1 .. Len(log) : log[i] = r})
  /\ \A r \in Rows : state[r] = "sent" => copies[r] > 0

\* Channels and connections hold positions of the log; a Subscriber is off
\* only in a process that is going down.
WithinLog ==
  \A p \in Processes :
    /\ Elements(chan[p]) \cup lost[p] \subseteq 1 .. Len(log)
    /\ sub[p] = "off" => life[p] # "running"

\* What waits for a connection comes after what it has, and is new to it.
HandedBeforeWaiting ==
  \A c \in Conns :
    /\ Elements(got[c]) \subseteq 1 .. Len(log)
    /\ \A i \in Elements(got[c]), j \in Elements(chan[Home[c]]) : i < j
    /\ \A i \in Elements(got[c]) : Owner[log[i]] = Citizen[c]

\* Before its registration a connection has nothing; what its client has not
\* listed was published after it.
UnlistedIsLater ==
  \A c \in Conns :
    /\ conn[c] # "registered" => got[c] = <<>> /\ list[c] = {}
    /\ joined[c] <= Len(log)
    /\ \A listed \in list[c] : \A i \in 1 .. Len(log) :
         Owner[log[i]] = Citizen[c] /\ log[i] \notin listed => joined[c] < i

IInv ==
  /\ Typed
  /\ LogAccounted
  /\ WithinLog
  /\ HandedBeforeWaiting
  /\ UnlistedIsLater
  /\ PublishedReachesConnected

-----------------------------------------------------------------------------
\* The empty sequence.
LEMMA EmptyPositions == <<>> \in Positions /\ Elements(<<>>) = {}
BY DEF Positions, Ascending, Elements

\* A position after all others may be appended.
LEMMA AppendPosition ==
  ASSUME NEW s \in Positions, NEW n \in Nat, \A i \in Elements(s) : i < n
  PROVE  Append(s, n) \in Positions /\ Elements(Append(s, n)) = Elements(s) \cup {n}
<1>1. /\ Append(s, n) \in Seq(Nat) /\ Len(Append(s, n)) = Len(s) + 1
      /\ Append(s, n)[Len(s) + 1] = n
      /\ \A i \in 1 .. Len(s) : Append(s, n)[i] = s[i]
  BY AppendProperties DEF Positions
<1>2. DOMAIN s = 1 .. Len(s) /\ DOMAIN Append(s, n) = 1 .. Len(s) + 1 /\ Len(s) \in Nat
  BY <1>1 DEF Positions
<1>3. Ascending(Append(s, n))
  BY <1>1, <1>2 DEF Positions, Ascending, Elements
<1>4. Elements(Append(s, n)) = Elements(s) \cup {n}
  BY <1>1, <1>2 DEF Elements
<1> QED
  BY <1>1, <1>3, <1>4 DEF Positions

\* The head comes before the rest.
LEMMA TakeHead ==
  ASSUME NEW s \in Positions, s # <<>>
  PROVE  /\ Head(s) \in Nat /\ Tail(s) \in Positions
         /\ Elements(s) = {Head(s)} \cup Elements(Tail(s))
         /\ \A i \in Elements(Tail(s)) : Head(s) < i
<1>1. /\ s \in Seq(Nat) /\ Len(s) \in Nat \ {0} /\ DOMAIN s = 1 .. Len(s)
      /\ Head(s) = s[1] /\ Head(s) \in Nat
      /\ Tail(s) \in Seq(Nat) /\ Len(Tail(s)) = Len(s) - 1
      /\ \A i \in 1 .. Len(Tail(s)) : Tail(s)[i] = s[i + 1]
      /\ DOMAIN Tail(s) = 1 .. Len(Tail(s))
  BY HeadTailProperties DEF Positions
<1>2. Ascending(Tail(s))
  <2> SUFFICES ASSUME NEW i \in 1 .. Len(Tail(s)), NEW j \in 1 .. Len(Tail(s)), i < j
               PROVE  Tail(s)[i] < Tail(s)[j]
    BY <1>1 DEF Ascending
  <2>1. i + 1 \in 1 .. Len(s) /\ j + 1 \in 1 .. Len(s) /\ i + 1 < j + 1
    BY <1>1
  <2>2. s[i + 1] < s[j + 1]
    BY <1>1, <2>1 DEF Positions, Ascending
  <2> QED
    BY <1>1, <2>2, Zenon
<1>3. Elements(s) = {Head(s)} \cup Elements(Tail(s))
  <2>1. \A i \in 1 .. Len(s) : i = 1 \/ (i - 1 \in 1 .. Len(Tail(s)) /\ s[i] = Tail(s)[i - 1])
    BY <1>1
  <2>2. \A i \in 1 .. Len(Tail(s)) : i + 1 \in 1 .. Len(s)
    BY <1>1
  <2>3. Elements(s) \subseteq {Head(s)} \cup Elements(Tail(s))
    <3> SUFFICES ASSUME NEW i \in 1 .. Len(s)
                 PROVE  s[i] \in {Head(s)} \cup Elements(Tail(s))
      BY <1>1 DEF Elements
    <3>1. CASE i = 1
      BY <1>1, <3>1
    <3>2. CASE i # 1
      BY <1>1, <2>1, <3>2 DEF Elements
    <3> QED
      BY <3>1, <3>2
  <2>4. Head(s) \in Elements(s)
    BY <1>1 DEF Elements
  <2>5. Elements(Tail(s)) \subseteq Elements(s)
    BY <1>1, <2>2 DEF Elements
  <2> QED
    BY <2>3, <2>4, <2>5
<1>4. \A i \in Elements(Tail(s)) : Head(s) < i
  BY <1>1 DEF Positions, Ascending, Elements
<1> QED
  BY <1>1, <1>2, <1>3, <1>4 DEF Positions

\* Cutting a channel short loses exactly the end.
LEMMA CutShort ==
  ASSUME NEW s \in Positions, NEW n \in 0 .. Len(s)
  PROVE  /\ SubSeq(s, 1, n) \in Positions
         /\ Elements(s) = Elements(SubSeq(s, 1, n)) \cup {s[i] : i \in n + 1 .. Len(s)}
<1>1. /\ s \in Seq(Nat) /\ Len(s) \in Nat /\ DOMAIN s = 1 .. Len(s)
      /\ SubSeq(s, 1, n) \in Seq(Nat) /\ Len(SubSeq(s, 1, n)) = n
      /\ \A i \in 1 .. n : SubSeq(s, 1, n)[i] = s[i]
      /\ DOMAIN SubSeq(s, 1, n) = 1 .. n
  BY SubSeqProperties DEF Positions
<1>2. Ascending(SubSeq(s, 1, n))
  BY <1>1 DEF Positions, Ascending
<1>3. Elements(s) = Elements(SubSeq(s, 1, n)) \cup {s[i] : i \in n + 1 .. Len(s)}
  <2>1. 1 .. Len(s) = (1 .. n) \cup (n + 1 .. Len(s))
    BY <1>1
  <2>2. Elements(SubSeq(s, 1, n)) = {s[i] : i \in 1 .. n}
    BY <1>1 DEF Elements
  <2>3. Elements(s) = {s[i] : i \in 1 .. Len(s)}
    BY <1>1 DEF Elements
  <2> QED
    BY <2>1, <2>2, <2>3, Zenon
<1> QED
  BY <1>1, <1>2, <1>3 DEF Positions

-----------------------------------------------------------------------------
\* The empty log, with nobody connected, satisfies the inductive invariant.
LEMMA InitIInv == Init => IInv
<1> SUFFICES ASSUME Init PROVE IInv
  OBVIOUS
<1> USE DeliveryAssumption, EmptyPositions DEF DeliveryAssumption, Init, Outbox!Init
<1>1. Typed
  BY DEF Typed
<1>2. LogAccounted
  <2>1. \A r \in Rows : {i \in 1 .. Len(log) : log[i] = r} = {}
    OBVIOUS
  <2> QED
    BY <2>1, FS_EmptySet DEF LogAccounted
<1>3. WithinLog /\ HandedBeforeWaiting /\ UnlistedIsLater
  BY DEF WithinLog, HandedBeforeWaiting, UnlistedIsLater
<1>4. PublishedReachesConnected
  BY DEF PublishedReachesConnected, Attended
<1> QED
  BY <1>1, <1>2, <1>3, <1>4 DEF IInv

\* What Redis and the processes know does not depend on the outbox's states,
\* as long as a row that was published does not become absent.
LEMMA OutboxStates ==
  ASSUME IInv, UNCHANGED <<copies, log, process, client>>,
         state' \in [Rows -> {"absent", "pending", "sent", "dead"}],
         \A r \in Rows : state'[r] = "absent" => state[r] = "absent",
         \A r \in Rows : state'[r] = "sent" => copies[r] > 0
  PROVE  IInv'
<1> USE DEF IInv, process, client
<1>1. Typed'
  BY DEF Typed
<1>2. LogAccounted'
  <2>1. \A i \in 1 .. Len(log) : log[i] \in Rows
    BY DEF Typed
  <2> QED
    BY <2>1 DEF LogAccounted
<1>3. WithinLog' /\ HandedBeforeWaiting' /\ UnlistedIsLater'
  BY DEF WithinLog, HandedBeforeWaiting, UnlistedIsLater
<1>4. PublishedReachesConnected'
  BY DEF PublishedReachesConnected, Attended, Reaches
<1> QED
  BY <1>1, <1>2, <1>3, <1>4

\* The webhook's commit of a new row.
LEMMA EnqueueStep ==
  ASSUME IInv, NEW r \in Rows, Enqueue(r) PROVE IInv'
BY OutboxStates DEF IInv, Typed, LogAccounted, Enqueue, Outbox!Enqueue

\* A batch's outcome: only published rows become sent.
LEMMA SettleStep ==
  ASSUME IInv, NEW sent \in SUBSET Rows, NEW dead \in SUBSET Rows, Settle(sent, dead)
  PROVE  IInv'
BY OutboxStates DEF IInv, Typed, LogAccounted, Settle, Outbox!Settle

\* A new position is after all others; every subscription of a running
\* process has it or has missed it.
LEMMA PublishStep ==
  ASSUME IInv, NEW r \in Rows, Publish(r) PROVE IInv'
<1> USE DeliveryAssumption DEF DeliveryAssumption, IInv, Publish, Outbox!Publish, client
<1> DEFINE new == Len(log) + 1
<1>1. /\ log' \in Seq(Rows) /\ Len(log') = new /\ new \in Nat /\ Len(log) \in Nat
      /\ log'[new] = r /\ \A i \in 1 .. Len(log) : log'[i] = log[i]
      /\ 1 .. Len(log') = (1 .. Len(log)) \cup {new}
  BY AppendProperties DEF Typed
<1>2. ASSUME NEW p \in Processes
      PROVE  /\ chan'[p] \in Positions
             /\ sub[p] = "up" => Elements(chan'[p]) = Elements(chan[p]) \cup {new}
             /\ sub[p] # "up" => chan'[p] = chan[p]
             /\ sub[p] = "down" => lost'[p] = lost[p] \cup {new}
             /\ sub[p] # "down" => lost'[p] = lost[p]
  <2>1. \A i \in Elements(chan[p]) : i < new
    <3>1. Elements(chan[p]) \subseteq 1 .. Len(log)
      BY DEF WithinLog
    <3> QED
      BY <1>1, <3>1
  <2>2. chan[p] \in Positions
    BY DEF Typed
  <2>3. Append(chan[p], new) \in Positions
        /\ Elements(Append(chan[p], new)) = Elements(chan[p]) \cup {new}
    BY <1>1, <2>1, <2>2, AppendPosition
  <2> QED
    BY <1>1, <2>2, <2>3
<1>3. Typed'
  <2>1. copies' \in [Rows -> Nat]
    BY DEF Typed
  <2>2. lost' \in [Processes -> SUBSET Nat]
    BY <1>1, <1>2 DEF Typed
  <2>3. chan' \in [Processes -> Positions]
    BY <1>2
  <2>4. Len(log') <= MaxPublished
    BY <1>1
  <2> QED
    BY <1>1, <2>1, <2>2, <2>3, <2>4 DEF Typed
<1>4. LogAccounted'
  <2>1. ASSUME NEW t \in Rows
        PROVE  copies'[t] = Cardinality({i \in 1 .. Len(log') : log'[i] = t})
    <3> DEFINE At == {i \in 1 .. Len(log) : log[i] = t}
    <3>1. IsFiniteSet(At)
      <4>1. IsFiniteSet(1 .. Len(log))
        BY <1>1, FS_Interval
      <4>2. At \subseteq 1 .. Len(log)
        OBVIOUS
      <4> QED
        BY <4>1, <4>2, FS_Subset
    <3>2. CASE t = r
      <4>1. {i \in 1 .. Len(log') : log'[i] = t} = At \cup {new} /\ new \notin At
        BY <1>1, <3>2
      <4>2. copies'[t] = copies[t] + 1
        BY <3>2 DEF Typed
      <4> QED
        BY <3>1, <4>1, <4>2, FS_AddElement DEF LogAccounted
    <3>3. CASE t # r
      <4>1. {i \in 1 .. Len(log') : log'[i] = t} = At
        BY <1>1, <3>3
      <4> QED
        BY <3>3, <4>1 DEF Typed, LogAccounted
    <3> QED
      BY <3>2, <3>3
  <2>2. \A i \in 1 .. Len(log') : state'[log'[i]] # "absent"
    BY <1>1 DEF Typed, LogAccounted
  <2>3. \A t \in Rows : state'[t] = "sent" => copies'[t] > 0
    BY DEF Typed, LogAccounted
  <2> QED
    BY <2>1, <2>2, <2>3 DEF LogAccounted
<1>5. WithinLog'
  BY <1>1, <1>2 DEF Typed, WithinLog
<1>6. HandedBeforeWaiting'
  <2> SUFFICES ASSUME NEW c \in Conns
               PROVE  /\ Elements(got[c]) \subseteq 1 .. Len(log')
                      /\ \A i \in Elements(got[c]), j \in Elements(chan'[Home[c]]) : i < j
                      /\ \A i \in Elements(got[c]) : Owner[log'[i]] = Citizen[c]
    BY DEF HandedBeforeWaiting
  <2>1. Elements(got[c]) \subseteq 1 .. Len(log)
    BY DEF HandedBeforeWaiting
  <2>2. Elements(chan'[Home[c]]) \subseteq Elements(chan[Home[c]]) \cup {new}
    BY <1>2 DEF Typed
  <2> QED
    BY <1>1, <2>1, <2>2 DEF HandedBeforeWaiting
<1>7. UnlistedIsLater'
  BY <1>1 DEF Typed, UnlistedIsLater
<1>8. PublishedReachesConnected'
  <2> SUFFICES ASSUME NEW c \in Conns, Attended(c)',
                      NEW i \in joined[c] + 1 .. Len(log'),
                      Owner[log'[i]] = Citizen[c]
               PROVE  i \in Elements(got[c]) \cup Elements(chan'[Home[c]])
                              \cup lost'[Home[c]]
    BY DEF PublishedReachesConnected, Reaches
  <2>1. Attended(c) /\ Home[c] \in Processes
    BY DEF Attended
  <2>2. CASE i = new
    BY <1>2, <2>1, <2>2 DEF Typed, Attended, WithinLog
  <2>3. CASE i # new
    <3>1. i \in joined[c] + 1 .. Len(log) /\ log'[i] = log[i]
      BY <1>1, <2>3 DEF Typed
    <3>2. i \in Elements(got[c]) \cup Elements(chan[Home[c]]) \cup lost[Home[c]]
      BY <2>1, <3>1, Zenon DEF PublishedReachesConnected, Reaches
    <3>3. /\ Elements(chan[Home[c]]) \subseteq Elements(chan'[Home[c]])
          /\ lost[Home[c]] \subseteq lost'[Home[c]]
      BY <1>2, <2>1 DEF Typed
    <3> QED
      BY <3>2, <3>3, Zenon
  <2> QED
    BY <2>2, <2>3
<1> QED
  BY <1>3, <1>4, <1>5, <1>6, <1>7, <1>8

\* A subscription that comes up, or a process that is told to stop, changes
\* neither channels nor connections.
LEMMA SubscribeOrCancelStep ==
  ASSUME IInv, NEW p \in Processes, Subscribe(p) \/ Cancel(p) PROVE IInv'
<1> USE DEF IInv, Subscribe, Cancel, outbox, client
<1>1. Typed'
  BY DEF Typed
<1>2. LogAccounted' /\ HandedBeforeWaiting' /\ UnlistedIsLater'
  <2>1. UNCHANGED <<state, copies, log, chan, conn, joined, got, list>>
    OBVIOUS
  <2> QED
    BY <2>1 DEF LogAccounted, HandedBeforeWaiting, UnlistedIsLater
<1>3. WithinLog'
  BY DEF Typed, WithinLog
<1>4. PublishedReachesConnected'
  BY DeliveryAssumption
     DEF DeliveryAssumption, Typed, PublishedReachesConnected, Attended, Reaches
<1> QED
  BY <1>1, <1>2, <1>3, <1>4

\* What a broken connection takes from the channel is missed.
LEMMA DisconnectStep ==
  ASSUME IInv, NEW p \in Processes, Disconnect(p) PROVE IInv'
<1> USE DEF IInv, Disconnect, outbox, client
<1>1. PICK n \in 0 .. Len(chan[p]) :
        /\ chan' = [chan EXCEPT ![p] = SubSeq(@, 1, n)]
        /\ lost' = [lost EXCEPT ![p] = @ \cup {chan[p][i] : i \in n + 1 .. Len(chan[p])}]
  OBVIOUS
<1> DEFINE cut == {chan[p][i] : i \in n + 1 .. Len(chan[p])}
<1>2. /\ chan'[p] \in Positions /\ Elements(chan[p]) = Elements(chan'[p]) \cup cut
      /\ lost'[p] = lost[p] \cup cut
      /\ \A q \in Processes \ {p} : chan'[q] = chan[q] /\ lost'[q] = lost[q]
  BY <1>1, CutShort DEF Typed
<1>3. cut \subseteq Nat
  <2>1. Elements(chan[p]) \subseteq 1 .. Len(log)
    BY DEF WithinLog
  <2> HIDE DEF cut
  <2> QED
    BY <1>2, <2>1
<1> HIDE DEF cut
<1>4. Typed'
  <2>1. chan' \in [Processes -> Positions]
    BY <1>1, <1>2 DEF Typed
  <2>2. lost' \in [Processes -> SUBSET Nat]
    BY <1>1, <1>2, <1>3 DEF Typed
  <2> QED
    BY <2>1, <2>2 DEF Typed
<1>5. LogAccounted' /\ UnlistedIsLater'
  BY DEF LogAccounted, UnlistedIsLater
<1>6. WithinLog'
  <2> SUFFICES ASSUME NEW q \in Processes
               PROVE  /\ Elements(chan'[q]) \cup lost'[q] \subseteq 1 .. Len(log)
                      /\ sub'[q] = "off" => life[q] # "running"
    BY DEF WithinLog
  <2>1. Elements(chan[q]) \cup lost[q] \subseteq 1 .. Len(log)
    BY DEF WithinLog
  <2>2. Elements(chan'[q]) \cup lost'[q] \subseteq Elements(chan[q]) \cup lost[q]
    BY <1>2
  <2>3. sub'[q] = "off" => life[q] # "running"
    BY DEF Typed, WithinLog
  <2> QED
    BY <2>1, <2>2, <2>3
<1>7. \A q \in Processes : Elements(chan'[q]) \subseteq Elements(chan[q])
                           /\ Elements(chan[q]) \cup lost[q]
                                \subseteq Elements(chan'[q]) \cup lost'[q]
  BY <1>2
<1>8. HandedBeforeWaiting'
  BY <1>7, DeliveryAssumption DEF DeliveryAssumption, HandedBeforeWaiting
<1>9. PublishedReachesConnected'
  BY <1>7, DeliveryAssumption
     DEF DeliveryAssumption, PublishedReachesConnected, Attended, Reaches
<1> QED
  BY <1>4, <1>5, <1>6, <1>8, <1>9

\* The head of the channel goes to the citizen's connections, after what they
\* have and before what still waits.
LEMMA DispatchStep ==
  ASSUME IInv, NEW p \in Processes, DispatchNext(p) PROVE IInv'
<1> USE DeliveryAssumption DEF DeliveryAssumption, IInv, DispatchNext, outbox
<1> DEFINE h == Head(chan[p])
           to == IF life[p] = "closed" THEN {} ELSE Registered(p, log[h])
<1>1. /\ h \in Nat /\ chan'[p] \in Positions
      /\ Elements(chan[p]) = {h} \cup Elements(chan'[p])
      /\ \A i \in Elements(chan'[p]) : h < i
      /\ \A q \in Processes \ {p} : chan'[q] = chan[q]
  BY TakeHead DEF Typed
<1>2. h \in 1 .. Len(log)
  BY <1>1 DEF WithinLog
<1>3. got' = [c \in Conns |-> IF c \in to THEN Append(got[c], h) ELSE got[c]]
  OBVIOUS
<1>4. \A c \in to : /\ c \in Conns /\ conn[c] = "registered"
                    /\ Home[c] = p /\ Citizen[c] = Owner[log[h]]
  BY DEF Registered
<1>5. \A c \in Conns : conn[c] = "registered" /\ Home[c] = p /\ life[p] = "running"
                         /\ Owner[log[h]] = Citizen[c] => c \in to
  BY DEF Registered
<1> HIDE DEF h, to
<1>6. ASSUME NEW c \in Conns
      PROVE  /\ got'[c] \in Positions
             /\ c \in to => Elements(got'[c]) = Elements(got[c]) \cup {h}
             /\ c \notin to => got'[c] = got[c]
  <2>1. CASE c \in to
    <3>1. \A i \in Elements(got[c]) : i < h
      BY <1>1, <1>4, <2>1 DEF HandedBeforeWaiting
    <3>2. got[c] \in Positions
      BY DEF Typed
    <3> QED
      BY <1>1, <1>3, <2>1, <3>1, <3>2, AppendPosition
  <2>2. CASE c \notin to
    BY <1>3, <2>2 DEF Typed
  <2> QED
    BY <2>1, <2>2
<1>7. Typed'
  <2>1. chan' \in [Processes -> Positions]
    BY <1>1 DEF Typed
  <2>2. got' \in [Conns -> Positions]
    BY <1>3, <1>6
  <2> QED
    BY <2>1, <2>2 DEF Typed
<1>8. LogAccounted'
  BY DEF LogAccounted
<1>9. WithinLog'
  <2>1. \A q \in Processes : Elements(chan'[q]) \subseteq Elements(chan[q])
    BY <1>1
  <2> QED
    BY <2>1 DEF WithinLog
<1>10. HandedBeforeWaiting'
  <2> SUFFICES ASSUME NEW c \in Conns
               PROVE  /\ Elements(got'[c]) \subseteq 1 .. Len(log)
                      /\ \A i \in Elements(got'[c]), j \in Elements(chan'[Home[c]]) : i < j
                      /\ \A i \in Elements(got'[c]) : Owner[log[i]] = Citizen[c]
    BY DEF HandedBeforeWaiting
  <2>1. Elements(chan'[Home[c]]) \subseteq Elements(chan[Home[c]])
    BY <1>1
  <2>2. CASE c \in to
    <3>1. Home[c] = p /\ Citizen[c] = Owner[log[h]]
      BY <1>4, <2>2
    <3>2. Elements(got'[c]) = Elements(got[c]) \cup {h}
      BY <1>6, <2>2
    <3>3. /\ Elements(got[c]) \subseteq 1 .. Len(log)
          /\ \A i \in Elements(got[c]), j \in Elements(chan[Home[c]]) : i < j
          /\ \A i \in Elements(got[c]) : Owner[log[i]] = Citizen[c]
      BY DEF HandedBeforeWaiting
    <3> QED
      BY <1>1, <1>2, <2>1, <3>1, <3>2, <3>3
  <2>3. CASE c \notin to
    BY <1>6, <2>1, <2>3 DEF HandedBeforeWaiting
  <2> QED
    BY <2>2, <2>3
<1>11. UnlistedIsLater'
  BY <1>4, <1>6 DEF UnlistedIsLater
<1>12. PublishedReachesConnected'
  <2> SUFFICES ASSUME NEW c \in Conns, Attended(c),
                      NEW i \in joined[c] + 1 .. Len(log), Owner[log[i]] = Citizen[c]
               PROVE  i \in Elements(got'[c]) \cup Elements(chan'[Home[c]]) \cup lost[Home[c]]
    BY DEF PublishedReachesConnected, Attended, Reaches
  <2>1. i \in Elements(got[c]) \cup Elements(chan[Home[c]]) \cup lost[Home[c]]
    BY DEF PublishedReachesConnected, Reaches
  <2>2. Elements(got[c]) \subseteq Elements(got'[c])
    BY <1>6
  <2>3. CASE Home[c] = p /\ i = h
    BY <1>5, <1>6, <2>3 DEF Attended
  <2>4. CASE ~(Home[c] = p /\ i = h)
    BY <1>1, <2>1, <2>2, <2>4
  <2> QED
    BY <2>3, <2>4
<1> QED
  BY <1>7, <1>8, <1>9, <1>10, <1>11, <1>12

\* The Subscriber's return empties the channel of a process that is going
\* down, where no connection is attended.
LEMMA SubscriberReturnsStep ==
  ASSUME IInv, NEW p \in Processes, SubscriberReturns(p) PROVE IInv'
<1> USE DeliveryAssumption DEF DeliveryAssumption, IInv, SubscriberReturns, outbox, client
<1>1. Typed'
  BY EmptyPositions DEF Typed
<1>2. /\ chan'[p] = <<>> /\ Elements(chan'[p]) = {} /\ sub'[p] = "off"
      /\ \A q \in Processes \ {p} : chan'[q] = chan[q] /\ sub'[q] = sub[q]
  BY EmptyPositions DEF Typed
<1>3. LogAccounted' /\ UnlistedIsLater'
  BY DEF LogAccounted, UnlistedIsLater
<1>4. \A q \in Processes : Elements(chan'[q]) \subseteq Elements(chan[q])
  BY <1>2
<1>5. WithinLog'
  BY <1>2, <1>4 DEF WithinLog
<1>6. HandedBeforeWaiting'
  BY <1>4 DEF HandedBeforeWaiting
<1>7. PublishedReachesConnected'
  BY <1>2 DEF PublishedReachesConnected, Attended, Reaches
<1> QED
  BY <1>1, <1>3, <1>5, <1>6, <1>7

\* Connections that end take what they were handed with them; the others are
\* as they were.
LEMMA DropConns ==
  ASSUME IInv, NEW C \in SUBSET Conns, Drop(C), UNCHANGED <<outbox, log, sub, chan, lost>>,
         life' \in [Processes -> {"running", "cancelled", "closed"}],
         \A p \in Processes : life'[p] = "running" => life[p] = "running"
  PROVE  IInv'
<1> USE DeliveryAssumption, EmptyPositions DEF DeliveryAssumption, IInv, Drop, outbox
<1>1. Typed'
  BY DEF Typed
<1>2. LogAccounted' /\ WithinLog'
  BY DEF LogAccounted, WithinLog
<1>3. HandedBeforeWaiting'
  BY DEF HandedBeforeWaiting
<1>4. UnlistedIsLater'
  BY DEF Typed, UnlistedIsLater
<1>5. PublishedReachesConnected'
  BY DEF PublishedReachesConnected, Attended, Reaches
<1> QED
  BY <1>1, <1>2, <1>3, <1>4, <1>5

\* CloseAll drops the registered connections of the process.
LEMMA CloseHubStep ==
  ASSUME IInv, NEW p \in Processes, CloseHub(p) PROVE IInv'
<1>1. life' \in [Processes -> {"running", "cancelled", "closed"}]
      /\ \A q \in Processes : life'[q] = "running" => life[q] = "running"
  BY DEF IInv, Typed, CloseHub
<1> QED
  BY <1>1, DropConns DEF CloseHub

\* A connection ends by itself.
LEMMA LeaveStep ==
  ASSUME IInv, NEW c \in Conns, Leave(c) PROVE IInv'
<1>1. life' = life
  BY DEF Leave, process
<1> QED
  BY <1>1, DropConns DEF IInv, Typed, Leave, process

\* A new process starts with nothing, and without connections.
LEMMA RestartStep ==
  ASSUME IInv, NEW p \in Processes, Restart(p) PROVE IInv'
<1> USE DeliveryAssumption, EmptyPositions
    DEF DeliveryAssumption, IInv, Restart, Drop, outbox
<1>1. Typed'
  BY DEF Typed
<1>2. LogAccounted'
  BY DEF LogAccounted
<1>3. /\ Elements(chan'[p]) = {} /\ lost'[p] = {} /\ sub'[p] = "down"
      /\ \A q \in Processes \ {p} :
           chan'[q] = chan[q] /\ lost'[q] = lost[q] /\ sub'[q] = sub[q] /\ life'[q] = life[q]
  BY DEF Typed
<1>4. WithinLog'
  BY <1>3 DEF WithinLog
<1>5. HandedBeforeWaiting'
  BY <1>3 DEF HandedBeforeWaiting
<1>6. UnlistedIsLater'
  BY DEF Typed, UnlistedIsLater
<1>7. PublishedReachesConnected'
  <2> SUFFICES ASSUME NEW c \in Conns, Attended(c)'
               PROVE  Home[c] # p
    BY <1>3 DEF PublishedReachesConnected, Attended, Reaches
  <2> QED
    BY DEF Attended
<1> QED
  BY <1>1, <1>2, <1>4, <1>5, <1>6, <1>7

\* The upgrade alone hands nothing out.
LEMMA UpgradeStep ==
  ASSUME IInv, NEW c \in Conns, Upgrade(c) PROVE IInv'
<1> USE DEF IInv, Upgrade, outbox, process
<1>1. Typed'
  BY DEF Typed
<1>2. LogAccounted' /\ WithinLog' /\ HandedBeforeWaiting'
  BY DEF LogAccounted, WithinLog, HandedBeforeWaiting
<1>3. UnlistedIsLater'
  BY DEF Typed, UnlistedIsLater
<1>4. PublishedReachesConnected'
  BY DEF Typed, PublishedReachesConnected, Attended, Reaches
<1> QED
  BY <1>1, <1>2, <1>3, <1>4

\* A connection is owed the messages from its registration on.
LEMMA RegisterStep ==
  ASSUME IInv, NEW c \in Conns, Register(c) PROVE IInv'
<1> USE DEF IInv, Register, outbox, process
<1>1. Len(log) \in Nat
  BY DEF Typed
<1>2. Typed'
  BY <1>1 DEF Typed
<1>3. LogAccounted' /\ WithinLog' /\ HandedBeforeWaiting'
  BY DEF LogAccounted, WithinLog, HandedBeforeWaiting
<1>4. UnlistedIsLater'
  <2>1. /\ conn'[c] = "registered" /\ joined'[c] = Len(log) /\ list[c] = {}
        /\ \A d \in Conns \ {c} : conn'[d] = conn[d] /\ joined'[d] = joined[d]
    BY DEF Typed, UnlistedIsLater
  <2> QED
    BY <1>1, <2>1 DEF UnlistedIsLater
<1>5. PublishedReachesConnected'
  <2> SUFFICES ASSUME NEW d \in Conns, Attended(d)',
                      NEW i \in joined'[d] + 1 .. Len(log), Owner[log[i]] = Citizen[d]
               PROVE  i \in Reaches(d) \cup lost[Home[d]]
    BY DEF PublishedReachesConnected, Reaches
  <2>1. d # c
    BY <1>1 DEF Typed
  <2> QED
    BY <2>1 DEF Typed, PublishedReachesConnected, Attended
<1> QED
  BY <1>2, <1>3, <1>4, <1>5

\* What a list does not show was not enqueued, hence not published.
LEMMA ListStep ==
  ASSUME IInv, NEW c \in Conns, List(c) PROVE IInv'
<1> USE DEF IInv, List, outbox, process
<1>1. Typed'
  BY DEF Typed
<1>2. LogAccounted' /\ WithinLog' /\ HandedBeforeWaiting'
  BY DEF LogAccounted, WithinLog, HandedBeforeWaiting
<1>3. UnlistedIsLater'
  <2>1. \A i \in 1 .. Len(log) : log[i] \in Rows /\ state[log[i]] # "absent"
    BY DEF Typed, LogAccounted
  <2>2. \A listed \in list'[c] : \A i \in 1 .. Len(log) :
          Owner[log[i]] = Citizen[c] => log[i] \in listed
    BY <2>1 DEF Typed
  <2>3. \A d \in Conns \ {c} : list'[d] = list[d]
    BY DEF Typed
  <2> QED
    BY <2>2, <2>3 DEF UnlistedIsLater
<1>4. PublishedReachesConnected'
  BY DEF PublishedReachesConnected, Attended, Reaches
<1> QED
  BY <1>1, <1>2, <1>3, <1>4

-----------------------------------------------------------------------------
\* Stuttering included, every step preserves the inductive invariant.
LEMMA NextIInv == IInv /\ [Next]_vars => IInv'
<1> SUFFICES ASSUME IInv, [Next]_vars PROVE IInv'
  OBVIOUS
<1>1. CASE UNCHANGED vars
  BY <1>1 DEF vars, outbox, process, client, IInv, Typed, LogAccounted, WithinLog,
     HandedBeforeWaiting, UnlistedIsLater, PublishedReachesConnected, Attended, Reaches
<1>2. CASE Next
  BY <1>2, EnqueueStep, PublishStep, SettleStep, SubscribeOrCancelStep,
     DisconnectStep, DispatchStep, SubscriberReturnsStep, CloseHubStep, RestartStep,
     UpgradeStep, RegisterStep, LeaveStep, ListStep DEF Next
<1> QED
  BY <1>1, <1>2

\* The inductive invariant holds in every reachable state.
LEMMA IInvHolds == Spec => []IInv
BY InitIInv, NextIInv, PTL DEF Spec

\* Channels, connections and misses only ever hold positions of the log, and
\* the outbox counts the copies Redis has executed.
THEOREM TypeCorrect == Spec => []TypeOK
<1>1. IInv => TypeOK
  <2> SUFFICES ASSUME IInv PROVE TypeOK
    OBVIOUS
  <2>1. DOMAIN log = 1 .. Len(log) /\ Len(log) \in Nat /\ Len(log) <= MaxPublished
    BY DEF IInv, Typed
  <2>2. copies = [r \in Rows |-> Cardinality({i \in DOMAIN log : log[i] = r})]
    BY <2>1 DEF IInv, Typed, LogAccounted
  <2>3. joined \in [Conns -> 0 .. MaxPublished]
    BY <2>1, DeliveryAssumption DEF DeliveryAssumption, IInv, Typed, UnlistedIsLater
  <2>4. /\ \A p \in Processes : Elements(chan[p]) \cup lost[p] \subseteq DOMAIN log
        /\ \A c \in Conns : Elements(got[c]) \subseteq DOMAIN log
    BY <2>1 DEF IInv, WithinLog, HandedBeforeWaiting
  <2> QED
    BY <2>1, <2>2, <2>3, <2>4 DEF IInv, Typed, TypeOK
<1> QED
  BY <1>1, IInvHolds, PTL

\* All connections of a citizen, in all processes, see its messages alone, in
\* the order of Redis and without repeats.
THEOREM OrderEverywhere == Spec => []SameOrderEverywhere
<1>1. IInv => SameOrderEverywhere
  BY DEF IInv, Typed, Positions, Ascending, HandedBeforeWaiting, SameOrderEverywhere
<1> QED
  BY <1>1, IInvHolds, PTL

\* A message published after the registration of a connection reaches it,
\* unless the subscription of its process missed it.
THEOREM ConnectedReached == Spec => []PublishedReachesConnected
<1>1. IInv => PublishedReachesConnected
  BY DEF IInv
<1> QED
  BY <1>1, IInvHolds, PTL

\* A client that lists its notifications after Hub.Register leaves no gap before
\* the stream.
THEOREM ListAndStream == Spec => []ListAndStreamMissNothing
<1>1. ASSUME IInv, NEW c \in Conns, Attended(c), NEW listed \in list[c], NEW r \in Rows,
             Owner[r] = Citizen[c], state[r] = "sent", r \notin listed
      PROVE  \E i \in Reaches(c) \cup lost[Home[c]] : log[i] = r
  <2>1. PICK i \in 1 .. Len(log) : log[i] = r
    <3> DEFINE At == {i \in 1 .. Len(log) : log[i] = r}
    <3>1. Cardinality(At) > 0
      BY <1>1 DEF IInv, LogAccounted
    <3>2. At # {}
      <4> SUFFICES ASSUME At = {} PROVE FALSE
        OBVIOUS
      <4>1. Cardinality(At) = 0
        BY FS_EmptySet
      <4> QED
        BY <3>1, <4>1
    <3> QED
      BY <3>2
  <2>2. joined[c] < i
    BY <1>1, <2>1 DEF IInv, UnlistedIsLater
  <2>3. i \in joined[c] + 1 .. Len(log)
    BY <1>1, <2>1, <2>2 DEF IInv, Typed
  <2> QED
    BY <1>1, <2>1, <2>3 DEF IInv, PublishedReachesConnected
<1>2. IInv => ListAndStreamMissNothing
  BY <1>1 DEF ListAndStreamMissNothing
<1> QED
  BY <1>2, IInvHolds, PTL
=============================================================================

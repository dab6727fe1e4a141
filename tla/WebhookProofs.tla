---------------------------- MODULE WebhookProofs ----------------------------
(***************************************************************************)
(* Proofs about Webhook for any set of deliveries and events, any pool and *)
(* any number of faults.  The properties speak of committed rows; they are *)
(* inductive only together with what open transactions hold: an            *)
(* uncommitted row excludes every other row, committed or not, with its    *)
(* unique key, and a transaction that found a row may rely on it.          *)
(***************************************************************************)
EXTENDS Webhook, FiniteSetTheorems, TLAPS

\* Where a request has no transaction any more.
Over == {"failed", "answered", "dead"}

\* The row a request inserts into notifications.
NotificationRow(q) ==
  [id |-> q, citizen |-> citizenID[q],
   key |-> IdempotencyKey(event[q]), event |-> event[q]]

\* The connections in use are finitely many and within the pool.
PoolRespected == IsFiniteSet(InTx) /\ Cardinality(InTx) <= PoolSize

\* A committed row is what its request, now over, had to insert.
RowsAsInserted ==
  /\ \A c \in citizens :
       c.id \in Requests /\ pc[c.id] \in Over /\ c = CitizenRow(c.id)
  /\ \A n \in notifications :
       n.id \in Requests /\ pc[n.id] \in Over /\ n = NotificationRow(n.id)

\* What a transaction has inserted, by the statement it has reached.
TransactionPhases ==
  \A q \in Requests :
    /\ "citizen" \in tx[q] => pc[q] \in {"select", "notify", "outbox", "commit"}
    /\ "notification" \in tx[q] => pc[q] \in {"outbox", "commit"}
    /\ "outbox" \in tx[q] => pc[q] = "commit"
    /\ pc[q] = "outbox" => "notification" \in tx[q]
    /\ pc[q] = "commit" => ("notification" \in tx[q] <=> "outbox" \in tx[q])

\* An uncommitted row is the only one with its unique key.
UncommittedExclusive ==
  \A q \in Requests :
    /\ "citizen" \in tx[q] =>
         /\ \A p \in Requests : "citizen" \in tx[p] /\ SameCitizen(p, q) => p = q
         /\ \A c \in citizens : c.fingerprint # CitizenFingerprint(event[q])
    /\ "notification" \in tx[q] =>
         /\ \A p \in Requests : "notification" \in tx[p] /\ SameKey(p, q) => p = q
         /\ \A n \in notifications : n.key # IdempotencyKey(event[q])

\* What the transaction found it may rely on: rows are never deleted.
FoundRows(q) ==
  /\ pc[q] \in {"notify", "outbox", "commit"} =>
       [id |-> citizenID[q], fingerprint |-> CitizenFingerprint(event[q])]
         \in citizens \cup NewCitizens(q)
  /\ pc[q] = "commit" /\ "notification" \notin tx[q] =>
       \E n \in notifications : n.key = IdempotencyKey(event[q])

FoundRowsStay == \A q \in Requests : FoundRows(q)

\* With its sender on the line, one fault sends a delivery to the DLQ and it
\* takes another to miss it.
FaultsExplained ==
  \A q \in Requests :
    /\ answer[q] # "none" => pc[q] = "answered"
    /\ live[q] /\ pc[q] = "failed" => faults >= 1
    /\ live[q] /\ answer[q] = "500" => q \in dlq \/ faults >= 2

IInv ==
  /\ TypeOK
  /\ PoolRespected
  /\ RowsAsInserted
  /\ TransactionPhases
  /\ UncommittedExclusive
  /\ FoundRowsStay
  /\ FaultsExplained
  /\ OneNotificationPerKey
  /\ OneCitizenPerFingerprint
  /\ OutboxMatchesNotifications
  /\ AcknowledgedIsStored

-----------------------------------------------------------------------------
\* Giving connections back, or keeping them, respects the pool.
LEMMA PoolKept ==
  ASSUME WebhookAssumption, PoolRespected, InTx' \subseteq InTx
  PROVE  PoolRespected'
<1>1. IsFiniteSet(InTx') /\ Cardinality(InTx') <= Cardinality(InTx)
  BY FS_Subset DEF PoolRespected
<1>2. Cardinality(InTx') \in Nat /\ Cardinality(InTx) \in Nat
  BY <1>1, FS_CardinalityType DEF PoolRespected
<1> QED
  BY <1>1, <1>2 DEF PoolRespected, WebhookAssumption

\* What a request found stays found while it stands still: others only add
\* rows.
LEMMA FoundRowsFrame ==
  ASSUME NEW p \in Requests, FoundRows(p),
         pc'[p] = pc[p], event'[p] = event[p], tx'[p] = tx[p],
         citizenID'[p] = citizenID[p],
         citizens \subseteq citizens', notifications \subseteq notifications'
  PROVE  FoundRows(p)'
<1>1. NewCitizens(p)' = NewCitizens(p)
  BY DEF NewCitizens, CitizenRow, CitizenFingerprint
<1> QED
  BY <1>1 DEF FoundRows, CitizenFingerprint, IdempotencyKey

\* Empty tables and no request: the inductive invariant holds initially.
LEMMA InitIInv == Init => IInv
<1> SUFFICES ASSUME Init PROVE IInv
  OBVIOUS
<1> USE WebhookAssumption DEF WebhookAssumption, Init
<1>1. PoolRespected
  <2>1. InTx = {}
    BY DEF InTx
  <2> QED
    BY <2>1, FS_EmptySet DEF PoolRespected
<1>2. TypeOK
  BY <1>1 DEF TypeOK, PoolRespected, Forms
<1>3. RowsAsInserted /\ TransactionPhases /\ UncommittedExclusive /\ FoundRowsStay
  BY DEF RowsAsInserted, TransactionPhases, UncommittedExclusive, FoundRowsStay,
         FoundRows
<1>4. FaultsExplained /\ AcknowledgedIsStored
  BY DEF FaultsExplained, AcknowledgedIsStored
<1>5. OneNotificationPerKey /\ OneCitizenPerFingerprint /\ OutboxMatchesNotifications
  BY DEF OneNotificationPerKey, OneCitizenPerFingerprint, OutboxMatchesNotifications
<1> QED
  BY <1>1, <1>2, <1>3, <1>4, <1>5 DEF IInv

\* A delivery's event is set while it is new: no committed row and no
\* transaction is its own yet.
LEMMA HandlePOSTStep ==
  ASSUME IInv, NEW q \in Requests, HandlePOST(q) PROVE IInv'
<1> USE WebhookAssumption
    DEF WebhookAssumption, IInv, HandlePOST, Receive, Respond, Goto, tables
<1>1. PoolRespected'
  BY PoolKept DEF TypeOK, InTx
<1>2. TypeOK'
  BY <1>1 DEF TypeOK, PoolRespected, Forms
<1>3. RowsAsInserted'
  BY DEF TypeOK, RowsAsInserted, CitizenRow, NotificationRow, Over,
         CitizenFingerprint, IdempotencyKey
<1>4. TransactionPhases'
  BY DEF TypeOK, TransactionPhases
<1>5. UncommittedExclusive'
  BY DEF TypeOK, TransactionPhases, UncommittedExclusive, SameCitizen, SameKey,
         CitizenFingerprint, IdempotencyKey
<1>6. FoundRowsStay'
  <2> SUFFICES ASSUME NEW p \in Requests PROVE FoundRows(p)'
    BY DEF FoundRowsStay
  <2>1. CASE p = q
    BY <2>1 DEF TypeOK, FoundRows
  <2>2. CASE p # q
    BY <2>2, FoundRowsFrame DEF TypeOK, FoundRowsStay
  <2> QED
    BY <2>1, <2>2
<1>7. FaultsExplained' /\ AcknowledgedIsStored'
  BY DEF TypeOK, FaultsExplained, AcknowledgedIsStored, IdempotencyKey
<1>8. OneNotificationPerKey' /\ OneCitizenPerFingerprint' /\ OutboxMatchesNotifications'
  BY DEF OneNotificationPerKey, OneCitizenPerFingerprint, OutboxMatchesNotifications
<1> QED
  BY <1>1, <1>2, <1>3, <1>4, <1>5, <1>6, <1>7, <1>8

\* Begin takes a connection only when one is free.
LEMMA BeginStep ==
  ASSUME IInv, NEW q \in Requests, Begin(q) PROVE IInv'
<1> USE WebhookAssumption DEF WebhookAssumption, IInv, Begin, Goto, request, tables
<1>1. PoolRespected'
  <2>1. InTx' = InTx \cup {q} /\ q \notin InTx
    BY DEF TypeOK, InTx
  <2>2. IsFiniteSet(InTx') /\ Cardinality(InTx') = Cardinality(InTx) + 1
    BY <2>1, FS_AddElement DEF PoolRespected
  <2>3. Cardinality(InTx) \in Nat
    BY FS_CardinalityType DEF PoolRespected
  <2> QED
    BY <2>2, <2>3 DEF PoolRespected, ConnFree
<1>2. TypeOK'
  BY <1>1 DEF TypeOK, PoolRespected
<1>3. RowsAsInserted'
  BY DEF TypeOK, RowsAsInserted, CitizenRow, NotificationRow, Over,
         CitizenFingerprint, IdempotencyKey
<1>4. TransactionPhases'
  BY DEF TypeOK, TransactionPhases
<1>5. UncommittedExclusive'
  BY DEF UncommittedExclusive, SameCitizen, SameKey,
         CitizenFingerprint, IdempotencyKey
<1>6. FoundRowsStay'
  BY FoundRowsFrame DEF TypeOK, FoundRowsStay, FoundRows
<1>7. FaultsExplained' /\ AcknowledgedIsStored'
  BY DEF TypeOK, FaultsExplained, AcknowledgedIsStored, IdempotencyKey
<1>8. OneNotificationPerKey' /\ OneCitizenPerFingerprint' /\ OutboxMatchesNotifications'
  BY DEF OneNotificationPerKey, OneCitizenPerFingerprint, OutboxMatchesNotifications
<1> QED
  BY <1>1, <1>2, <1>3, <1>4, <1>5, <1>6, <1>7, <1>8

\* INSERT INTO citizens: no transaction holds the fingerprint, so either a
\* committed row has it or the new row is the only one.
LEMMA InsertCitizenStep ==
  ASSUME IInv, NEW q \in Requests, InsertCitizen(q) PROVE IInv'
<1> USE DEF IInv, InsertCitizen, Goto, request, tables
<1>1. PoolRespected'
  BY WebhookAssumption, PoolKept DEF TypeOK, InTx
<1>2. TypeOK'
  BY <1>1 DEF TypeOK, PoolRespected
<1>3. RowsAsInserted'
  BY DEF TypeOK, RowsAsInserted, CitizenRow, NotificationRow, Over,
         CitizenFingerprint, IdempotencyKey
<1>4. TransactionPhases'
  BY DEF TypeOK, TransactionPhases
<1>5. UncommittedExclusive'
  BY DEF TypeOK, TransactionPhases, UncommittedExclusive, SameCitizen, SameKey,
         CitizenFingerprint, IdempotencyKey
<1>6. FoundRowsStay'
  <2> SUFFICES ASSUME NEW p \in Requests PROVE FoundRows(p)'
    BY DEF FoundRowsStay
  <2>1. CASE p = q
    BY <2>1 DEF TypeOK, FoundRows
  <2>2. CASE p # q
    BY <2>2, FoundRowsFrame DEF TypeOK, FoundRowsStay
  <2> QED
    BY <2>1, <2>2
<1>7. FaultsExplained' /\ AcknowledgedIsStored'
  BY DEF TypeOK, FaultsExplained, AcknowledgedIsStored, IdempotencyKey
<1>8. OneNotificationPerKey' /\ OneCitizenPerFingerprint' /\ OutboxMatchesNotifications'
  BY DEF OneNotificationPerKey, OneCitizenPerFingerprint, OutboxMatchesNotifications
<1> QED
  BY <1>1, <1>2, <1>3, <1>4, <1>5, <1>6, <1>7, <1>8

\* The SELECT returns the row of the event's fingerprint.
LEMMA SelectCitizenStep ==
  ASSUME IInv, NEW q \in Requests, SelectCitizen(q) PROVE IInv'
<1> USE DEF IInv, SelectCitizen, Goto, request, tables
<1>0. PICK c \in citizens \cup NewCitizens(q) :
        /\ c.fingerprint = CitizenFingerprint(event[q])
        /\ citizenID' = [citizenID EXCEPT ![q] = c.id]
  OBVIOUS
<1>c. c \in [id : Requests, fingerprint : {CitizenFingerprint(event[q])}]
  BY <1>0 DEF RowsAsInserted, CitizenRow, NewCitizens
<1>1. PoolRespected'
  BY WebhookAssumption, PoolKept DEF TypeOK, InTx
<1>2. TypeOK'
  BY <1>0, <1>c, <1>1 DEF TypeOK, PoolRespected
<1>3. RowsAsInserted'
  BY <1>0 DEF TypeOK, RowsAsInserted, CitizenRow, NotificationRow, Over,
         CitizenFingerprint, IdempotencyKey
<1>4. TransactionPhases'
  BY DEF TypeOK, TransactionPhases
<1>5. UncommittedExclusive'
  BY DEF TypeOK, TransactionPhases, UncommittedExclusive, SameCitizen, SameKey,
         CitizenFingerprint, IdempotencyKey
<1>6. FoundRowsStay'
  <2> SUFFICES ASSUME NEW p \in Requests PROVE FoundRows(p)'
    BY DEF FoundRowsStay
  <2>1. CASE p = q
    BY <2>1, <1>0, <1>c DEF TypeOK, FoundRows, NewCitizens, CitizenRow, CitizenFingerprint
  <2>2. CASE p # q
    BY <2>2, <1>0, FoundRowsFrame DEF TypeOK, FoundRowsStay
  <2> QED
    BY <2>1, <2>2
<1>7. FaultsExplained' /\ AcknowledgedIsStored'
  BY DEF TypeOK, FaultsExplained, AcknowledgedIsStored, IdempotencyKey
<1>8. OneNotificationPerKey' /\ OneCitizenPerFingerprint' /\ OutboxMatchesNotifications'
  BY DEF OneNotificationPerKey, OneCitizenPerFingerprint, OutboxMatchesNotifications
<1> QED
  BY <1>1, <1>2, <1>3, <1>4, <1>5, <1>6, <1>7, <1>8

\* INSERT INTO notifications: the same for the idempotency key; a duplicate
\* relies on the committed row it met.
LEMMA InsertNotificationStep ==
  ASSUME IInv, NEW q \in Requests, InsertNotification(q) PROVE IInv'
<1> USE DEF IInv, InsertNotification, Goto, request, tables
<1>1. PoolRespected'
  BY WebhookAssumption, PoolKept DEF TypeOK, InTx
<1>2. TypeOK'
  BY <1>1 DEF TypeOK, PoolRespected
<1>3. RowsAsInserted'
  BY DEF TypeOK, RowsAsInserted, CitizenRow, NotificationRow, Over,
         CitizenFingerprint, IdempotencyKey
<1>4. TransactionPhases'
  BY DEF TypeOK, TransactionPhases
<1>5. UncommittedExclusive'
  BY DEF TypeOK, TransactionPhases, UncommittedExclusive, SameCitizen, SameKey,
         CitizenFingerprint, IdempotencyKey
<1>6. FoundRowsStay'
  <2> SUFFICES ASSUME NEW p \in Requests PROVE FoundRows(p)'
    BY DEF FoundRowsStay
  <2>1. CASE p = q
    <3>1. NewCitizens(q)' = NewCitizens(q)
      BY DEF TypeOK, NewCitizens, CitizenRow, CitizenFingerprint
    <3> QED
      BY <2>1, <3>1 DEF TypeOK, FoundRowsStay, FoundRows, CitizenFingerprint,
         IdempotencyKey
  <2>2. CASE p # q
    BY <2>2, FoundRowsFrame DEF TypeOK, FoundRowsStay
  <2> QED
    BY <2>1, <2>2
<1>7. FaultsExplained' /\ AcknowledgedIsStored'
  BY DEF TypeOK, FaultsExplained, AcknowledgedIsStored, IdempotencyKey
<1>8. OneNotificationPerKey' /\ OneCitizenPerFingerprint' /\ OutboxMatchesNotifications'
  BY DEF OneNotificationPerKey, OneCitizenPerFingerprint, OutboxMatchesNotifications
<1> QED
  BY <1>1, <1>2, <1>3, <1>4, <1>5, <1>6, <1>7, <1>8

\* The outbox row joins its notification in the transaction.
LEMMA InsertOutboxStep ==
  ASSUME IInv, NEW q \in Requests, InsertOutbox(q) PROVE IInv'
<1> USE DEF IInv, InsertOutbox, Goto, request, tables
<1>1. PoolRespected'
  BY WebhookAssumption, PoolKept DEF TypeOK, InTx
<1>2. TypeOK'
  BY <1>1 DEF TypeOK, PoolRespected
<1>3. RowsAsInserted'
  BY DEF TypeOK, RowsAsInserted, CitizenRow, NotificationRow, Over,
         CitizenFingerprint, IdempotencyKey
<1>4. TransactionPhases'
  BY DEF TypeOK, TransactionPhases
<1>5. UncommittedExclusive'
  BY DEF TypeOK, TransactionPhases, UncommittedExclusive, SameCitizen, SameKey,
         CitizenFingerprint, IdempotencyKey
<1>6. FoundRowsStay'
  <2> SUFFICES ASSUME NEW p \in Requests PROVE FoundRows(p)'
    BY DEF FoundRowsStay
  <2>1. CASE p = q
    BY <2>1 DEF TypeOK, TransactionPhases, FoundRowsStay, FoundRows,
       NewCitizens, CitizenRow, CitizenFingerprint, IdempotencyKey
  <2>2. CASE p # q
    BY <2>2, FoundRowsFrame DEF TypeOK, FoundRowsStay
  <2> QED
    BY <2>1, <2>2
<1>7. FaultsExplained' /\ AcknowledgedIsStored'
  BY DEF TypeOK, FaultsExplained, AcknowledgedIsStored, IdempotencyKey
<1>8. OneNotificationPerKey' /\ OneCitizenPerFingerprint' /\ OutboxMatchesNotifications'
  BY DEF OneNotificationPerKey, OneCitizenPerFingerprint, OutboxMatchesNotifications
<1> QED
  BY <1>1, <1>2, <1>3, <1>4, <1>5, <1>6, <1>7, <1>8

\* A transaction that commits, whether or not its request hears of it: its
\* rows were the only ones with their keys, and the notification comes with
\* its outbox row.
LEMMA ApplyTables ==
  ASSUME IInv, NEW q \in Requests, Apply(q), pc[q] = "commit",
         NEW label \in Over, pc' = [pc EXCEPT ![q] = label],
         UNCHANGED <<event, citizenID>>
  PROVE  /\ RowsAsInserted' /\ TransactionPhases' /\ UncommittedExclusive'
         /\ FoundRowsStay' /\ OneNotificationPerKey' /\ OneCitizenPerFingerprint'
         /\ OutboxMatchesNotifications'
<1> USE DEF IInv, Apply, CitizenFingerprint, IdempotencyKey
<1>1. RowsAsInserted'
  BY DEF TypeOK, RowsAsInserted, CitizenRow, NotificationRow, NewCitizens, Over
<1>2. TransactionPhases'
  BY DEF TypeOK, TransactionPhases, Over
<1>3. UncommittedExclusive'
  BY DEF TypeOK, UncommittedExclusive, SameCitizen, SameKey, NewCitizens, CitizenRow
<1>4. FoundRowsStay'
  <2> SUFFICES ASSUME NEW p \in Requests PROVE FoundRows(p)'
    BY DEF FoundRowsStay
  <2>1. CASE p = q
    BY <2>1 DEF TypeOK, FoundRows, Over
  <2>2. CASE p # q
    BY <2>2, FoundRowsFrame DEF TypeOK, FoundRowsStay
  <2> QED
    BY <2>1, <2>2
<1>5. OneNotificationPerKey'
  BY DEF OneNotificationPerKey, UncommittedExclusive
<1>6. OneCitizenPerFingerprint'
  <2>1. \A b, c \in citizens' : b.fingerprint = c.fingerprint => b = c
    BY DEF OneCitizenPerFingerprint, UncommittedExclusive, NewCitizens, CitizenRow
  <2>2. ASSUME NEW n \in notifications'
        PROVE  [id |-> n.citizen, fingerprint |-> n.event.cpf] \in citizens'
    <3>1. CASE n \in notifications
      BY <3>1 DEF OneCitizenPerFingerprint
    <3>2. CASE n \notin notifications
      <4>1. n = NotificationRow(q)
        BY <2>2, <3>2 DEF NotificationRow
      <4>2. [id |-> citizenID[q], fingerprint |-> event[q].cpf] \in citizens'
        BY DEF FoundRowsStay, FoundRows
      <4> QED
        BY <4>1, <4>2 DEF NotificationRow
    <3> QED
      BY <3>1, <3>2
  <2> QED
    BY <2>1, <2>2 DEF OneCitizenPerFingerprint
<1>7. OutboxMatchesNotifications'
  <2>1. CASE "notification" \in tx[q]
    <3>1. outbox' = outbox \cup {[notification |-> q, citizen |-> citizenID[q]]}
      BY <2>1 DEF TransactionPhases
    <3>2. notifications' = notifications \cup {NotificationRow(q)}
      BY <2>1 DEF NotificationRow
    <3> DEFINE Entry(n) == [notification |-> n.id, citizen |-> n.citizen]
    <3>3. Entry(NotificationRow(q)) = [notification |-> q, citizen |-> citizenID[q]]
      BY DEF NotificationRow
    <3>4. outbox = {Entry(n) : n \in notifications}
      BY DEF OutboxMatchesNotifications
    <3>5. outbox' = {Entry(n) : n \in notifications'}
      <4> HIDE DEF Entry
      <4> QED
        BY <3>1, <3>2, <3>3, <3>4
    <3> QED
      BY <3>5 DEF OutboxMatchesNotifications
  <2>2. CASE "notification" \notin tx[q]
    <3>1. outbox' = outbox /\ notifications' = notifications
      BY <2>2 DEF TransactionPhases
    <3> QED
      BY <3>1 DEF OutboxMatchesNotifications
  <2> QED
    BY <2>1, <2>2
<1> QED
  BY <1>1, <1>2, <1>3, <1>4, <1>5, <1>6, <1>7

\* The committing request is answered ok for its own row, duplicate for the
\* one it met.
LEMMA CommitStep ==
  ASSUME IInv, NEW q \in Requests, Commit(q) PROVE IInv'
<1> USE DEF IInv, Commit, Respond, Goto, request
<1>1. PoolRespected'
  BY WebhookAssumption, PoolKept DEF TypeOK, InTx
<1>2. TypeOK'
  <2>1. /\ \A c \in citizens' : c.id \in Requests
        /\ \A n \in notifications' : n.id \in Requests /\ n.event \in Events
        /\ \A o \in outbox' : o.notification \in Requests
    BY DEF TypeOK, Apply, NewCitizens, CitizenRow
  <2> QED
    BY <1>1, <2>1 DEF TypeOK, PoolRespected, Apply
<1>3. /\ RowsAsInserted' /\ TransactionPhases' /\ UncommittedExclusive'
      /\ FoundRowsStay' /\ OneNotificationPerKey' /\ OneCitizenPerFingerprint'
      /\ OutboxMatchesNotifications'
  BY ApplyTables DEF Over, request
<1>4. AcknowledgedIsStored'
  <2> SUFFICES ASSUME NEW p \in Requests
               PROVE /\ answer'[p] = "ok" => \E n \in notifications' : n.id = p
                     /\ answer'[p] = "duplicate" =>
                          \E n \in notifications' :
                            n.id # p /\ n.key = IdempotencyKey(event[p])
    BY DEF AcknowledgedIsStored, IdempotencyKey
  <2>1. CASE p = q
    <3>1. \A n \in notifications : n.id # q
      BY DEF RowsAsInserted, Over
    <3>2. CASE "notification" \in tx[q]
      <4>1. answer'[q] = "ok" /\ NotificationRow(q) \in notifications'
        BY <3>2 DEF TypeOK, Apply, NotificationRow
      <4> QED
        BY <2>1, <4>1 DEF NotificationRow
    <3>3. CASE "notification" \notin tx[q]
      <4>1. answer'[q] = "duplicate" /\ notifications \subseteq notifications'
        BY <3>3 DEF TypeOK, Apply
      <4>2. PICK n \in notifications : n.key = IdempotencyKey(event[q])
        BY <3>3 DEF FoundRowsStay, FoundRows
      <4> QED
        BY <2>1, <3>1, <4>1, <4>2
    <3> QED
      BY <3>2, <3>3
  <2>2. CASE p # q
    BY <2>2 DEF TypeOK, Apply, AcknowledgedIsStored
  <2> QED
    BY <2>1, <2>2
<1>5. FaultsExplained'
  BY DEF TypeOK, FaultsExplained
<1> QED
  BY <1>1, <1>2, <1>3, <1>4, <1>5

\* A commit whose answer is lost stores the same rows and counts as a fault.
LEMMA CommitUnacknowledgedStep ==
  ASSUME IInv, NEW q \in Requests, CommitUnacknowledged(q) PROVE IInv'
<1> USE DEF IInv, CommitUnacknowledged, Goto, request
<1>1. PoolRespected'
  BY WebhookAssumption, PoolKept DEF TypeOK, InTx
<1>2. TypeOK'
  <2>1. /\ \A c \in citizens' : c.id \in Requests
        /\ \A n \in notifications' : n.id \in Requests /\ n.event \in Events
        /\ \A o \in outbox' : o.notification \in Requests
    BY DEF TypeOK, Apply, NewCitizens, CitizenRow
  <2> QED
    BY <1>1, <2>1, WebhookAssumption
       DEF TypeOK, PoolRespected, Apply, Fault, WebhookAssumption
<1>3. /\ RowsAsInserted' /\ TransactionPhases' /\ UncommittedExclusive'
      /\ FoundRowsStay' /\ OneNotificationPerKey' /\ OneCitizenPerFingerprint'
      /\ OutboxMatchesNotifications'
  BY ApplyTables DEF Over, request
<1>4. AcknowledgedIsStored'
  BY DEF Apply, AcknowledgedIsStored, IdempotencyKey
<1>5. FaultsExplained'
  BY DEF TypeOK, FaultsExplained, Fault
<1> QED
  BY <1>1, <1>2, <1>3, <1>4, <1>5

\* A rollback gives up the rows of the transaction and nothing else.
LEMMA FailStep ==
  ASSUME IInv, NEW q \in Requests, Fail(q) PROVE IInv'
<1> USE DEF IInv, Fail, Goto, request, tables
<1>1. PoolRespected'
  BY WebhookAssumption, PoolKept DEF TypeOK, InTx
<1>2. TypeOK'
  BY <1>1, WebhookAssumption
     DEF TypeOK, PoolRespected, Fault, WebhookAssumption
<1>3. RowsAsInserted'
  BY DEF TypeOK, RowsAsInserted, CitizenRow, NotificationRow, Over,
         CitizenFingerprint, IdempotencyKey
<1>4. TransactionPhases'
  BY DEF TypeOK, TransactionPhases
<1>5. UncommittedExclusive'
  BY DEF TypeOK, TransactionPhases, UncommittedExclusive, SameCitizen, SameKey,
         CitizenFingerprint, IdempotencyKey
<1>6. FoundRowsStay'
  <2> SUFFICES ASSUME NEW p \in Requests PROVE FoundRows(p)'
    BY DEF FoundRowsStay
  <2>1. CASE p = q
    BY <2>1 DEF TypeOK, FoundRows
  <2>2. CASE p # q
    BY <2>2, FoundRowsFrame DEF TypeOK, FoundRowsStay
  <2> QED
    BY <2>1, <2>2
<1>7. FaultsExplained' /\ AcknowledgedIsStored'
  BY DEF TypeOK, FaultsExplained, AcknowledgedIsStored, IdempotencyKey,
         Fault
<1>8. OneNotificationPerKey' /\ OneCitizenPerFingerprint' /\ OutboxMatchesNotifications'
  BY DEF OneNotificationPerKey, OneCitizenPerFingerprint, OutboxMatchesNotifications
<1> QED
  BY <1>1, <1>2, <1>3, <1>4, <1>5, <1>6, <1>7, <1>8

\* So does the death of the server process.
LEMMA DieStep ==
  ASSUME IInv, NEW q \in Requests, Die(q) PROVE IInv'
<1> USE DEF IInv, Die, Goto, request, tables
<1>1. PoolRespected'
  BY WebhookAssumption, PoolKept DEF TypeOK, InTx
<1>2. TypeOK'
  BY <1>1, WebhookAssumption DEF TypeOK, PoolRespected, WebhookAssumption
<1>3. RowsAsInserted'
  BY DEF TypeOK, RowsAsInserted, CitizenRow, NotificationRow, Over,
         CitizenFingerprint, IdempotencyKey
<1>4. TransactionPhases'
  BY DEF TypeOK, TransactionPhases
<1>5. UncommittedExclusive'
  BY DEF TypeOK, TransactionPhases, UncommittedExclusive, SameCitizen, SameKey,
         CitizenFingerprint, IdempotencyKey
<1>6. FoundRowsStay'
  <2> SUFFICES ASSUME NEW p \in Requests PROVE FoundRows(p)'
    BY DEF FoundRowsStay
  <2>1. CASE p = q
    BY <2>1 DEF TypeOK, FoundRows
  <2>2. CASE p # q
    BY <2>2, FoundRowsFrame DEF TypeOK, FoundRowsStay
  <2> QED
    BY <2>1, <2>2
<1>7. FaultsExplained' /\ AcknowledgedIsStored'
  BY DEF TypeOK, FaultsExplained, AcknowledgedIsStored, IdempotencyKey
<1>8. OneNotificationPerKey' /\ OneCitizenPerFingerprint' /\ OutboxMatchesNotifications'
  BY DEF OneNotificationPerKey, OneCitizenPerFingerprint, OutboxMatchesNotifications
<1> QED
  BY <1>1, <1>2, <1>3, <1>4, <1>5, <1>6, <1>7, <1>8

\* The DLQ row explains the 500.
LEMMA InsertWebhookDLQStep ==
  ASSUME IInv, NEW q \in Requests, InsertWebhookDLQ(q) PROVE IInv'
<1> USE DEF IInv, InsertWebhookDLQ, Respond, Goto, request, tables
<1>1. PoolRespected'
  BY WebhookAssumption, PoolKept DEF TypeOK, InTx
<1>2. TypeOK'
  BY <1>1 DEF TypeOK, PoolRespected
<1>3. RowsAsInserted'
  BY DEF TypeOK, RowsAsInserted, CitizenRow, NotificationRow, Over,
         CitizenFingerprint, IdempotencyKey
<1>4. TransactionPhases'
  BY DEF TypeOK, TransactionPhases
<1>5. UncommittedExclusive'
  BY DEF TypeOK, TransactionPhases, UncommittedExclusive, SameCitizen, SameKey,
         CitizenFingerprint, IdempotencyKey
<1>6. FoundRowsStay'
  <2> SUFFICES ASSUME NEW p \in Requests PROVE FoundRows(p)'
    BY DEF FoundRowsStay
  <2>1. CASE p = q
    BY <2>1 DEF TypeOK, FoundRows
  <2>2. CASE p # q
    BY <2>2, FoundRowsFrame DEF TypeOK, FoundRowsStay
  <2> QED
    BY <2>1, <2>2
<1>7. FaultsExplained' /\ AcknowledgedIsStored'
  BY DEF TypeOK, FaultsExplained, AcknowledgedIsStored, IdempotencyKey
<1>8. OneNotificationPerKey' /\ OneCitizenPerFingerprint' /\ OutboxMatchesNotifications'
  BY DEF OneNotificationPerKey, OneCitizenPerFingerprint, OutboxMatchesNotifications
<1> QED
  BY <1>1, <1>2, <1>3, <1>4, <1>5, <1>6, <1>7, <1>8

\* A DLQ row that fails is the second fault of a sender still on the line.
LEMMA InsertWebhookDLQFailsStep ==
  ASSUME IInv, NEW q \in Requests, InsertWebhookDLQFails(q) PROVE IInv'
<1> USE DEF IInv, InsertWebhookDLQFails, Respond, Goto, request, tables
<1>1. PoolRespected'
  BY WebhookAssumption, PoolKept DEF TypeOK, InTx
<1>2. TypeOK'
  BY <1>1, WebhookAssumption
     DEF TypeOK, PoolRespected, Fault, WebhookAssumption
<1>3. RowsAsInserted'
  BY DEF TypeOK, RowsAsInserted, CitizenRow, NotificationRow, Over,
         CitizenFingerprint, IdempotencyKey
<1>4. TransactionPhases'
  BY DEF TypeOK, TransactionPhases
<1>5. UncommittedExclusive'
  BY DEF TypeOK, TransactionPhases, UncommittedExclusive, SameCitizen, SameKey,
         CitizenFingerprint, IdempotencyKey
<1>6. FoundRowsStay'
  <2> SUFFICES ASSUME NEW p \in Requests PROVE FoundRows(p)'
    BY DEF FoundRowsStay
  <2>1. CASE p = q
    BY <2>1 DEF TypeOK, FoundRows
  <2>2. CASE p # q
    BY <2>2, FoundRowsFrame DEF TypeOK, FoundRowsStay
  <2> QED
    BY <2>1, <2>2
<1>7. FaultsExplained' /\ AcknowledgedIsStored'
  BY DEF TypeOK, FaultsExplained, AcknowledgedIsStored, IdempotencyKey,
         Fault
<1>8. OneNotificationPerKey' /\ OneCitizenPerFingerprint' /\ OutboxMatchesNotifications'
  BY DEF OneNotificationPerKey, OneCitizenPerFingerprint, OutboxMatchesNotifications
<1> QED
  BY <1>1, <1>2, <1>3, <1>4, <1>5, <1>6, <1>7, <1>8

\* A cancelled context changes no row.
LEMMA HangUpStep ==
  ASSUME IInv, NEW q \in Requests, HangUp(q) PROVE IInv'
<1> USE DEF IInv, HangUp, request, tables
<1>1. PoolRespected'
  BY WebhookAssumption, PoolKept DEF TypeOK, InTx
<1>2. TypeOK'
  BY <1>1 DEF TypeOK, PoolRespected
<1>3. RowsAsInserted'
  BY DEF TypeOK, RowsAsInserted, CitizenRow, NotificationRow, Over,
         CitizenFingerprint, IdempotencyKey
<1>4. TransactionPhases'
  BY DEF TypeOK, TransactionPhases
<1>5. UncommittedExclusive'
  BY DEF TypeOK, TransactionPhases, UncommittedExclusive, SameCitizen, SameKey,
         CitizenFingerprint, IdempotencyKey
<1>6. FoundRowsStay'
  BY FoundRowsFrame DEF TypeOK, FoundRowsStay
<1>7. FaultsExplained' /\ AcknowledgedIsStored'
  BY DEF TypeOK, FaultsExplained, AcknowledgedIsStored, IdempotencyKey
<1>8. OneNotificationPerKey' /\ OneCitizenPerFingerprint' /\ OutboxMatchesNotifications'
  BY DEF OneNotificationPerKey, OneCitizenPerFingerprint, OutboxMatchesNotifications
<1> QED
  BY <1>1, <1>2, <1>3, <1>4, <1>5, <1>6, <1>7, <1>8

\* Stuttering included, every step preserves the inductive invariant.
LEMMA NextIInv == IInv /\ [Next]_vars => IInv'
<1> SUFFICES ASSUME IInv, [Next]_vars PROVE IInv'
  OBVIOUS
<1>1. CASE UNCHANGED vars
  <2> USE <1>1 DEF IInv, vars, request, tables
  <2>1. InTx' = InTx
    BY DEF InTx
  <2>2. TypeOK' /\ PoolRespected'
    BY <2>1 DEF TypeOK, PoolRespected
  <2>3. RowsAsInserted'
    BY DEF RowsAsInserted, CitizenRow, NotificationRow, CitizenFingerprint, IdempotencyKey
  <2>4. TransactionPhases' /\ FaultsExplained' /\ AcknowledgedIsStored'
    BY DEF TransactionPhases, FaultsExplained, AcknowledgedIsStored, IdempotencyKey
  <2>5. UncommittedExclusive'
    BY DEF UncommittedExclusive, SameCitizen, SameKey, CitizenFingerprint, IdempotencyKey
  <2>6. FoundRowsStay'
    BY FoundRowsFrame DEF FoundRowsStay
  <2>7. OneNotificationPerKey' /\ OneCitizenPerFingerprint' /\ OutboxMatchesNotifications'
    BY DEF OneNotificationPerKey, OneCitizenPerFingerprint, OutboxMatchesNotifications
  <2> QED
    BY <2>2, <2>3, <2>4, <2>5, <2>6, <2>7
<1>2. CASE Next
  <2>1. PICK q \in Requests :
          \/ HandlePOST(q) \/ Progress(q)
          \/ CommitUnacknowledged(q) \/ Fail(q) \/ InsertWebhookDLQFails(q)
          \/ HangUp(q) \/ Die(q)
    BY <1>2 DEF Next
  <2>2. CASE Progress(q)
    BY <2>2, BeginStep, InsertCitizenStep, SelectCitizenStep,
       InsertNotificationStep, InsertOutboxStep, CommitStep,
       InsertWebhookDLQStep, FailStep, InsertWebhookDLQFailsStep
       DEF Progress
  <2> QED
    BY <2>1, <2>2, HandlePOSTStep, CommitUnacknowledgedStep, FailStep,
       InsertWebhookDLQFailsStep, HangUpStep, DieStep
<1> QED
  BY <1>1, <1>2

\* The inductive invariant holds in every reachable state.
LEMMA IInvHolds == Spec => []IInv
BY InitIInv, NextIInv, PTL DEF Spec

\* The request's state keeps its shape, and persist never holds more
\* connections than the pool has.
THEOREM TypeCorrect == Spec => []TypeOK
<1>1. IInv => TypeOK
  BY DEF IInv
<1> QED
  BY <1>1, IInvHolds, PTL

\* However many deliveries of a key run at once, fail, or are cut off,
\* notifications holds one row for it.
THEOREM Idempotent == Spec => []OneNotificationPerKey
<1>1. IInv => OneNotificationPerKey
  BY DEF IInv
<1> QED
  BY <1>1, IInvHolds, PTL

\* Concurrent first events of a citizen share one citizens row, the one their
\* notifications point to.
THEOREM CitizensUnique == Spec => []OneCitizenPerFingerprint
<1>1. IInv => OneCitizenPerFingerprint
  BY DEF IInv
<1> QED
  BY <1>1, IInvHolds, PTL

\* The transaction keeps notifications and outbox in step.
THEOREM OutboxInStep == Spec => []OutboxMatchesNotifications
<1>1. IInv => OutboxMatchesNotifications
  BY DEF IInv
<1> QED
  BY <1>1, IInvHolds, PTL

\* A 200 of the webhook is backed by a committed row.
THEOREM AcknowledgedStored == Spec => []AcknowledgedIsStored
<1>1. IInv => AcknowledgedIsStored
  BY DEF IInv
<1> QED
  BY <1>1, IInvHolds, PTL

\* One database error costs no delivery: answered 500 to a sender on the line,
\* it is in the DLQ.
THEOREM FailedKept == Spec => []FailedIsKept
<1>1. IInv => FailedIsKept
  BY DEF IInv, TypeOK, FaultsExplained, FailedIsKept
<1> QED
  BY <1>1, IInvHolds, PTL
==============================================================================

------------------------------- MODULE Webhook -------------------------------
(***************************************************************************)
(* POST /webhook (internal/webhook/service.go): the checks a delivery goes *)
(* through, and the transaction of concurrent deliveries (repo/webhook.go, *)
(* repo/outbox.go) over the tables of migrations 000001, 000003 and 000004.*)
(*                                                                         *)
(* PostgreSQL at READ COMMITTED: a statement sees what committed before it *)
(* and its own transaction's rows; an INSERT that meets an uncommitted row *)
(* with the same unique key waits for that transaction to end.  A row's id *)
(* is the request that inserted it.                                        *)
(***************************************************************************)
EXTENDS Naturals, FiniteSets

CONSTANTS
  Requests,   \* deliveries, re-deliveries included
  Events,     \* records: about (the fields of the key), cpf, text (the rest)
  PoolSize,   \* pgxpool MaxConns
  MaxFaults   \* bound: database errors and process deaths

ASSUME WebhookAssumption ==
  /\ Events # {}
  /\ \A e \in Events : DOMAIN e = {"about", "cpf", "text"}
  /\ PoolSize \in Nat \ {0}
  /\ MaxFaults \in Nat

\* What may be wrong with a delivery, in the order HandlePOST looks: its size,
\* the connection, the signature (missing or wrong), the JSON, the fields.
Forms == {"too_large", "unreadable", "unsigned", "malformed", "invalid", "valid"}

VARIABLES
  \* Each request.
  pc,             \* where HandlePOST is
  event,          \* event[q]: the payload, once it is decoded
  form,           \* form[q]: what is wrong with it
  live,           \* live[q]: the request's context is not cancelled
  answer,         \* answer[q]: the response, none before (or without) one
  tx,             \* tx[q]: tables with an uncommitted row of q
  citizenID,      \* citizenID[q]: what EnsureCitizenID returned
  \* The committed tables.
  citizens,       \* rows [id, fingerprint]
  notifications,  \* rows [id, citizen, key, event]
  outbox,         \* rows [notification, citizen]
  dlq,            \* requests recorded in webhook_dlq
  faults          \* faults so far

request == <<event, form>>
tables == <<citizens, notifications, outbox>>
vars == <<pc, request, live, answer, tx, citizenID, tables, dlq, faults>>

-----------------------------------------------------------------------------
\* The key is a digest of chamado_id, status_novo, timestamp and tipo.
IdempotencyKey(e) == e.about

\* HMAC of the CPF: one per citizen.
CitizenFingerprint(e) == e.cpf

InTx == {q \in Requests : pc[q] \in {"citizen", "select", "notify", "outbox", "commit"}}

\* A pool connection is free; a transaction keeps its own to the end.
ConnFree == Cardinality(InTx) < PoolSize

Init ==
  /\ pc = [q \in Requests |-> "new"]
  /\ event = [q \in Requests |-> CHOOSE e \in Events : TRUE]
  /\ form = [q \in Requests |-> "valid"]
  /\ live = [q \in Requests |-> TRUE]
  /\ answer = [q \in Requests |-> "none"]
  /\ tx = [q \in Requests |-> {}]
  /\ citizenID = [q \in Requests |-> q]
  /\ citizens = {}
  /\ notifications = {}
  /\ outbox = {}
  /\ dlq = {}
  /\ faults = 0

Goto(q, label) == pc' = [pc EXCEPT ![q] = label]

Respond(q, code) ==
  /\ answer' = [answer EXCEPT ![q] = code]
  /\ Goto(q, "answered")

\* A delivery arrives: its event counts once it is decoded and validated.
Receive(q, e, f) ==
  /\ pc[q] = "new"
  /\ form' = [form EXCEPT ![q] = f]
  /\ event' = [event EXCEPT ![q] = IF f = "valid" THEN e ELSE @]

\* HandlePOST up to persist.
HandlePOST(q) ==
  /\ \E e \in Events, f \in Forms :
       /\ Receive(q, e, f)
       /\ \/ f = "too_large" /\ Respond(q, "413")
          \/ f = "unsigned" /\ Respond(q, "401")
          \/ f \in {"unreadable", "malformed", "invalid"} /\ Respond(q, "400")
          \/ f = "valid" /\ Goto(q, "begin") /\ UNCHANGED answer
  /\ UNCHANGED <<live, tx, citizenID, tables, dlq, faults>>

-----------------------------------------------------------------------------
\* persist waits for a connection and opens its transaction.
Begin(q) ==
  /\ pc[q] = "begin" /\ live[q] /\ ConnFree
  /\ Goto(q, "citizen")
  /\ UNCHANGED <<request, live, answer, tx, citizenID, tables, dlq, faults>>

SameCitizen(p, q) == CitizenFingerprint(event[p]) = CitizenFingerprint(event[q])
SameKey(p, q) == IdempotencyKey(event[p]) = IdempotencyKey(event[q])

\* Mutant: citizens.fingerprint is not UNIQUE, only looked up first.
InsertCitizenUnguarded(q) ==
  /\ pc[q] = "citizen" /\ live[q]
  /\ tx' = IF \E c \in citizens : c.fingerprint = CitizenFingerprint(event[q])
           THEN tx ELSE [tx EXCEPT ![q] = @ \cup {"citizen"}]
  /\ Goto(q, "select")
  /\ UNCHANGED <<request, live, answer, citizenID, tables, dlq, faults>>

\* EnsureCitizenID: INSERT ... ON CONFLICT (fingerprint) DO NOTHING.
InsertCitizen(q) ==
  /\ pc[q] = "citizen" /\ live[q]
  /\ \A p \in Requests \ {q} : ~("citizen" \in tx[p] /\ SameCitizen(p, q))
  /\ tx' = IF \E c \in citizens : c.fingerprint = CitizenFingerprint(event[q])
           THEN tx ELSE [tx EXCEPT ![q] = @ \cup {"citizen"}]
  /\ Goto(q, "select")
  /\ UNCHANGED <<request, live, answer, citizenID, tables, dlq, faults>>

CitizenRow(q) == [id |-> q, fingerprint |-> CitizenFingerprint(event[q])]

\* What q's transaction adds to citizens.
NewCitizens(q) == IF "citizen" \in tx[q] THEN {CitizenRow(q)} ELSE {}

\* EnsureCitizenID: SELECT id ... WHERE fingerprint.
SelectCitizen(q) ==
  /\ pc[q] = "select" /\ live[q]
  /\ \E c \in citizens \cup NewCitizens(q) :
       /\ c.fingerprint = CitizenFingerprint(event[q])
       /\ citizenID' = [citizenID EXCEPT ![q] = c.id]
  /\ Goto(q, "notify")
  /\ UNCHANGED <<request, live, answer, tx, tables, dlq, faults>>

\* Mutant: an uncommitted row with the key already counts as a duplicate.
InsertNotificationHasty(q) ==
  /\ pc[q] = "notify" /\ live[q]
  /\ IF \/ \E n \in notifications : n.key = IdempotencyKey(event[q])
        \/ \E p \in Requests \ {q} : "notification" \in tx[p] /\ SameKey(p, q)
     THEN Goto(q, "commit") /\ UNCHANGED tx
     ELSE Goto(q, "outbox") /\ tx' = [tx EXCEPT ![q] = @ \cup {"notification"}]
  /\ UNCHANGED <<request, live, answer, citizenID, tables, dlq, faults>>

\* Mutant: the key is looked up, not UNIQUE.
InsertNotificationUnguarded(q) ==
  /\ pc[q] = "notify" /\ live[q]
  /\ IF \E n \in notifications : n.key = IdempotencyKey(event[q])
     THEN Goto(q, "commit") /\ UNCHANGED tx
     ELSE Goto(q, "outbox") /\ tx' = [tx EXCEPT ![q] = @ \cup {"notification"}]
  /\ UNCHANGED <<request, live, answer, citizenID, tables, dlq, faults>>

\* InsertNotificationIdempotent: ON CONFLICT (idempotency_key) DO NOTHING; no
\* row returned means a duplicate.
InsertNotification(q) ==
  /\ pc[q] = "notify" /\ live[q]
  /\ \A p \in Requests \ {q} : ~("notification" \in tx[p] /\ SameKey(p, q))
  /\ IF \E n \in notifications : n.key = IdempotencyKey(event[q])
     THEN Goto(q, "commit") /\ UNCHANGED tx
     ELSE Goto(q, "outbox") /\ tx' = [tx EXCEPT ![q] = @ \cup {"notification"}]
  /\ UNCHANGED <<request, live, answer, citizenID, tables, dlq, faults>>

\* Mutant: a failure to enqueue is ignored.
InsertOutboxOptional(q) ==
  /\ pc[q] = "outbox" /\ live[q]
  /\ tx' \in {tx, [tx EXCEPT ![q] = @ \cup {"outbox"}]}
  /\ Goto(q, "commit")
  /\ UNCHANGED <<request, live, answer, citizenID, tables, dlq, faults>>

InsertOutbox(q) ==
  /\ pc[q] = "outbox" /\ live[q]
  /\ tx' = [tx EXCEPT ![q] = @ \cup {"outbox"}]
  /\ Goto(q, "commit")
  /\ UNCHANGED <<request, live, answer, citizenID, tables, dlq, faults>>

\* The rows of q's transaction become visible.
Apply(q) ==
  /\ citizens' = citizens \cup NewCitizens(q)
  /\ notifications' = notifications \cup
       (IF "notification" \in tx[q]
        THEN {[id |-> q, citizen |-> citizenID[q],
               key |-> IdempotencyKey(event[q]), event |-> event[q]]}
        ELSE {})
  /\ outbox' = outbox \cup
       (IF "outbox" \in tx[q]
        THEN {[notification |-> q, citizen |-> citizenID[q]]} ELSE {})
  /\ tx' = [tx EXCEPT ![q] = {}]

\* COMMIT, acknowledged; HandlePOST answers 200.
Commit(q) ==
  /\ pc[q] = "commit" /\ live[q]
  /\ Apply(q)
  /\ Respond(q, IF "notification" \in tx[q] THEN "ok" ELSE "duplicate")
  /\ UNCHANGED <<request, live, citizenID, dlq, faults>>

\* A database error, or a statement that finds its context cancelled.
Fault(q) ==
  \/ live[q] /\ faults < MaxFaults /\ faults' = faults + 1
  \/ ~live[q] /\ UNCHANGED faults

\* COMMIT takes effect but its answer is lost: persist reports an error.
CommitUnacknowledged(q) ==
  /\ pc[q] = "commit"
  /\ Fault(q)
  /\ Apply(q)
  /\ Goto(q, "failed")
  /\ UNCHANGED <<request, live, answer, citizenID, dlq>>

\* Mutant: the transaction of a failed delivery is not rolled back.
FailKeepingRows(q) ==
  /\ pc[q] \in {"begin"} \cup {"citizen", "select", "notify", "outbox", "commit"}
  /\ Fault(q)
  /\ Goto(q, "failed")
  /\ UNCHANGED <<request, live, answer, tx, citizenID, tables, dlq>>

\* Begin or a statement fails; the deferred Rollback gives up the rows and the
\* connection before HandlePOST goes on.
Fail(q) ==
  /\ pc[q] \in {"begin"} \cup {"citizen", "select", "notify", "outbox", "commit"}
  /\ Fault(q)
  /\ tx' = [tx EXCEPT ![q] = {}]
  /\ Goto(q, "failed")
  /\ UNCHANGED <<request, live, answer, citizenID, tables, dlq>>

\* Mutant: the DLQ row is given up while other deliveries use the pool.
InsertWebhookDLQYielding(q) ==
  /\ pc[q] = "failed" /\ live[q] /\ ConnFree
  /\ dlq' = IF InTx = {} THEN dlq \cup {q} ELSE dlq
  /\ Respond(q, "500")
  /\ UNCHANGED <<request, live, tx, citizenID, tables, faults>>

\* InsertWebhookDLQ on a connection of the pool, then 500.
InsertWebhookDLQ(q) ==
  /\ pc[q] = "failed" /\ live[q] /\ ConnFree
  /\ dlq' = dlq \cup {q}
  /\ Respond(q, "500")
  /\ UNCHANGED <<request, live, tx, citizenID, tables, faults>>

\* InsertWebhookDLQ reports an error, which is logged, then 500; the row may
\* be there all the same.
InsertWebhookDLQFails(q) ==
  /\ pc[q] = "failed"
  /\ Fault(q)
  /\ dlq' \in {dlq, dlq \cup {q}}
  /\ Respond(q, "500")
  /\ UNCHANGED <<request, live, tx, citizenID, tables>>

\* The sender hangs up, which cancels the request's context.
HangUp(q) ==
  /\ pc[q] \notin {"new", "answered", "dead"}
  /\ live[q]
  /\ live' = [live EXCEPT ![q] = FALSE]
  /\ UNCHANGED <<pc, request, answer, tx, citizenID, tables, dlq, faults>>

\* The server process dies under the request: PostgreSQL rolls back.
Die(q) ==
  /\ pc[q] \notin {"new", "answered", "dead"}
  /\ faults < MaxFaults
  /\ faults' = faults + 1
  /\ tx' = [tx EXCEPT ![q] = {}]
  /\ Goto(q, "dead")
  /\ UNCHANGED <<request, live, answer, citizenID, tables, dlq>>

-----------------------------------------------------------------------------
\* The steps HandlePOST takes by itself.
Progress(q) ==
  \/ Begin(q)
  \/ InsertCitizen(q) \/ SelectCitizen(q) \/ InsertNotification(q)
  \/ InsertOutbox(q) \/ Commit(q)
  \/ InsertWebhookDLQ(q)
  \/ ~live[q] /\ (Fail(q) \/ InsertWebhookDLQFails(q))

Next ==
  \E q \in Requests :
    \/ HandlePOST(q) \/ Progress(q)
    \/ CommitUnacknowledged(q) \/ Fail(q) \/ InsertWebhookDLQFails(q)
    \/ HangUp(q) \/ Die(q)

Spec == Init /\ [][Next]_vars

\* A statement that can run completes; strong, because the pool serves those
\* who wait for a connection, and PostgreSQL those who wait for a row, in turn.
Fairness == \A q \in Requests : SF_vars(Progress(q))

FairSpec == Spec /\ Fairness

-----------------------------------------------------------------------------
\* Type invariant; never more transactions than connections.
TypeOK ==
  /\ pc \in [Requests -> {"new", "begin", "citizen", "select", "notify",
                          "outbox", "commit", "failed", "answered", "dead"}]
  /\ event \in [Requests -> Events]
  /\ form \in [Requests -> Forms]
  /\ live \in [Requests -> BOOLEAN]
  /\ answer \in [Requests -> {"none", "ok", "duplicate", "400", "401", "413", "500"}]
  /\ tx \in [Requests -> SUBSET {"citizen", "notification", "outbox"}]
  /\ citizenID \in [Requests -> Requests]
  /\ \A c \in citizens : c.id \in Requests
  /\ \A n \in notifications : n.id \in Requests /\ n.event \in Events
  /\ \A o \in outbox : o.notification \in Requests
  /\ dlq \subseteq Requests
  /\ faults \in 0 .. MaxFaults
  /\ Cardinality(InTx) <= PoolSize

\* Deliveries of one key, however they interleave or fail, leave one
\* notification: ON CONFLICT waits for the transaction that inserted the key.
OneNotificationPerKey ==
  \A m, n \in notifications : m.key = n.key => m = n

\* Concurrent first events of one citizen create one citizens row, and each
\* notification belongs to the row of its own event's citizen.
OneCitizenPerFingerprint ==
  /\ \A b, c \in citizens : b.fingerprint = c.fingerprint => b = c
  /\ \A n \in notifications :
       [id |-> n.citizen, fingerprint |-> CitizenFingerprint(n.event)] \in citizens

\* Notifications and outbox rows appear together, for the same citizen: no
\* notification goes unpublished and nothing is published that is not stored.
OutboxMatchesNotifications ==
  outbox = {[notification |-> n.id, citizen |-> n.citizen] : n \in notifications}

\* A sender that hears 200 may forget the event: a notification with its key
\* is committed, and it is this delivery's own unless the answer says
\* duplicate.
AcknowledgedIsStored ==
  \A q \in Requests :
    /\ answer[q] = "ok" => \E n \in notifications : n.id = q
    /\ answer[q] = "duplicate" =>
         \E n \in notifications : n.id # q /\ n.key = IdempotencyKey(event[q])

\* Every delivery is answered, unless its process dies: no transaction waits
\* for ever for another's rows, nor for a connection of the pool.
EveryDeliveryAnswered ==
  \A q \in Requests :
    pc[q] = "begin" ~> pc[q] \in {"answered", "dead"}

\* repo/webhook.go: "inserted is false when ON CONFLICT matched (same event
\* re-delivered)": an event answered as duplicate is stored.
DuplicateMeansSameEvent ==
  \A q \in Requests :
    answer[q] = "duplicate" => \E n \in notifications : n.event = event[q]

\* A delivery that the database fails once is not lost: answered 500, its body
\* is in the DLQ, as long as its sender stays on the line.
FailedIsKept ==
  \A q \in Requests : answer[q] = "500" /\ live[q] /\ faults < 2 => q \in dlq
=============================================================================

------------------------------- MODULE Outbox -------------------------------
(***************************************************************************)
(* The transactional outbox: the event_outbox table (migration 000003,     *)
(* internal/repo/outbox.go) and the workers that drain it to Redis         *)
(* (internal/notify/worker.go), one worker per server process.             *)
(*                                                                         *)
(* A worker's batch is one PostgreSQL transaction.  It locks the rows it   *)
(* selects (FOR UPDATE SKIP LOCKED), publishes each of them to Redis, which*)
(* no rollback undoes, and writes the outcomes, which nobody sees before   *)
(* COMMIT.  Device pushes follow after COMMIT, outside the transaction.    *)
(***************************************************************************)
EXTENDS Integers, FiniteSets

CONSTANTS
  Rows,          \* outbox rows, numbered in (created_at, id) order
  Workers,       \* server processes, each running one Worker
  BatchSize,     \* Worker.BatchSize as configured
  MaxAttempts,   \* Worker.MaxAttempts as configured
  RedisTries,    \* commands go-redis writes for one Publish (MaxRetries + 1)
  MaxRollbacks   \* bound: transactions that end without COMMIT

ASSUME OutboxAssumption ==
  /\ Rows \subseteq Nat
  /\ BatchSize \in Int
  /\ MaxAttempts \in Int
  /\ RedisTries \in Nat \ {0}
  /\ MaxRollbacks \in Nat

VARIABLES
  \* The committed event_outbox table.
  status,      \* status[r]: absent until inserted, then the status column
  attempts,    \* attempts[r]: the attempts column
  due,         \* due[r]: next_attempt_at <= now()
  \* Each worker's processBatch.
  pc,          \* pc[w]: idle, tx (transaction open) or push (committed)
  todo,        \* todo[w]: selected rows not yet published
  seen,        \* seen[w][r]: OutboxRow.Attempts as the SELECT returned it
  sentTx,      \* sentTx[w]: rows MarkOutboxSent wrote, uncommitted
  retryTx,     \* retryTx[w]: rows MarkOutboxPublishFailed left pending
  deadTx,      \* deadTx[w]: rows MarkOutboxPublishFailed marked dead
  jobs,        \* jobs[w]: pushJobs not yet sent
  \* Effects outside the database, and the fault count (history variables).
  pubs,        \* pubs[r]: PUBLISH commands of row r that Redis carries out
  pushed,      \* pushed[r]: times r's push job was carried out
  rollbacks    \* transactions that ended without COMMIT

table == <<status, attempts, due>>
batch == <<todo, seen, sentTx, retryTx, deadTx>>
vars == <<table, pc, batch, jobs, pubs, pushed, rollbacks>>

-----------------------------------------------------------------------------
\* Run's defaults for a Worker built without configuration.
EffectiveBatch == IF BatchSize < 1 THEN 1 ELSE BatchSize
EffectiveMax == IF MaxAttempts < 1 THEN 5 ELSE MaxAttempts

Init ==
  /\ status = [r \in Rows |-> "absent"]
  /\ attempts = [r \in Rows |-> 0]
  /\ due = [r \in Rows |-> TRUE]
  /\ pc = [w \in Workers |-> "idle"]
  /\ todo = [w \in Workers |-> {}]
  /\ seen = [w \in Workers |-> [r \in Rows |-> 0]]
  /\ sentTx = [w \in Workers |-> {}]
  /\ retryTx = [w \in Workers |-> {}]
  /\ deadTx = [w \in Workers |-> {}]
  /\ jobs = [w \in Workers |-> {}]
  /\ pubs = [r \in Rows |-> 0]
  /\ pushed = [r \in Rows |-> 0]
  /\ rollbacks = 0

\* The webhook's commit makes row r visible with the column defaults.  Rows
\* appear in any order: created_at is when their transaction began.
InsertOutbox(r) ==
  /\ status[r] = "absent"
  /\ status' = [status EXCEPT ![r] = "pending"]
  /\ UNCHANGED <<attempts, due, pc, batch, jobs, pubs, pushed, rollbacks>>

\* next_attempt_at passes.  The worker's clock sets it and the database's
\* clock compares it, so no delay between the two may be assumed.
BackoffElapses(r) ==
  /\ ~due[r]
  /\ due' = [due EXCEPT ![r] = TRUE]
  /\ UNCHANGED <<status, attempts, pc, batch, jobs, pubs, pushed, rollbacks>>

-----------------------------------------------------------------------------
\* Row locks: what w's open transaction selected, hence holds FOR UPDATE.
Held(w) == todo[w] \cup sentTx[w] \cup retryTx[w] \cup deadTx[w]

Locked(r) == \E w \in Workers : r \in Held(w)

\* Mutant: the SELECT takes no row locks.
EligibleUnlocked == {r \in Rows : status[r] = "pending" /\ due[r]}

\* The WHERE clause together with SKIP LOCKED.
Eligible == {r \in Rows : status[r] = "pending" /\ due[r] /\ ~Locked(r)}

\* ORDER BY created_at, id LIMIT batch: the oldest eligible rows.
SelectPendingOutboxForUpdate ==
  {B \in SUBSET Eligible :
     /\ Cardinality(B) <= EffectiveBatch
     /\ Cardinality(B) < EffectiveBatch => B = Eligible
     /\ \A r \in B, s \in Eligible \ B : r < s}

\* A tick that finds no row commits an empty transaction and changes nothing.
BeginBatch(w) ==
  /\ pc[w] = "idle"
  /\ \E B \in SelectPendingOutboxForUpdate :
       /\ B # {}
       /\ todo' = [todo EXCEPT ![w] = B]
  /\ seen' = [seen EXCEPT ![w] = attempts]
  /\ pc' = [pc EXCEPT ![w] = "tx"]
  /\ UNCHANGED <<table, sentTx, retryTx, deadTx, jobs, pubs, pushed, rollbacks>>

\* Mutant: `>' where the code has `>='.
MarkOutboxPublishFailedLate(w, r) ==
  /\ IF seen[w][r] + 1 > EffectiveMax
     THEN /\ deadTx' = [deadTx EXCEPT ![w] = @ \cup {r}]
          /\ UNCHANGED retryTx
     ELSE /\ retryTx' = [retryTx EXCEPT ![w] = @ \cup {r}]
          /\ UNCHANGED deadTx
  /\ UNCHANGED sentTx

\* A row whose PUBLISH failed, in the transaction: dead once the attempt that
\* just failed is the last one allowed, judged on the value SELECT returned.
MarkOutboxPublishFailed(w, r) ==
  /\ IF seen[w][r] + 1 >= EffectiveMax
     THEN /\ deadTx' = [deadTx EXCEPT ![w] = @ \cup {r}]
          /\ UNCHANGED retryTx
     ELSE /\ retryTx' = [retryTx EXCEPT ![w] = @ \cup {r}]
          /\ UNCHANGED deadTx
  /\ UNCHANGED sentTx

MarkOutboxSent(w, r) ==
  /\ sentTx' = [sentTx EXCEPT ![w] = @ \cup {r}]
  /\ UNCHANGED <<retryTx, deadTx>>

\* w.Redis.Publish for row r, of which Redis carries out `copies' commands:
\* go-redis retries one whose answer is lost, and an error at the end does
\* not mean that nobody received the message.
Publish(r, copies) == pubs' = [pubs EXCEPT ![r] = @ + copies]

\* Mutant: processBatch ignores pubErr.
PublishRowIgnoringError(w) ==
  /\ pc[w] = "tx"
  /\ \E r \in todo[w], copies \in 0 .. RedisTries :
       /\ \A s \in todo[w] : r <= s
       /\ todo' = [todo EXCEPT ![w] = @ \ {r}]
       /\ Publish(r, copies)
       /\ MarkOutboxSent(w, r)
  /\ UNCHANGED <<table, pc, seen, jobs, pushed, rollbacks>>

\* Mutant: the device push leaves inside the loop, before COMMIT.
PublishRowPushingEarly(w) ==
  /\ pc[w] = "tx"
  /\ \E r \in todo[w] :
       /\ \A s \in todo[w] : r <= s
       /\ todo' = [todo EXCEPT ![w] = @ \ {r}]
       /\ Publish(r, 1)
       /\ MarkOutboxSent(w, r)
       /\ pushed' = [pushed EXCEPT ![r] = @ + 1]
  /\ UNCHANGED <<table, pc, seen, jobs, rollbacks>>

\* One turn of processBatch's loop, on the oldest row left.
PublishRow(w) ==
  /\ pc[w] = "tx"
  /\ \E r \in todo[w], copies \in 0 .. RedisTries :
       /\ \A s \in todo[w] : r <= s
       /\ todo' = [todo EXCEPT ![w] = @ \ {r}]
       /\ Publish(r, copies)
       /\ \/ copies > 0 /\ MarkOutboxSent(w, r)
          \/ MarkOutboxPublishFailed(w, r)
  /\ UNCHANGED <<table, pc, seen, jobs, pushed, rollbacks>>

\* The transaction and processBatch's locals are gone, whichever way it ended.
EndTx(w) ==
  /\ todo' = [todo EXCEPT ![w] = {}]
  /\ sentTx' = [sentTx EXCEPT ![w] = {}]
  /\ retryTx' = [retryTx EXCEPT ![w] = {}]
  /\ deadTx' = [deadTx EXCEPT ![w] = {}]
  /\ seen' = [seen EXCEPT ![w] = [r \in Rows |-> 0]]

\* COMMIT takes effect; a dead row keeps its next_attempt_at.  When the reply
\* is lost, processBatch returns the error and the push jobs are forgotten
\* although the rows are sent.
Commit(w) ==
  /\ pc[w] = "tx"
  /\ todo[w] = {}
  /\ status' = [r \in Rows |-> IF r \in sentTx[w] THEN "sent"
                               ELSE IF r \in deadTx[w] THEN "dead"
                               ELSE status[r]]
  /\ attempts' = [r \in Rows |-> IF r \in retryTx[w] \cup deadTx[w]
                                 THEN attempts[r] + 1 ELSE attempts[r]]
  /\ due' = [r \in Rows |-> due[r] /\ r \notin retryTx[w]]
  /\ \/ /\ jobs' = [jobs EXCEPT ![w] = sentTx[w]]
        /\ pc' = [pc EXCEPT ![w] = "push"]
     \/ /\ UNCHANGED jobs
        /\ pc' = [pc EXCEPT ![w] = "idle"]
  /\ EndTx(w)
  /\ UNCHANGED <<pubs, pushed, rollbacks>>

\* Mutant: the deferred tx.Rollback is missing, so the row locks stay.
RollbackForgotten(w) ==
  /\ pc[w] = "tx"
  /\ rollbacks < MaxRollbacks
  /\ rollbacks' = rollbacks + 1
  /\ pc' = [pc EXCEPT ![w] = "idle"]
  /\ UNCHANGED <<table, batch, jobs, pubs, pushed>>

\* The transaction ends without COMMIT: an UPDATE or COMMIT fails, ctx is
\* cancelled at shutdown, or the process dies.  What was published stays so.
Rollback(w) ==
  /\ pc[w] = "tx"
  /\ rollbacks < MaxRollbacks
  /\ rollbacks' = rollbacks + 1
  /\ pc' = [pc EXCEPT ![w] = "idle"]
  /\ EndTx(w)
  /\ UNCHANGED <<table, jobs, pubs, pushed>>

\* sendPushNotifications for one job; any error on the way is only logged.
SendPushNotifications(w) ==
  /\ pc[w] = "push"
  /\ \E r \in jobs[w] :
       /\ \A s \in jobs[w] : r <= s
       /\ jobs' = [jobs EXCEPT ![w] = @ \ {r}]
       /\ \/ pushed' = [pushed EXCEPT ![r] = @ + 1]
          \/ UNCHANGED pushed
  /\ UNCHANGED <<table, pc, batch, pubs, rollbacks>>

EndBatch(w) ==
  /\ pc[w] = "push"
  /\ jobs[w] = {}
  /\ pc' = [pc EXCEPT ![w] = "idle"]
  /\ UNCHANGED <<table, batch, jobs, pubs, pushed, rollbacks>>

\* The process stops between COMMIT and its pushes: nothing recorded them.
StopBeforePush(w) ==
  /\ pc[w] = "push"
  /\ jobs[w] # {}
  /\ jobs' = [jobs EXCEPT ![w] = {}]
  /\ pc' = [pc EXCEPT ![w] = "idle"]
  /\ UNCHANGED <<table, batch, pubs, pushed, rollbacks>>

-----------------------------------------------------------------------------
WorkerStep(w) ==
  \/ BeginBatch(w)
  \/ PublishRow(w)
  \/ Commit(w)
  \/ SendPushNotifications(w)
  \/ EndBatch(w)

Next ==
  \/ \E r \in Rows : InsertOutbox(r) \/ BackoffElapses(r)
  \/ \E w \in Workers : WorkerStep(w) \/ Rollback(w) \/ StopBeforePush(w)

Spec == Init /\ [][Next]_vars

\* The ticker keeps polling, processBatch never waits for another worker, and
\* clocks advance.  No fairness on the webhook or on any failure.
Fairness ==
  /\ \A w \in Workers : WF_vars(WorkerStep(w))
  /\ \A r \in Rows : WF_vars(BackoffElapses(r))

FairSpec == Spec /\ Fairness

-----------------------------------------------------------------------------
\* Type invariant: no row is tried more often than Worker.MaxAttempts allows.
TypeOK ==
  /\ status \in [Rows -> {"absent", "pending", "sent", "dead"}]
  /\ attempts \in [Rows -> 0 .. EffectiveMax]
  /\ due \in [Rows -> BOOLEAN]
  /\ pc \in [Workers -> {"idle", "tx", "push"}]
  /\ todo \in [Workers -> SUBSET Rows]
  /\ seen \in [Workers -> [Rows -> 0 .. EffectiveMax]]
  /\ sentTx \in [Workers -> SUBSET Rows]
  /\ retryTx \in [Workers -> SUBSET Rows]
  /\ deadTx \in [Workers -> SUBSET Rows]
  /\ jobs \in [Workers -> SUBSET Rows]
  /\ pubs \in [Rows -> Nat]
  /\ pushed \in [Rows -> Nat]
  /\ rollbacks \in 0 .. MaxRollbacks

\* A row the table shows as sent did go out to Redis: processBatch's UPDATE
\* to sent follows a PUBLISH that Redis answered, whatever failed meanwhile.
SentWasPublished == \A r \in Rows : status[r] = "sent" => pubs[r] > 0

\* A row is dead exactly when its attempts column reached the limit, although
\* the worker decides on the value it read (row.Attempts) and the UPDATE
\* increments the stored one (attempts + 1).
DeadExactlyAtLimit ==
  \A r \in Rows : status[r] = "dead" <=> attempts[r] = EffectiveMax

\* At least once does not mean without limit: beyond one Publish call per
\* counted attempt, only transactions that ended without COMMIT and the final
\* success repeat a message, however many workers poll the table.
CopiesBounded ==
  \A r \in Rows : pubs[r] <= RedisTries * (attempts[r] + rollbacks + 1)

\* Unlike the Redis message, the device push of a row is carried out at most
\* once and only when the row is durably sent: it leaves after COMMIT.
PushAtMostOnce ==
  \A r \in Rows : pushed[r] > 0 => pushed[r] = 1 /\ status[r] = "sent"

Contract == INSTANCE OutboxContract
              WITH state <- status, copies <- pubs, PerAttempt <- RedisTries

\* The workers together keep the outbox's promise (OutboxContract).
ImplementsContract == Contract!Spec

\* Every row the webhook commits is sent or declared dead in the end.
EveryRowSettles ==
  \A r \in Rows : status[r] = "pending" ~> status[r] \in {"sent", "dead"}
=============================================================================

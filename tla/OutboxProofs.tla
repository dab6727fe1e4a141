---------------------------- MODULE OutboxProofs ----------------------------
(***************************************************************************)
(* Proofs about Outbox for any set of rows and workers, any batch size and *)
(* any limits.  None of the properties is inductive by itself: what they   *)
(* rest on is that a row lock keeps the row as the SELECT returned it, so  *)
(* that decisions taken on the worker's copy agree with the stored row at  *)
(* COMMIT.                                                                 *)
(***************************************************************************)
EXTENDS Outbox, TLAPS

\* Rows whose outcome w's open transaction has written.
Marked(w) == sentTx[w] \cup retryTx[w] \cup deadTx[w]

\* Only an open transaction holds locks, only a committed batch has jobs.
Phases ==
  \A w \in Workers :
    /\ pc[w] # "tx" => Held(w) = {}
    /\ pc[w] # "push" => jobs[w] = {}

\* A row is in one list of one worker.
LocksExclusive ==
  /\ \A w, v \in Workers : \A r \in Rows :
       r \in Held(w) /\ r \in Held(v) => w = v
  /\ \A w \in Workers : \A r \in Rows :
       /\ r \in todo[w] => r \notin Marked(w)
       /\ r \in sentTx[w] => r \notin retryTx[w] \cup deadTx[w]
       /\ r \in retryTx[w] => r \notin deadTx[w]

\* What the SELECT returned is still true, and the marks were decided on it.
LockedRowsFresh ==
  \A w \in Workers : \A r \in Rows :
    /\ r \in Held(w) => status[r] = "pending" /\ seen[w][r] = attempts[r]
    /\ r \in deadTx[w] => attempts[r] + 1 = EffectiveMax
    /\ r \in retryTx[w] => attempts[r] + 1 < EffectiveMax
    /\ r \in sentTx[w] => pubs[r] > 0

\* Publish calls for r that the attempts column does not count yet.
Uncounted(r) ==
  IF status[r] = "sent" \/ \E w \in Workers : r \in Marked(w) THEN 1 ELSE 0

CopiesAccounted ==
  \A r \in Rows :
    pubs[r] <= RedisTries * (attempts[r] + rollbacks + Uncounted(r))

\* A push job exists once, for a sent row that was not pushed yet.
JobsExclusive ==
  /\ \A w, v \in Workers : \A r \in Rows :
       r \in jobs[w] /\ r \in jobs[v] => w = v
  /\ \A w \in Workers : \A r \in Rows :
       r \in jobs[w] => status[r] = "sent" /\ pushed[r] = 0

IInv ==
  /\ TypeOK
  /\ Phases
  /\ LocksExclusive
  /\ LockedRowsFresh
  /\ SentWasPublished
  /\ DeadExactlyAtLimit
  /\ CopiesAccounted
  /\ JobsExclusive
  /\ PushAtMostOnce

-----------------------------------------------------------------------------
\* Run's default keeps the attempt limit positive.
LEMMA EffectiveMaxPositive == EffectiveMax \in Nat \ {0}
BY OutboxAssumption DEF OutboxAssumption, EffectiveMax

\* The empty table with idle workers satisfies the inductive invariant.
LEMMA InitIInv == Init => IInv
<1> SUFFICES ASSUME Init PROVE IInv
  OBVIOUS
<1> USE OutboxAssumption, EffectiveMaxPositive DEF OutboxAssumption, Init
<1>1. TypeOK
  BY DEF TypeOK
<1>2. Phases /\ LocksExclusive /\ LockedRowsFresh /\ JobsExclusive
  BY DEF Phases, LocksExclusive, LockedRowsFresh, JobsExclusive, Held, Marked
<1>3. SentWasPublished /\ DeadExactlyAtLimit /\ PushAtMostOnce
  BY DEF SentWasPublished, DeadExactlyAtLimit, PushAtMostOnce
<1>4. CopiesAccounted
  BY DEF CopiesAccounted, Uncounted, Marked
<1> QED
  BY <1>1, <1>2, <1>3, <1>4 DEF IInv

\* The webhook's commit of a new row preserves the inductive invariant: the
\* row was absent, so no worker holds it.
LEMMA InsertStep ==
  ASSUME IInv, NEW r \in Rows, InsertOutbox(r) PROVE IInv'
<1> USE DEF IInv, InsertOutbox, batch
<1>1. TypeOK'
  BY DEF TypeOK
<1>2. Phases' /\ LocksExclusive' /\ LockedRowsFresh'
  BY DEF TypeOK, Phases, LocksExclusive, LockedRowsFresh, Held, Marked
<1>3. SentWasPublished' /\ DeadExactlyAtLimit'
  BY DEF TypeOK, SentWasPublished, DeadExactlyAtLimit
<1>4. CopiesAccounted'
  BY DEF TypeOK, CopiesAccounted, Uncounted, Marked
<1>5. JobsExclusive' /\ PushAtMostOnce'
  BY DEF TypeOK, JobsExclusive, PushAtMostOnce
<1> QED
  BY <1>1, <1>2, <1>3, <1>4, <1>5

\* So does the passing of next_attempt_at, which only changes due.
LEMMA BackoffStep ==
  ASSUME IInv, NEW r \in Rows, BackoffElapses(r) PROVE IInv'
<1> USE DEF IInv, BackoffElapses, batch
<1>1. TypeOK'
  BY DEF TypeOK
<1>2. Phases' /\ LocksExclusive' /\ LockedRowsFresh'
  BY DEF Phases, LocksExclusive, LockedRowsFresh, Held, Marked
<1>3. SentWasPublished' /\ DeadExactlyAtLimit'
  BY DEF SentWasPublished, DeadExactlyAtLimit
<1>4. CopiesAccounted'
  BY DEF CopiesAccounted, Uncounted, Marked
<1>5. JobsExclusive' /\ PushAtMostOnce'
  BY DEF JobsExclusive, PushAtMostOnce
<1> QED
  BY <1>1, <1>2, <1>3, <1>4, <1>5

\* SELECT ... FOR UPDATE SKIP LOCKED takes only free, pending rows, and
\* returns their attempts as stored.
LEMMA BeginStep ==
  ASSUME IInv, NEW w \in Workers, BeginBatch(w) PROVE IInv'
<1> USE DEF IInv, BeginBatch, table
<1>1. PICK B \in SUBSET Eligible : todo' = [todo EXCEPT ![w] = B]
  BY DEF SelectPendingOutboxForUpdate
<1>2. \A r \in B : r \in Rows /\ status[r] = "pending" /\ ~Locked(r)
  BY <1>1 DEF Eligible
<1>3. TypeOK'
  BY <1>1, <1>2 DEF TypeOK
<1>4. Phases' /\ LocksExclusive' /\ LockedRowsFresh'
  BY <1>1, <1>2
     DEF TypeOK, Phases, LocksExclusive, LockedRowsFresh, Held, Marked, Locked
<1>5. SentWasPublished' /\ DeadExactlyAtLimit'
  BY DEF SentWasPublished, DeadExactlyAtLimit
<1>6. CopiesAccounted'
  BY DEF CopiesAccounted, Uncounted, Marked
<1>7. JobsExclusive' /\ PushAtMostOnce'
  BY DEF JobsExclusive, PushAtMostOnce
<1> QED
  BY <1>3, <1>4, <1>5, <1>6, <1>7

\* PUBLISH and the UPDATE that records its outcome: row r moves from todo to
\* exactly one of the marks of w.
LEMMA PublishStep ==
  ASSUME IInv, NEW w \in Workers, PublishRow(w) PROVE IInv'
<1> USE OutboxAssumption DEF OutboxAssumption, IInv, table
<1>1. PICK r \in todo[w], copies \in 0 .. RedisTries :
        /\ todo' = [todo EXCEPT ![w] = @ \ {r}]
        /\ Publish(r, copies)
        /\ \/ copies > 0 /\ MarkOutboxSent(w, r)
           \/ MarkOutboxPublishFailed(w, r)
  BY DEF PublishRow
<1>2. /\ r \in Rows /\ r \in Held(w) /\ r \notin Marked(w)
      /\ status[r] = "pending" /\ seen[w][r] = attempts[r]
      /\ attempts[r] \in 0 .. EffectiveMax /\ attempts[r] # EffectiveMax
  BY <1>1 DEF TypeOK, LocksExclusive, LockedRowsFresh, Held, DeadExactlyAtLimit
<1>3. /\ pubs' = [pubs EXCEPT ![r] = @ + copies]
      /\ pubs[r] \in Nat /\ copies \in Nat /\ copies <= RedisTries
  BY <1>1, <1>2 DEF Publish, TypeOK
<1>4. UNCHANGED <<status, attempts, due, pc, seen, jobs, pushed, rollbacks>>
  BY DEF PublishRow
<1>5. \/ /\ copies > 0
         /\ sentTx' = [sentTx EXCEPT ![w] = @ \cup {r}]
         /\ retryTx' = retryTx /\ deadTx' = deadTx
      \/ /\ attempts[r] + 1 = EffectiveMax
         /\ deadTx' = [deadTx EXCEPT ![w] = @ \cup {r}]
         /\ retryTx' = retryTx /\ sentTx' = sentTx
      \/ /\ attempts[r] + 1 < EffectiveMax
         /\ retryTx' = [retryTx EXCEPT ![w] = @ \cup {r}]
         /\ deadTx' = deadTx /\ sentTx' = sentTx
  <2>1. CASE copies > 0 /\ MarkOutboxSent(w, r)
    BY <2>1 DEF MarkOutboxSent
  <2>2. CASE MarkOutboxPublishFailed(w, r)
    <3>1. attempts[r] + 1 >= EffectiveMax => attempts[r] + 1 = EffectiveMax
      BY <1>2, EffectiveMaxPositive
    <3>2. ~(attempts[r] + 1 >= EffectiveMax) => attempts[r] + 1 < EffectiveMax
      BY <1>2, EffectiveMaxPositive
    <3> QED
      BY <1>2, <2>2, <3>1, <3>2 DEF MarkOutboxPublishFailed
  <2> QED
    BY <1>1, <2>1, <2>2
<1>6. TypeOK'
  <2>1. todo' \in [Workers -> SUBSET Rows] /\ pubs' \in [Rows -> Nat]
    BY <1>1, <1>2, <1>3 DEF TypeOK
  <2>2. /\ sentTx' \in [Workers -> SUBSET Rows]
        /\ retryTx' \in [Workers -> SUBSET Rows]
        /\ deadTx' \in [Workers -> SUBSET Rows]
    <3>1. \A S \in [Workers -> SUBSET Rows] :
            [S EXCEPT ![w] = @ \cup {r}] \in [Workers -> SUBSET Rows]
      BY <1>2
    <3>2. /\ sentTx \in [Workers -> SUBSET Rows]
          /\ retryTx \in [Workers -> SUBSET Rows]
          /\ deadTx \in [Workers -> SUBSET Rows]
      BY DEF TypeOK
    <3> QED
      BY <1>5, <3>1, <3>2
  <2> QED
    BY <2>1, <2>2, <1>4 DEF TypeOK
<1>7. Phases'
  BY <1>1, <1>4, <1>5, <1>2 DEF PublishRow, TypeOK, Phases, Held
<1>8. LocksExclusive'
  BY <1>1, <1>2, <1>5 DEF TypeOK, LocksExclusive, Held, Marked
<1>9. LockedRowsFresh'
  <2> SUFFICES ASSUME NEW v \in Workers, NEW s \in Rows
               PROVE  LockedRowsFresh!(v)!(s)'
    BY DEF LockedRowsFresh
  <2>1. s \in Held(v)' => s \in Held(v)
    BY <1>1, <1>2, <1>5 DEF TypeOK, Held
  <2>2. pubs[s]' >= pubs[s]
    BY <1>3, <1>2 DEF TypeOK
  <2>3. CASE s = r /\ v = w
    BY <1>2, <1>3, <1>4, <1>5, <2>3 DEF TypeOK, LocksExclusive, Marked
  <2>4. CASE s # r \/ v # w
    BY <1>2, <1>3, <1>4, <1>5, <2>1, <2>2, <2>4 DEF TypeOK, LockedRowsFresh
  <2> QED
    BY <2>3, <2>4
<1>10. SentWasPublished' /\ DeadExactlyAtLimit'
  BY <1>2, <1>3, <1>4 DEF TypeOK, SentWasPublished, DeadExactlyAtLimit
<1>11. CopiesAccounted'
  <2> SUFFICES ASSUME NEW s \in Rows
               PROVE  pubs'[s] <= RedisTries * (attempts[s] + rollbacks + Uncounted(s)')
    BY <1>4 DEF CopiesAccounted
  <2>1. CASE s # r
    <3>1. \A v \in Workers : s \in Marked(v)' <=> s \in Marked(v)
      <4>1. \A S \in [Workers -> SUBSET Rows] : \A v \in Workers :
              s \in [S EXCEPT ![w] = @ \cup {r}][v] <=> s \in S[v]
        BY <2>1
      <4> QED
        BY <1>5, <4>1 DEF Marked, TypeOK
    <3>2. Uncounted(s)' = Uncounted(s)
      BY <1>4, <3>1 DEF Uncounted
    <3> QED
      BY <1>3, <2>1, <3>2 DEF CopiesAccounted, TypeOK
  <2>2. CASE s = r
    <3>1. Uncounted(r) = 0
      BY <1>2 DEF Uncounted, LocksExclusive, Held, Marked
    <3>2. Uncounted(r)' = 1
      BY <1>5 DEF Uncounted, Marked, TypeOK
    <3>3. pubs[r] <= RedisTries * (attempts[r] + rollbacks)
      BY <1>2, <3>1 DEF CopiesAccounted, TypeOK
    <3>4. attempts[r] \in Nat /\ rollbacks \in Nat
      BY <1>2, EffectiveMaxPositive DEF TypeOK
    <3>5. pubs'[r] <= RedisTries * (attempts[r] + rollbacks) + RedisTries
      BY <1>2, <1>3, <3>3, <3>4 DEF TypeOK
    <3> QED
      BY <2>2, <3>2, <3>4, <3>5
  <2> QED
    BY <2>1, <2>2
<1>12. JobsExclusive' /\ PushAtMostOnce'
  BY <1>4 DEF JobsExclusive, PushAtMostOnce
<1> QED
  BY <1>6, <1>7, <1>8, <1>9, <1>10, <1>11, <1>12

\* COMMIT turns the marks of w into the table's contents.
LEMMA CommitStep ==
  ASSUME IInv, NEW w \in Workers, Commit(w) PROVE IInv'
<1> USE OutboxAssumption, EffectiveMaxPositive
    DEF OutboxAssumption, IInv, Commit, EndTx
<1>1. \A r \in Rows :
        /\ r \in deadTx[w] => attempts[r] + 1 = EffectiveMax
        /\ r \in retryTx[w] => attempts[r] + 1 < EffectiveMax
  BY DEF LockedRowsFresh
<1>2. TypeOK'
  <2>1. attempts' \in [Rows -> 0 .. EffectiveMax]
    BY <1>1 DEF TypeOK
  <2>2. /\ status' \in [Rows -> {"absent", "pending", "sent", "dead"}]
        /\ due' \in [Rows -> BOOLEAN]
    BY DEF TypeOK
  <2>3. seen' \in [Workers -> [Rows -> 0 .. EffectiveMax]]
    BY DEF TypeOK
  <2>4. /\ todo' \in [Workers -> SUBSET Rows]
        /\ sentTx' \in [Workers -> SUBSET Rows]
        /\ retryTx' \in [Workers -> SUBSET Rows]
        /\ deadTx' \in [Workers -> SUBSET Rows]
    BY DEF TypeOK
  <2>5. /\ pc' \in [Workers -> {"idle", "tx", "push"}]
        /\ jobs' \in [Workers -> SUBSET Rows]
    BY DEF TypeOK
  <2>6. UNCHANGED <<pubs, pushed, rollbacks>>
    OBVIOUS
  <2> HIDE DEF Commit, EndTx
  <2> QED
    BY <2>1, <2>2, <2>3, <2>4, <2>5, <2>6 DEF TypeOK
<1>3. Phases' /\ LocksExclusive'
  BY DEF TypeOK, Phases, LocksExclusive, Held, Marked
<1>4. LockedRowsFresh'
  BY DEF TypeOK, LocksExclusive, LockedRowsFresh, Held
<1>5. SentWasPublished'
  BY DEF TypeOK, SentWasPublished, LockedRowsFresh
<1>6. DeadExactlyAtLimit'
  BY <1>1 DEF TypeOK, DeadExactlyAtLimit, LocksExclusive, LockedRowsFresh, Held
<1>7. CopiesAccounted'
  BY DEF TypeOK, CopiesAccounted, Uncounted, LocksExclusive, LockedRowsFresh,
         Held, Marked
<1>8. PushAtMostOnce'
  BY DEF TypeOK, PushAtMostOnce, LockedRowsFresh, Held
<1>9. JobsExclusive'
  <2>1. \A r \in sentTx[w] :
          /\ r \in Rows /\ status[r] = "pending" /\ pushed[r] = 0
          /\ \A v \in Workers : r \notin jobs[v]
    BY DEF TypeOK, LockedRowsFresh, Held, PushAtMostOnce, JobsExclusive
  <2>2. \A r \in Rows : status[r] = "sent" => status'[r] = "sent"
    BY DEF LockedRowsFresh, Held, TypeOK
  <2>3. jobs' = [jobs EXCEPT ![w] = sentTx[w]] \/ jobs' = jobs
    OBVIOUS
  <2>4. \A v \in Workers : \A r \in jobs'[v] :
          r \in jobs[v] \/ (v = w /\ r \in sentTx[w])
    BY <2>3 DEF TypeOK
  <2>5. pushed' = pushed /\ \A r \in sentTx[w] : status'[r] = "sent"
    BY <2>1
  <2> HIDE DEF Commit, EndTx
  <2> QED
    BY <2>1, <2>2, <2>4, <2>5 DEF TypeOK, JobsExclusive
<1> QED
  BY <1>2, <1>3, <1>4, <1>5, <1>6, <1>7, <1>8, <1>9

\* A transaction that ends without COMMIT leaves the table and its copies;
\* the fault it counts pays for the Publish calls that it forgets.
LEMMA RollbackStep ==
  ASSUME IInv, NEW w \in Workers, Rollback(w) PROVE IInv'
<1> USE OutboxAssumption, EffectiveMaxPositive
    DEF OutboxAssumption, IInv, Rollback, EndTx, table
<1>1. TypeOK'
  BY DEF TypeOK
<1>2. Phases' /\ LocksExclusive' /\ LockedRowsFresh'
  BY DEF TypeOK, Phases, LocksExclusive, LockedRowsFresh, Held, Marked
<1>3. SentWasPublished' /\ DeadExactlyAtLimit'
  BY DEF SentWasPublished, DeadExactlyAtLimit
<1>4. CopiesAccounted'
  <2> SUFFICES ASSUME NEW r \in Rows
               PROVE  pubs[r] <= RedisTries * (attempts[r] + rollbacks'
                                               + Uncounted(r)')
    BY DEF CopiesAccounted
  <2> DEFINE before == attempts[r] + rollbacks + Uncounted(r)
             after == attempts[r] + rollbacks' + Uncounted(r)'
  <2>1. before \in Nat /\ after \in Nat /\ before <= after
    BY DEF TypeOK, Uncounted
  <2>2. RedisTries * before <= RedisTries * after
    <3> HIDE DEF before, after
    <3>1. PICK k \in Nat : after = before + k
      BY <2>1
    <3>2. RedisTries * after = RedisTries * before + RedisTries * k
      BY <2>1, <3>1
    <3>3. RedisTries * k \in Nat /\ RedisTries * before \in Nat
      BY <2>1
    <3> QED
      BY <3>2, <3>3
  <2>3. pubs[r] <= RedisTries * before
    BY DEF CopiesAccounted
  <2>4. pubs[r] \in Nat /\ RedisTries * before \in Nat /\ RedisTries * after \in Nat
    BY <2>1 DEF TypeOK
  <2> QED
    <3> HIDE DEF before, after
    <3> SUFFICES pubs[r] <= RedisTries * after
      BY DEF after
    <3> QED
      BY <2>2, <2>3, <2>4
<1>5. JobsExclusive' /\ PushAtMostOnce'
  BY DEF JobsExclusive, PushAtMostOnce
<1> QED
  BY <1>1, <1>2, <1>3, <1>4, <1>5

\* sendPushNotifications uses up the job it carries out.
LEMMA SendPushStep ==
  ASSUME IInv, NEW w \in Workers, SendPushNotifications(w) PROVE IInv'
<1> USE DEF IInv, SendPushNotifications, table, batch
<1>1. TypeOK'
  <2>1. pushed' \in [Rows -> Nat]
    BY DEF TypeOK
  <2> QED
    BY <2>1 DEF TypeOK
<1>2. Phases' /\ LocksExclusive' /\ LockedRowsFresh'
  BY DEF TypeOK, Phases, LocksExclusive, LockedRowsFresh, Held, Marked
<1>3. SentWasPublished' /\ DeadExactlyAtLimit'
  BY DEF SentWasPublished, DeadExactlyAtLimit
<1>4. CopiesAccounted'
  BY DEF CopiesAccounted, Uncounted, Marked
<1>5. JobsExclusive' /\ PushAtMostOnce'
  <2>1. PICK r \in jobs[w] :
          /\ jobs' = [jobs EXCEPT ![w] = @ \ {r}]
          /\ pushed' = [pushed EXCEPT ![r] = @ + 1] \/ pushed' = pushed
    OBVIOUS
  <2>2. r \in Rows /\ status[r] = "sent" /\ pushed[r] = 0
    BY <2>1 DEF TypeOK, JobsExclusive
  <2>3. JobsExclusive'
    BY <2>1, <2>2 DEF TypeOK, JobsExclusive
  <2>4. \A s \in Rows : pushed'[s] = pushed[s] \/ (s = r /\ pushed'[s] = 1)
    BY <2>1, <2>2 DEF TypeOK
  <2>5. PushAtMostOnce'
    BY <2>2, <2>4 DEF TypeOK, PushAtMostOnce
  <2> QED
    BY <2>3, <2>5
<1> QED
  BY <1>1, <1>2, <1>3, <1>4, <1>5

\* processBatch returns, or the process stops, with no transaction open.
LEMMA LeavePushStep ==
  ASSUME IInv, NEW w \in Workers, EndBatch(w) \/ StopBeforePush(w)
  PROVE  IInv'
<1> USE DEF IInv, EndBatch, StopBeforePush, table, batch
<1>1. TypeOK'
  BY DEF TypeOK
<1>2. Phases'
  BY DEF TypeOK, Phases, Held
<1>3. LocksExclusive' /\ LockedRowsFresh'
  BY DEF LocksExclusive, LockedRowsFresh, Held, Marked
<1>4. SentWasPublished' /\ DeadExactlyAtLimit'
  BY DEF SentWasPublished, DeadExactlyAtLimit
<1>5. CopiesAccounted'
  BY DEF CopiesAccounted, Uncounted, Marked
<1>6. JobsExclusive' /\ PushAtMostOnce'
  BY DEF TypeOK, JobsExclusive, PushAtMostOnce
<1> QED
  BY <1>1, <1>2, <1>3, <1>4, <1>5, <1>6

\* Every step of the workers, of the webhook or of time preserves IInv.
LEMMA NextIInv == IInv /\ [Next]_vars => IInv'
<1> SUFFICES ASSUME IInv, [Next]_vars PROVE IInv'
  OBVIOUS
<1>1. CASE UNCHANGED vars
  BY <1>1 DEF vars, table, batch, IInv, TypeOK, Phases, LocksExclusive,
     LockedRowsFresh, SentWasPublished, DeadExactlyAtLimit, CopiesAccounted,
     JobsExclusive, PushAtMostOnce, Held, Marked, Uncounted
<1>2. ASSUME NEW r \in Rows, InsertOutbox(r) \/ BackoffElapses(r) PROVE IInv'
  BY <1>2, InsertStep, BackoffStep
<1>3. ASSUME NEW w \in Workers, WorkerStep(w) PROVE IInv'
  BY <1>3, BeginStep, PublishStep, CommitStep, SendPushStep, LeavePushStep
     DEF WorkerStep
<1>4. ASSUME NEW w \in Workers, Rollback(w) \/ StopBeforePush(w) PROVE IInv'
  BY <1>4, RollbackStep, LeavePushStep
<1> QED
  BY <1>1, <1>2, <1>3, <1>4 DEF Next

\* The inductive invariant holds in every reachable state.
THEOREM IInvHolds == Spec => []IInv
BY InitIInv, NextIInv, PTL DEF Spec

-----------------------------------------------------------------------------
\* Type correctness, which includes that no row is tried more often than the
\* limit: it needs the whole inductive invariant.
THEOREM TypeCorrect == Spec => []TypeOK
<1>1. IInv => TypeOK
  BY DEF IInv
<1> QED
  BY <1>1, IInvHolds, PTL

\* Only rows that went out to Redis are ever shown as sent.
THEOREM SentWasPublishedHolds == Spec => []SentWasPublished
<1>1. IInv => SentWasPublished
  BY DEF IInv
<1> QED
  BY <1>1, IInvHolds, PTL

\* The limit on attempts is exact for any number of workers, although the
\* worker compares the value it read and the UPDATE increments the stored one.
THEOREM DeadExactlyAtLimitHolds == Spec => []DeadExactlyAtLimit
<1>1. IInv => DeadExactlyAtLimit
  BY DEF IInv
<1> QED
  BY <1>1, IInvHolds, PTL

\* A device push is carried out at most once, and only for a durable row.
THEOREM PushAtMostOnceHolds == Spec => []PushAtMostOnce
<1>1. IInv => PushAtMostOnce
  BY DEF IInv
<1> QED
  BY <1>1, IInvHolds, PTL

\* Duplicates on a citizen's channel are paid for by counted attempts, by
\* transactions that ended without COMMIT, or by the one final success.
THEOREM CopiesBoundedHolds == Spec => []CopiesBounded
<1>1. IInv => CopiesBounded
  <2> SUFFICES ASSUME IInv, NEW r \in Rows
               PROVE  pubs[r] <= RedisTries * (attempts[r] + rollbacks + 1)
    BY DEF CopiesBounded
  <2>1. /\ attempts[r] \in Nat /\ rollbacks \in Nat /\ pubs[r] \in Nat
        /\ RedisTries \in Nat
    BY OutboxAssumption, EffectiveMaxPositive DEF OutboxAssumption, IInv, TypeOK
  <2>2. pubs[r] <= RedisTries * (attempts[r] + rollbacks + Uncounted(r))
    BY DEF IInv, CopiesAccounted
  <2>3. CASE Uncounted(r) = 1
    BY <2>2, <2>3
  <2>4. CASE Uncounted(r) = 0
    <3>1. RedisTries * (attempts[r] + rollbacks + 1)
            = RedisTries * (attempts[r] + rollbacks) + RedisTries
      BY <2>1
    <3>2. RedisTries * (attempts[r] + rollbacks) \in Nat
      BY <2>1
    <3>3. pubs[r] <= RedisTries * (attempts[r] + rollbacks)
      BY <2>1, <2>2, <2>4
    <3> QED
      BY <2>1, <3>1, <3>2, <3>3
  <2> QED
    BY <2>3, <2>4 DEF Uncounted
<1> QED
  BY <1>1, IInvHolds, PTL

-----------------------------------------------------------------------------
\* Each step of the outbox is a step of the contract or changes nothing that
\* the contract speaks of.
LEMMA StepImplements == IInv /\ [Next]_vars => [Contract!Next]_(Contract!vars)
<1> SUFFICES ASSUME IInv, [Next]_vars
             PROVE  Contract!Next \/ UNCHANGED Contract!vars
  OBVIOUS
<1> USE DEF Contract!Next, Contract!vars
<1>1. CASE UNCHANGED vars
  BY <1>1 DEF vars, table
<1>2. ASSUME NEW r \in Rows, InsertOutbox(r) PROVE Contract!Next
  BY <1>2 DEF InsertOutbox, Contract!Enqueue
<1>3. ASSUME NEW w \in Workers, PublishRow(w)
      PROVE  Contract!Next \/ UNCHANGED Contract!vars
  <2>1. PICK r \in todo[w], copies \in 0 .. RedisTries :
          pubs' = [pubs EXCEPT ![r] = @ + copies]
    BY <1>3 DEF PublishRow, Publish
  <2>2. r \in Rows /\ status[r] = "pending" /\ pubs \in [Rows -> Nat]
    BY <2>1 DEF IInv, TypeOK, LockedRowsFresh, Held
  <2>3. status' = status
    BY <1>3 DEF PublishRow, table
  <2>4. CASE copies = 0
    <3>1. pubs' = pubs
      BY <2>1, <2>2, <2>4
    <3> QED
      BY <2>3, <3>1
  <2>5. CASE copies # 0
    <3>1. copies \in 1 .. RedisTries
      BY <2>1, <2>5, OutboxAssumption DEF OutboxAssumption
    <3>2. Contract!Publish(r)
      BY <2>1, <2>2, <2>3, <3>1 DEF Contract!Publish
    <3> QED
      BY <2>2, <3>2
  <2> QED
    BY <2>4, <2>5
<1>4. ASSUME NEW w \in Workers, Commit(w) PROVE Contract!Next
  <2>1. sentTx[w] \in SUBSET Rows /\ deadTx[w] \in SUBSET Rows
    BY DEF IInv, TypeOK
  <2>2. \A r \in sentTx[w] \cup deadTx[w] : status[r] = "pending"
    BY <2>1 DEF IInv, LockedRowsFresh, Held
  <2>3. \A r \in sentTx[w] : pubs[r] > 0
    BY <2>1 DEF IInv, LockedRowsFresh
  <2>4. Contract!Settle(sentTx[w], deadTx[w])
    BY <1>4, <2>2, <2>3 DEF Commit, Contract!Settle
  <2> QED
    BY <2>1, <2>4
<1>5. ASSUME NEW w \in Workers,
             \/ BeginBatch(w) \/ Rollback(w) \/ SendPushNotifications(w)
             \/ EndBatch(w) \/ StopBeforePush(w)
      PROVE  UNCHANGED Contract!vars
  BY <1>5 DEF BeginBatch, Rollback, SendPushNotifications, EndBatch,
              StopBeforePush, table
<1>6. ASSUME NEW r \in Rows, BackoffElapses(r) PROVE UNCHANGED Contract!vars
  BY <1>6 DEF BackoffElapses
<1> QED
  BY <1>1, <1>2, <1>3, <1>4, <1>5, <1>6 DEF Next, WorkerStep

\* Any number of workers over any table keeps the outbox's promise.
THEOREM ImplementsContractHolds == Spec => ImplementsContract
<1>1. Init => Contract!Init
  BY DEF Init, Contract!Init
<1> QED
  BY <1>1, IInvHolds, StepImplements, PTL
     DEF Spec, ImplementsContract, Contract!Spec
=============================================================================

--------------------------------- MODULE Push ---------------------------------
(***************************************************************************)
(* Push devices and push delivery: POST and DELETE /devices                *)
(* (httpapi/devices.go, repo/push_devices.go) change push_devices while    *)
(* the worker, after the commit of a batch, sends the batch's push jobs    *)
(* one after the other (notify/worker.go, sendPushNotifications) through   *)
(* the push client's circuit breaker (integrations/push.go).  Until they   *)
(* are done the worker publishes nothing, so time is explicit: a call      *)
(* takes up to HTTPTimeout ticks, and one context of JobDeadline ticks     *)
(* covers all the sends of a job.  Database statements take no time here.  *)
(*                                                                         *)
(* Device requests that are refused (no citizen, no token, failed          *)
(* statement) change nothing and are left out.                             *)
(***************************************************************************)
EXTENDS Breaker, Sequences, FiniteSets

CONSTANTS
  Devices,        \* pairs <<citizen, token>> that may be registered
  MaxJobs,        \* push jobs of a batch: at most OUTBOX_BATCH_SIZE
  HTTPTimeout,    \* HTTP_CLIENT_TIMEOUT in ticks
  JobDeadline     \* the 15 s of sendPushNotifications in ticks

\* A closed circuit's counts outlive Threshold calls that time out, and an
\* open one lasts for some time.
ASSUME PushAssumption ==
  /\ MaxJobs \in Nat
  /\ HTTPTimeout \in Nat \ {0}
  /\ JobDeadline \in Nat \ {0}
  /\ Threshold * HTTPTimeout < Interval
  /\ Timeout > 0

Citizens == {d[1] : d \in Devices}
Tokens == {d[2] : d \in Devices}

\* Ticks that an endpoint which never answers can cost the worker in a batch.
StallBound == 2 * Threshold * HTTPTimeout

VARIABLES
  push_devices, \* pairs <<citizen, token>>
  up,           \* the endpoint answers below 500, in time
  breaker,      \* PushHTTPClient.breaker
  cancelled,    \* the root context
  pc,           \* the worker: idle, list, send, call or off
  jobs,         \* citizens of the push jobs left, the current one first
  todo,         \* tokens the current job has still to try
  token,        \* the tokens being sent: at most one
  spent,        \* ticks since the current job's context was made
  stuck,        \* ticks of the call in flight
  \* History.
  listed,       \* tokens the current job listed
  around,       \* tokens registered at some time during the current job
  reached,      \* tokens called while the current job's context lasted
  refused,      \* tokens of the current job that the breaker refused
  stalled       \* ticks in failed calls of this batch since one succeeded

environment == <<push_devices, up, cancelled>>
history == <<listed, around, reached, refused, stalled>>
vars == <<environment, breaker, pc, jobs, todo, token, spent, stuck, history>>

Init ==
  /\ push_devices = {}
  /\ up = TRUE
  /\ breaker = NewGeneration("closed")
  /\ cancelled = FALSE
  /\ pc = "idle"
  /\ jobs = <<>>
  /\ todo = {} /\ token = {}
  /\ spent = 0 /\ stuck = 0
  /\ listed = {} /\ around = {} /\ reached = {} /\ refused = {}
  /\ stalled = 0

TokensOf(z) == {t \in Tokens : <<z, t>> \in push_devices}

-----------------------------------------------------------------------------
\* POST /devices: the upsert leaves one row per citizen and token.
UpsertPushDevice(d) ==
  /\ push_devices' = push_devices \cup {d}
  /\ around' = IF jobs # <<>> /\ d[1] = Head(jobs) THEN around \cup {d[2]} ELSE around
  /\ UNCHANGED <<up, cancelled, breaker, pc, jobs, todo, token, spent, stuck,
                 listed, reached, refused, stalled>>

\* DELETE /devices.
DeletePushDevice(d) ==
  /\ push_devices' = push_devices \ {d}
  /\ UNCHANGED <<up, cancelled, breaker, pc, jobs, todo, token, spent, stuck, history>>

Flip ==
  /\ up' = ~up
  /\ UNCHANGED <<push_devices, cancelled, breaker, pc, jobs, todo, token, spent, stuck, history>>

Cancel ==
  /\ ~cancelled
  /\ cancelled' = TRUE
  /\ UNCHANGED <<push_devices, up, breaker, pc, jobs, todo, token, spent, stuck, history>>

\* The job's context: the deadline, or the root context's end.
Done == cancelled \/ spent >= JobDeadline

\* Time passes between batches and in calls, which end with their timeout
\* or with the job's context.
Tick ==
  /\ \/ pc = "idle"
     \/ pc = "call" /\ stuck < HTTPTimeout /\ ~Done
  /\ breaker' = Elapse(breaker)
  /\ spent' = IF pc = "call" THEN spent + 1 ELSE spent
  /\ stuck' = IF pc = "call" THEN stuck + 1 ELSE stuck
  /\ UNCHANGED <<environment, pc, jobs, todo, token, history>>

-----------------------------------------------------------------------------
\* processBatch has committed a batch with these push jobs.
Commit(citizens) ==
  /\ pc = "idle" /\ ~cancelled
  /\ jobs' = citizens
  /\ pc' = "list"
  /\ around' = TokensOf(Head(citizens))
  /\ stalled' = 0
  /\ UNCHANGED <<environment, breaker, todo, token, spent, stuck,
                 listed, reached, refused>>

\* Mutant: one deadline for all the jobs of the batch.
EndJobOneDeadline ==
  /\ jobs' = Tail(jobs)
  /\ pc' = IF Len(jobs) > 1 THEN "list" ELSE IF cancelled THEN "off" ELSE "idle"
  /\ around' = IF Len(jobs) > 1 THEN TokensOf(jobs[2]) ELSE {}
  /\ listed' = {} /\ reached' = {} /\ refused' = {}
  /\ todo' = {}
  /\ spent' = IF Len(jobs) > 1 THEN spent ELSE 0

\* The end of a job: on to the next one, or back to the ticker of Run.
EndJob ==
  /\ jobs' = Tail(jobs)
  /\ pc' = IF Len(jobs) > 1 THEN "list" ELSE IF cancelled THEN "off" ELSE "idle"
  /\ around' = IF Len(jobs) > 1 THEN TokensOf(jobs[2]) ELSE {}
  /\ listed' = {} /\ reached' = {} /\ refused' = {}
  /\ todo' = {}
  /\ spent' = 0

\* Mutant: the query takes the citizen of some other job.
ListPushTokensOfAnyone ==
  /\ pc = "list" /\ ~cancelled
  /\ \E z \in Citizens : todo' = TokensOf(z)
  /\ listed' = todo'
  /\ pc' = "send"
  /\ UNCHANGED <<environment, breaker, jobs, token, spent, stuck,
                 around, reached, refused, stalled>>

\* ListPushTokensByCitizen; then the job's deadline starts.
ListPushTokensByCitizen ==
  /\ pc = "list" /\ ~cancelled
  /\ todo' = TokensOf(Head(jobs))
  /\ listed' = todo'
  /\ pc' = "send"
  /\ UNCHANGED <<environment, breaker, jobs, token, spent, stuck,
                 around, reached, refused, stalled>>

\* There is no push client, the payload does not decode or the query fails:
\* the job is dropped.
ListFails ==
  /\ pc = "list"
  /\ EndJob
  /\ UNCHANGED <<environment, breaker, token, stuck, stalled>>

\* Tokens that a call made now reaches: none, once the job's context is done.
Live(t) == IF Done THEN {} ELSE {t}

\* Mutant: the endpoint is called without the breaker.
SendUnguarded(t) ==
  /\ pc = "send" /\ t \in todo
  /\ breaker' = beforeRequest(currentState(breaker, FALSE), "worker")
  /\ pc' = "call"
  /\ token' = {t}
  /\ reached' = reached \cup Live(t)
  /\ todo' = todo \ {t}
  /\ UNCHANGED <<environment, jobs, spent, stuck, listed, around, refused, stalled>>

\* Send: Execute lets the call through, also when the job's context is done
\* already and the endpoint is not called, or refuses it.
Send(t) ==
  /\ pc = "send" /\ t \in todo
  /\ \E late \in BOOLEAN :
       LET now == currentState(breaker, late)
       IN  /\ breaker' = beforeRequest(now, "worker")
           /\ IF Refusal(now) = "none"
              THEN /\ pc' = "call" /\ token' = {t}
                   /\ reached' = reached \cup Live(t)
                   /\ UNCHANGED refused
              ELSE /\ refused' = refused \cup {t}
                   /\ UNCHANGED <<pc, token, reached>>
  /\ todo' = todo \ {t}
  /\ UNCHANGED <<environment, jobs, spent, stuck, listed, around, stalled>>

\* The call succeeds if the endpoint answers and the job's context lasts.
Succeeds == up /\ ~Done

\* The call ends; an error is logged and the loop goes on.
SendReturns(ok) ==
  /\ pc = "call" /\ ok = Succeeds
  /\ \E late \in BOOLEAN :
       breaker' = afterRequest(currentState(breaker, late), "worker", ok)
  /\ stalled' = IF ok THEN 0 ELSE stalled + stuck
  /\ token' = {}
  /\ stuck' = 0
  /\ pc' = "send"
  /\ UNCHANGED <<environment, jobs, todo, spent, listed, around, reached, refused>>

JobDone ==
  /\ pc = "send" /\ todo = {}
  /\ EndJob
  /\ UNCHANGED <<environment, breaker, token, stuck, stalled>>

\* Run returns when its context is cancelled between batches.
Exit ==
  /\ pc = "idle" /\ cancelled
  /\ pc' = "off"
  /\ UNCHANGED <<environment, breaker, jobs, todo, token, spent, stuck, history>>

Batches == UNION {[1 .. n -> Citizens] : n \in 1 .. MaxJobs}

Next ==
  \/ \E d \in Devices : UpsertPushDevice(d) \/ DeletePushDevice(d)
  \/ Flip \/ Cancel \/ Tick
  \/ \E citizens \in Batches : Commit(citizens)
  \/ ListPushTokensByCitizen \/ ListFails
  \/ \E t \in Tokens : Send(t)
  \/ \E ok \in BOOLEAN : SendReturns(ok)
  \/ JobDone \/ Exit

Spec == Init /\ [][Next]_vars

-----------------------------------------------------------------------------
\* Type invariant.
TypeOK ==
  /\ push_devices \subseteq Devices
  /\ up \in BOOLEAN /\ cancelled \in BOOLEAN
  /\ breaker \in Breakers({"worker"})
  /\ pc \in {"idle", "list", "send", "call", "off"}
  /\ jobs \in Seq(Citizens) /\ Len(jobs) <= MaxJobs
  /\ todo \subseteq Tokens /\ token \subseteq Tokens
  /\ spent \in 0 .. JobDeadline
  /\ stuck \in 0 .. HTTPTimeout
  /\ listed \subseteq Tokens /\ around \subseteq Tokens
  /\ reached \subseteq Tokens /\ refused \subseteq Tokens
  /\ stalled \in Nat

\* A notification is pushed only to devices that its own citizen had
\* registered at some time during the job: one that was deleted before, or
\* that belongs to somebody else in the batch, stays quiet.
OnlyRegisteredPushed == reached \subseteq around

\* A job reaches every device it listed, or the breaker refused it, unless the
\* job's own calls used up its deadline: all of its devices share the one
\* context, so a device may be left out, but only behind devices enough to
\* fill the deadline with calls that time out (three of them with the
\* defaults of 5 s and 15 s).  Failures alone, fast ones, other jobs' time
\* and an interval that expires cost no device its call.  A worker that is
\* stopped may leave devices out.
NoDeviceLeftOut ==
  pc = "send" /\ todo = {} /\ ~cancelled =>
    \/ listed \subseteq reached \cup refused
    \/ Cardinality(reached) * HTTPTimeout >= JobDeadline

\* Before the breaker ends it, an endpoint that does not answer keeps the
\* worker from its outbox for no more than StallBound ticks of a batch,
\* however the circuit's interval falls and however many jobs there are.
StallBounded == stalled <= StallBound
=============================================================================

------------------------------ MODULE ReadState ------------------------------
(***************************************************************************)
(* Marking notifications as read: PATCH /notifications/:id/read and        *)
(* PATCH /notifications/read-all (internal/httpapi/notifications.go over   *)
(* internal/repo/notifications.go), behind the JWT middleware that maps a  *)
(* token to a citizen, and the callbacks to the chamados system that a     *)
(* successful request schedules in goroutines of their own, if there is a  *)
(* client for it.  What becomes of a callback is Chamados' subject.        *)
(***************************************************************************)
EXTENDS Naturals, FiniteSets

CONSTANTS
  Requests,
  Citizens,
  Notes,        \* notification ids
  Owner,        \* Owner[n]: the citizen of n
  Chamado,      \* Chamado[n]: its chamado_id
  Malformed,    \* an id in a path that is no UUID
  MaxFaults     \* bound: statements that fail and processes that die

ASSUME ReadStateAssumption ==
  /\ Citizens # {}
  /\ Owner \in [Notes -> Citizens]
  /\ DOMAIN Chamado = Notes
  /\ Malformed \notin Notes
  /\ MaxFaults \in Nat

Chamados == {Chamado[n] : n \in Notes}

VARIABLES
  configured,  \* the ChamadosClient is not nil: fixed when the server starts
  \* The notifications table.
  stored,      \* committed rows
  readBy,      \* readBy[n]: the request that set read_at, in a singleton, or {}
  \* Each request.
  pc,          \* new, update, locked, schedule, answered or dead
  who,         \* who[q]: the citizen in the token
  known,       \* known[q]: a citizens row existed when the token was resolved
  target,      \* target[q]: the notification asked for, {} for read-all
  there,       \* there[q]: rows stored when q was authenticated (history)
  snapshot,    \* snapshot[q]: the unread rows read-all's UPDATE set out with
  returned,    \* returned[q]: rows the UPDATE returned
  answer,      \* answer[q]: the response, none before (or without) one
  \* The outside.
  calls,       \* calls[z][ch]: NotifyRead goroutines started
  faults

table == <<stored, readBy>>
token == <<who, known, target, there>>
vars == <<configured, table, pc, token, snapshot, returned, answer, calls, faults>>

Init ==
  /\ configured \in BOOLEAN
  /\ stored = {}
  /\ readBy = [n \in Notes |-> {}]
  /\ pc = [q \in Requests |-> "new"]
  /\ who = [q \in Requests |-> CHOOSE z \in Citizens : TRUE]
  /\ known = [q \in Requests |-> FALSE]
  /\ target = [q \in Requests |-> {}]
  /\ there = [q \in Requests |-> {}]
  /\ snapshot = [q \in Requests |-> {}]
  /\ returned = [q \in Requests |-> {}]
  /\ answer = [q \in Requests |-> "none"]
  /\ calls = [z \in Citizens |-> [ch \in Chamados |-> 0]]
  /\ faults = 0

-----------------------------------------------------------------------------
\* The webhook stores a notification, and with its first one the citizen.
Store(n) ==
  /\ n \notin stored
  /\ stored' = stored \cup {n}
  /\ UNCHANGED <<configured, readBy, pc, token, snapshot, returned, answer, calls, faults>>

Goto(q, label) == pc' = [pc EXCEPT ![q] = label]

Respond(q, code) ==
  /\ answer' = [answer EXCEPT ![q] = code]
  /\ Goto(q, "answered")

\* Middleware: ResolveCitizenFromToken finds the citizen or leaves it nil.
Authenticate(q, z, t) ==
  /\ pc[q] = "new"
  /\ who' = [who EXCEPT ![q] = z]
  /\ target' = [target EXCEPT ![q] = t]
  /\ there' = [there EXCEPT ![q] = stored]
  /\ known' = [known EXCEPT ![q] = \E n \in stored : Owner[n] = z]
  /\ Goto(q, "update")
  /\ UNCHANGED <<configured, table, snapshot, returned, answer, calls, faults>>

\* The middleware's query fails: 500.
AuthenticateFails(q) ==
  /\ pc[q] = "new"
  /\ faults < MaxFaults
  /\ faults' = faults + 1
  /\ Respond(q, "500")
  /\ UNCHANGED <<configured, table, token, snapshot, returned, calls>>

\* The middleware answers 401 to a token that it does not accept.
Unauthorized(q) ==
  /\ pc[q] = "new"
  /\ Respond(q, "401")
  /\ UNCHANGED <<configured, table, token, snapshot, returned, calls, faults>>

\* Both handlers answer 404 to a citizen without a row.
UnknownCitizen(q) ==
  /\ pc[q] = "update" /\ ~known[q]
  /\ Respond(q, "404")
  /\ UNCHANGED <<configured, table, token, snapshot, returned, calls, faults>>

\* handleMarkRead answers 400 to an id that does not parse.
InvalidID(q) ==
  /\ pc[q] = "update" /\ known[q] /\ target[q] = {Malformed}
  /\ Respond(q, "400")
  /\ UNCHANGED <<configured, table, token, snapshot, returned, calls, faults>>

Unread(n) == n \in stored /\ readBy[n] = {}

\* q's UPDATE sets read_at of the rows in R and returns them.
SetRead(q, R) ==
  /\ readBy' = [n \in Notes |-> IF n \in R THEN readBy[n] \cup {q} ELSE readBy[n]]
  /\ returned' = [returned EXCEPT ![q] = R]

\* Mutant: the WHERE clause forgets the citizen.
MatchAnyOwner(q) == {n \in target[q] : Unread(n)}

\* Mutant: the WHERE clause forgets read_at IS NULL.
MatchRead(q) == {n \in target[q] \cap stored : Owner[n] = who[q]}

\* Mutant: rows that another request has locked are skipped.
MatchSkippingLocked(q) ==
  {n \in target[q] : Unread(n) /\ Owner[n] = who[q]
                     /\ \A p \in Requests \ {q} : n \notin snapshot[p]}

\* The row MarkNotificationRead's WHERE clause matches, if any.
Match(q) == {n \in target[q] : Unread(n) /\ Owner[n] = who[q]}

\* handleMarkRead: UPDATE ... RETURNING chamado_id; no row means 404.
MarkNotificationRead(q) ==
  /\ pc[q] = "update" /\ known[q] /\ target[q] \notin {{}, {Malformed}}
  /\ SetRead(q, Match(q))
  /\ IF Match(q) = {}
     THEN Respond(q, "404")
     ELSE Goto(q, "schedule") /\ UNCHANGED answer
  /\ UNCHANGED <<configured, stored, token, snapshot, calls, faults>>

\* handleMarkAllRead: its UPDATE looks for rows in one snapshot, ...
MarkAllBegin(q) ==
  /\ pc[q] = "update" /\ known[q] /\ target[q] = {}
  /\ snapshot' = [snapshot EXCEPT ![q] = {n \in stored : Unread(n) /\ Owner[n] = who[q]}]
  /\ Goto(q, "locked")
  /\ UNCHANGED <<configured, table, token, returned, answer, calls, faults>>

\* ... and takes those that are unread still when it gets their locks.
MarkAllNotificationsRead(q) ==
  /\ pc[q] = "locked"
  /\ SetRead(q, {n \in snapshot[q] : Unread(n)})
  /\ snapshot' = [snapshot EXCEPT ![q] = {}]
  /\ Goto(q, "schedule")
  /\ UNCHANGED <<configured, stored, token, answer, calls, faults>>

\* scheduleChamadosReadNotify starts nothing without a client or a chamado_id.
Reportable(ch) == configured /\ ch # ""

\* NotifyRead goroutines for citizen z, one per chamado of the rows in R.
Notify(z, R) ==
  calls' = [y \in Citizens |-> [ch \in Chamados |->
    IF y = z /\ Reportable(ch) /\ \E n \in R : Chamado[n] = ch
    THEN calls[y][ch] + 1 ELSE calls[y][ch]]]

\* Mutant: read-all leaves its loop after the first callback.
ScheduleFirstOnly(q) ==
  /\ pc[q] = "schedule"
  /\ \E R \in SUBSET returned[q] :
       /\ Cardinality(R) <= 1 /\ (R = {} => returned[q] = {})
       /\ Notify(who[q], R)
  /\ Respond(q, IF target[q] = {} THEN "200" ELSE "204")
  /\ UNCHANGED <<configured, table, token, snapshot, returned, faults>>

\* The callbacks of q's rows, without repeating a chamado, then the answer.
Schedule(q) ==
  /\ pc[q] = "schedule"
  /\ Notify(who[q], returned[q])
  /\ Respond(q, IF target[q] = {} THEN "200" ELSE "204")
  /\ UNCHANGED <<configured, table, token, snapshot, returned, faults>>

\* The statement fails with no effect, or its answer is lost after it.
UpdateFails(q) ==
  /\ pc[q] \in {"update", "locked"} /\ known[q] /\ target[q] # {Malformed}
  /\ faults < MaxFaults
  /\ faults' = faults + 1
  /\ \E R \in {{}, Match(q), {n \in snapshot[q] : Unread(n)}} :
       readBy' = [n \in Notes |-> IF n \in R THEN readBy[n] \cup {q} ELSE readBy[n]]
  /\ snapshot' = [snapshot EXCEPT ![q] = {}]
  /\ Respond(q, "500")
  /\ UNCHANGED <<configured, stored, token, returned, calls>>

\* The process dies before it has scheduled the callbacks.
Die(q) ==
  /\ pc[q] = "schedule"
  /\ faults < MaxFaults
  /\ faults' = faults + 1
  /\ Goto(q, "dead")
  /\ UNCHANGED <<configured, table, token, snapshot, returned, answer, calls>>

Next ==
  \/ \E n \in Notes : Store(n)
  \/ \E q \in Requests :
       \/ \E z \in Citizens :
            \/ Authenticate(q, z, {})
            \/ \E n \in Notes \cup {Malformed} : Authenticate(q, z, {n})
       \/ AuthenticateFails(q) \/ Unauthorized(q)
       \/ UnknownCitizen(q) \/ InvalidID(q)
       \/ MarkNotificationRead(q)
       \/ MarkAllBegin(q) \/ MarkAllNotificationsRead(q)
       \/ Schedule(q)
       \/ UpdateFails(q) \/ Die(q)

Spec == Init /\ [][Next]_vars

-----------------------------------------------------------------------------
\* Type invariant; read_at is set at most once.
TypeOK ==
  /\ configured \in BOOLEAN
  /\ stored \subseteq Notes
  /\ readBy \in [Notes -> SUBSET Requests]
  /\ \A n \in Notes : Cardinality(readBy[n]) <= 1
  /\ pc \in [Requests -> {"new", "update", "locked", "schedule", "answered", "dead"}]
  /\ who \in [Requests -> Citizens]
  /\ known \in [Requests -> BOOLEAN]
  /\ target \in [Requests -> SUBSET (Notes \cup {Malformed})]
  /\ there \in [Requests -> SUBSET Notes]
  /\ snapshot \in [Requests -> SUBSET Notes]
  /\ returned \in [Requests -> SUBSET Notes]
  /\ answer \in [Requests -> {"none", "200", "204", "400", "401", "404", "500"}]
  /\ calls \in [Citizens -> [Chamados -> Nat]]
  /\ faults \in 0 .. MaxFaults

\* Only its owner's requests mark a notification, and concurrent PATCH and
\* read-all requests never both report it as theirs.
ReadOnceByOwner ==
  \A q \in Requests : \A n \in returned[q] :
    /\ who[q] = Owner[n]
    /\ \A p \in Requests \ {q} : n \notin returned[p]

\* No callback without a read of its own: the chamados system hears of a
\* chamado at most once per notification of it that the citizen has read.
CallbacksBacked ==
  \A z \in Citizens, ch \in Chamados :
    calls[z][ch] <= Cardinality({n \in Notes :
      Owner[n] = z /\ Chamado[n] = ch /\ readBy[n] # {}})

\* The requests that were answered with success and have read a row of ch.
Reporters(z, ch) ==
  {q \in Requests : /\ who[q] = z /\ answer[q] \in {"200", "204"}
                    /\ \E n \in returned[q] : Chamado[n] = ch}

\* No read is lost in silence.  A row that is read is in the hands of the
\* request that read it, or that request was answered 500; and the callbacks
\* started for a citizen and a chamado are exactly the requests that were
\* answered with success and read rows of it, however many rows and whatever
\* else failed; without a client there are none.  (Started is all the code
\* promises: the breaker may refuse a callback, and nothing repeats it.)
CallbacksMatchAnswers ==
  /\ \A n \in Notes : \A q \in readBy[n] : n \in returned[q] \/ answer[q] = "500"
  /\ \A z \in Citizens, ch \in Chamados :
       calls[z][ch] = IF configured /\ ch # "" THEN Cardinality(Reporters(z, ch)) ELSE 0

\* To the owner, 404 on a notification that was there when the request came
\* means that it is read, not that another request was just busy with it.
NotFoundMeansRead ==
  \A q \in Requests : \A n \in target[q] \cap there[q] :
    answer[q] = "404" /\ who[q] = Owner[n] => readBy[n] # {}
=============================================================================

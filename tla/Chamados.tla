------------------------------- MODULE Chamados -------------------------------
(***************************************************************************)
(* The chamados client (internal/integrations/chamados.go) and its two     *)
(* users, which share one circuit breaker: GET /chamados/:id/summary       *)
(* (httpapi/chamados_mapas.go), under the context of the HTTP request, and *)
(* the read callback of httpapi/notifications.go, in a goroutine with a    *)
(* context of its own.  Callers come back for ever.  Without a base URL,   *)
(* the default, there is no client, and neither user makes a call.         *)
(***************************************************************************)
EXTENDS Breaker, FiniteSets

CONSTANTS
  Callers,      \* request handlers and callback goroutines
  Notes         \* pairs <<citizen, chamado>> of which a notification may exist

ASSUME ChamadosAssumption ==
  Notes # {} /\ \A n \in Notes : n = <<n[1], n[2]>>

Citizens == {n[1] : n \in Notes}
ChamadoIDs == {n[2] : n \in Notes}
Pairs == Citizens \X ChamadoIDs

VARIABLES
  configured,   \* the ChamadosClient is not nil: fixed when the server starts
  stored,       \* the pairs that have a notification
  up,           \* which of database and upstream work
  breaker,      \* ChamadosClient.breaker
  \* Each caller.
  pc,           \* idle, check, enter or fly (waiting for the upstream)
  kind,         \* summary or callback
  pair,         \* the citizen and the chamado it is about
  live,         \* its context is not cancelled
  answer,       \* what the last summary was answered with
  \* History.
  asked,        \* pairs for which a summary was asked of the upstream
  failures,     \* calls that failed since the circuit last closed, up to Threshold
  since         \* callers in flight that were let through after it opened

caller == <<pc, kind, pair, live, answer>>
vars == <<configured, stored, up, breaker, caller, asked, failures, since>>

Init ==
  /\ configured \in BOOLEAN
  /\ stored = {}
  /\ up = {"database", "upstream"}
  /\ breaker = NewGeneration("closed")
  /\ pc = [k \in Callers |-> "idle"]
  /\ kind = [k \in Callers |-> "summary"]
  /\ pair = [k \in Callers |-> CHOOSE n \in Notes : TRUE]
  /\ live = [k \in Callers |-> TRUE]
  /\ answer = [k \in Callers |-> "none"]
  /\ asked = {}
  /\ failures = 0
  /\ since = {}

-----------------------------------------------------------------------------
\* The surroundings: the webhook stores a notification, the database or the
\* upstream fails or comes back, time passes, a client hangs up.
Store(n) ==
  /\ n \notin stored
  /\ stored' = stored \cup {n}
  /\ UNCHANGED <<configured, up, breaker, caller, asked, failures, since>>

Flip(x) ==
  /\ up' = IF x \in up THEN up \ {x} ELSE up \cup {x}
  /\ UNCHANGED <<configured, stored, breaker, caller, asked, failures, since>>

Tick ==
  /\ breaker' = Elapse(breaker)
  /\ UNCHANGED <<configured, stored, up, caller, asked, failures, since>>

HangUp(k) ==
  /\ pc[k] # "idle" /\ kind[k] = "summary" /\ live[k]
  /\ live' = [live EXCEPT ![k] = FALSE]
  /\ UNCHANGED <<configured, stored, up, breaker, pc, kind, pair, answer, asked, failures, since>>

-----------------------------------------------------------------------------
Begin(k, what, p, label) ==
  /\ pc[k] = "idle"
  /\ pc' = [pc EXCEPT ![k] = label]
  /\ kind' = [kind EXCEPT ![k] = what]
  /\ pair' = [pair EXCEPT ![k] = p]
  /\ live' = [live EXCEPT ![k] = TRUE]
  /\ UNCHANGED <<configured, stored, up, breaker, asked, failures, since>>

\* The end of a call; only a summary has someone to answer.
End(k, code) ==
  /\ pc' = [pc EXCEPT ![k] = "idle"]
  /\ answer' = [answer EXCEPT ![k] = IF kind[k] = "summary" THEN code ELSE "none"]
  /\ live' = [live EXCEPT ![k] = TRUE]
  /\ UNCHANGED <<kind, pair>>

\* handleChamadosSummary answers at once, with an error: ...
Refuse(k, code) ==
  /\ pc[k] = "idle"
  /\ answer' = [answer EXCEPT ![k] = code]
  /\ UNCHANGED <<configured, stored, up, breaker, pc, kind, pair, live, asked, failures, since>>

\* ... 503, chamados_api_unconfigured, without a client;
Unconfigured(k) == ~configured /\ Refuse(k, "503-unconfigured")

Known(citizen) == \E n \in stored : n[1] = citizen

\* 404 to a citizen without a row; 400 to one who names no chamado.
UnknownCitizen(k, p) == configured /\ ~Known(p[1]) /\ Refuse(k, "404")
InvalidID(k, p) == configured /\ Known(p[1]) /\ Refuse(k, "400")

Summary(k, p) ==
  /\ configured /\ Known(p[1])
  /\ Begin(k, "summary", p, "check")
  /\ answer' = [answer EXCEPT ![k] = "none"]

\* scheduleChamadosReadNotify, after a read of a stored notification; it
\* starts no goroutine without a client.
Callback(k, p) ==
  /\ configured /\ p \in stored
  /\ Begin(k, "callback", p, "enter")
  /\ answer' = [answer EXCEPT ![k] = "none"]

\* Mutant: the query forgets the citizen.
CitizenHasNotificationForAnyChamado(p) == \E n \in stored : n[2] = p[2]

\* CitizenHasNotificationForChamado: COUNT(*) > 0.
CitizenHasNotificationForChamado(p) == p \in stored

Check(k) ==
  /\ pc[k] = "check" /\ live[k] /\ "database" \in up
  /\ IF CitizenHasNotificationForChamado(pair[k])
     THEN pc' = [pc EXCEPT ![k] = "enter"] /\ UNCHANGED <<kind, pair, live, answer>>
     ELSE End(k, "404")
  /\ UNCHANGED <<configured, stored, up, breaker, asked, failures, since>>

CheckFails(k) ==
  /\ pc[k] = "check"
  /\ ~live[k] \/ "database" \notin up
  /\ End(k, "500")
  /\ UNCHANGED <<configured, stored, up, breaker, asked, failures, since>>

\* Mutant: NotifyRead posts without the breaker.
EnterCallbackUnguarded(k) ==
  /\ pc[k] = "enter"
  /\ LET now == currentState(breaker, FALSE)
         refusal == IF kind[k] = "callback" THEN "none" ELSE Refusal(now)
     IN  IF refusal = "none"
         THEN /\ breaker' = beforeRequest(now, k)
              /\ pc' = [pc EXCEPT ![k] = "fly"]
              /\ asked' = IF kind[k] = "summary" THEN asked \cup {pair[k]} ELSE asked
              /\ since' = IF now.state = "closed" THEN since ELSE since \cup {k}
              /\ UNCHANGED <<kind, pair, live, answer>>
         ELSE /\ breaker' = now
              /\ End(k, IF refusal = "ErrOpenState" THEN "503-unavailable" ELSE "502")
              /\ UNCHANGED <<asked, since>>
  /\ UNCHANGED <<configured, stored, up, failures>>

\* Execute admits the call or refuses it.  The handler knows ErrOpenState
\* and answers 503; ErrTooManyRequests it takes for a failed call.
Enter(k) ==
  /\ pc[k] = "enter"
  /\ LET now == currentState(breaker, FALSE)
     IN  IF Refusal(now) = "none"
         THEN /\ breaker' = beforeRequest(now, k)
              /\ pc' = [pc EXCEPT ![k] = "fly"]
              /\ asked' = IF kind[k] = "summary" THEN asked \cup {pair[k]} ELSE asked
              /\ since' = IF now.state = "closed" THEN since ELSE since \cup {k}
              /\ UNCHANGED <<kind, pair, live, answer>>
         ELSE /\ breaker' = now
              /\ End(k, IF Refusal(now) = "ErrOpenState" THEN "503-unavailable" ELSE "502")
              /\ UNCHANGED <<asked, since>>
  /\ UNCHANGED <<configured, stored, up, failures>>

\* How a call can end: with a status, or with an error of the network, of the
\* HTTP client's timeout or of a cancelled context.
Outcomes(k) ==
  IF ~live[k] THEN {"error"}
  ELSE IF "upstream" \in up THEN {"200", "404"} ELSE {"500", "error"}

\* Mutant: a status of 400 or more is a failure.
SucceededStrict(outcome) == outcome \notin {"404", "500", "error"}

\* The error that GetSummary and NotifyRead return to Execute is nil.
Succeeded(outcome) == outcome \notin {"500", "error"}

\* The call returns; Execute reports to the breaker and the handler answers.
Return(k, outcome) ==
  /\ pc[k] = "fly"
  /\ outcome \in Outcomes(k)
  /\ breaker' = afterRequest(currentState(breaker, FALSE), k, Succeeded(outcome))
  /\ End(k, IF Succeeded(outcome) THEN outcome ELSE "502")
  /\ failures' = IF breaker.state # "closed" /\ breaker'.state = "closed" THEN 0
                 ELSE IF outcome \in {"500", "error"} /\ failures < Threshold
                 THEN failures + 1 ELSE failures
  /\ since' = since \ {k}
  /\ UNCHANGED <<configured, stored, up, asked>>

Progress(k) ==
  \/ Check(k) \/ CheckFails(k) \/ Enter(k)
  \/ \E outcome \in {"200", "404", "500", "error"} : Return(k, outcome)

Next ==
  \/ \E n \in Notes : Store(n)
  \/ \E x \in {"database", "upstream"} : Flip(x)
  \/ Tick
  \/ \E k \in Callers :
       \/ Unconfigured(k)
       \/ \E p \in Pairs : UnknownCitizen(k, p) \/ InvalidID(k, p)
       \/ \E p \in Pairs : Summary(k, p) \/ Callback(k, p)
       \/ Progress(k)
       \/ HangUp(k)

Spec == Init /\ [][Next]_vars

\* Statements and HTTP calls end (the client has a timeout), and time passes.
Fairness ==
  /\ \A k \in Callers : WF_vars(Progress(k))
  /\ WF_vars(Tick)

FairSpec == Spec /\ Fairness

-----------------------------------------------------------------------------
Answers ==
  {"none", "200", "400", "404", "500", "502", "503-unconfigured", "503-unavailable"}

\* Type invariant; a closed circuit never holds Threshold failures.
TypeOK ==
  /\ configured \in BOOLEAN
  /\ stored \subseteq Notes
  /\ up \subseteq {"database", "upstream"}
  /\ breaker \in Breakers(Callers)
  /\ pc \in [Callers -> {"idle", "check", "enter", "fly"}]
  /\ kind \in [Callers -> {"summary", "callback"}]
  /\ pair \in [Callers -> Pairs]
  /\ live \in [Callers -> BOOLEAN]
  /\ answer \in [Callers -> Answers]
  /\ asked \subseteq Pairs
  /\ failures \in 0 .. Threshold
  /\ since \subseteq Callers

\* The upstream is asked about a chamado only for a citizen who has a
\* notification of it.
NoPeeking == asked \subseteq stored

\* An upstream in trouble is left alone: of the calls let through since the
\* circuit opened, by handlers and callbacks together, at most one is in
\* flight, and none while the circuit is open.
UpstreamShielded ==
  /\ Cardinality(since) <= 1
  /\ breaker.state = "open" => since = {}

\* Each error has its cause.  A client hears unavailable only when Threshold
\* calls, of whatever users, have failed since the circuit last closed, and
\* 502 only then or when its own call failed; fewer failures turn nobody else
\* away.  A call given up by its own client counts as failed, as in the code.
TurnedAwayWithCause ==
  [][\A k \in Callers :
       /\ answer'[k] = "503-unconfigured" => ~configured
       /\ answer'[k] = "503-unavailable" /\ answer[k] # answer'[k] =>
            configured /\ failures >= Threshold
       /\ answer'[k] = "502" /\ answer[k] # answer'[k] =>
            \/ pc[k] = "fly" /\ (~live[k] \/ "upstream" \notin up)
            \/ pc[k] = "enter" /\ failures >= Threshold]_vars

\* Only a probe that succeeded closes the circuit: no answer that comes late
\* from before it opened does.
OnlyProbeCloses ==
  [][breaker.state # "closed" /\ breaker'.state = "closed" =>
       \E k \in since : pc'[k] = "idle" /\ live[k] /\ "upstream" \in up]_vars

\* Once the upstream works and clients stay on the line, a service that keeps
\* being called closes the circuit for good: no probe is lost, nor does an
\* upstream that answers 404 count as failing.
Recovers ==
  /\ <>[]("upstream" \in up /\ \A k \in Callers : live[k])
  /\ []<>(\E k \in Callers : pc[k] = "enter")
  => <>[](breaker.state = "closed")
=============================================================================

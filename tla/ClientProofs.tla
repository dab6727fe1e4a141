---------------------------- MODULE ClientProofs ----------------------------
(***************************************************************************)
(* Proofs about the two clients behind a circuit breaker that the REST API *)
(* uses, Chamados and Mapas.                                               *)
(*                                                                         *)
(* Chamados, for any set of callers and notifications and any threshold,   *)
(* interval and timeout: the heart of it is what the breaker's generation  *)
(* says about the calls in flight.  Half open it has at most one caller,   *)
(* which is all that was let through since the circuit opened.             *)
(*                                                                         *)
(* Mapas, in the second half, for all settings within MapasSettings: the   *)
(* time since the upstream changed is paid for, tick by tick, by the       *)
(* ticker, the call under way, the failures counted and the expiry of the  *)
(* breaker's generation.  The two clients share no state; the constants of *)
(* Breaker stand for the settings of either.                               *)
(***************************************************************************)
EXTENDS Chamados, Mapas, FiniteSetTheorems, TLAPS

\* A call that reaches the breaker is about a chamado its citizen was
\* notified of.
CheckedBefore ==
  \A k \in Callers : pc[k] \in {"enter", "fly"} => pair[k] \in stored

\* The current generation of a half-open circuit: one probe at most, and
\* nobody else was let through since the circuit opened.
OneProbe ==
  /\ \A k \in breaker.current : pc[k] = "fly"
  /\ since = IF breaker.state = "half-open" THEN breaker.current ELSE {}
  /\ \A j, k \in since : j = k

\* The breaker opens for a cause: no fewer calls failed than it counts.
FailuresBehindIt ==
  IF breaker.state = "closed" THEN breaker.fails <= failures
  ELSE failures = Threshold

\* Without a client nobody gets as far as the breaker, and only then is a
\* client told so.
NoClientNoCall ==
  /\ ~configured => \A k \in Callers : pc[k] = "idle"
  /\ \A k \in Callers : answer[k] = "503-unconfigured" => ~configured

IInv ==
  /\ TypeOK
  /\ CheckedBefore
  /\ NoPeeking
  /\ NoClientNoCall
  /\ OneProbe
  /\ FailuresBehindIt

-----------------------------------------------------------------------------
\* A new generation is a breaker without callers and failures.
LEMMA NewGenerationType ==
  ASSUME NEW s \in {"closed", "open", "half-open"}
  PROVE  /\ NewGeneration(s) \in Breakers(Callers)
         /\ NewGeneration(s).state = s
         /\ NewGeneration(s).current = {} /\ NewGeneration(s).fails = 0
BY BreakerAssumption DEF BreakerAssumption, NewGeneration, Breakers

\* Looking at the state never opens or closes the circuit, and changes
\* anything only by starting a generation.
LEMMA CurrentStateKeeps ==
  ASSUME NEW b \in Breakers(Callers), NEW late \in BOOLEAN
  PROVE  LET now == currentState(b, late)
         IN  /\ now \in Breakers(Callers)
             /\ \/ now = b
                \/ /\ now.current = {} /\ now.fails = 0
                   /\ \/ b.state = "closed" /\ now.state = "closed"
                      \/ b.state = "open" /\ now.state = "half-open"
<1>1. b.state \in {"closed", "open", "half-open"}
  BY DEF Breakers
<1>2. CASE ~Expired(b, late)
  BY <1>2 DEF currentState
<1>3. CASE Expired(b, late)
  <2>1. b.state # "half-open"
    BY <1>3 DEF Expired
  <2>2. CASE b.state = "open"
    <3>1. currentState(b, late) = NewGeneration("half-open")
      BY <1>3, <2>2 DEF currentState
    <3> QED
      BY <2>2, <3>1, NewGenerationType
  <2>3. CASE b.state = "closed"
    <3>1. currentState(b, late) = NewGeneration("closed")
      BY <1>3, <2>3 DEF currentState
    <3> QED
      BY <2>3, <3>1, NewGenerationType
  <2> QED
    BY <1>1, <2>1, <2>2, <2>3
<1> QED
  BY <1>2, <1>3

\* Who is refused, and what admission changes.
LEMMA Admission ==
  ASSUME NEW b \in Breakers(Callers), NEW k \in Callers
  PROVE  /\ Refusal(b) = "none" <=>
              b.state = "closed" \/ (b.state = "half-open" /\ b.current = {})
         /\ Refusal(b) = "none" =>
              /\ beforeRequest(b, k) \in Breakers(Callers)
              /\ beforeRequest(b, k).state = b.state
              /\ beforeRequest(b, k).fails = b.fails
              /\ beforeRequest(b, k).current = b.current \cup {k}
BY DEF Breakers, Refusal, beforeRequest

\* What the result of a call does to the breaker.
LEMMA ResultCounts ==
  ASSUME NEW b \in Breakers(Callers), NEW k \in Callers, NEW outcome
  PROVE  LET after == afterRequest(b, k, Succeeded(outcome))
         IN  /\ after \in Breakers(Callers)
             /\ k \notin b.current => after = b
             /\ k \in b.current /\ b.state = "half-open" =>
                  /\ after.state = IF Succeeded(outcome) THEN "closed" ELSE "open"
                  /\ after.current = {} /\ after.fails = 0
             /\ k \in b.current /\ b.state # "half-open" =>
                  \/ /\ after.state = b.state /\ after.current = b.current \ {k}
                     /\ after.fails = IF Succeeded(outcome) THEN 0 ELSE b.fails + 1
                  \/ /\ ~Succeeded(outcome) /\ b.fails + 1 = Threshold
                     /\ after.state = "open" /\ after.current = {} /\ after.fails = 0
<1> USE BreakerAssumption DEF BreakerAssumption
<1>1. CASE k \notin b.current
  BY <1>1 DEF afterRequest
<1>2. CASE k \in b.current /\ b.state = "half-open"
  <2>1. afterRequest(b, k, Succeeded(outcome)) = NewGeneration(IF Succeeded(outcome) THEN "closed" ELSE "open")
    BY <1>2 DEF afterRequest, onSuccess, onFailure
  <2> QED
    BY <1>2, <2>1, NewGenerationType
<1>3. CASE k \in b.current /\ b.state # "half-open"
  <2>1. CASE Succeeded(outcome)
    <3>1. afterRequest(b, k, Succeeded(outcome)) = [b EXCEPT !.fails = 0, !.current = @ \ {k}]
      BY <1>3, <2>1 DEF afterRequest, onSuccess
    <3> DEFINE after == [b EXCEPT !.fails = 0, !.current = @ \ {k}]
    <3>2. /\ after.state = b.state /\ after.current = b.current \ {k}
          /\ after.fails = 0
      BY DEF Breakers
    <3>3. after \in Breakers(Callers)
      <4>1. 0 \in 0 .. Threshold - 1
        BY <2>1 DEF Breakers
      <4>2. b.current \ {k} \in SUBSET Callers
        BY DEF Breakers
      <4> QED
        BY <4>1, <4>2 DEF Breakers
    <3> QED
      BY <1>3, <2>1, <3>1, <3>2, <3>3
  <2>2. CASE ~Succeeded(outcome) /\ b.fails + 1 >= Threshold
    <3>1. afterRequest(b, k, Succeeded(outcome)) = NewGeneration("open") /\ b.fails + 1 = Threshold
      BY <1>3, <2>2 DEF afterRequest, onFailure, Breakers
    <3> QED
      BY <1>3, <2>2, <3>1, NewGenerationType
  <2>3. CASE ~Succeeded(outcome) /\ ~(b.fails + 1 >= Threshold)
    <3>1. afterRequest(b, k, Succeeded(outcome)) = [b EXCEPT !.fails = @ + 1, !.current = @ \ {k}]
      BY <1>3, <2>3 DEF afterRequest, onFailure
    <3> DEFINE after == [b EXCEPT !.fails = @ + 1, !.current = @ \ {k}]
    <3>2. /\ after.state = b.state /\ after.current = b.current \ {k}
          /\ after.fails = b.fails + 1
      BY DEF Breakers
    <3>3. after \in Breakers(Callers)
      <4>1. b.fails + 1 \in 0 .. Threshold - 1
        BY <2>3 DEF Breakers
      <4>2. b.current \ {k} \in SUBSET Callers
        BY DEF Breakers
      <4> QED
        BY <4>1, <4>2 DEF Breakers
    <3> QED
      BY <1>3, <2>3, <3>1, <3>2, <3>3
  <2> QED
    BY <2>1, <2>2, <2>3
<1> QED
  BY <1>1, <1>2, <1>3

\* The passing of time concerns the expiry alone.
LEMMA ElapseKeeps ==
  ASSUME NEW b \in Breakers(Callers)
  PROVE  /\ Elapse(b) \in Breakers(Callers)
         /\ Elapse(b).state = b.state /\ Elapse(b).current = b.current
         /\ Elapse(b).fails = b.fails
<1>1. CASE b.state = "half-open" \/ b.left < 0
  BY <1>1 DEF Elapse
<1>2. CASE ~(b.state = "half-open" \/ b.left < 0)
  <2>1. Elapse(b) = [b EXCEPT !.left = @ - 1]
    BY <1>2 DEF Elapse
  <2>2. b.left - 1 \in -1 .. Interval \cup -1 .. Timeout
    BY <1>2, BreakerAssumption DEF BreakerAssumption, Breakers
  <2> QED
    BY <2>1, <2>2 DEF Breakers
<1> QED
  BY <1>1, <1>2

-----------------------------------------------------------------------------
\* A closed circuit and idle callers satisfy the inductive invariant.
LEMMA InitIInv == Init => IInv
<1> SUFFICES ASSUME Init PROVE IInv
  OBVIOUS
<1> USE BreakerAssumption DEF BreakerAssumption, Init
<1>1. /\ breaker \in Breakers(Callers) /\ breaker.state = "closed"
      /\ breaker.current = {} /\ breaker.fails = 0
  BY NewGenerationType
<1>2. TypeOK
  <2> DEFINE some == CHOOSE n \in Notes : TRUE
  <2>1. some \in Notes
    BY ChamadosAssumption DEF ChamadosAssumption
  <2> HIDE DEF some
  <2>2. some = <<some[1], some[2]>> /\ some[1] \in Citizens /\ some[2] \in ChamadoIDs
    BY <2>1, ChamadosAssumption DEF ChamadosAssumption, Citizens, ChamadoIDs
  <2>3. some \in Pairs
    BY <2>2 DEF Pairs
  <2>4. pair = [k \in Callers |-> some]
    BY DEF some
  <2>5. pair \in [Callers -> Pairs]
    BY <2>3, <2>4, Zenon
  <2>6. /\ pc \in [Callers -> {"idle", "check", "enter", "fly"}]
        /\ kind \in [Callers -> {"summary", "callback"}]
        /\ live \in [Callers -> BOOLEAN]
        /\ answer \in [Callers -> Answers]
        /\ configured \in BOOLEAN
        /\ failures \in 0 .. Threshold
    BY DEF Answers
  <2> QED
    BY <1>1, <2>5, <2>6 DEF TypeOK
<1>3. CheckedBefore /\ NoPeeking /\ NoClientNoCall
  BY DEF CheckedBefore, NoPeeking, NoClientNoCall
<1>4. OneProbe /\ FailuresBehindIt
  BY <1>1 DEF OneProbe, FailuresBehindIt
<1> QED
  BY <1>2, <1>3, <1>4 DEF IInv

\* Stores, outages and hang-ups change neither breaker nor calls in flight.
LEMMA SurroundingsStep ==
  ASSUME IInv, \/ \E n \in Notes : Store(n)
               \/ \E x \in {"database", "upstream"} : Flip(x)
               \/ \E k \in Callers : HangUp(k)
  PROVE  IInv'
<1>1. /\ UNCHANGED <<configured, breaker, pc, kind, pair, answer, asked, failures, since>>
      /\ stored \subseteq stored'
  BY DEF Store, Flip, HangUp, caller
<1>2. TypeOK'
  BY DEF IInv, TypeOK, Store, Flip, HangUp, caller
<1>3. CheckedBefore' /\ NoPeeking' /\ NoClientNoCall'
  BY <1>1 DEF IInv, CheckedBefore, NoPeeking, NoClientNoCall
<1>4. OneProbe' /\ FailuresBehindIt'
  BY <1>1 DEF IInv, OneProbe, FailuresBehindIt
<1> QED
  BY <1>2, <1>3, <1>4 DEF IInv

\* Nor does the clock.
LEMMA TickStep ==
  ASSUME IInv, Tick PROVE IInv'
<1> USE DEF IInv, Tick, caller
<1>1. /\ breaker' \in Breakers(Callers)
      /\ breaker'.state = breaker.state /\ breaker'.current = breaker.current
      /\ breaker'.fails = breaker.fails
  BY ElapseKeeps DEF TypeOK
<1>2. TypeOK'
  BY <1>1 DEF TypeOK
<1>3. CheckedBefore' /\ NoPeeking' /\ NoClientNoCall'
  BY DEF CheckedBefore, NoPeeking, NoClientNoCall
<1>4. OneProbe' /\ FailuresBehindIt'
  BY <1>1 DEF OneProbe, FailuresBehindIt
<1> QED
  BY <1>2, <1>3, <1>4

\* A summary that is answered at once leaves everything else alone.
LEMMA RefuseStep ==
  ASSUME IInv, NEW k \in Callers,
         \/ Unconfigured(k)
         \/ \E p \in Pairs : UnknownCitizen(k, p) \/ InvalidID(k, p)
  PROVE  IInv'
<1>1. PICK code \in Answers :
        Refuse(k, code) /\ (code = "503-unconfigured" => ~configured)
  BY DEF Unconfigured, UnknownCitizen, InvalidID, Answers
<1> USE DEF IInv
<1>2. /\ UNCHANGED <<configured, stored, up, breaker, pc, kind, pair, live, asked,
                     failures, since>>
      /\ answer' = [answer EXCEPT ![k] = code]
  BY <1>1 DEF Refuse
<1>3. TypeOK'
  BY <1>2 DEF TypeOK
<1>4. CheckedBefore' /\ NoPeeking' /\ OneProbe' /\ FailuresBehindIt'
  BY <1>2 DEF CheckedBefore, NoPeeking, OneProbe, FailuresBehindIt
<1>5. NoClientNoCall'
  BY <1>1, <1>2 DEF TypeOK, NoClientNoCall
<1> QED
  BY <1>3, <1>4, <1>5

\* A request arrives; a callback is about a stored notification.
LEMMA ArriveStep ==
  ASSUME IInv, NEW k \in Callers, NEW p \in Pairs, Summary(k, p) \/ Callback(k, p)
  PROVE  IInv'
<1> USE DEF IInv, Summary, Callback, Begin
<1>1. TypeOK'
  <2>1. CASE Summary(k, p)
    BY <2>1 DEF TypeOK, Answers
  <2>2. CASE Callback(k, p)
    BY <2>2 DEF TypeOK, Answers
  <2> QED
    BY <2>1, <2>2
<1>2. CheckedBefore' /\ NoPeeking' /\ NoClientNoCall'
  BY DEF TypeOK, CheckedBefore, NoPeeking, NoClientNoCall
<1>3. OneProbe' /\ FailuresBehindIt'
  BY DEF TypeOK, OneProbe, FailuresBehindIt, Breakers
<1> QED
  BY <1>1, <1>2, <1>3

\* The database's answer: who is not notified does not pass.
LEMMA CheckStep ==
  ASSUME IInv, NEW k \in Callers, Check(k) \/ CheckFails(k) PROVE IInv'
<1> USE DEF IInv, Check, CheckFails, End, CitizenHasNotificationForChamado
<1>1. TypeOK'
  BY DEF TypeOK, Answers
<1>2. CheckedBefore' /\ NoPeeking' /\ NoClientNoCall'
  BY DEF TypeOK, CheckedBefore, NoPeeking, NoClientNoCall
<1>3. OneProbe' /\ FailuresBehindIt'
  BY DEF TypeOK, OneProbe, FailuresBehindIt, Breakers
<1> QED
  BY <1>1, <1>2, <1>3

\* Execute admits a caller to a closed circuit, or as the probe of a half-open
\* one that has none.
LEMMA EnterStep ==
  ASSUME IInv, NEW k \in Callers, Enter(k) PROVE IInv'
<1> USE DEF IInv, Enter
<1> DEFINE now == currentState(breaker, FALSE)
<1>1. /\ now \in Breakers(Callers)
      /\ \/ now = breaker
         \/ /\ now.current = {} /\ now.fails = 0
            /\ \/ breaker.state = "closed" /\ now.state = "closed"
               \/ breaker.state = "open" /\ now.state = "half-open"
  BY CurrentStateKeeps DEF TypeOK
<1>2. now.current \subseteq breaker.current /\ now.fails \in Nat
  <2> HIDE DEF now
  <2>1. now.fails \in 0 .. Threshold - 1
    BY <1>1 DEF Breakers
  <2> QED
    BY <1>1, <2>1
<1>3. CASE Refusal(now) = "none"
  <2>1. /\ now.state = "closed" \/ (now.state = "half-open" /\ now.current = {})
        /\ breaker' \in Breakers(Callers) /\ breaker'.state = now.state
        /\ breaker'.fails = now.fails /\ breaker'.current = now.current \cup {k}
    BY <1>1, <1>3, Admission
  <2>2. /\ pc' = [pc EXCEPT ![k] = "fly"] /\ UNCHANGED <<kind, pair, live, answer>>
        /\ asked' = IF kind[k] = "summary" THEN asked \cup {pair[k]} ELSE asked
        /\ since' = IF now.state = "closed" THEN since ELSE since \cup {k}
    BY <1>3
  <2> HIDE DEF now
  <2>3. TypeOK'
    BY <2>1, <2>2 DEF TypeOK
  <2>4. CheckedBefore' /\ NoPeeking' /\ NoClientNoCall'
    BY <2>2 DEF TypeOK, CheckedBefore, NoPeeking, NoClientNoCall
  <2>5. since = IF breaker.state = "half-open" THEN breaker.current ELSE {}
    BY DEF OneProbe
  <2>6. OneProbe'
    <3>1. \A j \in breaker'.current : pc'[j] = "fly"
      BY <1>2, <2>1, <2>2 DEF TypeOK, OneProbe
    <3>2. CASE now.state = "closed"
      BY <1>1, <2>1, <2>2, <2>5, <3>1, <3>2 DEF OneProbe
    <3>3. CASE now.state = "half-open"
      <4>1. now.current = {} /\ since = {}
        BY <1>1, <2>1, <2>5, <3>3
      <4>2. since' = {k} /\ breaker'.current = {k}
        BY <2>1, <2>2, <3>3, <4>1
      <4> QED
        BY <2>1, <3>1, <3>3, <4>2 DEF OneProbe
    <3> QED
      BY <2>1, <3>2, <3>3
  <2>7. FailuresBehindIt'
    BY <1>1, <1>2, <2>1 DEF TypeOK, FailuresBehindIt
  <2> QED
    BY <2>3, <2>4, <2>6, <2>7
<1>4. CASE Refusal(now) # "none"
  <2>1. now.state = "open" \/ (now.state = "half-open" /\ now.current # {})
    BY <1>1, <1>4, Admission DEF Breakers
  <2>2. breaker' = now /\ now = breaker
    BY <1>1, <1>4, <2>1
  <2>3. UNCHANGED <<configured, asked, since, stored, up, failures>>
    BY <1>4
  <2>4. pc' = [pc EXCEPT ![k] = "idle"] /\ UNCHANGED <<kind, pair>>
    BY <1>4 DEF End
  <2>5. TypeOK'
    BY <1>4, <2>2, <2>3, <2>4 DEF TypeOK, Answers, End
  <2>6. CheckedBefore' /\ NoPeeking'
    BY <2>3, <2>4 DEF TypeOK, CheckedBefore, NoPeeking
  <2>a. NoClientNoCall'
    <3>1. configured
      BY DEF NoClientNoCall
    <3>2. PICK code \in Answers \ {"503-unconfigured"} : answer' = [answer EXCEPT ![k] = code]
      <4>1. "none" \in Answers /\ "502" \in Answers /\ "503-unavailable" \in Answers
        BY DEF Answers
      <4> QED
        BY <1>4, <4>1 DEF End
    <3> HIDE DEF now, Enter
    <3> QED
      BY <2>3, <3>1, <3>2 DEF TypeOK, NoClientNoCall
  <2> HIDE DEF now
  <2>7. OneProbe' /\ FailuresBehindIt'
    BY <2>2, <2>3, <2>4 DEF TypeOK, OneProbe, FailuresBehindIt, Breakers
  <2> QED
    BY <2>5, <2>6, <2>7, <2>a
<1> QED
  BY <1>3, <1>4

\* The result of a call: one of an earlier generation changes nothing, the
\* probe's closes the circuit or opens it again.
LEMMA ReturnStep ==
  ASSUME IInv, NEW k \in Callers, NEW outcome \in {"200", "404", "500", "error"},
         Return(k, outcome)
  PROVE  IInv'
<1> DEFINE now == currentState(breaker, FALSE)
<1>1. /\ now \in Breakers(Callers)
      /\ \/ now = breaker
         \/ /\ now.current = {} /\ now.fails = 0
            /\ \/ breaker.state = "closed" /\ now.state = "closed"
               \/ breaker.state = "open" /\ now.state = "half-open"
  BY CurrentStateKeeps DEF IInv, TypeOK
<1>2. /\ breaker' = afterRequest(now, k, Succeeded(outcome))
      /\ pc' = [pc EXCEPT ![k] = "idle"] /\ since' = since \ {k}
      /\ UNCHANGED <<configured, stored, up, asked, kind, pair>>
  BY DEF Return, End
<1> HIDE DEF now
<1>3. /\ breaker' \in Breakers(Callers)
      /\ k \notin now.current => breaker' = now
      /\ k \in now.current /\ now.state = "half-open" =>
           /\ breaker'.state = IF Succeeded(outcome) THEN "closed" ELSE "open"
           /\ breaker'.current = {} /\ breaker'.fails = 0
      /\ k \in now.current /\ now.state # "half-open" =>
           \/ /\ breaker'.state = now.state /\ breaker'.current = now.current \ {k}
              /\ breaker'.fails = IF Succeeded(outcome) THEN 0 ELSE now.fails + 1
           \/ /\ ~Succeeded(outcome) /\ now.fails + 1 = Threshold
              /\ breaker'.state = "open" /\ breaker'.current = {} /\ breaker'.fails = 0
  BY <1>1, <1>2, ResultCounts
<1>4. /\ breaker.state \in {"closed", "open", "half-open"} /\ now.fails \in 0 .. Threshold - 1
      /\ breaker.fails \in 0 .. Threshold - 1
      /\ Threshold \in Nat \ {0} /\ failures \in 0 .. Threshold
  BY <1>1, BreakerAssumption DEF BreakerAssumption, IInv, TypeOK, Breakers
<1>5. failures' = IF breaker.state # "closed" /\ breaker'.state = "closed" THEN 0
                  ELSE IF ~Succeeded(outcome) /\ failures < Threshold
                  THEN failures + 1 ELSE failures
  BY DEF Return, Succeeded
<1>6. TypeOK'
  <2>1. failures' \in 0 .. Threshold
    BY <1>4, <1>5
  <2>2. /\ answer' \in [Callers -> Answers]
        /\ live' \in [Callers -> BOOLEAN]
    BY DEF IInv, TypeOK, Answers, Return, End, Succeeded
  <2> QED
    BY <1>2, <1>3, <2>1, <2>2 DEF IInv, TypeOK
<1> USE DEF IInv
<1>7. CheckedBefore' /\ NoPeeking'
  BY <1>2 DEF TypeOK, CheckedBefore, NoPeeking
<1>a. NoClientNoCall'
  BY <1>2 DEF TypeOK, NoClientNoCall, Return, End
<1>8. since = IF breaker.state = "half-open" THEN breaker.current ELSE {}
  BY DEF OneProbe
<1>9. OneProbe'
  <2>1. /\ \A j \in breaker'.current : j \in breaker.current /\ j # k
    BY <1>1, <1>3
  <2>2. \A j \in breaker'.current : pc'[j] = "fly"
    BY <1>2, <2>1 DEF TypeOK, OneProbe
  <2>3. since' = IF breaker'.state = "half-open" THEN breaker'.current ELSE {}
    <3>1. CASE k \notin now.current
      BY <1>1, <1>2, <1>3, <1>8, <3>1
    <3>2. CASE k \in now.current /\ now.state = "half-open"
      <4>1. now = breaker /\ since = now.current
        BY <1>1, <1>8, <3>2
      <4> QED
        BY <1>2, <1>3, <3>2, <4>1 DEF OneProbe
    <3>3. CASE k \in now.current /\ now.state # "half-open"
      BY <1>1, <1>2, <1>3, <1>8, <3>3
    <3> QED
      BY <3>1, <3>2, <3>3
  <2>4. \A i, j \in since' : i = j
    BY <1>2 DEF OneProbe
  <2> QED
    BY <2>2, <2>3, <2>4 DEF OneProbe
<1>10. FailuresBehindIt'
  <2>1. IF breaker.state = "closed" THEN breaker.fails <= failures ELSE failures = Threshold
    BY DEF FailuresBehindIt
  <2>2. IF breaker'.state = "closed" THEN breaker'.fails <= failures'
        ELSE failures' = Threshold
    <3>1. CASE k \notin now.current
      BY <1>1, <1>3, <1>4, <1>5, <2>1, <3>1
    <3>2. CASE k \in now.current /\ now.state = "half-open"
      BY <1>1, <1>3, <1>4, <1>5, <2>1, <3>2
    <3>3. CASE k \in now.current /\ now.state # "half-open"
      BY <1>1, <1>3, <1>4, <1>5, <2>1, <3>3
    <3> QED
      BY <3>1, <3>2, <3>3
  <2> QED
    BY <2>2 DEF FailuresBehindIt
<1> QED
  BY <1>6, <1>7, <1>9, <1>10, <1>a

\* Stuttering included, every step preserves the inductive invariant.
LEMMA NextIInv == IInv /\ [Next]_vars => IInv'
<1> SUFFICES ASSUME IInv, [Next]_vars PROVE IInv'
  OBVIOUS
<1>1. CASE UNCHANGED vars
  BY <1>1 DEF vars, caller, IInv, TypeOK, CheckedBefore, NoPeeking, NoClientNoCall,
     OneProbe, FailuresBehindIt
<1>2. CASE Next
  BY <1>2, SurroundingsStep, TickStep, RefuseStep, ArriveStep, CheckStep, EnterStep, ReturnStep
     DEF Next, Progress
<1> QED
  BY <1>1, <1>2

\* The inductive invariant holds in every reachable state.
LEMMA IInvHolds == Spec => []IInv
BY InitIInv, NextIInv, PTL DEF Spec

\* A closed circuit never holds Threshold failures, and the rest keeps its
\* shape.
THEOREM TypeCorrect == Spec => []TypeOK
<1>1. IInv => TypeOK
  BY DEF IInv
<1> QED
  BY <1>1, IInvHolds, PTL

\* GetSummary asks the upstream nothing for a citizen without a notification of
\* the chamado.
THEOREM Unpeeked == Spec => []NoPeeking
<1>1. IInv => NoPeeking
  BY DEF IInv
<1> QED
  BY <1>1, IInvHolds, PTL

\* Of the calls, summaries and callbacks, that the breaker let through since the
\* circuit opened at most one is in flight.
THEOREM Shielded == Spec => []UpstreamShielded
<1>1. IInv => UpstreamShielded
  <2> SUFFICES ASSUME IInv PROVE UpstreamShielded
    OBVIOUS
  <2>1. since = {} \/ \E k : since = {k}
    BY DEF IInv, OneProbe
  <2>2. CASE since = {}
    BY <2>2, FS_EmptySet DEF UpstreamShielded
  <2>3. ASSUME NEW k, since = {k} PROVE UpstreamShielded
    <3>1. Cardinality(since) = 1
      BY <2>3, FS_Singleton
    <3> QED
      BY <3>1 DEF IInv, OneProbe, UpstreamShielded
  <2> QED
    BY <2>1, <2>2, <2>3
<1> QED
  BY <1>1, IInvHolds, PTL

\* The summary's errors have their causes: 503 unconfigured no client, 503
\* unavailable a circuit that Threshold failures have opened, 502 that or the
\* failure of the client's own call.
THEOREM TurnedAway == Spec => TurnedAwayWithCause
<1> DEFINE Cause(k) ==
       /\ answer'[k] = "503-unconfigured" => ~configured
       /\ answer'[k] = "503-unavailable" /\ answer[k] # answer'[k] =>
            configured /\ failures >= Threshold
       /\ answer'[k] = "502" /\ answer[k] # answer'[k] =>
            \/ pc[k] = "fly" /\ (~live[k] \/ "upstream" \notin up)
            \/ pc[k] = "enter" /\ failures >= Threshold
<1>1. ASSUME IInv, [Next]_vars, NEW k \in Callers,
             answer'[k] \in {"502", "503-unavailable"}, answer[k] # answer'[k]
      PROVE  \/ /\ answer'[k] = "502"
                /\ pc[k] = "fly" /\ (~live[k] \/ "upstream" \notin up)
             \/ pc[k] = "enter" /\ failures >= Threshold
  <2>1. PICK j \in Callers :
          \/ Unconfigured(j)
          \/ \E p \in Pairs : UnknownCitizen(j, p) \/ InvalidID(j, p)
          \/ \E p \in Pairs : Summary(j, p) \/ Callback(j, p)
          \/ Check(j) \/ CheckFails(j) \/ Enter(j)
          \/ \E outcome \in {"200", "404", "500", "error"} : Return(j, outcome)
    BY <1>1 DEF Next, Progress, vars, caller, Store, Flip, Tick, HangUp
  <2>2. answer \in [Callers -> Answers]
    BY <1>1 DEF IInv, TypeOK
  <2>3. CASE Enter(j)
    <3> DEFINE now == currentState(breaker, FALSE)
    <3>1. Refusal(now) # "none" /\ j = k
      BY <1>1, <2>2, <2>3 DEF Enter, End
    <3>2. /\ now \in Breakers(Callers)
          /\ now.state = "closed" <=> breaker.state = "closed"
      BY <1>1, CurrentStateKeeps DEF IInv, TypeOK
    <3>3. breaker.state # "closed"
      BY <3>1, <3>2, Admission
    <3> QED
      BY <1>1, <2>3, <3>1, <3>3, BreakerAssumption
         DEF BreakerAssumption, Enter, IInv, FailuresBehindIt
  <2>4. ASSUME NEW outcome \in {"200", "404", "500", "error"}, Return(j, outcome)
        PROVE  /\ answer'[k] = "502"
               /\ pc[k] = "fly" /\ (~live[k] \/ "upstream" \notin up)
    BY <1>1, <2>2, <2>4 DEF Return, End, Succeeded, Outcomes
  <2>5. /\ ~Unconfigured(j)
        /\ ~(\E p \in Pairs : UnknownCitizen(j, p) \/ InvalidID(j, p))
        /\ ~(\E p \in Pairs : Summary(j, p) \/ Callback(j, p))
    BY <1>1, <2>2 DEF Unconfigured, UnknownCitizen, InvalidID, Refuse, Summary, Callback
  <2>6. ~Check(j) /\ ~CheckFails(j)
    BY <1>1, <2>2 DEF Check, CheckFails, End
  <2> QED
    BY <2>1, <2>3, <2>4, <2>5, <2>6
<1>2. ASSUME IInv, [Next]_vars, NEW k \in Callers PROVE Cause(k)
  <2>1. NoClientNoCall /\ NoClientNoCall' /\ configured' = configured
    <3>1. configured' = configured
      BY <1>2 DEF Next, Progress, vars, Store, Flip, Tick, HangUp, Unconfigured,
         UnknownCitizen, InvalidID, Refuse, Summary, Callback, Begin, Check, CheckFails,
         Enter, Return
    <3> QED
      BY <1>2, <3>1, NextIInv DEF IInv
  <2> QED
    BY <1>1, <1>2, <2>1 DEF NoClientNoCall
<1>3. IInv /\ [Next]_vars => [\A k \in Callers : Cause(k)]_vars
  BY <1>2
<1> QED
  BY <1>3, IInvHolds, PTL DEF Spec, TurnedAwayWithCause

\* The circuit closes on the success of a call let through after it opened.
THEOREM ProbeCloses == Spec => OnlyProbeCloses
<1>1. ASSUME IInv, [Next]_vars, breaker.state # "closed", breaker'.state = "closed"
      PROVE  \E k \in since : pc'[k] = "idle" /\ live[k] /\ "upstream" \in up
  <2>1. breaker \in Breakers(Callers)
    BY <1>1 DEF IInv, TypeOK
  <2> DEFINE now == currentState(breaker, FALSE)
  <2>2. /\ now \in Breakers(Callers) /\ now.state # "closed"
        /\ now = breaker \/ now.current = {}
    BY <1>1, <2>1, CurrentStateKeeps
  <2>3. PICK k \in Callers :
          \/ Enter(k)
          \/ \E outcome \in {"200", "404", "500", "error"} : Return(k, outcome)
    <3>1. ~Tick
      BY <1>1, <2>1, ElapseKeeps DEF Tick
    <3> QED
      BY <1>1, <3>1 DEF Next, Progress, vars, caller, Store, Flip, HangUp,
         Unconfigured, UnknownCitizen, InvalidID, Refuse, Summary, Callback, Begin,
         Check, CheckFails
  <2>4. ~Enter(k)
    <3> SUFFICES ASSUME Enter(k) PROVE FALSE
      OBVIOUS
    <3>1. breaker'.state = now.state
      BY <2>2, Admission DEF Enter
    <3> QED
      BY <1>1, <2>2, <3>1
  <2>5. PICK outcome \in {"200", "404", "500", "error"} : Return(k, outcome)
    BY <2>3, <2>4
  <2>6. breaker' = afterRequest(now, k, Succeeded(outcome))
    BY <2>5 DEF Return
  <2> HIDE DEF now
  <2>7. k \in now.current /\ now.state = "half-open" /\ Succeeded(outcome)
    BY <1>1, <2>2, <2>6, ResultCounts
  <2>8. k \in since
    BY <1>1, <2>2, <2>7 DEF IInv, OneProbe
  <2>9. live[k] /\ "upstream" \in up
    BY <2>5, <2>7 DEF Return, Outcomes, Succeeded
  <2>10. pc'[k] = "idle"
    BY <1>1, <2>5 DEF IInv, TypeOK, Return, End
  <2> QED
    BY <2>8, <2>9, <2>10
<1>2. IInv /\ [Next]_vars =>
        [breaker.state # "closed" /\ breaker'.state = "closed" =>
           \E k \in since : pc'[k] = "idle" /\ live[k] /\ "upstream" \in up]_vars
  BY <1>1
<1> QED
  BY <1>2, IInvHolds, PTL DEF Spec, OnlyProbeCloses

-----------------------------------------------------------------------------
\* The goroutine and its ticker: a call has ended when the next tick comes.
PingClock ==
  /\ mapasPC = "start" => next = Period /\ ~fired
  /\ mapasPC = "call" => next = Period - flight /\ ~fired
  /\ mapasPC = "store" => ~fired
  /\ mapasPC = "idle" /\ fired => next = Period
  /\ mapasPC # "call" => flight = 0
  /\ mapasPC = "off" => cancelled

\* Ticks since the last ping was due, with a Period more for one under way.
Waited ==
  IF mapasPC = "call" THEN Period + flight
  ELSE IF fired THEN Period ELSE Period - next

\* The same, for the failures the breaker will have counted: a call of an
\* earlier generation adds nothing.
Lag == IF mapasPC = "call" /\ mapasBreaker.current = {} THEN flight ELSE Waited

\* The ping is the breaker's only caller.  Failures are counted in a closed
\* circuit, and by pings of its own generation.
PingGeneration ==
  /\ mapasPC # "call" => mapasBreaker.current = {}
  /\ mapasPC = "call" => mapasBreaker.state # "open"
  /\ mapasPC = "call" /\ mapasBreaker.current = {} =>
       mapasBreaker.state = "closed" /\ mapasBreaker.fails = 0
  /\ mapasBreaker.state # "closed" => mapasBreaker.fails = 0
  /\ mapasBreaker.state = "open" => mapasBreaker.left <= Timeout

\* What the breaker knows is noted, or about to be.
FailuresNoted ==
  /\ mapasBreaker.fails > 0 =>
       IF mapasPC = "store" THEN result = "failed" ELSE lastPingErr = "failed"
  /\ mapasBreaker.state # "closed" =>
       /\ lastPingErr \in {"failed", "ErrOpenState"}
       /\ mapasPC = "store" => result # "none"
  /\ rpc = "between" /\ ~crossed => seen = lastPingErr

\* Once the upstream is up: an open circuit runs off its timeout, a half-open
\* one waits for a ping, a closed one for a ping that clears the error.
RecoveryUnderWay ==
  mapasUp /\ ~cancelled =>
    /\ mapasBreaker.state = "open" =>
         steady <= IF mapasBreaker.left >= 0 THEN Timeout - mapasBreaker.left
                   ELSE Timeout + Waited
    /\ mapasBreaker.state = "half-open" => steady <= Timeout + Waited
    /\ mapasBreaker.state = "closed" =>
         /\ mapasPC = "store" /\ result # "none" => steady = 0
         /\ lastPingErr # "none" =>
              steady <= IF mapasPC = "store" THEN RecoverBound ELSE Waited

\* The time the failures of the current generation account for.
Pinged == mapasBreaker.fails * Period

\* Once it is down: the failures counted account for the outage, or for the
\* generation, which then began in the outage and trips before it expires.
OutageUnderWay ==
  ~mapasUp /\ ~cancelled /\ mapasBreaker.state = "closed" =>
    \/ steady <= Pinged + Lag
    \/ /\ steady <= Threshold * Period + Pinged + Lag
       /\ Interval - mapasBreaker.left <= Pinged + Lag

PingInv ==
  /\ MapasTypeOK
  /\ PingClock
  /\ PingGeneration
  /\ FailuresNoted
  /\ RecoveryUnderWay
  /\ OutageUnderWay
  /\ StatusTellsWhy

-----------------------------------------------------------------------------
\* The arithmetic of DetectBound: f failures, one more, and Threshold of them.
LEMMA PingProducts ==
  ASSUME MapasSettings, NEW f \in 0 .. Threshold - 1
  PROVE  /\ f * Period \in Nat /\ Threshold * Period \in Nat
         /\ (f + 1) * Period = f * Period + Period
         /\ f * Period + Period <= Threshold * Period
         /\ DetectBound = Threshold * Period + Threshold * Period + HTTPTimeout
         /\ Threshold * Period + HTTPTimeout < Interval
         /\ 0 * Period = 0
<1> USE BreakerAssumption DEF BreakerAssumption, MapasSettings
<1>1. f \in Nat /\ Period \in Nat /\ Threshold \in Nat /\ HTTPTimeout \in Nat
  OBVIOUS
<1>2. f * Period \in Nat /\ Threshold * Period \in Nat
  BY <1>1
<1>3. (f + 1) * Period = f * Period + Period
  BY <1>1
<1>4. f * Period + Period <= Threshold * Period
  <2>1. PICK d \in Nat : Threshold = f + 1 + d
    <3>1. Threshold - f - 1 \in Nat /\ Threshold = f + 1 + (Threshold - f - 1)
      OBVIOUS
    <3> QED
      BY <3>1
  <2>2. Threshold * Period = f * Period + Period + d * Period
    BY <1>1, <2>1
  <2>3. d * Period \in Nat
    BY <1>1, <2>1
  <2> QED
    BY <1>2, <2>2, <2>3
<1>5. DetectBound = Threshold * Period + Threshold * Period + HTTPTimeout
  <2>1. 2 * Threshold * Period = Threshold * Period + Threshold * Period
    BY <1>1
  <2> QED
    BY <2>1 DEF DetectBound
<1>6. Threshold * Period + HTTPTimeout < Interval
  OBVIOUS
<1> QED
  BY <1>1, <1>2, <1>3, <1>4, <1>5, <1>6

\* The settings are numbers.
LEMMA PingSettings ==
  ASSUME MapasSettings
  PROVE  /\ Period \in Nat /\ HTTPTimeout \in Nat /\ Interval \in Nat /\ Timeout \in Nat
         /\ Threshold \in Nat /\ Threshold >= 2
         /\ 0 < HTTPTimeout /\ HTTPTimeout < Period
         /\ RecoverBound = Timeout + Period + HTTPTimeout
         /\ Longest \in Nat /\ DetectBound <= Longest /\ RecoverBound <= Longest
         /\ DetectBound \in Nat
<1> USE BreakerAssumption DEF BreakerAssumption, MapasSettings
<1>1. /\ Period \in Nat /\ HTTPTimeout \in Nat /\ Interval \in Nat /\ Timeout \in Nat
      /\ Threshold \in Nat /\ Threshold >= 2
      /\ 0 < HTTPTimeout /\ HTTPTimeout < Period
  OBVIOUS
<1>2. RecoverBound = Timeout + Period + HTTPTimeout /\ RecoverBound \in Nat
  BY <1>1 DEF RecoverBound
<1>3. DetectBound \in Nat
  <2>1. 0 \in 0 .. Threshold - 1
    BY <1>1
  <2>2. /\ Threshold * Period \in Nat
        /\ DetectBound = Threshold * Period + Threshold * Period + HTTPTimeout
    BY <2>1, PingProducts
  <2> QED
    BY <1>1, <2>2
<1>4. Longest \in Nat /\ DetectBound <= Longest /\ RecoverBound <= Longest
  BY <1>2, <1>3 DEF Longest
<1> QED
  BY <1>1, <1>2, <1>3, <1>4

\* The ping's breaker: a new generation ...
LEMMA PingNewGeneration ==
  ASSUME NEW s \in {"closed", "open", "half-open"}
  PROVE  /\ NewGeneration(s) \in Breakers({"ping"})
         /\ NewGeneration(s).state = s
         /\ NewGeneration(s).current = {} /\ NewGeneration(s).fails = 0
         /\ s = "closed" => NewGeneration(s).left = Interval
         /\ s = "open" => NewGeneration(s).left = Timeout
BY BreakerAssumption DEF BreakerAssumption, NewGeneration, Breakers

\* ... what looking at the state may change ...
LEMMA PingLooks ==
  ASSUME NEW b \in Breakers({"ping"}), NEW late \in BOOLEAN
  PROVE  LET now == currentState(b, late)
         IN  /\ now \in Breakers({"ping"})
             /\ \/ now = b /\ ~(b.state = "open" /\ b.left < 0)
                \/ /\ now.current = {} /\ now.fails = 0 /\ b.left <= 0
                   /\ \/ b.state = "closed" /\ now.state = "closed" /\ now.left = Interval
                      \/ b.state = "open" /\ now.state = "half-open"
<1>1. b.state \in {"closed", "open", "half-open"} /\ b.left \in Int
  BY BreakerAssumption DEF BreakerAssumption, Breakers
<1>2. CASE ~Expired(b, late)
  <2>1. currentState(b, late) = b
    BY <1>2 DEF currentState
  <2>2. ~(b.state = "open" /\ b.left < 0)
    BY <1>2 DEF Expired
  <2> QED
    BY <2>1, <2>2
<1>3. CASE Expired(b, late)
  <2>1. b.state # "half-open" /\ b.left <= 0
    BY <1>1, <1>3 DEF Expired
  <2>2. CASE b.state = "open"
    <3>1. currentState(b, late) = NewGeneration("half-open")
      BY <1>3, <2>2 DEF currentState
    <3> QED
      BY <2>1, <2>2, <3>1, PingNewGeneration
  <2>3. CASE b.state = "closed"
    <3>1. currentState(b, late) = NewGeneration("closed")
      BY <1>3, <2>3 DEF currentState
    <3> QED
      BY <2>1, <2>3, <3>1, PingNewGeneration
  <2> QED
    BY <1>1, <2>1, <2>2, <2>3
<1> QED
  BY <1>2, <1>3

\* ... whom it admits ...
LEMMA PingAdmitted ==
  ASSUME NEW b \in Breakers({"ping"}), b.current = {}
  PROVE  /\ b.state = "open" =>
              Refusal(b) = "ErrOpenState" /\ beforeRequest(b, "ping") = b
         /\ b.state # "open" =>
              LET after == beforeRequest(b, "ping")
              IN  /\ Refusal(b) = "none" /\ after \in Breakers({"ping"})
                  /\ after.current = {"ping"} /\ after.state = b.state
                  /\ after.fails = b.fails /\ after.left = b.left
BY DEF Breakers, Refusal, beforeRequest

\* ... what a result does, if it counts ...
LEMMA PingCounts ==
  ASSUME NEW b \in Breakers({"ping"}), NEW ok \in BOOLEAN, b.state # "open"
  PROVE  LET after == afterRequest(b, "ping", ok)
         IN  /\ after \in Breakers({"ping"})
             /\ after.current = {}
             /\ b.current = {} => after = b
             /\ b.current # {} /\ b.state = "half-open" =>
                  /\ after.state = IF ok THEN "closed" ELSE "open"
                  /\ after.fails = 0
                  /\ after.state = "open" => after.left = Timeout
             /\ b.current # {} /\ b.state = "closed" =>
                  \/ /\ after.state = "closed" /\ after.left = b.left
                     /\ after.fails = IF ok THEN 0 ELSE b.fails + 1
                  \/ /\ ~ok /\ b.fails + 1 >= Threshold
                     /\ after.state = "open" /\ after.fails = 0 /\ after.left = Timeout
<1> USE BreakerAssumption DEF BreakerAssumption
<1>1. b.current = {} \/ b.current = {"ping"}
  BY DEF Breakers
<1>2. b.state \in {"closed", "half-open"} /\ b.fails \in 0 .. Threshold - 1
  BY DEF Breakers
<1>3. CASE b.current = {}
  <2>1. afterRequest(b, "ping", ok) = b
    BY <1>3 DEF afterRequest
  <2> QED
    BY <1>3, <2>1
<1>4. CASE b.current = {"ping"} /\ b.state = "half-open"
  <2>1. afterRequest(b, "ping", ok) = NewGeneration(IF ok THEN "closed" ELSE "open")
    BY <1>4 DEF afterRequest, onSuccess, onFailure
  <2> QED
    BY <1>4, <2>1, PingNewGeneration
<1>5. CASE b.current = {"ping"} /\ b.state = "closed" /\ ~ok /\ b.fails + 1 >= Threshold
  <2>1. afterRequest(b, "ping", ok) = NewGeneration("open")
    BY <1>5 DEF afterRequest, onFailure
  <2> QED
    BY <1>5, <2>1, PingNewGeneration
<1>6. CASE b.current = {"ping"} /\ b.state = "closed" /\ (ok \/ ~(b.fails + 1 >= Threshold))
  <2> DEFINE f == IF ok THEN 0 ELSE b.fails + 1
             after == [b EXCEPT !.fails = f, !.current = {}]
  <2>1. afterRequest(b, "ping", ok) = after
    <3>1. b.current \ {"ping"} = {}
      BY <1>6
    <3> QED
      BY <1>6, <3>1 DEF afterRequest, onSuccess, onFailure
  <2>2. f \in 0 .. Threshold - 1
    BY <1>2, <1>6
  <2>3. after \in Breakers({"ping"})
    BY <2>2 DEF Breakers
  <2>4. /\ after.state = b.state /\ after.left = b.left
        /\ after.fails = f /\ after.current = {}
    BY DEF Breakers
  <2> HIDE DEF after
  <2> QED
    BY <1>6, <2>1, <2>3, <2>4
<1> QED
  BY <1>1, <1>2, <1>3, <1>4, <1>5, <1>6

\* ... and what time does.
LEMMA PingElapses ==
  ASSUME NEW b \in Breakers({"ping"})
  PROVE  /\ Elapse(b) \in Breakers({"ping"})
         /\ Elapse(b).state = b.state /\ Elapse(b).current = b.current
         /\ Elapse(b).fails = b.fails
         /\ Elapse(b).left =
              IF b.state = "half-open" \/ b.left < 0 THEN b.left ELSE b.left - 1
<1>1. CASE b.state = "half-open" \/ b.left < 0
  BY <1>1 DEF Elapse
<1>2. CASE ~(b.state = "half-open" \/ b.left < 0)
  <2>1. Elapse(b) = [b EXCEPT !.left = @ - 1]
    BY <1>2 DEF Elapse
  <2>2. b.left - 1 \in -1 .. Interval \cup -1 .. Timeout
    BY <1>2, BreakerAssumption DEF BreakerAssumption, Breakers
  <2> QED
    BY <1>2, <2>1, <2>2 DEF Breakers
<1> QED
  BY <1>1, <1>2

\* The shapes the steps below compute with.
LEMMA PingTypes ==
  ASSUME MapasSettings, PingInv
  PROVE  /\ steady \in 0 .. Longest + 1 /\ next \in 1 .. Period
         /\ flight \in 0 .. HTTPTimeout /\ fired \in BOOLEAN
         /\ mapasUp \in BOOLEAN /\ cancelled \in BOOLEAN
         /\ mapasPC \in {"start", "idle", "call", "store", "off"}
         /\ mapasBreaker \in Breakers({"ping"})
         /\ mapasBreaker.state \in {"closed", "open", "half-open"}
         /\ mapasBreaker.current \in SUBSET {"ping"}
         /\ mapasBreaker.fails \in 0 .. Threshold - 1
         /\ mapasBreaker.left \in Int /\ mapasBreaker.left >= -1
         /\ Waited \in Nat /\ Waited <= Period + HTTPTimeout
         /\ Lag \in Nat /\ Lag <= Waited
<1>1. /\ steady \in 0 .. Longest + 1 /\ next \in 1 .. Period
      /\ flight \in 0 .. HTTPTimeout /\ fired \in BOOLEAN
      /\ mapasUp \in BOOLEAN /\ cancelled \in BOOLEAN
      /\ mapasPC \in {"start", "idle", "call", "store", "off"}
      /\ mapasBreaker \in Breakers({"ping"})
  BY DEF PingInv, MapasTypeOK
<1>2. /\ mapasBreaker.state \in {"closed", "open", "half-open"}
      /\ mapasBreaker.current \in SUBSET {"ping"}
      /\ mapasBreaker.fails \in 0 .. Threshold - 1
      /\ mapasBreaker.left \in Int /\ mapasBreaker.left >= -1
  BY <1>1, BreakerAssumption DEF BreakerAssumption, Breakers
<1>3. Waited \in Nat /\ Waited <= Period + HTTPTimeout /\ Lag \in Nat /\ Lag <= Waited
  BY <1>1, PingSettings DEF Waited, Lag
<1> QED
  BY <1>1, <1>2, <1>3

\* The properties follow.
LEMMA PingInvSuffices ==
  ASSUME MapasSettings, PingInv
  PROVE  NoticesRecovery /\ NoticesOutage
<1>1. NoticesRecovery
  <2> SUFFICES ASSUME mapasUp, ~cancelled, steady > RecoverBound
               PROVE  mapasBreaker.state = "closed" /\ lastPingErr = "none"
    BY DEF NoticesRecovery
  <2> USE PingTypes, PingSettings
  <2>1. mapasBreaker.state # "open"
    BY DEF PingInv, RecoveryUnderWay
  <2>2. mapasBreaker.state # "half-open"
    BY DEF PingInv, RecoveryUnderWay
  <2>3. mapasBreaker.state = "closed"
    BY <2>1, <2>2
  <2>4. lastPingErr = "none"
    BY <2>3 DEF PingInv, RecoveryUnderWay
  <2> QED
    BY <2>3, <2>4
<1>2. NoticesOutage
  <2> SUFFICES ASSUME ~mapasUp, ~cancelled, mapasBreaker.state = "closed"
               PROVE  steady <= DetectBound
    BY PingTypes, PingSettings DEF NoticesOutage
  <2>1. /\ Pinged \in Nat /\ Threshold * Period \in Nat
        /\ Pinged + Period <= Threshold * Period
        /\ DetectBound = Threshold * Period + Threshold * Period + HTTPTimeout
    BY PingTypes, PingProducts DEF Pinged
  <2>2. /\ Lag \in Nat /\ Lag <= Period + HTTPTimeout /\ steady \in Nat
        /\ Period \in Nat /\ HTTPTimeout \in Nat
    BY PingTypes, PingSettings
  <2>3. steady <= Threshold * Period + Pinged + Lag
    BY <2>1, <2>2 DEF PingInv, OutageUnderWay
  <2> QED
    BY <2>1, <2>2, <2>3
<1> QED
  BY <1>1, <1>2

\* At the start nothing is counted, noted or due.
LEMMA InitPingInv ==
  ASSUME MapasSettings, MapasInit PROVE PingInv
<1> USE PingSettings DEF MapasInit
<1>1. /\ mapasBreaker \in Breakers({"ping"}) /\ mapasBreaker.state = "closed"
      /\ mapasBreaker.current = {} /\ mapasBreaker.fails = 0
  BY PingNewGeneration
<1>2. MapasTypeOK
  <2>1. /\ steady \in 0 .. Longest + 1 /\ next \in 1 .. Period
        /\ flight \in 0 .. HTTPTimeout
    OBVIOUS
  <2>2. /\ mapasUp \in BOOLEAN /\ fired \in BOOLEAN
        /\ cancelled \in BOOLEAN /\ crossed \in BOOLEAN
    OBVIOUS
  <2>3. shown.circuit = "closed"
    OBVIOUS
  <2> QED
    BY <1>1, <2>1, <2>2, <2>3 DEF MapasTypeOK
<1>3. PingClock /\ PingGeneration
  BY <1>1 DEF PingClock, PingGeneration
<1>4. FailuresNoted /\ StatusTellsWhy
  BY <1>1 DEF FailuresNoted, StatusTellsWhy
<1>5. Waited = 0 /\ Lag = 0
  BY DEF Waited, Lag
<1>6. RecoveryUnderWay
  BY <1>1, <1>5 DEF RecoveryUnderWay
<1>7. OutageUnderWay
  <2>1. Pinged = 0
    BY <1>1 DEF Pinged
  <2> QED
    BY <1>5, <2>1 DEF OutageUnderWay
<1> QED
  BY <1>2, <1>3, <1>4, <1>6, <1>7 DEF PingInv

\* A tick adds one to the time waited as it does to the time steady.
LEMMA PingTick ==
  ASSUME MapasSettings, PingInv, MapasTick PROVE PingInv'
<1>0. /\ mapasPC \in {"idle", "call", "off"}
      /\ ~(mapasPC = "idle" /\ fired)
      /\ mapasPC = "call" => flight < HTTPTimeout
      /\ mapasBreaker' = Elapse(mapasBreaker)
      /\ next' = IF next = 1 THEN Period ELSE next - 1
      /\ fired' = (fired \/ next = 1)
      /\ flight' = IF mapasPC = "call" THEN flight + 1 ELSE 0
      /\ steady' = IF steady > Longest THEN steady ELSE steady + 1
      /\ UNCHANGED <<mapasUp, mapasPC, result, lastPingErr, cancelled, rpc, seen, crossed, shown>>
  BY DEF MapasTick, reader
<1>1. /\ mapasBreaker' \in Breakers({"ping"})
      /\ mapasBreaker'.state = mapasBreaker.state
      /\ mapasBreaker'.current = mapasBreaker.current
      /\ mapasBreaker'.fails = mapasBreaker.fails
      /\ mapasBreaker'.left = IF mapasBreaker.state = "half-open" \/ mapasBreaker.left < 0
                              THEN mapasBreaker.left ELSE mapasBreaker.left - 1
  BY <1>0, PingTypes, PingElapses
<1>2. MapasTypeOK'
  <2>1. steady' \in 0 .. Longest + 1
    BY <1>0, PingTypes, PingSettings
  <2>2. next' \in 1 .. Period /\ flight' \in 0 .. HTTPTimeout /\ fired' \in BOOLEAN
    BY <1>0, PingTypes, PingSettings
  <2> QED
    BY <1>0, <1>1, <2>1, <2>2 DEF PingInv, MapasTypeOK
<1>3. PingClock'
  BY <1>0, PingTypes, PingSettings DEF PingInv, PingClock
<1>4. PingGeneration'
  BY <1>0, <1>1, PingTypes, PingSettings DEF PingInv, PingGeneration
<1>5. FailuresNoted' /\ StatusTellsWhy'
  BY <1>0, <1>1 DEF PingInv, FailuresNoted, StatusTellsWhy
<1>6. steady' <= steady + 1 /\ steady' \in Nat
  BY <1>0, PingTypes, PingSettings
<1>7. mapasPC # "off" =>
        /\ Waited' = Waited + 1 /\ Waited \in Nat
        /\ Lag' = Lag + 1 /\ Lag \in Nat
  <2>1. Waited \in Nat /\ Lag \in Nat
    BY PingTypes
  <2>2. CASE mapasPC = "idle"
    <3>1. ~fired /\ Waited = Period - next /\ Lag = Waited
      BY <1>0, <2>2 DEF Waited, Lag
    <3>2. Lag' = Waited' /\ Waited' = IF next = 1 THEN Period ELSE Period - next'
      BY <1>0, <2>2, <3>1 DEF Waited, Lag
    <3>3. Waited' = Waited + 1
      BY <1>0, <3>1, <3>2, PingTypes, PingSettings
    <3> QED
      BY <2>1, <3>1, <3>2, <3>3
  <2>3. CASE mapasPC = "call"
    <3>1. /\ Waited = Period + flight
          /\ Lag = IF mapasBreaker.current = {} THEN flight ELSE Period + flight
      BY <2>3 DEF Waited, Lag
    <3>2. /\ Waited' = Period + (flight + 1)
          /\ Lag' = IF mapasBreaker.current = {} THEN flight + 1 ELSE Period + (flight + 1)
      BY <1>0, <1>1, <2>3 DEF Waited, Lag
    <3> QED
      BY <2>1, <3>1, <3>2, PingTypes, PingSettings
  <2> QED
    BY <1>0, <2>2, <2>3
<1>8. ASSUME mapasPC = "off" PROVE cancelled'
  BY <1>0, <1>8 DEF PingInv, PingClock
<1>9. RecoveryUnderWay'
  <2> SUFFICES ASSUME mapasUp, ~cancelled PROVE RecoveryUnderWay'
    BY <1>0 DEF RecoveryUnderWay
  <2>1. mapasPC \in {"idle", "call"} /\ Waited' = Waited + 1 /\ Waited \in Nat
    BY <1>0, <1>7, <1>8
  <2>2. mapasBreaker'.state = "open" =>
          steady' <= IF mapasBreaker'.left >= 0 THEN Timeout - mapasBreaker'.left
                     ELSE Timeout + Waited'
    BY <1>1, <1>6, <2>1, PingTypes, PingSettings DEF PingInv, RecoveryUnderWay
  <2>3. mapasBreaker'.state = "half-open" => steady' <= Timeout + Waited'
    BY <1>1, <1>6, <2>1, PingTypes, PingSettings DEF PingInv, RecoveryUnderWay
  <2>4. mapasBreaker'.state = "closed" /\ lastPingErr' # "none" => steady' <= Waited'
    BY <1>0, <1>1, <1>6, <2>1, PingTypes, PingSettings DEF PingInv, RecoveryUnderWay
  <2> QED
    BY <1>0, <2>1, <2>2, <2>3, <2>4 DEF RecoveryUnderWay
<1>10. OutageUnderWay'
  <2> SUFFICES ASSUME ~mapasUp, ~cancelled, mapasBreaker.state = "closed"
               PROVE  OutageUnderWay'
    BY <1>0, <1>1 DEF OutageUnderWay
  <2>1. Lag' = Lag + 1 /\ Lag \in Nat
    BY <1>0, <1>7, <1>8
  <2>2. Pinged' = Pinged /\ Pinged \in Nat /\ Threshold * Period \in Nat
    BY <1>1, PingTypes, PingProducts DEF Pinged
  <2>3. Interval - mapasBreaker'.left <= Interval - mapasBreaker.left + 1
        /\ Interval - mapasBreaker'.left \in Int /\ Interval - mapasBreaker.left \in Int
    BY <1>1, PingTypes, PingSettings
  <2>4. \/ steady <= Pinged + Lag
        \/ /\ steady <= Threshold * Period + Pinged + Lag
           /\ Interval - mapasBreaker.left <= Pinged + Lag
    BY DEF PingInv, OutageUnderWay
  <2>5. \/ steady' <= Pinged' + Lag'
        \/ /\ steady' <= Threshold * Period + Pinged' + Lag'
           /\ Interval - mapasBreaker'.left <= Pinged' + Lag'
    BY <1>6, <2>1, <2>2, <2>3, <2>4, PingTypes
  <2> QED
    BY <2>5 DEF OutageUnderWay
<1> QED
  BY <1>2, <1>3, <1>4, <1>5, <1>9, <1>10 DEF PingInv

\* A change of the upstream starts the clock again.
LEMMA PingFlip ==
  ASSUME MapasSettings, PingInv, MapasFlip PROVE PingInv'
<1>0. /\ mapasUp' = ~mapasUp /\ steady' = 0
      /\ UNCHANGED <<mapasBreaker, mapasPC, next, fired, flight, result, lastPingErr,
                     cancelled, rpc, seen, crossed, shown>>
  BY DEF MapasFlip, pinger, reader
<1>1. MapasTypeOK'
  <2>1. steady' \in 0 .. Longest + 1
    BY <1>0, PingSettings
  <2> QED
    BY <1>0, <2>1 DEF PingInv, MapasTypeOK
<1>2. PingClock' /\ PingGeneration' /\ FailuresNoted' /\ StatusTellsWhy'
  BY <1>0 DEF PingInv, PingClock, PingGeneration, FailuresNoted, StatusTellsWhy
<1>3. Waited' = Waited /\ Lag' = Lag /\ Pinged' = Pinged
  BY <1>0 DEF Waited, Lag, Pinged
<1>4. RecoveryUnderWay'
  <2>1. mapasBreaker.state = "open" => mapasBreaker.left <= Timeout
    BY DEF PingInv, PingGeneration
  <2> QED
    BY <1>0, <1>3, <2>1, PingTypes, PingSettings DEF RecoveryUnderWay
<1>5. OutageUnderWay'
  <2>1. Pinged \in Nat
    BY PingTypes, PingProducts DEF Pinged
  <2> QED
    BY <1>0, <1>3, <2>1, PingTypes DEF OutageUnderWay
<1> QED
  BY <1>1, <1>2, <1>4, <1>5 DEF PingInv

\* After a cancellation nothing is promised.
LEMMA PingStop ==
  ASSUME MapasSettings, PingInv, Stop \/ Exit PROVE PingInv'
<1>0. /\ cancelled'
      /\ UNCHANGED <<mapasUp, mapasBreaker, steady, next, fired, flight, result, lastPingErr,
                     rpc, seen, crossed, shown>>
      /\ mapasPC' = mapasPC \/ (mapasPC = "idle" /\ mapasPC' = "off")
      /\ cancelled' \in BOOLEAN
  BY DEF Stop, Exit, reader, PingInv, MapasTypeOK
<1>1. MapasTypeOK'
  BY <1>0 DEF PingInv, MapasTypeOK
<1>2. PingClock' /\ PingGeneration' /\ FailuresNoted' /\ StatusTellsWhy'
  BY <1>0 DEF PingInv, PingClock, PingGeneration, FailuresNoted, StatusTellsWhy
<1>3. RecoveryUnderWay' /\ OutageUnderWay'
  BY <1>0 DEF RecoveryUnderWay, OutageUnderWay
<1> QED
  BY <1>1, <1>2, <1>3 DEF PingInv

\* A generation that expires in an outage began before it: the clock forgives
\* the failures of one generation only.
LEMMA OutageForgivenOnce ==
  ASSUME MapasSettings, PingInv, ~mapasUp, ~cancelled,
         mapasBreaker.state = "closed", mapasBreaker.left <= 0
  PROVE  /\ steady <= Pinged + Lag
         /\ Pinged \in Nat /\ Pinged + Period <= Threshold * Period
         /\ Threshold * Period \in Nat
<1>1. /\ Pinged \in Nat /\ Pinged + Period <= Threshold * Period
      /\ Threshold * Period \in Nat /\ Threshold * Period + HTTPTimeout < Interval
  BY PingTypes, PingProducts DEF Pinged
<1>2. ~(Interval - mapasBreaker.left <= Pinged + Lag)
  BY <1>1, PingTypes, PingSettings
<1> QED
  BY <1>1, <1>2 DEF PingInv, OutageUnderWay

\* A ping is admitted, perhaps in a new generation, or refused by a circuit
\* that has not run off its timeout.
LEMMA PingBegins ==
  ASSUME MapasSettings, PingInv, PingBegin PROVE PingInv'
<1>0. /\ mapasPC = "start" \/ (mapasPC = "idle" /\ fired)
      /\ fired' = FALSE
      /\ UNCHANGED <<mapasUp, steady, next, flight, lastPingErr, cancelled,
                     rpc, seen, crossed, shown>>
  BY DEF PingBegin, reader
<1>1. PICK late \in BOOLEAN :
        LET now == currentState(mapasBreaker, late)
        IN  /\ mapasBreaker' = beforeRequest(now, "ping")
            /\ result' = Refusal(now)
            /\ mapasPC' = IF Refusal(now) = "none" THEN "call" ELSE "store"
  BY DEF PingBegin
<1> DEFINE b == mapasBreaker
           now == currentState(b, late)
<1>2. /\ now \in Breakers({"ping"})
      /\ \/ now = b /\ ~(b.state = "open" /\ b.left < 0)
         \/ /\ now.current = {} /\ now.fails = 0 /\ b.left <= 0
            /\ \/ b.state = "closed" /\ now.state = "closed" /\ now.left = Interval
               \/ b.state = "open" /\ now.state = "half-open"
  BY PingTypes, PingLooks
<1>3. /\ mapasBreaker' = beforeRequest(now, "ping")
      /\ result' = Refusal(now)
      /\ mapasPC' = IF Refusal(now) = "none" THEN "call" ELSE "store"
  BY <1>1
<1> HIDE DEF now
<1>4. b.current = {} /\ now.current = {}
  BY <1>0, <1>2 DEF PingInv, PingGeneration
<1>5. flight = 0 /\ next = Period
  BY <1>0 DEF PingInv, PingClock
<1>6. CASE now.state = "open"
  <2>1. now = b /\ b.left >= 0
    BY <1>2, <1>6, PingTypes
  <2>2. mapasBreaker' = b /\ result' = "ErrOpenState" /\ mapasPC' = "store"
    BY <1>2, <1>3, <1>4, <1>6, <2>1, PingAdmitted
  <2>3. MapasTypeOK'
    BY <1>0, <2>2 DEF PingInv, MapasTypeOK
  <2>4. PingClock' /\ PingGeneration'
    BY <1>0, <1>5, <2>2 DEF PingInv, PingClock, PingGeneration
  <2>5. FailuresNoted' /\ StatusTellsWhy'
    BY <1>0, <1>6, <2>1, <2>2, PingTypes
       DEF PingInv, PingGeneration, FailuresNoted, StatusTellsWhy
  <2>6. RecoveryUnderWay'
    BY <1>0, <1>6, <2>1, <2>2 DEF PingInv, RecoveryUnderWay
  <2>7. OutageUnderWay'
    BY <1>6, <2>1, <2>2 DEF OutageUnderWay
  <2> QED
    BY <2>3, <2>4, <2>5, <2>6, <2>7 DEF PingInv
<1>7. CASE now.state # "open"
  <2>1. /\ mapasBreaker' \in Breakers({"ping"}) /\ mapasBreaker'.current = {"ping"}
        /\ mapasBreaker'.state = now.state /\ mapasBreaker'.fails = now.fails
        /\ mapasBreaker'.left = now.left
        /\ result' = "none" /\ mapasPC' = "call"
    BY <1>2, <1>3, <1>4, <1>7, PingAdmitted
  <2>2. MapasTypeOK'
    BY <1>0, <2>1 DEF PingInv, MapasTypeOK
  <2>3. PingClock'
    BY <1>0, <1>5, <2>1, PingSettings DEF PingClock
  <2>4. PingGeneration'
    BY <1>2, <1>7, <2>1 DEF PingInv, PingGeneration
  <2>5. FailuresNoted' /\ StatusTellsWhy'
    <3>1. now.fails > 0 => b.fails > 0
      BY <1>2
    <3>2. now.state # "closed" => b.state # "closed"
      BY <1>2
    <3> QED
      BY <1>0, <2>1, <3>1, <3>2 DEF PingInv, FailuresNoted, StatusTellsWhy
  <2>6. Waited' = Period /\ Lag' = Period
    BY <1>0, <1>5, <2>1, PingSettings DEF Waited, Lag
  <2>7. Waited <= Period /\ Lag <= Period
    BY <1>0, <1>5, PingSettings DEF Waited, Lag
  <2>8. RecoveryUnderWay'
    <3> SUFFICES ASSUME mapasUp, ~cancelled PROVE RecoveryUnderWay'
      BY <1>0 DEF RecoveryUnderWay
    <3>1. now.state = "half-open" => steady <= Timeout + Period
      <4>1. CASE now = b
        BY <2>7, <4>1, PingTypes, PingSettings DEF PingInv, RecoveryUnderWay
      <4>2. CASE b.state = "open" /\ b.left <= 0
        BY <2>7, <4>2, PingTypes, PingSettings DEF PingInv, RecoveryUnderWay
      <4> QED
        BY <1>2, <4>1, <4>2
    <3>2. now.state = "closed" /\ lastPingErr # "none" => steady <= Period
      <4>1. now.state = "closed" => b.state = "closed"
        BY <1>2
      <4> QED
        BY <1>0, <2>7, <4>1, PingTypes, PingSettings DEF PingInv, RecoveryUnderWay
    <3> QED
      BY <1>0, <1>7, <2>1, <2>6, <3>1, <3>2 DEF RecoveryUnderWay
  <2>9. OutageUnderWay'
    <3> SUFFICES ASSUME ~mapasUp, ~cancelled, now.state = "closed"
                 PROVE  OutageUnderWay'
      BY <1>0, <2>1 DEF OutageUnderWay
    <3>1. b.state = "closed"
      BY <1>2
    <3>2. Pinged' = now.fails * Period
      BY <2>1 DEF Pinged
    <3>3. CASE now = b
      <4>1. Pinged' = Pinged /\ Pinged \in Nat /\ Threshold * Period \in Nat
        BY <3>2, <3>3, PingTypes, PingProducts DEF Pinged
      <4> QED
        BY <1>0, <2>1, <2>6, <2>7, <3>1, <3>3, <4>1, PingTypes, PingSettings
           DEF PingInv, OutageUnderWay
    <3>4. CASE now.fails = 0 /\ now.left = Interval /\ b.left <= 0
      <4>1. Pinged' = 0
        BY <3>2, <3>4, PingSettings
      <4>2. /\ steady <= Pinged + Lag /\ Pinged \in Nat
            /\ Pinged + Period <= Threshold * Period /\ Threshold * Period \in Nat
        BY <3>1, <3>4, OutageForgivenOnce
      <4>3. steady' <= Threshold * Period + Pinged' + Lag'
        BY <1>0, <2>6, <2>7, <4>1, <4>2, PingTypes, PingSettings
      <4>4. Interval - mapasBreaker'.left <= Pinged' + Lag'
        BY <2>1, <2>6, <3>4, <4>1, PingSettings
      <4> QED
        BY <4>3, <4>4 DEF OutageUnderWay
    <3> QED
      BY <1>2, <3>1, <3>3, <3>4
  <2> QED
    BY <2>2, <2>3, <2>4, <2>5, <2>8, <2>9 DEF PingInv
<1> QED
  BY <1>6, <1>7

\* A ping returns: it closes a half-open circuit or opens it again, counts in
\* its own generation, and is ignored in a later one.
LEMMA PingReturns ==
  ASSUME MapasSettings, PingInv, PingReturn PROVE PingInv'
<1>0. /\ mapasPC = "call" /\ mapasPC' = "store" /\ flight' = 0
      /\ result' = IF mapasUp THEN "none" ELSE "failed"
      /\ UNCHANGED <<mapasUp, steady, next, fired, lastPingErr, cancelled,
                     rpc, seen, crossed, shown>>
  BY DEF PingReturn, Healthy, reader
<1>1. PICK late \in BOOLEAN :
        mapasBreaker' = afterRequest(currentState(mapasBreaker, late), "ping", mapasUp)
  BY DEF PingReturn, Healthy
<1> DEFINE b == mapasBreaker
           now == currentState(b, late)
<1>2. /\ now \in Breakers({"ping"})
      /\ \/ now = b
         \/ /\ now.current = {} /\ now.fails = 0 /\ b.left <= 0
            /\ b.state = "closed" /\ now.state = "closed" /\ now.left = Interval
  <2>1. b.state # "open"
    BY <1>0 DEF PingInv, PingGeneration
  <2> QED
    BY <2>1, PingTypes, PingLooks
<1>3. /\ now.state # "open" /\ now.state \in {"closed", "half-open"}
      /\ now.current = {} => now.state = "closed" /\ now.fails = 0
      /\ now.state = "half-open" => now = b
      /\ b.state \in {"closed", "half-open"} /\ (b.state = "half-open" => now = b)
  BY <1>0, <1>2, PingTypes DEF PingInv, PingGeneration
<1>4. mapasBreaker' = afterRequest(now, "ping", mapasUp)
  BY <1>1
<1> HIDE DEF now
<1>5. /\ mapasBreaker' \in Breakers({"ping"}) /\ mapasBreaker'.current = {}
      /\ now.current = {} => mapasBreaker' = now
      /\ now.current # {} /\ now.state = "half-open" =>
           /\ mapasBreaker'.state = IF mapasUp THEN "closed" ELSE "open"
           /\ mapasBreaker'.fails = 0
           /\ mapasBreaker'.state = "open" => mapasBreaker'.left = Timeout
      /\ now.current # {} /\ now.state = "closed" =>
           \/ /\ mapasBreaker'.state = "closed" /\ mapasBreaker'.left = now.left
              /\ mapasBreaker'.fails = IF mapasUp THEN 0 ELSE now.fails + 1
           \/ /\ ~mapasUp /\ now.fails + 1 >= Threshold
              /\ mapasBreaker'.state = "open" /\ mapasBreaker'.fails = 0
              /\ mapasBreaker'.left = Timeout
  <2>1. mapasUp \in BOOLEAN
    BY PingTypes
  <2> QED
    BY <1>2, <1>3, <1>4, <2>1, PingCounts
<1>6. ~fired /\ next = Period - flight /\ ~fired'
  BY <1>0 DEF PingInv, PingClock
<1>7. MapasTypeOK'
  <2>1. flight' \in 0 .. HTTPTimeout
    BY <1>0, PingSettings
  <2> QED
    BY <1>0, <1>5, <2>1 DEF PingInv, MapasTypeOK
<1>8. PingClock'
  BY <1>0, <1>6 DEF PingClock
<1>9. PingGeneration'
  BY <1>0, <1>3, <1>5, PingSettings DEF PingGeneration
<1>10. FailuresNoted' /\ StatusTellsWhy'
  <2>1. mapasBreaker'.fails > 0 => result' = "failed"
    BY <1>0, <1>3, <1>5, PingTypes
  <2>2. mapasBreaker'.state # "closed" => ~mapasUp /\ lastPingErr \in {"failed", "ErrOpenState"}
    <3>1. CASE now.current = {}
      BY <1>3, <1>5, <3>1
    <3>2. CASE now.state = "half-open"
      BY <1>3, <1>5, <3>2 DEF PingInv, FailuresNoted
    <3>3. CASE now.current # {} /\ now.state = "closed"
      <4>1. now = b
        BY <1>2, <3>3
      <4>2. b.fails > 0 => lastPingErr = "failed"
        BY <1>0 DEF PingInv, FailuresNoted
      <4> QED
        BY <1>5, <3>3, <4>1, <4>2, PingTypes, PingSettings
    <3> QED
      BY <1>3, <3>1, <3>2, <3>3
  <2> QED
    BY <1>0, <2>1, <2>2 DEF PingInv, FailuresNoted, StatusTellsWhy
<1>11. Waited = Period + flight /\ Waited' = flight /\ Lag' = flight /\ Lag \in Nat
  BY <1>0, <1>6, PingTypes, PingSettings DEF Waited, Lag
<1>12. RecoveryUnderWay'
  <2> SUFFICES ASSUME mapasUp, ~cancelled PROVE RecoveryUnderWay'
    BY <1>0 DEF RecoveryUnderWay
  <2>1. mapasBreaker'.state = "closed"
    BY <1>3, <1>5
  <2>2. lastPingErr # "none" => steady <= RecoverBound
    BY <1>0, <1>3, <1>11, PingTypes, PingSettings DEF PingInv, RecoveryUnderWay
  <2> QED
    BY <1>0, <2>1, <2>2 DEF RecoveryUnderWay
<1>13. OutageUnderWay'
  <2> SUFFICES ASSUME ~mapasUp, ~cancelled, mapasBreaker'.state = "closed"
               PROVE  OutageUnderWay'
    BY <1>0 DEF OutageUnderWay
  <2>1. now.state = "closed" /\ b.state = "closed"
    BY <1>3, <1>5
  <2>2. /\ Pinged \in Nat /\ Threshold * Period \in Nat
        /\ (b.fails + 1) * Period = Pinged + Period
    BY PingTypes, PingProducts DEF Pinged
  <2>3. CASE now = b /\ b.current # {}
    <3>1. mapasBreaker'.left = b.left /\ mapasBreaker'.fails = b.fails + 1
      BY <1>5, <2>1, <2>3
    <3>2. Pinged' = Pinged + Period
      BY <2>2, <3>1 DEF Pinged
    <3>3. Lag = Period + flight
      BY <1>0, <1>11, <2>3 DEF Lag
    <3>4. Pinged' + Lag' = Pinged + Lag
      BY <1>11, <2>2, <3>2, <3>3, PingTypes, PingSettings
    <3>5. Threshold * Period + Pinged' + Lag' = Threshold * Period + Pinged + Lag
      BY <1>11, <2>2, <3>2, <3>3, PingTypes, PingSettings
    <3> QED
      BY <1>0, <2>1, <3>1, <3>4, <3>5 DEF PingInv, OutageUnderWay
  <2>4. CASE now = b /\ b.current = {}
    <3>1. mapasBreaker' = b /\ Pinged' = Pinged
      BY <1>5, <2>4 DEF Pinged
    <3>2. Lag = flight
      BY <1>0, <2>4 DEF Lag
    <3> QED
      BY <1>0, <1>11, <2>1, <3>1, <3>2 DEF PingInv, OutageUnderWay
  <2>5. CASE now.current = {} /\ now.fails = 0 /\ now.left = Interval /\ b.left <= 0
    <3>1. mapasBreaker' = now /\ Pinged' = 0
      BY <1>5, <2>5, PingSettings DEF Pinged
    <3>2. /\ steady <= Pinged + Lag /\ Pinged + Period <= Threshold * Period
      BY <2>1, <2>5, OutageForgivenOnce
    <3>3. steady' <= Threshold * Period + Pinged' + Lag'
      BY <1>0, <1>11, <2>2, <3>1, <3>2, PingTypes, PingSettings
    <3>4. Interval - mapasBreaker'.left <= Pinged' + Lag'
      BY <1>11, <2>5, <3>1, PingTypes, PingSettings
    <3> QED
      BY <3>3, <3>4 DEF OutageUnderWay
  <2> QED
    BY <1>2, <2>3, <2>4, <2>5
<1> QED
  BY <1>7, <1>8, <1>9, <1>10, <1>12, <1>13 DEF PingInv

\* Noting the result changes what the goroutine waits for, not for how long.
LEMMA PingStores ==
  ASSUME MapasSettings, PingInv, PingStore PROVE PingInv'
<1>0. /\ mapasPC = "store" /\ mapasPC' = "idle" /\ lastPingErr' = result
      /\ crossed' = (rpc = "between")
      /\ UNCHANGED <<mapasUp, steady, mapasBreaker, next, fired, flight, result,
                     cancelled, rpc, seen, shown>>
  BY DEF PingStore
<1>1. MapasTypeOK'
  BY <1>0 DEF PingInv, MapasTypeOK
<1>2. ~fired /\ flight = 0 /\ PingClock' /\ PingGeneration'
  BY <1>0 DEF PingInv, PingClock, PingGeneration
<1>3. mapasBreaker.state # "closed" => result \in {"failed", "ErrOpenState"}
  BY <1>0 DEF PingInv, MapasTypeOK, FailuresNoted
<1>4. FailuresNoted' /\ StatusTellsWhy'
  BY <1>0, <1>3 DEF PingInv, FailuresNoted, StatusTellsWhy
<1>5. Waited' = Waited /\ Lag' = Lag /\ Pinged' = Pinged
  BY <1>0 DEF Waited, Lag, Pinged
<1>6. RecoveryUnderWay'
  BY <1>0, <1>5, PingTypes DEF PingInv, RecoveryUnderWay
<1>7. OutageUnderWay'
  BY <1>0, <1>5 DEF PingInv, OutageUnderWay
<1> QED
  BY <1>1, <1>2, <1>4, <1>6, <1>7 DEF PingInv

\* The reader's first value is the note; its second look at the circuit may
\* start a generation, like a ping's.
LEMMA PingStatus ==
  ASSUME MapasSettings, PingInv, StatusBegin \/ StatusEnd PROVE PingInv'
<1>1. CASE StatusBegin
  <2>1. /\ rpc' = "between" /\ seen' = lastPingErr /\ crossed' = FALSE
        /\ UNCHANGED <<mapasUp, steady, mapasBreaker, mapasPC, next, fired, flight, result,
                       lastPingErr, cancelled, shown>>
    BY <1>1 DEF StatusBegin, pinger
  <2>2. MapasTypeOK'
    BY <2>1 DEF PingInv, MapasTypeOK
  <2>3. PingClock' /\ PingGeneration' /\ FailuresNoted' /\ StatusTellsWhy'
    BY <2>1 DEF PingInv, PingClock, PingGeneration, FailuresNoted, StatusTellsWhy
  <2>4. Waited' = Waited /\ Lag' = Lag /\ Pinged' = Pinged
    BY <2>1 DEF Waited, Lag, Pinged
  <2>5. RecoveryUnderWay' /\ OutageUnderWay'
    BY <2>1, <2>4 DEF PingInv, RecoveryUnderWay, OutageUnderWay
  <2> QED
    BY <2>2, <2>3, <2>5 DEF PingInv
<1>2. CASE StatusEnd
  <2>0. /\ rpc = "between" /\ rpc' = "idle" /\ seen' = "unset" /\ crossed' = FALSE
        /\ shown' = [circuit |-> mapasBreaker'.state, last_ping_err |-> seen,
                     crossed |-> crossed]
        /\ UNCHANGED <<mapasUp, steady, mapasPC, next, fired, flight, result,
                       lastPingErr, cancelled>>
    BY <1>2 DEF StatusEnd, pinger
  <2>1. PICK late \in BOOLEAN : mapasBreaker' = currentState(mapasBreaker, late)
    BY <1>2 DEF StatusEnd
  <2> DEFINE b == mapasBreaker
  <2>2. /\ mapasBreaker' \in Breakers({"ping"})
        /\ \/ mapasBreaker' = b
           \/ /\ mapasBreaker'.current = {} /\ mapasBreaker'.fails = 0 /\ b.left <= 0
              /\ \/ b.state = "closed" /\ mapasBreaker'.state = "closed"
                    /\ mapasBreaker'.left = Interval
                 \/ b.state = "open" /\ mapasBreaker'.state = "half-open"
    BY <2>1, PingTypes, PingLooks
  <2>3. mapasBreaker'.state # "closed" <=> b.state # "closed"
    BY <2>2
  <2>4. MapasTypeOK'
    <3>1. /\ shown'.circuit = mapasBreaker'.state
          /\ mapasBreaker'.state \in {"closed", "open", "half-open"}
      BY <2>0, <2>2 DEF Breakers
    <3> QED
      BY <2>0, <2>2, <3>1 DEF PingInv, MapasTypeOK
  <2>5. PingClock'
    BY <2>0 DEF PingInv, PingClock
  <2>6. PingGeneration'
    BY <2>0, <2>2 DEF PingInv, PingGeneration
  <2>7. FailuresNoted'
    <3>1. mapasBreaker'.fails > 0 => b.fails > 0
      BY <2>2
    <3> QED
      BY <2>0, <2>3, <3>1 DEF PingInv, FailuresNoted
  <2>8. StatusTellsWhy'
    <3>1. b.state # "closed" /\ ~crossed => seen \in {"failed", "ErrOpenState"}
      BY <2>0 DEF PingInv, FailuresNoted
    <3>2. /\ shown'.circuit = mapasBreaker'.state /\ shown'.last_ping_err = seen
          /\ shown'.crossed = crossed
      BY <2>0
    <3> QED
      BY <2>3, <3>1, <3>2 DEF StatusTellsWhy
  <2>9. Waited' = Waited
    BY <2>0 DEF Waited
  <2>10. RecoveryUnderWay'
    <3>1. CASE mapasBreaker' = b
      BY <2>0, <2>9, <3>1 DEF PingInv, RecoveryUnderWay
    <3>2. CASE b.state = "closed" /\ mapasBreaker'.state = "closed"
      BY <2>0, <2>9, <3>2 DEF PingInv, RecoveryUnderWay
    <3>3. CASE b.state = "open" /\ mapasBreaker'.state = "half-open" /\ b.left <= 0
      <4>1. mapasUp /\ ~cancelled => steady <= Timeout + Waited
        BY <3>3, PingTypes, PingSettings DEF PingInv, RecoveryUnderWay
      <4> QED
        BY <2>0, <2>9, <3>3, <4>1 DEF RecoveryUnderWay
    <3> QED
      BY <2>2, <3>1, <3>2, <3>3
  <2>11. OutageUnderWay'
    <3> SUFFICES ASSUME ~mapasUp, ~cancelled, b.state = "closed"
                 PROVE  OutageUnderWay'
      BY <2>0, <2>3 DEF OutageUnderWay
    <3>1. CASE mapasBreaker' = b
      <4>1. Lag' = Lag /\ Pinged' = Pinged
        BY <2>0, <2>9, <3>1 DEF Lag, Pinged
      <4> QED
        BY <2>0, <3>1, <4>1 DEF PingInv, OutageUnderWay
    <3>2. CASE /\ mapasBreaker'.current = {} /\ mapasBreaker'.fails = 0
               /\ mapasBreaker'.left = Interval /\ b.left <= 0
      <4>1. /\ steady <= Pinged + Lag /\ Pinged \in Nat
            /\ Pinged + Period <= Threshold * Period /\ Threshold * Period \in Nat
        BY <3>2, OutageForgivenOnce
      <4>2. Pinged' = 0
        BY <3>2, PingSettings DEF Pinged
      <4>3. Lag' \in Nat /\ Lag <= Lag' + Period
        BY <2>0, <2>9, <3>2, PingTypes, PingSettings DEF PingInv, PingGeneration, Waited, Lag
      <4>4. steady' <= Threshold * Period + Pinged' + Lag'
        BY <2>0, <4>1, <4>2, <4>3, PingTypes, PingSettings
      <4>5. Interval - mapasBreaker'.left <= Pinged' + Lag'
        BY <3>2, <4>2, <4>3, PingSettings
      <4> QED
        BY <4>4, <4>5 DEF OutageUnderWay
    <3> QED
      BY <2>2, <3>1, <3>2
  <2> QED
    BY <2>4, <2>5, <2>6, <2>7, <2>8, <2>10, <2>11 DEF PingInv
<1> QED
  BY <1>1, <1>2

\* Every step of the mapas client keeps the invariant, with settings as the
\* code has them.
LEMMA NextPingInv ==
  ASSUME MapasSettings, PingInv, [MapasNext]_mapasVars PROVE PingInv'
<1>1. CASE UNCHANGED mapasVars
  <2>1. UNCHANGED <<mapasUp, steady, mapasBreaker, mapasPC, next, fired, flight, result,
                    lastPingErr, cancelled, rpc, seen, crossed, shown>>
    BY <1>1 DEF mapasVars, pinger, reader
  <2>2. MapasTypeOK' /\ StatusTellsWhy'
    BY <2>1 DEF PingInv, MapasTypeOK, StatusTellsWhy
  <2>3. PingClock' /\ PingGeneration' /\ FailuresNoted'
    BY <2>1 DEF PingInv, PingClock, PingGeneration, FailuresNoted
  <2>4. Waited' = Waited /\ Lag' = Lag /\ Pinged' = Pinged
    BY <2>1 DEF Waited, Lag, Pinged
  <2>5. RecoveryUnderWay' /\ OutageUnderWay'
    BY <2>1, <2>4 DEF PingInv, RecoveryUnderWay, OutageUnderWay
  <2> QED
    BY <2>2, <2>3, <2>5 DEF PingInv
<1> QED
  BY <1>1, PingTick, PingFlip, PingStop, PingBegins, PingReturns, PingStores, PingStatus
     DEF MapasNext

\* The mapas client keeps its inductive invariant.
LEMMA PingInvHolds == MapasSettings => (MapasSpec => []PingInv)
<1> SUFFICES ASSUME MapasSettings PROVE MapasSpec => []PingInv
  OBVIOUS
<1>1. MapasInit => PingInv
  BY InitPingInv
<1>2. PingInv /\ [MapasNext]_mapasVars => PingInv'
  BY NextPingInv
<1> QED
  BY <1>1, <1>2, PTL DEF MapasSpec

\* The ping goroutine, its ticker and its breaker keep their types; no ping is
\* ever refused with ErrTooManyRequests.
THEOREM PingTypeCorrect == MapasSettings => (MapasSpec => []MapasTypeOK)
<1> SUFFICES ASSUME MapasSettings PROVE MapasSpec => []MapasTypeOK
  OBVIOUS
<1>1. PingInv => MapasTypeOK
  BY DEF PingInv
<1> QED
  BY <1>1, PingInvHolds, PTL

\* StatusJSON never shows a broken circuit without an error, unless pingOnce
\* noted a result between its two reads.
THEOREM StatusExplained == MapasSettings => (MapasSpec => []StatusTellsWhy)
<1> SUFFICES ASSUME MapasSettings PROVE MapasSpec => []StatusTellsWhy
  OBVIOUS
<1>1. PingInv => StatusTellsWhy
  BY DEF PingInv
<1> QED
  BY <1>1, PingInvHolds, PTL

\* Background pings find out in time that the upstream is back: the circuit is
\* closed and the error cleared after RecoverBound ticks.
THEOREM RecoveryNoticed == MapasSettings => (MapasSpec => []NoticesRecovery)
<1> SUFFICES ASSUME MapasSettings PROVE MapasSpec => []NoticesRecovery
  OBVIOUS
<1>1. PingInv => NoticesRecovery
  BY PingInvSuffices
<1> QED
  BY <1>1, PingInvHolds, PTL

\* They find out in time that it is gone, although the breaker's interval may
\* forget failures: the circuit is not closed after DetectBound ticks.
THEOREM OutageNoticed == MapasSettings => (MapasSpec => []NoticesOutage)
<1> SUFFICES ASSUME MapasSettings PROVE MapasSpec => []NoticesOutage
  OBVIOUS
<1>1. PingInv => NoticesOutage
  BY PingInvSuffices
<1> QED
  BY <1>1, PingInvHolds, PTL
=============================================================================

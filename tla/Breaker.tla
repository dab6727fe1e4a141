------------------------------- MODULE Breaker -------------------------------
(***************************************************************************)
(* github.com/sony/gobreaker 1.0.0 as the upstream clients of              *)
(* internal/integrations use it: ReadyToTrip counts consecutive failures,  *)
(* MaxRequests is the default 1.  A breaker is a record; the operators are *)
(* the sections the library runs under its mutex.                          *)
(*                                                                         *)
(* The library numbers generations and ignores the result of a call that   *)
(* was admitted in an earlier one; here current holds the callers admitted *)
(* in this generation whose result is still to come, which says the same.  *)
(* left counts clock ticks down to the expiry of the generation: below     *)
(* zero it has passed, at zero the clock may read either side of it.       *)
(***************************************************************************)
EXTENDS Integers

CONSTANTS
  Threshold,    \* ReadyToTrip: ConsecutiveFailures >= Threshold
  Interval,     \* ticks after which a closed circuit forgets its counts
  Timeout       \* ticks after which an open circuit lets a probe through

ASSUME BreakerAssumption ==
  /\ Threshold \in Nat \ {0}
  /\ Interval \in Nat
  /\ Timeout \in Nat

Breakers(callers) ==
  [state : {"closed", "open", "half-open"},
   current : SUBSET callers,
   fails : 0 .. Threshold - 1,
   left : -1 .. Interval \cup -1 .. Timeout]

\* toNewGeneration: the counts are cleared; half-open does not expire.
NewGeneration(state) ==
  [state |-> state, current |-> {}, fails |-> 0,
   left |-> IF state = "closed" THEN Interval
            ELSE IF state = "open" THEN Timeout ELSE 0]

Expired(b, late) ==
  b.state # "half-open" /\ (b.left < 0 \/ (b.left = 0 /\ late))

\* currentState, which every operation calls first: an expired closed
\* generation starts afresh, an expired open one turns half-open.
currentState(b, late) ==
  IF ~Expired(b, late) THEN b
  ELSE NewGeneration(IF b.state = "open" THEN "half-open" ELSE "closed")

\* The error beforeRequest returns.
Refusal(b) ==
  CASE b.state = "open" -> "ErrOpenState"
    [] b.state = "half-open" /\ b.current # {} -> "ErrTooManyRequests"
    [] OTHER -> "none"

beforeRequest(b, k) ==
  IF Refusal(b) = "none" THEN [b EXCEPT !.current = @ \cup {k}] ELSE b

onSuccess(b, k) ==
  IF b.state = "half-open" THEN NewGeneration("closed")
  ELSE [b EXCEPT !.fails = 0, !.current = @ \ {k}]

onFailure(b, k) ==
  IF b.state = "half-open" \/ b.fails + 1 >= Threshold THEN NewGeneration("open")
  ELSE [b EXCEPT !.fails = @ + 1, !.current = @ \ {k}]

\* Mutant: results of an earlier generation count as well.
afterRequestAnyGeneration(b, k, ok) ==
  IF b.state = "open" THEN b
  ELSE IF ok THEN onSuccess(b, k) ELSE onFailure(b, k)

\* The result of k's call; one of an earlier generation is ignored.
afterRequest(b, k, ok) ==
  IF k \notin b.current THEN b
  ELSE IF ok THEN onSuccess(b, k) ELSE onFailure(b, k)

\* A tick of the clock.
Elapse(b) ==
  IF b.state = "half-open" \/ b.left < 0 THEN b ELSE [b EXCEPT !.left = @ - 1]
=============================================================================

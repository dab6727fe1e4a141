-------------------------------- MODULE Mapas --------------------------------
(***************************************************************************)
(* The mapas client (internal/integrations/mapas.go): one goroutine pings  *)
(* the upstream's health endpoint through a circuit breaker and notes the  *)
(* result under mu; GET /mapas/status shows the note and the circuit.      *)
(* The breaker expires by the clock that drives the pings, so time is      *)
(* explicit.  Steps of the program take no time, an HTTP call at most      *)
(* HTTPTimeout ticks.  Without a base URL there is no client and the       *)
(* status is constant; this is the client that exists.  Names that         *)
(* Chamados has as well begin with mapas, so that ClientProofs can speak   *)
(* of both clients.                                                        *)
(***************************************************************************)
EXTENDS Breaker

CONSTANTS
  Period,         \* MAPAS_PING_INTERVAL in ticks
  HTTPTimeout     \* HTTP_CLIENT_TIMEOUT in ticks

\* Settings under which the client keeps its promises: one bad ping is no
\* outage, pings do not overlap, and a closed circuit's counts outlive the
\* pings that trip it.
MapasSettings ==
  /\ Threshold >= 2
  /\ Period \in Nat /\ HTTPTimeout \in Nat
  /\ 0 < HTTPTimeout /\ HTTPTimeout < Period
  /\ Threshold * Period + HTTPTimeout < Interval

\* Ticks within which the status follows the upstream (see the properties).
DetectBound == 2 * Threshold * Period + HTTPTimeout
RecoverBound == Timeout + Period + HTTPTimeout

Longest == IF DetectBound > RecoverBound THEN DetectBound ELSE RecoverBound

VARIABLES
  mapasUp,      \* the upstream answers below 500, in time
  steady,       \* ticks since mapasUp last changed, at most Longest + 1 (history)
  mapasBreaker, \* MapasClient.breaker
  mapasPC,      \* the ping goroutine: start, idle, call, store or off
  next,         \* ticks until the ticker fires
  fired,        \* a tick waits in t.C
  flight,       \* ticks the call in flight has taken
  result,       \* what pingOnce is about to note
  lastPingErr,  \* unset before the first ping
  cancelled,    \* the context of StartBackgroundPing
  rpc,          \* a reader in StatusJSON: idle or between
  seen,         \* the lastPingErr it read
  crossed,      \* a ping was noted since (history)
  shown         \* its answer: circuit, last_ping_err and crossed

pinger == <<mapasPC, next, fired, flight, result, lastPingErr, cancelled>>
reader == <<rpc, seen, crossed, shown>>
mapasVars == <<mapasUp, steady, mapasBreaker, pinger, reader>>

MapasInit ==
  /\ mapasUp \in BOOLEAN
  /\ steady = 0
  /\ mapasBreaker = NewGeneration("closed")
  /\ mapasPC = "start"
  /\ next = Period
  /\ fired = FALSE
  /\ flight = 0
  /\ result = "none"
  /\ lastPingErr = "unset"
  /\ cancelled = FALSE
  /\ rpc = "idle"
  /\ seen = "unset"
  /\ crossed = FALSE
  /\ shown = [circuit |-> "closed", last_ping_err |-> "unset", crossed |-> FALSE]

-----------------------------------------------------------------------------
\* Time waits for the program's steps and for the HTTP client's timeout.  The
\* ticker's channel holds one tick; a tick that finds it full is dropped.
MapasTick ==
  /\ mapasPC \in {"idle", "call", "off"}
  /\ ~(mapasPC = "idle" /\ fired)
  /\ mapasPC = "call" => flight < HTTPTimeout
  /\ mapasBreaker' = Elapse(mapasBreaker)
  /\ next' = IF next = 1 THEN Period ELSE next - 1
  /\ fired' = (fired \/ next = 1)
  /\ flight' = IF mapasPC = "call" THEN flight + 1 ELSE 0
  /\ steady' = IF steady > Longest THEN steady ELSE steady + 1
  /\ UNCHANGED <<mapasUp, mapasPC, result, lastPingErr, cancelled, reader>>

MapasFlip ==
  /\ mapasUp' = ~mapasUp
  /\ steady' = 0
  /\ UNCHANGED <<mapasBreaker, pinger, reader>>

\* Stop, or the cancellation of the root context at shutdown.
Stop ==
  /\ ~cancelled
  /\ cancelled' = TRUE
  /\ UNCHANGED <<mapasUp, steady, mapasBreaker, mapasPC, next, fired, flight, result, lastPingErr, reader>>

Exit ==
  /\ mapasPC = "idle" /\ cancelled
  /\ mapasPC' = "off"
  /\ UNCHANGED <<mapasUp, steady, mapasBreaker, next, fired, flight, result, lastPingErr, cancelled, reader>>

\* pingOnce, at the start and at every tick: Execute admits or refuses it.
PingBegin ==
  /\ mapasPC = "start" \/ (mapasPC = "idle" /\ fired)
  /\ fired' = FALSE
  /\ \E late \in BOOLEAN :
       LET now == currentState(mapasBreaker, late)
       IN  /\ mapasBreaker' = beforeRequest(now, "ping")
           /\ result' = Refusal(now)
           /\ mapasPC' = IF Refusal(now) = "none" THEN "call" ELSE "store"
  /\ UNCHANGED <<mapasUp, steady, next, flight, lastPingErr, cancelled, reader>>

\* Mutant: a status of 500 or more is no error.
HealthyLax == TRUE

\* The ping's call succeeds: the response is below 500.
Healthy == mapasUp

PingReturn ==
  /\ mapasPC = "call"
  /\ \E late \in BOOLEAN :
       mapasBreaker' = afterRequest(currentState(mapasBreaker, late), "ping", Healthy)
  /\ result' = IF Healthy THEN "none" ELSE "failed"
  /\ flight' = 0
  /\ mapasPC' = "store"
  /\ UNCHANGED <<mapasUp, steady, next, fired, lastPingErr, cancelled, reader>>

\* Mutant: a refused ping is noted as if it had worked.
PingStoreAnsweredOnly ==
  /\ mapasPC = "store"
  /\ lastPingErr' = IF result = "ErrOpenState" THEN "none" ELSE result
  /\ crossed' = (rpc = "between")
  /\ mapasPC' = "idle"
  /\ UNCHANGED <<mapasUp, steady, mapasBreaker, next, fired, flight, result, cancelled, rpc, seen, shown>>

\* Mutant: a good ping does not clear the error.
PingStoreKeepingError ==
  /\ mapasPC = "store"
  /\ lastPingErr' = IF result = "none" /\ lastPingErr # "unset" THEN lastPingErr ELSE result
  /\ crossed' = (rpc = "between")
  /\ mapasPC' = "idle"
  /\ UNCHANGED <<mapasUp, steady, mapasBreaker, next, fired, flight, result, cancelled, rpc, seen, shown>>

\* pingOnce notes the error, under mu.
PingStore ==
  /\ mapasPC = "store"
  /\ lastPingErr' = result
  /\ crossed' = (rpc = "between")
  /\ mapasPC' = "idle"
  /\ UNCHANGED <<mapasUp, steady, mapasBreaker, next, fired, flight, result, cancelled, rpc, seen, shown>>

-----------------------------------------------------------------------------
\* StatusJSON reads lastPingErr under mu, ...
StatusBegin ==
  /\ rpc = "idle"
  /\ rpc' = "between"
  /\ seen' = lastPingErr
  /\ crossed' = FALSE
  /\ UNCHANGED <<mapasUp, steady, mapasBreaker, pinger, shown>>

\* ... and then the state of the circuit, which may turn half-open by that.
StatusEnd ==
  /\ rpc = "between"
  /\ \E late \in BOOLEAN : mapasBreaker' = currentState(mapasBreaker, late)
  /\ shown' = [circuit |-> mapasBreaker'.state, last_ping_err |-> seen, crossed |-> crossed]
  /\ rpc' = "idle"
  /\ seen' = "unset"
  /\ crossed' = FALSE
  /\ UNCHANGED <<mapasUp, steady, pinger>>

MapasNext ==
  \/ MapasTick \/ MapasFlip \/ Stop \/ Exit
  \/ PingBegin \/ PingReturn \/ PingStore
  \/ StatusBegin \/ StatusEnd

MapasSpec == MapasInit /\ [][MapasNext]_mapasVars

-----------------------------------------------------------------------------
\* Type invariant; the only caller never meets its own probe, so no ping is
\* refused with ErrTooManyRequests.
MapasTypeOK ==
  /\ mapasUp \in BOOLEAN /\ fired \in BOOLEAN
  /\ cancelled \in BOOLEAN /\ crossed \in BOOLEAN
  /\ steady \in 0 .. Longest + 1
  /\ mapasBreaker \in Breakers({"ping"})
  /\ mapasPC \in {"start", "idle", "call", "store", "off"}
  /\ next \in 1 .. Period
  /\ flight \in 0 .. HTTPTimeout
  /\ result \in {"none", "failed", "ErrOpenState"}
  /\ lastPingErr \in {"unset", "none", "failed", "ErrOpenState"}
  /\ rpc \in {"idle", "between"}
  /\ seen \in {"unset", "none", "failed", "ErrOpenState"}
  /\ shown.circuit \in {"closed", "open", "half-open"}

\* An upstream that stays down is noticed: although the end of an interval
\* forgets failures and may swallow the next one, the circuit is not closed
\* after DetectBound ticks, nor as long as it stays down.
NoticesOutage ==
  ~mapasUp /\ ~cancelled /\ steady > DetectBound => mapasBreaker.state # "closed"

\* An upstream that stays up is trusted again: after RecoverBound ticks the
\* circuit is closed and the last ping shown is a good one.
NoticesRecovery ==
  mapasUp /\ ~cancelled /\ steady > RecoverBound =>
    mapasBreaker.state = "closed" /\ lastPingErr = "none"

\* The status never shows a broken circuit without an error, unless a ping
\* was noted between its two reads.
StatusTellsWhy ==
  shown.circuit # "closed" /\ shown.last_ping_err \in {"unset", "none"} =>
    shown.crossed
=============================================================================

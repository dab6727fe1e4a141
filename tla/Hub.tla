--------------------------------- MODULE Hub ---------------------------------
(***************************************************************************)
(* The in-process WebSocket hub (internal/wsbus): the Hub's registry, each *)
(* Client's send channel, its reader and writer goroutines and its         *)
(* shutdown, and the two goroutines that use the hub from outside: the     *)
(* Subscriber (internal/notify/subscriber.go), the only caller of Dispatch,*)
(* and waitShutdown (cmd/server/main.go), the only caller of Close.        *)
(*                                                                         *)
(* A message is known by its number among those dispatched to its citizen. *)
(* Sections under hub.mu are single steps, except Dispatch's, whose read   *)
(* lock is taken and released in two.                                      *)
(***************************************************************************)
EXTENDS Integers, Sequences

CONSTANTS
  Clients,       \* WebSocket connections, over the life of the process
  Citizens,
  CitizenOf,     \* CitizenOf[c]: the citizen c authenticated as
  SendBuffer,    \* defaultSendBuffer
  MaxDispatch    \* bound: messages dispatched per citizen

ASSUME HubAssumption ==
  /\ CitizenOf \in [Clients -> Citizens]
  /\ SendBuffer \in Nat \ {0}
  /\ MaxDispatch \in Nat

\* The goroutines that call Client.shutdown; each calls it at most once per
\* client.
Callers == {"reader", "writer", "dispatcher", "closer"}

VARIABLES
  \* The Hub.
  mu,           \* hub.mu: free, or read while Dispatch copies the registry
  closed,       \* hub.closed
  registered,   \* the clients in hub.byCitizen
  \* Each Client.
  run,          \* run[c]: none, accepted (NewClient), registered or running
  send,         \* send[c]: the send channel's contents
  sendClosed,   \* sendClosed[c]: close(c.send) happened
  connOpen,     \* connOpen[c]: c.conn is not closed on this side
  hand,         \* hand[c]: the message writePump is writing, if any
  once,         \* once[c]: closeOnce is free, busy or done
  stage,        \* stage[c][k]: where caller k is in c.shutdown()
  written,      \* written[c]: messages WriteMessage wrote (history)
  since,        \* since[c]: messages dispatched before c entered the registry,
                \*   -1 when it never did (history)
  \* The Subscriber in Dispatch, and waitShutdown in Close.
  dispatched,   \* dispatched[z]: Dispatch calls for citizen z so far
  dpc,          \* idle, locked, or sending
  msgFor,       \* the citizen of the call in progress
  targets,      \* clients copied from the registry, not yet sent to
  cpc,          \* idle, closing, or returned
  all,          \* Close's clients not yet shut down
  panic         \* none; or the panic that stops the process: send, close

hubVars == <<mu, closed, registered>>
clientVars == <<run, send, sendClosed, connOpen, hand, once, stage, written, since>>
dispatchVars == <<dispatched, dpc, msgFor, targets>>
closeVars == <<cpc, all>>
vars == <<hubVars, clientVars, dispatchVars, closeVars, panic>>

Init ==
  /\ mu = "free"
  /\ closed = FALSE
  /\ registered = {}
  /\ run = [c \in Clients |-> "none"]
  /\ send = [c \in Clients |-> <<>>]
  /\ sendClosed = [c \in Clients |-> FALSE]
  /\ connOpen = [c \in Clients |-> FALSE]
  /\ hand = [c \in Clients |-> <<>>]
  /\ once = [c \in Clients |-> "free"]
  /\ stage = [c \in Clients |-> [k \in Callers |-> "out"]]
  /\ written = [c \in Clients |-> <<>>]
  /\ since = [c \in Clients |-> -1]
  /\ dispatched = [z \in Citizens |-> 0]
  /\ dpc = "idle"
  /\ msgFor \in Citizens
  /\ targets = {}
  /\ cpc = "idle"
  /\ all = {}
  /\ panic = "none"

-----------------------------------------------------------------------------
\* No goroutine takes a step after a panic.
Alive == panic = "none"

\* handleWS upgrades the connection and builds the Client.
NewClient(c) ==
  /\ Alive
  /\ run[c] = "none"
  /\ run' = [run EXCEPT ![c] = "accepted"]
  /\ connOpen' = [connOpen EXCEPT ![c] = TRUE]
  /\ UNCHANGED <<hubVars, send, sendClosed, hand, once, stage, written, since,
                 dispatchVars, closeVars, panic>>

\* Run's first step.  On a closed hub the client goes on unregistered.
Register(c) ==
  /\ Alive
  /\ run[c] = "accepted"
  /\ mu = "free"
  /\ IF closed
     THEN UNCHANGED <<registered, since>>
     ELSE /\ registered' = registered \cup {c}
          /\ since' = [since EXCEPT ![c] = dispatched[CitizenOf[c]]]
  /\ run' = [run EXCEPT ![c] = "registered"]
  /\ UNCHANGED <<mu, closed, send, sendClosed, connOpen, hand, once, stage,
                 written, dispatchVars, closeVars, panic>>

\* Run starts both pumps; the client may have been shut down already.
StartPumps(c) ==
  /\ Alive
  /\ run[c] = "registered"
  /\ run' = [run EXCEPT ![c] = "running"]
  /\ UNCHANGED <<hubVars, send, sendClosed, connOpen, hand, once, stage,
                 written, since, dispatchVars, closeVars, panic>>

-----------------------------------------------------------------------------
\* Client.shutdown, for each goroutine k that calls it.
Enter(c, k) == stage' = [stage EXCEPT ![c][k] = "wait"]

\* Mutant: shutdown without closeOnce.
OnceBeginAlways(c, k) ==
  /\ Alive
  /\ stage[c][k] = "wait"
  /\ once' = [once EXCEPT ![c] = "busy"]
  /\ stage' = [stage EXCEPT ![c][k] = "unregister"]
  /\ UNCHANGED <<hubVars, run, send, sendClosed, connOpen, hand, written,
                 since, dispatchVars, closeVars, panic>>

\* closeOnce.Do: the first caller runs the function.
OnceBegin(c, k) ==
  /\ Alive
  /\ stage[c][k] = "wait"
  /\ once[c] = "free"
  /\ once' = [once EXCEPT ![c] = "busy"]
  /\ stage' = [stage EXCEPT ![c][k] = "unregister"]
  /\ UNCHANGED <<hubVars, run, send, sendClosed, connOpen, hand, written,
                 since, dispatchVars, closeVars, panic>>

\* closeOnce.Do: any other caller returns once the first one is through.
OnceSkip(c, k) ==
  /\ Alive
  /\ stage[c][k] = "wait"
  /\ once[c] = "done"
  /\ stage' = [stage EXCEPT ![c][k] = "returned"]
  /\ UNCHANGED <<hubVars, run, send, sendClosed, connOpen, hand, once, written,
                 since, dispatchVars, closeVars, panic>>

\* Mutant: the channel is closed before the client leaves the registry.
UnregisterLate(c, k) ==
  /\ Alive
  /\ stage[c][k] = "unregister"
  /\ IF sendClosed[c]
     THEN /\ mu = "free"
          /\ registered' = registered \ {c}
          /\ stage' = [stage EXCEPT ![c][k] = "conn"]
          /\ UNCHANGED sendClosed
     ELSE /\ sendClosed' = [sendClosed EXCEPT ![c] = TRUE]
          /\ UNCHANGED <<registered, stage>>
  /\ UNCHANGED <<mu, closed, run, send, connOpen, hand, once, written, since,
                 dispatchVars, closeVars, panic>>

Unregister(c, k) ==
  /\ Alive
  /\ stage[c][k] = "unregister"
  /\ mu = "free"
  /\ registered' = registered \ {c}
  /\ stage' = [stage EXCEPT ![c][k] = "close"]
  /\ UNCHANGED <<mu, closed, run, send, sendClosed, connOpen, hand, once,
                 written, since, dispatchVars, closeVars, panic>>

\* Mutant: close(c.send) is missing.
CloseSendForgotten(c, k) ==
  /\ Alive
  /\ stage[c][k] = "close"
  /\ stage' = [stage EXCEPT ![c][k] = "conn"]
  /\ UNCHANGED <<hubVars, run, send, sendClosed, connOpen, hand, once, written,
                 since, dispatchVars, closeVars, panic>>

\* close(c.send), which panics if it is closed already.
CloseSend(c, k) ==
  /\ Alive
  /\ stage[c][k] = "close"
  /\ panic' = IF sendClosed[c] THEN "close" ELSE panic
  /\ sendClosed' = [sendClosed EXCEPT ![c] = TRUE]
  /\ stage' = [stage EXCEPT ![c][k] = "conn"]
  /\ UNCHANGED <<hubVars, run, send, connOpen, hand, once, written, since,
                 dispatchVars, closeVars>>

CloseConn(c, k) ==
  /\ Alive
  /\ stage[c][k] = "conn"
  /\ connOpen' = [connOpen EXCEPT ![c] = FALSE]
  /\ once' = [once EXCEPT ![c] = "done"]
  /\ stage' = [stage EXCEPT ![c][k] = "returned"]
  /\ UNCHANGED <<hubVars, run, send, sendClosed, hand, written, since,
                 dispatchVars, closeVars, panic>>

Shutdown(c, k) ==
  \/ OnceBegin(c, k) \/ OnceSkip(c, k)
  \/ Unregister(c, k) \/ CloseSend(c, k) \/ CloseConn(c, k)

\* Caller k is inside some client's shutdown, which it waits for.
Busy(k) == \E c \in Clients : stage[c][k] \notin {"out", "returned"}

-----------------------------------------------------------------------------
\* A goroutine whose loop goes on.
Pumping(c, k) == run[c] = "running" /\ stage[c][k] = "out"

\* readPump ends: the peer left, broke the limits or let pongWait pass, or
\* c.conn was closed on this side.  Frames it reads are discarded.
ReadPumpEnds(c) ==
  /\ Alive
  /\ Pumping(c, "reader")
  /\ Enter(c, "reader")
  /\ UNCHANGED <<hubVars, run, send, sendClosed, connOpen, hand, once, written,
                 since, dispatchVars, closeVars, panic>>

\* writePump takes the next message; a closed channel is drained first.
WritePumpReceives(c) ==
  /\ Alive
  /\ Pumping(c, "writer")
  /\ hand[c] = <<>> /\ send[c] # <<>>
  /\ hand' = [hand EXCEPT ![c] = <<Head(send[c])>>]
  /\ send' = [send EXCEPT ![c] = Tail(@)]
  /\ UNCHANGED <<hubVars, run, sendClosed, connOpen, once, stage, written,
                 since, dispatchVars, closeVars, panic>>

WritePumpWrites(c) ==
  /\ Alive
  /\ Pumping(c, "writer")
  /\ hand[c] # <<>> /\ connOpen[c]
  /\ written' = [written EXCEPT ![c] = @ \o hand[c]]
  /\ hand' = [hand EXCEPT ![c] = <<>>]
  /\ UNCHANGED <<hubVars, run, send, sendClosed, connOpen, once, stage, since,
                 dispatchVars, closeVars, panic>>

\* WriteMessage or the periodic ping fails, at the latest at its deadline.
WritePumpFails(c) ==
  /\ Alive
  /\ Pumping(c, "writer")
  /\ hand' = [hand EXCEPT ![c] = <<>>]
  /\ Enter(c, "writer")
  /\ UNCHANGED <<hubVars, run, send, sendClosed, connOpen, once, written,
                 since, dispatchVars, closeVars, panic>>

\* writePump finds its channel closed and empty.
WritePumpEnds(c) ==
  /\ Alive
  /\ Pumping(c, "writer")
  /\ hand[c] = <<>> /\ send[c] = <<>> /\ sendClosed[c]
  /\ Enter(c, "writer")
  /\ UNCHANGED <<hubVars, run, send, sendClosed, connOpen, hand, once, written,
                 since, dispatchVars, closeVars, panic>>

-----------------------------------------------------------------------------
\* The Subscriber takes a message for citizen z from Redis and calls Dispatch.
\* It may do so even after its context is cancelled: select chooses freely.
DispatchLock(z) ==
  /\ Alive
  /\ dpc = "idle"
  /\ mu = "free"
  /\ dispatched[z] < MaxDispatch
  /\ mu' = "read"
  /\ dpc' = "locked"
  /\ msgFor' = z
  /\ UNCHANGED <<closed, registered, clientVars, dispatched, targets,
                 closeVars, panic>>

\* Mutant: the early return on a closed hub forgets RUnlock.
DispatchCopyKeepingLock ==
  /\ Alive
  /\ dpc = "locked"
  /\ IF closed
     THEN /\ dpc' = "idle"
          /\ UNCHANGED <<mu, dispatched, targets>>
     ELSE /\ mu' = "free"
          /\ dpc' = "sending"
          /\ dispatched' = [dispatched EXCEPT ![msgFor] = @ + 1]
          /\ targets' = {c \in registered : CitizenOf[c] = msgFor}
  /\ UNCHANGED <<closed, registered, clientVars, msgFor, closeVars, panic>>

\* The registry is copied and the read lock released: what follows acts on
\* the copy.
DispatchCopy ==
  /\ Alive
  /\ dpc = "locked"
  /\ mu' = "free"
  /\ IF closed
     THEN /\ dpc' = "idle"
          /\ UNCHANGED <<dispatched, targets>>
     ELSE /\ dpc' = "sending"
          /\ dispatched' = [dispatched EXCEPT ![msgFor] = @ + 1]
          /\ targets' = {c \in registered : CitizenOf[c] = msgFor}
  /\ UNCHANGED <<closed, registered, clientVars, msgFor, closeVars, panic>>

\* Mutant: a full buffer drops the message and keeps the client.
DispatchToDropping(c) ==
  /\ Alive
  /\ dpc = "sending" /\ c \in targets /\ ~Busy("dispatcher")
  /\ targets' = targets \ {c}
  /\ IF sendClosed[c]
     THEN panic' = "send" /\ UNCHANGED send
     ELSE /\ send' = [send EXCEPT ![c] = IF Len(@) = SendBuffer THEN @
                                         ELSE Append(@, dispatched[msgFor])]
          /\ UNCHANGED panic
  /\ UNCHANGED <<hubVars, run, sendClosed, connOpen, hand, once, stage, written,
                 since, dispatched, dpc, msgFor, closeVars>>

\* Dispatch's select for one client of the copy: a send on a closed channel
\* panics, in a goroutine that nothing recovers; a full one drops the client.
DispatchTo(c) ==
  /\ Alive
  /\ dpc = "sending" /\ c \in targets /\ ~Busy("dispatcher")
  /\ targets' = targets \ {c}
  /\ \/ /\ sendClosed[c]
        /\ panic' = "send"
        /\ UNCHANGED <<send, stage>>
     \/ /\ ~sendClosed[c] /\ Len(send[c]) < SendBuffer
        /\ send' = [send EXCEPT ![c] = Append(@, dispatched[msgFor])]
        /\ UNCHANGED <<stage, panic>>
     \/ /\ ~sendClosed[c] /\ Len(send[c]) = SendBuffer
        /\ Enter(c, "dispatcher")
        /\ UNCHANGED <<send, panic>>
  /\ UNCHANGED <<hubVars, run, sendClosed, connOpen, hand, once, written, since,
                 dispatched, dpc, msgFor, closeVars>>

DispatchReturns ==
  /\ Alive
  /\ dpc = "sending" /\ targets = {} /\ ~Busy("dispatcher")
  /\ dpc' = "idle"
  /\ UNCHANGED <<hubVars, clientVars, dispatched, msgFor, targets, closeVars,
                 panic>>

-----------------------------------------------------------------------------
\* Mutant: the registry is emptied before its clients are collected.
CloseEmptyFirst ==
  /\ Alive
  /\ cpc = "idle" /\ mu = "free"
  /\ closed' = TRUE
  /\ all' = {}
  /\ registered' = {}
  /\ cpc' = "closing"
  /\ UNCHANGED <<mu, clientVars, dispatchVars, panic>>

\* waitShutdown calls Close, once per process, while the listener is open.
Close ==
  /\ Alive
  /\ cpc = "idle" /\ mu = "free"
  /\ closed' = TRUE
  /\ all' = registered
  /\ registered' = {}
  /\ cpc' = "closing"
  /\ UNCHANGED <<mu, clientVars, dispatchVars, panic>>

CloseNext(c) ==
  /\ Alive
  /\ cpc = "closing" /\ c \in all /\ ~Busy("closer")
  /\ all' = all \ {c}
  /\ Enter(c, "closer")
  /\ UNCHANGED <<hubVars, run, send, sendClosed, connOpen, hand, once, written,
                 since, dispatchVars, cpc, panic>>

CloseReturns ==
  /\ Alive
  /\ cpc = "closing" /\ all = {} /\ ~Busy("closer")
  /\ cpc' = "returned"
  /\ UNCHANGED <<hubVars, clientVars, dispatchVars, all, panic>>

-----------------------------------------------------------------------------
WritePump(c) ==
  \/ WritePumpReceives(c)
  \/ WritePumpWrites(c)
  \/ hand[c] # <<>> /\ WritePumpFails(c)
  \/ WritePumpEnds(c)

Dispatch ==
  \/ DispatchCopy
  \/ \E c \in Clients : DispatchTo(c)
  \/ DispatchReturns

Next ==
  \/ \E c \in Clients :
       \/ NewClient(c) \/ Register(c) \/ StartPumps(c)
       \/ ReadPumpEnds(c) \/ WritePump(c) \/ WritePumpFails(c)
       \/ \E k \in Callers : Shutdown(c, k)
  \/ \E z \in Citizens : DispatchLock(z)
  \/ Dispatch
  \/ Close \/ \E c \in Clients : CloseNext(c)
  \/ CloseReturns

Spec == Init /\ [][Next]_vars

\* Every goroutine that can run does (the Go scheduler), reads on a closed
\* connection fail and writes end by their deadline.  Nothing obliges a peer
\* to connect or leave, Redis to deliver, or the process to shut down.
\* Strong fairness on shutdown: sync.RWMutex does not let new readers overtake
\* a waiting Lock, so Unregister gets hub.mu however often Dispatch is called.
Fairness ==
  /\ \A c \in Clients :
       /\ WF_vars(StartPumps(c))
       /\ WF_vars(WritePump(c))
       /\ WF_vars(~connOpen[c] /\ ReadPumpEnds(c))
       /\ \A k \in Callers : SF_vars(Shutdown(c, k))
  /\ WF_vars(Dispatch)
  /\ WF_vars(CloseReturns \/ \E c \in Clients : CloseNext(c))

FairSpec == Spec /\ Fairness

-----------------------------------------------------------------------------
\* Type invariant; a send channel never holds more than its capacity.
TypeOK ==
  /\ mu \in {"free", "read"}
  /\ closed \in BOOLEAN
  /\ registered \subseteq Clients
  /\ run \in [Clients -> {"none", "accepted", "registered", "running"}]
  /\ send \in [Clients -> Seq(1 .. MaxDispatch)]
  /\ \A c \in Clients : Len(send[c]) <= SendBuffer
  /\ sendClosed \in [Clients -> BOOLEAN]
  /\ connOpen \in [Clients -> BOOLEAN]
  /\ hand \in [Clients -> Seq(1 .. MaxDispatch)]
  /\ once \in [Clients -> {"free", "busy", "done"}]
  /\ stage \in [Clients -> [Callers ->
       {"out", "wait", "unregister", "close", "conn", "returned"}]]
  /\ written \in [Clients -> Seq(1 .. MaxDispatch)]
  /\ since \in [Clients -> -1 .. MaxDispatch]
  /\ dispatched \in [Citizens -> 0 .. MaxDispatch]
  /\ dpc \in {"idle", "locked", "sending"}
  /\ msgFor \in Citizens
  /\ targets \subseteq Clients
  /\ cpc \in {"idle", "closing", "returned"}
  /\ all \subseteq Clients
  /\ panic \in {"none", "send", "close"}

\* A client in the registry can be sent to: shutdown unregisters it before it
\* closes the channel, whichever of four goroutines runs it.
RegisteredIsOpen == \A c \in registered : ~sendClosed[c]

\* No channel is closed twice (which would panic), although readPump,
\* writePump, Dispatch and Close may all shut the same client down.
NoDoubleClose == panic # "close"

\* What a peer receives is a run of consecutive messages of its citizen, from
\* the first one dispatched after it registered.
WrittenInOrder ==
  \A c \in Clients : \A i \in 1 .. Len(written[c]) :
    written[c][i] = since[c] + i

\* A client that stays registered misses nothing: between two dispatches every
\* message since its registration is written, in its writer's hand or queued.
\* The only alternative to receiving a message is being dropped.
RegisteredMissesNothing ==
  \A c \in registered :
    (dpc # "sending" /\ stage[c]["writer"] = "out") =>
      Len(written[c]) + Len(hand[c]) + Len(send[c])
        = dispatched[CitizenOf[c]] - since[c]

\* When Close returns, the shutdown of every client that was ever in the
\* registry has begun, by Close or by someone else.
CloseLeavesNoneBehind ==
  cpc = "returned" => \A c \in Clients : since[c] # -1 => once[c] # "free"

\* A shutdown that a goroutine asks for completes, so that nobody (the only
\* Subscriber included) waits for a client for ever.
ShutdownCompletes ==
  \A c \in Clients :
    (\E k \in Callers : stage[c][k] = "wait") ~> (once[c] = "done" \/ panic # "none")

\* A connection that was shut down leaves no goroutine behind.
PumpsEnd ==
  \A c \in Clients :
    (once[c] = "done" /\ run[c] # "none") ~>
      (\/ stage[c]["reader"] = "returned" /\ stage[c]["writer"] = "returned"
       \/ panic # "none")

\* hub.go on Dispatch: "Dispatch sends payload to all connections for the
\* citizen", slow ones being dropped: it never brings the process down.
NoSendOnClosedChannel == panic # "send"
=============================================================================

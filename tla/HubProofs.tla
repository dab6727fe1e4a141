------------------------------ MODULE HubProofs ------------------------------
(***************************************************************************)
(* Proofs about Hub for any number of connections, citizens and messages   *)
(* and any buffer size.  The safety of Client.shutdown rests on closeOnce: *)
(* at most one goroutine is inside the function of a client, it leaves the *)
(* registry before it closes the channel, and nobody reaches a client that *)
(* has not registered yet.                                                 *)
(***************************************************************************)
EXTENDS Hub, SequenceTheorems, TLAPS

Stages == {"out", "wait", "unregister", "close", "conn", "returned"}

\* Where a goroutine is while it runs closeOnce's function.
Inside == {"unregister", "close", "conn"}

\* The part of TypeOK that the shutdown argument uses.
ShutdownTypes ==
  /\ registered \subseteq Clients
  /\ run \in [Clients -> {"none", "accepted", "registered", "running"}]
  /\ sendClosed \in [Clients -> BOOLEAN]
  /\ once \in [Clients -> {"free", "busy", "done"}]
  /\ stage \in [Clients -> [Callers -> Stages]]
  /\ targets \subseteq Clients
  /\ all \subseteq Clients

\* At most one goroutine is inside a client's function, which is then busy.
OneInside ==
  \A c \in Clients : \A k \in Callers :
    stage[c][k] \in Inside =>
      /\ once[c] = "busy"
      /\ \A l \in Callers \ {k} : stage[c][l] \notin Inside

\* A channel is closed by the goroutine inside, or by one that is through.
ClosedFromInside ==
  \A c \in Clients :
    sendClosed[c] => \/ once[c] = "done"
                     \/ \E k \in Callers : stage[c][k] = "conn"

\* A registered client's shutdown has not got past Unregister.
RegisteredNotLeft ==
  \A c \in registered :
    /\ once[c] # "done"
    /\ \A k \in Callers : stage[c][k] \notin {"close", "conn"}

\* Before it registers, nobody but its handler knows a client.
FreshUnknown ==
  \A c \in Clients :
    run[c] \in {"none", "accepted"} =>
      /\ c \notin registered /\ c \notin targets /\ c \notin all
      /\ once[c] = "free"
      /\ \A k \in Callers : stage[c][k] = "out"

\* The inductive invariant of the shutdown argument.
IInv ==
  /\ ShutdownTypes
  /\ OneInside
  /\ ClosedFromInside
  /\ RegisteredNotLeft
  /\ FreshUnknown
  /\ NoDoubleClose

-----------------------------------------------------------------------------
\* One goroutine moves on in one client's shutdown; all else stays.
LEMMA Move ==
  ASSUME NEW S \in [Clients -> [Callers -> Stages]], NEW T,
         NEW c \in Clients, NEW k \in Callers, NEW x \in Stages,
         T = [S EXCEPT ![c][k] = x]
  PROVE  /\ T \in [Clients -> [Callers -> Stages]]
         /\ T[c][k] = x
         /\ \A d \in Clients, l \in Callers : (d # c \/ l # k) => T[d][l] = S[d][l]
<1>1. T = [S EXCEPT ![c] = [S[c] EXCEPT ![k] = x]]
  OBVIOUS
<1>2. [S[c] EXCEPT ![k] = x] \in [Callers -> Stages]
  OBVIOUS
<1>3. T[c] = [S[c] EXCEPT ![k] = x] /\ \A d \in Clients : d # c => T[d] = S[d]
  BY <1>1
<1>4. T \in [Clients -> [Callers -> Stages]]
  BY <1>1, <1>2
<1>5. T[c][k] = x /\ \A l \in Callers : l # k => T[c][l] = S[c][l]
  BY <1>3
<1> QED
  BY <1>3, <1>4, <1>5

\* The hub starts empty.
LEMMA InitIInv == Init => IInv
  BY DEF Init, IInv, ShutdownTypes, OneInside, ClosedFromInside,
     RegisteredNotLeft, FreshUnknown, NoDoubleClose, Inside, Stages

\* handleWS and Run: the client is unknown to all others until Register.
LEMMA AcceptStep ==
  ASSUME IInv, NEW c \in Clients, NewClient(c) \/ Register(c) \/ StartPumps(c)
  PROVE  IInv'
<1>1. /\ UNCHANGED <<sendClosed, once, stage, targets, all, panic>>
      /\ registered' \subseteq registered \cup {c}
      /\ registered' # registered => run[c] = "accepted"
      /\ \E x \in {"accepted", "registered", "running"} : run' = [run EXCEPT ![c] = x]
      /\ run'[c] \in {"none", "accepted"} => run[c] = "none" /\ registered' = registered
  BY DEF NewClient, Register, StartPumps, hubVars, dispatchVars, closeVars,
         IInv, ShutdownTypes
<1>2. ShutdownTypes'
  BY <1>1 DEF IInv, ShutdownTypes
<1>3. OneInside' /\ ClosedFromInside' /\ NoDoubleClose'
  BY <1>1 DEF IInv, OneInside, ClosedFromInside, NoDoubleClose
<1>4. RegisteredNotLeft'
  BY <1>1 DEF IInv, RegisteredNotLeft, FreshUnknown
<1>5. FreshUnknown'
  BY <1>1 DEF IInv, FreshUnknown, ShutdownTypes
<1> QED
  BY <1>2, <1>3, <1>4, <1>5 DEF IInv

\* A goroutine asks for the shutdown of a client that has registered; it was
\* not inside it.
LEMMA EnterStep ==
  ASSUME IInv, NEW c \in Clients, NEW k \in Callers,
         Enter(c, k), stage[c][k] \in {"out", "returned"},
         run[c] \notin {"none", "accepted"},
         UNCHANGED <<registered, run, sendClosed, once>>,
         targets' \subseteq targets, all' \subseteq all, panic' # "close"
  PROVE  IInv'
<1>1. /\ stage' \in [Clients -> [Callers -> Stages]]
      /\ stage'[c][k] = "wait"
      /\ \A d \in Clients, l \in Callers : (d # c \/ l # k) => stage'[d][l] = stage[d][l]
  BY Move DEF IInv, ShutdownTypes, Enter, Stages
<1>2. ShutdownTypes' /\ NoDoubleClose'
  BY <1>1 DEF IInv, ShutdownTypes, NoDoubleClose
<1>3. OneInside'
  BY <1>1 DEF IInv, OneInside, Inside
<1>4. ClosedFromInside'
  BY <1>1 DEF IInv, ClosedFromInside
<1>5. RegisteredNotLeft'
  BY <1>1 DEF IInv, ShutdownTypes, RegisteredNotLeft
<1>6. FreshUnknown'
  BY <1>1 DEF IInv, FreshUnknown
<1> QED
  BY <1>2, <1>3, <1>4, <1>5, <1>6 DEF IInv

\* closeOnce admits the first goroutine.
LEMMA OnceBeginStep ==
  ASSUME IInv, NEW c \in Clients, NEW k \in Callers, OnceBegin(c, k)
  PROVE  IInv'
<1>1. /\ stage' \in [Clients -> [Callers -> Stages]]
      /\ stage'[c][k] = "unregister"
      /\ \A d \in Clients, l \in Callers : (d # c \/ l # k) => stage'[d][l] = stage[d][l]
  BY Move DEF IInv, ShutdownTypes, OnceBegin, Stages
<1>2. /\ once' \in [Clients -> {"free", "busy", "done"}]
      /\ once[c] = "free" /\ once'[c] = "busy" /\ stage[c][k] = "wait"
      /\ \A d \in Clients : d # c => once'[d] = once[d]
      /\ UNCHANGED <<registered, run, sendClosed, targets, all, panic>>
  BY DEF IInv, ShutdownTypes, OnceBegin, hubVars, dispatchVars, closeVars
<1>3. ShutdownTypes' /\ NoDoubleClose'
  BY <1>1, <1>2 DEF IInv, ShutdownTypes, NoDoubleClose
<1>4. OneInside'
  BY <1>1, <1>2 DEF IInv, OneInside, Inside
<1>5. ClosedFromInside'
  BY <1>1, <1>2 DEF IInv, ClosedFromInside, OneInside, Inside
<1>6. RegisteredNotLeft'
  BY <1>1, <1>2 DEF IInv, ShutdownTypes, RegisteredNotLeft
<1>7. FreshUnknown'
  BY <1>1, <1>2 DEF IInv, FreshUnknown
<1> QED
  BY <1>3, <1>4, <1>5, <1>6, <1>7 DEF IInv

\* closeOnce lets a later goroutine pass.
LEMMA OnceSkipStep ==
  ASSUME IInv, NEW c \in Clients, NEW k \in Callers, OnceSkip(c, k)
  PROVE  IInv'
<1>1. /\ stage' \in [Clients -> [Callers -> Stages]]
      /\ stage'[c][k] = "returned"
      /\ \A d \in Clients, l \in Callers : (d # c \/ l # k) => stage'[d][l] = stage[d][l]
  BY Move DEF IInv, ShutdownTypes, OnceSkip, Stages
<1>2. /\ stage[c][k] = "wait"
      /\ UNCHANGED <<registered, run, sendClosed, once, targets, all, panic>>
  BY DEF OnceSkip, hubVars, dispatchVars, closeVars
<1>3. ShutdownTypes' /\ NoDoubleClose'
  BY <1>1, <1>2 DEF IInv, ShutdownTypes, NoDoubleClose
<1>4. OneInside' /\ ClosedFromInside'
  BY <1>1, <1>2 DEF IInv, OneInside, ClosedFromInside, Inside
<1>5. RegisteredNotLeft'
  BY <1>1, <1>2 DEF IInv, ShutdownTypes, RegisteredNotLeft
<1>6. FreshUnknown'
  BY <1>1, <1>2 DEF IInv, FreshUnknown
<1> QED
  BY <1>3, <1>4, <1>5, <1>6 DEF IInv

\* The goroutine inside takes the client out of the registry.
LEMMA UnregisterStep ==
  ASSUME IInv, NEW c \in Clients, NEW k \in Callers, Unregister(c, k)
  PROVE  IInv'
<1>1. /\ stage' \in [Clients -> [Callers -> Stages]]
      /\ stage'[c][k] = "close"
      /\ \A d \in Clients, l \in Callers : (d # c \/ l # k) => stage'[d][l] = stage[d][l]
  BY Move DEF IInv, ShutdownTypes, Unregister, Stages
<1>2. /\ stage[c][k] = "unregister"
      /\ registered' = registered \ {c}
      /\ UNCHANGED <<run, sendClosed, once, targets, all, panic>>
  BY DEF Unregister, dispatchVars, closeVars
<1>3. ShutdownTypes' /\ NoDoubleClose'
  BY <1>1, <1>2 DEF IInv, ShutdownTypes, NoDoubleClose
<1>4. OneInside' /\ ClosedFromInside'
  BY <1>1, <1>2 DEF IInv, OneInside, ClosedFromInside, Inside
<1>5. RegisteredNotLeft' /\ FreshUnknown'
  BY <1>1, <1>2 DEF IInv, ShutdownTypes, RegisteredNotLeft, FreshUnknown
<1> QED
  BY <1>3, <1>4, <1>5 DEF IInv

\* The goroutine inside closes the channel, which only it can have closed.
LEMMA CloseSendStep ==
  ASSUME IInv, NEW c \in Clients, NEW k \in Callers, CloseSend(c, k)
  PROVE  IInv'
<1>1. /\ stage' \in [Clients -> [Callers -> Stages]]
      /\ stage'[c][k] = "conn"
      /\ \A d \in Clients, l \in Callers : (d # c \/ l # k) => stage'[d][l] = stage[d][l]
  BY Move DEF IInv, ShutdownTypes, CloseSend, Stages
<1>2. /\ stage[c][k] = "close"
      /\ sendClosed' = [sendClosed EXCEPT ![c] = TRUE]
      /\ panic' = IF sendClosed[c] THEN "close" ELSE panic
      /\ UNCHANGED <<registered, run, once, targets, all>>
  BY DEF CloseSend, hubVars, dispatchVars, closeVars
<1>3. ~sendClosed[c]
  BY <1>2 DEF IInv, ClosedFromInside, OneInside, Inside
<1>4. ShutdownTypes' /\ NoDoubleClose'
  BY <1>1, <1>2, <1>3 DEF IInv, ShutdownTypes, NoDoubleClose
<1>5. OneInside'
  BY <1>1, <1>2 DEF IInv, OneInside, Inside
<1>6. ClosedFromInside'
  <2>1. \A d \in Clients : d # c => sendClosed'[d] = sendClosed[d]
    BY <1>2 DEF IInv, ShutdownTypes
  <2> QED
    BY <1>1, <1>2, <2>1 DEF IInv, ClosedFromInside
<1>7. RegisteredNotLeft'
  BY <1>1, <1>2 DEF IInv, ShutdownTypes, RegisteredNotLeft
<1>8. FreshUnknown'
  BY <1>1, <1>2 DEF IInv, FreshUnknown
<1> QED
  BY <1>4, <1>5, <1>6, <1>7, <1>8 DEF IInv

\* The goroutine inside is through.
LEMMA CloseConnStep ==
  ASSUME IInv, NEW c \in Clients, NEW k \in Callers, CloseConn(c, k)
  PROVE  IInv'
<1>1. /\ stage' \in [Clients -> [Callers -> Stages]]
      /\ stage'[c][k] = "returned"
      /\ \A d \in Clients, l \in Callers : (d # c \/ l # k) => stage'[d][l] = stage[d][l]
  BY Move DEF IInv, ShutdownTypes, CloseConn, Stages
<1>2. /\ once' \in [Clients -> {"free", "busy", "done"}]
      /\ once'[c] = "done" /\ stage[c][k] = "conn"
      /\ \A d \in Clients : d # c => once'[d] = once[d]
      /\ UNCHANGED <<registered, run, sendClosed, targets, all, panic>>
  BY DEF IInv, ShutdownTypes, CloseConn, hubVars, dispatchVars, closeVars
<1>3. ShutdownTypes' /\ NoDoubleClose'
  BY <1>1, <1>2 DEF IInv, ShutdownTypes, NoDoubleClose
<1>4. OneInside'
  BY <1>1, <1>2 DEF IInv, OneInside, Inside
<1>5. ClosedFromInside'
  BY <1>1, <1>2 DEF IInv, ClosedFromInside
<1>6. RegisteredNotLeft'
  BY <1>1, <1>2 DEF IInv, ShutdownTypes, RegisteredNotLeft
<1>7. FreshUnknown'
  BY <1>1, <1>2 DEF IInv, FreshUnknown
<1> QED
  BY <1>3, <1>4, <1>5, <1>6, <1>7 DEF IInv

\* Steps that leave every client's shutdown and the registry alone; Dispatch's
\* copy and Close's take clients from the registry.
LEMMA AsideStep ==
  ASSUME IInv, UNCHANGED <<run, sendClosed, once, stage>>,
         registered' \subseteq registered,
         targets' \subseteq targets \cup registered,
         all' \subseteq all \cup registered,
         panic' # "close"
  PROVE  IInv'
  BY DEF IInv, ShutdownTypes, OneInside, ClosedFromInside, RegisteredNotLeft,
         FreshUnknown, NoDoubleClose

-----------------------------------------------------------------------------
\* Both pumps: one that ends asks for the shutdown of its own client.
LEMMA PumpStep ==
  ASSUME IInv, NEW c \in Clients,
         ReadPumpEnds(c) \/ WritePump(c) \/ WritePumpFails(c)
  PROVE  IInv'
<1>1. CASE ReadPumpEnds(c)
  <2>1. /\ Enter(c, "reader") /\ stage[c]["reader"] = "out" /\ run[c] = "running"
        /\ UNCHANGED <<registered, run, sendClosed, once, targets, all, panic>>
    BY <1>1 DEF ReadPumpEnds, Pumping, hubVars, dispatchVars, closeVars
  <2>2. "reader" \in Callers /\ panic' # "close"
    BY <2>1 DEF Callers, IInv, NoDoubleClose
  <2> QED
    BY <2>1, <2>2, EnterStep
<1>2. CASE WritePumpFails(c) \/ WritePumpEnds(c)
  <2>1. /\ Enter(c, "writer") /\ stage[c]["writer"] = "out" /\ run[c] = "running"
        /\ UNCHANGED <<registered, run, sendClosed, once, targets, all, panic>>
    BY <1>2 DEF WritePumpFails, WritePumpEnds, Pumping, hubVars, dispatchVars, closeVars
  <2>2. "writer" \in Callers /\ panic' # "close"
    BY <2>1 DEF Callers, IInv, NoDoubleClose
  <2> QED
    BY <2>1, <2>2, EnterStep
<1>3. CASE WritePumpReceives(c) \/ WritePumpWrites(c)
  <2>1. UNCHANGED <<registered, run, sendClosed, once, stage, targets, all, panic>>
    BY <1>3 DEF WritePumpReceives, WritePumpWrites, hubVars, dispatchVars, closeVars
  <2>2. panic' # "close"
    BY <2>1 DEF IInv, NoDoubleClose
  <2> QED
    BY <2>1, <2>2, AsideStep
<1> QED
  BY <1>1, <1>2, <1>3 DEF WritePump

\* Dispatch: the clients of its copy have registered, so that it may shut a
\* slow one down; its panic is a send, not a close.
LEMMA DispatchStep ==
  ASSUME IInv, Dispatch \/ \E z \in Citizens : DispatchLock(z)
  PROVE  IInv'
<1>1. CASE DispatchCopy \/ DispatchReturns \/ \E z \in Citizens : DispatchLock(z)
  <2>1. /\ UNCHANGED <<registered, run, sendClosed, once, stage, all, panic>>
        /\ targets' \subseteq targets \cup registered
    BY <1>1 DEF DispatchCopy, DispatchReturns, DispatchLock, hubVars, clientVars, closeVars
  <2>2. panic' # "close"
    BY <2>1 DEF IInv, NoDoubleClose
  <2> QED
    BY <2>1, <2>2, AsideStep
<1>2. ASSUME NEW c \in Clients, DispatchTo(c)
      PROVE  IInv'
  <2>1. /\ UNCHANGED <<registered, run, sendClosed, once, all>>
        /\ c \in targets /\ targets' \subseteq targets
        /\ panic' \in {panic, "send"}
        /\ UNCHANGED stage \/ Enter(c, "dispatcher")
    BY <1>2 DEF DispatchTo, hubVars, closeVars
  <2>2. panic' # "close"
    BY <2>1 DEF IInv, NoDoubleClose
  <2>3. CASE UNCHANGED stage
    BY <2>1, <2>2, <2>3, AsideStep
  <2>4. CASE Enter(c, "dispatcher")
    <3>1. "dispatcher" \in Callers /\ run[c] \notin {"none", "accepted"}
      BY <2>1 DEF Callers, IInv, FreshUnknown
    <3>2. stage[c]["dispatcher"] \in {"out", "returned"}
      BY <1>2 DEF DispatchTo, Busy
    <3> QED
      BY <2>1, <2>2, <2>4, <3>1, <3>2, EnterStep
  <2> QED
    BY <2>1, <2>3, <2>4
<1> QED
  BY <1>1, <1>2 DEF Dispatch

\* Close: the clients it collects have registered.
LEMMA CloseStep ==
  ASSUME IInv, Close \/ CloseReturns \/ \E c \in Clients : CloseNext(c)
  PROVE  IInv'
<1>1. CASE Close \/ CloseReturns
  <2>1. /\ UNCHANGED <<run, sendClosed, once, stage, targets, panic>>
        /\ registered' \subseteq registered
        /\ all' \subseteq all \cup registered
    BY <1>1 DEF Close, CloseReturns, hubVars, clientVars, dispatchVars
  <2>2. panic' # "close"
    BY <2>1 DEF IInv, NoDoubleClose
  <2> QED
    BY <2>1, <2>2, AsideStep
<1>2. ASSUME NEW c \in Clients, CloseNext(c)
      PROVE  IInv'
  <2>1. /\ UNCHANGED <<registered, run, sendClosed, once, targets, panic>>
        /\ c \in all /\ all' \subseteq all /\ Enter(c, "closer")
    BY <1>2 DEF CloseNext, hubVars, dispatchVars
  <2>2. panic' # "close" /\ "closer" \in Callers /\ run[c] \notin {"none", "accepted"}
    BY <2>1 DEF Callers, IInv, NoDoubleClose, FreshUnknown
  <2>3. stage[c]["closer"] \in {"out", "returned"}
    BY <1>2 DEF CloseNext, Busy
  <2> QED
    BY <2>1, <2>2, <2>3, EnterStep
<1> QED
  BY <1>1, <1>2

\* Every step of the hub keeps the inductive invariant.
LEMMA NextIInv == IInv /\ [Next]_vars => IInv'
<1> SUFFICES ASSUME IInv, [Next]_vars
             PROVE  IInv'
  OBVIOUS
<1>1. ASSUME NEW c \in Clients, NewClient(c) \/ Register(c) \/ StartPumps(c)
      PROVE  IInv'
  BY <1>1, AcceptStep
<1>2. ASSUME NEW c \in Clients, ReadPumpEnds(c) \/ WritePump(c) \/ WritePumpFails(c)
      PROVE  IInv'
  BY <1>2, PumpStep
<1>3. ASSUME NEW c \in Clients, NEW k \in Callers, Shutdown(c, k)
      PROVE  IInv'
  BY <1>3, OnceBeginStep, OnceSkipStep, UnregisterStep, CloseSendStep, CloseConnStep
     DEF Shutdown
<1>4. CASE Dispatch \/ \E z \in Citizens : DispatchLock(z)
  BY <1>4, DispatchStep
<1>5. CASE Close \/ CloseReturns \/ \E c \in Clients : CloseNext(c)
  BY <1>5, CloseStep
<1>6. CASE UNCHANGED vars
  <2>1. UNCHANGED <<registered, run, sendClosed, once, stage, targets, all, panic>>
    BY <1>6 DEF vars, hubVars, clientVars, dispatchVars, closeVars
  <2>2. panic' # "close"
    BY <2>1 DEF IInv, NoDoubleClose
  <2> QED
    BY <2>1, <2>2, AsideStep
<1> QED
  BY <1>1, <1>2, <1>3, <1>4, <1>5, <1>6 DEF Next

-----------------------------------------------------------------------------
\* In every behaviour of the hub, Client.shutdown's function runs in at most
\* one goroutine per client, which unregisters the client before it closes its
\* channel, and no goroutine reaches a client that has not registered.
THEOREM IInvHolds == Spec => []IInv
  BY InitIInv, NextIInv, PTL DEF Spec

\* A client found in the registry has an open channel: Unregister comes before
\* close(c.send) in shutdown, and a shut down client never registers again.
THEOREM RegisteredIsOpenHolds == Spec => []RegisteredIsOpen
<1>1. IInv => RegisteredIsOpen
  BY DEF IInv, ShutdownTypes, RegisteredNotLeft, ClosedFromInside, RegisteredIsOpen
<1> QED
  BY <1>1, IInvHolds, PTL

\* close(c.send) never panics, though readPump, writePump, Dispatch and Close
\* may all shut the same client down: closeOnce admits one of them.
THEOREM NoDoubleCloseHolds == Spec => []NoDoubleClose
<1>1. IInv => NoDoubleClose
  BY DEF IInv
<1> QED
  BY <1>1, IInvHolds, PTL

-----------------------------------------------------------------------------
\* A client that was registered and whose shutdown has not begun is still in
\* the registry, in Close's hands, or asked to shut down by Close.
NoneForgotten ==
  \A c \in Clients :
    since[c] # -1 /\ once[c] = "free" =>
      c \in registered \/ c \in all \/ stage[c]["closer"] = "wait"

\* The inductive invariant of Close's argument, on top of IInv.
CloseInv ==
  /\ since = [c \in Clients |-> since[c]]
  /\ closed = (cpc # "idle")
  /\ cpc = "idle" => all = {}
  /\ cpc # "idle" => registered = {}
  /\ NoneForgotten
  /\ CloseLeavesNoneBehind

\* A step that forgets nobody: it leaves Close alone and begins the shutdown of
\* whom it takes out of the registry.
LEMMA KeepsAll ==
  ASSUME CloseInv, UNCHANGED <<closed, since, cpc, all>>, registered' \subseteq registered,
         \A c \in Clients : once'[c] = "free" =>
           /\ once[c] = "free"
           /\ c \in registered => c \in registered'
           /\ stage[c]["closer"] = "wait" => stage'[c]["closer"] = "wait"
  PROVE  CloseInv'
  BY DEF CloseInv, NoneForgotten, CloseLeavesNoneBehind

\* closeOnce moves on from "free" only, and the goroutine that runs Close stays
\* in a shutdown that nobody has begun.
LEMMA ShutdownForgetsNone ==
  ASSUME IInv, CloseInv, NEW c \in Clients, NEW k \in Callers, Shutdown(c, k)
  PROVE  CloseInv'
<1>1. /\ UNCHANGED <<closed, since, cpc, all>>
      /\ registered' \subseteq registered
      /\ \A d \in registered : d # c => d \in registered'
      /\ \E x \in Stages : stage' = [stage EXCEPT ![c][k] = x]
  BY DEF Shutdown, OnceBegin, OnceSkip, Unregister, CloseSend, CloseConn,
         hubVars, dispatchVars, closeVars, Stages
<1>2. \A d \in Clients : d # c => once'[d] = once[d]
  BY DEF Shutdown, OnceBegin, OnceSkip, Unregister, CloseSend, CloseConn,
         IInv, ShutdownTypes
<1>3. once'[c] # "free"
  <2>1. CASE OnceBegin(c, k) \/ CloseConn(c, k)
    BY <2>1 DEF OnceBegin, CloseConn, IInv, ShutdownTypes
  <2>2. CASE OnceSkip(c, k)
    BY <2>2 DEF OnceSkip
  <2>3. CASE Unregister(c, k) \/ CloseSend(c, k)
    BY <2>3 DEF Unregister, CloseSend, IInv, OneInside, Inside
  <2> QED
    BY <2>1, <2>2, <2>3 DEF Shutdown
<1>4. \A d \in Clients : d # c => stage'[d]["closer"] = stage[d]["closer"]
  BY <1>1, Move DEF IInv, ShutdownTypes, Callers
<1> QED
  BY <1>1, <1>2, <1>3, <1>4, KeepsAll

\* Every step of the hub keeps Close's invariant.
LEMMA NextCloseInv == IInv /\ CloseInv /\ [Next]_vars => CloseInv'
<1> SUFFICES ASSUME IInv, CloseInv, [Next]_vars
             PROVE  CloseInv'
  OBVIOUS
<1>1. ASSUME NEW c \in Clients, NewClient(c) \/ StartPumps(c)
      PROVE  CloseInv'
  <2>1. UNCHANGED <<closed, since, cpc, all, registered, once, stage>>
    BY <1>1 DEF NewClient, StartPumps, hubVars, closeVars
  <2> QED
    BY <2>1, KeepsAll
<1>2. ASSUME NEW c \in Clients, Register(c)
      PROVE  CloseInv'
  <2>1. CASE closed
    <3>1. UNCHANGED <<closed, since, cpc, all, registered, once, stage>>
      BY <1>2, <2>1 DEF Register, closeVars
    <3> QED
      BY <3>1, KeepsAll
  <2>2. CASE ~closed
    <3>1. /\ UNCHANGED <<closed, cpc, all, once, stage>>
          /\ registered' = registered \cup {c}
          /\ since' = [since EXCEPT ![c] = dispatched[CitizenOf[c]]]
          /\ cpc = "idle"
      BY <1>2, <2>2 DEF Register, closeVars, CloseInv
    <3>2. since' = [d \in Clients |-> since'[d]] /\ \A d \in Clients : d # c => since'[d] = since[d]
      BY <3>1 DEF CloseInv
    <3> QED
      BY <3>1, <3>2 DEF CloseInv, NoneForgotten, CloseLeavesNoneBehind
  <2> QED
    BY <2>1, <2>2
<1>3. ASSUME NEW c \in Clients, NEW k \in {"reader", "writer", "dispatcher"}, Enter(c, k),
             UNCHANGED <<closed, since, cpc, all, registered, once>>
      PROVE  CloseInv'
  <2>1. k \in Callers /\ "closer" \in Callers /\ k # "closer" /\ "wait" \in Stages
    BY DEF Callers, Stages
  <2>2. \A d \in Clients : stage'[d]["closer"] = stage[d]["closer"]
    BY <1>3, <2>1, Move DEF Enter, IInv, ShutdownTypes
  <2> QED
    BY <1>3, <2>2, KeepsAll
<1>4. ASSUME NEW c \in Clients, ReadPumpEnds(c) \/ WritePump(c) \/ WritePumpFails(c)
      PROVE  CloseInv'
  <2>1. /\ UNCHANGED <<closed, since, cpc, all, registered, once>>
        /\ UNCHANGED stage \/ Enter(c, "reader") \/ Enter(c, "writer")
    BY <1>4 DEF ReadPumpEnds, WritePump, WritePumpFails, WritePumpEnds, WritePumpReceives,
                WritePumpWrites, hubVars, closeVars
  <2> QED
    BY <2>1, <1>3, KeepsAll
<1>5. CASE Dispatch \/ \E z \in Citizens : DispatchLock(z)
  <2>1. CASE DispatchCopy \/ DispatchReturns \/ \E z \in Citizens : DispatchLock(z)
    <3>1. UNCHANGED <<closed, since, cpc, all, registered, once, stage>>
      BY <2>1 DEF DispatchCopy, DispatchReturns, DispatchLock, hubVars, clientVars, closeVars
    <3> QED
      BY <3>1, KeepsAll
  <2>2. ASSUME NEW c \in Clients, DispatchTo(c)
        PROVE  CloseInv'
    <3>1. /\ UNCHANGED <<closed, since, cpc, all, registered, once>>
          /\ UNCHANGED stage \/ Enter(c, "dispatcher")
      BY <2>2 DEF DispatchTo, hubVars, closeVars
    <3> QED
      BY <3>1, <1>3, KeepsAll
  <2> QED
    BY <1>5, <2>1, <2>2 DEF Dispatch
<1>6. CASE Close
  BY <1>6 DEF Close, clientVars, CloseInv, NoneForgotten, CloseLeavesNoneBehind
<1>7. ASSUME NEW c \in Clients, CloseNext(c)
      PROVE  CloseInv'
  <2>1. /\ UNCHANGED <<closed, since, cpc, registered, once>>
        /\ all' = all \ {c} /\ cpc = "closing"
    BY <1>7 DEF CloseNext, hubVars
  <2>2. /\ stage'[c]["closer"] = "wait"
        /\ \A d \in Clients : d # c => stage'[d]["closer"] = stage[d]["closer"]
    BY <1>7, Move DEF CloseNext, Enter, IInv, ShutdownTypes, Callers, Stages
  <2> QED
    BY <2>1, <2>2 DEF CloseInv, NoneForgotten, CloseLeavesNoneBehind
<1>8. CASE CloseReturns
  <2>1. /\ UNCHANGED <<closed, since, all, registered, once, stage>>
        /\ cpc = "closing" /\ cpc' = "returned" /\ all = {}
        /\ \A c \in Clients : stage[c]["closer"] # "wait"
    BY <1>8 DEF CloseReturns, Busy, hubVars, clientVars
  <2> QED
    BY <2>1 DEF CloseInv, NoneForgotten, CloseLeavesNoneBehind
<1>9. ASSUME NEW c \in Clients, NEW k \in Callers, Shutdown(c, k)
      PROVE  CloseInv'
  BY <1>9, ShutdownForgetsNone
<1>10. CASE UNCHANGED vars
  <2>1. UNCHANGED <<closed, since, cpc, all, registered, once, stage>>
    BY <1>10 DEF vars, hubVars, clientVars, closeVars
  <2> QED
    BY <2>1, KeepsAll
<1> QED
  BY <1>1, <1>2, <1>4, <1>5, <1>6, <1>7, <1>8, <1>9, <1>10 DEF Next

\* When Hub.Close returns, the shutdown of every client that was ever in the
\* registry has begun, however registrations, departures and Dispatch interleave
\* with it: Close waits inside each shutdown it asks for, and after h.closed is
\* set nobody enters the registry.
THEOREM CloseLeavesNoneBehindHolds == Spec => []CloseLeavesNoneBehind
<1>1. Init => CloseInv
  BY DEF Init, CloseInv, NoneForgotten, CloseLeavesNoneBehind
<1>2. Spec => []CloseInv
  BY <1>1, NextCloseInv, IInvHolds, PTL DEF Spec
<1>3. CloseInv => CloseLeavesNoneBehind
  BY DEF CloseInv
<1> QED
  BY <1>2, <1>3, PTL

-----------------------------------------------------------------------------
\* The writePump of c is still in its loop.
Writing(c) == stage[c]["writer"] = "out"

\* The number of the last message that was written, taken or queued for c.
Reached(c) == since[c] + Len(written[c]) + Len(hand[c]) + Len(send[c])

\* The rest of TypeOK: control, and the messages.
ControlTypes ==
  /\ mu \in {"free", "read"}
  /\ closed \in BOOLEAN
  /\ connOpen \in [Clients -> BOOLEAN]
  /\ dpc \in {"idle", "locked", "sending"}
  /\ cpc \in {"idle", "closing", "returned"}
  /\ panic \in {"none", "send", "close"}

MessageTypes ==
  /\ send \in [Clients -> Seq(1 .. MaxDispatch)]
  /\ \A c \in Clients : Len(send[c]) <= SendBuffer
  /\ hand \in [Clients -> Seq(1 .. MaxDispatch)]
  /\ written \in [Clients -> Seq(1 .. MaxDispatch)]
  /\ since \in [Clients -> -1 .. MaxDispatch]
  /\ dispatched \in [Citizens -> 0 .. MaxDispatch]
  /\ msgFor \in Citizens

\* A client that has not registered has received nothing.
FreshUnwritten ==
  \A c \in Clients : run[c] \in {"none", "accepted"} =>
    written[c] = <<>> /\ hand[c] = <<>> /\ send[c] = <<>>

\* Dispatch sends one message at a time, to clients of its citizen.
DispatchPhases ==
  /\ dpc # "sending" => targets = {} /\ ~Busy("dispatcher")
  /\ dpc = "locked" => dispatched[msgFor] < MaxDispatch
  /\ dpc = "sending" => dispatched[msgFor] > 0
  /\ \A c \in targets : CitizenOf[c] = msgFor

\* Who returns from a shutdown leaves a client that is shut down.
ReturnedIsDone ==
  \A c \in Clients, k \in Callers : stage[c][k] = "returned" => once[c] = "done"

\* What the writer holds, and then what is queued, follows what is written.
QueueInOrder ==
  \A c \in Clients :
    /\ Len(hand[c]) <= 1
    /\ Writing(c) =>
         /\ hand[c] # <<>> => hand[c][1] = since[c] + Len(written[c]) + 1
         /\ \A i \in 1 .. Len(send[c]) :
              send[c][i] = since[c] + Len(written[c]) + Len(hand[c]) + i

\* Clients in Dispatch's copy lack its message; other registered clients lack
\* none, unless Dispatch is about to drop them.
UpToDate ==
  \A c \in Clients : Writing(c) =>
    /\ c \in targets => Reached(c) + 1 = dispatched[CitizenOf[c]]
    /\ c \in registered \ targets /\ stage[c]["dispatcher"] = "out" =>
         Reached(c) = dispatched[CitizenOf[c]]

\* The inductive invariant of the stream's argument, on top of IInv.
StreamInv ==
  /\ ControlTypes
  /\ MessageTypes
  /\ FreshUnwritten
  /\ DispatchPhases
  /\ ReturnedIsDone
  /\ QueueInOrder
  /\ UpToDate
  /\ WrittenInOrder

\* Together with the types of the shutdown argument this is the type invariant.
LEMMA TypesTogether == ShutdownTypes /\ ControlTypes /\ MessageTypes => TypeOK
BY DEF ShutdownTypes, ControlTypes, MessageTypes, TypeOK, Stages

\* Nothing dispatched, nothing queued.
LEMMA InitStreamInv == Init => StreamInv
<1> SUFFICES ASSUME Init PROVE StreamInv
  OBVIOUS
<1> USE HubAssumption DEF HubAssumption, Init
<1>1. ControlTypes
  BY DEF ControlTypes
<1>2. MessageTypes
  <2>1. <<>> \in Seq(1 .. MaxDispatch) /\ Len(<<>>) = 0
    OBVIOUS
  <2>2. 0 \in 0 .. MaxDispatch /\ -1 \in -1 .. MaxDispatch
    OBVIOUS
  <2> QED
    BY <2>1, <2>2 DEF MessageTypes
<1>3. FreshUnwritten /\ DispatchPhases /\ ReturnedIsDone
  BY DEF FreshUnwritten, DispatchPhases, ReturnedIsDone, Busy, Callers
<1>4. QueueInOrder /\ WrittenInOrder
  BY DEF QueueInOrder, WrittenInOrder
<1>5. UpToDate
  BY DEF UpToDate
<1> QED
  BY <1>1, <1>2, <1>3, <1>4, <1>5 DEF StreamInv

\* A step that leaves the messages and Dispatch alone, lets nobody into the
\* registry and brings no goroutine back to its loop.
LEMMA StreamAside ==
  ASSUME StreamInv, ControlTypes',
         UNCHANGED <<send, hand, written, since, dispatched, targets, msgFor, dpc>>,
         registered' \subseteq registered,
         \A d \in Clients :
           /\ run'[d] \in {"none", "accepted"} => run[d] \in {"none", "accepted"}
           /\ stage'[d]["writer"] = "out" => stage[d]["writer"] = "out"
           /\ stage'[d]["dispatcher"] = "out" => stage[d]["dispatcher"] = "out"
           /\ dpc # "sending" => stage'[d]["dispatcher"] \in {"out", "returned"},
         ReturnedIsDone'
  PROVE  StreamInv'
<1> USE DEF StreamInv
<1>1. MessageTypes'
  BY DEF MessageTypes
<1>2. FreshUnwritten'
  BY DEF FreshUnwritten
<1>3. DispatchPhases'
  BY DEF DispatchPhases, Busy
<1>4. QueueInOrder'
  BY DEF QueueInOrder, Writing
<1>5. UpToDate'
  BY DEF UpToDate, Writing, Reached
<1>6. WrittenInOrder'
  BY DEF WrittenInOrder
<1> QED
  BY <1>1, <1>2, <1>3, <1>4, <1>5, <1>6

\* A goroutine that is not Dispatch's asks for a shutdown.
LEMMA StreamEnter ==
  ASSUME IInv, StreamInv, NEW c \in Clients, NEW k \in {"reader", "writer", "closer"},
         Enter(c, k), ControlTypes',
         UNCHANGED <<send, hand, written, since, dispatched, targets, msgFor, dpc,
                     registered, run, once>>
  PROVE  StreamInv'
<1>1. /\ k \in Callers /\ "writer" \in Callers /\ "dispatcher" \in Callers
      /\ k # "dispatcher" /\ "wait" \in Stages
  BY DEF Callers, Stages
<1>2. /\ stage'[c][k] = "wait"
      /\ \A d \in Clients, l \in Callers : (d # c \/ l # k) => stage'[d][l] = stage[d][l]
  BY <1>1, Move DEF IInv, ShutdownTypes, Enter
<1>3. ReturnedIsDone'
  BY <1>2 DEF StreamInv, ReturnedIsDone
<1>4. dpc # "sending" => \A d \in Clients : stage[d]["dispatcher"] \in {"out", "returned"}
  BY DEF StreamInv, DispatchPhases, Busy
<1>5. \A d \in Clients :
        /\ stage'[d]["writer"] = "out" => stage[d]["writer"] = "out"
        /\ stage'[d]["dispatcher"] = stage[d]["dispatcher"]
  BY <1>1, <1>2
<1> QED
  BY <1>3, <1>4, <1>5, StreamAside

\* Client.shutdown touches no message that is already queued.
LEMMA StreamShutdown ==
  ASSUME IInv, StreamInv, NEW c \in Clients, NEW k \in Callers, Shutdown(c, k)
  PROVE  StreamInv'
<1>1. /\ UNCHANGED <<send, hand, written, since, dispatched, targets, msgFor, dpc, run>>
      /\ registered' \subseteq registered
  BY DEF Shutdown, OnceBegin, OnceSkip, Unregister, CloseSend, CloseConn,
         hubVars, dispatchVars
<1>2. PICK x \in Stages \ {"out"} :
        /\ stage' = [stage EXCEPT ![c][k] = x]
        /\ x = "returned" => once'[c] = "done"
  BY DEF Shutdown, OnceBegin, OnceSkip, Unregister, CloseSend, CloseConn, Stages,
         IInv, ShutdownTypes
<1>3. /\ stage'[c][k] = x
      /\ \A d \in Clients, l \in Callers : (d # c \/ l # k) => stage'[d][l] = stage[d][l]
  BY <1>2, Move DEF IInv, ShutdownTypes
<1>4. \A d \in Clients : once[d] = "done" => once'[d] = "done"
  BY DEF Shutdown, OnceBegin, OnceSkip, Unregister, CloseSend, CloseConn,
         IInv, ShutdownTypes
<1>5. stage[c][k] \notin {"out", "returned"}
  BY DEF Shutdown, OnceBegin, OnceSkip, Unregister, CloseSend, CloseConn
<1>6. ReturnedIsDone'
  BY <1>2, <1>3, <1>4 DEF StreamInv, ReturnedIsDone
<1>7. ControlTypes'
  <2>1. connOpen' \in [Clients -> BOOLEAN]
    BY DEF Shutdown, OnceBegin, OnceSkip, Unregister, CloseSend, CloseConn,
           StreamInv, ControlTypes
  <2>2. panic' \in {"none", "send", "close"}
    BY DEF Shutdown, OnceBegin, OnceSkip, Unregister, CloseSend, CloseConn,
           StreamInv, ControlTypes
  <2>3. UNCHANGED <<mu, closed, dpc, cpc>>
    BY DEF Shutdown, OnceBegin, OnceSkip, Unregister, CloseSend, CloseConn,
           hubVars, dispatchVars, closeVars
  <2> QED
    BY <2>1, <2>2, <2>3 DEF StreamInv, ControlTypes
<1>8. dpc # "sending" => k # "dispatcher" /\ \A d \in Clients :
                           stage[d]["dispatcher"] \in {"out", "returned"}
  BY <1>5 DEF StreamInv, DispatchPhases, Busy
<1>9. "writer" \in Callers /\ "dispatcher" \in Callers
  BY DEF Callers
<1>10. \A d \in Clients :
         /\ stage'[d]["writer"] = "out" => stage[d]["writer"] = "out"
         /\ stage'[d]["dispatcher"] = "out" => stage[d]["dispatcher"] = "out"
         /\ dpc # "sending" => stage'[d]["dispatcher"] \in {"out", "returned"}
  BY <1>2, <1>3, <1>8, <1>9
<1> QED
  BY <1>1, <1>6, <1>7, <1>10, StreamAside

\* A client enters the registry with nothing to catch up with.
LEMMA StreamAccept ==
  ASSUME IInv, StreamInv, NEW c \in Clients, NewClient(c) \/ Register(c) \/ StartPumps(c)
  PROVE  StreamInv'
<1>1. CASE NewClient(c) \/ StartPumps(c)
  <2>1. /\ UNCHANGED <<send, hand, written, since, dispatched, targets, msgFor, dpc,
                       registered, stage, once>>
        /\ \A d \in Clients : run'[d] \in {"none", "accepted"} =>
                                run[d] \in {"none", "accepted"}
    BY <1>1 DEF NewClient, StartPumps, hubVars, dispatchVars, IInv, ShutdownTypes
  <2>2. ControlTypes'
    BY <1>1 DEF NewClient, StartPumps, hubVars, dispatchVars, closeVars,
                StreamInv, ControlTypes
  <2>3. ReturnedIsDone'
    BY <2>1 DEF StreamInv, ReturnedIsDone
  <2>4. dpc # "sending" => \A d \in Clients : stage[d]["dispatcher"] \in {"out", "returned"}
    BY DEF StreamInv, DispatchPhases, Busy
  <2> QED
    BY <2>1, <2>2, <2>3, <2>4, StreamAside
<1>2. CASE Register(c)
  <2>1. /\ run[c] = "accepted" /\ run' = [run EXCEPT ![c] = "registered"]
        /\ UNCHANGED <<mu, closed, connOpen, send, hand, written, once, stage, dispatched, dpc,
                       msgFor, targets, cpc, all, panic>>
        /\ closed => UNCHANGED <<registered, since>>
        /\ ~closed => /\ registered' = registered \cup {c}
                      /\ since' = [since EXCEPT ![c] = dispatched[CitizenOf[c]]]
    BY <1>2 DEF Register, dispatchVars, closeVars
  <2>2. \A d \in Clients : d # c => run'[d] = run[d]
    BY <2>1 DEF IInv, ShutdownTypes
  <2>3. run'[c] = "registered"
    BY <2>1 DEF IInv, ShutdownTypes
  <2>4. CASE closed
    <3>1. ControlTypes' /\ ReturnedIsDone'
      BY <2>1 DEF StreamInv, ControlTypes, ReturnedIsDone
    <3>2. dpc # "sending" => \A d \in Clients :
                               stage[d]["dispatcher"] \in {"out", "returned"}
      BY DEF StreamInv, DispatchPhases, Busy
    <3> QED
      BY <2>1, <2>2, <2>3, <2>4, <3>1, <3>2, StreamAside
  <2>5. CASE ~closed
    <3>1. /\ written[c] = <<>> /\ hand[c] = <<>> /\ send[c] = <<>> /\ c \notin targets
      BY <2>1 DEF IInv, FreshUnknown, StreamInv, FreshUnwritten
    <3>2. dispatched[CitizenOf[c]] \in 0 .. MaxDispatch
      BY HubAssumption DEF HubAssumption, StreamInv, MessageTypes
    <3>3. /\ since' \in [Clients -> -1 .. MaxDispatch]
          /\ since'[c] = dispatched[CitizenOf[c]]
          /\ \A d \in Clients : d # c => since'[d] = since[d]
      <4>1. dispatched[CitizenOf[c]] \in -1 .. MaxDispatch
        BY <3>2, HubAssumption DEF HubAssumption
      <4>2. since' = [since EXCEPT ![c] = dispatched[CitizenOf[c]]]
        BY <2>1, <2>5
      <4> QED
        BY <4>1, <4>2 DEF StreamInv, MessageTypes
    <3>4. ControlTypes' /\ ReturnedIsDone' /\ DispatchPhases'
      BY <2>1 DEF StreamInv, ControlTypes, ReturnedIsDone, DispatchPhases, Busy
    <3>5. MessageTypes'
      BY <2>1, <3>3 DEF StreamInv, MessageTypes
    <3>6. FreshUnwritten'
      BY <2>1, <2>2, <2>3 DEF StreamInv, FreshUnwritten
    <3>7. QueueInOrder' /\ WrittenInOrder'
      BY <2>1, <3>1, <3>3 DEF StreamInv, QueueInOrder, WrittenInOrder, Writing
    <3>8. UpToDate'
      <4>1. Reached(c)' = dispatched[CitizenOf[c]]
        BY <2>1, <3>1, <3>2, <3>3 DEF Reached
      <4>2. \A d \in Clients : d # c => Reached(d)' = Reached(d)
        BY <2>1, <3>3 DEF Reached
      <4> QED
        BY <2>1, <2>5, <3>1, <4>1, <4>2 DEF StreamInv, UpToDate, Writing
    <3> QED
      BY <3>4, <3>5, <3>6, <3>7, <3>8 DEF StreamInv
  <2> QED
    BY <2>4, <2>5
<1> QED
  BY <1>1, <1>2

\* The writer takes the first message of its queue.
LEMMA TakeFirst ==
  ASSUME NEW S, NEW q \in Seq(S), q # <<>>
  PROVE  /\ <<Head(q)>> \in Seq(S) /\ Len(<<Head(q)>>) = 1 /\ <<Head(q)>>[1] = q[1]
         /\ Tail(q) \in Seq(S) /\ Len(Tail(q)) = Len(q) - 1
         /\ \A i \in 1 .. Len(Tail(q)) : Tail(q)[i] = q[i + 1]
         /\ Len(q) \in Nat /\ Len(q) > 0
<1>1. Len(q) \in Nat /\ Len(q) > 0
  BY EmptySeq
<1>2. Head(q) = q[1] /\ Head(q) \in S
  BY <1>1
<1>3. /\ Tail(q) \in Seq(S) /\ Len(Tail(q)) = Len(q) - 1
      /\ \A i \in 1 .. Len(Tail(q)) : Tail(q)[i] = q[i + 1]
  BY HeadTailProperties
<1> QED
  BY <1>1, <1>2, <1>3

\* It writes the message in its hand behind those written before.
LEMMA WriteOne ==
  ASSUME NEW S, NEW w \in Seq(S), NEW h \in Seq(S), Len(h) = 1
  PROVE  /\ w \o h \in Seq(S) /\ Len(w \o h) = Len(w) + 1 /\ Len(w) \in Nat
         /\ \A i \in 1 .. Len(w) : (w \o h)[i] = w[i]
         /\ (w \o h)[Len(w) + 1] = h[1]
<1>1. Len(w) \in Nat
  OBVIOUS
<1>2. /\ w \o h \in Seq(S) /\ Len(w \o h) = Len(w) + 1
      /\ \A i \in 1 .. Len(w) + 1 :
           (w \o h)[i] = IF i <= Len(w) THEN w[i] ELSE h[i - Len(w)]
  BY ConcatProperties
<1>3. (w \o h)[Len(w) + 1] = h[Len(w) + 1 - Len(w)]
  BY <1>1, <1>2
<1>4. Len(w) + 1 - Len(w) = 1
  BY <1>1
<1>5. \A i \in 1 .. Len(w) : (w \o h)[i] = w[i]
  BY <1>1, <1>2
<1> QED
  BY <1>1, <1>2, <1>3, <1>4, <1>5

\* Dispatch queues its message behind those it queued before.
LEMMA QueueOne ==
  ASSUME NEW S, NEW q \in Seq(S), NEW x \in S
  PROVE  /\ Append(q, x) \in Seq(S) /\ Len(Append(q, x)) = Len(q) + 1 /\ Len(q) \in Nat
         /\ \A i \in 1 .. Len(q) : Append(q, x)[i] = q[i]
         /\ Append(q, x)[Len(q) + 1] = x
OBVIOUS

\* writePump moves messages along the stream in order, or leaves its loop for
\* good.
LEMMA StreamPump ==
  ASSUME IInv, StreamInv, NEW c \in Clients,
         ReadPumpEnds(c) \/ WritePump(c) \/ WritePumpFails(c)
  PROVE  StreamInv'
<1>0. /\ send[c] \in Seq(1 .. MaxDispatch) /\ hand[c] \in Seq(1 .. MaxDispatch)
      /\ written[c] \in Seq(1 .. MaxDispatch) /\ since[c] \in Int
      /\ Len(send[c]) <= SendBuffer /\ SendBuffer \in Nat
  BY HubAssumption DEF HubAssumption, StreamInv, MessageTypes
<1>1. CASE ReadPumpEnds(c)
  <2>1. /\ Enter(c, "reader")
        /\ UNCHANGED <<mu, closed, connOpen, cpc, panic, send, hand, written, since,
                       dispatched, targets, msgFor, dpc, registered, run, once>>
    BY <1>1 DEF ReadPumpEnds, hubVars, dispatchVars, closeVars
  <2>2. ControlTypes'
    BY <2>1 DEF StreamInv, ControlTypes
  <2> QED
    BY <2>1, <2>2, StreamEnter
<1>2. CASE WritePumpEnds(c)
  <2>1. /\ Enter(c, "writer")
        /\ UNCHANGED <<mu, closed, connOpen, cpc, panic, send, hand, written, since,
                       dispatched, targets, msgFor, dpc, registered, run, once>>
    BY <1>2 DEF WritePumpEnds, hubVars, dispatchVars, closeVars
  <2>2. ControlTypes'
    BY <2>1 DEF StreamInv, ControlTypes
  <2> QED
    BY <2>1, <2>2, StreamEnter
<1>3. CASE WritePumpFails(c)
  <2>1. /\ Enter(c, "writer") /\ run[c] = "running"
        /\ hand' = [hand EXCEPT ![c] = <<>>]
        /\ UNCHANGED <<mu, closed, connOpen, cpc, panic, send, written, since,
                       dispatched, targets, msgFor, dpc, registered, run, once>>
    BY <1>3 DEF WritePumpFails, Pumping, hubVars, dispatchVars, closeVars
  <2>2. "writer" \in Callers /\ "dispatcher" \in Callers /\ "wait" \in Stages
    BY DEF Callers, Stages
  <2>3. /\ stage'[c]["writer"] = "wait"
        /\ \A d \in Clients, l \in Callers :
             (d # c \/ l # "writer") => stage'[d][l] = stage[d][l]
    BY <2>1, <2>2, Move DEF IInv, ShutdownTypes, Enter
  <2>4. /\ hand' \in [Clients -> Seq(1 .. MaxDispatch)] /\ hand'[c] = <<>>
        /\ \A d \in Clients : d # c => hand'[d] = hand[d]
    BY <2>1 DEF StreamInv, MessageTypes
  <2>5. ControlTypes' /\ MessageTypes'
    BY <2>1, <2>4 DEF StreamInv, ControlTypes, MessageTypes
  <2>6. FreshUnwritten'
    BY <2>1, <2>4 DEF StreamInv, FreshUnwritten
  <2>7. DispatchPhases' /\ ReturnedIsDone'
    <3>1. \A d \in Clients : stage'[d]["dispatcher"] = stage[d]["dispatcher"]
      BY <2>2, <2>3
    <3> QED
      BY <2>1, <2>3, <3>1 DEF StreamInv, DispatchPhases, ReturnedIsDone, Busy
  <2>8. QueueInOrder' /\ WrittenInOrder'
    BY <2>1, <2>2, <2>3, <2>4 DEF StreamInv, QueueInOrder, WrittenInOrder, Writing
  <2>9. UpToDate'
    <3>1. ~Writing(c)' /\ \A d \in Clients : d # c => Reached(d)' = Reached(d)
      BY <2>1, <2>2, <2>3, <2>4 DEF Writing, Reached
    <3> QED
      BY <2>1, <2>2, <2>3, <3>1 DEF StreamInv, UpToDate, Writing
  <2> QED
    BY <2>5, <2>6, <2>7, <2>8, <2>9 DEF StreamInv
<1>4. CASE WritePumpReceives(c)
  <2>1. /\ run[c] = "running" /\ stage[c]["writer"] = "out"
        /\ hand[c] = <<>> /\ send[c] # <<>>
        /\ hand' = [hand EXCEPT ![c] = <<Head(send[c])>>]
        /\ send' = [send EXCEPT ![c] = Tail(send[c])]
        /\ UNCHANGED <<mu, closed, connOpen, cpc, panic, written, since, stage,
                       dispatched, targets, msgFor, dpc, registered, run, once>>
    BY <1>4 DEF WritePumpReceives, Pumping, hubVars, dispatchVars, closeVars
  <2>2. /\ hand' \in [Clients -> Seq(1 .. MaxDispatch)] /\ Len(hand'[c]) = 1
        /\ hand'[c][1] = send[c][1]
        /\ \A d \in Clients : d # c => hand'[d] = hand[d]
    BY <1>0, <2>1, TakeFirst DEF StreamInv, MessageTypes
  <2>3. /\ send' \in [Clients -> Seq(1 .. MaxDispatch)]
        /\ Len(send'[c]) = Len(send[c]) - 1 /\ Len(send[c]) \in Nat /\ Len(send[c]) > 0
        /\ \A i \in 1 .. Len(send'[c]) : send'[c][i] = send[c][i + 1]
        /\ \A d \in Clients : d # c => send'[d] = send[d]
    BY <1>0, <2>1, TakeFirst DEF StreamInv, MessageTypes
  <2>4. ControlTypes' /\ MessageTypes'
    BY <1>0, <2>1, <2>2, <2>3 DEF StreamInv, ControlTypes, MessageTypes
  <2>5. FreshUnwritten'
    BY <2>1, <2>2, <2>3 DEF StreamInv, FreshUnwritten
  <2>6. DispatchPhases' /\ ReturnedIsDone' /\ WrittenInOrder'
    BY <2>1 DEF StreamInv, DispatchPhases, ReturnedIsDone, Busy, WrittenInOrder
  <2>7. QueueInOrder'
    <3>1. /\ hand'[c][1] = since[c] + Len(written[c]) + 1
          /\ \A i \in 1 .. Len(send'[c]) :
               send'[c][i] = since[c] + Len(written[c]) + Len(hand'[c]) + i
      <4>1. \A i \in 1 .. Len(send[c]) : send[c][i] = since[c] + Len(written[c]) + i
        BY <1>0, <2>1 DEF StreamInv, QueueInOrder, Writing
      <4>2. Len(written[c]) \in Nat
        BY <1>0
      <4>3. hand'[c][1] = since[c] + Len(written[c]) + 1
        BY <2>2, <2>3, <4>1
      <4>4. ASSUME NEW i \in 1 .. Len(send'[c])
            PROVE  send'[c][i] = since[c] + Len(written[c]) + Len(hand'[c]) + i
        <5>1. i + 1 \in 1 .. Len(send[c]) /\ send'[c][i] = send[c][i + 1]
          BY <2>3
        <5>2. send'[c][i] = since[c] + Len(written[c]) + (i + 1)
          BY <4>1, <5>1
        <5>3. since[c] + Len(written[c]) + (i + 1) = since[c] + Len(written[c]) + 1 + i
          <6>1. \A a \in Int, b \in Nat, n \in Int : a + b + (n + 1) = a + b + 1 + n
            OBVIOUS
          <6>2. i \in Int
            OBVIOUS
          <6> QED
            BY <1>0, <4>2, <6>1, <6>2, Zenon
        <5> QED
          BY <2>2, <5>2, <5>3, Zenon
      <4> QED
        BY <4>3, <4>4
    <3> QED
      BY <2>1, <2>2, <2>3, <3>1 DEF StreamInv, QueueInOrder, Writing
  <2>8. UpToDate'
    <3>1. Reached(c)' = Reached(c)
      <4>1. Len(written[c]) \in Nat
        BY <1>0
      <4> QED
        BY <1>0, <2>1, <2>2, <2>3, <4>1 DEF Reached
    <3>2. \A d \in Clients : d # c => Reached(d)' = Reached(d)
      BY <2>1, <2>2, <2>3 DEF Reached
    <3> QED
      BY <2>1, <3>1, <3>2 DEF StreamInv, UpToDate, Writing
  <2> QED
    BY <2>4, <2>5, <2>6, <2>7, <2>8 DEF StreamInv
<1>5. CASE WritePumpWrites(c)
  <2>1. /\ run[c] = "running" /\ stage[c]["writer"] = "out" /\ hand[c] # <<>>
        /\ hand' = [hand EXCEPT ![c] = <<>>]
        /\ written' = [written EXCEPT ![c] = written[c] \o hand[c]]
        /\ UNCHANGED <<mu, closed, connOpen, cpc, panic, send, since, stage,
                       dispatched, targets, msgFor, dpc, registered, run, once>>
    BY <1>5 DEF WritePumpWrites, Pumping, hubVars, dispatchVars, closeVars
  <2>2. /\ Len(hand[c]) = 1 /\ hand[c][1] = since[c] + Len(written[c]) + 1
        /\ \A i \in 1 .. Len(send[c]) :
             send[c][i] = since[c] + Len(written[c]) + 1 + i
    <3>1. Len(hand[c]) <= 1 /\ Len(hand[c]) \in Nat /\ Len(hand[c]) > 0
      BY <1>0, <2>1, TakeFirst DEF StreamInv, QueueInOrder
    <3>2. Len(hand[c]) = 1
      <4>1. \A n \in Nat : n <= 1 /\ n > 0 => n = 1
        OBVIOUS
      <4> QED
        BY <3>1, <4>1, Zenon
    <3> QED
      BY <2>1, <3>2 DEF StreamInv, QueueInOrder, Writing
  <2>3. /\ written' \in [Clients -> Seq(1 .. MaxDispatch)]
        /\ Len(written'[c]) = Len(written[c]) + 1 /\ Len(written[c]) \in Nat
        /\ \A i \in 1 .. Len(written[c]) : written'[c][i] = written[c][i]
        /\ written'[c][Len(written[c]) + 1] = hand[c][1]
        /\ \A d \in Clients : d # c => written'[d] = written[d]
    BY <1>0, <2>1, <2>2, WriteOne DEF StreamInv, MessageTypes
  <2>4. /\ hand' \in [Clients -> Seq(1 .. MaxDispatch)] /\ hand'[c] = <<>>
        /\ \A d \in Clients : d # c => hand'[d] = hand[d]
    BY <2>1 DEF StreamInv, MessageTypes
  <2>5. ControlTypes' /\ MessageTypes'
    BY <2>1, <2>3, <2>4 DEF StreamInv, ControlTypes, MessageTypes
  <2>6. FreshUnwritten'
    BY <2>1, <2>3, <2>4 DEF StreamInv, FreshUnwritten
  <2>7. DispatchPhases' /\ ReturnedIsDone'
    BY <2>1 DEF StreamInv, DispatchPhases, ReturnedIsDone, Busy
  <2>8. WrittenInOrder'
    <3>1. \A i \in 1 .. Len(written'[c]) : written'[c][i] = since[c] + i
      <4>1. \A i \in 1 .. Len(written[c]) : written[c][i] = since[c] + i
        BY DEF StreamInv, WrittenInOrder
      <4>2. written'[c][Len(written[c]) + 1] = since[c] + (Len(written[c]) + 1)
        <5>1. \A a \in Int, b \in Nat : a + b + 1 = a + (b + 1)
          OBVIOUS
        <5> QED
          BY <1>0, <2>2, <2>3, <5>1, Zenon
      <4>3. \A i \in 1 .. Len(written'[c]) :
              i \in 1 .. Len(written[c]) \/ i = Len(written[c]) + 1
        <5>1. \A n \in Nat : \A i \in 1 .. n + 1 : i \in 1 .. n \/ i = n + 1
          OBVIOUS
        <5> QED
          BY <2>3, <5>1, Zenon
      <4> QED
        BY <2>3, <4>1, <4>2, <4>3, Zenon
    <3> QED
      BY <2>1, <2>3, <3>1 DEF StreamInv, WrittenInOrder
  <2>9. QueueInOrder'
    <3>1. \A i \in 1 .. Len(send[c]) :
            send[c][i] = since[c] + Len(written'[c]) + Len(hand'[c]) + i
      <4>1. Len(hand'[c]) = 0
        BY <2>4
      <4>2. \A i \in 1 .. Len(send[c]) :
              since[c] + Len(written[c]) + 1 + i
                = since[c] + (Len(written[c]) + 1) + 0 + i
        <5>1. \A a \in Int, b \in Nat, n \in Int : a + b + 1 + n = a + (b + 1) + 0 + n
          OBVIOUS
        <5>2. \A i \in 1 .. Len(send[c]) : i \in Int
          OBVIOUS
        <5> QED
          BY <1>0, <2>3, <5>1, <5>2, Zenon
      <4> QED
        BY <2>2, <2>3, <4>1, <4>2, Zenon
    <3> QED
      BY <2>1, <2>3, <2>4, <3>1 DEF StreamInv, QueueInOrder, Writing
  <2>10. UpToDate'
    <3>1. Reached(c)' = Reached(c)
      <4>1. Len(send[c]) \in Nat
        BY <1>0
      <4> QED
        BY <1>0, <2>1, <2>2, <2>3, <2>4, <4>1 DEF Reached
    <3>2. \A d \in Clients : d # c => Reached(d)' = Reached(d)
      BY <2>1, <2>3, <2>4 DEF Reached
    <3> QED
      BY <2>1, <3>1, <3>2 DEF StreamInv, UpToDate, Writing
  <2> QED
    BY <2>5, <2>6, <2>7, <2>8, <2>9, <2>10 DEF StreamInv
<1> QED
  BY <1>1, <1>2, <1>3, <1>4, <1>5 DEF WritePump

\* Dispatch takes a message, copies the clients that lack it and queues it for
\* each of them, drops the client, or stops the process.
LEMMA StreamDispatch ==
  ASSUME IInv, StreamInv, Dispatch \/ \E z \in Citizens : DispatchLock(z)
  PROVE  StreamInv'
<1>0. /\ "dispatcher" \in Callers /\ "writer" \in Callers
      /\ \A d \in Clients : CitizenOf[d] \in Citizens
  BY HubAssumption DEF HubAssumption, Callers
<1>1. ASSUME NEW z \in Citizens, DispatchLock(z) PROVE StreamInv'
  <2>1. /\ dpc = "idle" /\ dpc' = "locked" /\ msgFor' = z /\ mu' = "read"
        /\ dispatched[z] < MaxDispatch
        /\ UNCHANGED <<closed, registered, run, send, connOpen, hand, once, stage, written,
                       since, dispatched, targets, cpc, panic>>
    BY <1>1 DEF DispatchLock, clientVars, closeVars
  <2>2. ControlTypes' /\ MessageTypes'
    BY <2>1 DEF StreamInv, ControlTypes, MessageTypes
  <2>3. DispatchPhases'
    BY <2>1 DEF StreamInv, DispatchPhases, Busy
  <2>4. FreshUnwritten' /\ ReturnedIsDone' /\ QueueInOrder' /\ WrittenInOrder' /\ UpToDate'
    BY <2>1 DEF StreamInv, FreshUnwritten, ReturnedIsDone, QueueInOrder, WrittenInOrder,
                UpToDate, Writing, Reached
  <2> QED
    BY <2>2, <2>3, <2>4 DEF StreamInv
<1>2. CASE DispatchReturns
  <2>1. /\ dpc' = "idle" /\ targets = {} /\ ~Busy("dispatcher")
        /\ UNCHANGED <<mu, closed, registered, run, send, connOpen, hand, once, stage, written,
                       since, dispatched, targets, msgFor, cpc, panic>>
    BY <1>2 DEF DispatchReturns, hubVars, clientVars, closeVars
  <2>2. ControlTypes' /\ MessageTypes'
    BY <2>1 DEF StreamInv, ControlTypes, MessageTypes
  <2>3. DispatchPhases'
    BY <2>1 DEF StreamInv, DispatchPhases, Busy
  <2>4. FreshUnwritten' /\ ReturnedIsDone' /\ QueueInOrder' /\ WrittenInOrder' /\ UpToDate'
    BY <2>1 DEF StreamInv, FreshUnwritten, ReturnedIsDone, QueueInOrder, WrittenInOrder,
                UpToDate, Writing, Reached
  <2> QED
    BY <2>2, <2>3, <2>4 DEF StreamInv
<1>3. CASE DispatchCopy
  <2>1. /\ dpc = "locked" /\ mu' = "free"
        /\ UNCHANGED <<closed, registered, run, send, connOpen, hand, once, stage, written,
                       since, msgFor, cpc, panic>>
        /\ closed => dpc' = "idle" /\ UNCHANGED <<dispatched, targets>>
        /\ ~closed => /\ dpc' = "sending"
                      /\ dispatched' = [dispatched EXCEPT ![msgFor] = dispatched[msgFor] + 1]
                      /\ targets' = {c \in registered : CitizenOf[c] = msgFor}
    BY <1>3 DEF DispatchCopy, clientVars, closeVars
  <2>2. ControlTypes'
    BY <2>1 DEF StreamInv, ControlTypes
  <2>3. FreshUnwritten' /\ ReturnedIsDone' /\ QueueInOrder' /\ WrittenInOrder'
    BY <2>1 DEF StreamInv, FreshUnwritten, ReturnedIsDone, QueueInOrder, WrittenInOrder,
                Writing
  <2>4. targets = {} /\ \A d \in Clients : stage[d]["dispatcher"] \in {"out", "returned"}
    BY <2>1 DEF StreamInv, DispatchPhases, Busy
  <2>5. CASE closed
    <3>1. MessageTypes' /\ DispatchPhases' /\ UpToDate'
      BY <2>1, <2>4, <2>5 DEF StreamInv, MessageTypes, DispatchPhases, UpToDate, Busy,
                              Writing, Reached
    <3> QED
      BY <2>2, <2>3, <3>1 DEF StreamInv
  <2>6. CASE ~closed
    <3>1. /\ msgFor \in Citizens /\ dispatched[msgFor] \in 0 .. MaxDispatch
          /\ dispatched[msgFor] < MaxDispatch /\ MaxDispatch \in Nat
      BY <2>1, HubAssumption DEF HubAssumption, StreamInv, MessageTypes, DispatchPhases
    <3>2. /\ dispatched' \in [Citizens -> 0 .. MaxDispatch]
          /\ dispatched'[msgFor] = dispatched[msgFor] + 1
          /\ \A y \in Citizens : y # msgFor => dispatched'[y] = dispatched[y]
      <4>1. dispatched[msgFor] + 1 \in 0 .. MaxDispatch
        BY <3>1
      <4>2. dispatched' = [dispatched EXCEPT ![msgFor] = dispatched[msgFor] + 1]
        BY <2>1, <2>6
      <4> QED
        BY <3>1, <4>1, <4>2 DEF StreamInv, MessageTypes
    <3>3. MessageTypes'
      BY <2>1, <3>2 DEF StreamInv, MessageTypes
    <3>4. DispatchPhases'
      BY <2>1, <2>6, <3>1, <3>2 DEF DispatchPhases
    <3>5. UpToDate'
      <4> SUFFICES ASSUME NEW c \in Clients, Writing(c)
                   PROVE  /\ c \in targets' => Reached(c) + 1 = dispatched'[CitizenOf[c]]
                          /\ c \in registered \ targets' /\ stage[c]["dispatcher"] = "out" =>
                               Reached(c) = dispatched'[CitizenOf[c]]
        BY <2>1 DEF UpToDate, Writing, Reached
      <4>1. c \in registered => Reached(c) = dispatched[CitizenOf[c]]
        <5>1. c \in registered => stage[c]["dispatcher"] = "out"
          BY <1>0, <2>4 DEF IInv, RegisteredNotLeft, StreamInv, ReturnedIsDone
        <5> QED
          BY <2>4, <5>1 DEF StreamInv, UpToDate
      <4>2. CASE c \in registered /\ CitizenOf[c] = msgFor
        BY <2>1, <2>6, <3>2, <4>1, <4>2
      <4>3. CASE ~(c \in registered /\ CitizenOf[c] = msgFor)
        BY <1>0, <2>1, <2>6, <3>2, <4>1, <4>3
      <4> QED
        BY <4>2, <4>3
    <3> QED
      BY <2>2, <2>3, <3>3, <3>4, <3>5 DEF StreamInv
  <2> QED
    BY <2>5, <2>6
<1>4. ASSUME NEW c \in Clients, DispatchTo(c) PROVE StreamInv'
  <2>1. /\ dpc = "sending" /\ c \in targets /\ targets' = targets \ {c}
        /\ UNCHANGED <<mu, closed, registered, run, connOpen, hand, once, written, since,
                       dispatched, dpc, msgFor, cpc>>
        /\ \/ sendClosed[c] /\ panic' = "send" /\ UNCHANGED <<send, stage>>
           \/ /\ ~sendClosed[c] /\ Len(send[c]) < SendBuffer
              /\ send' = [send EXCEPT ![c] = Append(send[c], dispatched[msgFor])]
              /\ UNCHANGED <<stage, panic>>
           \/ Enter(c, "dispatcher") /\ UNCHANGED <<send, panic>>
    BY <1>4 DEF DispatchTo, hubVars, closeVars
  <2>2. /\ CitizenOf[c] = msgFor /\ run[c] \notin {"none", "accepted"}
        /\ dispatched[msgFor] \in 1 .. MaxDispatch
    BY <2>1, HubAssumption DEF HubAssumption, StreamInv, DispatchPhases, MessageTypes,
                               IInv, FreshUnknown
  <2>3. ControlTypes'
    BY <2>1 DEF StreamInv, ControlTypes
  <2>4. WrittenInOrder'
    BY <2>1 DEF StreamInv, WrittenInOrder
  <2>5. CASE sendClosed[c] /\ UNCHANGED <<send, stage>>
    <3>1. c \notin registered
      BY <2>5 DEF IInv, RegisteredNotLeft, ClosedFromInside
    <3>2. /\ MessageTypes' /\ FreshUnwritten' /\ DispatchPhases' /\ ReturnedIsDone'
          /\ QueueInOrder'
      BY <2>1, <2>5 DEF StreamInv, MessageTypes, FreshUnwritten, DispatchPhases,
                        ReturnedIsDone, QueueInOrder, Writing
    <3>3. UpToDate'
      BY <2>1, <2>5, <3>1 DEF StreamInv, UpToDate, Writing, Reached
    <3> QED
      BY <2>3, <2>4, <3>2, <3>3 DEF StreamInv
  <2>6. CASE /\ Len(send[c]) < SendBuffer
             /\ send' = [send EXCEPT ![c] = Append(send[c], dispatched[msgFor])]
             /\ UNCHANGED stage
    <3>1. send[c] \in Seq(1 .. MaxDispatch) /\ SendBuffer \in Nat
      BY HubAssumption DEF HubAssumption, StreamInv, MessageTypes
    <3>2. /\ send' \in [Clients -> Seq(1 .. MaxDispatch)]
          /\ Len(send'[c]) = Len(send[c]) + 1 /\ Len(send[c]) \in Nat
          /\ \A i \in 1 .. Len(send[c]) : send'[c][i] = send[c][i]
          /\ send'[c][Len(send[c]) + 1] = dispatched[msgFor]
          /\ \A d \in Clients : d # c => send'[d] = send[d]
      BY <2>2, <2>6, <3>1, QueueOne DEF StreamInv, MessageTypes
    <3>3. Len(send'[c]) <= SendBuffer
      BY <2>6, <3>1, <3>2
    <3>4. MessageTypes'
      BY <2>1, <3>2, <3>3 DEF StreamInv, MessageTypes
    <3>5. FreshUnwritten' /\ DispatchPhases' /\ ReturnedIsDone'
      BY <2>1, <2>2, <2>6, <3>2 DEF StreamInv, FreshUnwritten, DispatchPhases, ReturnedIsDone
    <3>6. Writing(c) => Reached(c) + 1 = dispatched[msgFor]
      BY <2>1, <2>2 DEF StreamInv, UpToDate
    <3>7. /\ since[c] \in Int /\ Len(written[c]) \in Nat /\ Len(hand[c]) \in Nat
          /\ dispatched[msgFor] \in Int
      <4>1. written[c] \in Seq(1 .. MaxDispatch) /\ hand[c] \in Seq(1 .. MaxDispatch)
        BY DEF StreamInv, MessageTypes
      <4>2. since[c] \in Int /\ dispatched[msgFor] \in Int
        BY <2>2, HubAssumption DEF HubAssumption, StreamInv, MessageTypes
      <4> QED
        BY <4>1, <4>2
    <3>8. QueueInOrder'
      <4>1. ASSUME Writing(c)
            PROVE  \A i \in 1 .. Len(send'[c]) :
                     send'[c][i] = since[c] + Len(written[c]) + Len(hand[c]) + i
        <5>1. \A i \in 1 .. Len(send[c]) :
                send[c][i] = since[c] + Len(written[c]) + Len(hand[c]) + i
          BY <4>1 DEF StreamInv, QueueInOrder
        <5>2. dispatched[msgFor]
                = since[c] + Len(written[c]) + Len(hand[c]) + (Len(send[c]) + 1)
          <6>1. \A a \in Int, b, e, n \in Nat : a + b + e + n + 1 = a + b + e + (n + 1)
            OBVIOUS
          <6> QED
            BY <3>2, <3>6, <3>7, <4>1, <6>1, Zenon DEF Reached
        <5>3. \A i \in 1 .. Len(send'[c]) : i \in 1 .. Len(send[c]) \/ i = Len(send[c]) + 1
          BY <3>2
        <5> QED
          BY <3>2, <5>1, <5>2, <5>3, Zenon
      <4> QED
        BY <2>1, <2>6, <3>2, <4>1 DEF StreamInv, QueueInOrder, Writing
    <3>9. UpToDate'
      <4>1. Reached(c)' = Reached(c) + 1
        <5>1. \A a \in Int, b, e, n \in Nat : a + b + e + (n + 1) = a + b + e + n + 1
          OBVIOUS
        <5>2. Reached(c)' = since[c] + Len(written[c]) + Len(hand[c]) + (Len(send[c]) + 1)
          BY <2>1, <3>2 DEF Reached
        <5>3. since[c] + Len(written[c]) + Len(hand[c]) + (Len(send[c]) + 1)
                = since[c] + Len(written[c]) + Len(hand[c]) + Len(send[c]) + 1
          BY <3>2, <3>7, <5>1, Zenon
        <5> QED
          BY <5>2, <5>3, Zenon DEF Reached
      <4>2. \A d \in Clients : d # c => Reached(d)' = Reached(d)
        BY <2>1, <3>2 DEF Reached
      <4> QED
        BY <2>1, <2>2, <2>6, <3>6, <4>1, <4>2 DEF StreamInv, UpToDate, Writing
    <3> QED
      BY <2>3, <2>4, <3>4, <3>5, <3>8, <3>9 DEF StreamInv
  <2>7. CASE Enter(c, "dispatcher") /\ UNCHANGED send
    <3>1. /\ stage'[c]["dispatcher"] = "wait"
          /\ \A d \in Clients, l \in Callers :
               (d # c \/ l # "dispatcher") => stage'[d][l] = stage[d][l]
      BY <1>0, <2>7, Move DEF IInv, ShutdownTypes, Enter, Stages
    <3>2. MessageTypes' /\ FreshUnwritten' /\ DispatchPhases' /\ ReturnedIsDone'
      BY <2>1, <2>7, <3>1 DEF StreamInv, MessageTypes, FreshUnwritten, DispatchPhases,
                              ReturnedIsDone
    <3>3. \A d \in Clients : /\ stage'[d]["writer"] = stage[d]["writer"]
                             /\ d # c => stage'[d]["dispatcher"] = stage[d]["dispatcher"]
      BY <1>0, <3>1
    <3>4. QueueInOrder'
      BY <2>1, <2>7, <3>3 DEF StreamInv, QueueInOrder, Writing
    <3>5. UpToDate'
      BY <2>1, <2>7, <3>1, <3>3 DEF StreamInv, UpToDate, Writing, Reached
    <3> QED
      BY <2>3, <2>4, <3>2, <3>4, <3>5 DEF StreamInv
  <2> QED
    BY <2>1, <2>5, <2>6, <2>7
<1> QED
  BY <1>1, <1>2, <1>3, <1>4 DEF Dispatch

\* Close takes clients out of the registry and asks for their shutdown.
LEMMA StreamClose ==
  ASSUME IInv, StreamInv, Close \/ CloseReturns \/ \E c \in Clients : CloseNext(c)
  PROVE  StreamInv'
<1>1. CASE Close \/ CloseReturns
  <2>1. /\ UNCHANGED <<send, hand, written, since, dispatched, targets, msgFor, dpc, run,
                       stage, once, mu, connOpen, panic>>
        /\ registered' \subseteq registered
    BY <1>1 DEF Close, CloseReturns, hubVars, clientVars, dispatchVars
  <2>2. ControlTypes'
    <3>1. closed' \in BOOLEAN /\ cpc' \in {"idle", "closing", "returned"}
      BY <1>1 DEF Close, CloseReturns, hubVars, StreamInv, ControlTypes
    <3> QED
      BY <2>1, <3>1 DEF StreamInv, ControlTypes
  <2>3. ReturnedIsDone'
    BY <2>1 DEF StreamInv, ReturnedIsDone
  <2>4. dpc # "sending" => \A d \in Clients : stage[d]["dispatcher"] \in {"out", "returned"}
    BY DEF StreamInv, DispatchPhases, Busy
  <2> QED
    BY <2>1, <2>2, <2>3, <2>4, StreamAside
<1>2. ASSUME NEW c \in Clients, CloseNext(c) PROVE StreamInv'
  <2>1. /\ Enter(c, "closer")
        /\ UNCHANGED <<mu, closed, connOpen, cpc, panic, send, hand, written, since,
                       dispatched, targets, msgFor, dpc, registered, run, once>>
    BY <1>2 DEF CloseNext, hubVars, dispatchVars
  <2>2. ControlTypes'
    BY <2>1 DEF StreamInv, ControlTypes
  <2> QED
    BY <2>1, <2>2, StreamEnter
<1> QED
  BY <1>1, <1>2

\* Every step of the hub keeps the stream's invariant.
LEMMA NextStreamInv == IInv /\ StreamInv /\ [Next]_vars => StreamInv'
<1> SUFFICES ASSUME IInv, StreamInv, [Next]_vars PROVE StreamInv'
  OBVIOUS
<1>1. CASE UNCHANGED vars
  <2>1. UNCHANGED <<send, hand, written, since, dispatched, targets, msgFor, dpc, run,
                    stage, once, mu, closed, connOpen, cpc, panic, registered>>
    BY <1>1 DEF vars, hubVars, clientVars, dispatchVars, closeVars
  <2>2. ControlTypes' /\ ReturnedIsDone'
    BY <2>1 DEF StreamInv, ControlTypes, ReturnedIsDone
  <2>3. dpc # "sending" => \A d \in Clients : stage[d]["dispatcher"] \in {"out", "returned"}
    BY DEF StreamInv, DispatchPhases, Busy
  <2> QED
    BY <2>1, <2>2, <2>3, StreamAside
<1>2. CASE Next
  BY <1>2, StreamAccept, StreamPump, StreamShutdown, StreamDispatch, StreamClose DEF Next
<1> QED
  BY <1>1, <1>2

\* The stream's invariant holds in every reachable state.
LEMMA StreamInvHolds == Spec => []StreamInv
BY InitStreamInv, NextStreamInv, IInvHolds, PTL DEF Spec

\* Type correctness of the hub, its clients and the goroutines around them; a
\* send channel never holds more than its capacity.
THEOREM TypeCorrect == Spec => []TypeOK
<1>1. IInv /\ StreamInv => TypeOK
  BY TypesTogether DEF IInv, StreamInv
<1> QED
  BY <1>1, IInvHolds, StreamInvHolds, PTL

\* writePump writes a run of consecutive messages of the client's citizen, from
\* the first one that Dispatch copied the registry for after Register.
THEOREM WrittenInOrderHolds == Spec => []WrittenInOrder
<1>1. StreamInv => WrittenInOrder
  BY DEF StreamInv
<1> QED
  BY <1>1, StreamInvHolds, PTL

\* Between two calls of Dispatch a registered client whose writer is in its loop
\* has every message since its registration written, in hand or queued, for any
\* buffer size: Dispatch drops the client, never a message.
THEOREM RegisteredMissesNothingHolds == Spec => []RegisteredMissesNothing
<1>1. IInv /\ StreamInv => RegisteredMissesNothing
  <2> SUFFICES ASSUME IInv, StreamInv, NEW c \in registered,
                      dpc # "sending", stage[c]["writer"] = "out"
               PROVE  Len(written[c]) + Len(hand[c]) + Len(send[c])
                        = dispatched[CitizenOf[c]] - since[c]
    BY DEF RegisteredMissesNothing
  <2>1. c \in Clients /\ targets = {} /\ stage[c]["dispatcher"] \in {"out", "returned"}
    BY DEF IInv, ShutdownTypes, StreamInv, DispatchPhases, Busy
  <2>2. stage[c]["dispatcher"] = "out"
    BY <2>1 DEF IInv, RegisteredNotLeft, StreamInv, ReturnedIsDone, Callers
  <2>3. Reached(c) = dispatched[CitizenOf[c]]
    BY <2>1, <2>2 DEF StreamInv, UpToDate, Writing
  <2>4. /\ since[c] \in Int /\ Len(written[c]) \in Nat /\ Len(hand[c]) \in Nat
        /\ Len(send[c]) \in Nat
    <3>1. /\ written[c] \in Seq(1 .. MaxDispatch) /\ hand[c] \in Seq(1 .. MaxDispatch)
          /\ send[c] \in Seq(1 .. MaxDispatch)
      BY <2>1 DEF StreamInv, MessageTypes
    <3>2. since[c] \in Int
      BY <2>1, HubAssumption DEF HubAssumption, StreamInv, MessageTypes
    <3> QED
      BY <3>1, <3>2
  <2>5. \A a \in Int, b, e, n \in Nat : (a + b + e + n) - a = b + e + n
    OBVIOUS
  <2>6. (since[c] + Len(written[c]) + Len(hand[c]) + Len(send[c])) - since[c]
          = Len(written[c]) + Len(hand[c]) + Len(send[c])
    BY <2>4, <2>5, Zenon
  <2>7. dispatched[CitizenOf[c]]
          = since[c] + Len(written[c]) + Len(hand[c]) + Len(send[c])
    BY <2>3, Zenon DEF Reached
  <2> QED
    BY <2>6, <2>7, Zenon
<1> QED
  BY <1>1, IInvHolds, StreamInvHolds, PTL
=============================================================================

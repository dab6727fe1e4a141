------------------------------ MODULE PushProofs ------------------------------
(***************************************************************************)
(* Proofs about Push for any devices, batches, deadlines and limits of the *)
(* breaker.  A job's devices are accounted for token by token, and its     *)
(* deadline by the calls it made.  The time an endpoint that does not      *)
(* answer can take is paid for by the breaker: by the failures it counts,  *)
(* after an expired generation that may have swallowed Threshold calls     *)
(* before.                                                                 *)
(***************************************************************************)
EXTENDS Push, SequenceTheorems, FiniteSetTheorems, TLAPS

\* A job, and with it tokens, only while a batch's jobs are being sent; the
\* worker is the breaker's only caller.
WorkerPhases ==
  /\ pc \in {"list", "send", "call"} <=> jobs # <<>>
  /\ pc \notin {"send", "call"} => /\ todo = {} /\ listed = {} /\ spent = 0
                                  /\ reached = {} /\ refused = {}
  /\ pc = "call" => breaker.state # "open" /\ breaker.current = {"worker"}
  /\ pc # "call" => /\ token = {} /\ stuck = 0
                    /\ breaker.state # "half-open" /\ breaker.current = {}

\* While the job's context lasts, every token listed is waiting, reached or
\* refused; the current devices of the job's citizen are among those seen
\* during the job.
TokensAccounted ==
  /\ todo \cup token \cup reached \cup refused \subseteq listed
  /\ todo \cap reached = {}
  /\ Done \/ listed \subseteq todo \cup reached \cup refused
  /\ listed \subseteq around
  /\ jobs # <<>> => TokensOf(Head(jobs)) \subseteq around

\* What the calls made so far can have taken.
Asked == Cardinality(reached) * HTTPTimeout

\* The job's time was spent in calls of its own, up to HTTPTimeout each.
DeadlineShared ==
  /\ IsFiniteSet(reached)
  /\ pc # "call" => spent <= Asked
  /\ pc = "call" => \/ spent + HTTPTimeout <= Asked + stuck
                    \/ Done /\ spent <= Asked

\* The time the failures of the current generation account for.
Counted == breaker.fails * HTTPTimeout

\* Time lost in the batch.  A closed circuit has counted all of it, or began
\* its generation in the batch and will trip before it expires; an open one
\* does not expire within the batch once it cost time.
TimeAccounted ==
  IF jobs = <<>> THEN stalled <= StallBound
  ELSE CASE breaker.state = "closed" ->
              \/ stalled <= Counted
              \/ /\ stalled <= Threshold * HTTPTimeout + Counted
                 /\ Interval - breaker.left <= Counted + stuck
         [] breaker.state = "half-open" -> stalled = 0
         [] OTHER -> stalled = 0 \/ (breaker.left > 0 /\ stalled <= StallBound)

IInv ==
  /\ TypeOK
  /\ WorkerPhases
  /\ TokensAccounted
  /\ DeadlineShared
  /\ TimeAccounted

-----------------------------------------------------------------------------
\* The arithmetic of StallBound: f failures, one more, and Threshold of them.
LEMMA Products ==
  ASSUME NEW f \in 0 .. Threshold - 1
  PROVE  /\ f * HTTPTimeout \in Nat /\ Threshold * HTTPTimeout \in Nat
         /\ (f + 1) * HTTPTimeout = f * HTTPTimeout + HTTPTimeout
         /\ f * HTTPTimeout + HTTPTimeout <= Threshold * HTTPTimeout
         /\ StallBound = Threshold * HTTPTimeout + Threshold * HTTPTimeout
         /\ Threshold * HTTPTimeout < Interval
         /\ 0 * HTTPTimeout = 0
         /\ HTTPTimeout \in Nat /\ HTTPTimeout > 0
<1> USE BreakerAssumption, PushAssumption DEF BreakerAssumption, PushAssumption
<1>1. f \in Nat /\ HTTPTimeout \in Nat /\ HTTPTimeout > 0 /\ Threshold \in Nat
  OBVIOUS
<1>2. f * HTTPTimeout \in Nat /\ Threshold * HTTPTimeout \in Nat
  BY <1>1
<1>3. (f + 1) * HTTPTimeout = f * HTTPTimeout + HTTPTimeout
  BY <1>1
<1>4. f * HTTPTimeout + HTTPTimeout <= Threshold * HTTPTimeout
  <2>1. PICK d \in Nat : Threshold = f + 1 + d
    <3>1. Threshold - f - 1 \in Nat /\ Threshold = f + 1 + (Threshold - f - 1)
      OBVIOUS
    <3> QED
      BY <3>1
  <2>2. Threshold * HTTPTimeout = f * HTTPTimeout + HTTPTimeout + d * HTTPTimeout
    BY <1>1, <2>1
  <2>3. d * HTTPTimeout \in Nat
    BY <1>1, <2>1
  <2> QED
    BY <1>2, <2>2, <2>3
<1>5. StallBound = Threshold * HTTPTimeout + Threshold * HTTPTimeout
  BY <1>1 DEF StallBound
<1>6. Threshold * HTTPTimeout < Interval
  BY PushAssumption DEF PushAssumption
<1> QED
  BY <1>1, <1>2, <1>3, <1>4, <1>5, <1>6

\* What the job's calls can have taken is a number, and none when there were
\* no calls.
LEMMA AskedType ==
  ASSUME IsFiniteSet(reached)
  PROVE  /\ Cardinality(reached) \in Nat /\ Asked \in Nat
         /\ HTTPTimeout \in Nat /\ JobDeadline \in Nat
         /\ reached = {} => Asked = 0
<1>1. Cardinality(reached) \in Nat /\ HTTPTimeout \in Nat /\ JobDeadline \in Nat
  BY FS_CardinalityType, PushAssumption DEF PushAssumption
<1>2. Asked \in Nat
  BY <1>1 DEF Asked
<1>3. reached = {} => Cardinality(reached) = 0
  BY FS_EmptySet
<1>4. reached = {} => Asked = 0
  BY <1>1, <1>3 DEF Asked
<1> QED
  BY <1>1, <1>2, <1>4

\* Steps that leave the job's calls and its context alone.
LEMMA DeadlineKept ==
  ASSUME TypeOK, DeadlineShared, UNCHANGED <<reached, spent, stuck>>,
         pc' = "call" <=> pc = "call", cancelled => cancelled'
  PROVE  DeadlineShared' /\ (Done => Done')
<1>1. Asked' = Asked /\ IsFiniteSet(reached)'
  BY DEF Asked, DeadlineShared
<1>2. Done => Done'
  BY DEF Done
<1> QED
  BY <1>1, <1>2 DEF DeadlineShared

\* Outside the sends of a job there are no calls and no time.
LEMMA DeadlineFresh ==
  ASSUME reached = {}, spent = 0, pc # "call"
  PROVE  DeadlineShared
<1>1. IsFiniteSet(reached)
  BY FS_EmptySet
<1> QED
  BY <1>1, AskedType DEF DeadlineShared

\* Whatever the circuit's state, the time lost so far is within the bound.
LEMMA WithinBound ==
  ASSUME TypeOK, TimeAccounted PROVE stalled <= StallBound
<1>1. breaker.fails \in 0 .. Threshold - 1 /\ stalled \in Nat
      /\ breaker.state \in {"closed", "open", "half-open"}
  BY DEF TypeOK, Breakers
<1>2. /\ Counted \in Nat /\ Threshold * HTTPTimeout \in Nat
      /\ Counted + HTTPTimeout <= Threshold * HTTPTimeout
      /\ StallBound = Threshold * HTTPTimeout + Threshold * HTTPTimeout
      /\ HTTPTimeout \in Nat
  BY <1>1, Products DEF Counted
<1> QED
  BY <1>1, <1>2 DEF TimeAccounted

\* A new generation is a breaker without caller and failures.
LEMMA NewGenerationType ==
  ASSUME NEW s \in {"closed", "open", "half-open"}
  PROVE  /\ NewGeneration(s) \in Breakers({"worker"})
         /\ NewGeneration(s).state = s
         /\ NewGeneration(s).current = {} /\ NewGeneration(s).fails = 0
         /\ s = "closed" => NewGeneration(s).left = Interval
         /\ s = "open" => NewGeneration(s).left = Timeout
BY BreakerAssumption DEF BreakerAssumption, NewGeneration, Breakers

\* The idle worker satisfies the inductive invariant.
LEMMA InitIInv == Init => IInv
<1> SUFFICES ASSUME Init PROVE IInv
  OBVIOUS
<1> USE BreakerAssumption, PushAssumption
    DEF BreakerAssumption, PushAssumption, Init
<1>1. /\ breaker \in Breakers({"worker"}) /\ breaker.state = "closed"
      /\ breaker.current = {} /\ breaker.fails = 0
  BY NewGenerationType
<1>2. TypeOK
  <2>1. up \in BOOLEAN /\ cancelled \in BOOLEAN
    BY Zenon
  <2>2. jobs \in Seq(Citizens) /\ Len(jobs) <= MaxJobs
    OBVIOUS
  <2>3. spent \in 0 .. JobDeadline /\ stuck \in 0 .. HTTPTimeout /\ stalled \in Nat
    OBVIOUS
  <2> QED
    BY <1>1, <2>1, <2>2, <2>3 DEF TypeOK
<1>3. WorkerPhases /\ TokensAccounted /\ DeadlineShared
  BY <1>1, DeadlineFresh DEF WorkerPhases, TokensAccounted
<1>4. TimeAccounted
  <2>1. 0 \in 0 .. Threshold - 1
    OBVIOUS
  <2>2. /\ Threshold * HTTPTimeout \in Nat
        /\ StallBound = Threshold * HTTPTimeout + Threshold * HTTPTimeout
    BY <2>1, Products
  <2> QED
    BY <2>2 DEF TimeAccounted
<1> QED
  BY <1>2, <1>3, <1>4 DEF IInv

\* Devices come and go; a device of the job's citizen counts as seen.
LEMMA DeviceStep ==
  ASSUME IInv, NEW d \in Devices, UpsertPushDevice(d) \/ DeletePushDevice(d)
  PROVE  IInv'
<1> USE DEF IInv
<1>1. UNCHANGED <<up, cancelled, breaker, pc, jobs, todo, token, spent, stuck,
                  listed, reached, refused, stalled>>
  BY DEF UpsertPushDevice, DeletePushDevice, history
<1>2. /\ push_devices' \subseteq push_devices \cup {d} /\ around \subseteq around'
      /\ around' \subseteq around \cup {d[2]}
  BY DEF UpsertPushDevice, DeletePushDevice, history
<1>3. TypeOK'
  BY <1>1, <1>2 DEF TypeOK, Tokens
<1>4. WorkerPhases'
  BY <1>1 DEF WorkerPhases
<1>5. TokensAccounted'
  <2>1. jobs # <<>> => TokensOf(Head(jobs))' \subseteq around'
    <3> SUFFICES ASSUME jobs # <<>>, NEW t \in Tokens, <<Head(jobs), t>> \in push_devices'
                 PROVE  t \in around'
      BY <1>1 DEF TokensOf
    <3>1. CASE <<Head(jobs), t>> \in push_devices
      BY <1>2, <3>1 DEF TokensAccounted, TokensOf
    <3>2. CASE <<Head(jobs), t>> \notin push_devices
      <4>1. d = <<Head(jobs), t>>
        BY <1>2, <3>2
      <4>2. UpsertPushDevice(d)
        BY <3>2 DEF DeletePushDevice
      <4> QED
        BY <4>1, <4>2 DEF UpsertPushDevice
    <3> QED
      BY <3>1, <3>2
  <2> QED
    BY <1>1, <1>2, <2>1 DEF TokensAccounted, Done
<1>6. TimeAccounted'
  BY <1>1 DEF TimeAccounted, Counted
<1>7. DeadlineShared'
  <2>1. (pc' = "call" <=> pc = "call") /\ (cancelled => cancelled')
    BY <1>1
  <2> QED
    BY <1>1, <2>1, DeadlineKept
<1> QED
  BY <1>3, <1>4, <1>5, <1>6, <1>7

\* The endpoint's failures and the root context concern neither.
LEMMA SurroundingsStep ==
  ASSUME IInv, Flip \/ Cancel PROVE IInv'
<1> USE DEF IInv
<1>1. /\ UNCHANGED <<push_devices, breaker, pc, jobs, todo, token, spent, stuck,
                     listed, around, reached, refused, stalled>>
      /\ cancelled => cancelled'
  BY DEF Flip, Cancel, history
<1>2. TypeOK'
  <2>1. up' \in BOOLEAN /\ cancelled' \in BOOLEAN
    BY DEF Flip, Cancel, TypeOK
  <2> QED
    BY <1>1, <2>1 DEF TypeOK
<1>3. WorkerPhases' /\ TimeAccounted'
  BY <1>1 DEF WorkerPhases, TimeAccounted, Counted
<1>4. TokensAccounted' /\ DeadlineShared'
  <2>1. DeadlineShared' /\ (Done => Done')
    BY <1>1, DeadlineKept
  <2> QED
    BY <1>1, <2>1 DEF TokensAccounted, TokensOf
<1> QED
  BY <1>2, <1>3, <1>4

\* A tick of a call brings the circuit closer to its expiry by as much as the
\* call has lasted longer.
LEMMA TickStep ==
  ASSUME IInv, Tick PROVE IInv'
<1> USE DEF IInv
<1>1. /\ UNCHANGED <<push_devices, up, cancelled, pc, jobs, todo, token,
                     listed, around, reached, refused, stalled>>
      /\ breaker' = Elapse(breaker)
      /\ pc = "idle" \/ (pc = "call" /\ stuck < HTTPTimeout /\ spent < JobDeadline /\ ~Done)
      /\ spent' = IF pc = "call" THEN spent + 1 ELSE spent
      /\ stuck' = IF pc = "call" THEN stuck + 1 ELSE stuck
  BY PushAssumption DEF PushAssumption, TypeOK, Tick, environment, history, Done
<1>2. /\ breaker.left \in -1 .. Interval \cup -1 .. Timeout
      /\ breaker.fails \in 0 .. Threshold - 1
      /\ Interval \in Nat /\ Timeout \in Nat
  BY BreakerAssumption DEF BreakerAssumption, TypeOK, Breakers
<1>3. /\ breaker' \in Breakers({"worker"})
      /\ breaker'.state = breaker.state /\ breaker'.current = breaker.current
      /\ breaker'.fails = breaker.fails
      /\ \/ breaker'.left = breaker.left
         \/ breaker.left >= 0 /\ breaker'.left = breaker.left - 1
  <2>1. CASE breaker.state = "half-open" \/ breaker.left < 0
    BY <1>1, <2>1 DEF Elapse, TypeOK
  <2>2. CASE ~(breaker.state = "half-open" \/ breaker.left < 0)
    <3>1. breaker' = [breaker EXCEPT !.left = @ - 1]
      BY <1>1, <2>2 DEF Elapse
    <3>2. breaker.left >= 0 /\ breaker.left - 1 \in -1 .. Interval \cup -1 .. Timeout
      BY <1>2, <2>2
    <3> QED
      BY <3>1, <3>2 DEF TypeOK, Breakers
  <2> QED
    BY <2>1, <2>2
<1>4. TypeOK'
  <2>1. spent' \in 0 .. JobDeadline /\ stuck' \in 0 .. HTTPTimeout
    BY <1>1, PushAssumption DEF PushAssumption, TypeOK
  <2> QED
    BY <1>1, <1>3, <2>1 DEF TypeOK
<1>5. WorkerPhases' /\ TokensAccounted'
  <2>1. WorkerPhases'
    BY <1>1, <1>3 DEF WorkerPhases
  <2>2. Done' \/ listed' \subseteq todo' \cup reached' \cup refused'
    <3>1. CASE pc = "idle"
      BY <1>1, <3>1 DEF WorkerPhases
    <3>2. CASE pc = "call"
      BY <1>1, <3>2 DEF TokensAccounted
    <3> QED
      BY <1>1, <3>1, <3>2
  <2> QED
    BY <1>1, <2>1, <2>2 DEF TokensAccounted, TokensOf
<1>7. DeadlineShared'
  <2>1. CASE pc = "idle"
    BY <1>1, <2>1, DeadlineFresh DEF WorkerPhases, DeadlineShared, Asked
  <2>2. CASE pc = "call"
    <3>1. Asked \in Nat /\ HTTPTimeout \in Nat /\ Asked' = Asked
      BY <1>1, AskedType DEF DeadlineShared, Asked
    <3>2. spent + HTTPTimeout <= Asked + stuck
      BY <1>1, <2>2 DEF DeadlineShared
    <3>3. spent \in Nat /\ stuck \in Nat /\ spent' = spent + 1 /\ stuck' = stuck + 1
      BY <1>1, <2>2, PushAssumption DEF PushAssumption, TypeOK
    <3>4. spent' + HTTPTimeout <= Asked' + stuck'
      BY <3>1, <3>2, <3>3
    <3> QED
      BY <1>1, <2>2, <3>4 DEF DeadlineShared
  <2> QED
    BY <1>1, <2>1, <2>2
<1>6. TimeAccounted'
  <2>1. CASE pc = "idle"
    BY <1>1, <2>1 DEF WorkerPhases, TimeAccounted
  <2>2. CASE pc = "call"
    <3>1. Counted' = Counted /\ Counted \in Nat
      BY <1>2, <1>3, Products DEF Counted
    <3>2. stuck \in Nat /\ stuck' = stuck + 1 /\ stalled' = stalled /\ stalled \in Nat
      BY <1>1, <2>2, PushAssumption DEF PushAssumption, TypeOK
    <3>3. breaker.left \in Int /\ breaker'.left \in Int
      BY <1>2, <1>3
    <3>4. jobs # <<>> /\ jobs' = jobs /\ breaker.state # "open"
      BY <1>1, <2>2 DEF WorkerPhases
    <3>5. CASE breaker.state = "closed"
      BY <1>2, <1>3, <3>1, <3>2, <3>3, <3>4, <3>5 DEF TimeAccounted
    <3>6. CASE breaker.state = "half-open"
      BY <1>3, <3>2, <3>4, <3>6 DEF TimeAccounted
    <3> QED
      BY <3>4, <3>5, <3>6 DEF TypeOK, Breakers
  <2> QED
    BY <1>1, <2>1, <2>2
<1> QED
  BY <1>4, <1>5, <1>6, <1>7

\* A batch begins with nothing lost.
LEMMA CommitStep ==
  ASSUME IInv, NEW citizens \in Batches, Commit(citizens) PROVE IInv'
<1> USE DEF IInv
<1>1. /\ pc = "idle" /\ pc' = "list" /\ jobs' = citizens /\ stalled' = 0
      /\ around' = TokensOf(Head(citizens))
      /\ UNCHANGED <<push_devices, up, cancelled, breaker, todo, token, spent, stuck,
                     listed, reached, refused>>
  BY DEF Commit, environment
<1>2. citizens \in Seq(Citizens) /\ Len(citizens) <= MaxJobs /\ citizens # <<>>
  <2>1. PICK n \in 1 .. MaxJobs : citizens \in [1 .. n -> Citizens]
    BY DEF Batches
  <2> QED
    BY <2>1, PushAssumption DEF PushAssumption
<1>3. TypeOK'
  BY <1>1, <1>2 DEF TypeOK, TokensOf
<1>4. WorkerPhases' /\ TokensAccounted' /\ DeadlineShared'
  BY <1>1, <1>2, DeadlineKept DEF WorkerPhases, TokensAccounted, TokensOf, Done
<1>5. TimeAccounted'
  <2>1. Counted' \in Nat
    <3>1. breaker.fails \in 0 .. Threshold - 1
      BY DEF TypeOK, Breakers
    <3> QED
      BY <1>1, <3>1, Products DEF Counted
  <2> QED
    BY <1>1, <1>2, <2>1 DEF TimeAccounted, TypeOK, Breakers, WorkerPhases
<1> QED
  BY <1>3, <1>4, <1>5

\* The job lists the devices its citizen has now.
LEMMA ListStep ==
  ASSUME IInv, ListPushTokensByCitizen PROVE IInv'
<1> USE DEF IInv, ListPushTokensByCitizen, environment
<1>1. TypeOK'
  BY DEF TypeOK, TokensOf
<1>2. WorkerPhases' /\ TokensAccounted' /\ DeadlineShared'
  BY DeadlineKept DEF WorkerPhases, TokensAccounted, TokensOf, Done
<1>3. TimeAccounted'
  BY DEF TimeAccounted, Counted
<1> QED
  BY <1>1, <1>2, <1>3

\* The next job starts with the devices of its own citizen; after the last
\* one the time lost is within the bound.
LEMMA EndJobStep ==
  ASSUME IInv, ListFails \/ JobDone PROVE IInv'
<1> USE DEF IInv
<1>1. /\ pc \in {"list", "send"}
      /\ jobs' = Tail(jobs)
      /\ pc' = IF Len(jobs) > 1 THEN "list" ELSE IF cancelled THEN "off" ELSE "idle"
      /\ around' = IF Len(jobs) > 1 THEN TokensOf(jobs[2]) ELSE {}
      /\ listed' = {} /\ reached' = {} /\ refused' = {} /\ todo' = {} /\ spent' = 0
      /\ UNCHANGED <<push_devices, up, cancelled, breaker, token, stuck, stalled>>
  BY DEF ListFails, JobDone, EndJob, environment
<1>2. /\ jobs \in Seq(Citizens) /\ jobs # <<>> /\ Tail(jobs) \in Seq(Citizens)
      /\ Len(Tail(jobs)) = Len(jobs) - 1 /\ Len(jobs) \in Nat
      /\ (Tail(jobs) # <<>> <=> Len(jobs) > 1)
      /\ Len(jobs) > 1 => Head(Tail(jobs)) = jobs[2]
  <2>1. jobs \in Seq(Citizens) /\ jobs # <<>>
    BY <1>1 DEF TypeOK, WorkerPhases
  <2>2. Len(jobs) \in Nat /\ Len(jobs) > 0
    BY <2>1
  <2>3. /\ Tail(jobs) \in Seq(Citizens) /\ Len(Tail(jobs)) = Len(jobs) - 1
        /\ \A i \in 1 .. Len(Tail(jobs)) : Tail(jobs)[i] = jobs[i + 1]
    BY <2>1, HeadTailProperties
  <2>4. Tail(jobs) # <<>> <=> Len(jobs) > 1
    <3>1. \A q \in Seq(Citizens) : q # <<>> => Len(q) \in Nat \ {0}
      BY EmptySeq, Zenon
    <3>2. Tail(jobs) # <<>> => Len(Tail(jobs)) \in Nat \ {0}
      BY <2>3, <3>1
    <3>3. Len(<<>>) = 0
      OBVIOUS
    <3>4. Tail(jobs) = <<>> => Len(Tail(jobs)) = 0
      BY <3>3, Zenon
    <3> QED
      BY <2>2, <2>3, <3>2, <3>4
  <2>5. ASSUME Len(jobs) > 1 PROVE Head(Tail(jobs)) = jobs[2]
    <3>1. 1 \in 1 .. Len(Tail(jobs)) /\ Head(Tail(jobs)) = Tail(jobs)[1]
      BY <2>2, <2>3, <2>4, <2>5
    <3> QED
      BY <2>3, <3>1
  <2> QED
    BY <2>1, <2>2, <2>3, <2>4, <2>5
<1>3. TypeOK'
  <2>1. spent' \in 0 .. JobDeadline /\ Len(jobs') <= MaxJobs
    BY <1>1, <1>2, PushAssumption DEF PushAssumption, TypeOK
  <2>2. around' \subseteq Tokens
    BY <1>1 DEF TokensOf
  <2> QED
    BY <1>1, <1>2, <2>1, <2>2 DEF TypeOK
<1>4. WorkerPhases' /\ TokensAccounted'
  <2>1. /\ token = {} /\ stuck = 0
        /\ breaker.state # "half-open" /\ breaker.current = {}
    BY <1>1 DEF WorkerPhases
  <2>2. CASE Len(jobs) > 1
    <3>1. pc' = "list" /\ jobs' # <<>> /\ Head(jobs') = jobs[2] /\ around' = TokensOf(jobs[2])
      BY <1>1, <1>2, <2>2
    <3> QED
      BY <1>1, <2>1, <3>1 DEF WorkerPhases, TokensAccounted, TokensOf
  <2>3. CASE ~(Len(jobs) > 1)
    <3>1. pc' \in {"idle", "off"} /\ jobs' = <<>> /\ around' = {}
      BY <1>1, <1>2, <2>3
    <3> QED
      BY <1>1, <2>1, <3>1 DEF WorkerPhases, TokensAccounted
  <2> QED
    BY <2>2, <2>3
<1>5. TimeAccounted'
  <2>1. CASE Len(jobs) > 1
    BY <1>1, <1>2, <2>1 DEF TimeAccounted, Counted
  <2>2. CASE ~(Len(jobs) > 1)
    <3>1. stalled <= StallBound
      BY WithinBound
    <3> QED
      BY <1>1, <1>2, <2>2, <3>1 DEF TimeAccounted
  <2> QED
    BY <2>1, <2>2
<1>6. DeadlineShared'
  <2>1. IsFiniteSet(reached') /\ Cardinality(reached') = 0
    BY <1>1, FS_EmptySet
  <2>2. Asked' = 0 /\ spent' = 0 /\ pc' # "call"
    BY <1>1, <2>1, PushAssumption DEF PushAssumption, Asked
  <2> QED
    BY <2>1, <2>2 DEF DeadlineShared
<1> QED
  BY <1>3, <1>4, <1>5, <1>6

\* Run's return changes nothing else.
LEMMA ExitStep ==
  ASSUME IInv, Exit PROVE IInv'
<1> USE DEF IInv, Exit, environment, history
<1>1. TypeOK'
  BY DEF TypeOK
<1>2. WorkerPhases' /\ TokensAccounted' /\ TimeAccounted'
  BY DEF WorkerPhases, TokensAccounted, TokensOf, Done, TimeAccounted, Counted
<1>3. DeadlineShared'
  BY DeadlineKept
<1> QED
  BY <1>1, <1>2, <1>3

\* What looking at the breaker's state does, case by case.
LEMMA CurrentStateCases ==
  ASSUME NEW b \in Breakers({"worker"}), NEW late \in BOOLEAN
  PROVE  \/ currentState(b, late) = b
         \/ /\ b.state = "closed" /\ b.left <= 0
            /\ currentState(b, late) = NewGeneration("closed")
         \/ /\ b.state = "open" /\ b.left <= 0
            /\ currentState(b, late) = NewGeneration("half-open")
<1>1. b.left \in Int /\ b.state \in {"closed", "open", "half-open"}
  BY BreakerAssumption DEF BreakerAssumption, Breakers
<1>2. Expired(b, late) => b.state # "half-open" /\ b.left <= 0
  BY <1>1 DEF Expired
<1> QED
  BY <1>1, <1>2 DEF currentState

\* Who is refused, and what admission changes.
LEMMA Admission ==
  ASSUME NEW b \in Breakers({"worker"}), b.current = {}
  PROVE  /\ b.state = "open" => Refusal(b) # "none" /\ beforeRequest(b, "worker") = b
         /\ b.state # "open" =>
              /\ Refusal(b) = "none"
              /\ beforeRequest(b, "worker") \in Breakers({"worker"})
              /\ beforeRequest(b, "worker").state = b.state
              /\ beforeRequest(b, "worker").fails = b.fails
              /\ beforeRequest(b, "worker").left = b.left
              /\ beforeRequest(b, "worker").current = {"worker"}
BY DEF Breakers, Refusal, beforeRequest

\* A closed circuit that lost time it did not count, because an earlier
\* generation did, is not expired: it trips before.
LEMMA ExpiryForgivesOnce ==
  ASSUME IInv, jobs # <<>>, breaker.state = "closed", breaker.left <= 0
  PROVE  stalled <= Counted
<1>1. /\ breaker.fails \in 0 .. Threshold - 1 /\ breaker.left \in Int
      /\ stuck \in 0 .. HTTPTimeout /\ stalled \in Nat /\ Interval \in Nat
  BY BreakerAssumption DEF BreakerAssumption, IInv, TypeOK, Breakers
<1>2. /\ Counted \in Nat /\ Counted + HTTPTimeout <= Threshold * HTTPTimeout
      /\ Threshold * HTTPTimeout \in Nat /\ Threshold * HTTPTimeout < Interval
      /\ HTTPTimeout \in Nat
  BY <1>1, Products DEF Counted
<1>3. ~(Interval - breaker.left <= Counted + stuck)
  BY <1>1, <1>2
<1> QED
  BY <1>3 DEF IInv, TimeAccounted

\* A send is refused, or starts a call; an expired closed circuit forgets
\* what it counted, which then is all the time lost.
LEMMA SendStep ==
  ASSUME IInv, NEW t \in Tokens, Send(t) PROVE IInv'
<1>0. PICK late \in BOOLEAN :
        LET now == currentState(breaker, late)
        IN  /\ breaker' = beforeRequest(now, "worker")
            /\ IF Refusal(now) = "none"
               THEN /\ pc' = "call" /\ token' = {t}
                    /\ reached' = reached \cup Live(t)
                    /\ UNCHANGED refused
               ELSE /\ refused' = refused \cup {t}
                    /\ UNCHANGED <<pc, token, reached>>
  BY DEF Send
<1> DEFINE now == currentState(breaker, late)
<1>1. /\ pc = "send" /\ t \in todo /\ todo' = todo \ {t}
      /\ breaker' = beforeRequest(now, "worker")
      /\ Refusal(now) = "none" =>
           pc' = "call" /\ token' = {t} /\ reached' = reached \cup Live(t) /\ refused' = refused
      /\ Refusal(now) # "none" =>
           pc' = "send" /\ token' = token /\ reached' = reached /\ refused' = refused \cup {t}
      /\ UNCHANGED <<push_devices, up, cancelled, jobs, spent, stuck, listed, around,
                     stalled>>
  BY <1>0 DEF Send, environment
<1>2. /\ breaker \in Breakers({"worker"}) /\ breaker.state \in {"closed", "open"}
      /\ breaker.current = {} /\ jobs # <<>> /\ token = {} /\ stuck = 0
      /\ breaker.fails \in 0 .. Threshold - 1 /\ breaker.left \in Int /\ stalled \in Nat
  BY <1>1 DEF IInv, TypeOK, WorkerPhases, Breakers
<1>3. /\ now \in Breakers({"worker"}) /\ now.current = {}
      /\ \/ now = breaker
         \/ /\ breaker.state = "closed" /\ breaker.left <= 0
            /\ now.state = "closed" /\ now.fails = 0 /\ now.left = Interval
         \/ breaker.state = "open" /\ breaker.left <= 0 /\ now.state = "half-open"
  BY <1>2, CurrentStateCases, NewGenerationType
<1>4. /\ breaker' \in Breakers({"worker"}) /\ breaker'.state = now.state
      /\ now.state = "open" => breaker' = now /\ Refusal(now) # "none"
      /\ now.state # "open" =>
           /\ Refusal(now) = "none" /\ breaker'.current = {"worker"}
           /\ breaker'.fails = now.fails /\ breaker'.left = now.left
  BY <1>1, <1>3, Admission
<1> HIDE DEF now
<1>5. TypeOK'
  BY <1>1, <1>4 DEF IInv, TypeOK, Live
<1>6. WorkerPhases'
  <2>1. CASE now.state = "open"
    BY <1>1, <1>2, <1>3, <1>4, <2>1 DEF WorkerPhases
  <2>2. CASE now.state # "open"
    BY <1>1, <1>2, <1>3, <1>4, <2>2 DEF WorkerPhases
  <2> QED
    BY <2>1, <2>2
<1>7. TokensAccounted'
  <2>1. /\ todo' \cup token' \cup reached' \cup refused' \subseteq listed'
        /\ todo' \cap reached' = {}
    BY <1>1, <1>2 DEF IInv, TokensAccounted, Live
  <2>2. Done' = Done
    BY <1>1 DEF Done
  <2>3. Done' \/ listed' \subseteq todo' \cup reached' \cup refused'
    BY <1>1, <2>2 DEF IInv, TokensAccounted, Live
  <2> QED
    BY <1>1, <2>1, <2>3 DEF IInv, TokensAccounted, TokensOf
<1>9. DeadlineShared'
  <2>1. /\ IsFiniteSet(reached) /\ spent <= Asked /\ spent \in Nat
        /\ Cardinality(reached) \in Nat /\ Asked \in Nat /\ HTTPTimeout \in Nat
    BY <1>1, AskedType, PushAssumption DEF PushAssumption, IInv, TypeOK, DeadlineShared
  <2>2. Done' = Done /\ spent' = spent /\ stuck' = 0
    BY <1>1, <1>2 DEF Done
  <2>3. CASE reached' = reached
    <3>1. Asked' = Asked
      BY <2>3 DEF Asked
    <3>2. pc' = "call" => Done
      <4>1. t \notin reached
        BY <1>1 DEF IInv, TokensAccounted
      <4> QED
        BY <1>1, <2>3, <4>1 DEF Live
    <3> QED
      BY <2>1, <2>2, <2>3, <3>1, <3>2 DEF DeadlineShared
  <2>4. CASE reached' # reached
    <3>1. reached' = reached \cup {t} /\ t \notin reached /\ pc' = "call"
      BY <1>1, <2>4 DEF IInv, TokensAccounted, Live
    <3>2. IsFiniteSet(reached') /\ Cardinality(reached') = Cardinality(reached) + 1
      BY <2>1, <3>1, FS_AddElement
    <3>3. Asked' = Asked + HTTPTimeout
      BY <2>1, <3>2 DEF Asked
    <3>4. spent' + HTTPTimeout <= Asked' + stuck'
      BY <2>1, <2>2, <3>3
    <3> QED
      BY <3>1, <3>2, <3>4 DEF DeadlineShared
  <2> QED
    BY <2>3, <2>4
<1>8. TimeAccounted'
  <2>1. jobs' # <<>> /\ stalled' = stalled /\ stuck' = 0
    BY <1>1, <1>2
  <2>2. CASE now = breaker /\ breaker.state = "closed"
    <3>1. breaker'.state = "closed" /\ Counted' = Counted /\ breaker'.left = breaker.left
      BY <1>4, <2>2 DEF Counted
    <3> QED
      BY <1>2, <2>1, <2>2, <3>1 DEF IInv, TimeAccounted
  <2>3. CASE now = breaker /\ breaker.state = "open"
    BY <1>2, <1>4, <2>1, <2>3 DEF IInv, TimeAccounted
  <2>4. CASE now # breaker /\ breaker.state = "closed"
    <3>1. /\ breaker'.state = "closed" /\ breaker'.fails = 0
          /\ breaker'.left = Interval /\ breaker.left <= 0
      BY <1>3, <1>4, <2>4
    <3>2. stalled <= Counted
      BY <1>2, <2>4, <3>1, ExpiryForgivesOnce
    <3>3. /\ Counted' = 0 /\ Counted <= Threshold * HTTPTimeout
          /\ Counted \in Nat /\ Threshold * HTTPTimeout \in Nat /\ Interval \in Nat
      <4>1. /\ Counted \in Nat /\ Threshold * HTTPTimeout \in Nat /\ HTTPTimeout \in Nat
            /\ Counted + HTTPTimeout <= Threshold * HTTPTimeout /\ 0 * HTTPTimeout = 0
        BY <1>2, Products DEF Counted
      <4>2. Counted' = 0
        BY <3>1, <4>1 DEF Counted
      <4> QED
        BY <4>1, <4>2, BreakerAssumption DEF BreakerAssumption
    <3> QED
      BY <1>2, <2>1, <3>1, <3>2, <3>3 DEF TimeAccounted
  <2>5. CASE now # breaker /\ breaker.state = "open"
    <3>1. breaker'.state = "half-open" /\ breaker.left <= 0
      BY <1>3, <1>4, <2>5
    <3>2. stalled = 0
      BY <1>2, <2>5, <3>1 DEF IInv, TimeAccounted
    <3> QED
      BY <2>1, <3>1, <3>2 DEF TimeAccounted
  <2> QED
    BY <1>2, <2>2, <2>3, <2>4, <2>5
<1> QED
  BY <1>5, <1>6, <1>7, <1>8, <1>9 DEF IInv

\* What a call's success does to the breaker.
LEMMA SuccessCounts ==
  ASSUME NEW b \in Breakers({"worker"}), NEW ok, ok, "worker" \in b.current
  PROVE  LET after == afterRequest(b, "worker", ok)
         IN  /\ after \in Breakers({"worker"}) /\ after.current = {} /\ after.fails = 0
             /\ after.state = IF b.state = "half-open" THEN "closed" ELSE b.state
<1> USE BreakerAssumption DEF BreakerAssumption
<1>1. CASE b.state = "half-open"
  <2>1. afterRequest(b, "worker", ok) = NewGeneration("closed")
    BY <1>1 DEF afterRequest, onSuccess
  <2> QED
    BY <1>1, <2>1, NewGenerationType
<1>2. CASE b.state # "half-open"
  <2>1. afterRequest(b, "worker", ok)
          = [b EXCEPT !.fails = 0, !.current = @ \ {"worker"}]
    BY <1>2 DEF afterRequest, onSuccess
  <2>2. b.current \ {"worker"} = {} /\ 0 \in 0 .. Threshold - 1
    BY DEF Breakers
  <2> QED
    BY <1>2, <2>1, <2>2 DEF Breakers
<1> QED
  BY <1>1, <1>2

\* And what its failure does.
LEMMA FailureCounts ==
  ASSUME NEW b \in Breakers({"worker"}), NEW ok, ~ok, "worker" \in b.current
  PROVE  LET after == afterRequest(b, "worker", ok)
         IN  /\ after \in Breakers({"worker"}) /\ after.current = {}
             /\ \/ after.state = "open" /\ after.left = Timeout
                \/ /\ after.state = b.state /\ after.state # "half-open"
                   /\ after.fails = b.fails + 1 /\ after.left = b.left
<1> USE BreakerAssumption DEF BreakerAssumption
<1>1. CASE b.state = "half-open" \/ b.fails + 1 >= Threshold
  <2>1. afterRequest(b, "worker", ok) = NewGeneration("open")
    BY <1>1 DEF afterRequest, onFailure
  <2> QED
    BY <2>1, NewGenerationType
<1>2. CASE ~(b.state = "half-open" \/ b.fails + 1 >= Threshold)
  <2>1. afterRequest(b, "worker", ok)
          = [b EXCEPT !.fails = @ + 1, !.current = @ \ {"worker"}]
    BY <1>2 DEF afterRequest, onFailure
  <2>2. b.current \ {"worker"} = {} /\ b.fails + 1 \in 0 .. Threshold - 1
    BY <1>2 DEF Breakers
  <2> QED
    BY <1>2, <2>1, <2>2 DEF Breakers
<1> QED
  BY <1>1, <1>2

\* A call ends: a success starts the account afresh, a failure is counted, or
\* opens the circuit, or falls into a new generation and is not counted.
LEMMA SendReturnsStep ==
  ASSUME IInv, NEW ok \in BOOLEAN, SendReturns(ok) PROVE IInv'
<1>0. PICK late \in BOOLEAN :
        breaker' = afterRequest(currentState(breaker, late), "worker", ok)
  BY DEF SendReturns
<1> DEFINE now == currentState(breaker, late)
<1>1. /\ pc = "call" /\ pc' = "send"
      /\ breaker' = afterRequest(now, "worker", ok)
      /\ token' = {} /\ stuck' = 0
      /\ UNCHANGED <<push_devices, up, cancelled, jobs, todo, spent, listed, around,
                     reached, refused>>
  BY <1>0 DEF SendReturns, environment
<1>2. (ok => stalled' = 0) /\ (~ok => stalled' = stalled + stuck)
  BY DEF SendReturns
<1>3. /\ breaker \in Breakers({"worker"}) /\ breaker.state \in {"closed", "half-open"}
      /\ breaker.current = {"worker"} /\ jobs # <<>>
      /\ breaker.fails \in 0 .. Threshold - 1 /\ breaker.left \in Int
      /\ stalled \in Nat /\ stuck \in 0 .. HTTPTimeout
  BY <1>1 DEF IInv, TypeOK, WorkerPhases, Breakers
<1>4. /\ Counted \in Nat /\ Threshold * HTTPTimeout \in Nat
      /\ (breaker.fails + 1) * HTTPTimeout = Counted + HTTPTimeout
      /\ Counted + HTTPTimeout <= Threshold * HTTPTimeout
      /\ StallBound = Threshold * HTTPTimeout + Threshold * HTTPTimeout
      /\ 0 * HTTPTimeout = 0
      /\ HTTPTimeout \in Nat /\ Interval \in Nat /\ Timeout \in Nat /\ Timeout > 0
  BY <1>3, Products, BreakerAssumption, PushAssumption
     DEF BreakerAssumption, PushAssumption, Counted
<1>5. /\ breaker' \in Breakers({"worker"}) /\ breaker'.current = {}
      /\ breaker'.state # "half-open" /\ stalled' \in Nat /\ TimeAccounted'
  <2>1. jobs' # <<>> /\ stuck' = 0
    BY <1>1, <1>3
  <2>2. CASE now # breaker
    <3>0. /\ now = NewGeneration("closed")
          /\ breaker.state = "closed" /\ breaker.left <= 0
      BY <1>3, <2>2, CurrentStateCases
    <3>1. breaker' = NewGeneration("closed")
      <4>1. now = NewGeneration("closed")
        BY <3>0
      <4>2. "worker" \notin now.current
        BY <4>1, NewGenerationType
      <4> QED
        BY <1>1, <4>1, <4>2 DEF afterRequest
    <3>2. /\ breaker' \in Breakers({"worker"}) /\ breaker'.current = {}
          /\ breaker'.state = "closed" /\ breaker'.fails = 0 /\ breaker'.left = Interval
      BY <3>1, NewGenerationType
    <3>3. stalled <= Counted
      BY <1>3, <3>0, ExpiryForgivesOnce
    <3>4. stalled' \in Nat /\ stalled' <= Threshold * HTTPTimeout
      BY <1>2, <1>3, <1>4, <3>3
    <3>5. Counted' = 0
      BY <1>4, <3>2 DEF Counted
    <3> QED
      BY <1>4, <2>1, <3>2, <3>4, <3>5 DEF TimeAccounted
  <2>3. CASE now = breaker
    <3>1. breaker' = afterRequest(breaker, "worker", ok)
      BY <1>1, <2>3
    <3>2. CASE ok
      <4>1. /\ breaker' \in Breakers({"worker"}) /\ breaker'.current = {}
            /\ breaker'.state = "closed" /\ breaker'.fails = 0
        BY <1>3, <3>1, <3>2, SuccessCounts
      <4>2. stalled' = 0 /\ Counted' = 0
        BY <1>2, <1>4, <3>2, <4>1 DEF Counted
      <4> QED
        BY <2>1, <4>1, <4>2 DEF TimeAccounted
    <3>3. CASE ~ok
      <4>1. /\ breaker' \in Breakers({"worker"}) /\ breaker'.current = {}
            /\ \/ breaker'.state = "open" /\ breaker'.left = Timeout
               \/ /\ breaker'.state = breaker.state /\ breaker'.state # "half-open"
                  /\ breaker'.fails = breaker.fails + 1 /\ breaker'.left = breaker.left
        BY <1>3, <3>1, <3>3, FailureCounts
      <4>2. stalled' = stalled + stuck /\ stalled' \in Nat
        BY <1>2, <1>3, <3>3
      <4>3. CASE breaker'.state = "open"
        <5>1. stalled <= Threshold * HTTPTimeout + Counted
          BY <1>3, <1>4 DEF IInv, TimeAccounted
        <5>2. breaker'.left > 0
          BY <1>3, <1>4, <4>1, <4>3
        <5> QED
          BY <1>3, <1>4, <2>1, <4>1, <4>2, <4>3, <5>1, <5>2 DEF TimeAccounted
      <4>4. CASE breaker'.state # "open"
        <5>1. /\ breaker.state = "closed" /\ breaker'.state = "closed"
              /\ breaker'.left = breaker.left /\ Counted' = Counted + HTTPTimeout
          BY <1>3, <1>4, <4>1, <4>4 DEF Counted
        <5>2. CASE stalled <= Counted
          <6>1. stalled' <= Counted'
            BY <1>3, <1>4, <4>2, <5>1, <5>2
          <6> QED
            BY <2>1, <4>1, <4>2, <5>1, <6>1 DEF TimeAccounted
        <5>3. CASE /\ stalled <= Threshold * HTTPTimeout + Counted
                   /\ Interval - breaker.left <= Counted + stuck
          <6>1. /\ stalled' <= Threshold * HTTPTimeout + Counted'
                /\ Interval - breaker'.left <= Counted' + stuck'
            <7>1. stalled + stuck <= Threshold * HTTPTimeout + (Counted + HTTPTimeout)
              BY <1>3, <1>4, <5>3
            <7>2. Interval - breaker.left <= (Counted + HTTPTimeout) + 0
              BY <1>3, <1>4, <5>3
            <7> QED
              BY <2>1, <4>2, <5>1, <7>1, <7>2
          <6> QED
            BY <2>1, <4>1, <4>2, <5>1, <6>1 DEF TimeAccounted
        <5> QED
          BY <1>3, <5>1, <5>2, <5>3 DEF IInv, TimeAccounted
      <4> QED
        BY <4>3, <4>4
    <3> QED
      BY <3>2, <3>3
  <2> QED
    BY <2>2, <2>3
<1> HIDE DEF now
<1>6. TypeOK'
  <2>1. stuck' \in 0 .. HTTPTimeout
    BY <1>1, <1>4
  <2> QED
    BY <1>1, <1>5, <2>1 DEF IInv, TypeOK
<1>7. WorkerPhases'
  BY <1>1, <1>3, <1>5 DEF WorkerPhases
<1>8. TokensAccounted'
  BY <1>1 DEF IInv, TokensAccounted, TokensOf, Done
<1>9. DeadlineShared'
  <2>1. Asked' = Asked /\ Asked \in Nat /\ IsFiniteSet(reached) /\ spent \in Nat
    BY <1>1, AskedType, PushAssumption
       DEF PushAssumption, IInv, TypeOK, DeadlineShared, Asked
  <2>2. spent <= Asked
    BY <1>1, <1>3, <1>4, <2>1 DEF IInv, DeadlineShared
  <2> QED
    BY <1>1, <2>1, <2>2 DEF DeadlineShared
<1> QED
  BY <1>5, <1>6, <1>7, <1>8, <1>9 DEF IInv

\* Every step, of the worker, of clients and of the clock, keeps the
\* inductive invariant.
LEMMA NextIInv == IInv /\ [Next]_vars => IInv'
<1> SUFFICES ASSUME IInv, [Next]_vars PROVE IInv'
  OBVIOUS
<1>1. CASE UNCHANGED vars
  <2>1. UNCHANGED <<push_devices, up, cancelled, breaker, pc, jobs, todo, token, spent,
                    stuck, listed, around, reached, refused, stalled>>
    BY <1>1 DEF vars, environment, history
  <2>2. DeadlineShared'
    <3>1. (pc' = "call" <=> pc = "call") /\ (cancelled => cancelled')
      BY <2>1
    <3> QED
      BY <2>1, <3>1, DeadlineKept DEF IInv
  <2> QED
    BY <2>1, <2>2 DEF IInv, TypeOK, WorkerPhases, TokensAccounted, TokensOf, Done,
                      TimeAccounted, Counted
<1>2. CASE Next
  BY <1>2, DeviceStep, SurroundingsStep, TickStep, CommitStep, ListStep, EndJobStep,
     SendStep, SendReturnsStep, ExitStep DEF Next
<1> QED
  BY <1>1, <1>2

\* The inductive invariant holds in every reachable state.
LEMMA IInvHolds == Spec => []IInv
BY InitIInv, NextIInv, PTL DEF Spec

-----------------------------------------------------------------------------
\* Type correctness of the worker's push delivery, its breaker included.
THEOREM TypeCorrect == Spec => []TypeOK
<1>1. IInv => TypeOK
  BY DEF IInv
<1> QED
  BY <1>1, IInvHolds, PTL

\* sendPushNotifications reaches only devices that the job's own citizen had
\* registered at some time during the job, whatever devices are added,
\* deleted or owned by other citizens of the batch.
THEOREM RegisteredOnly == Spec => []OnlyRegisteredPushed
<1>1. IInv => OnlyRegisteredPushed
  BY DEF IInv, TokensAccounted, OnlyRegisteredPushed
<1> QED
  BY <1>1, IInvHolds, PTL

\* The sends of a sendPushNotifications job that is not stopped miss a device
\* only behind calls that may have used up the job's deadline.
THEOREM NobodyLeftOut == Spec => []NoDeviceLeftOut
<1>1. ASSUME IInv, pc = "send", todo = {}, ~cancelled
      PROVE  listed \subseteq reached \cup refused \/ Asked >= JobDeadline
  <2>1. /\ spent <= Asked /\ spent \in Nat /\ Asked \in Nat /\ JobDeadline \in Nat
    BY <1>1, AskedType, PushAssumption DEF PushAssumption, IInv, TypeOK, DeadlineShared
  <2>2. CASE spent >= JobDeadline
    BY <2>1, <2>2
  <2>3. CASE ~(spent >= JobDeadline)
    BY <1>1, <2>3 DEF IInv, TokensAccounted, Done
  <2> QED
    BY <2>2, <2>3
<1>2. IInv => NoDeviceLeftOut
  BY <1>1 DEF NoDeviceLeftOut, Asked
<1> QED
  BY <1>2, IInvHolds, PTL

\* A push endpoint that does not answer costs a batch at most twice Threshold
\* timeouts, for any number of jobs and devices and any limits of the breaker
\* that let a closed circuit trip before it expires.
THEOREM StallIsBounded == Spec => []StallBounded
<1>1. IInv => StallBounded
  BY WithinBound DEF IInv, StallBounded
<1> QED
  BY <1>1, IInvHolds, PTL
===============================================================================

--------------------------- MODULE ReadStateProofs ---------------------------
(***************************************************************************)
(* Proofs about ReadState for any requests, citizens and notifications.    *)
(* The UPDATE's condition, looked at again under the row's lock, makes     *)
(* every row the outcome of one request; the callbacks are then counted    *)
(* against the rows that their requests have reported.                     *)
(***************************************************************************)
EXTENDS ReadState, FiniteSetTheorems, TLAPS

Typed ==
  /\ configured \in BOOLEAN
  /\ stored \subseteq Notes
  /\ readBy \in [Notes -> SUBSET Requests]
  /\ pc \in [Requests -> {"new", "update", "locked", "schedule", "answered", "dead"}]
  /\ who \in [Requests -> Citizens]
  /\ known \in [Requests -> BOOLEAN]
  /\ target \in [Requests -> SUBSET (Notes \cup {Malformed})]
  /\ there \in [Requests -> SUBSET Notes]
  /\ snapshot \in [Requests -> SUBSET Notes]
  /\ returned \in [Requests -> SUBSET Notes]
  /\ answer \in [Requests -> {"none", "200", "204", "400", "401", "404", "500"}]
  /\ calls \in [Citizens -> [Chamados -> Nat]]
  /\ faults \in 0 .. MaxFaults

\* Rows are stored one by one, and only stored rows are read, each by one
\* request.
ReadOnce ==
  /\ IsFiniteSet(stored)
  /\ \A n \in Notes : readBy[n] # {} => n \in stored
  /\ \A n \in Notes : \A p, q \in readBy[n] : p = q

\* A request has nothing to report before its UPDATE and no answer before its
\* callbacks; what it reports it has read, and is its citizen's.
RequestPhases ==
  \A q \in Requests :
    /\ pc[q] \in {"new", "update", "locked"} => returned[q] = {}
    /\ pc[q] # "answered" => answer[q] = "none"
    /\ \A n \in snapshot[q] : n \in stored /\ Owner[n] = who[q]
    /\ pc[q] # "locked" => snapshot[q] = {}
    /\ \A n \in returned[q] : q \in readBy[n] /\ Owner[n] = who[q]

\* What the middleware saw is still there.
SeenIsStored ==
  \A q \in Requests :
    /\ there[q] \subseteq stored
    /\ ~known[q] => \A n \in there[q] : Owner[n] # who[q]

\* Rows of z and ch that a request has reported with its answer.
Reported(z, ch) ==
  {n \in Notes : /\ Owner[n] = z /\ Chamado[n] = ch
                 /\ \E q \in Requests : n \in returned[q] /\ answer[q] \in {"200", "204"}}

CallbacksCounted ==
  \A z \in Citizens, ch \in Chamados : calls[z][ch] <= Cardinality(Reported(z, ch))

\* The two halves of CallbacksMatchAnswers, and that the requests answered so
\* far can be counted.
ReadsHeld ==
  \A n \in Notes : \A q \in readBy[n] : n \in returned[q] \/ answer[q] = "500"

CallbacksExact ==
  \A z \in Citizens, ch \in Chamados :
    calls[z][ch] = IF configured /\ ch # "" THEN Cardinality(Reporters(z, ch)) ELSE 0

AnsweredFinite == IsFiniteSet({q \in Requests : answer[q] # "none"})

IInv ==
  /\ Typed
  /\ ReadOnce
  /\ RequestPhases
  /\ SeenIsStored
  /\ CallbacksCounted
  /\ ReadsHeld
  /\ CallbacksExact
  /\ AnsweredFinite
  /\ NotFoundMeansRead

-----------------------------------------------------------------------------
\* A part of a finite set can be counted.
LEMMA PartCounts ==
  ASSUME NEW T, IsFiniteSet(T), NEW S \in SUBSET T
  PROVE  IsFiniteSet(S) /\ Cardinality(S) \in Nat /\ Cardinality(S) <= Cardinality(T)
BY FS_Subset, FS_CardinalityType

\* What is reported was read, so it is finitely much.
LEMMA ReportedFinite ==
  ASSUME Typed, ReadOnce, RequestPhases, NEW z, NEW ch
  PROVE  /\ Reported(z, ch) \subseteq stored
         /\ IsFiniteSet(Reported(z, ch)) /\ Cardinality(Reported(z, ch)) \in Nat
<1>1. Reported(z, ch) \subseteq stored
  BY DEF Typed, ReadOnce, RequestPhases, Reported
<1> QED
  BY <1>1, PartCounts DEF ReadOnce

\* Without a callback, more rows or more answers keep the count.
LEMMA CountKept ==
  ASSUME CallbacksCounted, calls' = calls,
         Typed, ReadOnce, RequestPhases, Typed', ReadOnce', RequestPhases',
         \A q \in Requests : /\ returned[q] \subseteq returned'[q]
                             /\ answer[q] \in {"200", "204"} => answer'[q] = answer[q]
  PROVE  CallbacksCounted'
<1> SUFFICES ASSUME NEW z \in Citizens, NEW ch \in Chamados
             PROVE  calls[z][ch] <= Cardinality(Reported(z, ch)')
  BY DEF CallbacksCounted
<1>1. Reported(z, ch) \subseteq Reported(z, ch)'
  BY DEF Reported
<1>2. Reported(z, ch)' \subseteq stored'
  BY DEF Typed, ReadOnce, RequestPhases, Reported
<1>3. IsFiniteSet(Reported(z, ch)') /\ Cardinality(Reported(z, ch)') \in Nat
  BY <1>2, PartCounts DEF ReadOnce
<1>4. /\ Cardinality(Reported(z, ch)) \in Nat
      /\ Cardinality(Reported(z, ch)) <= Cardinality(Reported(z, ch)')
  BY <1>1, <1>3, PartCounts
<1>5. calls[z][ch] \in Nat /\ calls[z][ch] <= Cardinality(Reported(z, ch))
  BY DEF Typed, CallbacksCounted
<1> QED
  BY <1>3, <1>4, <1>5

\* A request that is not answered with success starts no callback and reports
\* nothing.
LEMMA ExactKept ==
  ASSUME CallbacksExact, AnsweredFinite, UNCHANGED <<configured, calls>>,
         NEW q \in Requests,
         answer[q] \notin {"200", "204"}, answer'[q] \notin {"200", "204"},
         \A p \in Requests \ {q} :
           answer'[p] = answer[p] /\ returned'[p] = returned[p] /\ who'[p] = who[p]
  PROVE  CallbacksExact' /\ AnsweredFinite'
<1>1. \A z \in Citizens, ch \in Chamados : Reporters(z, ch)' = Reporters(z, ch)
  BY DEF Reporters
<1>2. CallbacksExact'
  BY <1>1 DEF CallbacksExact
<1>3. AnsweredFinite'
  <2>1. IsFiniteSet({p \in Requests : answer[p] # "none"} \cup {q})
    BY FS_AddElement DEF AnsweredFinite
  <2>2. {p \in Requests : answer'[p] # "none"}
          \subseteq {p \in Requests : answer[p] # "none"} \cup {q}
    OBVIOUS
  <2> QED
    BY <2>1, <2>2, FS_Subset DEF AnsweredFinite
<1> QED
  BY <1>2, <1>3

\* A step that leaves requests and callbacks alone keeps their match.
LEMMA ExactUnchanged ==
  ASSUME CallbacksExact, AnsweredFinite,
         UNCHANGED <<configured, calls, who, returned, answer>>
  PROVE  CallbacksExact' /\ AnsweredFinite'
<1>1. \A z \in Citizens, ch \in Chamados : Reporters(z, ch)' = Reporters(z, ch)
  BY DEF Reporters
<1>2. CallbacksExact'
  BY <1>1 DEF CallbacksExact
<1>3. AnsweredFinite'
  BY DEF AnsweredFinite
<1> QED
  BY <1>2, <1>3

\* An empty table and new requests satisfy the inductive invariant.
LEMMA InitIInv == Init => IInv
<1> SUFFICES ASSUME Init PROVE IInv
  OBVIOUS
<1> USE ReadStateAssumption DEF ReadStateAssumption, Init
<1>1. Typed
  BY DEF Typed
<1>2. ReadOnce
  BY FS_EmptySet DEF ReadOnce
<1>3. RequestPhases /\ SeenIsStored /\ ReadsHeld /\ NotFoundMeansRead
  BY DEF RequestPhases, SeenIsStored, ReadsHeld, NotFoundMeansRead
<1>a. CallbacksExact /\ AnsweredFinite
  <2>1. {q \in Requests : answer[q] # "none"} = {}
    OBVIOUS
  <2>2. \A z \in Citizens, ch \in Chamados : Reporters(z, ch) = {}
    BY DEF Reporters
  <2> QED
    BY <2>1, <2>2, FS_EmptySet DEF CallbacksExact, AnsweredFinite
<1>4. CallbacksCounted
  <2>1. \A z \in Citizens, ch \in Chamados : calls[z][ch] = 0 /\ Cardinality(Reported(z, ch)) \in Nat
    BY <1>1, <1>2, <1>3, ReportedFinite
  <2> QED
    BY <2>1 DEF CallbacksCounted
<1> QED
  BY <1>1, <1>2, <1>3, <1>4, <1>a DEF IInv

\* A new notification is unread, and no request has seen it.
LEMMA StoreStep ==
  ASSUME IInv, NEW n \in Notes, Store(n) PROVE IInv'
<1> USE DEF IInv, Store, token
<1>1. Typed'
  BY DEF Typed
<1>2. ReadOnce'
  BY FS_AddElement DEF ReadOnce
<1>3. RequestPhases'
  BY DEF RequestPhases
<1>4. SeenIsStored' /\ ReadsHeld'
  BY DEF SeenIsStored, ReadsHeld
<1>5. NotFoundMeansRead'
  BY DEF NotFoundMeansRead
<1>6. CallbacksCounted'
  BY <1>1, <1>2, <1>3, CountKept
<1>7. CallbacksExact' /\ AnsweredFinite'
  BY ExactUnchanged
<1> QED
  BY <1>1, <1>2, <1>3, <1>4, <1>5, <1>6, <1>7

\* The middleware resolves the token against what is stored.
LEMMA AuthenticateStep ==
  ASSUME IInv, NEW q \in Requests, NEW z \in Citizens,
         NEW t \in SUBSET (Notes \cup {Malformed}), Authenticate(q, z, t)
  PROVE  IInv'
<1> USE DEF IInv, Authenticate, Goto, table
<1>1. Typed'
  BY DEF Typed
<1>2. ReadOnce'
  BY DEF ReadOnce
<1>3. RequestPhases'
  BY DEF Typed, RequestPhases
<1>4. SeenIsStored' /\ ReadsHeld' /\ CallbacksExact' /\ AnsweredFinite'
  <2>1. \A p \in Requests \ {q} : /\ who'[p] = who[p] /\ there'[p] = there[p]
                                  /\ known'[p] = known[p] /\ pc'[p] = pc[p]
    BY DEF Typed
  <2>2. /\ who'[q] = z /\ there'[q] = stored /\ (known'[q] <=> \E n \in stored : Owner[n] = z)
    BY DEF Typed
  <2> QED
    BY <2>1, <2>2, ExactKept DEF SeenIsStored, RequestPhases, ReadsHeld
<1>5. NotFoundMeansRead'
  <2>1. /\ answer[q] = "none" /\ UNCHANGED <<answer, readBy>>
        /\ \A p \in Requests \ {q} :
             who'[p] = who[p] /\ target'[p] = target[p] /\ there'[p] = there[p]
    BY DEF Typed, RequestPhases
  <2> QED
    BY <2>1 DEF NotFoundMeansRead
<1>6. CallbacksCounted'
  BY <1>1, <1>2, <1>3, CountKept
<1> QED
  BY <1>1, <1>2, <1>3, <1>4, <1>5, <1>6

\* Requests that end before their UPDATE; a citizen without a row has nothing
\* that was there.
LEMMA RefuseStep ==
  ASSUME IInv, NEW q \in Requests,
         AuthenticateFails(q) \/ Unauthorized(q) \/ UnknownCitizen(q) \/ InvalidID(q)
  PROVE  IInv'
<1>0. PICK code \in {"400", "401", "404", "500"} :
        /\ pc[q] \in {"new", "update"}
        /\ code = "404" => pc[q] = "update" /\ ~known[q]
        /\ answer' = [answer EXCEPT ![q] = code]
        /\ pc' = [pc EXCEPT ![q] = "answered"]
  BY DEF AuthenticateFails, Unauthorized, UnknownCitizen, InvalidID, Respond, Goto
<1>1. /\ UNCHANGED <<configured, stored, readBy, who, known, target, there, snapshot,
                     returned, calls>>
      /\ faults' = faults \/ (faults < MaxFaults /\ faults' = faults + 1)
  BY DEF AuthenticateFails, Unauthorized, UnknownCitizen, InvalidID, table, token
<1> USE DEF IInv
<1>2. answer'[q] = code /\ pc'[q] = "answered" /\ returned[q] = {} /\ snapshot[q] = {}
      /\ answer[q] = "none"
      /\ \A p \in Requests \ {q} : answer'[p] = answer[p] /\ pc'[p] = pc[p]
  BY <1>0 DEF Typed, RequestPhases
<1>3. Typed'
  <2>1. faults' \in 0 .. MaxFaults
    BY <1>1, ReadStateAssumption DEF ReadStateAssumption, Typed
  <2> QED
    BY <1>0, <1>1, <2>1 DEF Typed
<1>4. ReadOnce'
  BY <1>1 DEF ReadOnce
<1>5. RequestPhases'
  BY <1>0, <1>1, <1>2 DEF RequestPhases
<1>6. SeenIsStored' /\ ReadsHeld'
  BY <1>0, <1>1, <1>2 DEF SeenIsStored, ReadsHeld, Typed
<1>a. CallbacksExact' /\ AnsweredFinite'
  BY <1>1, <1>2, ExactKept
<1>7. NotFoundMeansRead'
  BY <1>0, <1>1, <1>2 DEF SeenIsStored, NotFoundMeansRead
<1>8. CallbacksCounted'
  BY <1>1, <1>2, <1>3, <1>4, <1>5, CountKept
<1> QED
  BY <1>3, <1>4, <1>5, <1>6, <1>7, <1>8, <1>a

\* An UPDATE of unread rows: each gets its only reader.
LEMMA SetReadKeeps ==
  ASSUME Typed, ReadOnce, NEW q \in Requests, NEW R \in SUBSET Notes,
         \A n \in R : Unread(n), stored' = stored,
         readBy' = [n \in Notes |-> IF n \in R THEN readBy[n] \cup {q} ELSE readBy[n]]
  PROVE  /\ readBy' \in [Notes -> SUBSET Requests] /\ ReadOnce'
         /\ \A n \in Notes : readBy[n] \subseteq readBy'[n]
         /\ \A n \in R : q \in readBy'[n]
         /\ \A n \in Notes : \A p \in readBy'[n] : p \in readBy[n] \/ (p = q /\ n \in R)
BY DEF Typed, ReadOnce, Unread

\* PATCH /notifications/:id/read: 404 only for a row that is not there, not
\* the citizen's, or read.
LEMMA MarkStep ==
  ASSUME IInv, NEW q \in Requests, MarkNotificationRead(q) PROVE IInv'
<1> USE DEF IInv, MarkNotificationRead, SetRead, Respond, Goto, token
<1>1. Match(q) \in SUBSET Notes /\ \A n \in Match(q) : Unread(n) /\ Owner[n] = who[q]
  BY DEF Typed, Match, Unread
<1>2. /\ readBy' \in [Notes -> SUBSET Requests] /\ ReadOnce'
      /\ \A n \in Notes : readBy[n] \subseteq readBy'[n]
      /\ \A n \in Match(q) : q \in readBy'[n]
      /\ \A n \in Notes : \A p \in readBy'[n] : p \in readBy[n] \/ (p = q /\ n \in Match(q))
  BY <1>1, SetReadKeeps
<1>3. Typed'
  BY <1>1, <1>2 DEF Typed
<1>a. /\ returned'[q] = Match(q) /\ pc'[q] \in {"schedule", "answered"}
      /\ pc'[q] = "schedule" => answer'[q] = answer[q]
      /\ answer'[q] \in {answer[q], "404"} /\ (answer'[q] = "404" /\ answer[q] # "404" => Match(q) = {})
  BY DEF Typed
<1>b. \A p \in Requests \ {q} :
        returned'[p] = returned[p] /\ pc'[p] = pc[p] /\ answer'[p] = answer[p]
  BY DEF Typed
<1>c. snapshot[q] = {} /\ answer[q] = "none" /\ returned[q] = {}
  BY DEF RequestPhases
<1>4. RequestPhases'
  <2>1. \A p \in Requests : returned[p] \subseteq Notes
    BY DEF Typed
  <2> QED
    BY <1>1, <1>2, <1>a, <1>b, <1>c, <2>1 DEF RequestPhases
<1>5. SeenIsStored' /\ ReadsHeld'
  <2>1. ReadsHeld'
    BY <1>2, <1>a, <1>b, <1>c DEF Typed, ReadsHeld
  <2> QED
    BY <1>a, <1>b, <1>c, <2>1 DEF SeenIsStored
<1>d. CallbacksExact' /\ AnsweredFinite'
  BY <1>a, <1>b, <1>c, ExactKept
<1>6. NotFoundMeansRead'
  <2> SUFFICES ASSUME NEW p \in Requests, NEW n \in target[p] \cap there[p],
                      answer'[p] = "404", who[p] = Owner[n]
               PROVE  readBy'[n] # {}
    BY DEF NotFoundMeansRead
  <2>1. n \in Notes /\ n \in stored
    BY DEF Typed, SeenIsStored
  <2>2. readBy[n] # {}
    <3>1. CASE p = q
      <4>1. Match(q) = {}
        BY <1>a, <1>c, <3>1
      <4> QED
        BY <2>1, <3>1, <4>1 DEF Match, Unread
    <3>2. CASE p # q
      BY <1>b, <3>2 DEF NotFoundMeansRead
    <3> QED
      BY <3>1, <3>2
  <2> QED
    BY <1>2, <2>1, <2>2
<1>7. CallbacksCounted'
  <2>1. \A p \in Requests : /\ returned[p] \subseteq returned'[p]
                            /\ answer[p] \in {"200", "204"} => answer'[p] = answer[p]
    BY <1>a, <1>b, <1>c
  <2> QED
    BY <1>2, <1>3, <1>4, <2>1, CountKept
<1> QED
  BY <1>2, <1>3, <1>4, <1>5, <1>6, <1>7, <1>d

\* read-all's UPDATE sets out with the citizen's unread rows ...
LEMMA MarkAllBeginStep ==
  ASSUME IInv, NEW q \in Requests, MarkAllBegin(q) PROVE IInv'
<1> USE DEF IInv, MarkAllBegin, Goto, table, token
<1>1. Typed'
  BY DEF Typed, Unread
<1>2. ReadOnce'
  BY DEF ReadOnce
<1>3. RequestPhases'
  BY DEF Typed, RequestPhases
<1>4. SeenIsStored' /\ ReadsHeld' /\ CallbacksExact' /\ AnsweredFinite'
  BY ExactKept DEF Typed, RequestPhases, SeenIsStored, ReadsHeld
<1>5. NotFoundMeansRead'
  BY DEF NotFoundMeansRead
<1>6. CallbacksCounted'
  BY <1>1, <1>2, <1>3, CountKept
<1> QED
  BY <1>1, <1>2, <1>3, <1>4, <1>5, <1>6

\* ... and takes those that are unread still.
LEMMA MarkAllStep ==
  ASSUME IInv, NEW q \in Requests, MarkAllNotificationsRead(q) PROVE IInv'
<1> USE DEF IInv, MarkAllNotificationsRead, SetRead, Goto, token
<1> DEFINE R == {n \in snapshot[q] : Unread(n)}
<1>1. R \in SUBSET Notes /\ \A n \in R : Unread(n) /\ Owner[n] = who[q]
  BY DEF Typed, RequestPhases
<1>2. /\ readBy' \in [Notes -> SUBSET Requests] /\ ReadOnce'
      /\ \A n \in Notes : readBy[n] \subseteq readBy'[n]
      /\ \A n \in R : q \in readBy'[n]
      /\ \A n \in Notes : \A p \in readBy'[n] : p \in readBy[n] \/ (p = q /\ n \in R)
  BY <1>1, SetReadKeeps
<1>3. returned' = [returned EXCEPT ![q] = R]
  OBVIOUS
<1> HIDE DEF R
<1>4. Typed'
  BY <1>1, <1>2, <1>3 DEF Typed
<1>5. RequestPhases'
  <2>1. /\ returned'[q] = R /\ pc'[q] = "schedule" /\ answer[q] = "none" /\ snapshot'[q] = {}
        /\ \A p \in Requests \ {q} :
             returned'[p] = returned[p] /\ pc'[p] = pc[p] /\ snapshot'[p] = snapshot[p]
    BY <1>3 DEF Typed, RequestPhases
  <2>2. \A p \in Requests : returned[p] \subseteq Notes
    BY DEF Typed
  <2> QED
    BY <1>1, <1>2, <2>1, <2>2 DEF RequestPhases
<1>6. SeenIsStored' /\ ReadsHeld' /\ CallbacksExact' /\ AnsweredFinite'
  <2>1. /\ pc[q] # "new" /\ answer[q] = "none" /\ returned[q] = {} /\ returned'[q] = R
        /\ \A p \in Requests \ {q} : returned'[p] = returned[p] /\ pc'[p] = pc[p]
    BY <1>3 DEF Typed, RequestPhases
  <2>2. ReadsHeld'
    BY <1>2, <2>1 DEF Typed, ReadsHeld
  <2>3. CallbacksExact' /\ AnsweredFinite'
    BY <2>1, ExactKept
  <2> QED
    BY <2>1, <2>2, <2>3 DEF SeenIsStored
<1>7. NotFoundMeansRead'
  BY <1>2 DEF Typed, NotFoundMeansRead
<1>8. CallbacksCounted'
  <2>1. \A p \in Requests : returned[p] \subseteq returned'[p]
    BY <1>3 DEF Typed, RequestPhases
  <2> QED
    BY <1>2, <1>4, <1>5, <2>1, CountKept
<1> QED
  BY <1>2, <1>4, <1>5, <1>6, <1>7, <1>8

\* The answer follows the callbacks: where the count goes up, a row that was
\* not reported before goes with it.
LEMMA ScheduleStep ==
  ASSUME IInv, NEW q \in Requests, Schedule(q) PROVE IInv'
<1> USE DEF IInv
<1>1. /\ pc[q] = "schedule" /\ pc' = [pc EXCEPT ![q] = "answered"]
      /\ answer' = [answer EXCEPT ![q] = IF target[q] = {} THEN "200" ELSE "204"]
      /\ UNCHANGED <<configured, stored, readBy, who, known, target, there, snapshot,
                     returned, faults>>
  BY DEF Schedule, Respond, Goto, table, token
<1>2. /\ answer'[q] \in {"200", "204"} /\ answer[q] = "none" /\ pc'[q] = "answered"
      /\ snapshot[q] = {}
      /\ \A p \in Requests \ {q} : answer'[p] = answer[p] /\ pc'[p] = pc[p]
  BY <1>1 DEF Typed, RequestPhases
<1>3. ASSUME NEW z \in Citizens, NEW ch \in Chamados
      PROVE  /\ calls'[z][ch] = IF /\ z = who[q] /\ configured /\ ch # ""
                                   /\ \E n \in returned[q] : Chamado[n] = ch
                                THEN calls[z][ch] + 1 ELSE calls[z][ch]
             /\ calls[z][ch] \in Nat
             /\ calls'[z][ch] \in Nat /\ calls'[z][ch] <= calls[z][ch] + 1
  <2>1. calls[z][ch] \in Nat
    BY DEF Typed
  <2>2. calls'[z][ch] = IF /\ z = who[q] /\ configured /\ ch # ""
                           /\ \E n \in returned[q] : Chamado[n] = ch
                        THEN calls[z][ch] + 1 ELSE calls[z][ch]
    BY DEF Schedule, Notify, Reportable
  <2>3. calls'[z][ch] \in {calls[z][ch], calls[z][ch] + 1}
    BY <2>2
  <2>4. calls'[z][ch] \in Nat /\ calls'[z][ch] <= calls[z][ch] + 1
    BY <2>1, <2>3
  <2> QED
    BY <2>1, <2>2, <2>4
<1>4. Typed'
  <2>1. calls' = [y \in Citizens |-> [ch \in Chamados |-> calls'[y][ch]]]
    BY DEF Schedule, Notify, Typed
  <2>2. calls' \in [Citizens -> [Chamados -> Nat]]
    <3>1. \A y \in Citizens, ch \in Chamados : calls'[y][ch] \in Nat
      BY <1>3
    <3> QED
      BY <2>1, <3>1
  <2> QED
    BY <1>1, <2>2 DEF Typed
<1>5. ReadOnce'
  BY <1>1 DEF ReadOnce
<1>6. RequestPhases'
  BY <1>1, <1>2 DEF RequestPhases
<1>7. SeenIsStored' /\ NotFoundMeansRead'
  BY <1>1, <1>2 DEF SeenIsStored, NotFoundMeansRead
<1>8. ReadsHeld'
  BY <1>1, <1>2 DEF Typed, ReadsHeld
<1>a. AnsweredFinite'
  <2>1. {p \in Requests : answer'[p] # "none"} = {p \in Requests : answer[p] # "none"} \cup {q}
    BY <1>2
  <2> QED
    BY <2>1, FS_AddElement DEF AnsweredFinite
<1>b. CallbacksExact'
  <2> SUFFICES ASSUME NEW z \in Citizens, NEW ch \in Chamados
               PROVE  calls'[z][ch] = IF configured /\ ch # ""
                                      THEN Cardinality(Reporters(z, ch)') ELSE 0
    BY <1>1 DEF CallbacksExact
  <2>1. calls[z][ch] = IF configured /\ ch # "" THEN Cardinality(Reporters(z, ch)) ELSE 0
    BY DEF CallbacksExact
  <2>2. CASE z = who[q] /\ \E n \in returned[q] : Chamado[n] = ch
    <3>1. Reporters(z, ch)' = Reporters(z, ch) \cup {q} /\ q \notin Reporters(z, ch)
      BY <1>1, <1>2, <2>2 DEF Reporters
    <3>2. IsFiniteSet(Reporters(z, ch))
      <4>1. Reporters(z, ch) \subseteq {p \in Requests : answer[p] # "none"}
        BY DEF Reporters
      <4> QED
        BY <4>1, FS_Subset DEF AnsweredFinite
    <3>3. Cardinality(Reporters(z, ch)') = Cardinality(Reporters(z, ch)) + 1
      BY <3>1, <3>2, FS_AddElement
    <3> QED
      BY <1>3, <2>1, <2>2, <3>3
  <2>3. CASE ~(z = who[q] /\ \E n \in returned[q] : Chamado[n] = ch)
    <3>1. Reporters(z, ch)' = Reporters(z, ch)
      BY <1>1, <1>2, <2>3 DEF Reporters
    <3> QED
      BY <1>3, <2>1, <2>3, <3>1
  <2> QED
    BY <2>2, <2>3
<1>9. CallbacksCounted'
  <2> SUFFICES ASSUME NEW z \in Citizens, NEW ch \in Chamados
               PROVE  calls'[z][ch] <= Cardinality(Reported(z, ch)')
    BY DEF CallbacksCounted
  <2>1. Reported(z, ch) \subseteq Reported(z, ch)'
    BY <1>1, <1>2 DEF Reported
  <2>2. Reported(z, ch)' \subseteq stored'
    BY <1>4, <1>5, <1>6 DEF Typed, ReadOnce, RequestPhases, Reported
  <2>3. IsFiniteSet(Reported(z, ch)') /\ Cardinality(Reported(z, ch)') \in Nat
    BY <1>5, <2>2, PartCounts DEF ReadOnce
  <2>4. IsFiniteSet(Reported(z, ch)) /\ Cardinality(Reported(z, ch)) \in Nat
    BY <2>1, <2>3, PartCounts
  <2>5. calls[z][ch] <= Cardinality(Reported(z, ch)) /\ calls[z][ch] \in Nat
    BY <1>3 DEF CallbacksCounted
  <2>6. CASE z = who[q] /\ \E n \in returned[q] : Chamado[n] = ch
    <3>1. PICK n \in returned[q] : Chamado[n] = ch
      BY <2>6
    <3>2. n \in Notes /\ q \in readBy[n] /\ Owner[n] = z
      BY <2>6 DEF Typed, RequestPhases
    <3>3. n \in Reported(z, ch)'
      BY <1>1, <1>2, <3>1, <3>2 DEF Reported
    <3>4. n \notin Reported(z, ch)
      BY <1>2, <3>2 DEF Typed, ReadOnce, RequestPhases, Reported
    <3>5. Cardinality(Reported(z, ch) \cup {n}) = Cardinality(Reported(z, ch)) + 1
      BY <2>4, <3>4, FS_AddElement
    <3>6. Cardinality(Reported(z, ch) \cup {n}) <= Cardinality(Reported(z, ch)')
      BY <2>1, <2>3, <3>3, PartCounts
    <3>7. calls'[z][ch] \in Nat /\ calls'[z][ch] <= calls[z][ch] + 1
      BY <1>3
    <3> QED
      BY <2>3, <2>4, <2>5, <3>5, <3>6, <3>7
  <2>7. CASE ~(z = who[q] /\ \E n \in returned[q] : Chamado[n] = ch)
    <3>1. Cardinality(Reported(z, ch)) <= Cardinality(Reported(z, ch)')
      BY <2>1, <2>3, PartCounts
    <3>2. calls'[z][ch] = calls[z][ch]
      BY <1>3, <2>7
    <3> QED
      BY <2>3, <2>4, <2>5, <3>1, <3>2
  <2> QED
    BY <2>6, <2>7
<1> QED
  BY <1>4, <1>5, <1>6, <1>7, <1>8, <1>9, <1>a, <1>b

\* An UPDATE whose answer is lost has read its rows all the same, and reports
\* none.
LEMMA UpdateFailsStep ==
  ASSUME IInv, NEW q \in Requests, UpdateFails(q) PROVE IInv'
<1> USE DEF IInv
<1>1. PICK R \in {{}, Match(q), {n \in snapshot[q] : Unread(n)}} :
        readBy' = [n \in Notes |-> IF n \in R THEN readBy[n] \cup {q} ELSE readBy[n]]
  BY DEF UpdateFails
<1>2. R \in SUBSET Notes /\ \A n \in R : Unread(n)
  BY DEF Typed, Match, Unread
<1>3. /\ pc[q] \in {"update", "locked"}
      /\ pc' = [pc EXCEPT ![q] = "answered"] /\ answer' = [answer EXCEPT ![q] = "500"]
      /\ snapshot' = [snapshot EXCEPT ![q] = {}]
      /\ faults < MaxFaults /\ faults' = faults + 1
      /\ UNCHANGED <<configured, stored, who, known, target, there, returned, calls>>
  BY DEF UpdateFails, Respond, Goto, token
<1>4. /\ readBy' \in [Notes -> SUBSET Requests] /\ ReadOnce'
      /\ \A n \in Notes : readBy[n] \subseteq readBy'[n]
      /\ \A n \in Notes : \A p \in readBy'[n] : p \in readBy[n] \/ (p = q /\ n \in R)
  BY <1>1, <1>2, <1>3, SetReadKeeps
<1>5. Typed'
  <2>1. faults' \in 0 .. MaxFaults
    BY <1>3, ReadStateAssumption DEF ReadStateAssumption, Typed
  <2> QED
    BY <1>3, <1>4, <2>1 DEF Typed
<1>6. /\ answer'[q] = "500" /\ answer[q] = "none" /\ pc'[q] = "answered" /\ snapshot'[q] = {}
      /\ returned[q] = {}
      /\ \A p \in Requests \ {q} :
           answer'[p] = answer[p] /\ pc'[p] = pc[p] /\ snapshot'[p] = snapshot[p]
  BY <1>3 DEF Typed, RequestPhases
<1>7. RequestPhases'
  <2>1. \A p \in Requests : returned[p] \subseteq Notes
    BY DEF Typed
  <2> QED
    BY <1>3, <1>4, <1>6, <2>1 DEF RequestPhases
<1>8. SeenIsStored' /\ ReadsHeld'
  BY <1>3, <1>4, <1>6 DEF Typed, SeenIsStored, ReadsHeld
<1>a. CallbacksExact' /\ AnsweredFinite'
  BY <1>3, <1>6, ExactKept
<1>9. NotFoundMeansRead'
  <2>1. \A p \in Requests : there[p] \subseteq Notes
    BY DEF Typed
  <2> QED
    BY <1>3, <1>4, <1>6, <2>1 DEF NotFoundMeansRead
<1>10. CallbacksCounted'
  BY <1>3, <1>4, <1>5, <1>6, <1>7, CountKept
<1> QED
  BY <1>4, <1>5, <1>7, <1>8, <1>9, <1>10, <1>a

\* A process that dies leaves its request without an answer.
LEMMA DieStep ==
  ASSUME IInv, NEW q \in Requests, Die(q) PROVE IInv'
<1> USE DEF IInv, Die, Goto, table, token
<1>1. Typed'
  BY ReadStateAssumption DEF ReadStateAssumption, Typed
<1>2. ReadOnce'
  BY DEF ReadOnce
<1>3. RequestPhases'
  BY DEF Typed, RequestPhases
<1>4. SeenIsStored' /\ ReadsHeld' /\ NotFoundMeansRead'
  BY DEF SeenIsStored, ReadsHeld, NotFoundMeansRead
<1>6. CallbacksExact' /\ AnsweredFinite'
  BY ExactUnchanged
<1>5. CallbacksCounted'
  BY <1>1, <1>2, <1>3, CountKept
<1> QED
  BY <1>1, <1>2, <1>3, <1>4, <1>5, <1>6

-----------------------------------------------------------------------------
\* Stuttering included, every step preserves the inductive invariant.
LEMMA NextIInv == IInv /\ [Next]_vars => IInv'
<1> SUFFICES ASSUME IInv, [Next]_vars PROVE IInv'
  OBVIOUS
<1>1. CASE UNCHANGED vars
  <2>1. CallbacksExact' /\ AnsweredFinite'
    BY <1>1, ExactUnchanged DEF vars, token, IInv
  <2>2. CallbacksCounted'
    BY <1>1 DEF vars, IInv, CallbacksCounted, Reported
  <2> QED
    BY <1>1, <2>1, <2>2 DEF vars, table, token, IInv, Typed, ReadOnce, RequestPhases,
       SeenIsStored, ReadsHeld, NotFoundMeansRead
<1>2. CASE Next
  <2>1. ASSUME NEW q \in Requests, NEW z \in Citizens,
               \/ Authenticate(q, z, {})
               \/ \E n \in Notes \cup {Malformed} : Authenticate(q, z, {n})
        PROVE  IInv'
    BY <2>1, AuthenticateStep
  <2> QED
    BY <1>2, <2>1, StoreStep, RefuseStep, MarkStep, MarkAllBeginStep, MarkAllStep,
       ScheduleStep, UpdateFailsStep, DieStep DEF Next
<1> QED
  BY <1>1, <1>2

\* The inductive invariant holds in every reachable state.
LEMMA IInvHolds == Spec => []IInv
BY InitIInv, NextIInv, PTL DEF Spec

\* read_at is set at most once, and the requests keep their shape.
THEOREM TypeCorrect == Spec => []TypeOK
<1>1. IInv => TypeOK
  <2> SUFFICES ASSUME IInv PROVE TypeOK
    OBVIOUS
  <2>1. ASSUME NEW n \in Notes PROVE Cardinality(readBy[n]) <= 1
    <3>1. CASE readBy[n] = {}
      BY <3>1, FS_EmptySet
    <3>2. ASSUME NEW q \in readBy[n] PROVE Cardinality(readBy[n]) <= 1
      <4>1. readBy[n] = {q}
        BY DEF IInv, ReadOnce
      <4>2. Cardinality(readBy[n]) = 1
        BY <4>1, FS_Singleton
      <4> QED
        BY <4>2
    <3> QED
      BY <3>1, <3>2
  <2> QED
    BY <2>1 DEF IInv, Typed, TypeOK
<1> QED
  BY <1>1, IInvHolds, PTL

\* The UPDATEs of PATCH one and PATCH all report a notification as read by one
\* request, of its owner.
THEOREM ReadOnceOnly == Spec => []ReadOnceByOwner
<1>1. IInv => ReadOnceByOwner
  BY DEF IInv, Typed, ReadOnce, RequestPhases, ReadOnceByOwner
<1> QED
  BY <1>1, IInvHolds, PTL

\* The chamados system hears of a chamado at most once per notification read.
THEOREM CallbacksAreBacked == Spec => []CallbacksBacked
<1>1. ASSUME IInv, NEW z \in Citizens, NEW ch \in Chamados
      PROVE  calls[z][ch] <= Cardinality({n \in Notes :
               Owner[n] = z /\ Chamado[n] = ch /\ readBy[n] # {}})
  <2> DEFINE D == {n \in Notes : Owner[n] = z /\ Chamado[n] = ch /\ readBy[n] # {}}
  <2>1. D \subseteq stored
    BY <1>1 DEF IInv, ReadOnce
  <2>2. IsFiniteSet(D) /\ Cardinality(D) \in Nat
    BY <1>1, <2>1, PartCounts DEF IInv, ReadOnce
  <2>3. Reported(z, ch) \subseteq D
    BY <1>1 DEF IInv, RequestPhases, Reported
  <2>4. Cardinality(Reported(z, ch)) \in Nat /\ Cardinality(Reported(z, ch)) <= Cardinality(D)
    BY <2>2, <2>3, PartCounts
  <2>5. calls[z][ch] \in Nat /\ calls[z][ch] <= Cardinality(Reported(z, ch))
    BY <1>1 DEF IInv, Typed, CallbacksCounted
  <2> QED
    BY <2>2, <2>4, <2>5
<1>2. IInv => CallbacksBacked
  BY <1>1 DEF CallbacksBacked
<1> QED
  BY <1>2, IInvHolds, PTL

\* The PATCH handlers lose no read in silence: a row that is read was returned
\* to its request or the request was answered 500, and the callbacks started
\* are, with a client, exactly one per answered request and chamado.
THEOREM ReadsAreReported == Spec => []CallbacksMatchAnswers
<1>1. IInv => CallbacksMatchAnswers
  BY DEF IInv, ReadsHeld, CallbacksExact, CallbacksMatchAnswers
<1> QED
  BY <1>1, IInvHolds, PTL

\* To the owner, 404 of PATCH /:id/read on a notification that was there means
\* that it is read.
THEOREM NotFoundIsRead == Spec => []NotFoundMeansRead
<1>1. IInv => NotFoundMeansRead
  BY DEF IInv
<1> QED
  BY <1>1, IInvHolds, PTL
==============================================================================

--------------------------- MODULE PaginationProofs ---------------------------
(***************************************************************************)
(* Proofs about Pagination for any notifications, instants, limits and     *)
(* offsets.  Two facts about the order of the list carry them: insertions  *)
(* never lower a rank, and ranks have no gap, so that an empty page has    *)
(* nothing behind it.                                                      *)
(***************************************************************************)
EXTENDS Pagination, FiniteSetTheorems, WellFoundedInduction, TLAPS

\* Nothing is seen before the walk begins.
NothingYet == pc = "out" => items = {} /\ got = {} /\ atStart = {}

\* An empty page leaves nothing unseen.
EmptyPageIsLast == pc = "answered" /\ items = {} => atStart \subseteq got

IInv ==
  /\ TypeOK
  /\ NothingYet
  /\ UnseenIsAhead
  /\ EmptyPageIsLast
  /\ WalkMissesNothing

\* The rows in front of n, and its rank, in a table with the rows S.
Front(S, n) == {m \in S : Before(m, n)}
RankIn(S, n) == Cardinality(Front(S, n))

-----------------------------------------------------------------------------
\* A set of natural numbers has a least one.
LEMMA Least ==
  ASSUME NEW A, A \subseteq Nat, A # {}
  PROVE  \E a \in A : \A b \in A : a <= b
<1>1. PICK a \in A : \A b \in A : ~(<<b, a>> \in OpToRel(<, Nat))
  BY NatLessThanWellFounded, WFMin
<1>2. \A b \in A : ~(b < a)
  <2> SUFFICES ASSUME NEW b \in A, b < a PROVE <<b, a>> \in OpToRel(<, Nat)
    BY <1>1, Zenon
  <2>1. b \in Nat /\ a \in Nat
    OBVIOUS
  <2>2. <<b, a>> \in Nat \X Nat /\ <<b, a>>[1] < <<b, a>>[2]
    BY <2>1
  <2> QED
    BY <2>2, Zenon DEF OpToRel
<1>3. \A b \in A : a <= b
  BY <1>2
<1> QED
  BY <1>3

\* created_at and the id order the rows: strictly, and any two of them.
LEMMA BeforeOrders ==
  /\ \A m \in Notes : ~Before(m, m)
  /\ \A l, m, n \in Notes : Before(l, m) /\ Before(m, n) => Before(l, n)
  /\ \A m, n \in Notes : m = n \/ Before(m, n) \/ Before(n, m)
<1>1. \A n \in Notes : n \in Nat /\ CreatedAt[n] \in Nat
  BY PaginationAssumption DEF PaginationAssumption
<1> QED
  BY <1>1 DEF Before

\* A rank is a natural number.
LEMMA RankType ==
  ASSUME NEW S \in SUBSET Notes, NEW n \in Notes
  PROVE  IsFiniteSet(Front(S, n)) /\ RankIn(S, n) \in Nat
<1>1. Front(S, n) \in SUBSET Notes
  BY DEF Front
<1> QED
  BY <1>1, FS_Subset, FS_CardinalityType, PaginationAssumption
  DEF PaginationAssumption, RankIn

\* New rows never lower the rank of another.
LEMMA RankGrows ==
  ASSUME NEW S \in SUBSET Notes, NEW T \in SUBSET S, NEW n \in Notes
  PROVE  RankIn(T, n) <= RankIn(S, n)
<1>1. Front(T, n) \in SUBSET Front(S, n)
  BY DEF Front
<1>2. IsFiniteSet(Front(S, n))
  BY RankType
<1> QED
  BY <1>1, <1>2, FS_Subset DEF RankIn

\* The row in front has the lower rank.
LEMMA RankOrders ==
  ASSUME NEW S \in SUBSET Notes, NEW m \in S, NEW n \in S, Before(m, n)
  PROVE  RankIn(S, m) < RankIn(S, n)
<1>1. Front(S, m) \in SUBSET (Front(S, n) \ {m})
  BY BeforeOrders DEF Front
<1>2. m \in Front(S, n) /\ IsFiniteSet(Front(S, n))
  BY RankType DEF Front
<1>3. /\ IsFiniteSet(Front(S, n) \ {m})
      /\ Cardinality(Front(S, n) \ {m}) = Cardinality(Front(S, n)) - 1
  BY <1>2, FS_RemoveElement
<1>4. Cardinality(Front(S, m)) <= Cardinality(Front(S, n) \ {m})
  BY <1>1, <1>3, FS_Subset
<1>5. RankIn(S, m) \in Nat /\ RankIn(S, n) \in Nat
  BY RankType
<1> QED
  BY <1>3, <1>4, <1>5 DEF RankIn

\* Ranks have no gap: below the rank of a row every rank is taken.
LEMMA NoGap ==
  ASSUME NEW S \in SUBSET Notes, NEW n \in S, NEW o \in Nat, RankIn(S, n) >= o
  PROVE  \E k \in S : RankIn(S, k) = o
<1>1. PICK k \in S : /\ RankIn(S, k) >= o
                     /\ \A j \in S : RankIn(S, j) >= o => RankIn(S, k) <= RankIn(S, j)
  <2> DEFINE A == {RankIn(S, j) : j \in {i \in S : RankIn(S, i) >= o}}
  <2>1. A \subseteq Nat /\ A # {}
    BY RankType
  <2>2. PICK a \in A : \A b \in A : a <= b
    BY <2>1, Least
  <2> QED
    BY <2>2
<1>2. \A j \in S : RankIn(S, j) \in Nat
  BY RankType
<1>3. CASE Front(S, k) = {}
  <2>1. RankIn(S, k) = 0
    BY <1>3, FS_EmptySet DEF RankIn
  <2> QED
    BY <1>1, <2>1
<1>4. CASE Front(S, k) # {}
  <2>1. \A j \in Front(S, k) : j \in S /\ RankIn(S, j) < o
    BY <1>1, <1>2, RankOrders DEF Front
  <2>2. PICK m \in Front(S, k) : \A j \in Front(S, k) : RankIn(S, j) <= RankIn(S, m)
    <3> DEFINE A == {o - RankIn(S, j) : j \in Front(S, k)}
    <3>1. A \subseteq Nat /\ A # {}
      BY <1>2, <1>4, <2>1
    <3>2. PICK a \in A : \A b \in A : a <= b
      BY <3>1, Least
    <3>3. PICK m \in Front(S, k) : a = o - RankIn(S, m)
      BY <3>2
    <3>4. \A j \in Front(S, k) : o - RankIn(S, m) <= o - RankIn(S, j)
      BY <3>2, <3>3
    <3> QED
      BY <1>2, <2>1, <3>4
  <2>3. m \in S /\ RankIn(S, m) < o /\ Before(m, k)
    BY <2>1, <2>2 DEF Front
  <2>4. Front(S, k) = Front(S, m) \cup {m}
    <3>1. ASSUME NEW j \in Front(S, k), j # m PROVE j \in Front(S, m)
      <4>1. j \in S /\ ~(RankIn(S, m) < RankIn(S, j))
        BY <1>2, <2>1, <2>2, <2>3
      <4>2. ~Before(m, j)
        BY <2>3, <4>1, RankOrders
      <4> QED
        BY <2>3, <3>1, <4>1, <4>2, BeforeOrders DEF Front
    <3>2. ASSUME NEW j \in Front(S, m) PROVE j \in Front(S, k)
      BY <2>3, BeforeOrders DEF Front
    <3> QED
      BY <2>2, <3>1, <3>2
  <2>5. m \notin Front(S, m) /\ IsFiniteSet(Front(S, m))
    BY <2>3, BeforeOrders, RankType DEF Front
  <2>6. RankIn(S, k) = RankIn(S, m) + 1
    BY <2>4, <2>5, FS_AddElement DEF RankIn
  <2> QED
    BY <1>1, <1>2, <2>3, <2>6
<1> QED
  BY <1>3, <1>4

\* A page of the list holds no more rows than the limit.
LEMMA PageSize ==
  ASSUME NEW S \in SUBSET Notes, NEW o \in Nat, NEW l \in Nat
  PROVE  LET W == {n \in S : RankIn(S, n) >= o /\ RankIn(S, n) < o + l}
         IN  Cardinality(W) <= l
<1> DEFINE W == {n \in S : RankIn(S, n) >= o /\ RankIn(S, n) < o + l}
           f == [n \in W |-> RankIn(S, n)]
<1>1. \A n \in W : RankIn(S, n) \in o .. o + l - 1
  BY RankType
<1>2. \A m, n \in W : RankIn(S, m) = RankIn(S, n) => m = n
  <2> SUFFICES ASSUME NEW m \in W, NEW n \in W, RankIn(S, m) = RankIn(S, n), m # n
               PROVE  FALSE
    OBVIOUS
  <2>1. RankIn(S, m) < RankIn(S, n) \/ RankIn(S, n) < RankIn(S, m)
    BY BeforeOrders, RankOrders
  <2> QED
    BY <2>1, RankType
<1>3. f \in Injection(W, o .. o + l - 1)
  BY <1>1, <1>2 DEF Injection, IsInjective
<1>4. IsFiniteSet(o .. o + l - 1) /\ Cardinality(o .. o + l - 1) = l
  <2>1. o \in Int /\ o + l - 1 \in Int
    OBVIOUS
  <2>2. /\ IsFiniteSet(o .. o + l - 1)
        /\ Cardinality(o .. o + l - 1) = IF o > o + l - 1 THEN 0 ELSE o + l - 1 - o + 1
    BY <2>1, FS_Interval
  <2> QED
    BY <2>2
<1> HIDE DEF W, f
<1>5. Cardinality(W) <= Cardinality(o .. o + l - 1)
  BY <1>3, <1>4, FS_Injection
<1> QED
  BY <1>4, <1>5 DEF W

\* The limit and the offset that parsePagination lets through.
LEMMA ParsedInRange ==
  ASSUME NEW p \in Params(Limits), NEW o \in Params(Offsets),
         LimitAccepted(p), OffsetAccepted(o)
  PROVE  LimitInForce(p) \in 1 .. MaxLimit /\ OffsetInForce(o) \in Nat
<1> USE PaginationAssumption DEF PaginationAssumption
<1>1. LimitInForce(p) \in 1 .. MaxLimit
  <2>1. CASE p.kind = "absent"
    BY <2>1 DEF LimitInForce
  <2>2. CASE p.kind # "absent"
    <3>1. p.kind = "int" /\ p.value >= 1
      BY <2>2 DEF LimitAccepted
    <3>2. p.value \in Int
      BY <3>1 DEF Params
    <3> QED
      BY <2>2, <3>1, <3>2 DEF LimitInForce
  <2> QED
    BY <2>1, <2>2
<1>2. OffsetInForce(o) \in Nat
  <2>1. CASE o.kind = "absent"
    BY <2>1 DEF OffsetInForce
  <2>2. CASE o.kind # "absent"
    <3>1. o.kind = "int" /\ o.value >= 0
      BY <2>2 DEF OffsetAccepted
    <3>2. o.value \in Int
      BY <3>1 DEF Params
    <3> QED
      BY <2>2, <3>1, <3>2 DEF OffsetInForce
  <2> QED
    BY <2>1, <2>2
<1> QED
  BY <1>1, <1>2

-----------------------------------------------------------------------------
\* The empty list satisfies the inductive invariant.
LEMMA InitIInv == Init => IInv
<1> SUFFICES ASSUME Init PROVE IInv
  OBVIOUS
<1> USE PaginationAssumption DEF PaginationAssumption, Init
<1>1. TypeOK
  BY FS_EmptySet DEF TypeOK
<1> QED
  BY <1>1 DEF IInv, NothingYet, UnseenIsAhead, EmptyPageIsLast, WalkMissesNothing

\* A new row pushes others to later pages, never to earlier ones.
LEMMA InsertStep ==
  ASSUME IInv, NEW n \in Notes, Insert(n) PROVE IInv'
<1> USE DEF IInv, Insert
<1>1. TypeOK'
  BY DEF TypeOK
<1>2. UnseenIsAhead'
  <2> SUFFICES ASSUME NEW m \in atStart \ got
               PROVE  Rank(m)' >= IF pc = "answered" THEN offset + limit ELSE offset
    BY DEF UnseenIsAhead
  <2>1. /\ m \in Notes /\ stored \in SUBSET stored' /\ stored' \in SUBSET Notes
        /\ offset \in Int /\ limit \in Int
    BY PaginationAssumption DEF PaginationAssumption, TypeOK
  <2>2. RankIn(stored, m) <= RankIn(stored', m)
    BY <2>1, RankGrows
  <2>3. RankIn(stored, m) \in Nat /\ RankIn(stored', m) \in Nat
    BY <2>1, RankType
  <2>4. Rank(m) = RankIn(stored, m) /\ Rank(m)' = RankIn(stored', m)
    BY DEF Rank, RankIn, Front
  <2>5. Rank(m) >= IF pc = "answered" THEN offset + limit ELSE offset
    BY DEF UnseenIsAhead
  <2> QED
    BY <2>1, <2>2, <2>3, <2>4, <2>5
<1>3. NothingYet' /\ EmptyPageIsLast' /\ WalkMissesNothing'
  BY DEF NothingYet, EmptyPageIsLast, WalkMissesNothing
<1> QED
  BY <1>1, <1>2, <1>3

\* The walk starts with the rows at its first offset and behind it, all of
\* them ahead; a request that is turned down starts none.
LEMMA StartWalkStep ==
  ASSUME IInv, StartWalk PROVE IInv'
<1>1. /\ pc = "out" /\ atStart' = {n \in stored : Rank(n) >= offset'}
      /\ UNCHANGED <<stored, total, items, got>>
  BY DEF StartWalk
<1>2. PICK p \in Params(Limits), o \in Params(Offsets) : parsePagination(p, o)
  BY DEF StartWalk
<1>3. \/ pc' = "asking" /\ limit' \in 1 .. MaxLimit /\ offset' \in Nat
      \/ pc' = "rejected" /\ limit' = limit /\ offset' = offset
  <2>1. CASE LimitAccepted(p) /\ OffsetAccepted(o)
    <3>1. pc' = "asking" /\ limit' = LimitInForce(p) /\ offset' = OffsetInForce(o)
      BY <1>2, <2>1 DEF parsePagination, Ask
    <3> QED
      BY <2>1, <3>1, ParsedInRange
  <2>2. CASE ~(LimitAccepted(p) /\ OffsetAccepted(o))
    BY <1>2, <2>2 DEF parsePagination, Reject
  <2> QED
    BY <2>1, <2>2
<1>4. items = {} /\ got = {}
  BY <1>1 DEF IInv, NothingYet
<1>5. TypeOK'
  <2>1. limit' \in 0 .. MaxLimit /\ offset' \in Nat
    BY <1>3, PaginationAssumption DEF PaginationAssumption, IInv, TypeOK
  <2>2. Cardinality(items') <= limit'
    BY <1>1, <1>4, <2>1, FS_EmptySet, PaginationAssumption DEF PaginationAssumption
  <2> QED
    BY <1>1, <1>3, <2>1, <2>2, PaginationAssumption DEF PaginationAssumption, IInv, TypeOK
<1>6. UnseenIsAhead'
  <2>1. \A n : Rank(n)' = Rank(n)
    BY <1>1 DEF Rank
  <2> QED
    BY <1>1, <1>3, <2>1 DEF UnseenIsAhead
<1>7. NothingYet' /\ EmptyPageIsLast' /\ WalkMissesNothing'
  BY <1>3 DEF NothingYet, EmptyPageIsLast, WalkMissesNothing
<1> QED
  BY <1>5, <1>6, <1>7 DEF IInv

\* A page shows what is left of the walk's rows between its two ends; if it
\* is empty, nothing is left.
LEMMA PageStep ==
  ASSUME IInv, Page PROVE IInv'
<1>1. /\ pc = "counted" /\ pc' = "answered" /\ items' = Window /\ got' = got \cup Window
      /\ UNCHANGED <<stored, limit, offset, total, atStart>>
  BY DEF Page
<1>2. /\ stored \in SUBSET Notes /\ offset \in Nat /\ limit \in Nat /\ limit > 0
      /\ atStart \subseteq stored
  BY <1>1, PaginationAssumption DEF PaginationAssumption, IInv, TypeOK
<1>3. \A n \in stored : Rank(n) = RankIn(stored, n) /\ Rank(n) \in Nat
  BY <1>2, RankType DEF Rank, RankIn, Front
<1>4. TypeOK'
  <2>1. Window = {n \in stored : RankIn(stored, n) >= offset
                                   /\ RankIn(stored, n) < offset + limit}
    BY <1>3 DEF Window
  <2>2. Cardinality(Window) <= limit
    BY <1>2, <2>1, PageSize
  <2>3. Window \subseteq stored
    BY DEF Window
  <2> QED
    BY <1>1, <2>2, <2>3 DEF IInv, TypeOK
<1>5. \A n \in atStart \ got' : Rank(n) >= offset + limit
  <2> SUFFICES ASSUME NEW n \in atStart \ got' PROVE Rank(n) >= offset + limit
    OBVIOUS
  <2>1. n \in stored /\ n \notin Window /\ n \in atStart \ got
    BY <1>1, <1>2
  <2>2. Rank(n) >= offset
    BY <1>1, <2>1 DEF IInv, UnseenIsAhead
  <2> QED
    BY <1>2, <1>3, <2>1, <2>2 DEF Window
<1>6. UnseenIsAhead'
  <2>1. \A n : Rank(n)' = Rank(n)
    BY <1>1 DEF Rank
  <2> QED
    BY <1>1, <1>5, <2>1 DEF UnseenIsAhead
<1>7. EmptyPageIsLast'
  <2> SUFFICES ASSUME Window = {}, NEW n \in atStart, n \notin got' PROVE FALSE
    BY <1>1 DEF EmptyPageIsLast
  <2>1. n \in stored /\ RankIn(stored, n) >= offset
    BY <1>2, <1>3, <1>5
  <2>2. PICK k \in stored : RankIn(stored, k) = offset
    BY <1>2, <2>1, NoGap
  <2> QED
    BY <1>2, <1>3, <2>2 DEF Window
<1>8. NothingYet' /\ WalkMissesNothing'
  BY <1>1 DEF NothingYet, WalkMissesNothing
<1> QED
  BY <1>4, <1>6, <1>7, <1>8 DEF IInv

\* The client's other steps change neither the rows nor what it has seen.
LEMMA ClientStep ==
  ASSUME IInv, UnknownCitizen \/ Count \/ ListFails \/ NextPage \/ EndWalk
  PROVE  IInv'
<1>1. UNCHANGED <<stored, limit, got, atStart>>
  BY DEF UnknownCitizen, Count, ListFails, NextPage, EndWalk
<1>2. \A n : Rank(n)' = Rank(n)
  BY <1>1 DEF Rank
<1>3. /\ stored \subseteq Notes /\ atStart \subseteq stored
      /\ offset \in Nat /\ limit \in Nat
      /\ \A n \in stored : Rank(n) \in Nat
  <2>1. stored \in SUBSET Notes
    BY DEF IInv, TypeOK
  <2>2. \A n \in stored : Rank(n) \in Nat
    BY <2>1, RankType DEF Rank, RankIn, Front
  <2> QED
    BY <2>1, <2>2, PaginationAssumption DEF PaginationAssumption, IInv, TypeOK
<1>4. CASE UnknownCitizen
  <2>1. /\ atStart = {} /\ pc' = "answered" /\ items' = {} /\ total' = 0
        /\ pc = "asking" /\ offset' = offset
    BY <1>3, <1>4 DEF UnknownCitizen
  <2>2. TypeOK'
    BY <1>1, <1>3, <2>1, FS_EmptySet DEF IInv, TypeOK
  <2> QED
    BY <1>1, <2>1, <2>2
    DEF IInv, NothingYet, UnseenIsAhead, EmptyPageIsLast, WalkMissesNothing
<1>5. CASE Count
  <2>1. pc = "asking" /\ pc' = "counted" /\ UNCHANGED <<items, offset>>
    BY <1>5 DEF Count
  <2>2. total' \in Nat
    <3>1. IsFiniteSet(stored)
      BY <1>3, FS_Subset, PaginationAssumption DEF PaginationAssumption
    <3> QED
      BY <1>5, <3>1, FS_CardinalityType DEF Count
  <2>3. TypeOK'
    BY <1>1, <2>1, <2>2 DEF IInv, TypeOK
  <2> QED
    BY <1>1, <1>2, <2>1, <2>3
    DEF IInv, NothingYet, UnseenIsAhead, EmptyPageIsLast, WalkMissesNothing
<1>6. CASE ListFails
  <2>1. pc = "counted" /\ pc' = "asking" /\ UNCHANGED <<items, offset, total>>
    BY <1>6 DEF ListFails
  <2>2. TypeOK'
    BY <1>1, <2>1 DEF IInv, TypeOK
  <2> QED
    BY <1>1, <1>2, <2>1, <2>2
    DEF IInv, NothingYet, UnseenIsAhead, EmptyPageIsLast, WalkMissesNothing
<1>7. CASE NextPage
  <2>1. /\ pc = "answered" /\ pc' = "asking" /\ UNCHANGED <<items, total>>
        /\ offset' = offset + limit
    BY <1>7 DEF NextPage
  <2>2. TypeOK'
    BY <1>1, <1>3, <2>1 DEF IInv, TypeOK
  <2> QED
    BY <1>1, <1>2, <2>1, <2>2
    DEF IInv, NothingYet, UnseenIsAhead, EmptyPageIsLast, WalkMissesNothing
<1>8. CASE EndWalk
  <2>1. /\ pc = "answered" /\ items = {} /\ pc' = "done"
        /\ UNCHANGED <<items, offset, total>>
    BY <1>8 DEF EndWalk
  <2>2. TypeOK'
    BY <1>1, <2>1 DEF IInv, TypeOK
  <2>3. atStart \subseteq got
    BY <2>1 DEF IInv, EmptyPageIsLast
  <2> QED
    BY <1>1, <2>1, <2>2, <2>3
    DEF IInv, NothingYet, UnseenIsAhead, EmptyPageIsLast, WalkMissesNothing
<1> QED
  BY <1>4, <1>5, <1>6, <1>7, <1>8

\* Every step of the client and of the webhook keeps the inductive invariant.
LEMMA NextIInv == IInv /\ [Next]_vars => IInv'
<1> SUFFICES ASSUME IInv, [Next]_vars PROVE IInv'
  OBVIOUS
<1>1. CASE UNCHANGED vars
  BY <1>1 DEF vars, IInv, TypeOK, NothingYet, UnseenIsAhead, Rank, EmptyPageIsLast,
              WalkMissesNothing
<1>2. CASE Next
  BY <1>2, InsertStep, StartWalkStep, PageStep, ClientStep DEF Next
<1> QED
  BY <1>1, <1>2

\* The inductive invariant holds in every reachable state.
LEMMA IInvHolds == Spec => []IInv
BY InitIInv, NextIInv, PTL DEF Spec

-----------------------------------------------------------------------------
\* Type correctness of the list's answers: the limit in force is between 1
\* and the maximum, and no page is larger.
THEOREM TypeCorrect == Spec => []TypeOK
<1>1. IInv => TypeOK
  BY DEF IInv
<1> QED
  BY <1>1, IInvHolds, PTL

\* ListNotificationsByCitizen never moves a row that the walk has still to
\* see behind it, however created_at and the commits are ordered.
THEOREM UnseenStaysAhead == Spec => []UnseenIsAhead
<1>1. IInv => UnseenIsAhead
  BY DEF IInv
<1> QED
  BY <1>1, IInvHolds, PTL

\* A client that follows GET /notifications until a page is empty has seen
\* every row that stood at its first offset or behind it when it began.
THEOREM WalkIsComplete == Spec => []WalkMissesNothing
<1>1. IInv => WalkMissesNothing
  BY DEF IInv
<1> QED
  BY <1>1, IInvHolds, PTL
===============================================================================

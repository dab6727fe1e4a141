----------------------------- MODULE Pagination -----------------------------
(***************************************************************************)
(* GET /notifications (internal/httpapi/notifications.go,                  *)
(* internal/repo/notifications.go): limit and offset as parsed, the COUNT  *)
(* and the page that two separate statements read, and a client that walks *)
(* through one citizen's list while the webhook keeps adding to it.        *)
(***************************************************************************)
EXTENDS Integers, FiniteSets

CONSTANTS
  Notes,         \* ids of one citizen's notifications
  CreatedAt,     \* CreatedAt[n]: created_at, which is when n's transaction began
  Limits,        \* integers a client may send as limit
  Offsets,       \* integers a client may send as offset
  DefaultLimit,  \* defaultNotifLimit
  MaxLimit       \* maxNotifLimit

ASSUME PaginationAssumption ==
  /\ Notes \subseteq Nat /\ IsFiniteSet(Notes)
  /\ CreatedAt \in [Notes -> Nat]
  /\ Limits \subseteq Int /\ Offsets \subseteq Int
  /\ DefaultLimit \in 1 .. MaxLimit
  /\ MaxLimit \in Nat

VARIABLES
  stored,    \* committed notifications
  pc,        \* the client: out, asking, counted, answered, rejected or done
  limit,     \* the limit in force, as the response reports it
  offset,    \* the offset asked for
  total,     \* the total of the response
  items,     \* the items of the response
  got,       \* notifications the walk has seen
  atStart    \* notifications from the first offset on, when the walk began
             \*   (history)

vars == <<stored, pc, limit, offset, total, items, got, atStart>>

Init ==
  /\ stored = {}
  /\ pc = "out"
  /\ limit = 0 /\ offset = 0 /\ total = 0
  /\ items = {} /\ got = {} /\ atStart = {}

-----------------------------------------------------------------------------
\* The webhook commits a notification; commits may come out of created_at order.
Insert(n) ==
  /\ n \notin stored
  /\ stored' = stored \cup {n}
  /\ UNCHANGED <<pc, limit, offset, total, items, got, atStart>>

\* A query parameter as received: absent, not a number, or an integer.
Params(values) == {[kind |-> "absent"], [kind |-> "garbage"]}
                    \cup {[kind |-> "int", value |-> v] : v \in values}

OffsetAccepted(o) == o.kind = "absent" \/ (o.kind = "int" /\ o.value >= 0)

OffsetInForce(o) == IF o.kind = "absent" THEN 0 ELSE o.value

LimitAccepted(p) == p.kind = "absent" \/ (p.kind = "int" /\ p.value >= 1)

\* Mutant: zero slips through.
LimitAcceptedZero(p) == p.kind = "absent" \/ (p.kind = "int" /\ p.value >= 0)

LimitInForce(p) ==
  IF p.kind = "absent" THEN DefaultLimit
  ELSE IF p.value > MaxLimit THEN MaxLimit ELSE p.value

\* Both parameters are good: the query that they ask for.
Ask(newLimit, newOffset) ==
  /\ limit' = newLimit
  /\ offset' = newOffset
  /\ pc' = "asking"

Reject == pc' = "rejected" /\ UNCHANGED <<limit, offset>>

\* Mutant: limit=0 is accepted.
parsePaginationZero(p, o) ==
  IF LimitAcceptedZero(p) /\ OffsetAccepted(o)
  THEN Ask(LimitInForce(p), OffsetInForce(o))
  ELSE Reject

\* parsePagination: 400 on a limit that is no number or below 1 and on an
\* offset that is no number or negative; a large limit is clamped.
parsePagination(p, o) ==
  IF LimitAccepted(p) /\ OffsetAccepted(o)
  THEN Ask(LimitInForce(p), OffsetInForce(o))
  ELSE Reject

\* ORDER BY created_at DESC, id DESC.
Before(m, n) ==
  CreatedAt[m] > CreatedAt[n] \/ (CreatedAt[m] = CreatedAt[n] /\ m > n)

Rank(n) == Cardinality({m \in stored : Before(m, n)})

\* The client asks for the first page.
StartWalk ==
  /\ pc = "out"
  /\ \E p \in Params(Limits), o \in Params(Offsets) : parsePagination(p, o)
  /\ atStart' = {n \in stored : Rank(n) >= offset'}
  /\ UNCHANGED <<stored, total, items, got>>

\* The citizen has no row before the first notification: an empty list.
UnknownCitizen ==
  /\ pc = "asking"
  /\ stored = {}
  /\ total' = 0
  /\ items' = {}
  /\ pc' = "answered"
  /\ UNCHANGED <<stored, limit, offset, got, atStart>>

\* ListNotificationsByCitizen's first statement.
Count ==
  /\ pc = "asking"
  /\ total' = Cardinality(stored)
  /\ pc' = "counted"
  /\ UNCHANGED <<stored, limit, offset, items, got, atStart>>

\* LIMIT and OFFSET over that order.
Window == {n \in stored : Rank(n) >= offset /\ Rank(n) < offset + limit}

\* Mutant: ORDER BY created_at only; rows of one instant come in any order.
PageUntied ==
  /\ pc = "counted"
  /\ \E W \in SUBSET stored :
       /\ Cardinality(W) = Cardinality(Window)
       /\ {CreatedAt[n] : n \in W} = {CreatedAt[n] : n \in Window}
       /\ items' = W
  /\ got' = got \cup items'
  /\ pc' = "answered"
  /\ UNCHANGED <<stored, limit, offset, total, atStart>>

\* Its second statement, on whatever is stored by then.
Page ==
  /\ pc = "counted"
  /\ items' = Window
  /\ got' = got \cup items'
  /\ pc' = "answered"
  /\ UNCHANGED <<stored, limit, offset, total, atStart>>

\* A statement fails: 500, and the client asks for the same page again.
ListFails ==
  /\ pc = "counted"
  /\ pc' = "asking"
  /\ UNCHANGED <<stored, limit, offset, total, items, got, atStart>>

\* The client goes on behind the limit the response reported.
NextPage ==
  /\ pc = "answered"
  /\ items # {}
  /\ offset' = offset + limit
  /\ pc' = "asking"
  /\ UNCHANGED <<stored, limit, total, items, got, atStart>>

\* An empty page ends the walk.
EndWalk ==
  /\ pc = "answered"
  /\ items = {}
  /\ pc' = "done"
  /\ UNCHANGED <<stored, limit, offset, total, items, got, atStart>>

Next ==
  \/ \E n \in Notes : Insert(n)
  \/ StartWalk \/ UnknownCitizen \/ Count \/ Page \/ ListFails \/ NextPage \/ EndWalk

Spec == Init /\ [][Next]_vars

-----------------------------------------------------------------------------
\* Type invariant; a page is never larger than the limit in force, which is
\* between 1 and the maximum.
TypeOK ==
  /\ stored \subseteq Notes
  /\ pc \in {"out", "asking", "counted", "answered", "rejected", "done"}
  /\ limit \in 0 .. MaxLimit
  /\ pc \in {"asking", "counted", "answered", "done"} => limit > 0
  /\ offset \in Nat /\ total \in Nat
  /\ items \subseteq stored /\ got \subseteq stored /\ atStart \subseteq stored
  /\ Cardinality(items) <= limit

\* What the walk has not seen of the rows it started with is still ahead of
\* it: insertions push rows towards later pages, never to earlier ones.
UnseenIsAhead ==
  \A n \in atStart \ got :
    Rank(n) >= IF pc = "answered" THEN offset + limit ELSE offset

\* A walk that ends has seen every notification that stood at its first offset
\* or behind it when it began, though rows were inserted meanwhile, in any
\* created_at order.
WalkMissesNothing == pc = "done" => atStart \subseteq got
=============================================================================

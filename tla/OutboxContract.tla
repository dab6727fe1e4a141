--------------------------- MODULE OutboxContract ---------------------------
(***************************************************************************)
(* What the transactional outbox promises to whoever reads the citizens'   *)
(* Redis channels, with neither workers nor transactions: a row is         *)
(* enqueued once, copies of it appear only while it is pending, it becomes *)
(* sent only if at least one copy appeared, and sent and dead are final.   *)
(* Outbox.tla is shown to implement this specification.                    *)
(***************************************************************************)
EXTENDS Naturals

CONSTANTS
  Rows,
  PerAttempt   \* messages one attempt may put on the channel

VARIABLES
  state,    \* state[r]: absent, pending, sent or dead
  copies    \* copies[r]: messages sent out for row r so far

vars == <<state, copies>>

Init ==
  /\ state = [r \in Rows |-> "absent"]
  /\ copies = [r \in Rows |-> 0]

Enqueue(r) ==
  /\ state[r] = "absent"
  /\ state' = [state EXCEPT ![r] = "pending"]
  /\ UNCHANGED copies

\* The messages one attempt puts on the channel.
Publish(r) ==
  /\ state[r] = "pending"
  /\ \E n \in 1 .. PerAttempt : copies' = [copies EXCEPT ![r] = @ + n]
  /\ UNCHANGED state

\* Several rows settle in one step: they were marked in one transaction.
Settle(sent, dead) ==
  /\ \A r \in sent \cup dead : state[r] = "pending"
  /\ \A r \in sent : copies[r] > 0
  /\ state' = [r \in Rows |-> IF r \in sent THEN "sent"
                              ELSE IF r \in dead THEN "dead" ELSE state[r]]
  /\ UNCHANGED copies

Next ==
  \/ \E r \in Rows : Enqueue(r) \/ Publish(r)
  \/ \E sent, dead \in SUBSET Rows : Settle(sent, dead)

Spec == Init /\ [][Next]_vars
=============================================================================

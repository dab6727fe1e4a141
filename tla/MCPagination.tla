---------------------------- MODULE MCPagination ----------------------------
(***************************************************************************)
(* An instance of Pagination for TLC.                                      *)
(***************************************************************************)
EXTENDS Pagination

\* Notifications 2 and 3 were created at the same instant.
TiedInstants == [n \in Notes |-> IF n = 3 THEN 2 ELSE n]

\* Both sides of both boundaries.
SomeLimits == -1 .. 3
SomeOffsets == -1 .. 1
=============================================================================

------------------------------ MODULE MCDelivery ------------------------------
(***************************************************************************)
(* Instance of Delivery for TLC: a connection in one of two processes, a   *)
(* row of its citizen and a row of another.  Processes share nothing but   *)
(* Redis, so the properties of one connection speak for all.               *)
(***************************************************************************)
EXTENDS Delivery

CONSTANTS p1, p2

RowOwner == <<"ana", "bia">>
HomeOf == <<p1>>
CitizenOf == <<"ana">>
=============================================================================

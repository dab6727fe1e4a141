------------------------------ MODULE MCOutbox ------------------------------
(***************************************************************************)
(* Instance of Outbox for TLC: MCOutbox.cfg gives the constants.  Workers  *)
(* are interchangeable, but the run checks liveness and takes no symmetry. *)
(***************************************************************************)
EXTENDS Outbox
=============================================================================

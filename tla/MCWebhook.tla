------------------------------ MODULE MCWebhook ------------------------------
(***************************************************************************)
(* Instances of Webhook for TLC.                                           *)
(***************************************************************************)
EXTENDS Webhook

\* Two events of one citizen, and a third that shares the first one's key but
\* concerns another citizen.
ThreeEvents ==
  {[about |-> "opened", cpf |-> "ana", text |-> "x"],
   [about |-> "closed", cpf |-> "ana", text |-> "x"],
   [about |-> "opened", cpf |-> "bia", text |-> "x"]}

\* Events of two citizens that share a key.
TwoEvents ==
  {[about |-> "opened", cpf |-> "ana", text |-> "x"],
   [about |-> "opened", cpf |-> "bia", text |-> "x"]}
=============================================================================

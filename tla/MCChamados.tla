----------------------------- MODULE MCChamados -----------------------------
(***************************************************************************)
(* Instance of Chamados for TLC: two citizens with a chamado each.         *)
(***************************************************************************)
EXTENDS Chamados

OneEach == {<<"ana", "x">>, <<"bia", "y">>}
=============================================================================

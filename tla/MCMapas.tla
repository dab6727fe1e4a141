------------------------------- MODULE MCMapas -------------------------------
(***************************************************************************)
(* Instance of Mapas for TLC, with the code's defaults in ticks of 5 s.    *)
(***************************************************************************)
EXTENDS Mapas

ASSUME MapasAssumption == MapasSettings
=============================================================================

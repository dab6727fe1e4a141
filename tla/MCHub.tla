-------------------------------- MODULE MCHub --------------------------------
(***************************************************************************)
(* Instances of Hub for TLC.  Clients of one citizen are interchangeable.  *)
(***************************************************************************)
EXTENDS Hub, TLC

CONSTANTS c1, c2, ana

\* Two connections of one citizen.
TwoOfOne == (c1 :> ana) @@ (c2 :> ana)

\* A single connection.
OnlyAna == c1 :> ana

ClientSymmetry == Permutations({c1, c2})
=============================================================================

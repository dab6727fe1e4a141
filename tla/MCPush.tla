-------------------------------- MODULE MCPush --------------------------------
(***************************************************************************)
(* Instance of Push for TLC: a citizen with three devices, one of which    *)
(* another citizen uses too.                                               *)
(***************************************************************************)
EXTENDS Push, TLC

CONSTANTS ana, bia, shared, t2, t3

SharedDevice == {<<ana, shared>>, <<ana, t2>>, <<ana, t3>>, <<bia, shared>>}

TokenSymmetry == Permutations({t2, t3})
=============================================================================

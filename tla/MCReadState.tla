----------------------------- MODULE MCReadState -----------------------------
(***************************************************************************)
(* An instance of ReadState for TLC.  Requests are interchangeable.        *)
(***************************************************************************)
EXTENDS ReadState, TLC

CONSTANTS ana, bia, n1, n2, n3, n4

\* Ana has two notifications of one chamado and one of another; Bia has one of
\* the first, too.
Owners == (n1 :> ana) @@ (n2 :> ana) @@ (n3 :> ana) @@ (n4 :> bia)
ChamadoOf == (n1 :> "A") @@ (n2 :> "A") @@ (n3 :> "B") @@ (n4 :> "A")

RequestSymmetry == Permutations(Requests)
=============================================================================

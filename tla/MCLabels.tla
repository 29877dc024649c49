------------------------------ MODULE MCLabels ------------------------------
(* Instances of Labels for TLC: small sets of objects and functions.       *)
EXTENDS Labels, TLC

CONSTANTS f1, f2

MCFunctions == {f1, f2}
MCMaxInsns  == (f1 :> 2) @@ (f2 :> 4)

Symmetry == Permutations(Objects)
=============================================================================

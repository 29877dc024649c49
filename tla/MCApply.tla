------------------------------ MODULE MCApply ------------------------------
(* Instances of Apply for TLC: integers inside jit_int, outside it, and at *)
(* the signs.                                                              *)
EXTENDS Apply

MCIVs == {-5, 2, 4}

AllInt == [i \in 1..3 |-> "int"]
MCSignatures ==
    {[params |-> AllInt, ret |-> "int"], [params |-> AllInt, ret |-> "other"],
     [params |-> [AllInt EXCEPT ![2] = "other"], ret |-> "int"]}
=============================================================================

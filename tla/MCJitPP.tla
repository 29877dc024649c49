------------------------------ MODULE MCJitPP ------------------------------
(* Instances of JitPP: an optree of a statement s, two OPs j and k that    *)
(* are compiled, a native OP a, and an OP cb that callbacks start at.      *)
EXTENDS JitPP

CONSTANTS s, j, k, a, cb

(* s branches to j or k or ends the program; k -> j -> s; a and cb stop.   *)
MCNext == [o \in Op |-> CASE o = s -> j [] o = j -> s [] o = k -> j
                          [] OTHER -> NULL]
MCSucc == [o \in Op |-> IF o = s THEN {j, k, NULL} ELSE {MCNext[o]}]

PPOp(o)      == [f |-> "pa_pp_op", op |-> o, ppaddr |-> "pp"]
Runloop(o)   == [f |-> "pa_call_runloop", op |-> o]
Nextstate(o) == [f |-> "pa_pp_nextstate", op |-> o]
Helper       == [f |-> "native", fn |-> "helper"]
AsyncCheck   == [f |-> "pa_async_check"]

(* j may execute a and k inside it, k natively or compiled, and run a loop *)
(* that starts at a; the pp function of a calls back into cb or into j     *)
(* itself.  Both have a check that they may make.                          *)
MCCallable ==
  [o \in JitOp |-> IF o = j THEN {PPOp(a), PPOp(k), Runloop(a), Nextstate(s)}
                   ELSE {PPOp(a), Helper, AsyncCheck}]

=============================================================================

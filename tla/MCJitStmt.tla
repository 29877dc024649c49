----------------------------- MODULE MCJitStmt -----------------------------
(* Instances of JitStmt: a statement s, a compiled OP j and a loop l.      *)
EXTENDS JitStmt

CONSTANTS s, j, l

Native(fns) == [f : {"native"}, fn : fns]

(* Statements, loops and iterations, and what changes the stacks in them.  *)
MCCallable ==
  Native({"pp_enterloop", "pp_leaveloop", "save_clearsv", "new_mortal_sv",
          "push_sv", "pop_sv", "helper"})
    \cup [f : {"pa_pp_nextstate", "pa_call_runloop"}, op : {s}]
    \cup [f : {"pa_pp_op"}, op : {s}, ppaddr : {"pp"}]
    \cup [f : {"pa_pp_unstack"}, leave : BOOLEAN]
    \cup [f : {"pa_async_check"}]

(* What the runs about a single emitter need.                              *)
MCStatements ==
  Native({"push_sv"}) \cup [f : {"pa_pp_nextstate"}, op : {s}]
MCEnterloop == Native({"pp_enterloop", "pp_leaveloop"})

=============================================================================

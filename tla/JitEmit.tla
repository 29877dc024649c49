------------------------------ MODULE JitEmit ------------------------------
(***************************************************************************)
(* The emitters of src/jitapi.c.  A pa_* function does not touch the       *)
(* interpreter: it appends instructions to a libjit function, and the      *)
(* instructions touch the interpreter when the compiled function runs.     *)
(* An emitter is therefore a sequence of instructions, and a function      *)
(* under construction is a sequence of emitter calls.                      *)
(*                                                                         *)
(* A jit_value_t used only by the instructions that follow its load, with  *)
(* no call in between, is folded into them (tmps_gt and save_gt, the       *)
(* comparisons of the branches, are made at the branch).  The only value   *)
(* an emitter keeps across a call, oldop, is a temporary of its own.       *)
(* Labels are C locals of one emitter call: they are resolved within the   *)
(* code of that call, and the names keep the labels of two emitters that   *)
(* one call uses apart.                                                    *)
(***************************************************************************)
EXTENDS Integers, Sequences

CONSTANTS
  Op,     (* the OPs of the optree                              *)
  NULL    (* the null OP*: a run loop stops on it               *)

ASSUME OpAssumption == NULL \notin Op

-----------------------------------------------------------------------------
(* Instructions.                                                           *)

SetVar(var, val)     == [i |-> "set", var |-> var, val |-> val]
SaveOp               == [i |-> "save_op"]
RestoreOp            == [i |-> "restore_op"]
RestoreSp            == [i |-> "restore_sp"]
BranchIfNot(cond, l) == [i |-> "branch_if_not", cond |-> cond, label |-> l]
Label(l)             == [i |-> "label", label |-> l]
CallNative(fn)       == [i |-> "call", fn |-> fn]
CallRunloop(op)      == [i |-> "runloop", op |-> op]
ReturnOpNext         == [i |-> "return"]

(* Where a branch to label l lands in the code of its emitter call.        *)
Target(code, l) == CHOOSE j \in DOMAIN code : code[j] = Label(l)

-----------------------------------------------------------------------------
(* Emitters written by hand in jitapi.c.                                   *)

pa_async_check ==
  << BranchIfNot("sig_pending", "not_pending"),
     CallNative("signalhook"),
     Label("not_pending") >>

pa_taint_not == << SetVar("tainted", FALSE) >>

pa_freetmps ==
  << BranchIfNot("tmps_gt", "tmps_not_gt"),
     CallNative("free_tmps"),
     Label("tmps_not_gt") >>

(* Faulty variant: the branch skips nothing.                               *)
pa_leave_scope_no_call ==
  << BranchIfNot("save_gt", "save_not_gt"),
     Label("save_not_gt") >>

(* old_save is PL_scopestack[PL_scopestack_ix - 1], loaded by the caller.  *)
pa_leave_scope ==
  << BranchIfNot("save_gt", "save_not_gt"),
     CallNative("leave_scope"),
     Label("save_not_gt") >>

restore_stack_sp == << RestoreSp >>

(* Faulty variants: the check before the reset, as in pa_pp_unstack; no    *)
(* check; the address of the argument in place of the OP's.                *)
pa_pp_nextstate_check_first(op) ==
  pa_async_check \o << SetVar("curcop", op) >> \o pa_taint_not
    \o restore_stack_sp \o pa_freetmps

pa_pp_nextstate_no_check(op) ==
  << SetVar("curcop", op) >> \o pa_taint_not \o restore_stack_sp
    \o pa_freetmps

pa_pp_nextstate_address(op) ==
  << SetVar("curcop", << "&", op >>) >> \o pa_taint_not
    \o restore_stack_sp \o pa_freetmps \o pa_async_check

pa_pp_nextstate(op) ==
  << SetVar("curcop", op) >> \o pa_taint_not \o restore_stack_sp
    \o pa_freetmps \o pa_async_check

pa_pp_unstack(leave) ==
  pa_async_check \o pa_taint_not \o restore_stack_sp \o pa_freetmps
    \o (IF leave THEN pa_leave_scope ELSE << >>)

(* Faulty variants: PL_op left at the executed OP; the call before PL_op   *)
(* is set.                                                                 *)
pa_pp_op_no_restore(op, ppaddr) ==
  << SaveOp, SetVar("op", op), CallNative(ppaddr), Label("end") >>

pa_pp_op_call_first(op, ppaddr) ==
  << SaveOp, CallNative(ppaddr), SetVar("op", op), RestoreOp >>

(* ppaddr is what op->op_ppaddr is when the call is emitted, whatever it   *)
(* becomes later: "pp", a native pp function, or "closure", the compiled   *)
(* function that has replaced it.                                          *)
pa_pp_op(op, ppaddr) ==
  << SaveOp, SetVar("op", op), CallNative(ppaddr), RestoreOp >>

(* The generated wrappers of gen-jitapi.inc: one native call each, to a    *)
(* static helper of jitapi.c or to a function of Perl.                     *)
native_wrapper(fn) == << CallNative(fn) >>

pa_call_runloop(op) == << CallRunloop(op) >>

(* jit_insn_return(function, pa_get_op_next(function)), which ends a body. *)
return_op_next == << ReturnOpNext >>

-----------------------------------------------------------------------------
(* Emitter calls.  NativeFn are the wrapped functions, by what they do to  *)
(* the interpreter variables the model keeps ("helper": nothing).          *)

NativeFn == {"pp_enterloop", "pp_leaveloop", "save_clearsv", "push_sv",
             "pop_sv", "new_mortal_sv", "helper"}

Call ==
  [f : {"pa_pp_op"}, op : Op, ppaddr : {"pp", "closure"}]
    \cup [f : {"pa_call_runloop", "pa_pp_nextstate"}, op : Op]
    \cup [f : {"pa_pp_unstack"}, leave : BOOLEAN]
    \cup [f : {"native"}, fn : NativeFn]
    \cup [f : {"pa_async_check", "pa_taint_not", "pa_freetmps", "return"}]

Return == [f |-> "return"]

Code(c) ==
  CASE c.f = "pa_pp_op"        -> pa_pp_op(c.op, c.ppaddr)
    [] c.f = "pa_call_runloop" -> pa_call_runloop(c.op)
    [] c.f = "pa_pp_nextstate" -> pa_pp_nextstate(c.op)
    [] c.f = "pa_pp_unstack"   -> pa_pp_unstack(c.leave)
    [] c.f = "native"          -> native_wrapper(c.fn)
    [] c.f = "pa_async_check"  -> pa_async_check
    [] c.f = "pa_taint_not"    -> pa_taint_not
    [] c.f = "pa_freetmps"     -> pa_freetmps
    [] c.f = "return"          -> return_op_next

=============================================================================

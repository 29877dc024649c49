------------------------------ MODULE JitStmt ------------------------------
(***************************************************************************)
(* Compiled functions used as OPs: statement and loop bookkeeping.         *)
(*                                                                         *)
(* pa_pp_nextstate, pa_pp_unstack, pa_pp_enterloop and pa_pp_leaveloop     *)
(* stand for the OPs of those names when an optree is compiled: the code   *)
(* they emit must keep Perl's stacks (arguments, contexts, scopes, saved   *)
(* values, temporaries) as the interpreter would.                          *)
(*                                                                         *)
(* The module executes the body of a compiled function call by call.  The  *)
(* body is straight-line at this level, so the model chooses the next      *)
(* emitter call when the previous one is done: it explores the executions  *)
(* of every body made of Callable.  PL_op is the matter of JitPP; code     *)
(* that runs inside a native call, a run loop or a signal handler is       *)
(* modelled by its net effect on the stacks, or by a die that leaves the   *)
(* compiled function for an eval outside it (a longjmp: no code of the     *)
(* body runs).                                                             *)
(*                                                                         *)
(* Perl's own functions are modelled from how perl (5.14 to 5.18, the      *)
(* versions this code targets) defines what jitapi.c calls.                *)
(***************************************************************************)
EXTENDS JitEmit

CONSTANTS
  Callable,   (* the emitter calls bodies are made of                      *)
  CxWords,    (* the size of a PERL_CONTEXT, in pointers                   *)
  Around,     (* the kinds of blocks a compiled OP may be inside           *)
  JitOp,      (* the OP whose op_ppaddr is the compiled function           *)
  LoopOp,     (* an enterloop OP that Perl executes                        *)
  MaxSp, MaxTmps, MaxSave, MaxCx  (* bounds on the stacks                  *)

ASSUME StmtAssumption ==
  /\ Callable \subseteq Call \ {Return}
  /\ CxWords \in Nat /\ CxWords > 1
  /\ Around \subseteq {"loop", "eval"}
  /\ JitOp \in Op /\ LoopOp \in Op
  /\ MaxSp \in Nat /\ MaxTmps \in Nat /\ MaxSave \in Nat /\ MaxCx \in Nat

VARIABLES
  PL,          (* the interpreter variables                                *)
  sig_pending,
  at,          (* "perl": the program around; in the compiled function:    *)
               (* "boundary", "code", "call" (in a native call)            *)
  call, pc,    (* the emitter call being executed, the next instruction    *)
  outer,       (* history: PL when each of the present evals was entered   *)
  entry,       (* history: the stacks when the body was entered            *)
  mortals      (* history: the mortal SVs that the body still counts on    *)

vars == << PL, sig_pending, at, call, pc, outer, entry, mortals >>

(* cxstack_ix is Len(cxstack) - 1, savestack_ix is Len(savestack),         *)
(* scopestack_ix is Len(scopestack).  tmps_ix and tmps_floor count from 0  *)
(* where Perl counts from -1.  stack_sp counts from PL_stack_base.         *)
Context == [type : {"block", "loop", "eval"}, oldsp : Int,
            oldcop : Op \cup {NULL}, oldscopesp : Nat, my_op : Op \cup {NULL}]
SavedValue == [type : {"clearsv", "tmps_floor"}, val : Nat]

PLType == [curcop : Op \cup {NULL}, tainted : BOOLEAN, stack_sp : Int,
           cxstack : Seq(Context), scopestack : Seq(Nat),
           savestack : Seq(SavedValue), tmps_ix : Nat, tmps_floor : Nat]

-----------------------------------------------------------------------------
(* Perl's macros and functions (external).                                 *)

Cx(p)   == p.cxstack[Len(p.cxstack)]
Mark(p) == p.scopestack[Len(p.scopestack)]

ENTER(p) == [p EXCEPT !.scopestack = Append(@, Len(p.savestack))]

SAVETMPS(p) ==
  [p EXCEPT !.savestack = Append(@, [type |-> "tmps_floor", val |-> p.tmps_floor]),
            !.tmps_floor = p.tmps_ix]

(* my_op is kept by PUSHLOOP alone: next, last and redo go by it.          *)
PUSHBLOCK(p, t, o) ==
  [p EXCEPT !.cxstack = Append(@, [type |-> t, oldsp |-> p.stack_sp,
                                   oldcop |-> p.curcop,
                                   oldscopesp |-> Len(p.scopestack),
                                   my_op |-> o])]

(* Saved values are restored from the last to the first, so that the       *)
(* oldest one above base prevails.                                         *)
LeaveScope(p, base) ==
  LET floors == {n \in base + 1..Len(p.savestack) :
                   p.savestack[n].type = "tmps_floor"}
      oldest == CHOOSE n \in floors : \A m \in floors : n <= m
  IN  IF Len(p.savestack) <= base THEN p
      ELSE [p EXCEPT !.savestack = SubSeq(@, 1, base),
                     !.tmps_floor = IF floors = {} THEN @
                                    ELSE p.savestack[oldest].val]

LEAVE(p) ==
  LeaveScope([p EXCEPT !.scopestack = SubSeq(@, 1, Len(@) - 1)], Mark(p))

POPBLOCK(p) ==
  [p EXCEPT !.cxstack = SubSeq(@, 1, Len(@) - 1), !.curcop = Cx(p).oldcop,
            !.scopestack = SubSeq(@, 1, Cx(p).oldscopesp)]

pp_enter(p)    == PUSHBLOCK(SAVETMPS(ENTER(p)), "block", NULL)
pp_entertry(p) == PUSHBLOCK(SAVETMPS(ENTER(p)), "eval", NULL)

(* o is PL_op.                                                             *)
pp_enterloop(p, o) == PUSHBLOCK(ENTER(SAVETMPS(ENTER(p))), "loop", o)

(* The stack is cut back to the base of the loop, plus the results.        *)
pp_leaveloop(p, results) ==
  LEAVE(LEAVE([POPBLOCK(p) EXCEPT !.stack_sp = Cx(p).oldsp + results]))

(* die: dounwind to the innermost eval, which is popped as by leavetry.    *)
Evals(p) == {n \in DOMAIN p.cxstack : p.cxstack[n].type = "eval"}

die_unwind(p) ==
  LET n == CHOOSE n \in Evals(p) : \A m \in Evals(p) : m <= n
      q == [p EXCEPT !.cxstack = SubSeq(@, 1, n)]
  IN  LEAVE([POPBLOCK(q) EXCEPT !.stack_sp = Cx(q).oldsp])

(* The OPs that pa_pp_op or a nested run loop executes: they may run       *)
(* statements of their own at the same context, which set PL_curcop and    *)
(* free temporaries, and introduce variables; scopes they open, they close.*)
Introduced(p) ==
  [p EXCEPT !.savestack = Append(@, [type |-> "clearsv", val |-> 0])]

OpsEffect(p) ==
  {[q EXCEPT !.stack_sp = sp, !.tmps_ix = t, !.tainted = b, !.curcop = o] :
     q \in {p} \cup {r \in {Introduced(p)} : Len(p.savestack) < MaxSave},
     sp \in {n \in 0..MaxSp : n >= Cx(p).oldsp}, t \in p.tmps_floor..MaxTmps,
     b \in BOOLEAN, o \in {p.curcop} \cup {c.op : c \in
                         {d \in Callable : d.f = "pa_pp_nextstate"}}}

(* Destructors and signal handlers run in scopes of their own.             *)
Taint(p) == {[p EXCEPT !.tainted = b] : b \in {p.tainted, TRUE}}

(* Faulty variants: one scope too far out; PL_scopestack_ix left out.      *)
old_save_outer(p) == p.scopestack[Len(p.scopestack) - 1]
old_save_bottom(p) == p.scopestack[1]

(* The mark pa_pp_unstack loads: PL_scopestack[PL_scopestack_ix - 1].      *)
old_save(p) == p.scopestack[Len(p.scopestack)]

NativeEffect(p, fn) ==
  CASE fn \in {"pp", "closure"} -> OpsEffect(p)
    [] fn = "signalhook"   -> Taint(p)
    [] fn = "free_tmps"    -> Taint([p EXCEPT !.tmps_ix = p.tmps_floor])
    [] fn = "leave_scope"  -> Taint(LeaveScope(p, old_save(p)))
    [] fn = "pp_enterloop" -> {pp_enterloop(p, JitOp)}
    [] fn = "pp_leaveloop" -> {pp_leaveloop(p, n) : n \in
                                 {0, IF Cx(p).oldsp < MaxSp THEN 1 ELSE 0}}
    [] fn = "save_clearsv" -> {Introduced(p)}
    [] fn = "push_sv"      -> {[p EXCEPT !.stack_sp = @ + 1]}
    [] fn = "pop_sv"       -> {[p EXCEPT !.stack_sp = @ - 1]}
    [] fn = "new_mortal_sv" -> {[p EXCEPT !.tmps_ix = @ + 1]}
    [] fn = "helper"       -> Taint(p)

-----------------------------------------------------------------------------
NoPL == [curcop |-> NULL, tainted |-> FALSE, stack_sp |-> 0,
         cxstack |-> << >>, scopestack |-> << >>, savestack |-> << >>,
         tmps_ix |-> 0, tmps_floor |-> 0]

Stacks(p) == << p.cxstack, p.scopestack, p.tmps_floor >>

(* The main program has entered its block.                                 *)
Init ==
  /\ PL = pp_enter(NoPL) /\ outer = << >>
  /\ sig_pending = FALSE
  /\ at = "perl" /\ call = Return /\ pc = 1
  /\ entry = Stacks(PL)
  /\ mortals = {}

Depth == Len(PL.cxstack)

(* A statement of the program around, which leaves a temporary or none     *)
(* when it enters a block.                                                 *)
EnterBlock(x) ==
  /\ at = "perl"
  /\ Depth < MaxCx
  /\ \E ix \in PL.tmps_floor..PL.tmps_floor + 1 :
       LET p == [PL EXCEPT !.tmps_ix = ix, !.tainted = FALSE]
       IN  /\ ix <= MaxTmps
           /\ PL' = IF x = "eval" THEN pp_entertry(p) ELSE pp_enterloop(p, LoopOp)
           /\ outer' = IF x = "eval" THEN Append(outer, p) ELSE outer
  /\ UNCHANGED << sig_pending, at, call, pc, entry, mortals >>

(* The run loop calls the compiled OP.                                     *)
Dispatch ==
  /\ at = "perl"
  /\ at' = "boundary"
  /\ entry' = Stacks(PL)
  /\ UNCHANGED << PL, sig_pending, call, pc, outer, mortals >>

(* What a body may do next.  Loops nest in a body, unstack belongs in a    *)
(* loop, and the body does not pop what it or its OPs did not push; the    *)
(* other conditions are bounds.                                            *)
MayBegin(c) ==
  CASE c.f = "pa_pp_unstack" -> Cx(PL).type = "loop"
    [] c.f = "native" ->
         /\ c.fn = "pp_enterloop" => Depth < MaxCx
         /\ c.fn = "pp_leaveloop" => Depth > Len(entry[1])
         /\ c.fn = "save_clearsv" => Len(PL.savestack) < MaxSave
         /\ c.fn = "new_mortal_sv" => PL.tmps_ix < MaxTmps
         /\ c.fn = "push_sv" => PL.stack_sp < MaxSp
         /\ c.fn = "pop_sv" => PL.stack_sp > Cx(PL).oldsp
    [] OTHER -> TRUE

Begin(c) ==
  /\ at = "boundary"
  /\ MayBegin(c)
  /\ at' = "code" /\ call' = c /\ pc' = 1
  /\ UNCHANGED << PL, sig_pending, outer, entry, mortals >>

(* The body returns, and a compiled OP is dispatched again.                *)
ReturnBody ==
  /\ at = "boundary"
  /\ Depth = Len(entry[1])
  /\ call' = Return
  /\ mortals' = {}
  /\ UNCHANGED << PL, sig_pending, at, pc, outer, entry >>

SigArrive ==
  /\ ~sig_pending
  /\ sig_pending' = TRUE
  /\ UNCHANGED << PL, at, call, pc, outer, entry, mortals >>

-----------------------------------------------------------------------------
Instr == Code(call)[pc]

(* Control goes to instruction j of the call, or past its end.             *)
Goto(j) ==
  IF j <= Len(Code(call)) THEN at' = "code" /\ pc' = j
                          ELSE at' = "boundary" /\ pc' = 1

Exec(i) == at = "code" /\ Instr.i = i

ExecSet ==
  /\ Exec("set")
  /\ PL' = CASE Instr.var = "curcop"  -> [PL EXCEPT !.curcop = Instr.val]
             [] Instr.var = "tainted" -> [PL EXCEPT !.tainted = Instr.val]
             [] OTHER -> PL
  /\ Goto(pc + 1)
  /\ UNCHANGED << sig_pending, call, outer, entry, mortals >>

(* _restore_stack_sp.  The element address is computed with the size of a  *)
(* pointer: cxstack_ix words after the first context.  That word is the    *)
(* blk_oldsp of a context when the distance is a multiple of the size of a *)
(* context, and otherwise some other word of one.                          *)
OldSpRead ==
  LET ix == Depth - 1
  IN  IF ix % CxWords = 0 THEN {PL.cxstack[ix \div CxWords + 1].oldsp}
      ELSE 0..MaxSp

ExecRestoreSp ==
  /\ Exec("restore_sp")
  /\ \E sp \in OldSpRead : PL' = [PL EXCEPT !.stack_sp = sp]
  /\ Goto(pc + 1)
  /\ UNCHANGED << sig_pending, call, outer, entry, mortals >>

(* The variables are loaded, and the condition evaluated, at the branch.   *)
Holds(cond) ==
  CASE cond = "sig_pending" -> sig_pending
    [] cond = "tmps_gt"     -> PL.tmps_ix > PL.tmps_floor
    [] cond = "save_gt"     -> Len(PL.savestack) > old_save(PL)

ExecBranch ==
  /\ Exec("branch_if_not")
  /\ Goto(IF Holds(Instr.cond) THEN pc + 1 ELSE Target(Code(call), Instr.label))
  /\ UNCHANGED << PL, sig_pending, call, outer, entry, mortals >>

(* Labels, and the instructions on PL_op (JitPP).                          *)
ExecOther ==
  /\ at = "code" /\ Instr.i \in {"label", "save_op", "restore_op"}
  /\ Goto(pc + 1)
  /\ UNCHANGED << PL, sig_pending, call, outer, entry, mortals >>

CallStart ==
  /\ at = "code" /\ Instr.i \in {"call", "runloop"}
  /\ at' = "call"
  /\ sig_pending' =
       (sig_pending /\ ~(Instr.i = "call" /\ Instr.fn = "signalhook"))
  /\ UNCHANGED << PL, call, pc, outer, entry, mortals >>

(* Temporaries of the present context may be freed by a statement, here or *)
(* in the OPs that pa_pp_op and pa_call_runloop execute: the body gives up *)
(* the mortals it made at this context.  Those made before it entered the  *)
(* loop it is in, it keeps.                                                *)
GiveUp == {m \in mortals : m.depth < Depth}

MortalsAfter(fn) ==
  CASE fn \in {"pp", "closure", "free_tmps"} -> GiveUp
    [] fn = "pp_leaveloop" ->
         {[m EXCEPT !.depth = IF @ < Depth THEN @ ELSE Depth - 1] : m \in mortals}
    [] fn = "new_mortal_sv" ->
         mortals \cup {[ix |-> PL.tmps_ix + 1, depth |-> Depth]}
    [] OTHER -> mortals

CallEnd ==
  /\ at = "call" /\ Instr.i = "call"
  /\ PL' \in NativeEffect(PL, Instr.fn)
  /\ mortals' = MortalsAfter(Instr.fn)
  /\ Goto(pc + 1)
  /\ UNCHANGED << sig_pending, call, outer, entry >>

RunloopEnd ==
  /\ at = "call" /\ Instr.i = "runloop"
  /\ PL' \in OpsEffect(PL)
  /\ mortals' = GiveUp
  /\ Goto(pc + 1)
  /\ UNCHANGED << sig_pending, call, outer, entry >>

(* A die in a pp function, a helper, a signal handler or a nested run loop *)
(* with an eval around the compiled OP (without one the program ends).     *)
Dying == {"pp", "closure", "helper", "signalhook"}

Die ==
  /\ at = "call" /\ (Instr.i = "call" => Instr.fn \in Dying)
  /\ Evals(PL) # {}
  /\ \E t \in PL.tmps_ix..MaxTmps : PL' = [die_unwind(PL) EXCEPT !.tmps_ix = t]
  /\ outer' = SubSeq(outer, 1, Len(outer) - 1)
  /\ at' = "perl" /\ call' = Return /\ pc' = 1 /\ mortals' = {}
  /\ UNCHANGED << sig_pending, entry >>

Next ==
  \/ \E x \in Around : EnterBlock(x)
  \/ Dispatch \/ Die
  \/ \E c \in Callable : Begin(c)
  \/ ReturnBody
  \/ ExecSet \/ ExecRestoreSp \/ ExecBranch \/ ExecOther
  \/ CallStart \/ CallEnd \/ RunloopEnd
  \/ SigArrive

Spec == Init /\ [][Next]_vars

-----------------------------------------------------------------------------
(* The type invariant.                                                     *)
TypeOK ==
  /\ PL \in PLType
  /\ sig_pending \in BOOLEAN
  /\ at \in {"perl", "boundary", "code", "call"}
  /\ outer \in Seq(PLType)
  /\ call \in Call /\ pc \in Nat
  /\ entry \in Seq(Context) \X Seq(Nat) \X Nat
  /\ mortals \subseteq [ix : Nat, depth : Nat]

(* A signal handler that the check of pa_pp_nextstate runs is inside the   *)
(* new statement: its caller is the new PL_curcop, the temporaries of the  *)
(* old statement are freed and, at the outermost context, its values are   *)
(* off the stack (the order of jitapi.c:203-207).                          *)
HookSeesStatement ==
  at = "call" /\ call.f = "pa_pp_nextstate" /\ Instr = CallNative("signalhook") =>
    /\ PL.curcop = call.op
    /\ PL.tmps_ix = PL.tmps_floor
    /\ Depth = 1 => PL.stack_sp = PL.cxstack[1].oldsp

(* A body that leaves the loops it enters hands the contexts, the scopes   *)
(* and the floor of the temporaries back as it got them, however many      *)
(* iterations ended in pa_pp_unstack in between (jitapi.c:117-127,         *)
(* 217-223).                                                               *)
BodyBalanced ==
  at = "boundary" /\ Depth = Len(entry[1]) => Stacks(PL) = entry

(* A mortal SV that compiled code makes before it enters a loop lives as   *)
(* long as the loop: no statement, and no end of an iteration, inside the  *)
(* loop frees it (jitapi.c:150-162, 164-175).                              *)
OuterMortalsLive == \A m \in mortals : m.ix <= PL.tmps_ix

(* When pa_pp_unstack(TRUE) has left the scope, the variables of the       *)
(* iteration are cleared and its temporaries are freed (jitapi.c:215-223). *)
UnstackEndsIteration ==
  at = "code" /\ Instr = Label("save_not_gt") =>
    /\ Len(PL.savestack) = Mark(PL)
    /\ PL.tmps_ix = PL.tmps_floor

(* A die out of compiled code, from any native call at any point of its    *)
(* body, puts everything back as it was before the innermost eval: no      *)
(* context, scope, saved value or stack element of the body is left over,  *)
(* and none that was there before is gone (jitapi.c:117-127, 217-223: what *)
(* the body opens and cuts back is Perl's to unwind).                      *)
Frame(p) == << Stacks(p), p.savestack, p.stack_sp, p.curcop >>

DieRestores ==
  [][Die => LET o == outer[Len(outer)]
            IN  Frame(PL') = Frame(o) /\ PL'.tmps_ix >= o.tmps_ix]_vars

(* What the comment at jitapi.c:119 says: PL_op matters to pp_enterloop    *)
(* for its result alone, so that the OP it is set to changes nothing else. *)
EnterloopIgnoresOp ==
  [][CallEnd /\ Instr.fn = "pp_enterloop" => PL' = pp_enterloop(PL, LoopOp)]_vars

(* What the comments at jitapi.c:177 and 180 say of _restore_stack_sp: the *)
(* stack is cut back to the blk_oldsp of cxstack[cxstack_ix].              *)
StackCutToContext ==
  [][ExecRestoreSp => PL'.stack_sp = Cx(PL).oldsp]_vars

=============================================================================

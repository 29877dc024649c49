------------------------------- MODULE JitPP -------------------------------
(***************************************************************************)
(* Compiled functions used as OPs: who owns PL_op.                         *)
(*                                                                         *)
(* A program emits a libjit function for an OP (pa_create_pp, then calls   *)
(* of the emitters of JitEmit), compiles it, and stores the closure in     *)
(* op_ppaddr (t/020_op.t).  Perl's run loop, while ((PL_op =               *)
(* PL_op->op_ppaddr(aTHX))), then calls the compiled code with PL_op       *)
(* pointing at that OP, and the code must hand PL_op back: pa_get_targ and *)
(* pa_get_op_next read PL_op->op_targ and PL_op->op_next wherever they are *)
(* emitted.  In between, pa_pp_op and pa_call_runloop overwrite PL_op, and *)
(* the functions they call may call back into Perl, run other compiled     *)
(* OPs, or leave by longjmp.                                               *)
(*                                                                         *)
(* levels is the C stack: one element for each active run loop and for     *)
(* each compiled function that pa_pp_op calls directly, with the compiled  *)
(* function it is executing.  Only the operations of the last element      *)
(* move.  The data that branch conditions test, PL_sig_pending apart, is   *)
(* abstracted: such a branch goes either way (JitStmt keeps that data).    *)
(***************************************************************************)
EXTENDS JitEmit

CONSTANTS
  JitOp,      (* the OPs whose op_ppaddr is replaced by a closure         *)
  StartOp,    (* where a run of the program may start                     *)
  CallbackOp, (* where a callback (magic, sort, a signal handler) starts  *)
  RestartOp,  (* where execution may restart after a die: PL_restartop    *)
  op_next,    (* op->op_next                                              *)
  op_succ,    (* what the native pp function of an OP may return          *)
  Callable,   (* Callable[o]: the emitter calls used in the body of o     *)
  Reentrant,  (* the native functions that may run Perl code              *)
  Dying,      (* the native functions that may leave by longjmp           *)
  MaxCalls,   (* bound on the emitter calls of a body                     *)
  MaxLevels   (* bound on the nesting reached by a callback               *)

OpOrNull == Op \cup {NULL}

ASSUME JitAssumption ==
  /\ JitOp \subseteq Op
  /\ StartOp \subseteq Op
  /\ CallbackOp \subseteq Op
  /\ RestartOp \subseteq OpOrNull
  /\ op_next \in [Op -> OpOrNull]
  /\ op_succ \in [Op -> SUBSET OpOrNull]
  /\ \A o \in Op : op_next[o] \in op_succ[o]
  /\ Callable \in [JitOp -> SUBSET (Call \ {Return})]
  /\ "closure" \notin Reentrant \cup Dying
  /\ MaxCalls \in Nat /\ MaxLevels \in Nat

VARIABLES
  body,        (* body[o]: the emitter calls made so far for o             *)
  installed,   (* the OPs whose function is compiled and in op_ppaddr      *)
  PL_op,
  sig_pending, (* PL_sig_pending                                           *)
  levels

vars == << body, installed, PL_op, sig_pending, levels >>

(* kind: "base" is the run loop of perl_run, "callback" one that native    *)
(* code starts, "runloop" one that pa_call_runloop starts, and "direct" a  *)
(* closure called as the pp function of a pa_pp_op.                        *)
(* saved: the PL_op that is put back when the level ends.  For "direct" it *)
(* is a history variable, PL_op when the closure was called.               *)
(* at: "loop", the run loop is about to call PL_op; "jit", the compiled    *)
(* function of op is about to execute instruction pc of call number i;     *)
(* "call", that instruction is a call that has not returned.               *)
(* op is a history variable too: the OP the compiled function was called   *)
(* for.  oldop is the temporary of pa_pp_op.                               *)
Level == [kind : {"base", "callback", "runloop", "direct"},
          saved : OpOrNull, at : {"loop", "jit", "call"}, op : OpOrNull,
          i : Nat, pc : Nat, oldop : OpOrNull]

Loop(kind, saved) ==
  [kind |-> kind, saved |-> saved, at |-> "loop", op |-> NULL,
   i |-> 1, pc |-> 1, oldop |-> NULL]

Direct(op) ==
  [kind |-> "direct", saved |-> op, at |-> "jit", op |-> op,
   i |-> 1, pc |-> 1, oldop |-> NULL]

Init ==
  /\ body = [o \in JitOp |-> << >>]
  /\ installed = {}
  /\ PL_op = NULL
  /\ sig_pending = FALSE
  /\ levels = << >>

-----------------------------------------------------------------------------
(* Building.                                                               *)

(* Faulty variant: the address of the field in place of what it holds.     *)
Emitted_field(c) ==
  IF c.f = "pa_pp_op" THEN [c EXCEPT !.ppaddr = "&op_ppaddr"] ELSE c

(* op_ppaddr is captured by the emission, not by the execution.            *)
Emitted(c) ==
  IF c.f = "pa_pp_op"
  THEN [c EXCEPT !.ppaddr = IF c.op \in installed THEN "closure" ELSE "pp"]
  ELSE c

Emit(o, c) ==
  /\ levels = << >>
  /\ o \notin installed
  /\ Len(body[o]) < MaxCalls
  /\ body' = [body EXCEPT ![o] = Append(@, Emitted(c))]
  /\ UNCHANGED << installed, PL_op, sig_pending, levels >>

(* jit_insn_return(pa_get_op_next), jit_function_compile, and the closure  *)
(* stored in op_ppaddr.                                                    *)
Install(o) ==
  /\ levels = << >>
  /\ o \notin installed
  /\ body' = [body EXCEPT ![o] = Append(@, Return)]
  /\ installed' = installed \cup {o}
  /\ UNCHANGED << PL_op, sig_pending, levels >>

-----------------------------------------------------------------------------
(* The run loops, and the signals, of Perl.                                *)

Top == levels[Len(levels)]

SetTop(l) == levels' = [levels EXCEPT ![Len(levels)] = l]

At(a) == levels # << >> /\ Top.at = a

(* perl_run: PL_op = PL_main_start; CALLRUNOPS.                            *)
StartRun(o) ==
  /\ levels = << >>
  /\ levels' = << Loop("base", NULL) >>
  /\ PL_op' = o
  /\ UNCHANGED << body, installed, sig_pending >>

RunNative ==
  /\ At("loop")
  /\ PL_op \in Op \ installed
  /\ PL_op' \in op_succ[PL_op]
  /\ UNCHANGED << body, installed, sig_pending, levels >>

(* The run loop calls the closure in op_ppaddr.                            *)
RunJit ==
  /\ At("loop")
  /\ PL_op \in installed
  /\ SetTop([Top EXCEPT !.at = "jit", !.op = PL_op])
  /\ UNCHANGED << body, installed, PL_op, sig_pending >>

(* A signal arrives at any point of a run: Perl_csighandler only sets the  *)
(* flag.                                                                   *)
SigArrive ==
  /\ levels # << >>
  /\ ~sig_pending
  /\ sig_pending' = TRUE
  /\ UNCHANGED << body, installed, PL_op, levels >>

-----------------------------------------------------------------------------
(* The compiled code.                                                      *)

CodeOf(l) == Code(body[l.op][l.i])
Instr(l)  == CodeOf(l)[l.pc]

(* Control goes to instruction j of the current call; past its last        *)
(* instruction, to the next call.                                          *)
Goto(l, j) ==
  IF j <= Len(CodeOf(l)) THEN [l EXCEPT !.at = "jit", !.pc = j]
                         ELSE [l EXCEPT !.at = "jit", !.pc = 1, !.i = @ + 1]

Advanced(l) == Goto(l, l.pc + 1)

Exec(i) == At("jit") /\ Instr(Top).i = i

ExecSetOp ==
  /\ Exec("set")
  /\ Instr(Top).var = "op"
  /\ PL_op' = Instr(Top).val
  /\ SetTop(Advanced(Top))
  /\ UNCHANGED << body, installed, sig_pending >>

ExecSaveOp ==
  /\ Exec("save_op")
  /\ SetTop([Advanced(Top) EXCEPT !.oldop = PL_op])
  /\ UNCHANGED << body, installed, PL_op, sig_pending >>

ExecRestoreOp ==
  /\ Exec("restore_op")
  /\ PL_op' = Top.oldop
  /\ SetTop(Advanced(Top))
  /\ UNCHANGED << body, installed, sig_pending >>

(* Labels, and instructions on interpreter variables this module does not  *)
(* keep.                                                                   *)
ExecOther ==
  /\ At("jit")
  /\ \/ Instr(Top).i \in {"restore_sp", "label"}
     \/ Instr(Top).i = "set" /\ Instr(Top).var # "op"
  /\ SetTop(Advanced(Top))
  /\ UNCHANGED << body, installed, PL_op, sig_pending >>

ExecBranch ==
  /\ Exec("branch_if_not")
  /\ \E holds \in BOOLEAN :
       /\ Instr(Top).cond = "sig_pending" => holds = sig_pending
       /\ SetTop(IF holds THEN Advanced(Top)
                 ELSE Goto(Top, Target(CodeOf(Top), Instr(Top).label)))
  /\ UNCHANGED << body, installed, PL_op, sig_pending >>

(* A native function starts.  Perl_despatch_signals, which PL_signalhook   *)
(* holds, clears the flag before it looks for signals to despatch.         *)
CallNativeStart ==
  /\ Exec("call")
  /\ Instr(Top).fn # "closure"
  /\ sig_pending' = (sig_pending /\ Instr(Top).fn # "signalhook")
  /\ SetTop([Top EXCEPT !.at = "call"])
  /\ UNCHANGED << body, installed, PL_op >>

CallNativeEnd ==
  /\ At("call")
  /\ Instr(Top).i = "call"
  /\ Instr(Top).fn # "closure"
  /\ SetTop(Advanced(Top))
  /\ UNCHANGED << body, installed, PL_op, sig_pending >>

(* pa_pp_op on an OP that was replaced before the call was emitted.        *)
CallClosure ==
  /\ Exec("call")
  /\ Instr(Top).fn = "closure"
  /\ levels' = Append([levels EXCEPT ![Len(levels)].at = "call"],
                      Direct(PL_op))
  /\ UNCHANGED << body, installed, PL_op, sig_pending >>

(* A native function, or the signal hook, runs Perl code: call_sv and its  *)
(* like save PL_op and start a run loop.                                   *)
Callback(o) ==
  /\ At("call")
  /\ Instr(Top).i = "call"
  /\ Instr(Top).fn \in Reentrant
  /\ Len(levels) < MaxLevels
  /\ levels' = Append(levels, Loop("callback", PL_op))
  /\ PL_op' = o
  /\ UNCHANGED << body, installed, sig_pending >>

(* Faulty variant: oldop read after PL_op is overwritten.                  *)
CallRunloopStart_late_save ==
  /\ Exec("runloop")
  /\ levels' = Append([levels EXCEPT ![Len(levels)].at = "call"],
                      Loop("runloop", Instr(Top).op))
  /\ PL_op' = Instr(Top).op
  /\ UNCHANGED << body, installed, sig_pending >>

(* _pa_call_runloop: OP *oldop = PL_op; PL_op = op; CALLRUNOPS(aTHX).      *)
CallRunloopStart ==
  /\ Exec("runloop")
  /\ levels' = Append([levels EXCEPT ![Len(levels)].at = "call"],
                      Loop("runloop", PL_op))
  /\ PL_op' = Instr(Top).op
  /\ UNCHANGED << body, installed, sig_pending >>

(* return PL_op->op_next: the run loop stores it in PL_op, the caller of a *)
(* closure called by pa_pp_op drops it.                                    *)
ReturnToLoop ==
  /\ Exec("return")
  /\ Top.kind # "direct"
  /\ PL_op' = op_next[PL_op]
  /\ SetTop(Loop(Top.kind, Top.saved))
  /\ UNCHANGED << body, installed, sig_pending >>

Below == levels[Len(levels) - 1]

(* The last level ends and the one below continues as l.                   *)
PopTo(l) ==
  levels' = [SubSeq(levels, 1, Len(levels) - 1)
               EXCEPT ![Len(levels) - 1] = l]

ReturnToCaller ==
  /\ Exec("return")
  /\ Top.kind = "direct"
  /\ PopTo(Advanced(Below))
  /\ UNCHANGED << body, installed, PL_op, sig_pending >>

(* A run loop stops on the null OP.  _pa_call_runloop then restores PL_op  *)
(* and returns; call_sv restores it and returns to the native function     *)
(* that called it.                                                         *)
RunloopEnd ==
  /\ At("loop") /\ PL_op = NULL
  /\ Top.kind = "runloop"
  /\ PL_op' = Top.saved
  /\ PopTo(Advanced(Below))
  /\ UNCHANGED << body, installed, sig_pending >>

CallbackEnd ==
  /\ At("loop") /\ PL_op = NULL
  /\ Top.kind = "callback"
  /\ PL_op' = Top.saved
  /\ PopTo(Below)
  /\ UNCHANGED << body, installed, sig_pending >>

BaseEnd ==
  /\ At("loop") /\ PL_op = NULL
  /\ Top.kind = "base"
  /\ levels' = << >>
  /\ UNCHANGED << body, installed, PL_op, sig_pending >>

(* A die in a native function: longjmp to a run loop that has a JMPENV,    *)
(* which restarts at PL_restartop, or stops.  A run loop started by        *)
(* pa_call_runloop has none, and compiled code has no handler: their       *)
(* frames vanish, and with them the code that restores PL_op.              *)
Die(m, o) ==
  /\ At("call")
  /\ Instr(Top).i = "call"
  /\ Instr(Top).fn \in Dying
  /\ levels[m].kind \in {"base", "callback"}
  /\ levels' = Append(SubSeq(levels, 1, m - 1),
                      Loop(levels[m].kind, levels[m].saved))
  /\ PL_op' = o
  /\ UNCHANGED << body, installed, sig_pending >>

-----------------------------------------------------------------------------
Build ==
  \E o \in JitOp : Install(o) \/ \E c \in Callable[o] : Emit(o, c)

ExecInsn ==
  \/ ExecSetOp \/ ExecSaveOp \/ ExecRestoreOp \/ ExecOther \/ ExecBranch
  \/ CallNativeStart \/ CallClosure \/ CallRunloopStart
  \/ ReturnToLoop \/ ReturnToCaller

LoopStep == RunNative \/ RunJit \/ RunloopEnd \/ CallbackEnd \/ BaseEnd

Unwind == \E m \in 1..Len(levels), o \in RestartOp : Die(m, o)

Next ==
  \/ Build
  \/ \E o \in StartOp : StartRun(o)
  \/ LoopStep
  \/ ExecInsn
  \/ CallNativeEnd
  \/ \E o \in CallbackOp : Callback(o)
  \/ Unwind
  \/ SigArrive

Spec == Init /\ [][Next]_vars

(* The processor executes the next instruction, and a native function that *)
(* is given control back after every callback returns in the end: it calls *)
(* back finitely often, hence strong fairness, for each depth of the C     *)
(* stack.  Nothing has to start a run, send a signal, call back or die.    *)
FairSpec ==
  /\ Spec
  /\ WF_vars(LoopStep \/ ExecInsn \/ CallNativeEnd)
  /\ \A d \in 1..MaxLevels - 1 : SF_vars(CallNativeEnd /\ Len(levels) = d)

-----------------------------------------------------------------------------
(* The type invariant.                                                     *)
TypeOK ==
  /\ body \in [JitOp -> Seq(Call)]
  /\ installed \subseteq JitOp
  /\ PL_op \in OpOrNull
  /\ sig_pending \in BOOLEAN
  /\ levels \in Seq(Level)

(* Between two emitter calls of the compiled function of an OP, PL_op is   *)
(* that OP again, whatever ran in between: nested run loops, callbacks,    *)
(* other compiled OPs, dies caught further up.  pa_get_targ (jitapi.c:318) *)
(* and pa_get_op_next (jitapi.c:377), which read the fields of PL_op, can  *)
(* be emitted anywhere.                                                    *)
OpAtBoundary == At("jit") /\ Top.pc = 1 => PL_op = Top.op

(* A native function called by compiled code finds in PL_op the OP it is   *)
(* called for, also after each of its own callbacks: the pp function of    *)
(* pa_pp_op the OP it implements (jitapi.c:412), any other one the OP that *)
(* the compiled function replaces.                                         *)
NativeSeesItsOp ==
  At("call") /\ Instr(Top).i = "call" =>
    PL_op = IF Instr(Top).fn \in {"pp", "closure"}
            THEN body[Top.op][Top.i].op ELSE Top.op

(* Every compiled function that waits for a level above it gets back the   *)
(* PL_op it is to continue with when that level restores what it saved     *)
(* (jitapi.c:366, 419), and a closure that pa_pp_op calls is called for    *)
(* the OP whose op_ppaddr it is.                                           *)
WaitingGetsItsOp ==
  \A n \in 1..Len(levels) - 1 :
    LET c == body[levels[n].op][levels[n].i]
    IN  /\ levels[n].at = "call"
        /\ levels[n + 1].saved =
             IF c.f = "pa_pp_op" THEN c.op ELSE levels[n].op

(* A process that goes on executing compiled code, in a loop, in a native  *)
(* function that calls back or by running a program again and again, has   *)
(* despatched every signal after a while, if each compiled OP has a check  *)
(* in its body and the process does not die for ever (jitapi.c:133-143,    *)
(* 207, 212): no path through the bodies misses all checks.  A program     *)
(* that ends, or that waits for ever outside of compiled code, may leave   *)
(* the signal pending; it is Perl's from then on.                          *)
Checks(c) ==
  c.f \in {"pa_async_check", "pa_pp_nextstate", "pa_pp_unstack"}
EveryBodyChecks ==
  \A o \in JitOp : o \in installed /\ \E i \in DOMAIN body[o] : Checks(body[o][i])
InCompiledCode == At("jit") \/ At("call")
SignalDespatched ==
  <>[][~Unwind]_vars /\ []<>InCompiledCode =>
    (EveryBodyChecks /\ sig_pending ~> ~sig_pending)

-----------------------------------------------------------------------------
(* JitPP implements the stack discipline of OpStack: an activation is a    *)
(* level, executing the OP that PL_op holds when control is in it, and the *)
(* OP saved in oldop while pa_pp_op executes another one inside it.        *)
PP(l) == l.at # "loop" /\ body[l.op][l.i].f = "pa_pp_op" /\ l.pc \in {3, 4}

CurOp(n) == IF n = Len(levels) THEN PL_op ELSE levels[n + 1].saved

OpsOf(n) == IF PP(levels[n]) THEN << levels[n].oldop, CurOp(n) >>
                             ELSE << CurOp(n) >>

Activations == [n \in 1..Len(levels) |-> OpsOf(n)]

Abstract == INSTANCE OpStack WITH succ <- op_succ, stack <- Activations

(* Nothing that compiled code starts - pa_pp_op, pa_call_runloop, a        *)
(* callback - ever changes the OP that an activation below it is at.       *)
ImplementsOpStack == Abstract!Spec

=============================================================================

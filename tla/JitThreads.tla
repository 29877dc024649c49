----------------------------- MODULE JitThreads -----------------------------
(***************************************************************************)
(* Compiled OPs and the interpreters of one process.                       *)
(*                                                                         *)
(* With ithreads, interpreters cloned from one another have variables of   *)
(* their own and share the optree: a closure that one of them puts into    *)
(* op_ppaddr is dispatched by all, from then on.  The code finds the       *)
(* variables of the interpreter that runs it through its parameter         *)
(* (jit_gTHX, the metadata that pa_create_pp attaches); on other perls it  *)
(* has the addresses of the interpreter that emitted it.  A context is a   *)
(* pointer in a Perl object, which a clone copies: interpreters share the  *)
(* context too, and its lock, which jit_context_build_start takes.         *)
(*                                                                         *)
(* The optree is shared only with ithreads, so only there are interpreters *)
(* cloned.  PL_op, the stacks and dies in running code are the matter of   *)
(* JitPP and JitStmt.                                                      *)
(***************************************************************************)
EXTENDS Integers, Sequences

CONSTANTS
  Interp, Main,   (* interpreters; the one perl_construct makes            *)
  Nobody,         (* the owner of a free lock                              *)
  JitOp,          (* the OPs that may get a closure                        *)
  Emits,          (* Emits[i]: the calls that i makes when it builds       *)
  MayDie,         (* the interpreters whose Perl code may die in a build   *)
  MaxBuilds,      (* how many functions a program builds                   *)
  MaxCalls,       (* bound on the emitter calls of a function              *)
  MaxDepth        (* bound on nested compiled code in an interpreter       *)

ASSUME ThreadsAssumption ==
  /\ Main \in Interp /\ Nobody \notin Interp
  /\ Emits \in [Interp -> SUBSET {"IVAR", "call", "undef"}]
  /\ MayDie \subseteq Interp
  /\ MaxBuilds \in Nat /\ MaxCalls \in Nat /\ MaxDepth \in Nat

VARIABLES
  perl,      (* the build of perl: which of the #ifdefs hold               *)
  status,    (* status[i]: "unborn", "running" or "ended"                  *)
  lock,      (* the owner of the builder lock of the context               *)
  build,     (* build[i]: "none", "waiting", "building" or "built"         *)
  fn,        (* fn[i]: the function that i creates and emits               *)
  builds,    (* how many builds have started                               *)
  ppaddr,    (* the closures put into op_ppaddr                            *)
  frames,    (* frames[i]: the compiled functions that i is executing      *)
  lost       (* history: a build has died, and left the lock taken         *)

vars == << perl, status, lock, build, fn, builds, ppaddr, frames, lost >>

(* base is where an operand comes from: the parameter of the function, the *)
(* address of a variable of the interpreter "of", or the C globals.        *)
Insn == [i : {"IVAR", "call", "undef"}, base : {"thx", "address", "global"},
         of : Interp]
Function == [meta : {"none", "thx", "global"}, code : Seq(Insn)]
NoFn == [meta |-> "none", code |-> << >>]

(* thx is the argument the closure was called with; arg, while a native    *)
(* function is running, the one that it was called with.                   *)
Frame == [code : Seq(Insn), pc : Nat \ {0}, thx : Interp,
          native : BOOLEAN, arg : Interp]

Init ==
  /\ perl \in {"ithreads", "multiplicity", "single"}
  /\ status = [i \in Interp |-> IF i = Main THEN "running" ELSE "unborn"]
  /\ lock = Nobody
  /\ build = [i \in Interp |-> "none"]
  /\ fn = [i \in Interp |-> NoFn]
  /\ builds = 0
  /\ ppaddr = [o \in JitOp |-> NoFn]
  /\ frames = [i \in Interp |-> << >>]
  /\ lost = FALSE

Top(i) == frames[i][Len(frames[i])]
SetTop(i, f) == frames' = [frames EXCEPT ![i][Len(frames[i])] = f]

(* Perl code runs in i, in its program or called by a native function.     *)
InPerl(i) ==
  /\ status[i] = "running" /\ build[i] # "waiting"
  /\ frames[i] # << >> => Top(i).native

-----------------------------------------------------------------------------
(* perl_clone, perl_destruct.                                              *)

Clone(i, j) ==
  /\ perl = "ithreads" /\ InPerl(i) /\ status[j] = "unborn"
  /\ status' = [status EXCEPT ![j] = "running"]
  /\ UNCHANGED << perl, lock, build, fn, builds, ppaddr, frames, lost >>

EndThread(i) ==
  /\ i # Main /\ InPerl(i) /\ frames[i] = << >> /\ build[i] = "none"
  /\ status' = [status EXCEPT ![i] = "ended"]
  /\ UNCHANGED << perl, lock, build, fn, builds, ppaddr, frames, lost >>

-----------------------------------------------------------------------------
(* Building.                                                               *)

(* A program that does not nest builds calls jit_context_build_start,      *)
(* which returns when it has the lock.                                     *)
jit_context_build_start(i) ==
  /\ InPerl(i) /\ build[i] = "none" /\ builds < MaxBuilds
  /\ build' = [build EXCEPT ![i] = "waiting"]
  /\ builds' = builds + 1
  /\ UNCHANGED << perl, status, lock, fn, ppaddr, frames, lost >>

BuildStarted(i) ==
  /\ build[i] = "waiting" /\ lock = Nobody
  /\ lock' = i
  /\ build' = [build EXCEPT ![i] = "building"]
  /\ UNCHANGED << perl, status, fn, builds, ppaddr, frames, lost >>

(* #ifdef PERL_IMPLICIT_CONTEXT: the parameter becomes metadata.           *)
pa_create_pp(i) ==
  /\ InPerl(i) /\ build[i] = "building" /\ fn[i].meta = "none"
  /\ fn' = [fn EXCEPT ![i].meta = IF perl = "single" THEN "global" ELSE "thx"]
  /\ UNCHANGED << perl, status, lock, build, builds, ppaddr, frames, lost >>

Operand(k, b, i) == [i |-> k, base |-> b, of |-> i]

(* IVAR, IVAR_address and IVAR_set: an offset into the interpreter with    *)
(* USE_ITHREADS, &PL_name of the emitting one without.                     *)
IVAR(i) ==
  Operand("IVAR", IF perl = "ithreads" THEN fn[i].meta ELSE "address", i)

(* Faulty variant: dTHX of the emission, as for undef.                     *)
jit_aTHX_emitted(i) == Operand("call", "address", i)

(* Faulty variant: metadata that is not there, as of a function that       *)
(* pa_create_pp did not make.                                              *)
jit_aTHX_no_meta(i) == Operand("call", "none", i)

(* The first argument of native calls; on "single" there is none.          *)
jit_aTHX(i) == Operand("call", fn[i].meta, i)

jit_value_create_undef_constant(i) == Operand("undef", "address", i)

Emit(i, k) ==
  /\ InPerl(i) /\ build[i] = "building"
  /\ fn[i].meta # "none" /\ Len(fn[i].code) < MaxCalls
  /\ fn' = [fn EXCEPT ![i].code =
              Append(@, CASE k = "IVAR" -> IVAR(i) [] k = "call" -> jit_aTHX(i)
                          [] k = "undef" -> jit_value_create_undef_constant(i))]
  /\ UNCHANGED << perl, status, lock, build, builds, ppaddr, frames, lost >>

(* Faulty variant: the lock stays taken.                                   *)
jit_context_build_end_kept(i) ==
  /\ InPerl(i) /\ build[i] = "building" /\ fn[i].meta # "none"
  /\ build' = [build EXCEPT ![i] = "built"]
  /\ UNCHANGED << perl, status, lock, fn, builds, ppaddr, frames, lost >>

(* jit_function_compile, and jit_context_build_end.                        *)
jit_context_build_end(i) ==
  /\ InPerl(i) /\ build[i] = "building" /\ fn[i].meta # "none"
  /\ lock' = Nobody
  /\ build' = [build EXCEPT ![i] = "built"]
  /\ UNCHANGED << perl, status, fn, builds, ppaddr, frames, lost >>

(* The closure goes into the optree, over any that is there.               *)
Install(i, o) ==
  /\ InPerl(i) /\ build[i] = "built"
  /\ ppaddr' = [ppaddr EXCEPT ![o] = fn[i]]
  /\ fn' = [fn EXCEPT ![i] = NoFn]
  /\ build' = [build EXCEPT ![i] = "none"]
  /\ UNCHANGED << perl, status, lock, builds, frames, lost >>

(* A die between build_start and build_end, caught outside them: nothing   *)
(* releases the lock.                                                      *)
DieInBuild(i) ==
  /\ i \in MayDie /\ InPerl(i) /\ build[i] = "building"
  /\ build' = [build EXCEPT ![i] = "none"]
  /\ fn' = [fn EXCEPT ![i] = NoFn]
  /\ lost' = TRUE
  /\ UNCHANGED << perl, status, lock, builds, ppaddr, frames >>

-----------------------------------------------------------------------------
(* Running.                                                                *)

(* The interpreter an instruction of a frame works on.                     *)
Address(f, n) == CASE n.base = "thx" -> f.thx [] n.base = "address" -> n.of
                   [] n.base = "global" -> Main

(* A run loop calls the closure with its own aTHX: that of the program, or *)
(* the one the native function that started it was called with.            *)
RunOp(i, o) ==
  /\ InPerl(i) /\ ppaddr[o] # NoFn /\ Len(frames[i]) < MaxDepth
  /\ LET thx == IF frames[i] = << >> THEN i ELSE Top(i).arg
     IN  frames' = [frames EXCEPT ![i] =
           Append(@, [code |-> ppaddr[o].code, pc |-> 1, thx |-> thx,
                      native |-> FALSE, arg |-> thx])]
  /\ UNCHANGED << perl, status, lock, build, fn, builds, ppaddr, lost >>

Executing(i) ==
  frames[i] # << >> /\ ~Top(i).native /\ Top(i).pc <= Len(Top(i).code)

Next_(i) == Top(i).code[Top(i).pc]

Exec(i) ==
  /\ Executing(i)
  /\ SetTop(i, IF Next_(i).i = "call"
               THEN [Top(i) EXCEPT !.native = TRUE, !.arg = Address(Top(i), Next_(i))]
               ELSE [Top(i) EXCEPT !.pc = @ + 1])
  /\ UNCHANGED << perl, status, lock, build, fn, builds, ppaddr, lost >>

NativeReturns(i) ==
  /\ frames[i] # << >> /\ Top(i).native /\ build[i] # "waiting"
  /\ SetTop(i, [Top(i) EXCEPT !.native = FALSE, !.pc = @ + 1])
  /\ UNCHANGED << perl, status, lock, build, fn, builds, ppaddr, lost >>

Return(i) ==
  /\ frames[i] # << >> /\ ~Top(i).native /\ Top(i).pc > Len(Top(i).code)
  /\ frames' = [frames EXCEPT ![i] = SubSeq(@, 1, Len(@) - 1)]
  /\ UNCHANGED << perl, status, lock, build, fn, builds, ppaddr, lost >>

Step(i) ==
  \/ \E j \in Interp : Clone(i, j)
  \/ EndThread(i)
  \/ jit_context_build_start(i) \/ BuildStarted(i) \/ pa_create_pp(i)
  \/ \E k \in Emits[i] : Emit(i, k)
  \/ jit_context_build_end(i) \/ DieInBuild(i)
  \/ \E o \in JitOp : Install(i, o) \/ RunOp(i, o)
  \/ Exec(i) \/ NativeReturns(i) \/ Return(i)

Next == \E i \in Interp : Step(i)

Spec == Init /\ [][Next]_vars

(* A thread whose turn comes takes the lock when it is free (it is weakly  *)
(* fair: a mutex may pass a thread over, but programs build finitely       *)
(* often), and a program that began a build goes on to end it, if it does  *)
(* not die, in between the compiled code that it runs.                     *)
FairSpec ==
  /\ Spec
  /\ \A i \in Interp :
       /\ WF_vars(BuildStarted(i))
       /\ WF_vars(Exec(i) \/ Return(i))
       /\ SF_vars(NativeReturns(i))
       /\ SF_vars(pa_create_pp(i)) /\ SF_vars(jit_context_build_end(i))

-----------------------------------------------------------------------------
(* The type invariant.                                                     *)
TypeOK ==
  /\ perl \in {"ithreads", "multiplicity", "single"}
  /\ status \in [Interp -> {"unborn", "running", "ended"}]
  /\ lock \in Interp \cup {Nobody}
  /\ build \in [Interp -> {"none", "waiting", "building", "built"}]
  /\ fn \in [Interp -> Function] /\ ppaddr \in [JitOp -> Function]
  /\ builds \in Nat
  /\ frames \in [Interp -> Seq(Frame)]
  /\ lost \in BOOLEAN

(* Compiled code reads and writes the interpreter variables of the         *)
(* interpreter that runs it, and calls native functions for it, whoever    *)
(* built it and through whatever callbacks it is reached (jitapi.c:32-89,  *)
(* 389-398; gen-jitapi.h:9-20).  The constant for undef is excepted: its   *)
(* address is that of the interpreter that emitted it (init.cpp:173-181).  *)
OwnVariables ==
  \A i \in Interp :
    Executing(i) /\ Next_(i).i # "undef" => Address(Top(i), Next_(i)) = i

(* An interpreter that asks to build does build, whoever builds before it  *)
(* and runs compiled code in between, unless the build of another has      *)
(* died: its lock is nobody's to release (context.xsp:10).                 *)
BuilderGetsLock ==
  \A i \in Interp : build[i] = "waiting" ~> build[i] = "building" \/ lost

=============================================================================

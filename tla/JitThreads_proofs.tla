------------------------- MODULE JitThreads_proofs -------------------------
(***************************************************************************)
(* Proofs about JitThreads, for any interpreters, OPs, programs and        *)
(* bounds.  Code that is emitted refers to interpreter variables by the    *)
(* parameter, or by addresses where only one interpreter ever runs; and a  *)
(* closure is called with the interpreter that calls it.                   *)
(***************************************************************************)
EXTENDS JitThreads, TLAPS

(* An operand that is right for every interpreter that may execute it.     *)
Own(n) ==
  n.i # "undef" =>
    IF perl = "ithreads" THEN n.base = "thx"
    ELSE n.base \in {"thx", "global"} \/ (n.base = "address" /\ n.of = Main)

OwnCode(c) == \A n \in DOMAIN c : Own(c[n])

OwnEmitted ==
  /\ \A i \in Interp : OwnCode(fn[i].code)
  /\ \A i \in Interp : perl # "single" => fn[i].meta # "global"
  /\ \A o \in JitOp : OwnCode(ppaddr[o].code)

OwnFrames ==
  \A i \in Interp : \A n \in DOMAIN frames[i] :
    /\ frames[i][n].thx = i /\ frames[i][n].arg = i
    /\ OwnCode(frames[i][n].code)

(* Without ithreads there is one interpreter; only running ones have code  *)
(* to execute.                                                             *)
Alone ==
  /\ perl # "ithreads" => \A i \in Interp : i # Main => status[i] = "unborn"
  /\ \A i \in Interp : status[i] # "running" => frames[i] = << >>

(* The inductive invariant.                                                *)
IInv == TypeOK /\ OwnEmitted /\ OwnFrames /\ Alone

-----------------------------------------------------------------------------
(* Sequences that grow or shrink at the end.                               *)

LEMMA AppendOwn ==
  ASSUME NEW c \in Seq(Insn), NEW n \in Insn, OwnCode(c), Own(n)
  PROVE  Append(c, n) \in Seq(Insn) /\ OwnCode(Append(c, n))
<1>1. Append(c, n) \in Seq(Insn)
  OBVIOUS
<1>2. ASSUME NEW m \in DOMAIN Append(c, n) PROVE Own(Append(c, n)[m])
  <2>1. CASE m \in DOMAIN c
    <3>1. Append(c, n)[m] = c[m] BY <2>1
    <3> QED BY <2>1, <3>1 DEF OwnCode
  <2>2. CASE m \notin DOMAIN c
    <3>1. m = Len(c) + 1 BY <2>2, <1>2
    <3>2. Append(c, n)[m] = n BY <3>1
    <3> QED BY <3>2
  <2> QED BY <2>1, <2>2
<1> QED BY <1>1, <1>2 DEF OwnCode

(* The last frame of an interpreter that has one.                          *)
LEMMA TopFrame ==
  ASSUME TypeOK, NEW i \in Interp, frames[i] # << >>
  PROVE  /\ Len(frames[i]) \in DOMAIN frames[i]
         /\ Top(i) \in Frame
<1>1. frames[i] \in Seq(Frame) BY DEF TypeOK
<1>2. Len(frames[i]) \in Nat /\ DOMAIN frames[i] = 1..Len(frames[i]) BY <1>1
<1>3. Len(frames[i]) # 0 BY <1>1
<1> QED BY <1>1, <1>2, <1>3 DEF Top

(* Code that keeps to its own operands works on its own interpreter.       *)
LEMMA OwnAddress ==
  ASSUME IInv, NEW i \in Interp, Executing(i), Next_(i).i # "undef"
  PROVE  Address(Top(i), Next_(i)) = i
<1>1. frames[i] # << >> BY DEF Executing
<1>2. Top(i) \in Frame /\ Top(i).thx = i /\ OwnCode(Top(i).code)
  BY <1>1, TopFrame DEF IInv, OwnFrames, Top
<1>3. Top(i).code \in Seq(Insn) /\ Top(i).pc \in 1..Len(Top(i).code)
  BY <1>2 DEF Frame, Executing
<1>4. Next_(i) \in Insn /\ Own(Next_(i))
  BY <1>2, <1>3 DEF Next_, OwnCode
<1>5. CASE perl = "ithreads"
  BY <1>2, <1>4, <1>5 DEF Own, Address
<1>6. CASE perl # "ithreads"
  <2>1. i = Main BY <1>1, <1>6 DEF IInv, Alone
  <2> QED BY <1>2, <1>4, <1>6, <2>1 DEF Own, Address
<1> QED BY <1>5, <1>6

-----------------------------------------------------------------------------
(* What is emitted is right for whoever executes it.                       *)
LEMMA EmittedOwn ==
  ASSUME IInv, NEW i \in Interp, InPerl(i), fn[i].meta # "none"
  PROVE  /\ IVAR(i) \in Insn /\ Own(IVAR(i))
         /\ jit_aTHX(i) \in Insn /\ Own(jit_aTHX(i))
         /\ jit_value_create_undef_constant(i) \in Insn
         /\ Own(jit_value_create_undef_constant(i))
<1>1. fn[i].meta \in {"thx", "global"}
  BY DEF IInv, TypeOK, Function
<1>2. perl \in {"ithreads", "multiplicity", "single"}
  BY DEF IInv, TypeOK
<1>3. perl # "single" => fn[i].meta = "thx"
  BY <1>1 DEF IInv, OwnEmitted
<1>4. perl # "ithreads" => i = Main
  BY DEF IInv, Alone, InPerl
<1> QED
  BY <1>1, <1>2, <1>3, <1>4
     DEF IVAR, jit_aTHX, jit_value_create_undef_constant, Operand, Insn, Own

(* A frame that is pushed, replaced or dropped at the end of the frames of *)
(* one interpreter.                                                        *)
LEMMA FramesPushed ==
  ASSUME TypeOK, OwnFrames, NEW i \in Interp, NEW f \in Frame,
         f.thx = i, f.arg = i, OwnCode(f.code), UNCHANGED perl,
         frames' = [frames EXCEPT ![i] = Append(@, f)]
  PROVE  frames' \in [Interp -> Seq(Frame)] /\ OwnFrames'
<1>1. frames \in [Interp -> Seq(Frame)] BY DEF TypeOK
<1>2. frames' \in [Interp -> Seq(Frame)] BY <1>1
<1>3. ASSUME NEW j \in Interp, NEW n \in DOMAIN frames'[j]
      PROVE  /\ frames'[j][n].thx = j /\ frames'[j][n].arg = j
             /\ OwnCode(frames'[j][n].code)
  <2>1. CASE j = i /\ n = Len(frames[i]) + 1
    BY <1>1, <2>1
  <2>2. CASE ~(j = i /\ n = Len(frames[i]) + 1)
    <3>1. n \in DOMAIN frames[j] /\ frames'[j][n] = frames[j][n]
      BY <1>1, <1>3, <2>2
    <3> QED BY <3>1 DEF OwnFrames
  <2> QED BY <2>1, <2>2
<1>4. OwnFrames'
  BY <1>3 DEF OwnFrames, OwnCode, Own
<1> QED BY <1>2, <1>4

LEMMA FramesSet ==
  ASSUME TypeOK, OwnFrames, NEW i \in Interp, NEW f \in Frame,
         frames[i] # << >>, f.thx = i, f.arg = i, OwnCode(f.code),
         UNCHANGED perl, SetTop(i, f)
  PROVE  frames' \in [Interp -> Seq(Frame)] /\ OwnFrames'
<1>1. frames \in [Interp -> Seq(Frame)] BY DEF TypeOK
<1>2. frames' = [frames EXCEPT ![i] = [@ EXCEPT ![Len(frames[i])] = f]]
  BY DEF SetTop
<1>3. frames' \in [Interp -> Seq(Frame)] BY <1>1, <1>2
<1>4. ASSUME NEW j \in Interp, NEW n \in DOMAIN frames'[j]
      PROVE  /\ frames'[j][n].thx = j /\ frames'[j][n].arg = j
             /\ OwnCode(frames'[j][n].code)
  <2>1. CASE j = i /\ n = Len(frames[i])
    BY <1>1, <1>2, <1>4, <2>1
  <2>2. CASE ~(j = i /\ n = Len(frames[i]))
    <3>1. n \in DOMAIN frames[j] /\ frames'[j][n] = frames[j][n]
      BY <1>1, <1>2, <1>4, <2>2
    <3> QED BY <3>1 DEF OwnFrames
  <2> QED BY <2>1, <2>2
<1>5. OwnFrames'
  BY <1>4 DEF OwnFrames, OwnCode, Own
<1> QED BY <1>3, <1>5

LEMMA FramesPopped ==
  ASSUME TypeOK, OwnFrames, NEW i \in Interp, frames[i] # << >>, UNCHANGED perl,
         frames' = [frames EXCEPT ![i] = SubSeq(@, 1, Len(@) - 1)]
  PROVE  frames' \in [Interp -> Seq(Frame)] /\ OwnFrames'
<1>1. frames \in [Interp -> Seq(Frame)] BY DEF TypeOK
<1>2. Len(frames[i]) \in Nat \ {0} BY <1>1
<1>3. SubSeq(frames[i], 1, Len(frames[i]) - 1) \in Seq(Frame)
  BY <1>1, <1>2
<1>4. frames' \in [Interp -> Seq(Frame)] BY <1>1, <1>3
<1>5. ASSUME NEW j \in Interp, NEW n \in DOMAIN frames'[j]
      PROVE  n \in DOMAIN frames[j] /\ frames'[j][n] = frames[j][n]
  BY <1>1, <1>2, <1>5
<1>6. OwnFrames'
  BY <1>5 DEF OwnFrames, OwnCode, Own
<1> QED BY <1>4, <1>6

-----------------------------------------------------------------------------
LEMMA InitIInv == Init => IInv
<1> SUFFICES ASSUME Init PROVE IInv
  OBVIOUS
<1> USE ThreadsAssumption DEF Init
<1>1. TypeOK
  <2>1. status \in [Interp -> {"unborn", "running", "ended"}]
        /\ lost \in BOOLEAN
    OBVIOUS
  <2>2. NoFn \in Function
    BY DEF NoFn, Function
  <2>3. fn \in [Interp -> Function] /\ ppaddr \in [JitOp -> Function]
    BY <2>2
  <2> QED BY <2>1, <2>3 DEF TypeOK
<1>2. OwnEmitted
  BY DEF OwnEmitted, OwnCode, NoFn
<1>3. OwnFrames
  BY DEF OwnFrames
<1>4. Alone
  BY DEF Alone
<1> QED BY <1>1, <1>2, <1>3, <1>4 DEF IInv

(* Steps that leave the frames alone.                                      *)
LEMMA BuildIInv ==
  ASSUME IInv, NEW i \in Interp,
         \/ \E j \in Interp : Clone(i, j)
         \/ EndThread(i) \/ jit_context_build_start(i) \/ BuildStarted(i)
         \/ pa_create_pp(i) \/ (\E k \in Emits[i] : Emit(i, k))
         \/ jit_context_build_end(i) \/ DieInBuild(i)
         \/ (\E o \in JitOp : Install(i, o))
  PROVE  IInv'
<1> USE ThreadsAssumption
<1>0. UNCHANGED << perl, frames >>
  BY DEF Clone, EndThread, jit_context_build_start, BuildStarted, pa_create_pp,
         Emit, jit_context_build_end, DieInBuild, Install
<1>1. OwnFrames'
  BY <1>0 DEF IInv, OwnFrames, OwnCode, Own
<1>3. CASE \E j \in Interp : Clone(i, j)
  BY <1>1, <1>3 DEF IInv, Clone, TypeOK, OwnEmitted, OwnCode, Own, Alone, InPerl
<1>4. CASE EndThread(i)
  BY <1>1, <1>4
     DEF IInv, EndThread, TypeOK, OwnEmitted, OwnCode, Own, Alone, InPerl
<1>5. CASE \/ jit_context_build_start(i) \/ BuildStarted(i)
           \/ jit_context_build_end(i)
  <2>1. UNCHANGED << status, fn, ppaddr, lost >>
    BY <1>5 DEF jit_context_build_start, BuildStarted, jit_context_build_end
  <2>2. /\ lock' \in Interp \cup {Nobody} /\ builds' \in Nat
        /\ build' \in [Interp -> {"none", "waiting", "building", "built"}]
    <3>1. CASE jit_context_build_start(i)
      BY <3>1 DEF jit_context_build_start, IInv, TypeOK
    <3>2. CASE BuildStarted(i)
      <4>1. lock' = i /\ builds' = builds
            /\ build' = [build EXCEPT ![i] = "building"]
        BY <3>2 DEF BuildStarted
      <4> QED BY <4>1 DEF IInv, TypeOK
    <3>3. CASE jit_context_build_end(i)
      <4>1. lock' = Nobody /\ builds' = builds
            /\ build' = [build EXCEPT ![i] = "built"]
        BY <3>3 DEF jit_context_build_end
      <4> QED BY <4>1 DEF IInv, TypeOK
    <3> QED BY <1>5, <3>1, <3>2, <3>3
  <2>3. TypeOK' BY <1>0, <2>1, <2>2 DEF IInv, TypeOK
  <2>4. OwnEmitted' /\ Alone'
    BY <1>0, <2>1 DEF IInv, OwnEmitted, OwnCode, Own, Alone
  <2> QED BY <1>1, <2>3, <2>4 DEF IInv
<1>6. CASE pa_create_pp(i)
  <2>1. UNCHANGED << status, lock, build, builds, ppaddr, lost >>
    BY <1>6 DEF pa_create_pp
  <2>2. PICK meta \in {"thx", "global"} :
          /\ fn' = [fn EXCEPT ![i].meta = meta]
          /\ perl # "single" => meta # "global"
    BY <1>6 DEF pa_create_pp
  <2>3. fn' \in [Interp -> Function]
    BY <2>2 DEF IInv, TypeOK, Function
  <2>4. \A j \in Interp :
          fn'[j].code = fn[j].code /\ (fn'[j].meta = fn[j].meta \/ fn'[j].meta = meta)
    BY <2>2 DEF IInv, TypeOK, Function
  <2>5. TypeOK' BY <1>0, <2>1, <2>3 DEF IInv, TypeOK
  <2>6. OwnEmitted' /\ Alone'
    BY <1>0, <2>1, <2>2, <2>4 DEF IInv, OwnEmitted, OwnCode, Own, Alone
  <2> QED BY <1>1, <2>5, <2>6 DEF IInv
<1>7. CASE \E k \in Emits[i] : Emit(i, k)
  <2>1. PICK n \in Insn : /\ Own(n)
                          /\ fn' = [fn EXCEPT ![i].code = Append(@, n)]
    BY <1>7, EmittedOwn, ThreadsAssumption DEF Emit
  <2>2. fn[i].code \in Seq(Insn) /\ OwnCode(fn[i].code)
    BY DEF IInv, TypeOK, Function, OwnEmitted
  <2>3. Append(fn[i].code, n) \in Seq(Insn) /\ OwnCode(Append(fn[i].code, n))
    BY <2>1, <2>2, AppendOwn
  <2>4. fn' \in [Interp -> Function]
    BY <2>1, <2>3 DEF IInv, TypeOK, Function
  <2>5. /\ \A j \in Interp : OwnCode(fn'[j].code) /\ fn'[j].meta = fn[j].meta
    BY <2>1, <2>3 DEF IInv, TypeOK, Function, OwnEmitted
  <2>6. TypeOK'
    BY <1>7, <2>4 DEF Emit, IInv, TypeOK
  <2>7. OwnEmitted' /\ Alone'
    BY <1>7, <2>5 DEF Emit, IInv, OwnEmitted, Alone, OwnCode, Own
  <2> QED BY <1>1, <2>6, <2>7 DEF IInv
<1>8. CASE DieInBuild(i)
  BY <1>1, <1>8
     DEF IInv, DieInBuild, TypeOK, NoFn, Function, OwnEmitted, OwnCode, Own, Alone
<1>9. CASE \E o \in JitOp : Install(i, o)
  BY <1>1, <1>9
     DEF IInv, Install, TypeOK, NoFn, Function, OwnEmitted, OwnCode, Own, Alone
<1> QED BY <1>3, <1>4, <1>5, <1>6, <1>7, <1>8, <1>9

(* Steps that change the frames.                                           *)
LEMMA RunIInv ==
  ASSUME IInv, NEW i \in Interp,
         \/ (\E o \in JitOp : RunOp(i, o))
         \/ Exec(i) \/ NativeReturns(i) \/ Return(i)
  PROVE  IInv'
<1> USE ThreadsAssumption
<1>0. UNCHANGED << perl, status, lock, build, fn, builds, ppaddr, lost >>
  BY DEF RunOp, Exec, NativeReturns, Return
<1>1. OwnEmitted'
  BY <1>0 DEF IInv, OwnEmitted, OwnCode, Own
<1>2. frames[i] # << >> => /\ Top(i) \in Frame /\ Top(i).thx = i
                           /\ Top(i).arg = i /\ OwnCode(Top(i).code)
  BY TopFrame DEF IInv, OwnFrames, Top
<1>3. status[i] = "running" /\ \A j \in Interp : j # i => frames'[j] = frames[j]
  <2>1. status[i] = "running"
    BY DEF RunOp, Exec, Executing, NativeReturns, Return, InPerl, IInv, Alone
  <2> QED
    BY <2>1 DEF RunOp, Exec, NativeReturns, Return, SetTop, IInv, TypeOK
<1>4. frames' \in [Interp -> Seq(Frame)] /\ OwnFrames'
  <2>1. CASE \E o \in JitOp : RunOp(i, o)
    <3>1. PICK o \in JitOp : RunOp(i, o) BY <2>1
    <3> DEFINE f == [code |-> ppaddr[o].code, pc |-> 1, thx |-> i,
                     native |-> FALSE, arg |-> i]
    <3>2. frames' = [frames EXCEPT ![i] = Append(@, f)]
      BY <1>2, <3>1 DEF RunOp
    <3>3. f \in Frame /\ OwnCode(f.code)
      BY DEF IInv, TypeOK, Function, Frame, OwnEmitted
    <3> HIDE DEF f
    <3>4. f.thx = i /\ f.arg = i
      BY DEF f
    <3> QED BY <1>0, <3>2, <3>3, <3>4, FramesPushed DEF IInv
  <2>2. CASE Exec(i)
    <3>1. frames[i] # << >> /\ Executing(i) BY <2>2 DEF Exec, Executing
    <3>2. CASE Next_(i).i = "call"
      <4>1. Address(Top(i), Next_(i)) = i BY <3>1, <3>2, OwnAddress
      <4> DEFINE f == [Top(i) EXCEPT !.native = TRUE, !.arg = i]
      <4>2. SetTop(i, f) BY <2>2, <3>2, <4>1 DEF Exec
      <4>3. f \in Frame /\ f.thx = i /\ f.arg = i /\ f.code = Top(i).code
        BY <1>2, <3>1 DEF Frame
      <4> HIDE DEF f
      <4> QED BY <1>0, <1>2, <3>1, <4>2, <4>3, FramesSet DEF IInv
    <3>3. CASE Next_(i).i # "call"
      <4> DEFINE f == [Top(i) EXCEPT !.pc = @ + 1]
      <4>2. SetTop(i, f) BY <2>2, <3>3 DEF Exec
      <4>3. f \in Frame /\ f.thx = i /\ f.arg = i /\ f.code = Top(i).code
        BY <1>2, <3>1 DEF Frame
      <4> HIDE DEF f
      <4> QED BY <1>0, <1>2, <3>1, <4>2, <4>3, FramesSet DEF IInv
    <3> QED BY <3>2, <3>3
  <2>3. CASE NativeReturns(i)
    <3> DEFINE f == [Top(i) EXCEPT !.native = FALSE, !.pc = @ + 1]
    <3>1. frames[i] # << >> /\ SetTop(i, f) BY <2>3 DEF NativeReturns
    <3>2. f \in Frame /\ f.thx = i /\ f.arg = i /\ f.code = Top(i).code
      <4> DEFINE g == [Top(i) EXCEPT !.native = FALSE]
      <4>1. /\ g \in Frame /\ g.thx = i /\ g.arg = i /\ g.code = Top(i).code
            /\ g.pc = Top(i).pc
        BY <1>2, <3>1 DEF Frame
      <4>2. f = [g EXCEPT !.pc = g.pc + 1]
        BY <4>1
      <4> HIDE DEF f, g
      <4> QED BY <4>1, <4>2 DEF Frame
    <3> HIDE DEF f
    <3> QED BY <1>0, <1>2, <3>1, <3>2, FramesSet DEF IInv
  <2>4. CASE Return(i)
    BY <1>0, <2>4, FramesPopped DEF Return, IInv
  <2> QED BY <2>1, <2>2, <2>3, <2>4
<1>5. TypeOK'
  BY <1>0, <1>4 DEF IInv, TypeOK
<1>6. Alone'
  BY <1>0, <1>3 DEF IInv, Alone
<1> QED BY <1>1, <1>4, <1>5, <1>6 DEF IInv

LEMMA NextIInv == IInv /\ [Next]_vars => IInv'
<1> SUFFICES ASSUME IInv, [Next]_vars PROVE IInv'
  OBVIOUS
<1>1. CASE Next
  <2>1. PICK i \in Interp : Step(i) BY <1>1 DEF Next
  <2> QED BY <2>1, BuildIInv, RunIInv DEF Step
<1>2. CASE UNCHANGED vars
  BY <1>2 DEF vars, IInv, TypeOK, OwnEmitted, OwnFrames, Alone, OwnCode, Own
<1> QED BY <1>1, <1>2

-----------------------------------------------------------------------------
THEOREM Invariance == Spec => []IInv
BY InitIInv, NextIInv, PTL DEF Spec

(* Every variable of JitThreads keeps its type.                            *)
THEOREM TypeCorrect == Spec => []TypeOK
<1>1. IInv => TypeOK
  BY DEF IInv
<1> QED BY Invariance, <1>1, PTL

(* Compiled code works on the variables of the interpreter that runs it,   *)
(* whatever interpreters there are and whoever built it, the constant for  *)
(* undef excepted.                                                         *)
THEOREM VariablesOwned == Spec => []OwnVariables
<1>1. IInv => OwnVariables
  BY OwnAddress DEF OwnVariables
<1> QED BY Invariance, <1>1, PTL

=============================================================================

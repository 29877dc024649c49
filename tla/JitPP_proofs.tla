---------------------------- MODULE JitPP_proofs ----------------------------
(***************************************************************************)
(* Proofs about JitPP: the type invariant and the ownership of PL_op, for  *)
(* every optree, every set of compiled bodies and every depth of nesting.  *)
(***************************************************************************)
EXTENDS JitPP, TLAPS, SequenceTheorems

-----------------------------------------------------------------------------
(* The code of the emitters other than pa_pp_op: what instructions it may  *)
(* hold, and that its branches have a label to go to.                      *)

Cond      == {"sig_pending", "tmps_gt", "save_gt"}
LabelName == {"not_pending", "tmps_not_gt", "save_not_gt"}

PlainInsn ==
  [i : {"set"}, var : {"curcop", "tainted"}, val : Op \cup BOOLEAN]
    \cup [i : {"restore_sp"}]
    \cup [i : {"branch_if_not"}, cond : Cond, label : LabelName]
    \cup [i : {"label"}, label : LabelName]
    \cup [i : {"call"}, fn : NativeFn \cup {"signalhook", "free_tmps", "leave_scope"}]

Labelled(s) ==
  \A j \in 1..Len(s) : s[j].i = "branch_if_not" =>
    \E k \in 1..Len(s) : s[k] = Label(s[j].label)

PlainCode(s) == s \in Seq(PlainInsn) /\ Labelled(s)

(* Putting the code of one emitter after that of another keeps both facts. *)
LEMMA PlainConcat ==
  ASSUME NEW s, NEW t, PlainCode(s), PlainCode(t)
  PROVE  PlainCode(s \o t) /\ Len(s \o t) = Len(s) + Len(t)
<1>1. /\ s \o t \in Seq(PlainInsn)
      /\ Len(s \o t) = Len(s) + Len(t)
      /\ \A j \in 1..Len(s) + Len(t) :
           (s \o t)[j] = IF j <= Len(s) THEN s[j] ELSE t[j - Len(s)]
  BY ConcatProperties DEF PlainCode
<1>2. Labelled(s \o t)
  <2> SUFFICES ASSUME NEW j \in 1..Len(s) + Len(t),
                      (s \o t)[j].i = "branch_if_not"
               PROVE  \E k \in 1..Len(s) + Len(t) :
                        (s \o t)[k] = Label((s \o t)[j].label)
    BY <1>1 DEF Labelled
  <2>0. Len(s) \in Nat /\ Len(t) \in Nat
    BY DEF PlainCode
  <2>1. CASE j <= Len(s)
    <3>1. PICK k \in 1..Len(s) : s[k] = Label(s[j].label)
      BY <1>1, <2>0, <2>1 DEF PlainCode, Labelled
    <3> QED
      BY <1>1, <2>0, <2>1, <3>1
  <2>2. CASE j > Len(s)
    <3>1. j - Len(s) \in 1..Len(t) /\ (s \o t)[j] = t[j - Len(s)]
      BY <1>1, <2>0, <2>2
    <3>2. PICK k \in 1..Len(t) : t[k] = Label(t[j - Len(s)].label)
      BY <3>1 DEF PlainCode, Labelled
    <3>3. k + Len(s) \in 1..Len(s) + Len(t) /\ (s \o t)[k + Len(s)] = t[k]
      BY <1>1, <2>0
    <3> QED
      BY <3>1, <3>2, <3>3
  <2> QED
    BY <2>0, <2>1, <2>2
<1> QED
  BY <1>1, <1>2 DEF PlainCode

(* The two shapes of code they are built from: a single instruction, and a *)
(* call that a branch skips.                                               *)
LEMMA PlainOne ==
  ASSUME NEW x \in PlainInsn, x.i # "branch_if_not"
  PROVE  PlainCode(<< x >>) /\ Len(<< x >>) = 1
<1>1. << x >> \in Seq(PlainInsn) /\ Len(<< x >>) = 1 /\ << x >>[1] = x
  OBVIOUS
<1>2. Labelled(<< x >>)
  BY <1>1 DEF Labelled
<1> QED
  BY <1>1, <1>2 DEF PlainCode

Skip(cond, fn, l) == << BranchIfNot(cond, l), CallNative(fn), Label(l) >>

LEMMA PlainSkip ==
  ASSUME NEW cond \in Cond, NEW l \in LabelName,
         NEW fn \in {"signalhook", "free_tmps", "leave_scope"}
  PROVE  PlainCode(Skip(cond, fn, l)) /\ Len(Skip(cond, fn, l)) = 3
<1> DEFINE s == << BranchIfNot(cond, l), CallNative(fn), Label(l) >>
<1>0. Skip(cond, fn, l) = s
  BY DEF Skip
<1>1. BranchIfNot(cond, l) \in PlainInsn /\ BranchIfNot(cond, l).label = l
  BY DEF PlainInsn, BranchIfNot
<1>2. CallNative(fn) \in PlainInsn /\ CallNative(fn).i = "call"
  BY DEF PlainInsn, CallNative
<1>3. Label(l) \in PlainInsn /\ Label(l).i = "label"
  BY DEF PlainInsn, Label
<1>4. s \in Seq(PlainInsn) /\ Len(s) = 3
  BY <1>1, <1>2, <1>3
<1>5. Labelled(s)
  <2> SUFFICES ASSUME NEW j \in 1..3, s[j].i = "branch_if_not"
               PROVE  s[3] = Label(s[j].label)
    BY <1>4 DEF Labelled
  <2>1. j = 1
    BY <1>2, <1>3
  <2> QED
    BY <1>1, <2>1
<1>6. PlainCode(s)
  BY <1>4, <1>5 DEF PlainCode
<1> QED
  BY <1>0, <1>4, <1>6

(* The building blocks of the emitters.                                    *)
LEMMA PlainParts ==
  /\ PlainCode(pa_async_check) /\ Len(pa_async_check) = 3
  /\ PlainCode(pa_taint_not) /\ Len(pa_taint_not) = 1
  /\ PlainCode(pa_freetmps) /\ Len(pa_freetmps) = 3
  /\ PlainCode(pa_leave_scope) /\ Len(pa_leave_scope) = 3
  /\ PlainCode(restore_stack_sp) /\ Len(restore_stack_sp) = 1
<1>1. SetVar("tainted", FALSE) \in PlainInsn /\ SetVar("tainted", FALSE).i = "set"
  BY DEF PlainInsn, SetVar
<1>2. RestoreSp \in PlainInsn /\ RestoreSp.i = "restore_sp"
  BY DEF PlainInsn, RestoreSp
<1>3. PlainCode(pa_taint_not) /\ Len(pa_taint_not) = 1
  BY <1>1, PlainOne DEF pa_taint_not
<1>4. PlainCode(restore_stack_sp) /\ Len(restore_stack_sp) = 1
  BY <1>2, PlainOne DEF restore_stack_sp
<1>5. PlainCode(pa_async_check) /\ Len(pa_async_check) = 3
  <2>1. pa_async_check = Skip("sig_pending", "signalhook", "not_pending")
    BY DEF pa_async_check, Skip
  <2> QED
    BY <2>1, PlainSkip DEF Cond, LabelName
<1>6. PlainCode(pa_freetmps) /\ Len(pa_freetmps) = 3
  <2>1. pa_freetmps = Skip("tmps_gt", "free_tmps", "tmps_not_gt")
    BY DEF pa_freetmps, Skip
  <2> QED
    BY <2>1, PlainSkip DEF Cond, LabelName
<1>7. PlainCode(pa_leave_scope) /\ Len(pa_leave_scope) = 3
  <2>1. pa_leave_scope = Skip("save_gt", "leave_scope", "save_not_gt")
    BY DEF pa_leave_scope, Skip
  <2> QED
    BY <2>1, PlainSkip DEF Cond, LabelName
<1> QED
  BY <1>3, <1>4, <1>5, <1>6, <1>7

LEMMA PlainEmpty == PlainCode(<< >>) /\ Len(<< >>) = 0
BY DEF PlainCode, Labelled

(* Every emitter call but pa_pp_op, pa_call_runloop and the return.        *)
LEMMA PlainCalls ==
  ASSUME NEW c \in Call, c.f \notin {"pa_pp_op", "pa_call_runloop", "return"}
  PROVE  PlainCode(Code(c)) /\ Len(Code(c)) >= 1
<1>1. CASE c.f = "pa_pp_nextstate"
  <2>1. c.op \in Op
    BY <1>1 DEF Call
  <2>0. SetVar("curcop", c.op) \in PlainInsn /\ SetVar("curcop", c.op).i = "set"
    BY <2>1 DEF PlainInsn, SetVar
  <2>2. PlainCode(pa_pp_nextstate(c.op)) /\ Len(pa_pp_nextstate(c.op)) >= 1
    BY <2>0, PlainOne, PlainParts, PlainConcat DEF pa_pp_nextstate
  <2> QED
    BY <1>1, <2>2 DEF Code
<1>2. CASE c.f = "pa_pp_unstack"
  <2>1. c.leave \in BOOLEAN
    BY <1>2 DEF Call
  <2> DEFINE tail == IF c.leave THEN pa_leave_scope ELSE << >>
             head == pa_async_check \o pa_taint_not \o restore_stack_sp \o pa_freetmps
  <2>2. PlainCode(tail) /\ Len(tail) >= 0
    BY <2>1, PlainParts, PlainEmpty
  <2>3. PlainCode(head) /\ Len(head) >= 1
    BY PlainParts, PlainConcat
  <2> HIDE DEF head, tail
  <2>4. PlainCode(head \o tail) /\ Len(head \o tail) >= 1
    BY <2>2, <2>3, PlainConcat
  <2>5. pa_pp_unstack(c.leave) = head \o tail
    BY DEF pa_pp_unstack, head, tail
  <2> QED
    BY <1>2, <2>4, <2>5 DEF Code
<1>3. CASE c.f = "native"
  <2>1. c.fn \in NativeFn
    BY <1>3 DEF Call
  <2>2. CallNative(c.fn) \in PlainInsn /\ CallNative(c.fn).i = "call"
    BY <2>1 DEF PlainInsn, CallNative
  <2> QED
    BY <1>3, <2>2, PlainOne DEF Code, native_wrapper
<1>4. CASE c.f = "pa_async_check"
  BY <1>4, PlainParts DEF Code
<1>5. CASE c.f = "pa_taint_not"
  <2>1. Code(c) = pa_taint_not
    BY <1>5 DEF Code
  <2> QED
    BY <2>1, PlainParts
<1>6. CASE c.f = "pa_freetmps"
  BY <1>6, PlainParts DEF Code
<1> QED
  BY <1>1, <1>2, <1>3, <1>4, <1>5, <1>6 DEF Call

(* What the proofs below use of the code of an emitter call: instructions  *)
(* on PL_op are in the code of pa_pp_op only, in its order; a run loop or  *)
(* a return is a call of its own; branches land inside the code.           *)
LEMMA CodeFacts ==
  ASSUME NEW c \in Call
  PROVE  /\ Len(Code(c)) \in Nat /\ Len(Code(c)) >= 1
         /\ c.f = "pa_pp_op" =>
              /\ c.op \in Op /\ c.ppaddr \in {"pp", "closure"}
              /\ Code(c) = << SaveOp, SetVar("op", c.op),
                              CallNative(c.ppaddr), RestoreOp >>
         /\ c.f = "pa_call_runloop" =>
              c.op \in Op /\ Code(c) = << CallRunloop(c.op) >>
         /\ c.f = "return" => Code(c) = << ReturnOpNext >>
         /\ c.f \notin {"pa_pp_op", "pa_call_runloop", "return"} => PlainCode(Code(c))
<1>1. CASE c.f = "pa_pp_op"
  <2>1. c.op \in Op /\ c.ppaddr \in {"pp", "closure"}
    BY <1>1 DEF Call
  <2>2. Code(c) = << SaveOp, SetVar("op", c.op), CallNative(c.ppaddr), RestoreOp >>
    BY <1>1 DEF Code, pa_pp_op
  <2> QED
    BY <1>1, <2>1, <2>2
<1>2. CASE c.f = "pa_call_runloop"
  <2>1. c.op \in Op
    BY <1>2 DEF Call
  <2>2. Code(c) = << CallRunloop(c.op) >>
    BY <1>2 DEF Code, pa_call_runloop
  <2> QED
    BY <1>2, <2>1, <2>2
<1>3. CASE c.f = "return"
  <2>1. Code(c) = << ReturnOpNext >>
    BY <1>3 DEF Code, return_op_next
  <2> QED
    BY <1>3, <2>1
<1>4. CASE c.f \notin {"pa_pp_op", "pa_call_runloop", "return"}
  <2>1. PlainCode(Code(c)) /\ Len(Code(c)) >= 1
    BY <1>4, PlainCalls
  <2>2. Len(Code(c)) \in Nat
    BY <2>1 DEF PlainCode
  <2> QED
    BY <1>4, <2>1, <2>2
<1> QED
  BY <1>1, <1>2, <1>3, <1>4

(* The instructions of the other emitters leave PL_op alone.               *)
LEMMA PlainFacts ==
  ASSUME NEW s, PlainCode(s), NEW j \in 1..Len(s)
  PROVE  /\ s[j].i \in {"set", "restore_sp", "branch_if_not", "label", "call"}
         /\ s[j].i = "set" => s[j].var # "op"
         /\ s[j].i = "call" => s[j].fn \notin {"pp", "closure"}
         /\ s[j].i = "branch_if_not" => Target(s, s[j].label) \in 1..Len(s)
<1>1. s[j] \in PlainInsn
  BY DEF PlainCode
<1>2. s[j].i \in {"set", "restore_sp", "branch_if_not", "label", "call"}
  BY <1>1 DEF PlainInsn
<1>3. s[j].i = "set" => s[j].var # "op"
  BY <1>1 DEF PlainInsn
<1>4. s[j].i = "call" => s[j].fn \notin {"pp", "closure"}
  BY <1>1 DEF PlainInsn, NativeFn
<1>5. ASSUME s[j].i = "branch_if_not" PROVE Target(s, s[j].label) \in 1..Len(s)
  <2>1. \E k \in DOMAIN s : s[k] = Label(s[j].label)
    BY <1>5 DEF PlainCode, Labelled
  <2>2. Target(s, s[j].label) \in DOMAIN s
    BY <2>1 DEF Target
  <2> QED
    BY <2>2 DEF PlainCode
<1> QED
  BY <1>2, <1>3, <1>4, <1>5

-----------------------------------------------------------------------------
(* The inductive invariant.                                                *)

(* Its parts take the bodies and the installed OPs as parameters, so that  *)
(* they read the same before and after a step.                             *)
CallIn(b, l)  == b[l.op][l.i]
CodeIn(b, l)  == Code(CallIn(b, l))
InstrIn(b, l) == CodeIn(b, l)[l.pc]

(* The bodies: a return ends every installed one and is nowhere else, and  *)
(* the closures they call are those of installed OPs.                      *)
BodyOK(b, inst, o) ==
  /\ b[o] \in Seq(Call)
  /\ o \in inst => Len(b[o]) >= 1 /\ b[o][Len(b[o])].f = "return"
  /\ \A n \in 1..Len(b[o]) :
       /\ b[o][n].f = "return" => o \in inst /\ n = Len(b[o])
       /\ b[o][n].f = "pa_pp_op" /\ b[o][n].ppaddr = "closure" =>
            b[o][n].op \in inst

BodiesOK(b, inst) ==
  /\ inst \subseteq JitOp
  /\ b \in [JitOp -> Seq(Call)]
  /\ \A o \in JitOp : BodyOK(b, inst, o)

(* The OP that PL_op holds whenever control is in the compiled function of *)
(* level l: the one that pa_pp_op executes between its second and its last *)
(* instruction, and otherwise the OP the function was called for.          *)
Expected(b, l) == IF CallIn(b, l).f = "pa_pp_op" /\ l.pc \in {3, 4}
                  THEN CallIn(b, l).op ELSE l.op

LevelOK(b, inst, l) ==
  /\ l \in Level
  /\ l.at = "loop" => l.kind # "direct" /\ l.i = 1 /\ l.pc = 1
  /\ l.kind = "direct" => l.op = l.saved
  /\ l.at # "loop" =>
       /\ l.op \in inst
       /\ l.i \in 1..Len(b[l.op])
       /\ l.pc \in 1..Len(CodeIn(b, l))
       /\ CallIn(b, l).f = "pa_pp_op" /\ l.pc \in 2..4 => l.oldop = l.op
  /\ l.at = "call" => InstrIn(b, l).i \in {"call", "runloop"}

(* A level u above a level l: what it is for, and what it gives back.      *)
Linked(b, l, u) ==
  /\ l.at = "call"
  /\ u.saved = Expected(b, l)
  /\ u.kind = "runloop" <=> InstrIn(b, l).i = "runloop"
  /\ u.kind = "direct" <=> InstrIn(b, l).i = "call" /\ InstrIn(b, l).fn = "closure"
  /\ u.kind # "base"

(* ls is a well formed C stack, and op what PL_op must be for it.          *)
LevelsOK(b, inst, ls, op) ==
  /\ ls \in Seq(Level)
  /\ \A n \in 1..Len(ls) : LevelOK(b, inst, ls[n])
  /\ \A n \in 1..Len(ls) - 1 : Linked(b, ls[n], ls[n + 1])
  /\ ls # << >> => ls[1].kind = "base"
  /\ ls # << >> /\ ls[Len(ls)].at # "loop" => op = Expected(b, ls[Len(ls)])

IInv ==
  /\ BodiesOK(body, installed)
  /\ LevelsOK(body, installed, levels, PL_op)
  /\ PL_op \in OpOrNull
  /\ sig_pending \in BOOLEAN

(* The properties follow from it.                                          *)
LEMMA InvTypeOK == IInv => TypeOK
BY DEF IInv, BodiesOK, LevelsOK, TypeOK

(* What the invariant says of the instruction at which a level is.         *)
LEMMA InstrFacts ==
  ASSUME NEW b, NEW inst, BodiesOK(b, inst), NEW l, LevelOK(b, inst, l), l.at # "loop"
  PROVE  /\ CallIn(b, l) \in Call
         /\ l.op \in JitOp
         /\ Len(CodeIn(b, l)) \in Nat
         /\ CodeIn(b, l) = Code(CallIn(b, l))
         /\ InstrIn(b, l) = Code(CallIn(b, l))[l.pc]
         /\ CallIn(b, l).f = "pa_pp_op" =>
              /\ Len(CodeIn(b, l)) = 4
              /\ CallIn(b, l).op \in Op
              /\ l.pc = 1 => InstrIn(b, l) = SaveOp
              /\ l.pc = 2 => InstrIn(b, l) = SetVar("op", CallIn(b, l).op)
              /\ l.pc = 3 => InstrIn(b, l) = CallNative(CallIn(b, l).ppaddr)
              /\ l.pc = 4 => InstrIn(b, l) = RestoreOp
         /\ CallIn(b, l).f = "pa_call_runloop" =>
              /\ CallIn(b, l).op \in Op
              /\ Len(CodeIn(b, l)) = 1 /\ l.pc = 1 /\ InstrIn(b, l) = CallRunloop(CallIn(b, l).op)
         /\ CallIn(b, l).f = "return" =>
              Len(CodeIn(b, l)) = 1 /\ l.pc = 1 /\ InstrIn(b, l) = ReturnOpNext
         /\ CallIn(b, l).f \notin {"pa_pp_op", "pa_call_runloop", "return"} =>
              PlainCode(CodeIn(b, l))
<1>1. l.op \in JitOp /\ BodyOK(b, inst, l.op)
  BY DEF LevelOK, BodiesOK
<1>2. CallIn(b, l) \in Call
  BY <1>1 DEF LevelOK, BodyOK, CallIn
<1>3. CodeIn(b, l) = Code(CallIn(b, l)) /\ InstrIn(b, l) = Code(CallIn(b, l))[l.pc]
  BY DEF CodeIn, InstrIn, CallIn
<1>4. l.pc \in 1..Len(CodeIn(b, l))
  BY DEF LevelOK
<1> QED
  BY <1>1, <1>2, <1>3, <1>4, CodeFacts

(* Which call an instruction belongs to.                                   *)
LEMMA InstrKinds ==
  ASSUME NEW b, NEW inst, BodiesOK(b, inst), NEW l, LevelOK(b, inst, l), l.at # "loop"
  PROVE  /\ InstrIn(b, l).i = "save_op" => CallIn(b, l).f = "pa_pp_op" /\ l.pc = 1
         /\ InstrIn(b, l).i = "set" /\ InstrIn(b, l).var = "op" =>
              CallIn(b, l).f = "pa_pp_op" /\ l.pc = 2 /\ InstrIn(b, l).val = CallIn(b, l).op
         /\ InstrIn(b, l).i = "call" /\ CallIn(b, l).f = "pa_pp_op" =>
              l.pc = 3 /\ InstrIn(b, l).fn = CallIn(b, l).ppaddr
         /\ InstrIn(b, l).i = "call" /\ InstrIn(b, l).fn \in {"pp", "closure"} =>
              CallIn(b, l).f = "pa_pp_op"
         /\ InstrIn(b, l).i = "restore_op" => CallIn(b, l).f = "pa_pp_op" /\ l.pc = 4
         /\ InstrIn(b, l).i = "runloop" =>
              CallIn(b, l).f = "pa_call_runloop" /\ InstrIn(b, l).op = CallIn(b, l).op
         /\ InstrIn(b, l).i = "return" <=> CallIn(b, l).f = "return"
         /\ InstrIn(b, l).i = "branch_if_not" =>
              Target(CodeIn(b, l), InstrIn(b, l).label) \in 1..Len(CodeIn(b, l))
         /\ \/ InstrIn(b, l).i \in {"restore_sp", "label", "branch_if_not"}
            \/ InstrIn(b, l).i = "set" /\ InstrIn(b, l).var # "op"
            => CallIn(b, l).f \notin {"pa_pp_op", "pa_call_runloop", "return"}
<1> DEFINE x == InstrIn(b, l)
<1>0. l.pc \in 1..Len(CodeIn(b, l)) /\ x = CodeIn(b, l)[l.pc]
  BY DEF LevelOK, InstrIn
<1>1. CASE CallIn(b, l).f = "pa_pp_op"
  <2>1. l.pc \in 1..4
    BY <1>0, <1>1, InstrFacts
  <2>2. CASE l.pc = 1
    BY <1>1, <2>2, InstrFacts DEF SaveOp
  <2>3. CASE l.pc = 2
    BY <1>1, <2>3, InstrFacts DEF SetVar
  <2>4. CASE l.pc = 3
    BY <1>1, <2>4, InstrFacts DEF CallNative
  <2>5. CASE l.pc = 4
    BY <1>1, <2>5, InstrFacts DEF RestoreOp
  <2> QED
    BY <2>1, <2>2, <2>3, <2>4, <2>5
<1>2. CASE CallIn(b, l).f = "pa_call_runloop"
  BY <1>2, InstrFacts DEF CallRunloop
<1>3. CASE CallIn(b, l).f = "return"
  BY <1>3, InstrFacts DEF ReturnOpNext
<1>4. CASE CallIn(b, l).f \notin {"pa_pp_op", "pa_call_runloop", "return"}
  <2>1. PlainCode(CodeIn(b, l))
    BY <1>4, InstrFacts
  <2> HIDE DEF x
  <2>2. /\ x.i \in {"set", "restore_sp", "branch_if_not", "label", "call"}
        /\ x.i = "set" => x.var # "op"
        /\ x.i = "call" => x.fn \notin {"pp", "closure"}
        /\ x.i = "branch_if_not" => Target(CodeIn(b, l), x.label) \in 1..Len(CodeIn(b, l))
    BY <1>0, <2>1, PlainFacts
  <2> QED
    BY <1>4, <2>2 DEF x
<1> QED
  BY <1>1, <1>2, <1>3, <1>4

(* Going on to the next call, as a record.                                 *)
LEMMA MoveOn ==
  ASSUME NEW l \in Level, NEW a,
         a = [l EXCEPT !.at = "jit", !.pc = 1, !.i = @ + 1]
  PROVE  /\ a \in Level /\ a.at = "jit" /\ a.kind = l.kind /\ a.saved = l.saved
         /\ a.op = l.op /\ a.oldop = l.oldop /\ a.i = l.i + 1 /\ a.pc = 1
<1>0. l.i + 1 \in Nat
  BY DEF Level
<1>1. [[l EXCEPT !.at = "jit", !.pc = 1] EXCEPT !.i = l.i + 1] \in Level
  BY <1>0 DEF Level
<1>2. a = [[l EXCEPT !.at = "jit", !.pc = 1] EXCEPT !.i = l.i + 1]
  BY DEF Level
<1>3. a.at = "jit" /\ a.pc = 1 /\ a.i = l.i + 1
  BY DEF Level
<1>4. /\ a.kind = l.kind /\ a.saved = l.saved /\ a.op = l.op
      /\ a.oldop = l.oldop
  BY DEF Level
<1> QED
  BY <1>1, <1>2, <1>3, <1>4

(* Goto of JitPP, with the bodies as a parameter.                          *)
GotoIn(b, l, j) ==
  IF j <= Len(CodeIn(b, l)) THEN [l EXCEPT !.at = "jit", !.pc = j]
                            ELSE [l EXCEPT !.at = "jit", !.pc = 1, !.i = @ + 1]

LEMMA BodyOperators ==
  /\ \A l : CodeOf(l) = CodeIn(body, l) /\ Instr(l) = InstrIn(body, l)
  /\ \A l, j : Goto(l, j) = GotoIn(body, l, j)
BY DEF CodeOf, Instr, Goto, CodeIn, InstrIn, CallIn, GotoIn

(* Going on in a body: control stays inside it, and a level outside        *)
(* pa_pp_op stays or arrives outside it.                                   *)
LEMMA GotoOK ==
  ASSUME NEW b, NEW inst, BodiesOK(b, inst), NEW l, LevelOK(b, inst, l), l.at # "loop",
         InstrIn(b, l).i # "return",
         NEW j, j \in 1..Len(CodeIn(b, l)) + 1,
         CallIn(b, l).f = "pa_pp_op" => j = l.pc + 1
  PROVE  LET a == GotoIn(b, l, j)
         IN  /\ a \in Level
             /\ a.at = "jit" /\ a.kind = l.kind /\ a.saved = l.saved
             /\ a.op = l.op /\ a.oldop = l.oldop
             /\ a.i \in 1..Len(b[l.op])
             /\ a.pc \in 1..Len(CodeIn(b, a))
             /\ CallIn(b, l).f = "pa_pp_op" /\ l.pc < 4 =>
                  CallIn(b, a) = CallIn(b, l) /\ a.pc = l.pc + 1
             /\ ~(CallIn(b, l).f = "pa_pp_op" /\ l.pc < 4) =>
                  a.pc = 1 \/ CallIn(b, a).f # "pa_pp_op"
<1>1. /\ l \in Level /\ l.op \in inst /\ l.i \in 1..Len(b[l.op])
      /\ l.pc \in 1..Len(CodeIn(b, l)) /\ l.pc \in Nat
  BY DEF LevelOK, Level
<1>2. BodyOK(b, inst, l.op) /\ l.op \in JitOp
  BY <1>1 DEF BodiesOK
<1>3. /\ CallIn(b, l) \in Call /\ Len(CodeIn(b, l)) \in Nat
      /\ CallIn(b, l).f = "pa_pp_op" => Len(CodeIn(b, l)) = 4
  BY InstrFacts
<1>4. CASE j <= Len(CodeIn(b, l))
  <2>0. PICK a : a = [l EXCEPT !.at = "jit", !.pc = j]
    OBVIOUS
  <2>1. GotoIn(b, l, j) = a
    BY <1>4, <2>0 DEF GotoIn
  <2>2. /\ a \in Level /\ a.at = "jit" /\ a.kind = l.kind /\ a.saved = l.saved
        /\ a.op = l.op /\ a.oldop = l.oldop /\ a.i = l.i /\ a.pc = j
    <3>1. j \in Nat
      BY <1>3
    <3>2. l \in Level
      BY <1>1
    <3>3. a \in Level
      BY <2>0, <3>1, <3>2 DEF Level
    <3>4. a.at = "jit" /\ a.pc = j
      BY <2>0, <3>2 DEF Level
    <3>5. /\ a.kind = l.kind /\ a.saved = l.saved /\ a.op = l.op
          /\ a.oldop = l.oldop /\ a.i = l.i
      BY <2>0, <3>2 DEF Level
    <3> QED
      BY <3>3, <3>4, <3>5
  <2>3. CallIn(b, a) = CallIn(b, l) /\ CodeIn(b, a) = CodeIn(b, l)
    BY <2>2 DEF CallIn, CodeIn
  <2>4. ASSUME CallIn(b, l).f = "pa_pp_op" PROVE l.pc < 4
    <3>1. j = l.pc + 1 /\ j <= 4
      BY <1>3, <1>4, <2>4
    <3> QED
      BY <1>1, <3>1
  <2> QED
    BY <1>1, <1>3, <1>4, <2>1, <2>2, <2>3, <2>4
<1>5. CASE j > Len(CodeIn(b, l))
  <2>0. PICK a : a = [l EXCEPT !.at = "jit", !.pc = 1, !.i = @ + 1]
    OBVIOUS
  <2>1. GotoIn(b, l, j) = a
    BY <1>3, <1>5, <2>0 DEF GotoIn
  <2>2. /\ a \in Level /\ a.at = "jit" /\ a.kind = l.kind /\ a.saved = l.saved
        /\ a.op = l.op /\ a.oldop = l.oldop /\ a.i = l.i + 1 /\ a.pc = 1
    BY <1>1, <2>0, MoveOn
  <2>3. CallIn(b, l).f # "return"
    BY InstrKinds
  <2>4. Len(b[l.op]) \in Nat /\ l.i # Len(b[l.op])
    BY <1>1, <1>2, <2>3 DEF BodyOK, CallIn
  <2>5. a.i \in 1..Len(b[l.op])
    BY <1>1, <2>2, <2>4
  <2>6. CodeIn(b, a) = Code(b[l.op][a.i]) /\ b[l.op][a.i] \in Call
    BY <1>2, <2>2, <2>5 DEF CodeIn, CallIn, BodyOK
  <2>7. Len(CodeIn(b, a)) \in Nat /\ Len(CodeIn(b, a)) >= 1
    BY <2>6, CodeFacts
  <2>8. ~(CallIn(b, l).f = "pa_pp_op" /\ l.pc < 4)
    <3> SUFFICES ASSUME CallIn(b, l).f = "pa_pp_op", l.pc < 4 PROVE FALSE
      OBVIOUS
    <3>1. j = l.pc + 1 /\ j > 4
      BY <1>3, <1>5
    <3> QED
      BY <1>1, <3>1
  <2> QED
    BY <2>1, <2>2, <2>5, <2>7, <2>8
<1> QED
  BY <1>3, <1>4, <1>5

(* A level that is not inside pa_pp_op, or leaves it, goes on with the OP  *)
(* of its function; one inside pa_pp_op with the OP that it executes.      *)
LEMMA GotoOutside ==
  ASSUME NEW b, NEW inst, BodiesOK(b, inst), NEW l, LevelOK(b, inst, l),
         l.at # "loop", InstrIn(b, l).i # "return",
         NEW j, j \in 1..Len(CodeIn(b, l)) + 1,
         CallIn(b, l).f = "pa_pp_op" => j = l.pc + 1 /\ l.pc = 4
  PROVE  /\ LevelOK(b, inst, GotoIn(b, l, j))
         /\ GotoIn(b, l, j).kind = l.kind /\ GotoIn(b, l, j).saved = l.saved
         /\ Expected(b, GotoIn(b, l, j)) = l.op
<1>1. PICK a : a = GotoIn(b, l, j)
  OBVIOUS
<1>2. /\ a \in Level
      /\ a.at = "jit" /\ a.kind = l.kind /\ a.saved = l.saved
      /\ a.op = l.op /\ a.oldop = l.oldop
      /\ a.i \in 1..Len(b[l.op])
      /\ a.pc \in 1..Len(CodeIn(b, a))
      /\ a.pc = 1 \/ CallIn(b, a).f # "pa_pp_op"
  BY <1>1, GotoOK
<1>3. l.op \in inst /\ (l.kind = "direct" => l.op = l.saved)
  BY DEF LevelOK
<1>4. LevelOK(b, inst, a)
  BY <1>2, <1>3 DEF LevelOK
<1>5. Expected(b, a) = l.op
  BY <1>2 DEF Expected
<1> QED
  BY <1>1, <1>2, <1>4, <1>5

LEMMA GotoInside ==
  ASSUME NEW b, NEW inst, BodiesOK(b, inst), NEW l, LevelOK(b, inst, l),
         l.at # "loop", CallIn(b, l).f = "pa_pp_op", l.pc \in {1, 2, 3},
         NEW a, a = GotoIn(b, l, l.pc + 1)
  PROVE  /\ a \in Level
         /\ a.at = "jit" /\ a.kind = l.kind /\ a.saved = l.saved /\ a.op = l.op
         /\ a.oldop = l.oldop /\ a.i = l.i /\ a.pc = l.pc + 1
         /\ a.i \in 1..Len(b[l.op])
         /\ CallIn(b, a) = CallIn(b, l) /\ a.pc \in 1..Len(CodeIn(b, a))
         /\ l.pc \in {2, 3} => LevelOK(b, inst, a) /\ Expected(b, a) = CallIn(b, l).op
<1>1. Len(CodeIn(b, l)) = 4 /\ InstrIn(b, l).i # "return"
  BY InstrFacts, InstrKinds
<1>2. l.pc + 1 \in 1..Len(CodeIn(b, l)) + 1
  BY <1>1
<1>3. /\ a \in Level
      /\ a.at = "jit" /\ a.kind = l.kind /\ a.saved = l.saved
      /\ a.op = l.op /\ a.oldop = l.oldop
      /\ a.i \in 1..Len(b[l.op])
      /\ a.pc \in 1..Len(CodeIn(b, a))
      /\ CallIn(b, a) = CallIn(b, l) /\ a.pc = l.pc + 1
  BY <1>1, <1>2, GotoOK
<1>4. a.i = l.i
  <2>1. a = [l EXCEPT !.at = "jit", !.pc = l.pc + 1]
    BY <1>1 DEF GotoIn
  <2>2. l \in Level
    BY DEF LevelOK
  <2> QED
    BY <2>1, <2>2 DEF Level
<1>5. ASSUME l.pc \in {2, 3} PROVE LevelOK(b, inst, a) /\ Expected(b, a) = CallIn(b, l).op
  <2>1. /\ l.op \in inst /\ (l.kind = "direct" => l.op = l.saved)
        /\ l.oldop = l.op
    BY <1>5 DEF LevelOK
  <2>2. LevelOK(b, inst, a)
    BY <1>3, <2>1 DEF LevelOK
  <2>3. Expected(b, a) = CallIn(b, l).op
    BY <1>3, <1>5 DEF Expected
  <2> QED
    BY <2>2, <2>3
<1> QED
  BY <1>3, <1>4, <1>5

(* A level whose run loop has control.                                     *)
LEMMA LoopOK ==
  ASSUME NEW b, NEW inst, NEW kind \in {"base", "callback", "runloop"},
         NEW saved \in OpOrNull
  PROVE  /\ LevelOK(b, inst, Loop(kind, saved))
         /\ Loop(kind, saved).at = "loop" /\ Loop(kind, saved).kind = kind
         /\ Loop(kind, saved).saved = saved /\ Loop(kind, saved) \in Level
BY DEF LevelOK, Loop, Level, OpOrNull

-----------------------------------------------------------------------------
(* How a step changes the C stack.                                         *)

(* The levels above m end, if there are any, and m goes on as l.           *)
LEMMA Replaced ==
  ASSUME NEW b, NEW inst, NEW ls, NEW op, LevelsOK(b, inst, ls, op),
         NEW m \in 1..Len(ls), NEW l, LevelOK(b, inst, l),
         l.kind = ls[m].kind, l.saved = ls[m].saved,
         NEW op2, l.at # "loop" => op2 = Expected(b, l),
         NEW ls2, ls2 \in Seq(Level), Len(ls2) = m,
         \A n \in 1..m - 1 : ls2[n] = ls[n], ls2[m] = l
  PROVE  LevelsOK(b, inst, ls2, op2)
<1>0. Len(ls) \in Nat /\ m \in Nat /\ m >= 1
  BY DEF LevelsOK
<1>1. \A n \in 1..m : LevelOK(b, inst, ls2[n])
  BY <1>0 DEF LevelsOK
<1>2. \A n \in 1..m - 1 : Linked(b, ls2[n], ls2[n + 1])
  <2> TAKE n \in 1..m - 1
  <2>1. Linked(b, ls[n], ls[n + 1])
    BY <1>0 DEF LevelsOK
  <2>2. CASE n + 1 < m
    <3>1. ls2[n] = ls[n] /\ ls2[n + 1] = ls[n + 1]
      BY <1>0, <2>2
    <3> QED
      BY <2>1, <3>1
  <2>3. CASE n + 1 = m
    <3>1. ls2[n] = ls[n] /\ ls2[n + 1] = l /\ ls[n + 1] = ls[m]
      BY <1>0, <2>3
    <3> QED
      BY <2>1, <3>1 DEF Linked
  <2> QED
    BY <1>0, <2>2, <2>3
<1>3. ls2[1].kind = "base"
  <2>1. ls[1].kind = "base"
    BY <1>0 DEF LevelsOK
  <2> QED
    BY <1>0, <2>1
<1> QED
  BY <1>0, <1>1, <1>2, <1>3 DEF LevelsOK

(* A level u begins above the last one, which waits as l.                  *)
LEMMA Pushed ==
  ASSUME NEW b, NEW inst, NEW ls, NEW op, LevelsOK(b, inst, ls, op),
         ls # << >>, NEW l, LevelOK(b, inst, l),
         l.kind = ls[Len(ls)].kind, l.saved = ls[Len(ls)].saved,
         NEW u, LevelOK(b, inst, u), Linked(b, l, u),
         NEW op2, u.at # "loop" => op2 = Expected(b, u),
         NEW ls2, ls2 \in Seq(Level), Len(ls2) = Len(ls) + 1,
         \A n \in 1..Len(ls) - 1 : ls2[n] = ls[n],
         ls2[Len(ls)] = l, ls2[Len(ls) + 1] = u
  PROVE  LevelsOK(b, inst, ls2, op2)
<1>0. Len(ls) \in Nat /\ Len(ls) >= 1
  BY DEF LevelsOK
<1>1. \A n \in 1..Len(ls2) : LevelOK(b, inst, ls2[n])
  BY <1>0 DEF LevelsOK
<1>2. \A n \in 1..Len(ls2) - 1 : Linked(b, ls2[n], ls2[n + 1])
  <2> TAKE n \in 1..Len(ls2) - 1
  <2>1. CASE n = Len(ls)
    BY <2>1
  <2>2. CASE n + 1 = Len(ls)
    <3>1. ls2[n] = ls[n] /\ ls2[n + 1] = l /\ Linked(b, ls[n], ls[n + 1])
      BY <1>0, <2>2 DEF LevelsOK
    <3> QED
      BY <2>2, <3>1 DEF Linked
  <2>3. CASE n + 1 < Len(ls)
    <3>1. ls2[n] = ls[n] /\ ls2[n + 1] = ls[n + 1] /\ Linked(b, ls[n], ls[n + 1])
      BY <1>0, <2>3 DEF LevelsOK
    <3> QED
      BY <3>1
  <2> QED
    BY <1>0, <2>1, <2>2, <2>3
<1>3. ls2[1].kind = "base"
  <2>1. ls[1].kind = "base"
    BY <1>0 DEF LevelsOK
  <2> QED
    BY <1>0, <2>1
<1> QED
  BY <1>0, <1>1, <1>2, <1>3 DEF LevelsOK

-----------------------------------------------------------------------------
(* Steps, by what they do to the C stack.                                  *)

LEMMA TopMoves ==
  ASSUME IInv, levels # << >>, NEW l, SetTop(l), UNCHANGED << body, installed >>,
         LevelOK(body, installed, l), l.kind = Top.kind, l.saved = Top.saved,
         PL_op' \in OpOrNull, sig_pending' \in BOOLEAN,
         l.at # "loop" => PL_op' = Expected(body, l)
  PROVE  IInv'
<1>1. levels \in Seq(Level) /\ Len(levels) \in Nat /\ Len(levels) >= 1
  BY DEF IInv, LevelsOK
<1>2. l \in Level
  BY DEF LevelOK
<1>3. /\ levels' \in Seq(Level) /\ Len(levels') = Len(levels)
      /\ \A n \in 1..Len(levels) - 1 : levels'[n] = levels[n]
      /\ levels'[Len(levels)] = l
  BY <1>1, <1>2 DEF SetTop
<1>4. LevelsOK(body, installed, levels', PL_op')
  <2>1. LevelsOK(body, installed, levels, PL_op)
    BY DEF IInv
  <2> QED
    BY <1>1, <1>3, <2>1, Replaced DEF Top
<1> QED
  BY <1>4 DEF IInv

LEMMA TopEnds ==
  ASSUME IInv, Len(levels) > 1, NEW l, PopTo(l), UNCHANGED << body, installed >>,
         LevelOK(body, installed, l), l.kind = Below.kind, l.saved = Below.saved,
         PL_op' \in OpOrNull, sig_pending' \in BOOLEAN,
         l.at # "loop" => PL_op' = Expected(body, l)
  PROVE  IInv'
<1>1. levels \in Seq(Level) /\ Len(levels) \in Nat
  BY DEF IInv, LevelsOK
<1>2. l \in Level
  BY DEF LevelOK
<1> DEFINE m == Len(levels) - 1
<1>3. /\ levels' \in Seq(Level) /\ Len(levels') = m
      /\ \A n \in 1..m - 1 : levels'[n] = levels[n]
      /\ levels'[m] = l
  <2>1. PICK sub : sub = SubSeq(levels, 1, m)
    OBVIOUS
  <2>2. /\ sub \in Seq(Level) /\ Len(sub) = m
        /\ \A n \in 1..m : sub[n] = levels[n]
    BY <1>1, <2>1
  <2>3. levels' = [sub EXCEPT ![m] = l]
    BY <2>1 DEF PopTo
  <2> QED
    BY <1>1, <1>2, <2>2, <2>3
<1>4. LevelsOK(body, installed, levels', PL_op')
  <2>1. LevelsOK(body, installed, levels, PL_op)
    BY DEF IInv
  <2>2. m \in 1..Len(levels)
    BY <1>1
  <2> QED
    BY <1>1, <1>3, <2>1, <2>2, Replaced DEF Below
<1> QED
  BY <1>4 DEF IInv

LEMMA LevelBegins ==
  ASSUME IInv, levels # << >>, NEW l, NEW u,
         levels' = Append([levels EXCEPT ![Len(levels)] = l], u),
         UNCHANGED << body, installed >>,
         LevelOK(body, installed, l), l.kind = Top.kind, l.saved = Top.saved,
         LevelOK(body, installed, u), Linked(body, l, u),
         PL_op' \in OpOrNull, sig_pending' \in BOOLEAN,
         u.at # "loop" => PL_op' = Expected(body, u)
  PROVE  IInv'
<1>1. levels \in Seq(Level) /\ Len(levels) \in Nat /\ Len(levels) >= 1
  BY DEF IInv, LevelsOK
<1>2. l \in Level /\ u \in Level
  BY DEF LevelOK
<1>3. /\ levels' \in Seq(Level) /\ Len(levels') = Len(levels) + 1
      /\ \A n \in 1..Len(levels) - 1 : levels'[n] = levels[n]
      /\ levels'[Len(levels)] = l /\ levels'[Len(levels) + 1] = u
  BY <1>1, <1>2
<1>4. LevelsOK(body, installed, levels', PL_op')
  <2>1. LevelsOK(body, installed, levels, PL_op)
    BY DEF IInv
  <2> QED
    BY <1>1, <1>3, <2>1, Pushed DEF Top
<1> QED
  BY <1>4 DEF IInv

-----------------------------------------------------------------------------
(* The invariant, at the last levels.                                      *)

LEMMA TopFacts ==
  ASSUME IInv, levels # << >>
  PROVE  /\ levels \in Seq(Level) /\ Len(levels) \in Nat /\ Len(levels) >= 1
         /\ BodiesOK(body, installed)
         /\ LevelOK(body, installed, Top) /\ Top \in Level
         /\ Top.at # "loop" => PL_op = Expected(body, Top)
         /\ CodeOf(Top) = CodeIn(body, Top) /\ Instr(Top) = InstrIn(body, Top)
         /\ \A j : Goto(Top, j) = GotoIn(body, Top, j)
<1>1. levels \in Seq(Level) /\ Len(levels) \in Nat /\ Len(levels) >= 1
  BY DEF IInv, LevelsOK
<1>2. LevelOK(body, installed, Top) /\ (Top.at # "loop" => PL_op = Expected(body, Top))
  BY <1>1 DEF IInv, LevelsOK, Top
<1>3. Top \in Level
  BY <1>2 DEF LevelOK
<1> QED
  BY <1>1, <1>2, <1>3, BodyOperators DEF IInv

LEMMA MoreThanOne == \A n \in Nat : n >= 1 /\ n # 1 => n > 1 /\ n - 1 \in 1..n - 1
OBVIOUS

LEMMA BelowFacts ==
  ASSUME IInv, levels # << >>, Top.kind # "base"
  PROVE  /\ Len(levels) > 1
         /\ LevelOK(body, installed, Below) /\ Linked(body, Below, Top)
         /\ Goto(Below, Below.pc + 1) = GotoIn(body, Below, Below.pc + 1)
<1>1. levels \in Seq(Level) /\ Len(levels) \in Nat /\ Len(levels) >= 1
  BY TopFacts
<1>2. Len(levels) > 1
  <2>1. Len(levels) # 1
    BY DEF IInv, LevelsOK, Top
  <2>2. Len(levels) \in Nat /\ Len(levels) >= 1
    BY <1>1
  <2> QED
    BY <2>1, <2>2, MoreThanOne
<1>3. Len(levels) - 1 \in 1..Len(levels) - 1 /\ Len(levels) - 1 \in 1..Len(levels)
  BY <1>1, <1>2
<1>4. LevelOK(body, installed, Below)
  BY <1>3 DEF IInv, LevelsOK, Below
<1>5. Linked(body, Below, Top)
  <2>1. Linked(body, levels[Len(levels) - 1], levels[Len(levels) - 1 + 1])
    BY <1>3 DEF IInv, LevelsOK
  <2> QED
    BY <1>1, <2>1 DEF Below, Top
<1> QED
  BY <1>1, <1>2, <1>4, <1>5, BodyOperators

(* A level that waits at a call, or stops waiting, is otherwise the same.  *)
LEMMA WaitOK ==
  ASSUME NEW b, NEW inst, NEW l, LevelOK(b, inst, l), l.at # "loop",
         InstrIn(b, l).i \in {"call", "runloop"},
         NEW a, a = [l EXCEPT !.at = "call"]
  PROVE  /\ LevelOK(b, inst, a) /\ a.at = "call"
         /\ a.kind = l.kind /\ a.saved = l.saved
         /\ CallIn(b, a) = CallIn(b, l) /\ InstrIn(b, a) = InstrIn(b, l)
         /\ Expected(b, a) = Expected(b, l)
<1>1. l \in Level
  BY DEF LevelOK
<1>2. /\ a.at = "call" /\ a.kind = l.kind /\ a.saved = l.saved /\ a.op = l.op
      /\ a.i = l.i /\ a.pc = l.pc /\ a.oldop = l.oldop
  BY <1>1 DEF Level
<1>3. a \in Level
  BY <1>1 DEF Level
<1>4. CallIn(b, a) = CallIn(b, l) /\ CodeIn(b, a) = CodeIn(b, l)
      /\ InstrIn(b, a) = InstrIn(b, l)
  BY <1>2 DEF CallIn, CodeIn, InstrIn
<1>5. LevelOK(b, inst, a)
  BY <1>2, <1>3, <1>4 DEF LevelOK
<1> QED
  BY <1>2, <1>4, <1>5 DEF Expected

-----------------------------------------------------------------------------
(* The invariant is preserved: one lemma for each group of actions.        *)

LEMMA InitInv == Init => IInv
<1> SUFFICES ASSUME Init PROVE IInv
  OBVIOUS
<1>1. BodiesOK(body, installed)
  BY DEF Init, BodiesOK, BodyOK
<1>2. LevelsOK(body, installed, levels, PL_op)
  BY DEF Init, LevelsOK
<1> QED
  BY <1>1, <1>2 DEF Init, IInv, OpOrNull

LEMMA EmitInv ==
  ASSUME IInv, NEW o \in JitOp, NEW c \in Callable[o], Emit(o, c)
  PROVE  IInv'
<1>1. c \in Call /\ c # Return
  BY JitAssumption
<1> DEFINE e == Emitted(c)
<1>2. e \in Call /\ e.f = c.f /\ e.f # "return"
      /\ (e.f = "pa_pp_op" /\ e.ppaddr = "closure" => e.op \in installed)
  <2>1. CASE c.f = "pa_pp_op"
    <3>1. c \in [f : {"pa_pp_op"}, op : Op, ppaddr : {"pp", "closure"}]
      BY <1>1, <2>1 DEF Call
    <3>2. e = [c EXCEPT !.ppaddr = IF c.op \in installed THEN "closure" ELSE "pp"]
      BY <2>1 DEF Emitted
    <3>3. e \in [f : {"pa_pp_op"}, op : Op, ppaddr : {"pp", "closure"}]
      BY <3>1, <3>2
    <3>4. e.f = "pa_pp_op" /\ e.op = c.op
          /\ e.ppaddr = IF c.op \in installed THEN "closure" ELSE "pp"
      BY <3>1, <3>2
    <3> HIDE DEF e
    <3> QED
      BY <2>1, <3>3, <3>4 DEF Call
  <2>2. CASE c.f # "pa_pp_op"
    <3>1. e = c
      BY <2>2 DEF Emitted
    <3>2. c.f # "return"
      BY <1>1 DEF Call, Return
    <3> QED
      BY <1>1, <2>2, <3>1, <3>2
  <2> QED
    BY <2>1, <2>2
<1> HIDE DEF e
<1>3. levels = << >> /\ levels' = levels /\ installed' = installed /\ PL_op' = PL_op
      /\ sig_pending' = sig_pending /\ o \notin installed
      /\ body' = [body EXCEPT ![o] = Append(@, e)]
  BY DEF Emit, e
<1>4. BodiesOK(body, installed)
  BY DEF IInv
<1>5. BodiesOK(body', installed')
  <2>1. /\ body[o] \in Seq(Call) /\ Len(body[o]) \in Nat
        /\ body'[o] = Append(body[o], e)
        /\ \A p \in JitOp \ {o} : body'[p] = body[p]
    BY <1>3, <1>4 DEF BodiesOK
  <2>2. BodyOK(body', installed', o)
    <3>1. /\ body'[o] \in Seq(Call) /\ Len(body'[o]) = Len(body[o]) + 1
          /\ body'[o][Len(body[o]) + 1] = e
          /\ \A n \in 1..Len(body[o]) : body'[o][n] = body[o][n]
      BY <1>2, <2>1
    <3>2. BodyOK(body, installed, o)
      BY <1>4 DEF BodiesOK
    <3> QED
      BY <1>2, <1>3, <2>1, <3>1, <3>2 DEF BodyOK
  <2>3. ASSUME NEW p \in JitOp, p # o PROVE BodyOK(body', installed', p)
    <3>1. BodyOK(body, installed, p) /\ body'[p] = body[p]
      BY <1>4, <2>1, <2>3 DEF BodiesOK
    <3>2. BodyOK(body', installed, p)
      BY <3>1 DEF BodyOK
    <3> QED
      BY <1>3, <3>2
  <2>4. body' \in [JitOp -> Seq(Call)]
    BY <1>2, <1>3, <1>4, <2>1 DEF BodiesOK
  <2> QED
    BY <1>3, <1>4, <2>2, <2>3, <2>4 DEF BodiesOK
<1> QED
  BY <1>3, <1>5 DEF IInv, LevelsOK

LEMMA InstallInv ==
  ASSUME IInv, NEW o \in JitOp, Install(o)
  PROVE  IInv'
<1>1. Return \in Call /\ Return.f = "return"
  BY DEF Call, Return
<1>3. levels = << >> /\ levels' = levels /\ installed' = installed \cup {o}
      /\ PL_op' = PL_op /\ sig_pending' = sig_pending /\ o \notin installed
      /\ body' = [body EXCEPT ![o] = Append(@, Return)]
  BY DEF Install
<1>4. BodiesOK(body, installed)
  BY DEF IInv
<1>5. BodiesOK(body', installed')
  <2>1. /\ body[o] \in Seq(Call) /\ Len(body[o]) \in Nat
        /\ body'[o] = Append(body[o], Return)
        /\ \A p \in JitOp \ {o} : body'[p] = body[p]
    BY <1>3, <1>4 DEF BodiesOK
  <2>2. BodyOK(body', installed', o)
    <3>1. /\ body'[o] \in Seq(Call) /\ Len(body'[o]) = Len(body[o]) + 1
          /\ body'[o][Len(body[o]) + 1] = Return
          /\ \A n \in 1..Len(body[o]) : body'[o][n] = body[o][n]
      BY <1>1, <2>1
    <3>2. BodyOK(body, installed, o)
      BY <1>4 DEF BodiesOK
    <3> QED
      BY <1>1, <1>3, <2>1, <3>1, <3>2 DEF BodyOK
  <2>3. ASSUME NEW p \in JitOp, p # o PROVE BodyOK(body', installed', p)
    <3>1. BodyOK(body, installed, p) /\ body'[p] = body[p]
      BY <1>4, <2>1, <2>3 DEF BodiesOK
    <3>2. p \in installed' <=> p \in installed
      BY <1>3, <2>3
    <3> QED
      BY <1>3, <3>1, <3>2 DEF BodyOK
  <2>4. body' \in [JitOp -> Seq(Call)]
    BY <1>1, <1>3, <1>4, <2>1 DEF BodiesOK
  <2> QED
    BY <1>3, <1>4, <2>2, <2>3, <2>4 DEF BodiesOK
<1> QED
  BY <1>3, <1>5 DEF IInv, LevelsOK

-----------------------------------------------------------------------------
(* A compiled function goes on outside pa_pp_op, or leaves it, with PL_op  *)
(* at its own OP.                                                          *)
LEMMA OutsideInv ==
  ASSUME IInv, levels # << >>, Top.at # "loop", Instr(Top).i # "return",
         NEW j \in 1..Len(CodeOf(Top)) + 1,
         CallIn(body, Top).f = "pa_pp_op" => j = Top.pc + 1 /\ Top.pc = 4,
         SetTop(Goto(Top, j)), PL_op' = Top.op,
         UNCHANGED << body, installed >>, sig_pending' \in BOOLEAN
  PROVE  IInv'
<1>1. PICK l : l = Goto(Top, j)
  OBVIOUS
<1>2. /\ LevelOK(body, installed, l)
      /\ l.kind = Top.kind /\ l.saved = Top.saved
      /\ Expected(body, l) = Top.op
  BY <1>1, TopFacts, GotoOutside
<1>3. SetTop(l)
  BY <1>1
<1>4. PL_op' \in OpOrNull
  BY TopFacts DEF Level
<1> QED
  BY <1>2, <1>3, <1>4, TopMoves

(* It goes on inside pa_pp_op with PL_op at the OP that pa_pp_op executes. *)
LEMMA InsideInv ==
  ASSUME IInv, levels # << >>, Top.at # "loop",
         CallIn(body, Top).f = "pa_pp_op", Top.pc \in {2, 3},
         SetTop(Advanced(Top)), PL_op' = CallIn(body, Top).op,
         UNCHANGED << body, installed >>, sig_pending' \in BOOLEAN
  PROVE  IInv'
<1>1. PICK l : l = Goto(Top, Top.pc + 1)
  OBVIOUS
<1>2. /\ LevelOK(body, installed, l)
      /\ l.kind = Top.kind /\ l.saved = Top.saved
      /\ Expected(body, l) = CallIn(body, Top).op
  BY <1>1, TopFacts, GotoInside
<1>3. SetTop(l)
  BY <1>1 DEF Advanced
<1>4. PL_op' \in OpOrNull
  BY TopFacts, InstrFacts DEF OpOrNull
<1> QED
  BY <1>2, <1>3, <1>4, TopMoves

(* Where a compiled function is: its level, and PL_op.                     *)
LEMMA Here ==
  ASSUME IInv, levels # << >>, Top.at # "loop"
  PROVE  /\ Top.pc + 1 \in 1..Len(CodeOf(Top)) + 1
         /\ CallIn(body, Top).f = "pa_pp_op" /\ Top.pc \in {3, 4} =>
              PL_op = CallIn(body, Top).op
         /\ ~(CallIn(body, Top).f = "pa_pp_op" /\ Top.pc \in {3, 4}) => PL_op = Top.op
<1>1. Top.pc \in 1..Len(CodeOf(Top)) /\ Len(CodeOf(Top)) \in Nat
  BY TopFacts, InstrFacts DEF LevelOK
<1> QED
  BY <1>1, TopFacts DEF Expected

LEMMA ExecSetOpInv == IInv /\ ExecSetOp => IInv'
<1> SUFFICES ASSUME IInv, ExecSetOp PROVE IInv'
  OBVIOUS
<1>1. /\ levels # << >> /\ Top.at # "loop"
      /\ Instr(Top).i = "set" /\ Instr(Top).var = "op" /\ PL_op' = Instr(Top).val
      /\ SetTop(Advanced(Top)) /\ UNCHANGED << body, installed, sig_pending >>
  BY DEF ExecSetOp, Exec, At
<1>2. CallIn(body, Top).f = "pa_pp_op" /\ Top.pc = 2 /\ PL_op' = CallIn(body, Top).op
  BY <1>1, TopFacts, InstrKinds
<1>3. sig_pending' \in BOOLEAN
  BY <1>1 DEF IInv
<1> QED
  BY <1>1, <1>2, <1>3, InsideInv

LEMMA ExecSaveOpInv == IInv /\ ExecSaveOp => IInv'
<1> SUFFICES ASSUME IInv, ExecSaveOp PROVE IInv'
  OBVIOUS
<1>1. PICK a : a = Goto(Top, Top.pc + 1)
  OBVIOUS
<1>2. PICK l : l = [a EXCEPT !.oldop = PL_op]
  OBVIOUS
<1>3. /\ levels # << >> /\ Top.at # "loop" /\ Instr(Top).i = "save_op"
      /\ SetTop(l) /\ UNCHANGED << body, installed, PL_op, sig_pending >>
  BY <1>1, <1>2 DEF ExecSaveOp, Exec, At, Advanced
<1>4. /\ BodiesOK(body, installed) /\ LevelOK(body, installed, Top)
      /\ CallIn(body, Top).f = "pa_pp_op" /\ Top.pc = 1
      /\ a = GotoIn(body, Top, Top.pc + 1)
  BY <1>1, <1>3, TopFacts, InstrKinds
<1>5. PL_op = Top.op /\ PL_op \in OpOrNull
  BY <1>3, <1>4, Here DEF IInv
<1>6. /\ a \in Level
      /\ a.at = "jit" /\ a.kind = Top.kind /\ a.saved = Top.saved
      /\ a.op = Top.op /\ a.i \in 1..Len(body[Top.op]) /\ a.pc = 2
      /\ CallIn(body, a) = CallIn(body, Top) /\ a.pc \in 1..Len(CodeIn(body, a))
  BY <1>3, <1>4, GotoInside
<1>7. /\ l \in Level /\ l.at = "jit" /\ l.kind = Top.kind /\ l.saved = Top.saved
      /\ l.op = Top.op /\ l.i = a.i /\ l.pc = 2 /\ l.oldop = Top.op
  <2>1. l \in Level /\ l.oldop = PL_op
    BY <1>2, <1>5, <1>6 DEF Level
  <2>2. l.at = a.at /\ l.kind = a.kind /\ l.saved = a.saved /\ l.op = a.op
        /\ l.i = a.i /\ l.pc = a.pc
    BY <1>2, <1>6 DEF Level
  <2> QED
    BY <1>5, <1>6, <2>1, <2>2
<1>8. CallIn(body, l) = CallIn(body, a) /\ CodeIn(body, l) = CodeIn(body, a)
  BY <1>6, <1>7 DEF CallIn, CodeIn
<1>9. LevelOK(body, installed, l)
  <2>1. Top.op \in installed /\ (Top.kind = "direct" => Top.op = Top.saved)
    BY <1>3, <1>4 DEF LevelOK
  <2> QED
    BY <1>6, <1>7, <1>8, <2>1 DEF LevelOK
<1>10. Expected(body, l) = PL_op'
  BY <1>3, <1>5, <1>7 DEF Expected
<1> QED
  <2>1. PL_op' \in OpOrNull /\ sig_pending' \in BOOLEAN
    BY <1>3 DEF IInv
  <2> QED
    BY <1>3, <1>7, <1>9, <1>10, <2>1, TopMoves

LEMMA ExecRestoreOpInv == IInv /\ ExecRestoreOp => IInv'
<1> SUFFICES ASSUME IInv, ExecRestoreOp PROVE IInv'
  OBVIOUS
<1>1. /\ levels # << >> /\ Top.at # "loop"
      /\ Instr(Top).i = "restore_op" /\ PL_op' = Top.oldop
      /\ SetTop(Goto(Top, Top.pc + 1)) /\ UNCHANGED << body, installed, sig_pending >>
  BY DEF ExecRestoreOp, Exec, At, Advanced
<1>2. CallIn(body, Top).f = "pa_pp_op" /\ Top.pc = 4 /\ Top.oldop = Top.op
  <2>1. CallIn(body, Top).f = "pa_pp_op" /\ Top.pc = 4
    BY <1>1, TopFacts, InstrKinds
  <2> QED
    BY <1>1, <2>1, TopFacts DEF LevelOK
<1>3. sig_pending' \in BOOLEAN
  BY <1>1 DEF IInv
<1> QED
  BY <1>1, <1>2, <1>3, Here, OutsideInv

LEMMA ExecOtherInv == IInv /\ ExecOther => IInv'
<1> SUFFICES ASSUME IInv, ExecOther PROVE IInv'
  OBVIOUS
<1>1. /\ levels # << >> /\ Top.at # "loop"
      /\ \/ Instr(Top).i \in {"restore_sp", "label"}
         \/ Instr(Top).i = "set" /\ Instr(Top).var # "op"
      /\ SetTop(Goto(Top, Top.pc + 1))
      /\ UNCHANGED << body, installed, PL_op, sig_pending >>
  BY DEF ExecOther, At, Advanced
<1>2. CallIn(body, Top).f \notin {"pa_pp_op", "pa_call_runloop", "return"}
  BY <1>1, TopFacts, InstrKinds
<1>3. sig_pending' \in BOOLEAN /\ PL_op' = Top.op
  BY <1>1, <1>2, Here DEF IInv
<1> QED
  BY <1>1, <1>2, <1>3, Here, OutsideInv

LEMMA ExecBranchInv == IInv /\ ExecBranch => IInv'
<1> SUFFICES ASSUME IInv, ExecBranch PROVE IInv'
  OBVIOUS
<1>1. /\ levels # << >> /\ Top.at # "loop" /\ Instr(Top).i = "branch_if_not"
      /\ UNCHANGED << body, installed, PL_op, sig_pending >>
  BY DEF ExecBranch, Exec, At
<1> DEFINE t == Target(CodeOf(Top), Instr(Top).label)
<1>2. SetTop(Goto(Top, Top.pc + 1)) \/ SetTop(Goto(Top, t))
  BY DEF ExecBranch, Advanced
<1>3. /\ CallIn(body, Top).f \notin {"pa_pp_op", "pa_call_runloop", "return"}
      /\ t \in 1..Len(CodeOf(Top)) /\ Len(CodeOf(Top)) \in Nat
  BY <1>1, TopFacts, InstrKinds, InstrFacts
<1>4. t \in 1..Len(CodeOf(Top)) + 1
  BY <1>3
<1>5. sig_pending' \in BOOLEAN /\ PL_op' = Top.op
  BY <1>1, <1>3, Here DEF IInv
<1> HIDE DEF t
<1>6. CASE SetTop(Goto(Top, Top.pc + 1))
  BY <1>1, <1>3, <1>5, <1>6, Here, OutsideInv
<1>7. CASE SetTop(Goto(Top, t))
  BY <1>1, <1>3, <1>4, <1>5, <1>7, OutsideInv
<1> QED
  BY <1>2, <1>6, <1>7

LEMMA CallNativeStartInv == IInv /\ CallNativeStart => IInv'
<1> SUFFICES ASSUME IInv, CallNativeStart PROVE IInv'
  OBVIOUS
<1>1. PICK l : l = [Top EXCEPT !.at = "call"]
  OBVIOUS
<1>2. /\ levels # << >> /\ Top.at # "loop" /\ Instr(Top).i = "call"
      /\ SetTop(l) /\ UNCHANGED << body, installed, PL_op >>
  BY <1>1 DEF CallNativeStart, Exec, At
<1>3. PL_op' \in OpOrNull /\ sig_pending' \in BOOLEAN
  BY DEF CallNativeStart, IInv
<1>4. /\ LevelOK(body, installed, l) /\ l.kind = Top.kind /\ l.saved = Top.saved
      /\ Expected(body, l) = Expected(body, Top)
  BY <1>1, <1>2, TopFacts, WaitOK
<1>5. PL_op' = Expected(body, l)
  BY <1>2, <1>4, TopFacts
<1> QED
  BY <1>2, <1>3, <1>4, <1>5, TopMoves

LEMMA CallNativeEndInv == IInv /\ CallNativeEnd => IInv'
<1> SUFFICES ASSUME IInv, CallNativeEnd PROVE IInv'
  OBVIOUS
<1>1. /\ levels # << >> /\ Top.at # "loop" /\ Instr(Top).i = "call"
      /\ SetTop(Goto(Top, Top.pc + 1))
      /\ UNCHANGED << body, installed, PL_op, sig_pending >>
  BY DEF CallNativeEnd, At, Advanced
<1>2. sig_pending' \in BOOLEAN
  BY <1>1 DEF IInv
<1>3. CASE CallIn(body, Top).f = "pa_pp_op"
  <2>1. Top.pc = 3
    BY <1>1, <1>3, TopFacts, InstrKinds
  <2>2. PL_op' = CallIn(body, Top).op
    BY <1>1, <1>3, <2>1, Here
  <2>3. SetTop(Advanced(Top))
    BY DEF CallNativeEnd
  <2> QED
    BY <1>1, <1>2, <1>3, <2>1, <2>2, <2>3, InsideInv
<1>4. CASE CallIn(body, Top).f # "pa_pp_op"
  <2>1. PL_op' = Top.op
    BY <1>1, <1>4, Here
  <2> QED
    BY <1>1, <1>2, <1>4, <2>1, Here, OutsideInv
<1> QED
  BY <1>3, <1>4

(* A closure that an OP's op_ppaddr holds starts at the first instruction  *)
(* of its body.                                                            *)
LEMMA DirectOK ==
  ASSUME NEW b, NEW inst, BodiesOK(b, inst), NEW op \in inst
  PROVE  /\ LevelOK(b, inst, Direct(op)) /\ Expected(b, Direct(op)) = op
         /\ Direct(op).kind = "direct" /\ Direct(op).saved = op
         /\ Direct(op).at = "jit"
<1>1. op \in JitOp /\ op \in OpOrNull /\ BodyOK(b, inst, op)
  BY JitAssumption DEF BodiesOK, OpOrNull
<1>2. PICK d : d = Direct(op)
  OBVIOUS
<1>3. /\ d.kind = "direct" /\ d.saved = op /\ d.at = "jit" /\ d.op = op
      /\ d.i = 1 /\ d.pc = 1
  BY <1>2 DEF Direct
<1>4. d \in Level
  BY <1>1, <1>2 DEF Direct, Level, OpOrNull
<1>5. Len(b[op]) \in Nat /\ Len(b[op]) >= 1 /\ b[op][1] \in Call
  BY <1>1 DEF BodyOK
<1>6. d.i \in 1..Len(b[d.op])
  BY <1>3, <1>5
<1>7. CodeIn(b, d) = Code(b[op][1])
  BY <1>3 DEF CodeIn, CallIn
<1>8. d.pc \in 1..Len(CodeIn(b, d))
  BY <1>3, <1>5, <1>7, CodeFacts
<1>9. LevelOK(b, inst, d)
  BY <1>3, <1>4, <1>6, <1>8 DEF LevelOK
<1> QED
  BY <1>2, <1>3, <1>9 DEF Expected

(* The two ways the model writes the level that waits.                     *)
LEMMA WaitingTop ==
  ASSUME IInv, levels # << >>
  PROVE  /\ [levels EXCEPT ![Len(levels)].at = "call"] =
              [levels EXCEPT ![Len(levels)] = [Top EXCEPT !.at = "call"]]
         /\ levels = [levels EXCEPT ![Len(levels)] = Top]
BY TopFacts DEF Top

LEMMA CallClosureInv == IInv /\ CallClosure => IInv'
<1> SUFFICES ASSUME IInv, CallClosure PROVE IInv'
  OBVIOUS
<1>1. PICK l : l = [Top EXCEPT !.at = "call"]
  OBVIOUS
<1>2. PICK u : u = Direct(PL_op)
  OBVIOUS
<1>3. /\ levels # << >> /\ Top.at # "loop"
      /\ Instr(Top).i = "call" /\ Instr(Top).fn = "closure"
      /\ UNCHANGED << body, installed, PL_op, sig_pending >>
  BY DEF CallClosure, Exec, At
<1>4. levels' = Append([levels EXCEPT ![Len(levels)] = l], u)
  BY <1>1, <1>2, <1>3, WaitingTop DEF CallClosure
<1>5. /\ LevelOK(body, installed, l) /\ l.at = "call" /\ l.kind = Top.kind
      /\ l.saved = Top.saved /\ InstrIn(body, l) = InstrIn(body, Top)
      /\ Expected(body, l) = PL_op
  BY <1>1, <1>3, TopFacts, WaitOK
<1>6. PL_op \in installed
  <2>1. /\ CallIn(body, Top).f = "pa_pp_op" /\ Top.pc = 3
        /\ CallIn(body, Top).ppaddr = "closure"
    BY <1>3, TopFacts, InstrKinds
  <2>2. PL_op = CallIn(body, Top).op
    BY <1>3, <2>1, Here
  <2>3. Top.op \in JitOp /\ Top.i \in 1..Len(body[Top.op])
    BY <1>3, TopFacts, InstrFacts DEF LevelOK
  <2>4. CallIn(body, Top).op \in installed
    <3>1. BodyOK(body, installed, Top.op)
      BY <1>3, <2>3, TopFacts DEF BodiesOK
    <3> QED
      BY <2>1, <2>3, <3>1 DEF BodyOK, CallIn
  <2> QED
    BY <2>2, <2>4
<1>7. /\ LevelOK(body, installed, u) /\ Expected(body, u) = PL_op
      /\ u.kind = "direct" /\ u.saved = PL_op
  BY <1>2, <1>3, <1>6, TopFacts, DirectOK
<1>8. Linked(body, l, u)
  BY <1>3, <1>5, <1>7, TopFacts DEF Linked
<1>9. PL_op' \in OpOrNull /\ sig_pending' \in BOOLEAN
  BY <1>3 DEF IInv
<1> QED
  BY <1>3, <1>4, <1>5, <1>7, <1>8, <1>9, LevelBegins

LEMMA CallRunloopStartInv == IInv /\ CallRunloopStart => IInv'
<1> SUFFICES ASSUME IInv, CallRunloopStart PROVE IInv'
  OBVIOUS
<1>1. PICK l : l = [Top EXCEPT !.at = "call"]
  OBVIOUS
<1>2. PICK u : u = Loop("runloop", PL_op)
  OBVIOUS
<1>3. /\ levels # << >> /\ Top.at # "loop" /\ Instr(Top).i = "runloop"
      /\ PL_op' = Instr(Top).op /\ UNCHANGED << body, installed, sig_pending >>
  BY DEF CallRunloopStart, Exec, At
<1>4. levels' = Append([levels EXCEPT ![Len(levels)] = l], u)
  BY <1>1, <1>2, <1>3, WaitingTop DEF CallRunloopStart
<1>5. /\ LevelOK(body, installed, l) /\ l.at = "call" /\ l.kind = Top.kind
      /\ l.saved = Top.saved /\ InstrIn(body, l) = InstrIn(body, Top)
      /\ Expected(body, l) = PL_op
  BY <1>1, <1>3, TopFacts, WaitOK
<1>6. /\ LevelOK(body, installed, u) /\ u.at = "loop"
      /\ u.kind = "runloop" /\ u.saved = PL_op
  BY <1>2, LoopOK DEF IInv
<1>7. Linked(body, l, u)
  BY <1>3, <1>5, <1>6, TopFacts DEF Linked
<1>8. PL_op' \in OpOrNull /\ sig_pending' \in BOOLEAN
  <2>1. CallIn(body, Top).f = "pa_call_runloop" /\ PL_op' = CallIn(body, Top).op
    BY <1>3, TopFacts, InstrKinds
  <2>2. CallIn(body, Top).op \in Op
    BY <1>3, <2>1, TopFacts, InstrFacts
  <2> QED
    BY <1>3, <2>1, <2>2 DEF IInv, OpOrNull
<1> QED
  BY <1>3, <1>4, <1>5, <1>6, <1>7, <1>8, LevelBegins

LEMMA CallbackInv ==
  ASSUME IInv, NEW o \in CallbackOp, Callback(o)
  PROVE  IInv'
<1>1. PICK u : u = Loop("callback", PL_op)
  OBVIOUS
<1>2. /\ levels # << >> /\ Top.at = "call"
      /\ Instr(Top).i = "call" /\ Instr(Top).fn \in Reentrant
      /\ PL_op' = o /\ UNCHANGED << body, installed, sig_pending >>
  BY DEF Callback, At
<1>3. levels' = Append([levels EXCEPT ![Len(levels)] = Top], u)
  BY <1>1, <1>2, WaitingTop DEF Callback
<1>4. LevelOK(body, installed, Top) /\ Expected(body, Top) = PL_op
  BY <1>2, TopFacts
<1>5. /\ LevelOK(body, installed, u) /\ u.at = "loop"
      /\ u.kind = "callback" /\ u.saved = PL_op
  BY <1>1, LoopOK DEF IInv
<1>6. InstrIn(body, Top).fn # "closure"
  BY <1>2, TopFacts, JitAssumption
<1>7. Linked(body, Top, u)
  BY <1>2, <1>4, <1>5, <1>6, TopFacts DEF Linked
<1>8. PL_op' \in OpOrNull /\ sig_pending' \in BOOLEAN
  BY <1>2, JitAssumption DEF IInv, OpOrNull
<1> QED
  BY <1>2, <1>3, <1>4, <1>5, <1>7, <1>8, LevelBegins

LEMMA RunJitInv == IInv /\ RunJit => IInv'
<1> SUFFICES ASSUME IInv, RunJit PROVE IInv'
  OBVIOUS
<1>1. PICK l : l = [Top EXCEPT !.at = "jit", !.op = PL_op]
  OBVIOUS
<1>2. /\ levels # << >> /\ Top.at = "loop" /\ PL_op \in installed
      /\ SetTop(l) /\ UNCHANGED << body, installed, PL_op, sig_pending >>
  BY <1>1 DEF RunJit, At
<1>3. /\ BodiesOK(body, installed) /\ Top \in Level
      /\ Top.kind # "direct" /\ Top.i = 1 /\ Top.pc = 1
  BY <1>2, TopFacts DEF LevelOK
<1>4. l \in Level
  BY <1>1, <1>3 DEF Level, IInv
<1>5. l.at = "jit" /\ l.op = PL_op
  BY <1>1, <1>3 DEF Level
<1>6. /\ l.kind = Top.kind /\ l.saved = Top.saved /\ l.i = 1 /\ l.pc = 1
  BY <1>1, <1>3 DEF Level
<1>7. BodyOK(body, installed, PL_op)
  BY <1>2, <1>3 DEF BodiesOK
<1>8. Len(body[PL_op]) \in Nat /\ Len(body[PL_op]) >= 1 /\ body[PL_op][1] \in Call
  BY <1>2, <1>7 DEF BodyOK
<1>9. l.i \in 1..Len(body[l.op])
  BY <1>5, <1>6, <1>8
<1>10. CodeIn(body, l) = Code(body[PL_op][1])
  BY <1>5, <1>6 DEF CodeIn, CallIn
<1>11. l.pc \in 1..Len(CodeIn(body, l))
  BY <1>6, <1>8, <1>10, CodeFacts
<1>12. LevelOK(body, installed, l)
  BY <1>2, <1>3, <1>4, <1>5, <1>6, <1>9, <1>11 DEF LevelOK
<1>13. PL_op' = Expected(body, l)
  BY <1>2, <1>5, <1>6 DEF Expected
<1>14. PL_op' \in OpOrNull /\ sig_pending' \in BOOLEAN
  BY <1>2 DEF IInv
<1> QED
  BY <1>2, <1>6, <1>12, <1>13, <1>14, TopMoves

(* A return is emitted where PL_op is the OP the function was called for.  *)
LEMMA AtReturn ==
  ASSUME IInv, Exec("return")
  PROVE  /\ levels # << >> /\ Top.at = "jit" /\ Top.op \in Op
         /\ PL_op = Top.op /\ CallIn(body, Top).f = "return"
<1>1. levels # << >> /\ Top.at = "jit" /\ Instr(Top).i = "return"
  BY DEF Exec, At
<1>2. CallIn(body, Top).f = "return" /\ Top.op \in JitOp
  BY <1>1, TopFacts, InstrKinds, InstrFacts
<1> QED
  BY <1>1, <1>2, Here, JitAssumption

LEMMA ReturnToLoopInv == IInv /\ ReturnToLoop => IInv'
<1> SUFFICES ASSUME IInv, ReturnToLoop PROVE IInv'
  OBVIOUS
<1>1. PICK l : l = Loop(Top.kind, Top.saved)
  OBVIOUS
<1>2. /\ Exec("return") /\ Top.kind # "direct" /\ PL_op' = op_next[PL_op]
      /\ SetTop(l) /\ UNCHANGED << body, installed, sig_pending >>
  BY <1>1 DEF ReturnToLoop
<1>3. levels # << >> /\ PL_op \in Op
  BY <1>2, AtReturn
<1>4. /\ Top.kind \in {"base", "callback", "runloop"} /\ Top.saved \in OpOrNull
  BY <1>2, <1>3, TopFacts DEF Level
<1>5. /\ LevelOK(body, installed, l) /\ l.at = "loop"
      /\ l.kind = Top.kind /\ l.saved = Top.saved
  BY <1>1, <1>4, LoopOK
<1>6. PL_op' \in OpOrNull /\ sig_pending' \in BOOLEAN
  BY <1>2, <1>3, JitAssumption DEF IInv
<1> QED
  BY <1>2, <1>3, <1>5, <1>6, TopMoves

LEMMA ReturnToCallerInv == IInv /\ ReturnToCaller => IInv'
<1> SUFFICES ASSUME IInv, ReturnToCaller PROVE IInv'
  OBVIOUS
<1>1. /\ Exec("return") /\ Top.kind = "direct"
      /\ PopTo(Goto(Below, Below.pc + 1))
      /\ UNCHANGED << body, installed, PL_op, sig_pending >>
  BY DEF ReturnToCaller, Advanced
<1>2. levels # << >> /\ PL_op = Top.op /\ Top.op = Top.saved
  BY <1>1, AtReturn, TopFacts DEF LevelOK
<1>3. /\ Len(levels) > 1 /\ BodiesOK(body, installed)
      /\ LevelOK(body, installed, Below) /\ Linked(body, Below, Top)
      /\ Goto(Below, Below.pc + 1) = GotoIn(body, Below, Below.pc + 1)
  BY <1>1, <1>2, TopFacts, BelowFacts
<1>4. /\ Below.at # "loop" /\ Top.saved = Expected(body, Below)
      /\ InstrIn(body, Below).i = "call" /\ InstrIn(body, Below).fn = "closure"
  BY <1>1, <1>3 DEF Linked
<1>5. CallIn(body, Below).f = "pa_pp_op" /\ Below.pc = 3
  BY <1>3, <1>4, InstrKinds
<1>6. PICK l : l = GotoIn(body, Below, Below.pc + 1)
  OBVIOUS
<1>7. /\ LevelOK(body, installed, l) /\ l.kind = Below.kind /\ l.saved = Below.saved
      /\ Expected(body, l) = CallIn(body, Below).op
  BY <1>3, <1>4, <1>5, <1>6, GotoInside
<1>8. PL_op' = Expected(body, l)
  BY <1>1, <1>2, <1>4, <1>5, <1>7 DEF Expected
<1>9. PL_op' \in OpOrNull /\ sig_pending' \in BOOLEAN /\ PopTo(l)
  BY <1>1, <1>3, <1>6 DEF IInv
<1> QED
  BY <1>1, <1>3, <1>7, <1>8, <1>9, TopEnds

LEMMA RunloopEndInv == IInv /\ RunloopEnd => IInv'
<1> SUFFICES ASSUME IInv, RunloopEnd PROVE IInv'
  OBVIOUS
<1>1. /\ levels # << >> /\ Top.kind = "runloop" /\ PL_op' = Top.saved
      /\ PopTo(Goto(Below, Below.pc + 1)) /\ UNCHANGED << body, installed, sig_pending >>
  BY DEF RunloopEnd, At, Advanced
<1>2. /\ Len(levels) > 1 /\ BodiesOK(body, installed)
      /\ LevelOK(body, installed, Below) /\ Linked(body, Below, Top)
      /\ Goto(Below, Below.pc + 1) = GotoIn(body, Below, Below.pc + 1)
  BY <1>1, TopFacts, BelowFacts
<1>3. /\ Below.at # "loop" /\ Top.saved = Expected(body, Below)
      /\ InstrIn(body, Below).i = "runloop"
  BY <1>1, <1>2 DEF Linked
<1>4. CallIn(body, Below).f = "pa_call_runloop"
  BY <1>2, <1>3, InstrKinds
<1>5. Below.pc + 1 \in 1..Len(CodeIn(body, Below)) + 1
  BY <1>2, <1>3, <1>4, InstrFacts
<1>6. PICK l : l = GotoIn(body, Below, Below.pc + 1)
  OBVIOUS
<1>7. /\ LevelOK(body, installed, l) /\ l.kind = Below.kind /\ l.saved = Below.saved
      /\ Expected(body, l) = Below.op
  BY <1>2, <1>3, <1>4, <1>5, <1>6, GotoOutside
<1>8. PL_op' = Expected(body, l)
  BY <1>1, <1>3, <1>4, <1>7 DEF Expected
<1>9. PL_op' \in OpOrNull /\ sig_pending' \in BOOLEAN /\ PopTo(l)
  BY <1>1, <1>2, <1>6, TopFacts DEF IInv, Level
<1> QED
  BY <1>1, <1>2, <1>7, <1>8, <1>9, TopEnds

LEMMA CallbackEndInv == IInv /\ CallbackEnd => IInv'
<1> SUFFICES ASSUME IInv, CallbackEnd PROVE IInv'
  OBVIOUS
<1>1. /\ levels # << >> /\ Top.kind = "callback" /\ PL_op' = Top.saved
      /\ PopTo(Below) /\ UNCHANGED << body, installed, sig_pending >>
  BY DEF CallbackEnd, At
<1>2. /\ Len(levels) > 1 /\ LevelOK(body, installed, Below)
      /\ Linked(body, Below, Top)
  BY <1>1, BelowFacts
<1>3. PL_op' = Expected(body, Below)
  BY <1>1, <1>2 DEF Linked
<1>4. PL_op' \in OpOrNull /\ sig_pending' \in BOOLEAN
  BY <1>1, TopFacts DEF IInv, Level
<1> QED
  BY <1>1, <1>2, <1>3, <1>4, TopEnds

(* Steps that leave the C stack alone while a run loop or a level that     *)
(* need not know PL_op has control, or that start or end a run.            *)
LEMMA RunNativeInv == IInv /\ RunNative => IInv'
<1> SUFFICES ASSUME IInv, RunNative PROVE IInv'
  OBVIOUS
<1>1. /\ Top.at = "loop" /\ PL_op \in Op /\ PL_op' \in op_succ[PL_op]
      /\ UNCHANGED << body, installed, sig_pending, levels >>
  BY DEF RunNative, At
<1>2. PL_op' \in OpOrNull
  BY <1>1, JitAssumption
<1>3. LevelsOK(body, installed, levels, PL_op')
  BY <1>1 DEF IInv, LevelsOK, Top
<1> QED
  BY <1>1, <1>2, <1>3 DEF IInv

LEMMA SigArriveInv == IInv /\ SigArrive => IInv'
BY DEF IInv, SigArrive

LEMMA StartRunInv ==
  ASSUME IInv, NEW o \in StartOp, StartRun(o)
  PROVE  IInv'
<1>1. PICK u : u = Loop("base", NULL)
  OBVIOUS
<1>2. /\ levels' = << u >> /\ PL_op' = o /\ UNCHANGED << body, installed, sig_pending >>
  BY <1>1 DEF StartRun
<1>3. LevelOK(body, installed, u) /\ u.at = "loop" /\ u.kind = "base" /\ u \in Level
  BY <1>1, LoopOK DEF OpOrNull
<1>4. LevelsOK(body, installed, << u >>, PL_op')
  <2>1. /\ << u >> \in Seq(Level) /\ Len(<< u >>) = 1 /\ << u >>[1] = u
    BY <1>3
  <2> QED
    BY <1>3, <2>1 DEF LevelsOK
<1>5. PL_op' \in OpOrNull
  BY <1>2, JitAssumption DEF OpOrNull
<1> QED
  BY <1>2, <1>4, <1>5 DEF IInv

LEMMA BaseEndInv == IInv /\ BaseEnd => IInv'
<1> SUFFICES ASSUME IInv, BaseEnd PROVE IInv'
  OBVIOUS
<1>1. levels' = << >> /\ UNCHANGED << body, installed, PL_op, sig_pending >>
  BY DEF BaseEnd
<1>2. LevelsOK(body, installed, << >>, PL_op)
  BY DEF LevelsOK
<1> QED
  BY <1>1, <1>2 DEF IInv

(* A die takes any number of levels away.                                  *)
LEMMA DieInv ==
  ASSUME IInv, NEW m \in 1..Len(levels), NEW o \in RestartOp, Die(m, o)
  PROVE  IInv'
<1>1. PICK l : l = Loop(levels[m].kind, levels[m].saved)
  OBVIOUS
<1>2. /\ levels[m].kind \in {"base", "callback"}
      /\ levels' = Append(SubSeq(levels, 1, m - 1), l)
      /\ PL_op' = o /\ UNCHANGED << body, installed, sig_pending >>
  BY <1>1 DEF Die
<1>3. levels \in Seq(Level) /\ Len(levels) \in Nat /\ LevelsOK(body, installed, levels, PL_op)
  BY DEF IInv, LevelsOK
<1>4. levels[m].saved \in OpOrNull
  <2>1. levels[m] \in Level
    BY <1>3
  <2> QED
    BY <2>1 DEF Level
<1>5. /\ LevelOK(body, installed, l) /\ l.at = "loop" /\ l \in Level
      /\ l.kind = levels[m].kind /\ l.saved = levels[m].saved
  <2>1. PICK k \in {"base", "callback", "runloop"} : k = levels[m].kind
    BY <1>2
  <2>2. PICK v \in OpOrNull : v = levels[m].saved
    BY <1>4
  <2>3. l = Loop(k, v)
    BY <1>1, <2>1, <2>2
  <2>4. /\ LevelOK(body, installed, l) /\ l.at = "loop" /\ l \in Level
        /\ l.kind = k /\ l.saved = v
    BY <2>3, LoopOK
  <2> QED
    BY <2>1, <2>2, <2>4
<1>6. /\ levels' \in Seq(Level) /\ Len(levels') = m
      /\ \A n \in 1..m - 1 : levels'[n] = levels[n]
      /\ levels'[m] = l
  <2>1. PICK sub : sub = SubSeq(levels, 1, m - 1)
    OBVIOUS
  <2>2. /\ sub \in Seq(Level) /\ Len(sub) = m - 1
        /\ \A n \in 1..m - 1 : sub[n] = levels[n]
    BY <1>3, <2>1
  <2> QED
    BY <1>2, <1>5, <2>1, <2>2
<1>7. LevelsOK(body, installed, levels', PL_op')
  BY <1>3, <1>5, <1>6, Replaced
<1>8. PL_op' \in OpOrNull
  BY <1>2, JitAssumption
<1> QED
  BY <1>2, <1>7, <1>8 DEF IInv

-----------------------------------------------------------------------------
(* Every step preserves the invariant.                                     *)
LEMMA StepInv == IInv /\ [Next]_vars => IInv'
<1> SUFFICES ASSUME IInv, [Next]_vars PROVE IInv'
  OBVIOUS
<1>1. CASE Build
  BY <1>1, EmitInv, InstallInv DEF Build
<1>2. CASE \E o \in StartOp : StartRun(o)
  BY <1>2, StartRunInv
<1>3. CASE LoopStep
  BY <1>3, RunNativeInv, RunJitInv, RunloopEndInv, CallbackEndInv, BaseEndInv
     DEF LoopStep
<1>4. CASE ExecInsn
  BY <1>4, ExecSetOpInv, ExecSaveOpInv, ExecRestoreOpInv, ExecOtherInv,
     ExecBranchInv, CallNativeStartInv, CallClosureInv, CallRunloopStartInv,
     ReturnToLoopInv, ReturnToCallerInv
     DEF ExecInsn
<1>5. CASE CallNativeEnd
  BY <1>5, CallNativeEndInv
<1>6. CASE \E o \in CallbackOp : Callback(o)
  BY <1>6, CallbackInv
<1>7. CASE Unwind
  BY <1>7, DieInv DEF Unwind
<1>8. CASE SigArrive
  BY <1>8, SigArriveInv
<1>9. CASE UNCHANGED vars
  BY <1>9 DEF vars, IInv
<1> QED
  BY <1>1, <1>2, <1>3, <1>4, <1>5, <1>6, <1>7, <1>8, <1>9 DEF Next

(* The invariant holds of every behaviour.                                 *)
THEOREM Invariant == Spec => []IInv
<1> QED
  BY InitInv, StepInv, PTL DEF Spec

(* What the invariant says of each property of JitPP.                      *)
LEMMA InvOpAtBoundary == IInv => OpAtBoundary
<1> SUFFICES ASSUME IInv, At("jit"), Top.pc = 1 PROVE PL_op = Top.op
  BY DEF OpAtBoundary
<1> QED
  BY DEF IInv, LevelsOK, At, Top, Expected

LEMMA InvNativeSeesItsOp == IInv => NativeSeesItsOp
<1> SUFFICES ASSUME IInv, At("call"), Instr(Top).i = "call"
             PROVE  PL_op = IF Instr(Top).fn \in {"pp", "closure"}
                            THEN CallIn(body, Top).op ELSE Top.op
  BY DEF NativeSeesItsOp, CallIn
<1>1. levels # << >> /\ Top.at # "loop"
  BY DEF At
<1>2. CASE CallIn(body, Top).f = "pa_pp_op"
  <2>1. Top.pc = 3 /\ Instr(Top).fn = CallIn(body, Top).ppaddr
    BY <1>1, <1>2, TopFacts, InstrKinds
  <2>2. CallIn(body, Top).ppaddr \in {"pp", "closure"}
    BY <1>1, <1>2, TopFacts, InstrFacts, CodeFacts
  <2> QED
    BY <1>1, <1>2, <2>1, <2>2, Here
<1>3. CASE CallIn(body, Top).f # "pa_pp_op"
  <2>1. Instr(Top).fn \notin {"pp", "closure"}
    BY <1>1, <1>3, TopFacts, InstrKinds
  <2> QED
    BY <1>1, <1>3, <2>1, Here
<1> QED
  BY <1>2, <1>3

LEMMA InvWaitingGetsItsOp == IInv => WaitingGetsItsOp
<1> SUFFICES ASSUME IInv, NEW n \in 1..Len(levels) - 1
             PROVE  /\ levels[n].at = "call"
                    /\ levels[n + 1].saved =
                         IF CallIn(body, levels[n]).f = "pa_pp_op"
                         THEN CallIn(body, levels[n]).op ELSE levels[n].op
  BY DEF WaitingGetsItsOp, CallIn
<1> DEFINE l == levels[n]
<1>1. /\ BodiesOK(body, installed) /\ LevelOK(body, installed, l)
      /\ l.at = "call" /\ levels[n + 1].saved = Expected(body, l)
  <2>1. Len(levels) \in Nat /\ n \in 1..Len(levels)
    BY DEF IInv, LevelsOK
  <2>2. LevelOK(body, installed, l) /\ Linked(body, l, levels[n + 1])
    BY <2>1 DEF IInv, LevelsOK
  <2> QED
    BY <2>2 DEF IInv, Linked
<1>2. CallIn(body, l).f = "pa_pp_op" => l.pc = 3
  <2>1. InstrIn(body, l).i \in {"call", "runloop"}
    BY <1>1 DEF LevelOK
  <2> QED
    BY <1>1, <2>1, InstrKinds
<1> QED
  BY <1>1, <1>2 DEF Expected

(* Every variable keeps its type, whatever the optree and the bodies.      *)
THEOREM TypeCorrect == Spec => []TypeOK
<1> QED
  BY Invariant, InvTypeOK, PTL

(* Between two emitter calls PL_op is the OP of the compiled function: the *)
(* instructions that read PL_op->op_targ and PL_op->op_next can be emitted *)
(* anywhere, at any depth of nesting and after any die.                    *)
THEOREM OpKept == Spec => []OpAtBoundary
<1> QED
  BY Invariant, InvOpAtBoundary, PTL

(* Native functions are called with PL_op at the OP they work for, also    *)
(* after callbacks that run compiled code.                                 *)
THEOREM OpGiven == Spec => []NativeSeesItsOp
<1> QED
  BY Invariant, InvNativeSeesItsOp, PTL

(* Each level of the C stack gives back to the one below the PL_op it is   *)
(* to continue with.                                                       *)
THEOREM OpRestored == Spec => []WaitingGetsItsOp
<1> QED
  BY Invariant, InvWaitingGetsItsOp, PTL

-----------------------------------------------------------------------------
(* JitPP implements OpStack.  The entry of an activation, with the bodies  *)
(* as a parameter; cur is what PL_op is when control is in it.             *)
Inside(b, l) == l.at # "loop" /\ CallIn(b, l).f = "pa_pp_op" /\ l.pc \in {3, 4}

OpsIn(b, l, cur) == IF Inside(b, l) THEN << l.oldop, cur >> ELSE << cur >>

EntriesOf(b, ls, op) ==
  [n \in 1..Len(ls) |->
     OpsIn(b, ls[n], IF n = Len(ls) THEN op ELSE ls[n + 1].saved)]

LEMMA ActivationsAre ==
  /\ Activations = EntriesOf(body, levels, PL_op)
  /\ Activations' = EntriesOf(body', levels', PL_op')
BY DEF Activations, EntriesOf, OpsOf, CurOp, PP, OpsIn, Inside, CallIn

LEMMA EntryType ==
  ASSUME NEW b, NEW l \in Level, NEW cur \in OpOrNull
  PROVE  /\ OpsIn(b, l, cur) \in Seq(OpOrNull)
         /\ Inside(b, l) => /\ Len(OpsIn(b, l, cur)) = 2
                            /\ OpsIn(b, l, cur)[1] = l.oldop
         /\ ~Inside(b, l) => /\ Len(OpsIn(b, l, cur)) = 1
                             /\ OpsIn(b, l, cur)[1] = cur
<1>1. l.oldop \in OpOrNull
  BY DEF Level
<1>2. << l.oldop, cur >> \in Seq(OpOrNull) /\ << cur >> \in Seq(OpOrNull)
  BY <1>1
<1> QED
  BY <1>2 DEF OpsIn

LEMMA EntriesType ==
  ASSUME NEW b, NEW ls \in Seq(Level), NEW op \in OpOrNull
  PROVE  /\ EntriesOf(b, ls, op) \in Seq(Seq(OpOrNull))
         /\ Len(EntriesOf(b, ls, op)) = Len(ls)
         /\ ls # << >> => EntriesOf(b, ls, op)[Len(ls)] = OpsIn(b, ls[Len(ls)], op)
<1>1. Len(ls) \in Nat /\ \A n \in 1..Len(ls) : ls[n] \in Level
  OBVIOUS
<1>2. ASSUME NEW n \in 1..Len(ls)
      PROVE  OpsIn(b, ls[n], IF n = Len(ls) THEN op ELSE ls[n + 1].saved)
               \in Seq(OpOrNull)
  <2>1. (IF n = Len(ls) THEN op ELSE ls[n + 1].saved) \in OpOrNull
    <3>1. CASE n = Len(ls)
      BY <3>1
    <3>2. CASE n # Len(ls)
      <4>1. n + 1 \in 1..Len(ls)
        BY <1>1, <3>2
      <4>2. ls[n + 1] \in Level
        BY <1>1, <4>1
      <4> QED
        BY <3>2, <4>2 DEF Level
    <3> QED
      BY <3>1, <3>2
  <2> QED
    BY <1>1, <2>1, EntryType
<1>3. EntriesOf(b, ls, op) \in [1..Len(ls) -> Seq(OpOrNull)]
  BY <1>2 DEF EntriesOf
<1>4. EntriesOf(b, ls, op) \in Seq(Seq(OpOrNull)) /\ Len(EntriesOf(b, ls, op)) = Len(ls)
  BY <1>1, <1>3
<1>5. ls # << >> => Len(ls) \in 1..Len(ls)
  BY <1>1
<1> QED
  BY <1>4, <1>5 DEF EntriesOf

(* t is s up to its m-th element, which is e.                              *)
CutTo(s, m, t, e) == Len(t) = m /\ (\A n \in 1..m - 1 : t[n] = s[n]) /\ t[m] = e

LEMMA CutSequences ==
  ASSUME NEW S, NEW s \in Seq(S), NEW t \in Seq(S), NEW e \in S
  PROVE  /\ s # << >> /\ CutTo(s, Len(s), t, e) => t = [s EXCEPT ![Len(s)] = e]
         /\ \A m \in 1..Len(s) : CutTo(s, m, t, e) /\ e = s[m] => t = SubSeq(s, 1, m)
         /\ \A m \in 1..Len(s) : CutTo(s, m, t, e) => t = Append(SubSeq(s, 1, m - 1), e)
         /\ CutTo(s, Len(s) + 1, t, e) => t = Append(s, e)
<1>0. Len(s) \in Nat /\ Len(t) \in Nat
  OBVIOUS
<1>1. ASSUME s # << >>, CutTo(s, Len(s), t, e) PROVE t = [s EXCEPT ![Len(s)] = e]
  <2>1. PICK u : u = [s EXCEPT ![Len(s)] = e]
    OBVIOUS
  <2>2. /\ u \in Seq(S) /\ Len(u) = Len(s)
        /\ \A n \in 1..Len(s) : u[n] = IF n = Len(s) THEN e ELSE s[n]
    BY <1>0, <1>1, <2>1
  <2>3. \A n \in 1..Len(t) : t[n] = u[n]
    BY <1>0, <1>1, <2>2 DEF CutTo
  <2>4. Len(t) = Len(u)
    BY <1>1, <2>2 DEF CutTo
  <2> QED
    BY <2>1, <2>2, <2>3, <2>4, SeqEqual
<1>2. ASSUME NEW m \in 1..Len(s), CutTo(s, m, t, e), e = s[m] PROVE t = SubSeq(s, 1, m)
  <2>1. PICK u : u = SubSeq(s, 1, m)
    OBVIOUS
  <2>2. u \in Seq(S) /\ Len(u) = m /\ \A n \in 1..m : u[n] = s[n]
    BY <1>0, <2>1
  <2>3. \A n \in 1..Len(t) : t[n] = u[n]
    BY <1>0, <1>2, <2>2 DEF CutTo
  <2>4. Len(t) = Len(u)
    BY <1>2, <2>2 DEF CutTo
  <2> QED
    BY <2>1, <2>2, <2>3, <2>4, SeqEqual
<1>3. ASSUME NEW m \in 1..Len(s), CutTo(s, m, t, e)
      PROVE  t = Append(SubSeq(s, 1, m - 1), e)
  <2>1. PICK u : u = SubSeq(s, 1, m - 1)
    OBVIOUS
  <2>2. u \in Seq(S) /\ Len(u) = m - 1 /\ \A n \in 1..m - 1 : u[n] = s[n]
    BY <1>0, <2>1
  <2>3. PICK v : v = Append(u, e)
    OBVIOUS
  <2>4. /\ v \in Seq(S) /\ Len(v) = m
        /\ \A n \in 1..m : v[n] = IF n = m THEN e ELSE u[n]
    BY <1>0, <2>2, <2>3
  <2>5. \A n \in 1..Len(t) : t[n] = v[n]
    BY <1>0, <1>3, <2>2, <2>4 DEF CutTo
  <2>6. Len(t) = Len(v)
    BY <1>3, <2>4 DEF CutTo
  <2> QED
    BY <2>1, <2>3, <2>4, <2>5, <2>6, SeqEqual
<1>4. ASSUME CutTo(s, Len(s) + 1, t, e) PROVE t = Append(s, e)
  <2>3. PICK v : v = Append(s, e)
    OBVIOUS
  <2>4. /\ v \in Seq(S) /\ Len(v) = Len(s) + 1
        /\ \A n \in 1..Len(s) + 1 : v[n] = IF n = Len(s) + 1 THEN e ELSE s[n]
    BY <1>0, <2>3
  <2>5. \A n \in 1..Len(t) : t[n] = v[n]
    BY <1>0, <1>4, <2>4 DEF CutTo
  <2>6. Len(t) = Len(v)
    BY <1>4, <2>4 DEF CutTo
  <2> QED
    BY <2>3, <2>4, <2>5, <2>6, SeqEqual
<1> QED
  BY <1>1, <1>2, <1>3, <1>4

LEMMA CutAppends ==
  ASSUME NEW S, NEW s \in Seq(S), NEW t \in Seq(S), NEW e \in S,
         CutTo(s, Len(s) + 1, t, e)
  PROVE  t = Append(s, e)
BY CutSequences

LEMMA CutUnwinds ==
  ASSUME NEW S, NEW s \in Seq(S), NEW t \in Seq(S), NEW e \in S,
         NEW m \in 1..Len(s), CutTo(s, m, t, e)
  PROVE  t = Append(SubSeq(s, 1, m - 1), e)
BY CutSequences

(* The levels above m end and m goes on as l, with another entry.          *)
LEMMA EntriesReplaced ==
  ASSUME NEW b, NEW ls \in Seq(Level), NEW op \in OpOrNull,
         NEW m \in 1..Len(ls), NEW l \in Level, l.saved = ls[m].saved,
         NEW ls2 \in Seq(Level), CutTo(ls, m, ls2, l), NEW op2 \in OpOrNull
  PROVE  CutTo(EntriesOf(b, ls, op), m, EntriesOf(b, ls2, op2), OpsIn(b, l, op2))
<1>0. /\ Len(ls) \in Nat /\ m \in Nat /\ m >= 1 /\ m <= Len(ls)
      /\ Len(ls2) = m /\ \A n \in 1..m - 1 : ls2[n] = ls[n]
      /\ ls2[m] = l
  BY DEF CutTo
<1>1. ASSUME NEW n \in 1..m - 1
      PROVE  EntriesOf(b, ls2, op2)[n] = EntriesOf(b, ls, op)[n]
  <2>1. n \in 1..Len(ls) /\ n \in 1..Len(ls2) /\ n # Len(ls) /\ n # Len(ls2)
    BY <1>0
  <2>2. ls2[n] = ls[n] /\ ls2[n + 1].saved = ls[n + 1].saved
    <3>1. CASE n + 1 = m
      BY <1>0, <3>1
    <3>2. CASE n + 1 # m
      <4>1. n + 1 \in 1..m - 1
        BY <1>0, <3>2
      <4> QED
        BY <1>0, <4>1
    <3> QED
      BY <3>1, <3>2
  <2>3. EntriesOf(b, ls2, op2)[n] = OpsIn(b, ls2[n], ls2[n + 1].saved)
    BY <2>1 DEF EntriesOf
  <2>4. EntriesOf(b, ls, op)[n] = OpsIn(b, ls[n], ls[n + 1].saved)
    BY <2>1 DEF EntriesOf
  <2> QED
    BY <2>2, <2>3, <2>4
<1>2. EntriesOf(b, ls2, op2)[m] = OpsIn(b, l, op2)
  <2>1. m \in 1..Len(ls2) /\ m = Len(ls2)
    BY <1>0
  <2> QED
    BY <1>0, <2>1 DEF EntriesOf
<1>3. Len(EntriesOf(b, ls2, op2)) = m
  BY <1>0, EntriesType
<1> QED
  BY <1>1, <1>2, <1>3 DEF CutTo

(* A level u begins above the last one, which waits with the same entry.   *)
LEMMA EntriesPushed ==
  ASSUME NEW b, NEW ls \in Seq(Level), NEW m \in Nat, m >= 1, Len(ls) = m,
         NEW op \in OpOrNull, NEW op2 \in OpOrNull,
         NEW l, l.saved = ls[m].saved, OpsIn(b, l, op) = OpsIn(b, ls[m], op),
         NEW u, u.saved = op, ~Inside(b, u),
         NEW ls2 \in Seq(Level), Len(ls2) = m + 1,
         \A n \in 1..m - 1 : ls2[n] = ls[n], ls2[m] = l, ls2[m + 1] = u
  PROVE  CutTo(EntriesOf(b, ls, op), m + 1, EntriesOf(b, ls2, op2), << op2 >>)
<1>2. ASSUME NEW n \in 1..m
      PROVE  EntriesOf(b, ls2, op2)[n] = EntriesOf(b, ls, op)[n]
  <2>1. n \in 1..Len(ls2) /\ n # Len(ls2) /\ n \in 1..Len(ls)
    OBVIOUS
  <2>2. EntriesOf(b, ls2, op2)[n] = OpsIn(b, ls2[n], ls2[n + 1].saved)
    BY <2>1 DEF EntriesOf
  <2>3. CASE n = m
    <3>1. EntriesOf(b, ls, op)[n] = OpsIn(b, ls[m], op)
      BY <2>1, <2>3 DEF EntriesOf
    <3> QED
      BY <2>2, <2>3, <3>1
  <2>4. CASE n # m
    <3>1. EntriesOf(b, ls, op)[n] = OpsIn(b, ls[n], ls[n + 1].saved)
      BY <2>1, <2>4 DEF EntriesOf
    <3>2. n \in 1..m - 1 /\ (n + 1 = m \/ n + 1 \in 1..m - 1)
      BY <2>4
    <3>3. ls2[n] = ls[n] /\ ls2[n + 1].saved = ls[n + 1].saved
      BY <3>2
    <3> QED
      BY <2>2, <3>1, <3>3
  <2> QED
    BY <2>3, <2>4
<1>3. EntriesOf(b, ls2, op2)[m + 1] = << op2 >>
  <2>1. m + 1 \in 1..Len(ls2) /\ m + 1 = Len(ls2)
    OBVIOUS
  <2>2. EntriesOf(b, ls2, op2)[m + 1] = OpsIn(b, u, op2)
    BY <2>1 DEF EntriesOf
  <2> QED
    BY <2>2 DEF OpsIn
<1>4. Len(EntriesOf(b, ls2, op2)) = m + 1 /\ m + 1 - 1 = m
  BY EntriesType
<1> QED
  BY <1>2, <1>3, <1>4 DEF CutTo

-----------------------------------------------------------------------------
(* What a step does to the activations.                                    *)

(* The last entry, as OpStack reads it.                                    *)
LEMMA TopEntry ==
  ASSUME IInv, levels # << >>
  PROVE  /\ Activations \in Seq(Seq(OpOrNull)) /\ Activations # << >>
         /\ Len(Activations) = Len(levels)
         /\ Activations[Len(Activations)] = OpsIn(body, Top, PL_op)
         /\ Inside(body, Top) => /\ Len(Activations[Len(Activations)]) = 2
                                 /\ Activations[Len(Activations)][1] = Top.oldop
         /\ ~Inside(body, Top) => /\ Len(Activations[Len(Activations)]) = 1
                                  /\ Activations[Len(Activations)][1] = PL_op
<1>1. levels \in Seq(Level) /\ Len(levels) \in Nat \ {0} /\ Top \in Level
  BY TopFacts
<1>2. PL_op \in OpOrNull
  BY DEF IInv
<1>3. /\ Activations \in Seq(Seq(OpOrNull)) /\ Len(Activations) = Len(levels)
      /\ Activations[Len(levels)] = OpsIn(body, Top, PL_op)
  BY <1>1, <1>2, EntriesType, ActivationsAre DEF Top
<1>4. Activations # << >>
  BY <1>1, <1>3
<1> QED
  BY <1>1, <1>2, <1>3, <1>4, EntryType

(* The levels above m end, and m goes on as l.                             *)
LEMMA StepCuts ==
  ASSUME IInv, NEW m \in 1..Len(levels), NEW l \in Level,
         l.saved = levels[m].saved, CutTo(levels, m, levels', l),
         levels' \in Seq(Level), body' = body, PL_op' \in OpOrNull
  PROVE  /\ CutTo(Activations, m, Activations', OpsIn(body, l, PL_op'))
         /\ Activations \in Seq(Seq(OpOrNull)) /\ Activations' \in Seq(Seq(OpOrNull))
         /\ OpsIn(body, l, PL_op') \in Seq(OpOrNull)
         /\ Len(Activations) = Len(levels)
<1>1. PICK ls2 : ls2 = levels'
  OBVIOUS
<1>2. PICK op2 : op2 = PL_op'
  OBVIOUS
<1>3. PICK ls : ls = levels
  OBVIOUS
<1>4. /\ ls \in Seq(Level) /\ PL_op \in OpOrNull /\ op2 \in OpOrNull
      /\ ls2 \in Seq(Level) /\ CutTo(ls, m, ls2, l) /\ m \in 1..Len(ls)
      /\ l.saved = ls[m].saved
  BY <1>1, <1>2, <1>3 DEF IInv, LevelsOK
<1>5. CutTo(EntriesOf(body, ls, PL_op), m, EntriesOf(body, ls2, op2), OpsIn(body, l, op2))
  BY <1>4, EntriesReplaced
<1>6. /\ EntriesOf(body, ls, PL_op) \in Seq(Seq(OpOrNull))
      /\ EntriesOf(body, ls2, op2) \in Seq(Seq(OpOrNull))
      /\ Len(EntriesOf(body, ls, PL_op)) = Len(ls)
      /\ OpsIn(body, l, op2) \in Seq(OpOrNull)
  BY <1>4, EntriesType, EntryType
<1> QED
  BY <1>1, <1>2, <1>3, <1>5, <1>6, ActivationsAre

(* The last level goes on.                                                 *)
LEMMA TopGoesOn ==
  ASSUME IInv, levels # << >>, NEW l \in Level, SetTop(l), l.saved = Top.saved,
         body' = body, PL_op' \in OpOrNull
  PROVE  /\ Activations' = [Activations EXCEPT ![Len(Activations)] =
                              OpsIn(body, l, PL_op')]
         /\ OpsIn(body, l, PL_op') = OpsIn(body, Top, PL_op) =>
              Activations' = Activations
<1>1. levels \in Seq(Level) /\ Len(levels) \in 1..Len(levels)
  BY TopFacts
<1>2. levels' \in Seq(Level) /\ CutTo(levels, Len(levels), levels', l)
  BY <1>1 DEF SetTop, CutTo
<1>3. /\ CutTo(Activations, Len(levels), Activations', OpsIn(body, l, PL_op'))
      /\ Activations \in Seq(Seq(OpOrNull)) /\ Activations' \in Seq(Seq(OpOrNull))
      /\ OpsIn(body, l, PL_op') \in Seq(OpOrNull)
  BY <1>1, <1>2, StepCuts DEF Top
<1>4. Activations' = [Activations EXCEPT ![Len(Activations)] = OpsIn(body, l, PL_op')]
  <2>1. Activations # << >> /\ Len(Activations) = Len(levels)
    BY TopEntry
  <2> QED
    BY <1>3, <2>1, CutSequences
<1> QED
  BY <1>4, TopEntry

(* The last level ends, and the one below it goes on with the same entry.  *)
LEMMA TopIsPopped ==
  ASSUME IInv, Len(levels) > 1, NEW l \in Level, PopTo(l), l.saved = Below.saved,
         body' = body, PL_op' \in OpOrNull, ~Inside(body, Top),
         OpsIn(body, l, PL_op') = OpsIn(body, Below, Top.saved)
  PROVE  Abstract!End
<1>0. levels # << >> /\ levels \in Seq(Level)
  BY DEF IInv, LevelsOK
<1>1. PICK m : m = Len(levels) - 1
  OBVIOUS
<1>2. m \in 1..Len(levels) /\ Len(levels) = m + 1 /\ m # Len(levels)
  BY <1>0, <1>1
<1>3. levels' \in Seq(Level) /\ CutTo(levels, m, levels', l)
  <2>1. PICK sub : sub = SubSeq(levels, 1, m)
    OBVIOUS
  <2>2. /\ sub \in Seq(Level) /\ Len(sub) = m
        /\ \A n \in 1..m : sub[n] = levels[n]
    BY <1>0, <1>2, <2>1
  <2>3. levels' = [sub EXCEPT ![m] = l]
    BY <1>1, <2>1 DEF PopTo
  <2> QED
    BY <1>2, <2>2, <2>3 DEF CutTo
<1>4. /\ CutTo(Activations, m, Activations', OpsIn(body, l, PL_op'))
      /\ Activations \in Seq(Seq(OpOrNull)) /\ Activations' \in Seq(Seq(OpOrNull))
      /\ OpsIn(body, l, PL_op') \in Seq(OpOrNull) /\ Len(Activations) = Len(levels)
  BY <1>1, <1>2, <1>3, StepCuts DEF Below
<1>5. Activations[m] = OpsIn(body, l, PL_op')
  <2>1. EntriesOf(body, levels, PL_op)[m] = OpsIn(body, levels[m], levels[m + 1].saved)
    BY <1>2 DEF EntriesOf
  <2> QED
    BY <1>1, <1>2, <2>1, ActivationsAre DEF Below, Top
<1>6. Activations' = SubSeq(Activations, 1, m)
  BY <1>2, <1>4, <1>5, CutSequences
<1>7. /\ Activations # << >> /\ Len(Activations[Len(Activations)]) = 1
      /\ m = Len(Activations) - 1
  BY <1>0, <1>1, <1>4, TopEntry
<1> QED
  BY <1>6, <1>7 DEF Abstract!End, Abstract!Entry

(* A level begins above the last one.                                      *)
LEMMA LevelIsPushed ==
  ASSUME IInv, levels # << >>, NEW l \in Level, NEW u \in Level,
         levels' = Append([levels EXCEPT ![Len(levels)] = l], u),
         OpsIn(body, l, PL_op) = OpsIn(body, Top, PL_op), l.saved = Top.saved,
         u.saved = PL_op, body' = body, PL_op' \in Op, ~Inside(body, u)
  PROVE  Abstract!Begin
<1>1. PICK m : m = Len(levels)
  OBVIOUS
<1>2. PICK op2 : op2 = PL_op'
  OBVIOUS
<1>3. PICK ls2 : ls2 = levels'
  OBVIOUS
<1>4. PICK ls : ls = levels
  OBVIOUS
<1>5. /\ ls \in Seq(Level) /\ m \in Nat /\ m >= 1 /\ Len(ls) = m
      /\ PL_op \in OpOrNull /\ op2 \in Op /\ op2 \in OpOrNull
      /\ l.saved = ls[m].saved /\ OpsIn(body, l, PL_op) = OpsIn(body, ls[m], PL_op)
  BY <1>1, <1>2, <1>4, TopFacts DEF IInv, OpOrNull, Top
<1>6. /\ ls2 \in Seq(Level) /\ Len(ls2) = m + 1
      /\ \A n \in 1..m - 1 : ls2[n] = ls[n]
      /\ ls2[m] = l /\ ls2[m + 1] = u
  BY <1>1, <1>3, <1>4, <1>5
<1>7. CutTo(EntriesOf(body, ls, PL_op), m + 1, EntriesOf(body, ls2, op2), << op2 >>)
  BY <1>5, <1>6, EntriesPushed
<1>8. /\ EntriesOf(body, ls, PL_op) \in Seq(Seq(OpOrNull))
      /\ EntriesOf(body, ls2, op2) \in Seq(Seq(OpOrNull))
      /\ Len(EntriesOf(body, ls, PL_op)) = m /\ << op2 >> \in Seq(OpOrNull)
  BY <1>5, <1>6, EntriesType
<1>9. EntriesOf(body, ls2, op2) = Append(EntriesOf(body, ls, PL_op), << op2 >>)
  <2>1. CutTo(EntriesOf(body, ls, PL_op), Len(EntriesOf(body, ls, PL_op)) + 1,
              EntriesOf(body, ls2, op2), << op2 >>)
    BY <1>7, <1>8
  <2>2. PICK s : s = EntriesOf(body, ls, PL_op)
    OBVIOUS
  <2>3. PICK t : t = EntriesOf(body, ls2, op2)
    OBVIOUS
  <2>4. PICK e : e = << op2 >>
    OBVIOUS
  <2>5. /\ s \in Seq(Seq(OpOrNull)) /\ t \in Seq(Seq(OpOrNull)) /\ e \in Seq(OpOrNull)
        /\ CutTo(s, Len(s) + 1, t, e)
    BY <1>8, <2>1, <2>2, <2>3, <2>4
  <2>6. t = Append(s, e)
    BY <2>5, CutAppends
  <2> QED
    BY <2>2, <2>3, <2>4, <2>6
<1>10. Activations' = Append(Activations, << PL_op' >>) /\ Activations # << >>
  BY <1>2, <1>3, <1>4, <1>9, ActivationsAre, TopEntry
<1> QED
  BY <1>10 DEF Abstract!Begin

(* Outside pa_pp_op a level stays or arrives outside it.                   *)
LEMMA GotoNotInside ==
  ASSUME NEW b, NEW inst, BodiesOK(b, inst), NEW l, LevelOK(b, inst, l),
         l.at # "loop", InstrIn(b, l).i # "return",
         NEW j, j \in 1..Len(CodeIn(b, l)) + 1,
         CallIn(b, l).f = "pa_pp_op" => j = l.pc + 1 /\ l.pc = 4,
         NEW a, a = GotoIn(b, l, j)
  PROVE  a \in Level /\ a.saved = l.saved /\ a.oldop = l.oldop /\ ~Inside(b, a)
<1>1. /\ a \in Level /\ a.saved = l.saved /\ a.oldop = l.oldop
      /\ a.pc = 1 \/ CallIn(b, a).f # "pa_pp_op"
  BY GotoOK
<1> QED
  BY <1>1 DEF Inside

(* A step of the last level that OpStack does not see.                     *)
LEMMA Unseen ==
  ASSUME IInv, levels # << >>, NEW l \in Level, SetTop(l), l.saved = Top.saved,
         body' = body, PL_op' = PL_op, l.oldop = Top.oldop \/ ~Inside(body, l),
         Inside(body, l) <=> Inside(body, Top)
  PROVE  Activations' = Activations
<1>1. PL_op' \in OpOrNull
  BY DEF IInv
<1>2. OpsIn(body, l, PL_op') = OpsIn(body, Top, PL_op)
  BY DEF OpsIn
<1> QED
  BY <1>1, <1>2, TopGoesOn

(* The instructions outside pa_pp_op.                                      *)
LEMMA OutsideUnseen ==
  ASSUME IInv, levels # << >>, Top.at # "loop", Instr(Top).i # "return",
         CallIn(body, Top).f # "pa_pp_op", NEW j \in 1..Len(CodeOf(Top)) + 1,
         SetTop(Goto(Top, j)), PL_op' = PL_op, body' = body
  PROVE  Activations' = Activations
<1>1. PICK l : l = GotoIn(body, Top, j)
  OBVIOUS
<1>2. /\ l \in Level /\ l.saved = Top.saved /\ ~Inside(body, l)
  BY <1>1, TopFacts, GotoNotInside
<1>3. SetTop(l) /\ ~Inside(body, Top)
  BY <1>1, TopFacts DEF Inside
<1> QED
  BY <1>2, <1>3, Unseen

LEMMA ExecOtherUnseen == IInv /\ ExecOther => Activations' = Activations
<1> SUFFICES ASSUME IInv, ExecOther PROVE Activations' = Activations
  OBVIOUS
<1>1. /\ levels # << >> /\ Top.at # "loop"
      /\ \/ Instr(Top).i \in {"restore_sp", "label"}
         \/ Instr(Top).i = "set" /\ Instr(Top).var # "op"
      /\ SetTop(Goto(Top, Top.pc + 1))
      /\ UNCHANGED << body, installed, PL_op, sig_pending >>
  BY DEF ExecOther, At, Advanced
<1>2. CallIn(body, Top).f \notin {"pa_pp_op", "pa_call_runloop", "return"}
  BY <1>1, TopFacts, InstrKinds
<1> QED
  BY <1>1, <1>2, Here, OutsideUnseen

LEMMA ExecBranchUnseen == IInv /\ ExecBranch => Activations' = Activations
<1> SUFFICES ASSUME IInv, ExecBranch PROVE Activations' = Activations
  OBVIOUS
<1>1. /\ levels # << >> /\ Top.at # "loop" /\ Instr(Top).i = "branch_if_not"
      /\ UNCHANGED << body, installed, PL_op, sig_pending >>
  BY DEF ExecBranch, Exec, At
<1> DEFINE t == Target(CodeOf(Top), Instr(Top).label)
<1>2. SetTop(Goto(Top, Top.pc + 1)) \/ SetTop(Goto(Top, t))
  BY DEF ExecBranch, Advanced
<1>3. /\ CallIn(body, Top).f \notin {"pa_pp_op", "pa_call_runloop", "return"}
      /\ t \in 1..Len(CodeOf(Top)) /\ Len(CodeOf(Top)) \in Nat
  BY <1>1, TopFacts, InstrKinds, InstrFacts
<1>4. t \in 1..Len(CodeOf(Top)) + 1
  BY <1>3
<1> HIDE DEF t
<1>5. CASE SetTop(Goto(Top, Top.pc + 1))
  BY <1>1, <1>3, <1>5, Here, OutsideUnseen
<1>6. CASE SetTop(Goto(Top, t))
  BY <1>1, <1>3, <1>4, <1>6, OutsideUnseen
<1> QED
  BY <1>2, <1>5, <1>6

LEMMA CallNativeStartUnseen == IInv /\ CallNativeStart => Activations' = Activations
<1> SUFFICES ASSUME IInv, CallNativeStart PROVE Activations' = Activations
  OBVIOUS
<1>1. PICK l : l = [Top EXCEPT !.at = "call"]
  OBVIOUS
<1>2. /\ levels # << >> /\ Top.at # "loop"
      /\ SetTop(l) /\ UNCHANGED << body, installed, PL_op >>
  BY <1>1 DEF CallNativeStart, Exec, At
<1>3. Top \in Level
  BY <1>2, TopFacts
<1>4. /\ l \in Level /\ l.saved = Top.saved /\ l.oldop = Top.oldop /\ l.at = "call"
      /\ l.op = Top.op /\ l.i = Top.i /\ l.pc = Top.pc
  BY <1>1, <1>3 DEF Level
<1>5. Inside(body, l) <=> Inside(body, Top)
  BY <1>2, <1>4 DEF Inside, CallIn
<1> QED
  BY <1>2, <1>4, <1>5, Unseen

LEMMA CallNativeEndUnseen == IInv /\ CallNativeEnd => Activations' = Activations
<1> SUFFICES ASSUME IInv, CallNativeEnd PROVE Activations' = Activations
  OBVIOUS
<1>1. /\ levels # << >> /\ Top.at # "loop" /\ Instr(Top).i = "call"
      /\ SetTop(Goto(Top, Top.pc + 1))
      /\ UNCHANGED << body, installed, PL_op, sig_pending >>
  BY DEF CallNativeEnd, At, Advanced
<1>2. CASE CallIn(body, Top).f = "pa_pp_op"
  <2>1. Top.pc = 3
    BY <1>1, <1>2, TopFacts, InstrKinds
  <2>2. PICK l : l = GotoIn(body, Top, Top.pc + 1)
    OBVIOUS
  <2>3. /\ l \in Level /\ l.saved = Top.saved /\ l.oldop = Top.oldop
        /\ l.at = "jit" /\ l.pc = 4 /\ CallIn(body, l).f = "pa_pp_op"
    BY <1>1, <1>2, <2>1, <2>2, TopFacts, GotoInside
  <2>4. SetTop(l) /\ Inside(body, l) /\ Inside(body, Top)
    BY <1>1, <1>2, <2>1, <2>2, <2>3, TopFacts DEF Inside
  <2> QED
    BY <1>1, <2>3, <2>4, Unseen
<1>3. CASE CallIn(body, Top).f # "pa_pp_op"
  BY <1>1, <1>3, Here, OutsideUnseen
<1> QED
  BY <1>2, <1>3

LEMMA RunJitUnseen == IInv /\ RunJit => Activations' = Activations
<1> SUFFICES ASSUME IInv, RunJit PROVE Activations' = Activations
  OBVIOUS
<1>1. PICK l : l = [Top EXCEPT !.at = "jit", !.op = PL_op]
  OBVIOUS
<1>2. /\ levels # << >> /\ Top.at = "loop"
      /\ SetTop(l) /\ UNCHANGED << body, installed, PL_op, sig_pending >>
  BY <1>1 DEF RunJit, At
<1>3. Top \in Level /\ Top.pc = 1 /\ PL_op \in OpOrNull
  BY <1>2, TopFacts DEF LevelOK, IInv
<1>4. l \in Level
  BY <1>1, <1>3 DEF Level
<1>5. l.saved = Top.saved /\ l.pc = 1
  BY <1>1, <1>3 DEF Level
<1>6. ~Inside(body, l) /\ ~Inside(body, Top)
  BY <1>3, <1>5 DEF Inside
<1> QED
  BY <1>2, <1>4, <1>5, <1>6, Unseen

LEMMA ExecSaveOpUnseen == IInv /\ ExecSaveOp => Activations' = Activations
<1> SUFFICES ASSUME IInv, ExecSaveOp PROVE Activations' = Activations
  OBVIOUS
<1>1. PICK a : a = Goto(Top, Top.pc + 1)
  OBVIOUS
<1>2. PICK l : l = [a EXCEPT !.oldop = PL_op]
  OBVIOUS
<1>3. /\ levels # << >> /\ Top.at # "loop" /\ Instr(Top).i = "save_op"
      /\ SetTop(l) /\ UNCHANGED << body, installed, PL_op, sig_pending >>
  BY <1>1, <1>2 DEF ExecSaveOp, Exec, At, Advanced
<1>4. /\ BodiesOK(body, installed) /\ LevelOK(body, installed, Top)
      /\ CallIn(body, Top).f = "pa_pp_op" /\ Top.pc = 1
      /\ a = GotoIn(body, Top, Top.pc + 1) /\ PL_op \in OpOrNull
  BY <1>1, <1>3, TopFacts, InstrKinds DEF IInv
<1>5. a \in Level /\ a.saved = Top.saved /\ a.pc = 2
  BY <1>3, <1>4, GotoInside
<1>6. l \in Level /\ l.saved = Top.saved /\ l.pc = 2
  BY <1>2, <1>4, <1>5 DEF Level
<1>7. ~Inside(body, l) /\ ~Inside(body, Top)
  BY <1>4, <1>6 DEF Inside
<1> QED
  BY <1>3, <1>6, <1>7, Unseen

(* pa_pp_op starts another OP inside the one that the function is for, and *)
(* gives it back.                                                          *)
LEMMA ExecSetOpNests == IInv /\ ExecSetOp => Abstract!Nest
<1> SUFFICES ASSUME IInv, ExecSetOp PROVE Abstract!Nest
  OBVIOUS
<1>1. /\ levels # << >> /\ Top.at # "loop"
      /\ Instr(Top).i = "set" /\ Instr(Top).var = "op" /\ PL_op' = Instr(Top).val
      /\ SetTop(Goto(Top, Top.pc + 1)) /\ UNCHANGED << body, installed, sig_pending >>
  BY DEF ExecSetOp, Exec, At, Advanced
<1>2. CallIn(body, Top).f = "pa_pp_op" /\ Top.pc = 2 /\ PL_op' = CallIn(body, Top).op
  BY <1>1, TopFacts, InstrKinds
<1>3. PL_op' \in Op /\ PL_op = Top.op /\ Top.oldop = Top.op
  BY <1>1, <1>2, TopFacts, InstrFacts, Here DEF LevelOK
<1>4. PICK l : l = GotoIn(body, Top, Top.pc + 1)
  OBVIOUS
<1>5. /\ l \in Level /\ l.saved = Top.saved /\ l.oldop = Top.oldop
      /\ l.at = "jit" /\ l.pc = 3 /\ CallIn(body, l).f = "pa_pp_op"
  BY <1>1, <1>2, <1>4, TopFacts, GotoInside
<1>6. SetTop(l) /\ Inside(body, l) /\ ~Inside(body, Top)
  BY <1>1, <1>2, <1>4, <1>5, TopFacts DEF Inside
<1>7. Activations' = [Activations EXCEPT ![Len(Activations)] = << PL_op, PL_op' >>]
  <2>1. OpsIn(body, l, PL_op') = << PL_op, PL_op' >>
    BY <1>3, <1>5, <1>6 DEF OpsIn
  <2> QED
    BY <1>1, <1>3, <1>5, <1>6, <2>1, TopGoesOn DEF OpOrNull
<1>8. /\ Activations # << >> /\ Len(Activations[Len(Activations)]) = 1
      /\ Activations[Len(Activations)][1] = PL_op
  BY <1>1, <1>6, TopEntry
<1> QED
  BY <1>3, <1>7, <1>8 DEF Abstract!Nest, Abstract!Entry

LEMMA ExecRestoreOpUnnests == IInv /\ ExecRestoreOp => Abstract!Unnest
<1> SUFFICES ASSUME IInv, ExecRestoreOp PROVE Abstract!Unnest
  OBVIOUS
<1>1. /\ levels # << >> /\ Top.at # "loop"
      /\ Instr(Top).i = "restore_op" /\ PL_op' = Top.oldop
      /\ SetTop(Goto(Top, Top.pc + 1)) /\ UNCHANGED << body, installed, sig_pending >>
  BY DEF ExecRestoreOp, Exec, At, Advanced
<1>2. CallIn(body, Top).f = "pa_pp_op" /\ Top.pc = 4
  BY <1>1, TopFacts, InstrKinds
<1>3. Top.oldop \in OpOrNull
  BY <1>1, TopFacts DEF Level
<1>4. PICK l : l = GotoIn(body, Top, Top.pc + 1)
  OBVIOUS
<1>5. l \in Level /\ l.saved = Top.saved /\ ~Inside(body, l)
  BY <1>1, <1>2, <1>4, TopFacts, Here, GotoNotInside
<1>6. SetTop(l) /\ Inside(body, Top)
  BY <1>1, <1>2, <1>4, TopFacts DEF Inside
<1>7. Activations' = [Activations EXCEPT ![Len(Activations)] = << Top.oldop >>]
  <2>1. OpsIn(body, l, PL_op') = << Top.oldop >>
    BY <1>1, <1>5 DEF OpsIn
  <2> QED
    BY <1>1, <1>3, <1>5, <1>6, <2>1, TopGoesOn
<1>8. /\ Activations # << >> /\ Len(Activations[Len(Activations)]) = 2
      /\ Activations[Len(Activations)][1] = Top.oldop
  BY <1>1, <1>6, TopEntry
<1> QED
  BY <1>7, <1>8 DEF Abstract!Unnest, Abstract!Entry

(* A run loop goes on with an OP that follows the one it executed.         *)
LEMMA RunNativeAdvances == IInv /\ RunNative => Abstract!Advance
<1> SUFFICES ASSUME IInv, RunNative PROVE Abstract!Advance
  OBVIOUS
<1>1. /\ levels # << >> /\ Top.at = "loop" /\ PL_op \in Op
      /\ PL_op' \in op_succ[PL_op] /\ UNCHANGED << body, installed, levels >>
  BY DEF RunNative, At
<1>2. levels' = [levels EXCEPT ![Len(levels)] = Top] /\ Top \in Level
  BY <1>1, TopFacts, WaitingTop
<1>3. ~Inside(body, Top) /\ OpsIn(body, Top, PL_op') = << PL_op' >>
  BY <1>1 DEF Inside, OpsIn
<1>4. PL_op' \in OpOrNull
  BY <1>1, JitAssumption
<1>5. Activations' = [Activations EXCEPT ![Len(Activations)] = << PL_op' >>]
  BY <1>1, <1>2, <1>3, <1>4, TopGoesOn DEF SetTop
<1>6. /\ Activations # << >> /\ Len(Activations[Len(Activations)]) = 1
      /\ Activations[Len(Activations)][1] = PL_op
  BY <1>1, <1>3, TopEntry
<1> QED
  BY <1>1, <1>5, <1>6 DEF Abstract!Advance, Abstract!Entry

LEMMA ReturnToLoopAdvances == IInv /\ ReturnToLoop => Abstract!Advance
<1> SUFFICES ASSUME IInv, ReturnToLoop PROVE Abstract!Advance
  OBVIOUS
<1>1. PICK l : l = Loop(Top.kind, Top.saved)
  OBVIOUS
<1>2. /\ Exec("return") /\ Top.kind # "direct" /\ PL_op' = op_next[PL_op]
      /\ SetTop(l) /\ UNCHANGED << body, installed, sig_pending >>
  BY <1>1 DEF ReturnToLoop
<1>3. /\ levels # << >> /\ PL_op \in Op /\ CallIn(body, Top).f = "return"
  BY <1>2, AtReturn
<1>4. /\ Top.kind \in {"base", "callback", "runloop"} /\ Top.saved \in OpOrNull
  BY <1>2, <1>3, TopFacts DEF Level
<1>5. l \in Level /\ l.at = "loop" /\ l.saved = Top.saved
  BY <1>1, <1>4, LoopOK
<1>6. ~Inside(body, l) /\ ~Inside(body, Top) /\ OpsIn(body, l, PL_op') = << PL_op' >>
  BY <1>3, <1>5 DEF Inside, OpsIn
<1>7. PL_op' \in OpOrNull /\ PL_op' \in op_succ[PL_op]
  BY <1>2, <1>3, JitAssumption
<1>8. Activations' = [Activations EXCEPT ![Len(Activations)] = << PL_op' >>]
  BY <1>2, <1>3, <1>5, <1>6, <1>7, TopGoesOn
<1>9. /\ Activations # << >> /\ Len(Activations[Len(Activations)]) = 1
      /\ Activations[Len(Activations)][1] = PL_op
  BY <1>3, <1>6, TopEntry
<1> QED
  BY <1>3, <1>7, <1>8, <1>9 DEF Abstract!Advance, Abstract!Entry

(* A run loop, or a compiled function, starts above a call that waits.     *)
LEMMA CallClosureBegins == IInv /\ CallClosure => Abstract!Begin
<1> SUFFICES ASSUME IInv, CallClosure PROVE Abstract!Begin
  OBVIOUS
<1>1. PICK l : l = [Top EXCEPT !.at = "call"]
  OBVIOUS
<1>2. PICK u : u = Direct(PL_op)
  OBVIOUS
<1>3. /\ levels # << >> /\ Top.at # "loop"
      /\ Instr(Top).i = "call" /\ Instr(Top).fn = "closure"
      /\ UNCHANGED << body, installed, PL_op, sig_pending >>
  BY DEF CallClosure, Exec, At
<1>4. levels' = Append([levels EXCEPT ![Len(levels)] = l], u)
  BY <1>1, <1>2, <1>3, WaitingTop DEF CallClosure
<1>5. Top \in Level
  BY <1>3, TopFacts
<1>6. /\ l \in Level /\ l.at = "call" /\ l.saved = Top.saved /\ l.oldop = Top.oldop
      /\ l.op = Top.op /\ l.i = Top.i /\ l.pc = Top.pc
  BY <1>1, <1>5 DEF Level
<1>7. OpsIn(body, l, PL_op) = OpsIn(body, Top, PL_op)
  BY <1>3, <1>6 DEF OpsIn, Inside, CallIn
<1>8. PL_op \in Op
  <2>1. CallIn(body, Top).f = "pa_pp_op" /\ Top.pc = 3
    BY <1>3, TopFacts, InstrKinds
  <2>2. PL_op = CallIn(body, Top).op
    BY <1>3, <2>1, Here
  <2> QED
    BY <1>3, <2>1, <2>2, TopFacts, InstrFacts
<1>9. u \in Level /\ u.saved = PL_op /\ ~Inside(body, u)
  <2>1. u \in Level
    BY <1>2, <1>8 DEF Direct, Level, OpOrNull
  <2>2. u.saved = PL_op /\ u.pc = 1
    BY <1>2 DEF Direct
  <2> QED
    BY <2>1, <2>2 DEF Inside
<1> QED
  BY <1>3, <1>4, <1>6, <1>7, <1>8, <1>9, LevelIsPushed

LEMMA CallRunloopStartBegins == IInv /\ CallRunloopStart => Abstract!Begin
<1> SUFFICES ASSUME IInv, CallRunloopStart PROVE Abstract!Begin
  OBVIOUS
<1>1. PICK l : l = [Top EXCEPT !.at = "call"]
  OBVIOUS
<1>2. PICK u : u = Loop("runloop", PL_op)
  OBVIOUS
<1>3. /\ levels # << >> /\ Top.at # "loop" /\ Instr(Top).i = "runloop"
      /\ PL_op' = Instr(Top).op /\ UNCHANGED << body, installed, sig_pending >>
  BY DEF CallRunloopStart, Exec, At
<1>4. levels' = Append([levels EXCEPT ![Len(levels)] = l], u)
  BY <1>1, <1>2, <1>3, WaitingTop DEF CallRunloopStart
<1>5. Top \in Level
  BY <1>3, TopFacts
<1>6. /\ l \in Level /\ l.at = "call" /\ l.saved = Top.saved /\ l.oldop = Top.oldop
      /\ l.op = Top.op /\ l.i = Top.i /\ l.pc = Top.pc
  BY <1>1, <1>5 DEF Level
<1>7. OpsIn(body, l, PL_op) = OpsIn(body, Top, PL_op)
  BY <1>3, <1>6 DEF OpsIn, Inside, CallIn
<1>8. PL_op' \in Op
  <2>1. CallIn(body, Top).f = "pa_call_runloop" /\ PL_op' = CallIn(body, Top).op
    BY <1>3, TopFacts, InstrKinds
  <2> QED
    BY <1>3, <2>1, TopFacts, InstrFacts
<1>9. u \in Level /\ u.saved = PL_op /\ ~Inside(body, u)
  <2>1. u \in Level /\ u.saved = PL_op /\ u.at = "loop"
    BY <1>2, LoopOK DEF IInv
  <2> QED
    BY <2>1 DEF Inside
<1> QED
  BY <1>3, <1>4, <1>6, <1>7, <1>8, <1>9, LevelIsPushed

LEMMA CallbackBegins ==
  ASSUME IInv, NEW o \in CallbackOp, Callback(o)
  PROVE  Abstract!Begin
<1>1. PICK u : u = Loop("callback", PL_op)
  OBVIOUS
<1>2. /\ levels # << >> /\ PL_op' = o /\ UNCHANGED << body, installed, sig_pending >>
  BY DEF Callback, At
<1>3. levels' = Append([levels EXCEPT ![Len(levels)] = Top], u)
  BY <1>1, <1>2, WaitingTop DEF Callback
<1>4. u \in Level /\ u.saved = PL_op /\ u.at = "loop"
  BY <1>1, LoopOK DEF IInv
<1>5. ~Inside(body, u) /\ PL_op' \in Op /\ Top \in Level
  BY <1>2, <1>4, TopFacts, JitAssumption DEF Inside
<1> QED
  BY <1>2, <1>3, <1>4, <1>5, LevelIsPushed

(* The last level ends, and the one that waited for it goes on.            *)
LEMMA ReturnToCallerEnds == IInv /\ ReturnToCaller => Abstract!End
<1> SUFFICES ASSUME IInv, ReturnToCaller PROVE Abstract!End
  OBVIOUS
<1>1. /\ Exec("return") /\ Top.kind = "direct"
      /\ PopTo(Goto(Below, Below.pc + 1))
      /\ UNCHANGED << body, installed, PL_op, sig_pending >>
  BY DEF ReturnToCaller, Advanced
<1>2. /\ levels # << >> /\ PL_op = Top.op /\ Top.op = Top.saved
      /\ CallIn(body, Top).f = "return"
  BY <1>1, AtReturn, TopFacts DEF LevelOK
<1>3. /\ Len(levels) > 1 /\ BodiesOK(body, installed)
      /\ LevelOK(body, installed, Below) /\ Linked(body, Below, Top)
      /\ Goto(Below, Below.pc + 1) = GotoIn(body, Below, Below.pc + 1)
  BY <1>1, <1>2, TopFacts, BelowFacts
<1>4. /\ Below.at # "loop"
      /\ InstrIn(body, Below).i = "call" /\ InstrIn(body, Below).fn = "closure"
  BY <1>1, <1>3 DEF Linked
<1>5. CallIn(body, Below).f = "pa_pp_op" /\ Below.pc = 3
  BY <1>3, <1>4, InstrKinds
<1>6. PICK l : l = GotoIn(body, Below, Below.pc + 1)
  OBVIOUS
<1>7. /\ l \in Level /\ l.saved = Below.saved /\ l.oldop = Below.oldop
      /\ l.at = "jit" /\ l.pc = 4 /\ CallIn(body, l).f = "pa_pp_op"
  BY <1>3, <1>4, <1>5, <1>6, GotoInside
<1>8. OpsIn(body, l, PL_op') = OpsIn(body, Below, Top.saved)
  BY <1>1, <1>2, <1>4, <1>5, <1>7 DEF OpsIn, Inside
<1>9. PL_op' \in OpOrNull /\ PopTo(l) /\ ~Inside(body, Top)
  BY <1>1, <1>2, <1>3, <1>6 DEF IInv, Inside
<1> QED
  BY <1>1, <1>3, <1>7, <1>8, <1>9, TopIsPopped

LEMMA RunloopEndEnds == IInv /\ RunloopEnd => Abstract!End
<1> SUFFICES ASSUME IInv, RunloopEnd PROVE Abstract!End
  OBVIOUS
<1>1. /\ levels # << >> /\ Top.kind = "runloop" /\ PL_op' = Top.saved /\ Top.at = "loop"
      /\ PopTo(Goto(Below, Below.pc + 1)) /\ UNCHANGED << body, installed, sig_pending >>
  BY DEF RunloopEnd, At, Advanced
<1>2. /\ Len(levels) > 1 /\ BodiesOK(body, installed)
      /\ LevelOK(body, installed, Below) /\ Linked(body, Below, Top)
      /\ Goto(Below, Below.pc + 1) = GotoIn(body, Below, Below.pc + 1)
  BY <1>1, TopFacts, BelowFacts
<1>3. Below.at # "loop" /\ InstrIn(body, Below).i = "runloop"
  BY <1>1, <1>2 DEF Linked
<1>4. CallIn(body, Below).f = "pa_call_runloop"
  BY <1>2, <1>3, InstrKinds
<1>5. Below.pc + 1 \in 1..Len(CodeIn(body, Below)) + 1
  BY <1>2, <1>3, <1>4, InstrFacts
<1>6. PICK l : l = GotoIn(body, Below, Below.pc + 1)
  OBVIOUS
<1>7. l \in Level /\ l.saved = Below.saved /\ ~Inside(body, l)
  BY <1>2, <1>3, <1>4, <1>5, <1>6, GotoNotInside
<1>8. OpsIn(body, l, PL_op') = OpsIn(body, Below, Top.saved)
  BY <1>1, <1>4, <1>7 DEF OpsIn, Inside
<1>9. PL_op' \in OpOrNull /\ PopTo(l) /\ ~Inside(body, Top)
  BY <1>1, <1>2, <1>6, TopFacts DEF Level, Inside
<1> QED
  BY <1>1, <1>2, <1>7, <1>8, <1>9, TopIsPopped

LEMMA CallbackEndEnds == IInv /\ CallbackEnd => Abstract!End
<1> SUFFICES ASSUME IInv, CallbackEnd PROVE Abstract!End
  OBVIOUS
<1>1. /\ levels # << >> /\ Top.kind = "callback" /\ PL_op' = Top.saved /\ Top.at = "loop"
      /\ PopTo(Below) /\ UNCHANGED << body, installed, sig_pending >>
  BY DEF CallbackEnd, At
<1>2. Len(levels) > 1 /\ Below \in Level
  BY <1>1, BelowFacts DEF LevelOK
<1>3. PL_op' \in OpOrNull /\ ~Inside(body, Top)
  BY <1>1, TopFacts DEF Level, Inside
<1>4. OpsIn(body, Below, PL_op') = OpsIn(body, Below, Top.saved)
  BY <1>1
<1> QED
  BY <1>1, <1>2, <1>3, <1>4, TopIsPopped

LEMMA BaseEndEnds == IInv /\ BaseEnd => Abstract!End
<1> SUFFICES ASSUME IInv, BaseEnd PROVE Abstract!End
  OBVIOUS
<1>1. levels # << >> /\ Top.kind = "base" /\ Top.at = "loop" /\ levels' = << >>
  BY DEF BaseEnd, At
<1>2. Len(levels) = 1
  <2>1. levels \in Seq(Level) /\ Len(levels) \in Nat /\ Len(levels) >= 1
    BY <1>1, TopFacts
  <2>2. ASSUME Len(levels) # 1 PROVE FALSE
    <3>1. Len(levels) - 1 \in 1..Len(levels) - 1 /\ Len(levels) - 1 + 1 = Len(levels)
      <4>1. PICK n : n = Len(levels)
        OBVIOUS
      <4>2. n \in Nat /\ n >= 1 /\ n # 1
        BY <2>1, <2>2, <4>1
      <4>3. n - 1 \in 1..n - 1 /\ n - 1 + 1 = n
        BY <4>2
      <4> QED
        BY <4>1, <4>3
    <3>2. Linked(body, levels[Len(levels) - 1], levels[Len(levels) - 1 + 1])
      BY <3>1 DEF IInv, LevelsOK
    <3> QED
      BY <1>1, <3>1, <3>2 DEF Linked, Top
  <2> QED
    BY <2>2
<1>3. Activations' = << >>
  BY <1>1, ActivationsAre DEF EntriesOf
<1>4. /\ Activations \in Seq(Seq(OpOrNull)) /\ Activations # << >>
      /\ Len(Activations) = 1 /\ Len(Activations[Len(Activations)]) = 1
  BY <1>1, <1>2, TopEntry DEF Inside
<1>5. SubSeq(Activations, 1, Len(Activations) - 1) = << >>
  BY <1>4
<1> QED
  BY <1>3, <1>4, <1>5 DEF Abstract!End, Abstract!Entry

LEMMA DieUnwinds ==
  ASSUME IInv, NEW m \in 1..Len(levels), NEW o \in RestartOp, Die(m, o)
  PROVE  Abstract!Unwind
<1>1. PICK l : l = Loop(levels[m].kind, levels[m].saved)
  OBVIOUS
<1>2. /\ levels[m].kind \in {"base", "callback"} /\ levels # << >>
      /\ levels' = Append(SubSeq(levels, 1, m - 1), l)
      /\ PL_op' = o /\ UNCHANGED << body, installed, sig_pending >>
  BY <1>1 DEF Die, At
<1>3. levels \in Seq(Level) /\ Len(levels) \in Nat
  BY DEF IInv, LevelsOK
<1>4. levels[m] \in Level
  BY <1>3
<1>5. l \in Level /\ l.at = "loop" /\ l.saved = levels[m].saved
  <2>1. PICK k \in {"base", "callback", "runloop"} : k = levels[m].kind
    BY <1>2
  <2>2. PICK v \in OpOrNull : v = levels[m].saved
    BY <1>4 DEF Level
  <2>3. l = Loop(k, v)
    BY <1>1, <2>1, <2>2
  <2>4. Loop(k, v) \in Level /\ Loop(k, v).at = "loop" /\ Loop(k, v).saved = v
    BY DEF Loop, Level, OpOrNull
  <2> QED
    BY <2>2, <2>3, <2>4
<1>6. levels' \in Seq(Level) /\ CutTo(levels, m, levels', l)
  <2>1. PICK sub : sub = SubSeq(levels, 1, m - 1)
    OBVIOUS
  <2>2. /\ sub \in Seq(Level) /\ Len(sub) = m - 1
        /\ \A n \in 1..m - 1 : sub[n] = levels[n]
    BY <1>3, <2>1
  <2> QED
    BY <1>2, <1>5, <2>1, <2>2 DEF CutTo
<1>7. PL_op' \in OpOrNull /\ OpsIn(body, l, PL_op') = << o >>
  BY <1>2, <1>5, JitAssumption DEF OpsIn, Inside
<1>8. /\ CutTo(Activations, m, Activations', << o >>)
      /\ Activations \in Seq(Seq(OpOrNull)) /\ Activations' \in Seq(Seq(OpOrNull))
      /\ << o >> \in Seq(OpOrNull) /\ Len(Activations) = Len(levels)
  BY <1>2, <1>5, <1>6, <1>7, StepCuts
<1>9. m \in 1..Len(Activations) /\ Activations' = Append(SubSeq(Activations, 1, m - 1), << o >>)
  <2>1. PICK s : s = Activations
    OBVIOUS
  <2>2. PICK t : t = Activations'
    OBVIOUS
  <2>3. PICK e : e = << o >>
    OBVIOUS
  <2>4. /\ s \in Seq(Seq(OpOrNull)) /\ t \in Seq(Seq(OpOrNull)) /\ e \in Seq(OpOrNull)
        /\ CutTo(s, m, t, e)
    BY <1>8, <2>1, <2>2, <2>3
  <2>5. m \in 1..Len(s)
    BY <1>8, <2>1
  <2>6. t = Append(SubSeq(s, 1, m - 1), e)
    BY <2>4, <2>5, CutUnwinds
  <2> QED
    BY <2>1, <2>2, <2>3, <2>5, <2>6
<1> QED
  BY <1>9 DEF Abstract!Unwind

LEMMA StartRunStarts ==
  ASSUME IInv, NEW o \in StartOp, StartRun(o)
  PROVE  Abstract!Start
<1>1. PICK u : u = Loop("base", NULL)
  OBVIOUS
<1>2. levels = << >> /\ levels' = << u >> /\ PL_op' = o
  BY <1>1 DEF StartRun
<1>3. u.at = "loop"
  BY <1>1, LoopOK DEF OpOrNull
<1>4. Activations = << >>
  BY <1>2, ActivationsAre DEF EntriesOf
<1>5. Activations' = << << o >> >>
  <2>1. Activations' = [n \in 1..1 |-> << o >>]
    BY <1>2, <1>3, ActivationsAre DEF EntriesOf, OpsIn, Inside
  <2> QED
    BY <2>1
<1> QED
  BY <1>4, <1>5, JitAssumption DEF Abstract!Start

-----------------------------------------------------------------------------
(* Every step is a step of OpStack, or one that it does not see.           *)
LEMMA StepRefines == IInv /\ [Next]_vars => [Abstract!Next]_Activations
<1> SUFFICES ASSUME IInv, [Next]_vars
             PROVE  Abstract!Next \/ Activations' = Activations
  OBVIOUS
<1>1. CASE Build
  <2>1. levels = << >> /\ levels' = << >>
    BY <1>1 DEF Build, Install, Emit
  <2> QED
    BY <2>1, ActivationsAre DEF EntriesOf
<1>2. CASE \E o \in StartOp : StartRun(o)
  BY <1>2, StartRunStarts DEF Abstract!Next
<1>3. CASE LoopStep
  BY <1>3, RunNativeAdvances, RunJitUnseen, RunloopEndEnds, CallbackEndEnds,
     BaseEndEnds DEF LoopStep, Abstract!Next
<1>4. CASE ExecInsn
  BY <1>4, ExecSetOpNests, ExecSaveOpUnseen, ExecRestoreOpUnnests,
     ExecOtherUnseen, ExecBranchUnseen, CallNativeStartUnseen,
     CallClosureBegins, CallRunloopStartBegins, ReturnToLoopAdvances,
     ReturnToCallerEnds
     DEF ExecInsn, Abstract!Next
<1>5. CASE CallNativeEnd
  BY <1>5, CallNativeEndUnseen
<1>6. CASE \E o \in CallbackOp : Callback(o)
  BY <1>6, CallbackBegins DEF Abstract!Next
<1>7. CASE Unwind
  BY <1>7, DieUnwinds DEF Unwind, Abstract!Next
<1>8. CASE SigArrive \/ UNCHANGED vars
  BY <1>8, ActivationsAre DEF SigArrive, vars
<1> QED
  BY <1>1, <1>2, <1>3, <1>4, <1>5, <1>6, <1>7, <1>8 DEF Next

(* Whatever compiled code starts, the activations below it stay at the OPs *)
(* they were executing: JitPP implements OpStack, for every optree, every  *)
(* set of bodies and every depth.                                          *)
THEOREM StackDiscipline == Spec => ImplementsOpStack
<1>1. Init => Abstract!Init
  <2> SUFFICES ASSUME Init PROVE Activations = << >>
    BY DEF Abstract!Init
  <2> QED
    BY ActivationsAre DEF Init, EntriesOf
<1> QED
  BY <1>1, Invariant, StepRefines, PTL DEF Spec, ImplementsOpStack, Abstract!Spec

=============================================================================

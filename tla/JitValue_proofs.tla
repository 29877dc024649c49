-------------------------- MODULE JitValue_proofs --------------------------
(***************************************************************************)
(* Proofs about JitValue, for any numbers and any depth of recursion: what *)
(* an entry of the sub reads, writes and pushes is its own.                *)
(***************************************************************************)
EXTENDS JitValue, TLAPS

-----------------------------------------------------------------------------
(* The inductive invariant.                                                *)

(* What entry d has read so far.  x is its variable, f its frame.          *)
ReadOK(x, f) ==
  /\ f.pc \in {"get_pad_sv", "sv_flags", "sv_nvx", "sv_2nv", "fetch"} =>
       f.fetched = << >>
  /\ f.pc = "sv_nvx" => x.nok /\ ~x.gmg
  /\ f.pc = "fetch" => x.gmg
  /\ f.pc = "add" =>
       /\ x.gmg => f.fetched = << f.nv >>
       /\ ~x.gmg => f.fetched = << >> /\ f.nv = IF x.nok THEN x.nv ELSE x.pv
  /\ f.pc = "get_targ" =>
       /\ x.gmg => f.fetched = << f.nv - Addend >>
       /\ ~x.gmg => f.fetched = << >> /\ f.nv - Addend = IF x.nok THEN x.nv ELSE x.pv

(* It works on its own pad.                                                *)
OwnPad(p, d, f) ==
  /\ f.pc # "get_pad_sv" => f.sv = d
  /\ f.pc \in {"set_nv", "push_sv", "get_op_next", "returned"} => f.targ = d
  /\ f.pc \in {"push_sv", "get_op_next", "returned"} => p[d].targ = f.nv

(* The height of the stack when entry d is left.                           *)
Height(f) == f.base + (IF f.pc \in {"get_op_next", "returned"} THEN 1 ELSE 0)

FrameOK(p, fs, st, d) ==
  /\ ReadOK(p[d].a, fs[d])
  /\ OwnPad(p, d, fs[d])
  /\ fs[d].pc \in {"get_op_next", "returned"} => st[fs[d].base + 1] = d
  /\ d < Len(fs) => /\ fs[d].pc \in Calls
                    /\ fs[d + 1].base = Height(fs[d])

FramesOK(p, fs, st) ==
  /\ \A d \in 1..Len(fs) : FrameOK(p, fs, st, d)
  /\ \A d, e \in 1..Len(fs) : d < e => Height(fs[d]) <= fs[e].base
  /\ fs # << >> => fs[1].base = 0
  /\ Len(st) = IF fs = << >> THEN 0 ELSE Height(fs[Len(fs)])

IInv == TypeOK /\ curpad = Len(frames) /\ FramesOK(pads, frames, stack)

(* The properties follow from it.                                          *)
LEMMA InvFreshRead == IInv => FreshRead
<1> SUFFICES ASSUME IInv, NEW d \in DOMAIN frames,
                    frames[d].pc \in {"add", "get_targ"}
             PROVE  LET x == pads[d].a
                        n == IF frames[d].pc = "add" THEN frames[d].nv
                                                     ELSE frames[d].nv - Addend
                    IN  IF x.gmg THEN frames[d].fetched = << n >>
                        ELSE /\ frames[d].fetched = << >>
                             /\ n = IF x.nok THEN x.nv ELSE x.pv
  BY DEF FreshRead
<1>1. ReadOK(pads[d].a, frames[d])
  BY DEF IInv, TypeOK, FramesOK, FrameOK
<1> QED
  BY <1>1 DEF ReadOK

LEMMA InvOwnResult == IInv => OwnResult
<1> SUFFICES ASSUME IInv, NEW d \in 1..Len(frames), frames[d].pc = "returned"
             PROVE  /\ frames[d].base + 1 \in 1..Len(stack)
                    /\ stack[frames[d].base + 1] = d
                    /\ pads[d].targ = frames[d].nv
  BY DEF OwnResult, IInv, TypeOK
<1>1. frames \in Seq(Frame) /\ Len(frames) \in 1..Len(frames)
  BY DEF IInv, TypeOK
<1>2. /\ frames[d] \in Frame /\ frames[Len(frames)] \in Frame
      /\ FrameOK(pads, frames, stack, d)
      /\ Len(stack) = Height(frames[Len(frames)])
      /\ d < Len(frames) => Height(frames[d]) <= frames[Len(frames)].base
  BY <1>1 DEF IInv, FramesOK
<1>3. Height(frames[d]) <= Len(stack)
  BY <1>1, <1>2 DEF Height, Frame
<1>4. frames[d].base \in Nat
  BY <1>2 DEF Frame
<1> QED
  BY <1>2, <1>3, <1>4 DEF FrameOK, OwnPad, Height

LEMMA InitInv == Init => IInv
<1> SUFFICES ASSUME Init PROVE IInv
  OBVIOUS
<1>1. PICK v \in Values :
        pads = [d \in Entries |->
          [a |-> [nok |-> FALSE, gmg |-> FALSE, nv |-> v, pv |-> v], targ |-> v]]
  BY DEF Init
<1>2. pads \in [Entries -> [a : SV, targ : Nat]]
  BY <1>1, ValueAssumption DEF SV
<1>3. curpad = 0 /\ frames = << >> /\ stack = << >>
  BY DEF Init
<1>4. /\ curpad \in 0..MaxDepth /\ Len(frames) <= MaxDepth
      /\ frames \in Seq(Frame) /\ stack \in Seq(Entries)
      /\ Len(frames) = 0 /\ Len(stack) = 0
  BY <1>3, ValueAssumption
<1> QED
  BY <1>2, <1>3, <1>4 DEF IInv, TypeOK, FramesOK

-----------------------------------------------------------------------------
(* What a step does to the frames.                                         *)

LEMMA TopFacts ==
  ASSUME IInv, frames # << >>
  PROVE  /\ Len(frames) \in Entries /\ Len(frames) \in Nat \ {0}
         /\ Reg \in Frame /\ Reg = frames[Len(frames)]
         /\ ReadOK(pads[Len(frames)].a, Reg) /\ OwnPad(pads, Len(frames), Reg)
         /\ pads[Len(frames)].a \in SV /\ pads[Len(frames)].targ \in Nat
         /\ Len(stack) = Height(Reg) /\ curpad = Len(frames)
<1>1. frames \in Seq(Frame) /\ Len(frames) \in 1..Len(frames)
  BY DEF IInv, TypeOK
<1>2. Len(frames) \in Entries
  BY <1>1, ValueAssumption DEF IInv, TypeOK, Entries
<1>3. FrameOK(pads, frames, stack, Len(frames))
  BY <1>1 DEF IInv, FramesOK
<1> QED
  BY <1>1, <1>2, <1>3 DEF IInv, TypeOK, FramesOK, FrameOK, Reg, Last

(* The frame of the last entry becomes f.                                  *)
LEMMA Replaced ==
  ASSUME NEW fs \in Seq(Frame), NEW gs \in Seq(Frame), NEW n \in Nat,
         n = Len(fs), n >= 1, Len(gs) = n,
         \A d \in 1..n - 1 : gs[d] = fs[d], gs[n].base = fs[n].base,
         NEW p, NEW q, \A d \in 1..n - 1 : q[d] = p[d],
         NEW st, NEW tt, \A k \in 1..fs[n].base : tt[k] = st[k],
         FramesOK(p, fs, st), FrameOK(q, gs, tt, n), Len(tt) = Height(gs[n])
  PROVE  FramesOK(q, gs, tt)
<1>0. \A d \in 1..n : fs[d] \in Frame
  OBVIOUS
<1>1. \A d \in 1..n : fs[d].base \in Nat
  BY <1>0 DEF Frame
<1>2. \A d \in 1..n : gs[d].base = fs[d].base
  OBVIOUS
<1>3. \A d, e \in 1..n : d < e => Height(fs[d]) <= fs[e].base
  BY DEF FramesOK
<1>4. ASSUME NEW d \in 1..n, d < n PROVE FrameOK(q, gs, tt, d)
  <2>1. FrameOK(p, fs, st, d)
    BY DEF FramesOK
  <2>2. gs[d] = fs[d] /\ q[d] = p[d] /\ gs[d + 1].base = fs[d + 1].base
    BY <1>2, <1>4
  <2>3. ASSUME gs[d].pc \in {"get_op_next", "returned"}
        PROVE  tt[gs[d].base + 1] = d
    <3>1. Height(fs[d]) = fs[d].base + 1 /\ Height(fs[d]) <= fs[n].base
      BY <1>3, <1>4, <2>2, <2>3 DEF Height
    <3>2. fs[d].base + 1 \in 1..fs[n].base
      BY <1>1, <3>1
    <3> QED
      BY <2>1, <2>2, <2>3, <3>2 DEF FrameOK
  <2> QED
    BY <1>4, <2>1, <2>2, <2>3 DEF FrameOK, OwnPad
<1>5. ASSUME NEW d \in 1..n, NEW e \in 1..n, d < e
      PROVE  Height(gs[d]) <= gs[e].base
  <2>1. gs[d] = fs[d]
    BY <1>5
  <2> QED
    BY <1>2, <1>3, <1>5, <2>1
<1>6. gs[1].base = 0
  <2>1. fs # << >>
    OBVIOUS
  <2> QED
    BY <1>2, <2>1 DEF FramesOK
<1>7. gs # << >>
  OBVIOUS
<1> QED
  BY <1>4, <1>5, <1>6, <1>7 DEF FramesOK

(* The last entry moves on.                                                *)
LEMMA Moved ==
  ASSUME IInv, frames # << >>, NEW f \in Frame,
         frames' = [frames EXCEPT ![Len(frames)] = f], curpad' = curpad,
         pads' \in [Entries -> [a : SV, targ : Nat]],
         \A d \in Entries : d # Len(frames) => pads'[d] = pads[d],
         ReadOK(pads'[Len(frames)].a, f), OwnPad(pads', Len(frames), f),
         f.base = Reg.base,
         stack' \in Seq(Entries), Len(stack') = Height(f),
         \A n \in 1..Reg.base : stack'[n] = stack[n],
         f.pc \in {"get_op_next", "returned"} => stack'[f.base + 1] = Len(frames)
  PROVE  IInv'
<1>1. /\ frames \in Seq(Frame) /\ Len(frames) \in Nat /\ Len(frames) >= 1
      /\ Len(frames) <= MaxDepth /\ MaxDepth \in Nat
      /\ FramesOK(pads, frames, stack) /\ Reg = frames[Len(frames)]
  BY ValueAssumption DEF IInv, TypeOK, Reg, Last
<1>2. /\ frames' \in Seq(Frame) /\ Len(frames') = Len(frames)
      /\ \A d \in 1..Len(frames) - 1 : frames'[d] = frames[d]
      /\ frames'[Len(frames)] = f
  BY <1>1
<1>3. TypeOK'
  BY <1>1, <1>2 DEF IInv, TypeOK
<1>4. FrameOK(pads', frames', stack', Len(frames))
  <2>1. /\ ReadOK(pads'[Len(frames)].a, frames'[Len(frames)])
        /\ OwnPad(pads', Len(frames), frames'[Len(frames)])
    BY <1>2
  <2>2. frames'[Len(frames)].pc \in {"get_op_next", "returned"} =>
          stack'[frames'[Len(frames)].base + 1] = Len(frames)
    BY <1>2
  <2>3. Len(frames) \in Nat /\ Len(frames') = Len(frames)
    BY <1>1, <1>2
  <2>4. ~(Len(frames) < Len(frames'))
    BY <2>3
  <2> QED
    BY <2>1, <2>2, <2>4 DEF FrameOK
<1>5. \A d \in 1..Len(frames) - 1 : pads'[d] = pads[d]
  BY <1>1 DEF Entries
<1>6. FramesOK(pads', frames', stack')
  BY <1>1, <1>2, <1>4, <1>5, Replaced
<1> QED
  BY <1>2, <1>3, <1>6 DEF IInv

(* A step that reads, and changes the registers only.                      *)
LEMMA Registers ==
  ASSUME IInv, frames # << >>, NEW f \in Frame,
         frames' = [frames EXCEPT ![Len(frames)] = f],
         UNCHANGED << pads, curpad, stack >>, f.base = Reg.base,
         Reg.pc \notin {"get_op_next", "returned"}, 
         f.pc \notin {"get_op_next", "returned"},
         ReadOK(pads[Len(frames)].a, f), OwnPad(pads, Len(frames), f)
  PROVE  IInv'
<1>1. Len(stack) = Height(Reg)
  BY TopFacts
<1>2. pads \in [Entries -> [a : SV, targ : Nat]] /\ stack \in Seq(Entries)
  BY DEF IInv, TypeOK
<1>3. Height(f) = Height(Reg)
  BY DEF Height
<1> QED
  BY <1>1, <1>2, <1>3, Moved

-----------------------------------------------------------------------------
(* The actions.                                                            *)

LEMMA GetPadSvInv == IInv /\ pa_get_pad_sv => IInv'
<1> SUFFICES ASSUME IInv, pa_get_pad_sv PROVE IInv'
  OBVIOUS
<1>1. PICK f : f = [[Reg EXCEPT !.sv = curpad] EXCEPT !.pc = "sv_flags"]
  OBVIOUS
<1>2. /\ frames # << >> /\ Reg.pc = "get_pad_sv"
      /\ frames' = [frames EXCEPT ![Len(frames)] = f]
      /\ UNCHANGED << pads, curpad, stack >>
  BY <1>1 DEF pa_get_pad_sv, At, Set, PAD_SV
<1>3. /\ Reg \in Frame /\ Len(frames) \in Entries /\ curpad = Len(frames)
      /\ ReadOK(pads[Len(frames)].a, Reg)
  BY <1>2, TopFacts
<1>4. /\ f \in Frame /\ f.pc = "sv_flags" /\ f.sv = Len(frames)
      /\ f.base = Reg.base /\ f.fetched = Reg.fetched
  BY <1>1, <1>3 DEF Frame, Pcs
<1>5. ReadOK(pads[Len(frames)].a, f) /\ OwnPad(pads, Len(frames), f)
  BY <1>2, <1>3, <1>4 DEF ReadOK, OwnPad
<1> QED
  BY <1>2, <1>4, <1>5, Registers

LEMMA SvNvInv == IInv /\ pa_sv_nv => IInv'
<1> SUFFICES ASSUME IInv, pa_sv_nv PROVE IInv'
  OBVIOUS
<1>1. PICK f : f = [Reg EXCEPT !.pc = IF pa_sv_nok_nog(pads[Reg.sv].a)
                                      THEN "sv_nvx" ELSE "sv_2nv"]
  OBVIOUS
<1>2. /\ frames # << >> /\ Reg.pc = "sv_flags"
      /\ frames' = [frames EXCEPT ![Len(frames)] = f]
      /\ UNCHANGED << pads, curpad, stack >>
  BY <1>1 DEF pa_sv_nv, At, Set
<1>3. /\ Reg \in Frame /\ Len(frames) \in Entries /\ Reg.sv = Len(frames)
      /\ ReadOK(pads[Len(frames)].a, Reg)
  BY <1>2, TopFacts DEF OwnPad
<1>4. /\ f \in Frame /\ f.sv = Len(frames)
      /\ f.base = Reg.base /\ f.fetched = Reg.fetched
      /\ f.pc \in {"sv_nvx", "sv_2nv"}
      /\ f.pc = "sv_nvx" => pads[Len(frames)].a.nok /\ ~pads[Len(frames)].a.gmg
  BY <1>1, <1>3 DEF Frame, Pcs, pa_sv_nok_nog
<1>5. ReadOK(pads[Len(frames)].a, f) /\ OwnPad(pads, Len(frames), f)
  BY <1>2, <1>3, <1>4 DEF ReadOK, OwnPad
<1> QED
  BY <1>2, <1>4, <1>5, Registers

LEMMA SvNvxInv == IInv /\ pa_sv_nvx => IInv'
<1> SUFFICES ASSUME IInv, pa_sv_nvx PROVE IInv'
  OBVIOUS
<1>1. PICK f : f = [[Reg EXCEPT !.nv = pads[Reg.sv].a.nv] EXCEPT !.pc = "add"]
  OBVIOUS
<1>2. /\ frames # << >> /\ Reg.pc = "sv_nvx"
      /\ frames' = [frames EXCEPT ![Len(frames)] = f]
      /\ UNCHANGED << pads, curpad, stack >>
  BY <1>1 DEF pa_sv_nvx, At, Set
<1>3. /\ Reg \in Frame /\ Len(frames) \in Entries /\ Reg.sv = Len(frames)
      /\ ReadOK(pads[Len(frames)].a, Reg) /\ pads[Len(frames)].a.nv \in Nat
  BY <1>2, TopFacts, ValueAssumption DEF OwnPad, SV
<1>4. /\ f \in Frame /\ f.sv = Len(frames) /\ f.nv = pads[Len(frames)].a.nv
      /\ f.base = Reg.base /\ f.fetched = Reg.fetched /\ f.pc = "add"
  BY <1>1, <1>3 DEF Frame, Pcs
<1>5. ReadOK(pads[Len(frames)].a, f) /\ OwnPad(pads, Len(frames), f)
  BY <1>2, <1>3, <1>4 DEF ReadOK, OwnPad
<1> QED
  BY <1>2, <1>4, <1>5, Registers

(* A step that changes the number that the variable holds.                 *)
LEMMA VariableSet ==
  ASSUME IInv, frames # << >>, NEW x \in SV, NEW f \in Frame,
         pads' = [pads EXCEPT ![Len(frames)].a = x],
         frames' = [frames EXCEPT ![Len(frames)] = f],
         UNCHANGED << curpad, stack >>, f.base = Reg.base,
         Reg.pc \notin {"get_op_next", "returned"}, 
         f.pc = "add", f.sv = Len(frames), ReadOK(x, f)
  PROVE  IInv'
<1>1. Len(stack) = Height(Reg) /\ Len(frames) \in Entries
  BY TopFacts
<1>2. pads \in [Entries -> [a : SV, targ : Nat]] /\ stack \in Seq(Entries)
  BY DEF IInv, TypeOK
<1>3. Height(f) = Height(Reg)
  BY DEF Height
<1>4. /\ pads' \in [Entries -> [a : SV, targ : Nat]]
      /\ pads'[Len(frames)].a = x
      /\ \A d \in Entries : d # Len(frames) => pads'[d] = pads[d]
  BY <1>1, <1>2
<1>5. OwnPad(pads', Len(frames), f)
  BY DEF OwnPad
<1> QED
  BY <1>1, <1>2, <1>3, <1>4, <1>5, Moved

LEMMA Sv2nvInv == IInv /\ pa_sv_2nv => IInv'
<1> SUFFICES ASSUME IInv, pa_sv_2nv PROVE IInv'
  OBVIOUS
<1>1. PICK f : f = [[Reg EXCEPT !.nv = pads[Reg.sv].a.pv] EXCEPT !.pc = "add"]
  OBVIOUS
<1>2. PICK x : x = [pads[Reg.sv].a EXCEPT !.nv = pads[Reg.sv].a.pv, !.nok = TRUE]
  OBVIOUS
<1>3. /\ frames # << >> /\ Reg.pc = "sv_2nv" /\ ~pads[Reg.sv].a.gmg
      /\ frames' = [frames EXCEPT ![Len(frames)] = f]
      /\ UNCHANGED << curpad, stack >>
  BY <1>1 DEF pa_sv_2nv, At, Set
<1>4. /\ Reg \in Frame /\ Len(frames) \in Entries /\ Reg.sv = Len(frames)
      /\ ReadOK(pads[Len(frames)].a, Reg)
      /\ pads[Len(frames)].a \in SV /\ pads[Len(frames)].a.pv \in Nat
  BY <1>3, TopFacts, ValueAssumption DEF OwnPad, SV
<1>5. /\ f \in Frame /\ f.sv = Len(frames) /\ f.nv = pads[Len(frames)].a.pv
      /\ f.base = Reg.base /\ f.fetched = Reg.fetched /\ f.pc = "add"
  BY <1>1, <1>4 DEF Frame, Pcs
<1>6. /\ x \in SV /\ x.nok = TRUE /\ x.gmg = pads[Len(frames)].a.gmg
      /\ x.nv = pads[Len(frames)].a.pv
  BY <1>2, <1>4 DEF SV
<1>7. pads' = [pads EXCEPT ![Len(frames)].a = x]
  <2>1. pads \in [Entries -> [a : SV, targ : Nat]]
    BY DEF IInv, TypeOK
  <2>2. pads' = [pads EXCEPT ![Reg.sv].a.nv = pads[Reg.sv].a.pv,
                             ![Reg.sv].a.nok = TRUE]
    BY DEF pa_sv_2nv
  <2> QED
    BY <1>2, <1>4, <2>1, <2>2 DEF SV
<1>8. ReadOK(x, f)
  BY <1>3, <1>4, <1>5, <1>6 DEF ReadOK
<1> QED
  BY <1>3, <1>5, <1>6, <1>7, <1>8, VariableSet

LEMMA Sv2nvMagicInv == IInv /\ pa_sv_2nv_magic => IInv'
<1> SUFFICES ASSUME IInv, pa_sv_2nv_magic PROVE IInv'
  OBVIOUS
<1>1. PICK f : f = [Reg EXCEPT !.pc = "fetch"]
  OBVIOUS
<1>2. /\ frames # << >> /\ Reg.pc = "sv_2nv" /\ pads[Reg.sv].a.gmg
      /\ frames' = [frames EXCEPT ![Len(frames)] = f]
      /\ UNCHANGED << pads, curpad, stack >>
  BY <1>1 DEF pa_sv_2nv_magic, At, Set
<1>3. /\ Reg \in Frame /\ Len(frames) \in Entries /\ Reg.sv = Len(frames)
      /\ ReadOK(pads[Len(frames)].a, Reg)
  BY <1>2, TopFacts DEF OwnPad
<1>4. /\ f \in Frame /\ f.sv = Len(frames) /\ f.pc = "fetch"
      /\ f.base = Reg.base /\ f.fetched = Reg.fetched
  BY <1>1, <1>3 DEF Frame, Pcs
<1>5. ReadOK(pads[Len(frames)].a, f) /\ OwnPad(pads, Len(frames), f)
  BY <1>2, <1>3, <1>4 DEF ReadOK, OwnPad
<1> QED
  BY <1>2, <1>4, <1>5, Registers

LEMMA FetchReturnsInv ==
  ASSUME IInv, NEW n \in Values, FetchReturns(n)
  PROVE  IInv'
<1>1. PICK f : f = [[Reg EXCEPT !.nv = n, !.fetched = Append(@, n)]
                     EXCEPT !.pc = "add"]
  OBVIOUS
<1>2. PICK x : x = [pads[Reg.sv].a EXCEPT !.nv = n]
  OBVIOUS
<1>3. /\ frames # << >> /\ Reg.pc = "fetch"
      /\ frames' = [frames EXCEPT ![Len(frames)] = f]
      /\ UNCHANGED << curpad, stack >>
  BY <1>1 DEF FetchReturns, At, Set
<1>4. /\ Reg \in Frame /\ Len(frames) \in Entries /\ Reg.sv = Len(frames)
      /\ ReadOK(pads[Len(frames)].a, Reg) /\ pads[Len(frames)].a \in SV
      /\ n \in Nat
  BY <1>3, TopFacts, ValueAssumption DEF OwnPad
<1>5. Reg.fetched = << >> /\ pads[Len(frames)].a.gmg
  BY <1>3, <1>4 DEF ReadOK
<1>6. /\ f \in Frame /\ f.sv = Len(frames) /\ f.nv = n
      /\ f.base = Reg.base /\ f.fetched = << n >> /\ f.pc = "add"
  <2>1. Append(Reg.fetched, n) = << n >> /\ << n >> \in Seq(Values)
    BY <1>5
  <2> QED
    BY <1>1, <1>4, <2>1 DEF Frame, Pcs
<1>7. x \in SV /\ x.gmg = pads[Len(frames)].a.gmg
  BY <1>2, <1>4 DEF SV
<1>8. pads' = [pads EXCEPT ![Len(frames)].a = x]
  <2>1. pads \in [Entries -> [a : SV, targ : Nat]]
    BY DEF IInv, TypeOK
  <2>2. pads' = [pads EXCEPT ![Reg.sv].a.nv = n]
    BY DEF FetchReturns
  <2> QED
    BY <1>2, <1>4, <2>1, <2>2 DEF SV
<1>9. ReadOK(x, f)
  BY <1>5, <1>6, <1>7 DEF ReadOK
<1> QED
  BY <1>3, <1>6, <1>7, <1>8, <1>9, VariableSet

LEMMA AddInv == IInv /\ jit_insn_add => IInv'
<1> SUFFICES ASSUME IInv, jit_insn_add PROVE IInv'
  OBVIOUS
<1>1. PICK f : f = [[Reg EXCEPT !.nv = Reg.nv + Addend] EXCEPT !.pc = "get_targ"]
  OBVIOUS
<1>2. /\ frames # << >> /\ Reg.pc = "add"
      /\ frames' = [frames EXCEPT ![Len(frames)] = f]
      /\ UNCHANGED << pads, curpad, stack >>
  BY <1>1 DEF jit_insn_add, At, Set
<1>3. /\ Reg \in Frame /\ Len(frames) \in Entries /\ Reg.sv = Len(frames)
      /\ ReadOK(pads[Len(frames)].a, Reg) /\ Reg.nv \in Nat /\ Addend \in Nat
  BY <1>2, TopFacts, ValueAssumption DEF OwnPad, Frame
<1>4. /\ f \in Frame /\ f.sv = Len(frames) /\ f.pc = "get_targ"
      /\ f.base = Reg.base /\ f.fetched = Reg.fetched /\ f.nv = Reg.nv + Addend
  <2>1. Reg.nv + Addend \in Nat
    BY <1>3
  <2> QED
    BY <1>1, <1>3, <2>1 DEF Frame, Pcs
<1>5. ReadOK(pads[Len(frames)].a, f) /\ OwnPad(pads, Len(frames), f)
  <2>1. f.nv - Addend = Reg.nv
    BY <1>3, <1>4
  <2> QED
    BY <1>2, <1>3, <1>4, <2>1 DEF ReadOK, OwnPad
<1> QED
  BY <1>2, <1>4, <1>5, Registers

LEMMA GetTargInv == IInv /\ pa_get_targ => IInv'
<1> SUFFICES ASSUME IInv, pa_get_targ PROVE IInv'
  OBVIOUS
<1>1. PICK f : f = [[Reg EXCEPT !.targ = curpad] EXCEPT !.pc = "set_nv"]
  OBVIOUS
<1>2. /\ frames # << >> /\ Reg.pc = "get_targ"
      /\ frames' = [frames EXCEPT ![Len(frames)] = f]
      /\ UNCHANGED << pads, curpad, stack >>
  BY <1>1 DEF pa_get_targ, At, Set, PAD_SV
<1>3. /\ Reg \in Frame /\ Len(frames) \in Entries /\ Reg.sv = Len(frames)
      /\ curpad = Len(frames)
  BY <1>2, TopFacts DEF OwnPad
<1>4. /\ f \in Frame /\ f.sv = Len(frames) /\ f.targ = Len(frames)
      /\ f.pc = "set_nv" /\ f.base = Reg.base
  BY <1>1, <1>3 DEF Frame, Pcs
<1>5. ReadOK(pads[Len(frames)].a, f) /\ OwnPad(pads, Len(frames), f)
  BY <1>4 DEF ReadOK, OwnPad
<1> QED
  BY <1>2, <1>4, <1>5, Registers

LEMMA SetNvInv == IInv /\ pa_sv_set_nv => IInv'
<1> SUFFICES ASSUME IInv, pa_sv_set_nv PROVE IInv'
  OBVIOUS
<1>1. PICK f : f = [Reg EXCEPT !.pc = "push_sv"]
  OBVIOUS
<1>2. /\ frames # << >> /\ Reg.pc = "set_nv"
      /\ frames' = [frames EXCEPT ![Len(frames)] = f]
      /\ pads' = [pads EXCEPT ![Reg.targ].targ = Reg.nv]
      /\ UNCHANGED << curpad, stack >>
  BY <1>1 DEF pa_sv_set_nv, At, Set
<1>3. /\ Reg \in Frame /\ Len(frames) \in Entries /\ Reg.sv = Len(frames)
      /\ Reg.targ = Len(frames) /\ Reg.nv \in Nat /\ Len(stack) = Height(Reg)
  BY <1>2, TopFacts DEF OwnPad, Frame
<1>4. pads \in [Entries -> [a : SV, targ : Nat]] /\ stack \in Seq(Entries)
  BY DEF IInv, TypeOK
<1>5. /\ f \in Frame /\ f.sv = Len(frames) /\ f.targ = Len(frames)
      /\ f.pc = "push_sv" /\ f.base = Reg.base /\ f.nv = Reg.nv
  BY <1>1, <1>3 DEF Frame, Pcs
<1>6. /\ pads' \in [Entries -> [a : SV, targ : Nat]]
      /\ pads'[Len(frames)].targ = Reg.nv
      /\ \A d \in Entries : d # Len(frames) => pads'[d] = pads[d]
  BY <1>2, <1>3, <1>4
<1>7. ReadOK(pads'[Len(frames)].a, f) /\ OwnPad(pads', Len(frames), f)
  BY <1>5, <1>6 DEF ReadOK, OwnPad
<1>8. Height(f) = Height(Reg)
  BY <1>2, <1>5 DEF Height
<1> QED
  BY <1>2, <1>3, <1>4, <1>5, <1>6, <1>7, <1>8, Moved

LEMMA PushSvInv == IInv /\ pa_push_sv => IInv'
<1> SUFFICES ASSUME IInv, pa_push_sv PROVE IInv'
  OBVIOUS
<1>1. PICK f : f = [Reg EXCEPT !.pc = "get_op_next"]
  OBVIOUS
<1>2. /\ frames # << >> /\ Reg.pc = "push_sv"
      /\ frames' = [frames EXCEPT ![Len(frames)] = f]
      /\ stack' = Append(stack, Reg.targ)
      /\ UNCHANGED << pads, curpad >>
  BY <1>1 DEF pa_push_sv, At, Set
<1>3. /\ Reg \in Frame /\ Len(frames) \in Entries /\ Reg.sv = Len(frames)
      /\ Reg.targ = Len(frames) /\ OwnPad(pads, Len(frames), Reg)
      /\ Len(stack) = Reg.base /\ Reg.base \in Nat
  BY <1>2, TopFacts DEF OwnPad, Frame, Height
<1>4. pads \in [Entries -> [a : SV, targ : Nat]] /\ stack \in Seq(Entries)
  BY DEF IInv, TypeOK
<1>5. /\ f \in Frame /\ f.sv = Len(frames) /\ f.targ = Len(frames)
      /\ f.pc = "get_op_next" /\ f.base = Reg.base /\ f.nv = Reg.nv
  BY <1>1, <1>3 DEF Frame, Pcs
<1>6. /\ stack' \in Seq(Entries) /\ Len(stack') = Reg.base + 1
      /\ stack'[Reg.base + 1] = Len(frames)
      /\ \A n \in 1..Reg.base : stack'[n] = stack[n]
  BY <1>2, <1>3, <1>4
<1>7. ReadOK(pads'[Len(frames)].a, f) /\ OwnPad(pads', Len(frames), f)
  BY <1>2, <1>3, <1>5 DEF ReadOK, OwnPad
<1>8. Height(f) = Reg.base + 1
  BY <1>5 DEF Height
<1> QED
  BY <1>2, <1>4, <1>5, <1>6, <1>7, <1>8, Moved

LEMMA GetOpNextInv == IInv /\ pa_get_op_next => IInv'
<1> SUFFICES ASSUME IInv, pa_get_op_next PROVE IInv'
  OBVIOUS
<1>1. PICK f : f = [Reg EXCEPT !.pc = "returned"]
  OBVIOUS
<1>2. /\ frames # << >> /\ Reg.pc = "get_op_next"
      /\ frames' = [frames EXCEPT ![Len(frames)] = f]
      /\ UNCHANGED << pads, curpad, stack >>
  BY <1>1 DEF pa_get_op_next, At, Set
<1>3. /\ Reg \in Frame /\ Len(frames) \in Entries /\ Reg.sv = Len(frames)
      /\ OwnPad(pads, Len(frames), Reg) /\ Len(stack) = Height(Reg)
      /\ Reg = frames[Len(frames)] /\ Len(frames) \in Nat \ {0}
  BY <1>2, TopFacts DEF OwnPad
<1>4. pads \in [Entries -> [a : SV, targ : Nat]] /\ stack \in Seq(Entries)
  BY DEF IInv, TypeOK
<1>5. /\ f \in Frame /\ f.sv = Len(frames) /\ f.targ = Reg.targ
      /\ f.pc = "returned" /\ f.base = Reg.base /\ f.nv = Reg.nv
  BY <1>1, <1>3 DEF Frame, Pcs
<1>6. stack[Reg.base + 1] = Len(frames)
  <2>1. FrameOK(pads, frames, stack, Len(frames))
    BY <1>3 DEF IInv, FramesOK
  <2> QED
    BY <1>2, <1>3, <2>1 DEF FrameOK
<1>7. ReadOK(pads'[Len(frames)].a, f) /\ OwnPad(pads', Len(frames), f)
  BY <1>2, <1>3, <1>5 DEF ReadOK, OwnPad
<1>8. Height(f) = Height(Reg)
  BY <1>2, <1>5 DEF Height
<1> QED
  BY <1>2, <1>3, <1>4, <1>5, <1>6, <1>7, <1>8, Moved

(* Perl enters the sub: a frame on top.                                    *)
LEMMA Pushed ==
  ASSUME NEW fs \in Seq(Frame), NEW gs \in Seq(Frame), NEW n \in Nat,
         n = Len(fs), Len(gs) = n + 1, \A d \in 1..n : gs[d] = fs[d],
         NEW st, Len(st) \in Nat, NEW p, NEW q, \A d \in 1..n : q[d] = p[d],
         FramesOK(p, fs, st), n > 0 => fs[n].pc \in Calls,
         gs[n + 1].pc = "get_pad_sv", gs[n + 1].fetched = << >>,
         gs[n + 1].base = Len(st)
  PROVE  FramesOK(q, gs, st)
<1>1. \A d \in 1..n : fs[d] \in Frame
  OBVIOUS
<1>2. \A d \in 1..n : fs[d].base \in Nat /\ Height(fs[d]) \in Nat
  <2> SUFFICES ASSUME NEW d \in 1..n
               PROVE  fs[d].base \in Nat /\ Height(fs[d]) \in Nat
    OBVIOUS
  <2>1. fs[d].base \in Nat
    BY <1>1 DEF Frame
  <2> QED
    BY <2>1 DEF Height
<1>3. n > 0 => Len(st) = Height(fs[n])
  BY DEF FramesOK
<1>4. ASSUME NEW d \in 1..n PROVE FrameOK(q, gs, st, d)
  <2>1. FrameOK(p, fs, st, d)
    BY DEF FramesOK
  <2>2. gs[d] = fs[d] /\ q[d] = p[d]
    OBVIOUS
  <2>3. gs[d].pc \in Calls /\ gs[d + 1].base = Height(gs[d])
    <3>1. CASE d = n
      BY <1>3, <2>2, <3>1
    <3>2. CASE d < n
      BY <2>1, <2>2, <3>2 DEF FrameOK
    <3> QED
      BY <3>1, <3>2
  <2> QED
    BY <2>1, <2>2, <2>3 DEF FrameOK, OwnPad
<1>5. FrameOK(q, gs, st, n + 1)
  BY DEF FrameOK, ReadOK, OwnPad
<1>6. ASSUME NEW d \in 1..n + 1, NEW e \in 1..n + 1, d < e
      PROVE  Height(gs[d]) <= gs[e].base
  <2>1. gs[d] = fs[d] /\ d \in 1..n
    BY <1>6
  <2>2. CASE e <= n
    BY <1>6, <2>1, <2>2 DEF FramesOK
  <2>3. CASE e = n + 1
    <3>1. d < n => Height(fs[d]) <= fs[n].base
      BY <1>6, <2>1 DEF FramesOK
    <3>2. fs[n].base <= Height(fs[n]) /\ n \in 1..n
      BY <1>2, <2>1 DEF Height
    <3>3. Height(fs[d]) <= Height(fs[n])
      BY <1>2, <2>1, <3>1, <3>2
    <3> QED
      BY <1>3, <2>1, <2>3, <3>3
  <2> QED
    BY <1>6, <2>2, <2>3
<1>7. gs[1].base = 0
  <2>1. CASE n = 0
    <3>1. Len(fs) = 0 /\ n + 1 = 1
      BY <2>1
    <3>2. fs = << >>
      BY <3>1
    <3>3. gs[1].base = Len(st)
      BY <3>1
    <3> QED
      BY <3>2, <3>3 DEF FramesOK
  <2>2. CASE n > 0
    <3>1. fs # << >> /\ gs[1] = fs[1]
      BY <2>2
    <3> QED
      BY <3>1 DEF FramesOK
  <2> QED
    BY <2>1, <2>2
<1>8. Height(gs[n + 1]) = Len(st) /\ gs # << >>
  BY DEF Height
<1>9. n + 1 \in Nat /\ \A d \in 1..n + 1 : d = n + 1 \/ d \in 1..n
  OBVIOUS
<1> QED
  BY <1>4, <1>5, <1>6, <1>7, <1>8, <1>9 DEF FramesOK

LEMMA EnterSubInv ==
  ASSUME IInv, NEW x \in SV, EnterSub(x)
  PROVE  IInv'
<1>1. PICK f : f = [pc |-> "get_pad_sv", sv |-> Len(frames) + 1, nv |-> 0,
                    targ |-> Len(frames) + 1, base |-> Len(stack),
                    fetched |-> << >>]
  OBVIOUS
<1>2. /\ Len(frames) + 1 <= MaxDepth
      /\ frames # << >> => frames[Len(frames)].pc \in Calls
      /\ pads' = [pads EXCEPT ![Len(frames) + 1].a = x]
      /\ curpad' = Len(frames) + 1 /\ frames' = Append(frames, f)
      /\ stack' = stack
  BY <1>1 DEF EnterSub, Last
<1>3. /\ pads \in [Entries -> [a : SV, targ : Nat]] /\ stack \in Seq(Entries)
      /\ frames \in Seq(Frame) /\ FramesOK(pads, frames, stack)
      /\ Len(frames) \in Nat /\ Len(stack) \in Nat /\ MaxDepth \in Nat
  BY ValueAssumption DEF IInv, TypeOK
<1>4. Len(frames) + 1 \in Entries
  BY <1>2, <1>3 DEF Entries
<1>5. f \in Frame /\ f.pc = "get_pad_sv" /\ f.fetched = << >> /\ f.base = Len(stack)
  <2>1. << >> \in Seq(Values) /\ 0 \in Nat
    OBVIOUS
  <2> QED
    BY <1>1, <1>3, <1>4, <2>1 DEF Frame, Pcs
<1>6. /\ frames' \in Seq(Frame) /\ Len(frames') = Len(frames) + 1
      /\ \A d \in 1..Len(frames) : frames'[d] = frames[d]
      /\ frames'[Len(frames) + 1] = f
  BY <1>2, <1>3, <1>5
<1>7. /\ pads' \in [Entries -> [a : SV, targ : Nat]]
      /\ \A d \in Entries : d # Len(frames) + 1 => pads'[d] = pads[d]
  BY <1>2, <1>3, <1>4
<1>8. \A d \in 1..Len(frames) : pads'[d] = pads[d]
  BY <1>3, <1>4, <1>7 DEF Entries
<1>9. Len(frames) > 0 => frames[Len(frames)].pc \in Calls
  BY <1>2, <1>3
<1>10. FramesOK(pads', frames', stack)
  BY <1>3, <1>5, <1>6, <1>8, <1>9, Pushed
<1>11. curpad' \in 0..MaxDepth
  BY <1>2, <1>3
<1> QED
  BY <1>2, <1>3, <1>6, <1>7, <1>10, <1>11 DEF IInv, TypeOK

(* Perl leaves the entries above the m-th.                                 *)
LEMMA Left ==
  ASSUME NEW fs \in Seq(Frame), NEW gs \in Seq(Frame), NEW m \in Nat,
         m < Len(fs), Len(gs) = m, \A d \in 1..m : gs[d] = fs[d],
         NEW p, NEW st, FramesOK(p, fs, st),
         NEW tt, Len(tt) = fs[m + 1].base,
         \A k \in 1..fs[m + 1].base : tt[k] = st[k]
  PROVE  FramesOK(p, gs, tt)
<1>0. Len(fs) \in Nat /\ m + 1 \in 1..Len(fs) /\ \A d \in 1..m : d \in 1..Len(fs)
  OBVIOUS
<1>1. \A d \in 1..Len(fs) : fs[d] \in Frame
  OBVIOUS
<1>2. \A d \in 1..Len(fs) : fs[d].base \in Nat /\ Height(fs[d]) \in Nat
  BY <1>1 DEF Frame, Height
<1>3. \A d, e \in 1..Len(fs) : d < e => Height(fs[d]) <= fs[e].base
  BY DEF FramesOK
<1>4. ASSUME NEW d \in 1..m PROVE FrameOK(p, gs, tt, d)
  <2>1. FrameOK(p, fs, st, d) /\ gs[d] = fs[d]
    BY <1>0 DEF FramesOK
  <2>2. ASSUME gs[d].pc \in {"get_op_next", "returned"}
        PROVE  tt[gs[d].base + 1] = d
    <3>1. Height(fs[d]) = fs[d].base + 1 /\ Height(fs[d]) <= fs[m + 1].base
      BY <1>0, <1>3, <2>1, <2>2 DEF Height
    <3>2. fs[d].base + 1 \in 1..fs[m + 1].base
      BY <1>0, <1>2, <3>1
    <3> QED
      BY <2>1, <2>2, <3>2 DEF FrameOK
  <2>3. d < m => gs[d].pc \in Calls /\ gs[d + 1].base = Height(gs[d])
    BY <1>0, <2>1 DEF FrameOK
  <2> QED
    BY <2>1, <2>2, <2>3 DEF FrameOK, OwnPad
<1>5. ASSUME NEW d \in 1..m, NEW e \in 1..m, d < e
      PROVE  Height(gs[d]) <= gs[e].base
  BY <1>0, <1>3, <1>5
<1>6. gs # << >> => gs[1].base = 0
  <2>1. fs # << >>
    BY <1>0
  <2> QED
    BY <2>1 DEF FramesOK
<1>7. Len(tt) = IF gs = << >> THEN 0 ELSE Height(gs[m])
  <2>1. CASE m = 0
    <3>1. fs # << >> /\ gs = << >>
      BY <1>0, <2>1
    <3> QED
      BY <2>1, <3>1 DEF FramesOK
  <2>2. CASE m > 0
    <3>1. FrameOK(p, fs, st, m) /\ gs[m] = fs[m] /\ gs # << >>
      BY <1>0, <2>2 DEF FramesOK
    <3> QED
      BY <3>1 DEF FrameOK
  <2> QED
    BY <2>1, <2>2
<1> QED
  BY <1>4, <1>5, <1>6, <1>7 DEF FramesOK

LEMMA LeaveToInv ==
  ASSUME IInv, NEW d \in Nat, d < Len(frames), LeaveTo(d)
  PROVE  IInv'
<1>1. /\ pads \in [Entries -> [a : SV, targ : Nat]] /\ stack \in Seq(Entries)
      /\ frames \in Seq(Frame) /\ FramesOK(pads, frames, stack)
      /\ Len(frames) \in Nat /\ Len(frames) <= MaxDepth /\ MaxDepth \in Nat
  BY ValueAssumption DEF IInv, TypeOK
<1>2. /\ frames' = SubSeq(frames, 1, d) /\ curpad' = d /\ pads' = pads
      /\ stack' = SubSeq(stack, 1, frames[d + 1].base)
  BY DEF LeaveTo
<1>3. /\ frames' \in Seq(Frame) /\ Len(frames') = d
      /\ \A k \in 1..d : frames'[k] = frames[k]
  BY <1>1, <1>2
<1>4. frames[d + 1].base \in Nat /\ frames[d + 1].base <= Len(stack)
  <2>1. /\ d + 1 \in 1..Len(frames) /\ Len(frames) \in 1..Len(frames)
        /\ frames[d + 1] \in Frame /\ frames[Len(frames)] \in Frame
        /\ frames # << >>
    BY <1>1
  <2>2. /\ frames[d + 1].base \in Nat /\ frames[Len(frames)].base \in Nat
        /\ frames[Len(frames)].base <= Height(frames[Len(frames)])
        /\ frames[d + 1].base <= Height(frames[d + 1])
        /\ Height(frames[d + 1]) \in Nat /\ Height(frames[Len(frames)]) \in Nat
    BY <2>1 DEF Frame, Height
  <2>3. /\ Len(stack) = Height(frames[Len(frames)])
        /\ d + 1 < Len(frames) =>
             Height(frames[d + 1]) <= frames[Len(frames)].base
    BY <1>1, <2>1 DEF FramesOK
  <2>4. CASE d + 1 < Len(frames)
    BY <2>2, <2>3, <2>4
  <2>5. CASE d + 1 = Len(frames)
    BY <2>2, <2>3, <2>5
  <2> QED
    BY <1>1, <2>4, <2>5
<1>5. /\ stack' \in Seq(Entries) /\ Len(stack') = frames[d + 1].base
      /\ \A k \in 1..frames[d + 1].base : stack'[k] = stack[k]
  BY <1>1, <1>2, <1>4
<1>6. FramesOK(pads, frames', stack')
  BY <1>1, <1>3, <1>5, Left
<1>7. curpad' \in 0..MaxDepth /\ Len(frames') <= MaxDepth
  BY <1>1, <1>2, <1>3
<1> QED
  BY <1>1, <1>2, <1>3, <1>5, <1>6, <1>7 DEF IInv, TypeOK

-----------------------------------------------------------------------------
(* The theorems.                                                           *)

LEMMA StepInv == IInv /\ [Next]_vars => IInv'
<1> SUFFICES ASSUME IInv, [Next]_vars PROVE IInv'
  OBVIOUS
<1>1. Len(frames) \in Nat
  BY DEF IInv, TypeOK
<1>2. CASE LeaveSub
  <2>1. Len(frames) - 1 \in Nat /\ Len(frames) - 1 < Len(frames)
    BY <1>1, <1>2, TopFacts DEF LeaveSub
  <2> QED
    BY <1>2, <2>1, LeaveToInv DEF LeaveSub
<1>3. ASSUME NEW d \in 0..MaxDepth, Die(d) PROVE IInv'
  BY <1>3, ValueAssumption, LeaveToInv DEF Die
<1>4. CASE UNCHANGED vars
  BY <1>4 DEF IInv, TypeOK, vars
<1> QED
  BY <1>2, <1>3, <1>4, EnterSubInv, GetPadSvInv, SvNvInv, SvNvxInv, Sv2nvInv,
     Sv2nvMagicInv, FetchReturnsInv, AddInv, GetTargInv, SetNvInv, PushSvInv,
     GetOpNextInv DEF Next

(* The inductive invariant.                                                *)
THEOREM Invariant == Spec => []IInv
<1> QED
  BY InitInv, StepInv, PTL DEF Spec

(* For any numbers and any depth: registers, pads and the stack hold       *)
(* scalars, numbers and TARGs of entries that exist (jitapi.c:258-321).    *)
THEOREM TypeCorrect == Spec => []TypeOK
<1>1. IInv => TypeOK
  BY DEF IInv
<1> QED
  BY <1>1, Invariant, PTL

(* For any numbers and any depth: the code adds the number that Perl would *)
(* read, the result of the only FETCH made for it if the variable of its   *)
(* own entry is tied (jitapi.c:261-300).                                   *)
THEOREM Fresh == Spec => []FreshRead
<1> QED
  BY InvFreshRead, Invariant, PTL

(* For any numbers and any depth: the TARG an entry has pushed is its own  *)
(* and still holds its result when entries above it have come and gone     *)
(* (jitapi.c:318-321, 354-359).                                            *)
THEOREM Own == Spec => []OwnResult
<1> QED
  BY InvOwnResult, Invariant, PTL
=============================================================================

------------------------------ MODULE JitValue ------------------------------
(***************************************************************************)
(* The values that a compiled OP computes with: the addition of t/020, a   *)
(* pad variable plus a constant, stored in the OP's TARG and pushed.  The  *)
(* sub it is in may be entered again while the OP executes, since reading  *)
(* a tied variable calls Perl code; each entry has a pad of its own, and   *)
(* the code finds it through PL_curpad when it runs.                       *)
(*                                                                         *)
(* That PL_op is the right OP when pa_get_targ reads op_targ is shown in   *)
(* JitPP; here op_targ is a constant.                                      *)
(***************************************************************************)
EXTENDS Naturals, Sequences, SequencesExt

CONSTANTS
    Values,    \* numbers of variables
    Addend,    \* the constant operand, read when the code is emitted
    MaxDepth   \* bound: entries of the sub

ASSUME ValueAssumption == Values \subseteq Nat /\ Addend \in Nat /\ MaxDepth \in Nat

VARIABLES
    pads,     \* pads[d]: the variable and the TARG of the d-th entry
    curpad,   \* PL_curpad, as the entry whose pad it is
    frames,   \* the entries that execute, with the registers of the OP
    stack     \* the argument stack: TARGs, as the entries they are of

vars == <<pads, curpad, frames, stack>>

\* A scalar: the flags SVf_NOK and SVs_GMG, the number in its body, and the
\* number its string would convert to.
SV == [nok : BOOLEAN, gmg : BOOLEAN, nv : Values, pv : Values]

\* The instructions, by name; "fetch" is inside FETCH, "returned" is in the
\* OPs after the compiled one.
Pcs == {"get_pad_sv", "sv_flags", "sv_nvx", "sv_2nv", "fetch",
        "add", "get_targ", "set_nv", "push_sv", "get_op_next", "returned"}

Entries == 1..MaxDepth
Frame == [pc : Pcs, sv : Entries, nv : Nat, targ : Entries, base : Nat,
          fetched : Seq(Values)]

Init ==
    /\ \E v \in Values :
        pads = [d \in Entries |->
            [a |-> [nok |-> FALSE, gmg |-> FALSE, nv |-> v, pv |-> v], targ |-> v]]
    /\ curpad = 0 /\ frames = <<>> /\ stack = <<>>

-----------------------------------------------------------------------------
(* Perl                                                                    *)

Calls == {"fetch", "returned"}   \* where Perl code runs

\* pp_entersub, and the assignment of the variable, tied or not.
EnterSub(x) ==
    LET d == Len(frames) + 1
    IN  /\ d <= MaxDepth
        /\ frames # <<>> => Last(frames).pc \in Calls
        /\ pads' = [pads EXCEPT ![d].a = x]
        /\ curpad' = d
        /\ frames' = Append(frames,
              [pc |-> "get_pad_sv", sv |-> d, nv |-> 0, targ |-> d,
               base |-> Len(stack), fetched |-> <<>>])
        /\ UNCHANGED stack

\* pp_leavesub copies what the sub leaves on the stack and gives the pad of
\* the caller back.  A die leaves several entries at once.
LeaveTo(d) ==
    /\ frames' = SubSeq(frames, 1, d)
    /\ curpad' = d
    /\ stack' = SubSeq(stack, 1, frames[d + 1].base)
    /\ UNCHANGED pads

LeaveSub == frames # <<>> /\ Last(frames).pc = "returned" /\ LeaveTo(Len(frames) - 1)

Die(d) == frames # <<>> /\ Last(frames).pc \in Calls /\ d < Len(frames) /\ LeaveTo(d)

-----------------------------------------------------------------------------
(* The compiled OP                                                         *)

Reg == Last(frames)
At(pc) == frames # <<>> /\ Reg.pc = pc
Set(reg, pc) == frames' = [frames EXCEPT ![Len(frames)] = [reg EXCEPT !.pc = pc]]

\* Faulty variant: the pad is the one known when the code is emitted.
PAD_SV_emitted(d) == 1

\* Faulty variant: the pad of the caller.
PAD_SV_caller(d) == d - 1

\* PL_curpad is loaded when the code runs.
PAD_SV(d) == d

pa_get_pad_sv ==
    /\ At("get_pad_sv")
    /\ Set([Reg EXCEPT !.sv = PAD_SV(curpad)], "sv_flags")
    /\ UNCHANGED <<pads, curpad, stack>>

\* Faulty variant: magic is not looked at.
pa_sv_nok_nog_magic(x) == x.nok

pa_sv_nok_nog(x) == x.nok /\ ~x.gmg

\* The branch of pa_sv_nv.
pa_sv_nv ==
    /\ At("sv_flags")
    /\ Set(Reg, IF pa_sv_nok_nog(pads[Reg.sv].a) THEN "sv_nvx" ELSE "sv_2nv")
    /\ UNCHANGED <<pads, curpad, stack>>

pa_sv_nvx ==
    /\ At("sv_nvx")
    /\ Set([Reg EXCEPT !.nv = pads[Reg.sv].a.nv], "add")
    /\ UNCHANGED <<pads, curpad, stack>>

\* sv_2nv_flags(sv, SV_GMAGIC) of a plain scalar keeps the number in it.
pa_sv_2nv ==
    LET x == pads[Reg.sv].a
    IN  /\ At("sv_2nv") /\ ~x.gmg
        /\ pads' = [pads EXCEPT ![Reg.sv].a.nv = x.pv, ![Reg.sv].a.nok = TRUE]
        /\ Set([Reg EXCEPT !.nv = x.pv], "add")
        /\ UNCHANGED <<curpad, stack>>

\* Of a tied one it calls FETCH, which returns any value.
pa_sv_2nv_magic ==
    /\ At("sv_2nv") /\ pads[Reg.sv].a.gmg
    /\ Set(Reg, "fetch")
    /\ UNCHANGED <<pads, curpad, stack>>

FetchReturns(n) ==
    /\ At("fetch")
    /\ pads' = [pads EXCEPT ![Reg.sv].a.nv = n]
    /\ Set([Reg EXCEPT !.nv = n, !.fetched = Append(@, n)], "add")
    /\ UNCHANGED <<curpad, stack>>

jit_insn_add ==
    /\ At("add")
    /\ Set([Reg EXCEPT !.nv = @ + Addend], "get_targ")
    /\ UNCHANGED <<pads, curpad, stack>>

\* PAD_SV(PL_op->op_targ)
pa_get_targ ==
    /\ At("get_targ")
    /\ Set([Reg EXCEPT !.targ = PAD_SV(curpad)], "set_nv")
    /\ UNCHANGED <<pads, curpad, stack>>

pa_sv_set_nv ==
    /\ At("set_nv")
    /\ pads' = [pads EXCEPT ![Reg.targ].targ = Reg.nv]
    /\ Set(Reg, "push_sv")
    /\ UNCHANGED <<curpad, stack>>

pa_push_sv ==
    /\ At("push_sv")
    /\ stack' = Append(stack, Reg.targ)
    /\ Set(Reg, "get_op_next")
    /\ UNCHANGED <<pads, curpad>>

pa_get_op_next ==
    /\ At("get_op_next")
    /\ Set(Reg, "returned")
    /\ UNCHANGED <<pads, curpad, stack>>

Next ==
    \/ \E x \in SV : EnterSub(x)
    \/ LeaveSub
    \/ \E d \in 0..MaxDepth : Die(d)
    \/ pa_get_pad_sv \/ pa_sv_nv \/ pa_sv_nvx \/ pa_sv_2nv \/ pa_sv_2nv_magic
    \/ \E n \in Values : FetchReturns(n)
    \/ jit_insn_add \/ pa_get_targ \/ pa_sv_set_nv \/ pa_push_sv \/ pa_get_op_next

Spec == Init /\ [][Next]_vars

-----------------------------------------------------------------------------

\* Registers, pads and the stack hold scalars, numbers and TARGs.
TypeOK ==
    /\ pads \in [Entries -> [a : SV, targ : Nat]]
    /\ curpad \in 0..MaxDepth
    /\ frames \in Seq(Frame) /\ Len(frames) <= MaxDepth
    /\ stack \in Seq(Entries)

\* What the code has read is what Perl would read: the result of the one
\* FETCH made for it if the variable of this entry is tied, else its number
\* or what its string converts to (jitapi.c:261-300).
FreshRead ==
    \A d \in DOMAIN frames : frames[d].pc \in {"add", "get_targ"} =>
        LET x == pads[d].a
            n == IF frames[d].pc = "add" THEN frames[d].nv ELSE frames[d].nv - Addend
        IN  IF x.gmg THEN frames[d].fetched = <<n>>
            ELSE frames[d].fetched = <<>> /\ n = IF x.nok THEN x.nv ELSE x.pv

\* What an entry has pushed is its own result, in a TARG that no entry
\* above it has written to since (jitapi.c:318-321, 354-359).
OwnResult ==
    \A d \in DOMAIN frames : frames[d].pc = "returned" =>
        LET i == frames[d].base + 1
        IN  i \in DOMAIN stack /\ stack[i] = d /\ pads[d].targ = frames[d].nv
=============================================================================

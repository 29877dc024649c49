------------------------------- MODULE Labels -------------------------------
(***************************************************************************)
(* Labels of user-emitted code.  A label is a Perl object, a blessed       *)
(* scalar that holds libjit's label number; every wrapper of               *)
(* xsp/instruction.xsp reads the number from the scalar, lets libjit       *)
(* define or use the label, and writes the number back, for libjit gives   *)
(* a label its number on first use.  The emitters of jitapi.c use labels   *)
(* of their own in the same functions.                                     *)
(*                                                                         *)
(* Numbers belong to one build of one function: the counter restarts when  *)
(* a recompilable function is built again, but the objects keep their      *)
(* numbers, and nothing ties an object to a function.                      *)
(***************************************************************************)
EXTENDS Naturals, Sequences

CONSTANTS
    Objects,      \* label objects
    Functions,    \* functions being built
    Recompilable, \* those that jit_function_set_recompilable was called for
    Undefined,    \* jit_label_undefined, ~0
    Unborn,       \* an object that does not exist yet
    MaxInsns,     \* bound: label instructions of one build of each function
    MaxBuilds     \* bound: builds of one function

ASSUME LabelAssumption ==
    /\ Recompilable \subseteq Functions
    /\ Undefined \notin Nat
    /\ Unborn \notin Nat \cup {Undefined}
    /\ MaxInsns \in [Functions -> Nat] /\ MaxBuilds \in Nat
    /\ \A o \in Objects : o \notin Functions \X Nat \X Nat

VARIABLES
    iv,         \* iv[o]: the number that the scalar of label o holds
    next_label, \* next_label[f]: the counter of f's builder
    insns,      \* insns[f]: the instructions of f's build that name a label
    build,      \* build[f]: how many times f has been compiled
    home,       \* history: home[o] is the build that gave o its number
    alive       \* FALSE once the process has crashed

vars == <<iv, next_label, insns, build, home, alive>>

Kinds == {"label", "branch"}

\* Labels of the emitters are C variables: they are known by the place of
\* the first instruction that names them.
Locals == Functions \X Nat \X Nat
Insn   == [kind : Kinds, num : Nat, id : Objects \cup Locals]

Init ==
    /\ iv = [o \in Objects |-> Unborn]
    /\ next_label = [f \in Functions |-> 0]
    /\ insns = [f \in Functions |-> <<>>]
    /\ build = [f \in Functions |-> 0]
    /\ home = [o \in Objects |-> {}]
    /\ alive = TRUE

-----------------------------------------------------------------------------
(* libjit                                                                  *)

\* A function that is compiled takes no more instructions, unless it is
\* recompilable.
CanEmit(f) == alive /\ (build[f] = 0 \/ f \in Recompilable)

\* Faulty variant: the label keeps the number it came with.
Number_kept(f, tmp) == tmp

Number(f, tmp)  == IF tmp = Undefined THEN next_label[f] ELSE tmp
Counter(f, tmp) == IF tmp = Undefined THEN next_label[f] + 1 ELSE next_label[f]
Append_(f, list) ==
    /\ Len(insns[f]) + Len(list) <= MaxInsns[f]
    /\ insns' = [insns EXCEPT ![f] = @ \o list]

\* jit_function_compile: every branch has a target, else libjit gives up;
\* the builder is freed, with its counter.
Resolved(f) ==
    \A i \in DOMAIN insns[f] : \E j \in DOMAIN insns[f] :
        insns[f][j].kind = "label" /\ insns[f][j].num = insns[f][i].num

jit_function_compile(f) ==
    /\ CanEmit(f) /\ build[f] < MaxBuilds
    /\ Resolved(f)
    /\ insns' = [insns EXCEPT ![f] = <<>>]
    /\ next_label' = [next_label EXCEPT ![f] = 0]
    /\ build' = [build EXCEPT ![f] = @ + 1]
    /\ UNCHANGED <<iv, home, alive>>

-----------------------------------------------------------------------------
(* The wrappers                                                            *)

\* Faulty variant: the C variable starts as jit_label_undefined.
SvIV_undefined(o) == Undefined

\* jit_label_t tmp = (jit_label_t)SvIV((SV *)label)
SvIV(o) == iv[o]

\* Faulty variant: the number libjit gave stays in the C variable.
SvIV_set_forgotten(o, num) == iv

\* SvIV_set((SV *)label, (IV)tmp)
SvIV_set(o, num) == [iv EXCEPT ![o] = num]

jit_label_undefined(o) ==
    /\ alive /\ iv[o] = Unborn
    /\ iv' = [iv EXCEPT ![o] = Undefined]
    /\ UNCHANGED <<next_label, insns, build, home, alive>>

jit_function_reserve_label(f, o) ==
    /\ CanEmit(f) /\ iv[o] = Unborn
    /\ iv' = [iv EXCEPT ![o] = next_label[f]]
    /\ next_label' = [next_label EXCEPT ![f] = @ + 1]
    /\ home' = [home EXCEPT ![o] = {<<f, build[f]>>}]
    /\ UNCHANGED <<insns, build, alive>>

\* jit_insn_label, and the three branches, which differ in their condition
\* only.  A branch on a constant is emitted or not: no step then.
LabelInsn(f, o, kind) ==
    LET tmp == SvIV(o)
    IN  /\ CanEmit(f) /\ iv[o] # Unborn
        /\ Append_(f, <<[kind |-> kind, num |-> Number(f, tmp), id |-> o]>>)
        /\ next_label' = [next_label EXCEPT ![f] = Counter(f, tmp)]
        /\ iv' = SvIV_set(o, Number(f, tmp))
        /\ home' = [home EXCEPT ![o] = IF tmp = Undefined
                                       THEN {<<f, build[f]>>} ELSE @]
        /\ UNCHANGED <<build, alive>>

\* The parameter is a Label, the number that the typemap has read from the
\* object; the code takes it for the scalar and reads memory at that
\* address, which no process maps.
jit_insn_address_of_label(f, o) ==
    /\ CanEmit(f) /\ iv[o] # Unborn
    /\ alive' = FALSE
    /\ UNCHANGED <<iv, next_label, insns, build, home>>

-----------------------------------------------------------------------------
(* The emitters of jitapi.c that branch                                    *)

Local(f, k) == <<f, build[f], Len(insns[f]) + k>>

\* if (PL_sig_pending) PERL_ASYNC_CHECK(): one label
pa_async_check(f) ==
    LET n == next_label[f]
    IN  /\ CanEmit(f)
        /\ Append_(f, <<[kind |-> "branch", num |-> n, id |-> Local(f, 1)],
                        [kind |-> "label", num |-> n, id |-> Local(f, 1)]>>)
        /\ next_label' = [next_label EXCEPT ![f] = n + 1]
        /\ UNCHANGED <<iv, build, home, alive>>

\* nok_nog ? SvNVX(sv) : sv_2nv(sv): is_nok, then end
pa_sv_nv(f) ==
    LET n == next_label[f]
    IN  /\ CanEmit(f)
        /\ Append_(f, <<[kind |-> "branch", num |-> n, id |-> Local(f, 1)],
                        [kind |-> "branch", num |-> n + 1, id |-> Local(f, 2)],
                        [kind |-> "label", num |-> n, id |-> Local(f, 1)],
                        [kind |-> "label", num |-> n + 1, id |-> Local(f, 2)]>>)
        /\ next_label' = [next_label EXCEPT ![f] = n + 2]
        /\ UNCHANGED <<iv, build, home, alive>>

-----------------------------------------------------------------------------

Next ==
    \/ \E o \in Objects : jit_label_undefined(o)
    \/ \E f \in Functions :
        \/ jit_function_compile(f)
        \/ pa_async_check(f)
        \/ pa_sv_nv(f)
        \/ \E o \in Objects :
            \/ jit_function_reserve_label(f, o)
            \/ jit_insn_address_of_label(f, o)
            \/ \E kind \in Kinds : LabelInsn(f, o, kind)

Spec == Init /\ [][Next]_vars

-----------------------------------------------------------------------------

\* Labels are what the wrappers and libjit take them for: objects hold
\* nothing, a number or the undefined label; instructions name numbers.
TypeOK ==
    /\ iv \in [Objects -> Nat \cup {Undefined, Unborn}]
    /\ next_label \in [Functions -> Nat]
    /\ insns \in [Functions -> Seq(Insn)]
    /\ build \in [Functions -> Nat]
    /\ home \in [Objects -> SUBSET (Functions \X Nat)]
    /\ alive \in BOOLEAN

\* A label that got its number in f's present build: one of the emitters,
\* or an object, whether other functions use it as well or not.
Home(id, f) ==
    \/ id \in Locals
    \/ id \in Objects /\ home[id] = {<<f, build[f]>>}

\* Instructions of one function with the same label go to the same place,
\* and those with different labels to different places if both labels got
\* their numbers in this build, whatever other labels are used around them
\* and wherever else these are used (xsp/instruction.xsp:23-53: the number
\* libjit gives on first use is kept in the object; jitapi.c:135-142,287-298).
\* A label with a number from elsewhere keeps it, and it may be the number
\* of any other label of the function.
LabelsAgree ==
    \A f \in Functions : \A i, j \in DOMAIN insns[f] :
        LET x == insns[f][i]
            y == insns[f][j]
        IN  /\ x.id = y.id => x.num = y.num
            /\ Home(x.id, f) /\ Home(y.id, f) /\ x.num = y.num => x.id = y.id

\* Once libjit has given a label its number, no wrapper changes it, so code
\* emitted earlier and code emitted later mean the same place.
LabelStable ==
    [][\A o \in Objects : iv[o] \in Nat => iv'[o] = iv[o]]_vars

\* Taking the address of a label works like its other uses.
AddressOfLabel == alive
=============================================================================

------------------------------- MODULE Apply -------------------------------
(***************************************************************************)
(* jit_function_apply: Perl arguments are converted one after the other    *)
(* into C buffers, the compiled function runs on pointers to them, and its *)
(* result becomes a new scalar.  Reading an argument with magic runs Perl  *)
(* code, which may apply a function again; a type that helpers.cpp does    *)
(* not handle croaks, before or after the function has run.                *)
(*                                                                         *)
(* The function is the one of t/010, x * y + z.  A conversion to jit_int   *)
(* drops the high bits.                                                    *)
(***************************************************************************)
EXTENDS Integers, Sequences, SequencesExt

CONSTANTS
    IntRange,   \* how many integers jit_int has: 2^32
    IVs,        \* integers that arguments hold
    Signatures, \* kinds of the parameters and of the return value
    MaxNest     \* bound: applications inside one another

ASSUME ApplyAssumption ==
    /\ IntRange \in Nat \ {0} /\ IntRange % 2 = 0
    /\ IVs \subseteq Int
    /\ Signatures \subseteq [params : [1..3 -> {"int", "other"}], ret : {"int", "other"}]
    /\ MaxNest \in Nat

VARIABLE calls    \* the applications in progress, outermost first

vars == <<calls>>

Kinds == {"int", "other"}     \* JIT_TYPE_INT, and every other kind
Size  == 3                    \* jit_type_num_params

Wrap(n) == ((n + IntRange \div 2) % IntRange) - IntRange \div 2
jit_int == -(IntRange \div 2)..(IntRange \div 2 - 1)

\* got is a history: what the arguments converted so far held.
Call == [params : [1..Size -> Kinds], ret : Kinds,
         pc : {"convert", "callback", "apply", "to_perl", "return"},
         args_buffer : Seq(jit_int), result : jit_int, got : Seq(IVs)]

Init == calls = <<>>

-----------------------------------------------------------------------------

Top    == Last(calls)
At(pc) == calls # <<>> /\ Top.pc = pc
Set(c) == calls' = [calls EXCEPT ![Len(calls)] = c]

\* pp_entersub of jit_function_apply, called by the program, by Perl code
\* that reading an argument runs, or by Perl code that a function calls.
XS_jit_function_apply(signature) ==
    /\ Len(calls) < MaxNest
    /\ calls # <<>> => Top.pc \in {"callback", "apply"}
    /\ calls' = Append(calls, [params |-> signature.params, ret |-> signature.ret,
                               pc |-> "convert", args_buffer |-> <<>>,
                               result |-> 0, got |-> <<>>])

\* croak: to an eval around any of the applications, which are gone.
Croak == \E d \in 0..(Len(calls) - 1) :
            /\ d > 0 => calls[d].pc \in {"callback", "apply"}
            /\ calls' = SubSeq(calls, 1, d)

\* The parameter to convert next, from sp[i].
I == Len(Top.args_buffer) + 1

\* Faulty variant: the next pointer refers to the first buffer.
Stored_first(buffers, n) == Append(buffers, IF buffers = <<>> THEN n ELSE buffers[1])

Stored(buffers, n) == Append(buffers, n)

Convert(iv) ==
    LET c == [Top EXCEPT !.args_buffer = Stored(@, Wrap(iv)),
                         !.got = Append(@, iv)]
    IN  Set([c EXCEPT !.pc = IF I = Size THEN "apply" ELSE "convert"])

\* Faulty variant: a kind that is not handled is left unconverted.
lj_from_perl_any ==
    /\ At("convert")
    /\ \E iv \in IVs : Convert(iv)

\* sp[i] is read now, and may have been assigned to since the call.  count
\* is not looked at: in place of an argument that was not passed, sp[i] is
\* whatever an earlier call left in that slot of the stack.
lj_from_perl ==
    /\ At("convert")
    /\ IF Top.params[I] # "int" THEN Croak
       ELSE \/ Set([Top EXCEPT !.pc = "callback"])
            \/ \E iv \in IVs : Convert(iv)

CallbackReturns(iv) == At("callback") /\ Convert(iv)
CallbackDies        == At("callback") /\ Croak

\* The compiled function, in the arithmetic of jit_int.
mul_add(a) == Wrap(Wrap(a[1] * a[2]) + a[3])

jit_function_apply ==
    /\ At("apply")
    /\ Set([Top EXCEPT !.result = mul_add(Top.args_buffer), !.pc = "to_perl"])

\* Faulty variant: the result is read as unsigned.
to_iv_unsigned(r) == IF r < 0 THEN r + IntRange ELSE r

to_iv(r) == r

lj_to_perl ==
    /\ At("to_perl")
    /\ IF Top.ret # "int" THEN Croak
       ELSE Set([Top EXCEPT !.result = to_iv(@), !.pc = "return"])

Return == At("return") /\ calls' = Front(calls)

Next ==
    \/ \E signature \in Signatures : XS_jit_function_apply(signature)
    \/ lj_from_perl
    \/ \E iv \in IVs : CallbackReturns(iv)
    \/ CallbackDies
    \/ jit_function_apply
    \/ lj_to_perl
    \/ Return

Spec == Init /\ [][Next]_vars

-----------------------------------------------------------------------------

\* Applications have buffers and results of the width of jit_int.
TypeOK == calls \in Seq(Call) /\ Len(calls) <= MaxNest

\* The value handed back to Perl is x * y + z of the values that this
\* application's own arguments had, modulo the width of jit_int, whatever
\* ran in between (helpers.cpp:47-74, t/010).
ResultRight ==
    \A d \in DOMAIN calls : calls[d].pc = "return" =>
        calls[d].result = Wrap(calls[d].got[1] * calls[d].got[2] + calls[d].got[3])

\* The function runs only when every argument has been converted.
RunsConverted ==
    \A d \in DOMAIN calls : calls[d].pc \in {"apply", "to_perl", "return"} =>
        /\ \A i \in 1..Size : calls[d].params[i] = "int"
        /\ Len(calls[d].got) = Size /\ Len(calls[d].args_buffer) = Size
=============================================================================

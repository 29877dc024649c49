------------------------------ MODULE JitTypes ------------------------------
(***************************************************************************)
(* Numbers on their way from Perl to libjit and from compiled code to the  *)
(* C functions it calls.  src/src/jittypes.h picks, when the extension is  *)
(* compiled, a type of libjit for each C type of perl by its size;         *)
(* src/src/init.cpp makes constants of these types; the signatures that    *)
(* src/author_tools/make_jitapi_wrappers.pl writes say what a native       *)
(* function takes and returns.  A value crosses all three: it has to mean  *)
(* the same number on both sides, on every platform that compiles.         *)
(*                                                                         *)
(* A byte has ByteRange values, few of them in a run so that the ranges    *)
(* stay small.                                                             *)
(***************************************************************************)
EXTENDS Integers, FiniteSets, Sequences

CONSTANTS
    Platforms,      \* sizes of C types; records, see TypesAssumption
    ByteRange,      \* how many values a byte has: 256
    NVs,            \* floating point numbers that the program uses, scaled
    MaxValues       \* bound on the values of the compiled function

CTypes == {"IV", "UV", "NV", "bool", "I32", "pointer"}

\* IV, UV: sizeof(IV); NV, nfloat: the format of floating point numbers
\* (jit_nfloat is long double); nint: sizeof(void *); usethreads: whether
\* PERL_IMPLICIT_CONTEXT is defined.
IsPlatform(p) ==
    /\ p.IV \in {4, 8} /\ p.nint \in {4, 8} /\ p.bool \in {1, 4}
    /\ p.NV \in {"float64", "x87_12", "x87_16", "float128"}
    /\ p.nfloat \in {"float64", "x87_12", "x87_16", "float128"}
    /\ p.usethreads \in BOOLEAN

ASSUME TypesAssumption ==
    /\ \A p \in Platforms : IsPlatform(p)
    /\ ByteRange \in Nat /\ ByteRange >= 4 /\ ByteRange % 2 = 0
    /\ NVs \subseteq Int
    /\ MaxValues \in Nat

FormatSize == [float32 |-> 4, float64 |-> 8, x87_12 |-> 12, x87_16 |-> 16, float128 |-> 16]

----------------------------------------------------------------------------
(* The types of libjit, and the choice of one for a C type                 *)

Floats == {"T_Float", "T_Double", "T_NDouble"}
Unsigned == {"T_UInt", "T_NUInt", "T_ULong", "void_ptr"}

\* The C type of a T_ structure, as the platform represents it.
Format(p, type) ==
    CASE type = "T_Float" -> "float32"
      [] type = "T_Double" -> "float64"
      [] type = "T_NDouble" -> p.nfloat

SizeOf(p, type) ==
    CASE type = "T_Byte" -> 1
      [] type \in {"T_Int", "T_UInt"} -> 4
      [] type \in {"T_NInt", "T_NUInt", "void_ptr"} -> p.nint
      [] type \in {"T_Long", "T_ULong"} -> 8
      [] type \in Floats -> FormatSize[Format(p, type)]

CSize(p, ctype) ==
    CASE ctype \in {"IV", "UV"} -> p.IV
      [] ctype = "NV" -> FormatSize[p.NV]
      [] ctype = "bool" -> p.bool
      [] ctype = "I32" -> 4
      [] ctype = "pointer" -> p.nint

Candidates ==
    [NV |-> <<"T_Float", "T_Double", "T_NDouble">>,
     IV |-> <<"T_Int", "T_NInt", "T_Long">>,
     UV |-> <<"T_UInt", "T_NUInt", "T_ULong">>,
     bool |-> <<"T_Byte", "T_Int", "T_NInt", "T_Long">>]

\* The first candidate of the size of the C type.
JitCheck(p, ctype) ==
    LET list == Candidates[ctype]
        fits == {i \in DOMAIN list : SizeOf(p, list[i]) = CSize(p, ctype)}
    IN  IF fits = {} THEN "T_Fail"
        ELSE list[CHOOSE i \in fits : \A j \in fits : i <= j]

\* The extension compiles: T_Fail has no jit_type().
Compiles(p) == \A ctype \in DOMAIN Candidates : JitCheck(p, ctype) # "T_Fail"

\* Faulty variant: IV is taken for int, like I32.
jit_type_narrow(p, ctype) ==
    CASE ctype \in {"IV", "I32"} -> "T_Int"
      [] ctype \in {"UV", "NV"} -> JitCheck(p, ctype)
      [] ctype = "pointer" -> "void_ptr"

\* The type that make_jitapi_wrappers.pl writes in a signature.
jit_type(p, ctype) ==
    CASE ctype \in {"IV", "UV", "NV"} -> JitCheck(p, ctype)
      [] ctype = "pointer" -> "void_ptr"
      [] ctype = "I32" -> "T_Int"

----------------------------------------------------------------------------
(* Bits                                                                    *)

\* How many numbers an integer of this size has.
Modulus(size) ==
    LET four == ByteRange * ByteRange * ByteRange * ByteRange
    IN  CASE size = 1 -> ByteRange [] size = 4 -> four [] size = 8 -> four * four

WrapTo(size, unsigned, n) ==
    LET m == Modulus(size)
    IN  IF unsigned \/ n % m < m \div 2 THEN n % m ELSE (n % m) - m

\* n stored in memory or a register of size `from`, read with size `to`: the
\* bits above what was stored are anything; they are all clear or all set.
Read(n, from, to, unsigned) ==
    LET low == WrapTo(from, TRUE, n)
        high == Modulus(to) - Modulus(from)
    IN  IF to <= from THEN {WrapTo(to, unsigned, n)}
        ELSE {WrapTo(to, unsigned, low), WrapTo(to, unsigned, low + high)}

\* The number that a conversion to a C type, or to a type of libjit, gives.
CConvert(p, ctype, n) ==
    IF ctype = "NV" THEN n ELSE WrapTo(CSize(p, ctype), ctype \in {"UV", "pointer"}, n)
ConvertTo(p, type, n) ==
    IF type \in Floats THEN n ELSE WrapTo(SizeOf(p, type), type \in Unsigned, n)

\* Numbers at the edges of a C type, and small ones.
Numbers(p, ctype) ==
    IF ctype = "NV" THEN NVs
    ELSE {CConvert(p, ctype, n) : n \in {0, 1, -1} \cup
            {Modulus(size) \div 2 + d : size \in {4, 8}, d \in {-1, 0}}}

\* Passing a number in the type that the signature names, to a function
\* written with the C type (or back): the outcomes.  A floating point number
\* in another format, or in place of an integer, is garbage, written -2.
Transfer(p, type, ctype, n, from, to, unsigned) ==
    IF ctype = "NV" \/ type \in Floats
    THEN IF ctype = "NV" /\ type \in Floats /\ Format(p, type) = p.NV THEN {n} ELSE {-2}
    ELSE Read(n, from, to, unsigned)
Passed(p, type, ctype, n) ==
    Transfer(p, type, ctype, n, SizeOf(p, type), CSize(p, ctype), ctype \in {"UV", "pointer"})
Returned(p, type, ctype, n) ==
    Transfer(p, type, ctype, n, CSize(p, ctype), SizeOf(p, type), type \in Unsigned)

----------------------------------------------------------------------------
VARIABLES
    platform,       \* the platform of this build
    values,         \* values of the compiled function; each remembers the
                    \* number and the C type it stands for
    called          \* the last native call: what the function was given, and
                    \* what it should have been given

JTvars == <<platform, values, called>>

Value == [type : Floats \cup Unsigned \cup {"T_Int", "T_NInt", "T_Long"},
          n : Int, ctype : {"IV", "UV", "NV", "pointer"}, meant : Int]

JTInit ==
    /\ platform \in {p \in Platforms : Compiles(p)}
    /\ values = {}
    /\ called = <<>>

Create(type, n, ctype, meant) ==
    /\ Cardinality(values) < MaxValues
    /\ values' = values \cup {[type |-> type, n |-> n, ctype |-> ctype, meant |-> meant]}

\* The member of jit_constant_t's union that make_constant assigns, by size;
\* libjit reads the member that belongs to the type.
UnionMember(p, type) == IF type = "T_Byte" THEN 4 ELSE SizeOf(p, type)

make_constant(p, type, n) ==
    IF type \in Floats THEN {n}
    ELSE Read(ConvertTo(p, type, n), UnionMember(p, type), SizeOf(p, type), type \in Unsigned)

jit_value_create_constant(ctype) ==
    LET type == JitCheck(platform, ctype)
    IN  /\ \E number \in Numbers(platform, ctype) :
            \E n \in make_constant(platform, type, number) :
                Create(type, n, ctype, number)
        /\ UNCHANGED <<platform, called>>

\* Faulty variant: the address is not cast to a pointer.
jit_value_create_ptr_constant_nocast ==
    /\ \E address \in Numbers(platform, "IV") :
        Create("void_ptr", address, "pointer", address)
    /\ UNCHANGED <<platform, called>>

\* The address comes as an IV, and is cast to a pointer.
jit_value_create_ptr_constant ==
    /\ \E address \in Numbers(platform, "IV") :
        LET ptr == CConvert(platform, "pointer", address)
        IN  Create("void_ptr", ptr, "pointer", ptr)
    /\ UNCHANGED <<platform, called>>

\* Native functions by parameters (after aTHX) and result: those that know
\* pointers only, and those that take or return numbers.
PointerNatives ==
    {[parms |-> <<>>, ret |-> "void"],                     \* pa_pp_enterloop, pa_trap, ...
     [parms |-> <<>>, ret |-> "pointer"],                  \* pa_get_targ, pa_pop_sv, ...
     [parms |-> <<"pointer">>, ret |-> "void"],            \* pa_save_clearsv, pa_push_sv, ...
     [parms |-> <<"pointer">>, ret |-> "pointer"],         \* pa_gv_sv, pa_sv_2mortal, ...
     [parms |-> <<"pointer", "pointer">>, ret |-> "void"]} \* pa_sv_set_sv_nosteal
NumberNatives ==
    {[parms |-> <<"pointer", "I32">>, ret |-> "NV"],       \* pa_sv_2nv_flags
     [parms |-> <<"pointer">>, ret |-> "IV"],              \* pa_sv_iv, pa_sv_true
     [parms |-> <<"pointer">>, ret |-> "UV"],              \* pa_sv_uv
     [parms |-> <<"NV">>, ret |-> "pointer"],              \* pa_new_sv_nv
     [parms |-> <<"IV">>, ret |-> "pointer"],              \* pa_new_sv_iv
     [parms |-> <<"UV">>, ret |-> "pointer"],              \* pa_new_sv_uv
     [parms |-> <<"pointer", "IV">>, ret |-> "pointer"],   \* pa_av_fetch, pa_av_fetch_lvalue
     [parms |-> <<"pointer", "IV">>, ret |-> "void"],      \* pa_sv_set_iv
     [parms |-> <<"pointer", "NV">>, ret |-> "void"]}      \* pa_sv_set_nv

\* jit_tTHX_ and jit_aTHX_: the first parameter of a threaded perl.
THX(x) == IF platform.usethreads THEN <<x>> ELSE <<>>
my_perl == [type |-> "void_ptr", n |-> 0, ctype |-> "pointer", meant |-> 0]

\* A value can stand for a C type if the program may convert it: a floating
\* point number out of the range of an integer type has no meaning in it.
Suits(value, ctype) ==
    /\ (value.ctype = "pointer") = (ctype = "pointer")
    /\ value.ctype = "NV" => CConvert(platform, ctype, value.meant) = value.meant

\* jit_insn_call_native: each argument is converted to the type in the
\* signature, the function reads its parameters as C declares them, in order.
jit_insn_call_native(native) ==
    LET parms == THX("pointer") \o native.parms
        sig == THX("void_ptr") \o
                [i \in DOMAIN native.parms |-> jit_type(platform, native.parms[i])]
    IN  \E given \in [DOMAIN native.parms -> values \cup {my_perl}] :
            LET args == THX(my_perl) \o given
                Given(i) == Passed(platform, sig[i], parms[i], ConvertTo(platform, sig[i], args[i].n))
            IN  /\ \A i \in DOMAIN given : Suits(given[i], native.parms[i])
                /\ \E got \in [DOMAIN args -> UNION {Given(i) : i \in DOMAIN args}] :
                    /\ \A i \in DOMAIN args : got[i] \in Given(i)
                    /\ called' = <<[got |-> got,
                                    meant |-> [i \in DOMAIN args |->
                                        CConvert(platform, parms[i], args[i].meant)]]>>
                /\ IF native.ret = "void" THEN UNCHANGED values
                   ELSE \E result \in Numbers(platform, native.ret) :
                        LET type == jit_type(platform, native.ret)
                        IN  \E n \in Returned(platform, type, native.ret, result) :
                                Create(type, n, native.ret, result)
                /\ UNCHANGED platform

JTNext ==
    \/ \E ctype \in {"IV", "UV", "NV"} : jit_value_create_constant(ctype)
    \/ jit_value_create_ptr_constant
    \/ \E native \in PointerNatives \cup NumberNatives : jit_insn_call_native(native)

JTSpec == JTInit /\ [][JTNext]_JTvars

----------------------------------------------------------------------------
\* Type invariant; a value is in the range of its type.
JTTypeOK ==
    /\ platform \in Platforms
    /\ values \subseteq Value
    /\ \A value \in values : ConvertTo(platform, value.type, value.n) = value.n
    /\ Len(called) <= 1

\* A native function receives in each parameter the number that the program
\* meant, wherever it came from (a constant of Perl, or the result of another
\* native function): the types that jittypes.h picked, the members of the
\* union and the signatures agree with C.
CalleeGets == called # <<>> => called[1].got = called[1].meant

\* What the check of sizes takes for granted: floating point formats of the
\* same size are the same (in a perl with __float128 numbers they are not).
SizeTellsFormat ==
    \A p \in Platforms : FormatSize[p.NV] = FormatSize[p.nfloat] => p.NV = p.nfloat
=============================================================================

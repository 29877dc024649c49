--------------------------- MODULE Numbers_proofs ---------------------------
(***************************************************************************)
(* Proofs about the numbers that cross between Perl and compiled code.     *)
(*                                                                         *)
(* Apply, for any width of jit_int, any arguments and any nesting: an      *)
(* application runs on its own arguments, all converted, and its result is *)
(* the one of the arithmetic of jit_int.                                   *)
(*                                                                         *)
(* JitTypes, for any build of perl that compiles: values are in the range  *)
(* of their types, and native functions receive the numbers that were      *)
(* meant if sizes tell floating point formats apart.                       *)
(***************************************************************************)
EXTENDS Apply, JitTypes, TLAPS

-----------------------------------------------------------------------------
(* Modular arithmetic.                                                     *)

(* A quotient and a remainder are the only ones.                           *)
LEMMA DivisionUnique ==
  ASSUME NEW m \in Nat \ {0}, NEW q \in Int, NEW p \in Int,
         NEW r \in 0..m - 1, NEW t \in 0..m - 1, m * q + r = m * p + t
  PROVE  r = t
<1>1. m * (q - p) = t - r
  OBVIOUS
<1>2. CASE q - p >= 1
  <2>1. m * (q - p) >= m
    BY <1>2
  <2> QED
    BY <1>1, <2>1
<1>3. CASE q - p <= -1
  <2>1. m * (q - p) <= -m
    BY <1>3
  <2> QED
    BY <1>1, <2>1
<1>4. CASE q = p
  BY <1>1, <1>4
<1> QED
  BY <1>2, <1>3, <1>4

LEMMA Division ==
  ASSUME NEW n \in Int, NEW m \in Nat \ {0}
  PROVE  n % m \in 0..m - 1 /\ n \div m \in Int /\ n = m * (n \div m) + (n % m)
OBVIOUS

(* Multiples of the modulus do not matter.                                 *)
LEMMA ModShift ==
  ASSUME NEW n \in Int, NEW m \in Nat \ {0}, NEW k \in Int
  PROVE  (n + k * m) % m = n % m
<1> DEFINE q == n \div m  r == n % m
           p == (n + k * m) \div m  t == (n + k * m) % m
<1>1. n + k * m \in Int
  OBVIOUS
<1>2. r \in 0..m - 1 /\ q \in Int /\ n = m * q + r
  BY Division
<1>3. t \in 0..m - 1 /\ p \in Int /\ n + k * m = m * p + t
  BY <1>1, Division
<1> HIDE DEF q, r, p, t
<1>4. m * (q + k) + r = m * p + t /\ q + k \in Int
  BY <1>2, <1>3
<1>5. r = t
  BY <1>2, <1>3, <1>4, DivisionUnique
<1> QED
  BY <1>5 DEF r, t

(* A number that is wrapped is in range, and differs from the number by a  *)
(* multiple of the range.                                                  *)
LEMMA WrapOff ==
  ASSUME NEW n \in Int
  PROVE  Wrap(n) \in jit_int /\ \E k \in Int : Wrap(n) = n + k * IntRange
<1> DEFINE h == IntRange \div 2  x == n + h
<1>1. IntRange \in Nat \ {0} /\ IntRange % 2 = 0
  BY ApplyAssumption
<1>2. h \in Int /\ IntRange = 2 * h
  <2>1. IntRange \in Int /\ 2 \in Nat \ {0}
    BY <1>1
  <2>2. IntRange = 2 * (IntRange \div 2) + (IntRange % 2) /\ IntRange \div 2 \in Int
    BY <2>1, Division
  <2> QED
    BY <1>1, <2>2
<1> HIDE DEF h
<1>3. x \in Int
  BY <1>2
<1>4. /\ x % IntRange \in 0..IntRange - 1 /\ x \div IntRange \in Int
      /\ x = IntRange * (x \div IntRange) + (x % IntRange)
  BY <1>1, <1>3, Division
<1>5. Wrap(n) = (x % IntRange) - h
  BY DEF Wrap, h
<1> HIDE DEF x
<1>6. (x % IntRange) - h \in -h..h - 1
  BY <1>2, <1>4
<1>7. Wrap(n) \in jit_int
  BY <1>5, <1>6 DEF jit_int, h
<1>8. PICK k \in Int : k = -(x \div IntRange)
  BY <1>4
<1>9. x % IntRange = x + k * IntRange
  BY <1>1, <1>3, <1>4, <1>8
<1>10. Wrap(n) = n + k * IntRange
  BY <1>1, <1>2, <1>5, <1>8, <1>9 DEF x
<1> QED
  BY <1>7, <1>10

LEMMA WrapShift ==
  ASSUME NEW n \in Int, NEW k \in Int
  PROVE  Wrap(n + k * IntRange) = Wrap(n)
<1> DEFINE h == IntRange \div 2
<1>1. IntRange \in Nat \ {0} /\ h \in Int
  BY ApplyAssumption
<1> HIDE DEF h
<1>2. n + h \in Int /\ (n + h) + k * IntRange = (n + k * IntRange) + h
  BY <1>1
<1>3. ((n + h) + k * IntRange) % IntRange = (n + h) % IntRange
  BY <1>1, <1>2, ModShift
<1> QED
  BY <1>2, <1>3 DEF Wrap, h

(* The arithmetic of jit_int on numbers that were wrapped, each step of it *)
(* wrapped, is integer arithmetic wrapped once.                            *)
LEMMA WrapMulAdd ==
  ASSUME NEW a \in Int, NEW b \in Int, NEW c \in Int
  PROVE  Wrap(Wrap(Wrap(a) * Wrap(b)) + Wrap(c)) = Wrap(a * b + c)
<1>0. IntRange \in Int
  BY ApplyAssumption
<1>1. PICK i \in Int : Wrap(a) = a + i * IntRange
  BY WrapOff
<1>2. PICK j \in Int : Wrap(b) = b + j * IntRange
  BY WrapOff
<1>3. PICK k \in Int : Wrap(c) = c + k * IntRange
  BY WrapOff
<1>4. Wrap(a) * Wrap(b) \in Int
  BY <1>0, <1>1, <1>2
<1>5. PICK l \in Int : Wrap(Wrap(a) * Wrap(b)) = Wrap(a) * Wrap(b) + l * IntRange
  BY <1>4, WrapOff
<1>6. PICK x \in Int : x = a * j + i * b + i * (j * IntRange) + l + k
  BY <1>0
<1>7. Wrap(a) * Wrap(b) = a * b + (a * j + i * b + i * (j * IntRange)) * IntRange
  BY <1>0, <1>1, <1>2
<1>8. Wrap(Wrap(a) * Wrap(b)) + Wrap(c) = (a * b + c) + x * IntRange
  BY <1>0, <1>3, <1>5, <1>6, <1>7
<1>9. a * b + c \in Int
  OBVIOUS
<1> QED
  BY <1>8, <1>9, WrapShift

-----------------------------------------------------------------------------
(* The inductive invariant: an application at a time.                      *)

CallOK(c) ==
  /\ Len(c.args_buffer) = Len(c.got) /\ Len(c.got) <= Size
  /\ \A k \in 1..Len(c.got) :
       c.args_buffer[k] = Wrap(c.got[k]) /\ c.params[k] = "int"
  /\ c.pc = "convert" => Len(c.got) < Size
  /\ c.pc = "callback" => Len(c.got) < Size /\ c.params[Len(c.got) + 1] = "int"
  /\ c.pc \in {"apply", "to_perl", "return"} => Len(c.got) = Size
  /\ c.pc \in {"to_perl", "return"} => c.result = mul_add(c.args_buffer)

IInv ==
  /\ calls \in Seq(Call) /\ Len(calls) <= MaxNest
  /\ \A d \in 1..Len(calls) : CallOK(calls[d])

LEMMA InvTypeOK == IInv => TypeOK
BY DEF IInv, TypeOK

LEMMA InvRunsConverted == IInv => RunsConverted
<1> SUFFICES ASSUME IInv, NEW d \in DOMAIN calls,
                    calls[d].pc \in {"apply", "to_perl", "return"}
             PROVE  /\ \A i \in 1..Size : calls[d].params[i] = "int"
                    /\ Len(calls[d].got) = Size /\ Len(calls[d].args_buffer) = Size
  BY DEF RunsConverted
<1>1. CallOK(calls[d])
  BY DEF IInv
<1> QED
  BY <1>1 DEF CallOK

LEMMA InvResultRight == IInv => ResultRight
<1> SUFFICES ASSUME IInv, NEW d \in DOMAIN calls, calls[d].pc = "return"
             PROVE  calls[d].result =
                      Wrap(calls[d].got[1] * calls[d].got[2] + calls[d].got[3])
  BY DEF ResultRight
<1> DEFINE c == calls[d]
<1>1. c \in Call /\ CallOK(c)
  BY DEF IInv
<1> HIDE DEF c
<1>2. /\ Len(c.got) = 3 /\ c.result = mul_add(c.args_buffer)
      /\ c.args_buffer[1] = Wrap(c.got[1]) /\ c.args_buffer[2] = Wrap(c.got[2])
      /\ c.args_buffer[3] = Wrap(c.got[3])
  BY <1>1 DEF CallOK, Size, c
<1>3. c.got \in Seq(IVs)
  BY <1>1 DEF Call
<1>4. c.got[1] \in IVs /\ c.got[2] \in IVs /\ c.got[3] \in IVs
  BY <1>2, <1>3
<1>5. c.got[1] \in Int /\ c.got[2] \in Int /\ c.got[3] \in Int
  BY <1>4, ApplyAssumption
<1>6. c.result = Wrap(Wrap(Wrap(c.got[1]) * Wrap(c.got[2])) + Wrap(c.got[3]))
  BY <1>2 DEF mul_add
<1>7. c.result = Wrap(c.got[1] * c.got[2] + c.got[3])
  BY <1>5, <1>6, WrapMulAdd
<1> QED
  BY <1>7 DEF c

-----------------------------------------------------------------------------
(* What a step does to the applications in progress.                       *)

(* The innermost one changes.                                              *)
LEMMA SetInv ==
  ASSUME IInv, calls # << >>, NEW c \in Call, CallOK(c), Set(c)
  PROVE  IInv'
<1>1. /\ calls \in Seq(Call) /\ Len(calls) \in 1..Len(calls)
      /\ calls' = [calls EXCEPT ![Len(calls)] = c]
  BY DEF IInv, Set
<1>2. calls' \in Seq(Call) /\ Len(calls') = Len(calls)
  BY <1>1
<1>3. ASSUME NEW d \in 1..Len(calls) PROVE CallOK(calls'[d])
  BY <1>1 DEF IInv
<1> QED
  BY <1>2, <1>3 DEF IInv

(* Some of the innermost ones end.                                         *)
LEMMA CutInv ==
  ASSUME IInv, NEW d \in 0..Len(calls), calls' = SubSeq(calls, 1, d)
  PROVE  IInv'
<1>1. calls \in Seq(Call)
  BY DEF IInv
<1>2. /\ calls' \in Seq(Call) /\ Len(calls') = d
      /\ \A n \in 1..d : calls'[n] = calls[n]
  BY <1>1
<1> QED
  BY <1>1, <1>2, ApplyAssumption DEF IInv

LEMMA TopFacts ==
  ASSUME IInv, calls # << >>
  PROVE  Top \in Call /\ CallOK(Top) /\ Len(calls) \in Nat \ {0}
<1>1. calls \in Seq(Call) /\ Len(calls) \in 1..Len(calls)
  BY DEF IInv
<1> QED
  BY <1>1 DEF IInv, Top, Last

LEMMA CroakInv ==
  ASSUME IInv, calls # << >>, Croak
  PROVE  IInv'
<1>1. PICK d \in 0..Len(calls) - 1 : calls' = SubSeq(calls, 1, d)
  BY DEF Croak
<1>2. d \in 0..Len(calls)
  BY TopFacts
<1> QED
  BY <1>1, <1>2, CutInv

LEMMA BeginInv ==
  ASSUME IInv, NEW signature \in Signatures, XS_jit_function_apply(signature)
  PROVE  IInv'
<1> DEFINE c == [params |-> signature.params, ret |-> signature.ret,
                 pc |-> "convert", args_buffer |-> << >>, result |-> 0,
                 got |-> << >>]
<1>1. Len(calls) < MaxNest /\ calls' = Append(calls, c)
  BY DEF XS_jit_function_apply
<1>2. signature.params \in [1..Size -> Kinds] /\ signature.ret \in Kinds
  BY ApplyAssumption DEF Size, Kinds
<1>3. 0 \in jit_int
  <2>1. IntRange \in Nat \ {0} /\ IntRange % 2 = 0
    BY ApplyAssumption
  <2>2. IntRange \div 2 \in Int /\ IntRange \div 2 > 0
    BY <2>1
  <2> QED
    BY <2>2 DEF jit_int
<1>4. c \in Call
  BY <1>2, <1>3 DEF Call
<1>5. CallOK(c)
  BY DEF CallOK, Size
<1> HIDE DEF c
<1>6. /\ calls \in Seq(Call) /\ calls' \in Seq(Call)
      /\ Len(calls') = Len(calls) + 1
      /\ \A d \in 1..Len(calls) : calls'[d] = calls[d]
      /\ calls'[Len(calls) + 1] = c
  BY <1>1, <1>4 DEF IInv
<1>7. ASSUME NEW d \in 1..Len(calls) + 1 PROVE CallOK(calls'[d])
  BY <1>5, <1>6, <1>7 DEF IInv
<1> QED
  BY <1>1, <1>6, <1>7, ApplyAssumption DEF IInv

(* An argument is converted into the next buffer.                          *)
LEMMA ConvertInv ==
  ASSUME IInv, calls # << >>, Top.pc \in {"convert", "callback"},
         Top.params[I] = "int", NEW iv \in IVs, Convert(iv)
  PROVE  IInv'
<1>1. Top \in Call /\ CallOK(Top)
  BY TopFacts
<1>2. PICK c : c = [[Top EXCEPT !.args_buffer = Append(@, Wrap(iv)),
                                !.got = Append(@, iv)]
                     EXCEPT !.pc = IF I = Size THEN "apply" ELSE "convert"]
  OBVIOUS
<1>3. Set(c)
  BY <1>2 DEF Convert, Stored
<1>4. /\ Top.args_buffer \in Seq(jit_int) /\ Top.got \in Seq(IVs)
      /\ Len(Top.got) \in Nat /\ Len(Top.args_buffer) = Len(Top.got)
      /\ Len(Top.got) < Size
      /\ I = Len(Top.got) + 1
  BY <1>1 DEF Call, CallOK, I
<1>5. iv \in Int /\ Wrap(iv) \in jit_int
  BY ApplyAssumption, WrapOff
<1>6. /\ c.params = Top.params /\ c.ret = Top.ret /\ c.result = Top.result
      /\ c.args_buffer = Append(Top.args_buffer, Wrap(iv))
      /\ c.got = Append(Top.got, iv)
      /\ c.pc = IF I = Size THEN "apply" ELSE "convert"
  BY <1>1, <1>2 DEF Call
<1>7. c \in Call
  <2>1. Append(Top.args_buffer, Wrap(iv)) \in Seq(jit_int)
    BY <1>4, <1>5
  <2>2. Append(Top.got, iv) \in Seq(IVs)
    BY <1>4
  <2>3. [Top EXCEPT !.args_buffer = Append(@, Wrap(iv)), !.got = Append(@, iv)]
          \in Call
    BY <1>1, <2>1, <2>2 DEF Call
  <2> QED
    BY <1>2, <2>3 DEF Call
<1>8. CallOK(c)
  <2>1. Len(c.got) = I /\ Len(c.args_buffer) = I /\ I <= Size /\ I \in Nat
    BY <1>4, <1>6 DEF Size
  <2>2. \A k \in 1..I : c.args_buffer[k] = Wrap(c.got[k]) /\ c.params[k] = "int"
    BY <1>1, <1>4, <1>6 DEF CallOK
  <2>3. (c.pc = "apply" /\ I = Size) \/ (c.pc = "convert" /\ I < Size)
    BY <1>6, <2>1 DEF Size
  <2> QED
    BY <2>1, <2>2, <2>3 DEF CallOK
<1> QED
  BY <1>3, <1>7, <1>8, SetInv

LEMMA FromPerlInv == IInv /\ lj_from_perl => IInv'
<1> SUFFICES ASSUME IInv, lj_from_perl PROVE IInv'
  OBVIOUS
<1>1. calls # << >> /\ Top.pc = "convert"
  BY DEF lj_from_perl, At
<1>2. Top \in Call /\ CallOK(Top)
  BY <1>1, TopFacts
<1>3. CASE Top.params[I] # "int"
  BY <1>1, <1>3, CroakInv DEF lj_from_perl
<1>4. CASE Top.params[I] = "int" /\ \E iv \in IVs : Convert(iv)
  BY <1>1, <1>4, ConvertInv
<1>5. CASE Top.params[I] = "int" /\ Set([Top EXCEPT !.pc = "callback"])
  <2>1. PICK c : c = [Top EXCEPT !.pc = "callback"]
    OBVIOUS
  <2>2. /\ c \in Call /\ c.pc = "callback" /\ c.params = Top.params
        /\ c.args_buffer = Top.args_buffer /\ c.got = Top.got
    BY <1>2, <2>1 DEF Call
  <2>3. CallOK(c)
    BY <1>1, <1>2, <1>5, <2>2 DEF CallOK, I
  <2> QED
    BY <1>1, <1>5, <2>1, <2>2, <2>3, SetInv
<1> QED
  BY <1>3, <1>4, <1>5 DEF lj_from_perl

LEMMA CallbackInv ==
  ASSUME IInv, NEW iv \in IVs, CallbackReturns(iv)
  PROVE  IInv'
<1>1. calls # << >> /\ Top.pc = "callback" /\ Convert(iv)
  BY DEF CallbackReturns, At
<1>2. Top.params[I] = "int"
  BY <1>1, TopFacts DEF CallOK, I
<1> QED
  BY <1>1, <1>2, ConvertInv

LEMMA RunInv == IInv /\ jit_function_apply => IInv'
<1> SUFFICES ASSUME IInv, jit_function_apply PROVE IInv'
  OBVIOUS
<1>1. PICK c : c = [Top EXCEPT !.result = mul_add(Top.args_buffer), !.pc = "to_perl"]
  OBVIOUS
<1>2. calls # << >> /\ Top.pc = "apply" /\ Set(c)
  BY <1>1 DEF jit_function_apply, At
<1>3. Top \in Call /\ CallOK(Top)
  BY <1>2, TopFacts
<1>4. mul_add(Top.args_buffer) \in jit_int
  <2> DEFINE a == Top.args_buffer
  <2>1. a \in Seq(jit_int) /\ Len(a) = 3
    BY <1>2, <1>3 DEF Call, CallOK, Size
  <2>2. jit_int \subseteq Int
    BY DEF jit_int
  <2> HIDE DEF a
  <2>3. a[1] \in Int /\ a[2] \in Int /\ a[3] \in Int
    <3>1. a[1] \in jit_int /\ a[2] \in jit_int /\ a[3] \in jit_int
      BY <2>1
    <3> QED
      BY <2>2, <3>1
  <2>4. a[1] * a[2] \in Int
    BY <2>3
  <2>5. Wrap(a[1] * a[2]) \in Int
    BY <2>2, <2>4, WrapOff
  <2>6. Wrap(a[1] * a[2]) + a[3] \in Int
    BY <2>3, <2>5
  <2> QED
    BY <2>6, WrapOff DEF mul_add, a
<1>5. c \in Call
  BY <1>1, <1>3, <1>4 DEF Call
<1>6. /\ c.result = mul_add(Top.args_buffer) /\ c.pc = "to_perl"
      /\ c.params = Top.params /\ c.args_buffer = Top.args_buffer
      /\ c.got = Top.got
  BY <1>1, <1>3 DEF Call
<1>7. CallOK(c)
  BY <1>2, <1>3, <1>6 DEF CallOK
<1> QED
  BY <1>2, <1>5, <1>7, SetInv

LEMMA ToPerlInv == IInv /\ lj_to_perl => IInv'
<1> SUFFICES ASSUME IInv, lj_to_perl PROVE IInv'
  OBVIOUS
<1>1. calls # << >> /\ Top.pc = "to_perl"
  BY DEF lj_to_perl, At
<1>2. Top \in Call /\ CallOK(Top)
  BY <1>1, TopFacts
<1>3. CASE Top.ret # "int"
  BY <1>1, <1>3, CroakInv DEF lj_to_perl
<1>4. CASE Top.ret = "int"
  <2>1. PICK c : c = [Top EXCEPT !.result = Top.result, !.pc = "return"]
    OBVIOUS
  <2>2. Set(c)
    BY <1>4, <2>1 DEF lj_to_perl, to_iv
  <2>3. /\ c \in Call /\ c.pc = "return" /\ c.params = Top.params
        /\ c.args_buffer = Top.args_buffer /\ c.got = Top.got
        /\ c.result = Top.result
    BY <1>2, <2>1 DEF Call
  <2>4. CallOK(c)
    BY <1>1, <1>2, <2>3 DEF CallOK
  <2> QED
    BY <1>1, <2>2, <2>3, <2>4, SetInv
<1> QED
  BY <1>3, <1>4

LEMMA ReturnInv == IInv /\ Return => IInv'
<1> SUFFICES ASSUME IInv, Return PROVE IInv'
  OBVIOUS
<1>1. calls # << >> /\ calls' = SubSeq(calls, 1, Len(calls) - 1)
  BY DEF Return, At, Front
<1>2. Len(calls) - 1 \in 0..Len(calls)
  BY <1>1, TopFacts
<1> QED
  BY <1>1, <1>2, CutInv

LEMMA InitInv == Init => IInv
BY ApplyAssumption DEF Init, IInv

LEMMA StepInv == IInv /\ [Next]_vars => IInv'
<1> SUFFICES ASSUME IInv, [Next]_vars PROVE IInv'
  OBVIOUS
<1>1. CASE UNCHANGED vars
  BY <1>1 DEF vars, IInv
<1>2. ASSUME NEW signature \in Signatures, XS_jit_function_apply(signature)
      PROVE  IInv'
  BY <1>2, BeginInv
<1>3. ASSUME NEW iv \in IVs, CallbackReturns(iv) PROVE IInv'
  BY <1>3, CallbackInv
<1>4. CASE CallbackDies
  BY <1>4, CroakInv DEF CallbackDies, At
<1> QED
  BY <1>1, <1>2, <1>3, <1>4, FromPerlInv, RunInv, ToPerlInv, ReturnInv DEF Next

-----------------------------------------------------------------------------
(* The inductive invariant holds in every reachable state.                 *)
THEOREM Invariant == Spec => []IInv
BY InitInv, StepInv, PTL DEF Spec

(* Buffers and results have the width of jit_int.                          *)
THEOREM TypeCorrect == Spec => []TypeOK
BY InvTypeOK, Invariant, PTL

(* Whatever runs while the arguments are read, the result of an            *)
(* application is the one of its own arguments, modulo the range of the    *)
(* integer type.                                                           *)
THEOREM ResultOfArguments == Spec => []ResultRight
BY InvResultRight, Invariant, PTL

(* No function runs on a buffer that was not converted.                    *)
THEOREM AllConverted == Spec => []RunsConverted
BY InvRunsConverted, Invariant, PTL

-----------------------------------------------------------------------------
(* The types of numbers.  Wrapping at a width again changes nothing.       *)
LEMMA ModulusTyped ==
  ASSUME NEW size \in {1, 4, 8}
  PROVE  Modulus(size) \in Nat \ {0}
<1>1. PICK b \in Nat \ {0} : b = ByteRange
  BY TypesAssumption
<1>2. PICK m \in Nat \ {0} : m = b * b * b * b
  <2>1. \A x \in Nat \ {0}, y \in Nat \ {0} : x * y \in Nat \ {0}
    OBVIOUS
  <2>2. b * b \in Nat \ {0}
    BY <2>1
  <2>3. b * b * b \in Nat \ {0}
    BY <2>1, <2>2
  <2>4. b * b * b * b \in Nat \ {0}
    BY <2>1, <2>3
  <2> QED
    BY <2>4
<1>3. m * m \in Nat \ {0}
  OBVIOUS
<1> QED
  BY <1>1, <1>2, <1>3 DEF Modulus

LEMMA ModOfRest ==
  ASSUME NEW m \in Nat \ {0}, NEW r \in 0..m - 1
  PROVE  r % m = r
<1>1. r \in Int
  OBVIOUS
<1>2. r % m \in 0..m - 1 /\ r \div m \in Int /\ r = m * (r \div m) + (r % m)
  BY <1>1, Division
<1>3. m * 0 + r = r
  OBVIOUS
<1> QED
  BY <1>2, <1>3, DivisionUnique

LEMMA WrapTwice ==
  ASSUME NEW size \in {1, 4, 8}, NEW u \in BOOLEAN, NEW v \in BOOLEAN,
         NEW n \in Int
  PROVE  /\ WrapTo(size, v, n) \in Int
         /\ WrapTo(size, u, WrapTo(size, v, n)) = WrapTo(size, u, n)
<1>1. PICK m \in Nat \ {0} : m = Modulus(size)
  BY ModulusTyped
<1>2. PICK r \in 0..m - 1 : r = n % m
  BY Division
<1>3. PICK w : w = WrapTo(size, v, n)
  OBVIOUS
<1> PICK k \in Int : k = -1
  OBVIOUS
<1>4. w = r \/ w = r + k * m
  <2>1. w = r \/ w = r - m
    BY <1>1, <1>2, <1>3 DEF WrapTo
  <2>2. k * m = -m
    OBVIOUS
  <2> QED
    BY <2>1, <2>2
<1>5. r \in Int /\ w \in Int
  BY <1>4
<1>6. w % m = r
  <2>1. r % m = r
    BY ModOfRest
  <2>2. (r + k * m) % m = r % m
    BY <1>5, ModShift, Zenon
  <2> QED
    BY <1>4, <2>1, <2>2
<1>7. WrapTo(size, u, w) = WrapTo(size, u, n)
  BY <1>1, <1>2, <1>6 DEF WrapTo
<1> QED
  BY <1>3, <1>5, <1>7

LEMMA ReadSame ==
  ASSUME NEW size \in {4, 8}, NEW u \in BOOLEAN, NEW n \in Int
  PROVE  /\ Read(n, size, size, u) = {WrapTo(size, u, n)}
         /\ Read(WrapTo(size, u, n), size, size, u) = {WrapTo(size, u, n)}
<1>1. size <= size
  OBVIOUS
<1>2. WrapTo(size, u, WrapTo(size, u, n)) = WrapTo(size, u, n)
  BY WrapTwice
<1> QED
  BY <1>1, <1>2 DEF Read

-----------------------------------------------------------------------------
(* The types that jittypes.h picks.                                        *)
LEMMA Least ==
  ASSUME NEW S \in SUBSET (1..4), S # {}
  PROVE  (CHOOSE i \in S : \A j \in S : i <= j) \in S
<1>1. \E i \in S : \A j \in S : i <= j
  <2>1. CASE 1 \in S
    BY <2>1
  <2>2. CASE 1 \notin S /\ 2 \in S
    BY <2>2
  <2>3. CASE 1 \notin S /\ 2 \notin S /\ 3 \in S
    BY <2>3
  <2>4. CASE 1 \notin S /\ 2 \notin S /\ 3 \notin S
    <3>1. PICK k \in S : TRUE
      OBVIOUS
    <3>2. \A i \in S : k <= i
      BY <2>4
    <3> QED
      BY <3>2
  <2> QED
    BY <2>1, <2>2, <2>3, <2>4
<1> QED
  BY <1>1

LEMMA Fitting ==
  ASSUME NEW p, NEW c \in {"NV", "IV", "UV", "bool"}, JitCheck(p, c) # "T_Fail"
  PROVE  \E i \in DOMAIN Candidates[c] :
           /\ JitCheck(p, c) = Candidates[c][i]
           /\ SizeOf(p, Candidates[c][i]) = CSize(p, c)
<1>1. PICK q : q = Candidates[c]
  OBVIOUS
<1>2. PICK S : S = {i \in DOMAIN q : SizeOf(p, q[i]) = CSize(p, c)}
  OBVIOUS
<1>3. DOMAIN q \subseteq 1..4
  BY <1>1 DEF Candidates
<1>4. JitCheck(p, c) = IF S = {} THEN "T_Fail" ELSE q[CHOOSE i \in S : \A j \in S : i <= j]
  BY <1>1, <1>2 DEF JitCheck
<1>5. S # {} /\ S \in SUBSET (1..4)
  BY <1>2, <1>3, <1>4
<1>6. (CHOOSE i \in S : \A j \in S : i <= j) \in S
  BY <1>5, Least
<1>7. PICK i \in S : i = CHOOSE k \in S : \A j \in S : k <= j
  BY <1>6
<1>8. JitCheck(p, c) = q[i]
  BY <1>4, <1>5, <1>7
<1>9. i \in DOMAIN q /\ SizeOf(p, q[i]) = CSize(p, c)
  BY <1>2
<1> QED
  BY <1>1, <1>8, <1>9

(* The C types that parameters and results of native functions have.       *)
Parms == {"IV", "UV", "NV", "I32", "pointer"}

\* A type of libjit that holds the integers of a C type.
HoldsInteger(p, type, ctype) ==
  /\ type \notin Floats /\ type # "T_Byte"
  /\ type \in Unsigned <=> ctype \in {"UV", "pointer"}
  /\ SizeOf(p, type) \in {4, 8} /\ SizeOf(p, type) = CSize(p, ctype)

LEMMA IntegersFit ==
  ASSUME NEW p, IsPlatform(p), Compiles(p), NEW c \in Parms \ {"NV"}
  PROVE  HoldsInteger(p, jit_type(p, c), c)
<1>1. p.IV \in {4, 8} /\ p.nint \in {4, 8}
  BY DEF IsPlatform
<1>2. CASE c = "IV"
  <2>1. JitCheck(p, "IV") # "T_Fail"
    BY DEF Compiles, Candidates
  <2>2. PICK i \in 1..3 :
          /\ JitCheck(p, "IV") = << "T_Int", "T_NInt", "T_Long" >>[i]
          /\ SizeOf(p, << "T_Int", "T_NInt", "T_Long" >>[i]) = CSize(p, "IV")
    BY <2>1, Fitting DEF Candidates
  <2>3. JitCheck(p, "IV") \in {"T_Int", "T_NInt", "T_Long"}
    BY <2>2
  <2> QED
    BY <1>1, <1>2, <2>2, <2>3 DEF HoldsInteger, jit_type, Floats, Unsigned, CSize
<1>3. CASE c = "UV"
  <2>1. JitCheck(p, "UV") # "T_Fail"
    BY DEF Compiles, Candidates
  <2>2. PICK i \in 1..3 :
          /\ JitCheck(p, "UV") = << "T_UInt", "T_NUInt", "T_ULong" >>[i]
          /\ SizeOf(p, << "T_UInt", "T_NUInt", "T_ULong" >>[i]) = CSize(p, "UV")
    BY <2>1, Fitting DEF Candidates
  <2>3. JitCheck(p, "UV") \in {"T_UInt", "T_NUInt", "T_ULong"}
    BY <2>2
  <2> QED
    BY <1>1, <1>3, <2>2, <2>3 DEF HoldsInteger, jit_type, Floats, Unsigned, CSize
<1>4. CASE c = "I32"
  BY <1>4 DEF HoldsInteger, jit_type, Floats, Unsigned, CSize, SizeOf
<1>5. CASE c = "pointer"
  BY <1>1, <1>5 DEF HoldsInteger, jit_type, Floats, Unsigned, CSize, SizeOf
<1> QED
  BY <1>2, <1>3, <1>4, <1>5 DEF Parms

LEMMA FloatsFit ==
  ASSUME NEW p \in Platforms, Compiles(p)
  PROVE  /\ jit_type(p, "NV") \in Floats
         /\ SizeTellsFormat => Format(p, jit_type(p, "NV")) = p.NV
<1>1. JitCheck(p, "NV") # "T_Fail"
  BY DEF Compiles, Candidates
<1>2. PICK i \in 1..3 :
        /\ JitCheck(p, "NV") = << "T_Float", "T_Double", "T_NDouble" >>[i]
        /\ SizeOf(p, << "T_Float", "T_Double", "T_NDouble" >>[i]) = CSize(p, "NV")
  BY <1>1, Fitting DEF Candidates
<1>3. PICK type \in Floats : type = JitCheck(p, "NV")
  BY <1>2 DEF Floats
<1>4. FormatSize[Format(p, type)] = FormatSize[p.NV]
  BY <1>2, <1>3 DEF Floats, SizeOf, CSize
<1>5. p.NV \in {"float64", "x87_12", "x87_16", "float128"}
  BY TypesAssumption DEF IsPlatform
<1>6. ASSUME SizeTellsFormat PROVE Format(p, type) = p.NV
  <2>1. CASE type = "T_Float"
    BY <1>4, <1>5, <2>1 DEF Format, FormatSize
  <2>2. CASE type = "T_Double"
    BY <1>4, <1>5, <2>2 DEF Format, FormatSize
  <2>3. CASE type = "T_NDouble"
    <3>1. FormatSize[p.nfloat] = FormatSize[p.NV]
      BY <1>4, <2>3 DEF Format
    <3> QED
      BY <1>6, <2>3, <3>1 DEF SizeTellsFormat, Format
  <2> QED
    BY <2>1, <2>2, <2>3 DEF Floats
<1> QED
  BY <1>3, <1>6 DEF jit_type

-----------------------------------------------------------------------------
LEMMA TrueOrFalse ==
  ASSUME NEW x, NEW S
  PROVE  \E u \in BOOLEAN : u <=> x \in S
<1>1. CASE x \in S
  <2>1. TRUE <=> x \in S
    BY <1>1
  <2> WITNESS TRUE \in BOOLEAN
  <2> QED
    BY <2>1
<1>2. CASE x \notin S
  <2>1. FALSE <=> x \in S
    BY <1>2
  <2> WITNESS FALSE \in BOOLEAN
  <2> QED
    BY <2>1
<1> QED
  BY <1>1, <1>2

(* Numbers that a C type can have, and what becomes of them.               *)
IsNumber(p, c, n) == n \in Int /\ CConvert(p, c, n) = n

LEMMA ConvertedIs ==
  ASSUME NEW p, IsPlatform(p), NEW c \in Parms, NEW n \in Int
  PROVE  IsNumber(p, c, CConvert(p, c, n))
<1>1. CASE c = "NV"
  BY <1>1 DEF IsNumber, CConvert
<1>2. CASE c # "NV"
  <2>1. PICK size \in {4, 8} : size = CSize(p, c)
    BY <1>2 DEF Parms, CSize, IsPlatform
  <2>2. PICK u \in BOOLEAN : u <=> c \in {"UV", "pointer"}
    BY TrueOrFalse
  <2>3. \A k : CConvert(p, c, k) = WrapTo(size, u, k)
    BY <1>2, <2>1, <2>2 DEF CConvert, WrapTo
  <2>4. WrapTo(size, u, n) \in Int
        /\ WrapTo(size, u, WrapTo(size, u, n)) = WrapTo(size, u, n)
    BY WrapTwice
  <2> QED
    BY <2>3, <2>4 DEF IsNumber
<1> QED
  BY <1>1, <1>2

LEMMA NumbersAre ==
  ASSUME NEW p, IsPlatform(p), NEW c \in Parms, NEW n \in Numbers(p, c)
  PROVE  IsNumber(p, c, n)
<1>1. CASE c = "NV"
  BY <1>1, TypesAssumption DEF Numbers, IsNumber, CConvert
<1>2. CASE c # "NV"
  <2>1. \A size \in {4, 8}, d \in {-1, 0} : Modulus(size) \div 2 + d \in Int
    <3> TAKE size \in {4, 8}, d \in {-1, 0}
    <3>1. PICK m \in Nat \ {0} : m = Modulus(size)
      BY ModulusTyped
    <3> QED
      BY <3>1
  <2>2. PICK k \in {0, 1, -1} \cup
              {Modulus(size) \div 2 + d : size \in {4, 8}, d \in {-1, 0}} :
          n = CConvert(p, c, k)
    BY <1>2 DEF Numbers
  <2>3. k \in Int
    BY <2>1, <2>2
  <2> QED
    BY <2>2, <2>3, ConvertedIs
<1> QED
  BY <1>1, <1>2

(* An integer that a type of libjit holds is the one of the C type.        *)
LEMMA Held ==
  ASSUME NEW p, NEW type, NEW c \in Parms \ {"NV"},
         HoldsInteger(p, type, c), NEW n \in Int
  PROVE  /\ ConvertTo(p, type, n) = CConvert(p, c, n)
         /\ Passed(p, type, c, ConvertTo(p, type, n)) = {CConvert(p, c, n)}
         /\ Returned(p, type, c, n) = {CConvert(p, c, n)}
         /\ make_constant(p, type, n) = {CConvert(p, c, n)}
<1>1. PICK size \in {4, 8} : size = SizeOf(p, type) /\ size = CSize(p, c)
  BY DEF HoldsInteger
<1>2. PICK u \in BOOLEAN : u <=> c \in {"UV", "pointer"}
  BY TrueOrFalse
<1>3. PICK w : w = WrapTo(size, u, n)
  OBVIOUS
<1>4. /\ type \notin Floats /\ type # "T_Byte" /\ c # "NV"
      /\ u <=> type \in Unsigned
  BY <1>2 DEF HoldsInteger
<1>5. CConvert(p, c, n) = w /\ ConvertTo(p, type, n) = w
  BY <1>1, <1>2, <1>3, <1>4 DEF CConvert, ConvertTo, WrapTo
<1>6. Read(n, size, size, u) = {w} /\ Read(w, size, size, u) = {w}
  BY <1>3, ReadSame
<1>7. Passed(p, type, c, w) = {w} /\ Returned(p, type, c, n) = {w}
  BY <1>1, <1>2, <1>4, <1>6 DEF Passed, Returned, Transfer
<1>8. make_constant(p, type, n) = {w}
  BY <1>1, <1>2, <1>4, <1>5, <1>6 DEF make_constant, UnionMember
<1> QED
  BY <1>5, <1>7, <1>8

LEMMA ArgumentPasses ==
  ASSUME SizeTellsFormat, NEW p \in Platforms, Compiles(p), NEW c \in Parms, NEW n \in Int
  PROVE  Passed(p, jit_type(p, c), c, ConvertTo(p, jit_type(p, c), n)) = {CConvert(p, c, n)}
<1>1. PICK type : type = jit_type(p, c)
  OBVIOUS
<1>2. CASE c = "NV"
  <2>1. type \in Floats /\ Format(p, type) = p.NV
    BY <1>1, <1>2, FloatsFit
  <2> QED
    BY <1>1, <1>2, <2>1 DEF Passed, Transfer, ConvertTo, CConvert
<1>3. CASE c # "NV"
  <2>1. HoldsInteger(p, type, c)
    BY <1>1, <1>3, TypesAssumption, IntegersFit
  <2>2. Passed(p, type, c, ConvertTo(p, type, n)) = {CConvert(p, c, n)}
    BY <1>3, <2>1, Held
  <2> QED
    BY <1>1, <2>2
<1> QED
  BY <1>2, <1>3

LEMMA ResultComes ==
  ASSUME NEW p \in Platforms, Compiles(p), NEW c \in Parms, NEW result,
         IsNumber(p, c, result), NEW n \in Returned(p, jit_type(p, c), c, result)
  PROVE  IsNumber(p, c, n) /\ (SizeTellsFormat => n = result)
<1>1. PICK type : type = jit_type(p, c)
  OBVIOUS
<1>2. CASE c = "NV"
  <2>1. type \in Floats /\ (SizeTellsFormat => Format(p, type) = p.NV)
    BY <1>1, <1>2, FloatsFit
  <2>2. n \in IF Format(p, type) = p.NV THEN {result} ELSE {-2}
    BY <1>1, <1>2, <2>1 DEF Returned, Transfer
  <2> QED
    BY <1>2, <2>1, <2>2 DEF IsNumber, CConvert
<1>3. CASE c # "NV"
  <2>1. HoldsInteger(p, type, c)
    BY <1>1, <1>3, TypesAssumption, IntegersFit
  <2>2. Returned(p, type, c, result) = {CConvert(p, c, result)}
    BY <1>3, <2>1, Held DEF IsNumber
  <2> QED
    BY <1>1, <2>2 DEF IsNumber
<1> QED
  BY <1>2, <1>3

LEMMA ConstantKept ==
  ASSUME NEW p \in Platforms, Compiles(p), NEW c \in {"IV", "UV", "NV"}, NEW n,
         IsNumber(p, c, n)
  PROVE  make_constant(p, jit_type(p, c), n) = {n}
<1>1. PICK type : type = jit_type(p, c)
  OBVIOUS
<1>2. CASE c = "NV"
  <2>1. type \in Floats
    BY <1>1, <1>2, FloatsFit
  <2> QED
    BY <1>1, <2>1 DEF make_constant
<1>3. CASE c # "NV"
  <2>1. c \in Parms \ {"NV"}
    BY <1>3 DEF Parms
  <2>2. HoldsInteger(p, type, c)
    BY <1>1, <2>1, TypesAssumption, IntegersFit
  <2>3. make_constant(p, type, n) = {CConvert(p, c, n)}
    BY <2>1, <2>2, Held DEF IsNumber
  <2> QED
    BY <1>1, <2>3 DEF IsNumber
<1> QED
  BY <1>2, <1>3

(* Every C type has a type of libjit that a value may have.                *)
LEMMA TypeTyped ==
  ASSUME NEW p, IsPlatform(p), Compiles(p), NEW c \in Parms
  PROVE  jit_type(p, c) \in
           Floats \cup Unsigned \cup {"T_Int", "T_NInt", "T_Long"}
<1>1. \A d \in {"IV", "UV", "NV"} : JitCheck(p, d) # "T_Fail"
  BY DEF Compiles, Candidates
<1>2. \A d \in {"IV", "UV", "NV"} :
        \E i \in 1..3 : JitCheck(p, d) = Candidates[d][i]
  BY <1>1, Fitting DEF Candidates
<1>3. CASE c = "IV"
  BY <1>2, <1>3 DEF jit_type, Candidates
<1>4. CASE c = "UV"
  BY <1>2, <1>4 DEF jit_type, Candidates, Unsigned
<1>5. CASE c = "NV"
  BY <1>2, <1>5 DEF jit_type, Candidates, Floats
<1>6. CASE c \in {"I32", "pointer"}
  BY <1>6 DEF jit_type, Unsigned
<1> QED
  BY <1>3, <1>4, <1>5, <1>6 DEF Parms

-----------------------------------------------------------------------------
(* The inductive invariant: a value has the type that jittypes.h picked    *)
(* for its C type, a number in its range and, if sizes tell formats apart, *)
(* the number that was meant.                                              *)
ValueOK(v) ==
  /\ v.ctype \in Parms \ {"I32"}
  /\ v.type = jit_type(platform, v.ctype)
  /\ IsNumber(platform, v.ctype, v.n)
  /\ SizeTellsFormat => v.n = v.meant

TypesInv ==
  /\ platform \in Platforms /\ Compiles(platform)
  /\ values \subseteq Value
  /\ \A v \in values : ValueOK(v)
  /\ \/ called = << >>
     \/ \E record : called = << record >> /\ (SizeTellsFormat => record.got = record.meant)

LEMMA InitTypesInv == JTInit => TypesInv
BY DEF JTInit, TypesInv

LEMMA PlatformOK == TypesInv => platform \in Platforms /\ IsPlatform(platform)
                                  /\ Compiles(platform)
BY TypesAssumption DEF TypesInv

LEMMA CreateKeeps ==
  ASSUME TypesInv, NEW c \in Parms \ {"I32"}, NEW n, NEW meant \in Int,
         IsNumber(platform, c, n), SizeTellsFormat => n = meant,
         Create(jit_type(platform, c), n, c, meant), platform' = platform
  PROVE  /\ values' \subseteq Value
         /\ \A v \in values' : ValueOK(v)'
<1>1. PICK x : x = [type |-> jit_type(platform, c), n |-> n, ctype |-> c, meant |-> meant]
  OBVIOUS
<1>2. values' = values \cup {x}
  BY <1>1 DEF Create
<1>3. x \in Value
  <2>1. jit_type(platform, c) \in Floats \cup Unsigned \cup {"T_Int", "T_NInt", "T_Long"}
    BY PlatformOK, TypeTyped
  <2>2. c \in {"IV", "UV", "NV", "pointer"} /\ n \in Int
    BY DEF Parms, IsNumber
  <2> QED
    BY <1>1, <2>1, <2>2 DEF Value
<1>4. ValueOK(x)
  BY <1>1 DEF ValueOK
<1>5. \A v \in values \cup {x} : ValueOK(v)
  BY <1>4 DEF TypesInv
<1>6. \A v \in values' : ValueOK(v)'
  BY <1>2, <1>5 DEF ValueOK, IsNumber
<1> QED
  BY <1>2, <1>3, <1>6 DEF TypesInv

LEMMA ConstantInv ==
  ASSUME TypesInv, NEW c \in {"IV", "UV", "NV"}, jit_value_create_constant(c)
  PROVE  TypesInv'
<1>1. PICK type : type = jit_type(platform, c)
  OBVIOUS
<1>2. type = JitCheck(platform, c)
  BY <1>1 DEF jit_type
<1>3. PICK number \in Numbers(platform, c) :
        \E n \in make_constant(platform, type, number) : Create(type, n, c, number)
  BY <1>2 DEF jit_value_create_constant
<1>4. c \in Parms \ {"I32"}
  BY DEF Parms
<1>5. IsNumber(platform, c, number)
  BY <1>4, PlatformOK, NumbersAre
<1>6. make_constant(platform, type, number) = {number}
  BY <1>1, <1>5, PlatformOK, ConstantKept
<1>7. Create(jit_type(platform, c), number, c, number)
  BY <1>1, <1>3, <1>6
<1>8. UNCHANGED << platform, called >>
  BY DEF jit_value_create_constant
<1>9. values' \subseteq Value /\ \A v \in values' : ValueOK(v)'
  BY <1>4, <1>5, <1>7, <1>8, CreateKeeps DEF IsNumber
<1> QED
  BY <1>8, <1>9 DEF TypesInv

LEMMA PointerInv ==
  ASSUME TypesInv, jit_value_create_ptr_constant
  PROVE  TypesInv'
<1>1. PICK address \in Numbers(platform, "IV") :
        Create("void_ptr", CConvert(platform, "pointer", address), "pointer",
               CConvert(platform, "pointer", address))
  BY DEF jit_value_create_ptr_constant
<1>2. PICK n : n = CConvert(platform, "pointer", address)
  OBVIOUS
<1>3. "pointer" \in Parms \ {"I32"} /\ "IV" \in Parms
  BY DEF Parms
<1>4. address \in Int
  BY <1>3, PlatformOK, NumbersAre DEF IsNumber
<1>5. IsNumber(platform, "pointer", n)
  BY <1>2, <1>3, <1>4, PlatformOK, ConvertedIs
<1>6. jit_type(platform, "pointer") = "void_ptr"
  BY DEF jit_type
<1>7. Create(jit_type(platform, "pointer"), n, "pointer", n)
  BY <1>1, <1>2, <1>6
<1>8. UNCHANGED << platform, called >>
  BY DEF jit_value_create_ptr_constant
<1>9. values' \subseteq Value /\ \A v \in values' : ValueOK(v)'
  BY <1>3, <1>5, <1>7, <1>8, CreateKeeps DEF IsNumber
<1> QED
  BY <1>8, <1>9 DEF TypesInv

-----------------------------------------------------------------------------
(* A call of a native function, with my_perl before the other arguments if *)
(* perl has threads.                                                       *)
Before(b, x) == IF b THEN << x >> ELSE << >>
Prefixed(b, x, s, i) == IF b THEN IF i = 1 THEN x ELSE s[i - 1] ELSE s[i]

LEMMA BeforeIs ==
  ASSUME NEW b \in BOOLEAN, NEW S, NEW x \in S, NEW s \in Seq(S)
  PROVE  /\ DOMAIN (Before(b, x) \o s) = 1..(IF b THEN Len(s) + 1 ELSE Len(s))
         /\ \A i \in DOMAIN (Before(b, x) \o s) :
              (Before(b, x) \o s)[i] = Prefixed(b, x, s, i)
<1>1. CASE b
  BY <1>1 DEF Before, Prefixed
<1>2. CASE ~b
  BY <1>2 DEF Before, Prefixed
<1> QED
  BY <1>1, <1>2

LEMMA NativesTyped ==
  ASSUME NEW native \in PointerNatives \cup NumberNatives
  PROVE  /\ native.parms \in Seq(Parms)
         /\ native.ret \in {"void"} \cup (Parms \ {"I32"})
<1>1. /\ \/ native.parms = << >>
         \/ \E c \in Parms : native.parms = << c >>
         \/ \E c, d \in Parms : native.parms = << c, d >>
      /\ native.ret \in {"void", "IV", "UV", "NV", "pointer"}
  <2>1. CASE native \in PointerNatives
    BY <2>1 DEF PointerNatives, Parms
  <2>2. CASE native \in NumberNatives
    BY <2>2 DEF NumberNatives, Parms
  <2> QED
    BY <2>1, <2>2
<1>2. << >> \in Seq(Parms)
      /\ \A c, d \in Parms : << c >> \in Seq(Parms) /\ << c, d >> \in Seq(Parms)
  OBVIOUS
<1>3. native.parms \in Seq(Parms)
  BY <1>1, <1>2, Zenon
<1> QED
  BY <1>1, <1>3 DEF Parms

(* What jit_insn_call_native has of a call: the parameters, the signature  *)
(* and the arguments.                                                      *)
Parms_(native) == THX("pointer") \o native.parms
Sig_(native) == THX("void_ptr") \o
                  [i \in DOMAIN native.parms |-> jit_type(platform, native.parms[i])]
Args_(given) == THX(my_perl) \o given

LEMMA ArgumentsMatch ==
  ASSUME TypesInv, NEW native, native.parms \in Seq(Parms),
         NEW given \in [DOMAIN native.parms -> values \cup {my_perl}],
         NEW i \in DOMAIN Args_(given)
  PROVE  /\ Parms_(native)[i] \in Parms
         /\ Sig_(native)[i] = jit_type(platform, Parms_(native)[i])
         /\ Args_(given)[i] \in values \cup {my_perl}
<1>1. PICK b \in BOOLEAN : b = platform.usethreads
  BY PlatformOK DEF IsPlatform
<1>2. \A x : THX(x) = Before(b, x)
  BY <1>1 DEF THX, Before
<1>3. PICK sig : sig = [k \in DOMAIN native.parms |-> jit_type(platform, native.parms[k])]
  OBVIOUS
<1>4. PICK T : T = {jit_type(platform, c) : c \in Parms}
  OBVIOUS
<1>5. PICK parms \in Seq(Parms) : parms = native.parms
  OBVIOUS
<1>6. sig \in Seq(T) /\ Len(sig) = Len(parms)
  BY <1>3, <1>4, <1>5
<1>7. given \in Seq(values \cup {my_perl}) /\ Len(given) = Len(parms)
  BY <1>5
<1>8. "pointer" \in Parms /\ "void_ptr" = jit_type(platform, "pointer")
  BY DEF Parms, jit_type
<1>9. "void_ptr" \in T
  BY <1>4, <1>8
<1>10. i \in 1..(IF b THEN Len(parms) + 1 ELSE Len(parms))
       /\ Args_(given)[i] = Prefixed(b, my_perl, given, i)
  <2>1. Args_(given) = Before(b, my_perl) \o given
    BY <1>2 DEF Args_
  <2>2. my_perl \in values \cup {my_perl}
    OBVIOUS
  <2>3. PICK n \in Nat : n = Len(parms) /\ n = Len(given)
    BY <1>7
  <2>4. /\ DOMAIN (Before(b, my_perl) \o given) =
             1..(IF b THEN Len(given) + 1 ELSE Len(given))
        /\ \A k \in DOMAIN (Before(b, my_perl) \o given) :
             (Before(b, my_perl) \o given)[k] = Prefixed(b, my_perl, given, k)
    <3>1. PICK x : x = my_perl
      OBVIOUS
    <3>2. PICK S : S = values \cup {x}
      OBVIOUS
    <3>3. x \in S /\ given \in Seq(S)
      BY <1>7, <3>1, <3>2
    <3> QED
      BY <3>1, <3>3, BeforeIs
  <2>5. DOMAIN Args_(given) = 1..(IF b THEN n + 1 ELSE n)
        /\ Args_(given)[i] = Prefixed(b, my_perl, given, i)
    BY <2>1, <2>3, <2>4
  <2> QED
    BY <2>3, <2>5
<1>11. Sig_(native)[i] = Prefixed(b, "void_ptr", sig, i)
  BY <1>2, <1>3, <1>6, <1>9, <1>10, BeforeIs DEF Sig_
<1>12. Parms_(native)[i] = Prefixed(b, "pointer", parms, i)
  BY <1>2, <1>5, <1>8, <1>10, BeforeIs DEF Parms_
<1>13. CASE b /\ i = 1
  BY <1>8, <1>10, <1>11, <1>12, <1>13 DEF Prefixed
<1>14. CASE ~(b /\ i = 1)
  <2>1. PICK k \in 1..Len(parms) :
          /\ Args_(given)[i] = given[k] /\ Sig_(native)[i] = sig[k]
          /\ Parms_(native)[i] = parms[k]
    BY <1>10, <1>11, <1>12, <1>14 DEF Prefixed
  <2>2. k \in DOMAIN native.parms /\ parms[k] \in Parms
    BY <1>5, <2>1
  <2>3. given[k] \in values \cup {my_perl}
    BY <2>2
  <2>4. sig[k] = jit_type(platform, parms[k])
    BY <1>3, <1>5, <2>2
  <2> QED
    BY <2>1, <2>2, <2>3, <2>4
<1> QED
  BY <1>13, <1>14

LEMMA ArgumentMeans ==
  ASSUME SizeTellsFormat, TypesInv, NEW c \in Parms, NEW v \in values \cup {my_perl}
  PROVE  Passed(platform, jit_type(platform, c), c,
                ConvertTo(platform, jit_type(platform, c), v.n))
           = {CConvert(platform, c, v.meant)}
<1>1. v.n = v.meant /\ v.n \in Int
  <2>1. CASE v \in values
    BY <2>1 DEF TypesInv, ValueOK, IsNumber
  <2>2. CASE v = my_perl
    BY <2>2 DEF my_perl
  <2> QED
    BY <2>1, <2>2
<1>2. platform \in Platforms /\ Compiles(platform)
  BY PlatformOK
<1> QED
  BY <1>1, <1>2, ArgumentPasses

(* What a native function may find in its i-th parameter.                  *)
Received(native, given, i) ==
  Passed(platform, Sig_(native)[i], Parms_(native)[i],
         ConvertTo(platform, Sig_(native)[i], Args_(given)[i].n))

LEMMA NativeInv ==
  ASSUME TypesInv, NEW native \in PointerNatives \cup NumberNatives,
         jit_insn_call_native(native)
  PROVE  TypesInv'
<1>1. native.parms \in Seq(Parms) /\ native.ret \in {"void"} \cup (Parms \ {"I32"})
  BY NativesTyped
<1>2. UNCHANGED platform
  BY DEF jit_insn_call_native
<1>3. PICK given \in [DOMAIN native.parms -> values \cup {my_perl}] :
        \E got \in [DOMAIN Args_(given) ->
                      UNION {Received(native, given, i) : i \in DOMAIN Args_(given)}] :
          /\ \A i \in DOMAIN Args_(given) : got[i] \in Received(native, given, i)
          /\ called' = << [got |-> got,
                           meant |-> [i \in DOMAIN Args_(given) |->
                             CConvert(platform, Parms_(native)[i], Args_(given)[i].meant)]] >>
  BY DEF jit_insn_call_native, Parms_, Sig_, Args_, Received
<1>4. PICK domain : domain = DOMAIN Args_(given)
  OBVIOUS
<1>5. PICK meant : meant = [i \in domain |-> CConvert(platform, Parms_(native)[i],
                                                      Args_(given)[i].meant)]
  OBVIOUS
<1>6. PICK got : /\ got = [i \in domain |-> got[i]]
                 /\ \A i \in domain : got[i] \in Received(native, given, i)
                 /\ called' = << [got |-> got, meant |-> meant] >>
  BY <1>3, <1>4, <1>5
<1>7. ASSUME SizeTellsFormat PROVE got = meant
  <2>1. ASSUME NEW i \in domain PROVE got[i] = meant[i]
    <3>1. /\ Parms_(native)[i] \in Parms
          /\ Sig_(native)[i] = jit_type(platform, Parms_(native)[i])
          /\ Args_(given)[i] \in values \cup {my_perl}
      BY <1>1, <1>4, ArgumentsMatch
    <3>2. Received(native, given, i)
            = {CConvert(platform, Parms_(native)[i], Args_(given)[i].meant)}
      BY <1>7, <3>1, ArgumentMeans DEF Received
    <3>3. meant[i] = CConvert(platform, Parms_(native)[i], Args_(given)[i].meant)
      BY <1>5
    <3> QED
      BY <1>6, <3>2, <3>3
  <2>2. meant = [i \in domain |-> meant[i]]
    BY <1>5
  <2> QED
    BY <1>6, <2>1, <2>2
<1>8. \E record : /\ called' = << record >>
                  /\ SizeTellsFormat => record.got = record.meant
  BY <1>6, <1>7
<1>9. CASE native.ret = "void"
  <2>1. UNCHANGED values
    BY <1>9 DEF jit_insn_call_native
  <2>2. \A v \in values' : ValueOK(v)'
    BY <1>2, <2>1 DEF TypesInv, ValueOK, IsNumber
  <2> QED
    BY <1>2, <1>8, <2>1, <2>2 DEF TypesInv
<1>10. CASE native.ret # "void"
  <2>1. PICK c \in Parms \ {"I32"} : c = native.ret
    BY <1>1, <1>10
  <2>2. PICK result \in Numbers(platform, c) :
          \E n \in Returned(platform, jit_type(platform, c), c, result) :
            Create(jit_type(platform, c), n, c, result)
    BY <1>10, <2>1 DEF jit_insn_call_native
  <2>3. IsNumber(platform, c, result)
    BY PlatformOK, NumbersAre
  <2> PICK n \in Returned(platform, jit_type(platform, c), c, result) :
        Create(jit_type(platform, c), n, c, result)
    BY <2>2
  <2>4. IsNumber(platform, c, n) /\ (SizeTellsFormat => n = result)
    BY <2>3, PlatformOK, ResultComes
  <2>5. result \in Int
    BY <2>3 DEF IsNumber
  <2>6. values' \subseteq Value /\ \A v \in values' : ValueOK(v)'
    BY <1>2, <2>4, <2>5, CreateKeeps
  <2> QED
    BY <1>2, <1>8, <2>6 DEF TypesInv
<1> QED
  BY <1>9, <1>10

LEMMA TypesStep == TypesInv /\ [JTNext]_JTvars => TypesInv'
<1> SUFFICES ASSUME TypesInv, [JTNext]_JTvars
             PROVE  TypesInv'
  OBVIOUS
<1>1. ASSUME NEW c \in {"IV", "UV", "NV"}, jit_value_create_constant(c)
      PROVE  TypesInv'
  BY <1>1, ConstantInv
<1>2. CASE jit_value_create_ptr_constant
  BY <1>2, PointerInv
<1>3. ASSUME NEW native \in PointerNatives \cup NumberNatives,
             jit_insn_call_native(native)
      PROVE  TypesInv'
  BY <1>3, NativeInv
<1>4. CASE UNCHANGED JTvars
  BY <1>4 DEF JTvars, TypesInv, ValueOK, IsNumber
<1> QED
  BY <1>1, <1>2, <1>3, <1>4 DEF JTNext

(* A value is in the range of its type.                                    *)
LEMMA ValueInRange ==
  ASSUME TypesInv, NEW v \in values
  PROVE  ConvertTo(platform, v.type, v.n) = v.n
<1>1. PICK c \in Parms : /\ v.type = jit_type(platform, c)
                         /\ v.n \in Int /\ CConvert(platform, c, v.n) = v.n
  BY DEF TypesInv, ValueOK, IsNumber
<1>2. CASE c = "NV"
  <2>1. v.type \in Floats
    BY <1>1, <1>2, PlatformOK, FloatsFit
  <2> QED
    BY <2>1 DEF ConvertTo
<1>3. CASE c # "NV"
  <2>1. HoldsInteger(platform, v.type, c)
    BY <1>1, <1>3, PlatformOK, IntegersFit
  <2> QED
    BY <1>1, <1>3, <2>1, Held
<1> QED
  BY <1>2, <1>3

LEMMA TypesInvTypeOK == TypesInv => JTTypeOK
<1> SUFFICES ASSUME TypesInv PROVE JTTypeOK
  OBVIOUS
<1>1. \A v \in values : ConvertTo(platform, v.type, v.n) = v.n
  BY ValueInRange
<1>2. Len(called) <= 1
  <2>1. CASE called = << >>
    BY <2>1
  <2>2. ASSUME NEW record, called = << record >>
        PROVE  Len(called) <= 1
    BY <2>2
  <2> QED
    BY <2>1, <2>2 DEF TypesInv
<1> QED
  BY <1>1, <1>2 DEF TypesInv, JTTypeOK

(* The invariant holds in every build that compiles.                       *)
THEOREM TypesInvariant == JTSpec => []TypesInv
BY InitTypesInv, TypesStep, PTL DEF JTSpec

(* Values keep the type of their C type, and numbers in its range: what    *)
(* jittypes.h and the constants of init.cpp make.                          *)
THEOREM TypesCorrect == JTSpec => []JTTypeOK
BY TypesInvariant, TypesInvTypeOK, PTL

(* A native function is given the numbers that its caller meant, on every  *)
(* platform where the extension compiles, if floating point formats of the *)
(* same size are the same: the types that jittypes.h picked and the        *)
(* signatures of make_jitapi_wrappers.pl agree with the C functions.       *)
THEOREM CalleeGetsMeant == ASSUME SizeTellsFormat PROVE JTSpec => []CalleeGets
<1>1. TypesInv => CalleeGets
  BY DEF TypesInv, CalleeGets
<1> QED
  BY <1>1, TypesInvariant, PTL

=============================================================================

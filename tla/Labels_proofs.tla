--------------------------- MODULE Labels_proofs ---------------------------
(***************************************************************************)
(* Proofs about Labels, for every set of objects and functions.  The       *)
(* instructions speak of numbers; what makes two numbers differ is the     *)
(* counter of the builder they came from.  Bound(f) is the set of pairs of *)
(* a label that got its number in f's present build and that number,       *)
(* whether an instruction names it yet or not: such numbers are below the  *)
(* counter and pairwise different, and the next label of f gets the        *)
(* counter.                                                                *)
(***************************************************************************)
EXTENDS Labels, TLAPS

Here(f) == <<f, build[f]>>

\* Labels with the numbers that f's present build gave them: objects, with
\* an instruction or reserved only, and labels of emitters.
Bound(f) ==
    {<<o, iv[o]>> : o \in {o \in Objects : home[o] = {Here(f)}}}
    \cup {<<insns[f][i].id, insns[f][i].num>> :
            i \in {i \in DOMAIN insns[f] : insns[f][i].id \in Locals}}

\* The object of an instruction still has the number that the instruction
\* names, wherever it got it.
InsnOK(f, i) ==
    LET x == insns[f][i]
    IN  /\ x.id \in Objects => iv[x.id] = x.num /\ home[x.id] # {}
        /\ x.id \in Locals  => \E k \in 1..Len(insns[f]) : x.id = <<f, build[f], k>>

\* An object has a number exactly when some build gave it one, and not a
\* build to come.
ObjectOK(o) ==
    /\ iv[o] \in Nat <=> home[o] # {}
    /\ \A p \in home[o] : p[1] \in Functions /\ p[2] \in Nat /\ p[2] <= build[p[1]]

\* A set of pairs of a label and its number: one number for each label, one
\* label for each number, all below n.
Numbered(B, n) ==
    /\ \A x \in B : x[2] \in Nat /\ x[2] < n
    /\ \A x, y \in B : x[2] = y[2] <=> x[1] = y[1]

IInv ==
    /\ TypeOK
    /\ \A f \in Functions : \A i \in DOMAIN insns[f] : InsnOK(f, i)
    /\ \A o \in Objects : ObjectOK(o)
    /\ \A f \in Functions : Numbered(Bound(f), next_label[f])

-----------------------------------------------------------------------------

(* A set of numbered labels stays so when it loses labels, and when it     *)
(* gains labels that take their numbers from the counter on.               *)
LEMMA Grow ==
    ASSUME NEW B, NEW n \in Nat, Numbered(B, n),
           NEW F, NEW m \in Nat, n <= m, Numbered(F, m),
           \A x \in F : n <= x[2] /\ \A y \in B : x[1] # y[1],
           NEW C, C \subseteq B \cup F
    PROVE  Numbered(C, m)
BY DEF Numbered

\* What appending instructions does to a function's list of them.
Longer(f, list) ==
    /\ insns' \in [Functions -> Seq(Insn)]
    /\ \A g \in Functions \ {f} : insns'[g] = insns[g]
    /\ Len(insns'[f]) = Len(insns[f]) + Len(list)
    /\ Len(insns[f]) \in Nat /\ Len(list) \in Nat
    /\ \A i \in DOMAIN insns'[f] :
        \/ i \in DOMAIN insns[f] /\ insns'[f][i] = insns[f][i]
        \/ \E k \in DOMAIN list :
                i = Len(insns[f]) + k /\ insns'[f][i] = list[k]

(* Append_ of an emitter or a wrapper makes the list longer and no other.  *)
LEMMA Appended ==
    ASSUME TypeOK, NEW f \in Functions, NEW list \in Seq(Insn),
           insns' = [insns EXCEPT ![f] = @ \o list]
    PROVE  Longer(f, list)
<1> DEFINE s == insns[f]
<1>1. s \in Seq(Insn) /\ insns'[f] = s \o list BY DEF TypeOK
<1>2. s \o list \in Seq(Insn) /\ Len(s \o list) = Len(s) + Len(list)
    BY <1>1
<1>3. insns' \in [Functions -> Seq(Insn)] BY <1>1, <1>2 DEF TypeOK
<1>4. \A i \in 1..(Len(s) + Len(list)) :
        \/ i \in 1..Len(s) /\ (s \o list)[i] = s[i]
        \/ \E k \in 1..Len(list) : i = Len(s) + k /\ (s \o list)[i] = list[k]
    <2> TAKE i \in 1..(Len(s) + Len(list))
    <2>1. CASE i <= Len(s) BY <1>1, <2>1
    <2>2. CASE i > Len(s)
        <3> DEFINE k == i - Len(s)
        <3>1. k \in 1..Len(list) /\ i = Len(s) + k BY <1>1, <2>2
        <3>2. (s \o list)[i] = list[k] BY <1>1, <2>2
        <3> QED BY <3>1, <3>2
    <2> QED BY <2>1, <2>2, <1>1
<1> QED BY <1>1, <1>2, <1>3, <1>4 DEF TypeOK, Longer

(* An instruction with a label of this build is one of the bound labels,   *)
(* under the number it names.                                              *)
LEMMA BoundInsn ==
    ASSUME IInv, NEW f \in Functions, NEW i \in DOMAIN insns[f],
           Home(insns[f][i].id, f)
    PROVE  <<insns[f][i].id, insns[f][i].num>> \in Bound(f)
<1> DEFINE x == insns[f][i]
<1>1. CASE x.id \in Locals BY <1>1 DEF Bound
<1>2. CASE x.id \in Objects /\ x.id \notin Locals
    <2>1. iv[x.id] = x.num BY <1>2 DEF IInv, InsnOK
    <2>2. home[x.id] = {Here(f)} BY <1>2 DEF Home, Here
    <2>3. <<x.id, iv[x.id]>> \in Bound(f) BY <1>2, <2>2 DEF Bound
    <2> QED BY <2>1, <2>3
<1> QED BY <1>1, <1>2 DEF Home

LEMMA InvAgrees == IInv => LabelsAgree
<1> SUFFICES ASSUME IInv, NEW f \in Functions,
                    NEW i \in DOMAIN insns[f], NEW j \in DOMAIN insns[f]
             PROVE  /\ insns[f][i].id = insns[f][j].id
                        => insns[f][i].num = insns[f][j].num
                    /\ Home(insns[f][i].id, f) /\ Home(insns[f][j].id, f) =>
                        (insns[f][i].num = insns[f][j].num
                            => insns[f][i].id = insns[f][j].id)
    BY DEF LabelsAgree
<1>1. Numbered(Bound(f), next_label[f]) BY DEF IInv
<1>2. ASSUME Home(insns[f][i].id, f), Home(insns[f][j].id, f)
      PROVE  insns[f][i].num = insns[f][j].num <=> insns[f][i].id = insns[f][j].id
    <2>1. /\ <<insns[f][i].id, insns[f][i].num>> \in Bound(f)
          /\ <<insns[f][j].id, insns[f][j].num>> \in Bound(f)
        BY <1>2, BoundInsn
    <2> QED BY <1>1, <2>1 DEF Numbered
\* One object: both instructions name the number that it holds.
<1>3. ASSUME insns[f][i].id = insns[f][j].id
      PROVE  insns[f][i].num = insns[f][j].num
    <2>1. CASE insns[f][i].id \in Objects BY <1>3, <2>1 DEF IInv, InsnOK
    <2>2. CASE insns[f][i].id \in Locals BY <1>2, <1>3, <2>2 DEF Home
    <2>3. insns[f][i].id \in Objects \cup Locals
        <3>1. insns[f] \in Seq(Insn) BY DEF IInv, TypeOK
        <3>2. insns[f][i] \in Insn BY <3>1
        <3> QED BY <3>2 DEF Insn
    <2> QED BY <2>1, <2>2, <2>3
<1>4. insns[f][i].id = insns[f][j].id => insns[f][i].num = insns[f][j].num
    BY <1>3
<1> QED BY <1>2, <1>4

LEMMA InvInit == Init => IInv
<1> SUFFICES ASSUME Init PROVE IInv OBVIOUS
<1>1. TypeOK BY DEF Init, TypeOK
<1>2. \A f \in Functions : DOMAIN insns[f] = {} BY DEF Init
<1>3. \A o \in Objects : ObjectOK(o) BY LabelAssumption DEF Init, ObjectOK
<1>4. \A f \in Functions : Bound(f) = {} BY <1>2 DEF Bound, Init
<1>5. \A f \in Functions : Numbered(Bound(f), next_label[f]) BY <1>4 DEF Numbered
<1> QED BY <1>1, <1>2, <1>3, <1>5 DEF IInv

-----------------------------------------------------------------------------

(* An emitter that uses labels of its own: it appends instructions that    *)
(* name them, with numbers from the counter on, and touches no object.     *)
LEMMA Emitter ==
    ASSUME IInv, NEW f \in Functions, NEW list \in Seq(Insn), NEW m \in Nat,
           insns' = [insns EXCEPT ![f] = @ \o list],
           next_label' = [next_label EXCEPT ![f] = @ + m],
           UNCHANGED <<iv, build, home, alive>>,
           \A k \in DOMAIN list : \E c \in 1..Len(list) : list[k].id = Local(f, c),
           Numbered({<<list[k].id, list[k].num>> : k \in DOMAIN list}, next_label[f] + m),
           \A k \in DOMAIN list : next_label[f] <= list[k].num
    PROVE  IInv'
<1> DEFINE F == {<<list[k].id, list[k].num>> : k \in DOMAIN list}
<1>0. TypeOK BY DEF IInv
<1>1. /\ insns' \in [Functions -> Seq(Insn)]
      /\ \A g \in Functions \ {f} : insns'[g] = insns[g]
      /\ Len(insns'[f]) = Len(insns[f]) + Len(list)
      /\ Len(insns[f]) \in Nat /\ Len(list) \in Nat
      /\ \A i \in DOMAIN insns'[f] :
            \/ i \in DOMAIN insns[f] /\ insns'[f][i] = insns[f][i]
            \/ \E k \in DOMAIN list : i = Len(insns[f]) + k /\ insns'[f][i] = list[k]
    <2>1. Longer(f, list) BY <1>0, Appended
    <2> QED BY <2>1 DEF Longer
<1>2. next_label[f] \in Nat /\ next_label'[f] = next_label[f] + m
        /\ \A g \in Functions \ {f} : next_label'[g] = next_label[g]
    BY <1>0 DEF TypeOK
<1>3. TypeOK' BY <1>0, <1>1, <1>2 DEF TypeOK
<1>4. \A k \in DOMAIN list :
        list[k].id \in Locals \ Objects
        /\ \E c \in 1..Len(list) : list[k].id = <<f, build[f], Len(insns[f]) + c>>
    <2> TAKE k \in DOMAIN list
    <2>1. PICK c \in 1..Len(list) : list[k].id = <<f, build[f], Len(insns[f]) + c>>
        BY DEF Local
    <2>2. build[f] \in Nat /\ Len(insns[f]) + c \in Nat BY <1>0, <1>1 DEF TypeOK
    <2>3. <<f, build[f], Len(insns[f]) + c>> \in Locals BY <2>2 DEF Locals
    <2> QED BY <2>1, <2>3, LabelAssumption DEF Locals
<1>5. \A o \in Objects : ObjectOK(o)' BY DEF IInv, ObjectOK
<1>6. \A g \in Functions : \A i \in DOMAIN insns'[g] : InsnOK(g, i)'
    <2> TAKE g \in Functions
    <2> TAKE i \in DOMAIN insns'[g]
    <2>1. CASE g # f
        <3>1. i \in DOMAIN insns[g] /\ insns'[g] = insns[g] BY <1>1, <2>1
        <3>2. InsnOK(g, i) BY <3>1 DEF IInv
        <3> QED BY <3>1, <3>2 DEF InsnOK, Here
    <2>2. CASE g = f /\ i \in DOMAIN insns[f] /\ insns'[f][i] = insns[f][i]
        <3>1. InsnOK(f, i) BY <2>2 DEF IInv
        <3>2. 1..Len(insns[f]) \subseteq 1..Len(insns'[f]) BY <1>1
        <3> QED BY <2>2, <3>1, <3>2 DEF InsnOK, Here
    <2>3. ASSUME NEW k \in DOMAIN list, g = f, i = Len(insns[f]) + k, insns'[f][i] = list[k]
          PROVE  InsnOK(g, i)'
        <3>1. PICK c \in 1..Len(list) : list[k].id = <<f, build[f], Len(insns[f]) + c>>
            BY <1>4
        <3>2. Len(insns[f]) + c \in 1..Len(insns'[f]) BY <1>1
        <3> QED BY <1>4, <2>3, <3>1, <3>2 DEF InsnOK
    <2> QED BY <1>1, <2>1, <2>2, <2>3
<1>7. \A g \in Functions \ {f} : Numbered(Bound(g), next_label[g])'
    <2> TAKE g \in Functions \ {f}
    <2>1. Bound(g)' = Bound(g) BY <1>1 DEF Bound, Here
    <2> QED BY <1>2, <2>1 DEF IInv, Numbered
<1>8. Numbered(Bound(f), next_label[f])'
    <2>1. Bound(f)' \subseteq Bound(f) \cup F BY <1>1 DEF Bound, Here
    <2>2. \A x \in F, y \in Bound(f) : x[1] # y[1]
        <3> SUFFICES ASSUME NEW k \in DOMAIN list, NEW y \in Bound(f),
                            list[k].id = y[1]
                     PROVE  FALSE
            OBVIOUS
        <3>1. PICK i \in DOMAIN insns[f] : y[1] = insns[f][i].id
            BY <1>4 DEF Bound
        <3>2. PICK b \in 1..Len(insns[f]) : y[1] = <<f, build[f], b>>
            BY <1>4, <3>1 DEF IInv, InsnOK
        <3>3. PICK c \in 1..Len(list) : y[1] = <<f, build[f], Len(insns[f]) + c>> BY <1>4
        <3>4. b = Len(insns[f]) + c BY <3>2, <3>3
        <3> QED BY <1>1, <3>4
    <2>3. Numbered(Bound(f), next_label[f]) BY DEF IInv
    <2>4. \A x \in F : next_label[f] <= x[2] OBVIOUS
    <2>5. next_label[f] + m \in Nat /\ next_label[f] <= next_label[f] + m BY <1>2
    <2>6. \A x \in F : next_label[f] <= x[2] /\ \A y \in Bound(f) : x[1] # y[1]
        BY <2>2, <2>4
    <2>7. Numbered(F, next_label[f] + m) OBVIOUS
    <2> HIDE DEF F
    <2>8. Numbered(Bound(f)', next_label[f] + m)
        BY ONLY <1>2, <2>1, <2>3, <2>5, <2>6, <2>7, Grow
    <2> QED BY <1>2, <2>8 DEF Numbered
<1> QED BY <1>3, <1>5, <1>6, <1>7, <1>8 DEF IInv

(* pa_async_check: one label of its own.                                   *)
LEMMA InvAsyncCheck ==
    ASSUME IInv, NEW f \in Functions, pa_async_check(f)
    PROVE  IInv'
<1> DEFINE n == next_label[f]
           x == [kind |-> "branch", num |-> n, id |-> Local(f, 1)]
           y == [kind |-> "label", num |-> n, id |-> Local(f, 1)]
           list == <<x, y>>
<1>1. n \in Nat /\ build[f] \in Nat /\ Len(insns[f]) \in Nat BY DEF IInv, TypeOK
<1>2. Local(f, 1) \in Locals BY <1>1 DEF Local, Locals
<1>3. x \in Insn /\ y \in Insn BY <1>1, <1>2 DEF Insn, Kinds
<1>4. list \in Seq(Insn) /\ Len(list) = 2 /\ DOMAIN list = 1..2
        /\ list[1] = x /\ list[2] = y
    BY <1>3
<1>5. \A k \in DOMAIN list : list[k].id = Local(f, 1) /\ list[k].num = n
    BY <1>4
<1>6. insns' = [insns EXCEPT ![f] = @ \o list]
    BY DEF pa_async_check, Append_
<1> HIDE DEF list
<1>7. Numbered({<<list[k].id, list[k].num>> : k \in DOMAIN list}, next_label[f] + 1)
    BY <1>1, <1>5 DEF Numbered
<1>8. \A k \in DOMAIN list : \E c \in 1..Len(list) : list[k].id = Local(f, c)
    BY <1>4, <1>5
<1>9. \A k \in DOMAIN list : next_label[f] <= list[k].num BY <1>1, <1>5
<1>10. next_label' = [next_label EXCEPT ![f] = @ + 1]
       /\ UNCHANGED <<iv, build, home, alive>>
    BY DEF pa_async_check
<1> QED BY <1>4, <1>6, <1>7, <1>8, <1>9, <1>10, Emitter

(* pa_sv_nv: two labels of its own.                                        *)
LEMMA InvSvNv ==
    ASSUME IInv, NEW f \in Functions, pa_sv_nv(f)
    PROVE  IInv'
<1> DEFINE n == next_label[f]
           x1 == [kind |-> "branch", num |-> n, id |-> Local(f, 1)]
           x2 == [kind |-> "branch", num |-> n + 1, id |-> Local(f, 2)]
           x3 == [kind |-> "label", num |-> n, id |-> Local(f, 1)]
           x4 == [kind |-> "label", num |-> n + 1, id |-> Local(f, 2)]
           list == <<x1, x2, x3, x4>>
<1>1. n \in Nat /\ build[f] \in Nat /\ Len(insns[f]) \in Nat BY DEF IInv, TypeOK
<1>2. Local(f, 1) \in Locals /\ Local(f, 2) \in Locals BY <1>1 DEF Local, Locals
<1>3. x1 \in Insn /\ x2 \in Insn /\ x3 \in Insn /\ x4 \in Insn
    BY <1>1, <1>2 DEF Insn, Kinds
<1>4. list \in Seq(Insn) /\ Len(list) = 4 /\ DOMAIN list = 1..4
        /\ list[1] = x1 /\ list[2] = x2 /\ list[3] = x3 /\ list[4] = x4
    BY <1>3
<1>5. \A k \in DOMAIN list :
        \/ list[k].id = Local(f, 1) /\ list[k].num = n
        \/ list[k].id = Local(f, 2) /\ list[k].num = n + 1
    BY <1>4
<1>6. insns' = [insns EXCEPT ![f] = @ \o list]
    BY DEF pa_sv_nv, Append_
<1> HIDE DEF list
<1>a. Local(f, 1) # Local(f, 2) BY <1>1 DEF Local
<1>7. Numbered({<<list[k].id, list[k].num>> : k \in DOMAIN list}, next_label[f] + 2)
    <2> DEFINE F == {<<list[k].id, list[k].num>> : k \in DOMAIN list}
    <2>1. \A z \in F : \/ z[1] = Local(f, 1) /\ z[2] = n
                       \/ z[1] = Local(f, 2) /\ z[2] = n + 1
        BY <1>5
    <2> HIDE DEF F
    <2>2. Numbered(F, next_label[f] + 2) BY <1>1, <1>a, <2>1 DEF Numbered
    <2> QED BY <2>2 DEF F
<1>8. \A k \in DOMAIN list : \E c \in 1..Len(list) : list[k].id = Local(f, c)
    BY <1>4, <1>5
<1>9. \A k \in DOMAIN list : next_label[f] <= list[k].num BY <1>1, <1>5
<1>10. next_label' = [next_label EXCEPT ![f] = @ + 2]
       /\ UNCHANGED <<iv, build, home, alive>>
    BY DEF pa_sv_nv
<1> QED BY <1>4, <1>6, <1>7, <1>8, <1>9, <1>10, Emitter

(* A new object has no number and is bound nowhere.                        *)
LEMMA InvUndefined ==
    ASSUME IInv, NEW o \in Objects, jit_label_undefined(o)
    PROVE  IInv'
<1>1. /\ iv \in [Objects -> Nat \cup {Undefined, Unborn}]
      /\ iv[o] = Unborn /\ iv' = [iv EXCEPT ![o] = Undefined]
      /\ UNCHANGED <<next_label, insns, build, home, alive>>
    BY DEF IInv, TypeOK, jit_label_undefined
<1>2. home[o] = {} BY <1>1, LabelAssumption DEF IInv, ObjectOK
<1>3. TypeOK' BY <1>1 DEF IInv, TypeOK
<1>4. \A p \in Objects : ObjectOK(p)'
    BY <1>1, <1>2, LabelAssumption DEF IInv, ObjectOK
<1>5. \A f \in Functions : \A i \in DOMAIN insns[f] : InsnOK(f, i)'
    BY <1>1, <1>2 DEF IInv, InsnOK, Here
<1>6. \A f \in Functions : Numbered(Bound(f), next_label[f])'
    <2> TAKE f \in Functions
    <2>1. Bound(f)' = Bound(f) BY <1>1, <1>2 DEF Bound, Here
    <2> QED BY <1>1, <2>1 DEF IInv, Numbered
<1> QED BY <1>1, <1>3, <1>4, <1>5, <1>6 DEF IInv

(* A compiled function starts again with an empty list, and a build that   *)
(* no label has seen.                                                      *)
LEMMA InvCompile ==
    ASSUME IInv, NEW f \in Functions, jit_function_compile(f)
    PROVE  IInv'
<1>1. TypeOK BY DEF IInv
<1>2. /\ insns' = [insns EXCEPT ![f] = <<>>]
      /\ next_label' = [next_label EXCEPT ![f] = 0]
      /\ build' = [build EXCEPT ![f] = @ + 1]
      /\ UNCHANGED <<iv, home, alive>>
    BY DEF jit_function_compile
<1>3. TypeOK' BY <1>1, <1>2 DEF TypeOK
<1>4. \A o \in Objects : ObjectOK(o)'
    <2> TAKE o \in Objects
    <2>1. ObjectOK(o) BY DEF IInv
    <2>2. \A g \in Functions : build[g] \in Nat /\ build[g] <= build'[g] /\ build'[g] \in Nat
        BY <1>1, <1>2 DEF TypeOK
    <2> QED BY <1>2, <2>1, <2>2 DEF ObjectOK
<1>5. \A g \in Functions : \A i \in DOMAIN insns'[g] : InsnOK(g, i)'
    <2> TAKE g \in Functions
    <2> TAKE i \in DOMAIN insns'[g]
    <2>1. CASE g = f BY <1>1, <1>2, <2>1 DEF TypeOK
    <2>2. CASE g # f
        <3>1. insns'[g] = insns[g] /\ build'[g] = build[g]
            BY <1>1, <1>2, <2>2 DEF TypeOK
        <3>2. InsnOK(g, i) BY <3>1 DEF IInv
        <3> QED BY <1>2, <3>1, <3>2 DEF InsnOK, Here
    <2> QED BY <2>1, <2>2
<1>6. \A g \in Functions : Numbered(Bound(g), next_label[g])'
    <2> TAKE g \in Functions
    <2>1. CASE g = f
        <3>1. DOMAIN insns'[f] = {} BY <1>1, <1>2 DEF TypeOK
        <3>2. build'[f] = build[f] + 1 /\ build[f] \in Nat BY <1>1, <1>2 DEF TypeOK
        <3>3. \A o \in Objects : home[o] # {<<f, build'[f]>>}
            <4> SUFFICES ASSUME NEW o \in Objects, home[o] = {<<f, build'[f]>>}
                         PROVE  FALSE
                OBVIOUS
            <4>1. <<f, build'[f]>> \in home[o] OBVIOUS
            <4>2. build'[f] <= build[f] BY <4>1 DEF IInv, ObjectOK
            <4> QED BY <3>2, <4>2
        <3>4. Bound(f)' = {} BY <1>2, <3>1, <3>3 DEF Bound, Here
        <3> QED BY <2>1, <3>4 DEF Numbered
    <2>2. CASE g # f
        <3>1. insns'[g] = insns[g] /\ build'[g] = build[g]
                /\ next_label'[g] = next_label[g]
            BY <1>1, <1>2, <2>2 DEF TypeOK
        <3>2. Bound(g)' = Bound(g) BY <1>2, <3>1 DEF Bound, Here
        <3> QED BY <3>1, <3>2 DEF IInv, Numbered
    <2> QED BY <2>1, <2>2
<1> QED BY <1>3, <1>4, <1>5, <1>6 DEF IInv

(* A reserved label takes the counter and belongs to the present build.    *)
LEMMA InvReserve ==
    ASSUME IInv, NEW f \in Functions, NEW o \in Objects,
           jit_function_reserve_label(f, o)
    PROVE  IInv'
<1>1. TypeOK BY DEF IInv
<1>2. /\ iv[o] = Unborn
      /\ iv' = [iv EXCEPT ![o] = next_label[f]]
      /\ next_label' = [next_label EXCEPT ![f] = @ + 1]
      /\ home' = [home EXCEPT ![o] = {<<f, build[f]>>}]
      /\ UNCHANGED <<insns, build, alive>>
    BY DEF jit_function_reserve_label
<1>3. home[o] = {} BY <1>2, LabelAssumption DEF IInv, ObjectOK
<1>4. /\ next_label[f] \in Nat /\ build[f] \in Nat
      /\ iv'[o] = next_label[f] /\ home'[o] = {Here(f)}
      /\ \A p \in Objects \ {o} : iv'[p] = iv[p] /\ home'[p] = home[p]
      /\ next_label'[f] = next_label[f] + 1
      /\ \A g \in Functions \ {f} : next_label'[g] = next_label[g]
    BY <1>1, <1>2, <1>3 DEF TypeOK, Here
<1>5. TypeOK' BY <1>1, <1>2, <1>4 DEF TypeOK
<1>6. \A p \in Objects : ObjectOK(p)'
    <2> TAKE p \in Objects
    <2>1. CASE p = o
        <3>1. iv'[p] \in Nat /\ home'[p] # {} BY <1>4, <2>1
        <3>2. \A q \in home'[p] : q = <<f, build[f]>> BY <1>4, <2>1 DEF Here
        <3>3. \A q \in home'[p] : q[1] \in Functions /\ q[2] \in Nat /\ q[2] <= build[q[1]]
            BY <1>4, <3>2
        <3> QED BY <1>2, <3>1, <3>3 DEF ObjectOK
    <2>2. CASE p # o BY <1>2, <1>4, <2>2 DEF IInv, ObjectOK
    <2> QED BY <2>1, <2>2
<1>7. \A g \in Functions : \A i \in DOMAIN insns[g] : InsnOK(g, i)'
    <2> TAKE g \in Functions
    <2> TAKE i \in DOMAIN insns[g]
    <2>1. InsnOK(g, i) BY DEF IInv
    <2>2. \A p \in Objects : home[p] # {} => iv'[p] = iv[p] /\ home'[p] = home[p]
        BY <1>3, <1>4
    <2>3. Here(g)' = Here(g) /\ insns' = insns /\ build' = build BY <1>2 DEF Here
    <2> QED BY <2>1, <2>2, <2>3 DEF InsnOK
<1>8. \A g \in Functions : Numbered(Bound(g), next_label[g])'
    <2> TAKE g \in Functions
    <2>0. Numbered(Bound(g), next_label[g]) BY DEF IInv
    <2>1. CASE g # f
        <3>1. Here(g) # Here(f) BY <2>1 DEF Here
        <3>2. Bound(g)' \subseteq Bound(g) BY <1>2, <1>4, <3>1 DEF Bound, Here
        <3> QED BY <1>4, <2>0, <2>1, <3>2 DEF Numbered
    <2>2. CASE g = f
        <3> DEFINE F == {<<o, next_label[f]>>}
        <3>1. Bound(f)' \subseteq Bound(f) \cup F BY <1>2, <1>4 DEF Bound, Here
        <3>2. \A y \in Bound(f) : o # y[1]
            BY <1>3, LabelAssumption DEF Bound, Locals
        <3>3. Numbered(F, next_label[f] + 1) BY <1>4 DEF Numbered
        <3>4. \A x \in F : next_label[f] <= x[2] /\ \A y \in Bound(f) : x[1] # y[1]
            BY <1>4, <3>2
        <3>5. next_label[f] + 1 \in Nat /\ next_label[f] <= next_label[f] + 1
            BY <1>4
        <3> HIDE DEF F
        <3>6. Numbered(Bound(f)', next_label[f] + 1)
            BY ONLY <1>4, <2>0, <2>2, <3>1, <3>3, <3>4, <3>5, Grow
        <3> QED BY <1>4, <2>2, <3>6 DEF Numbered
    <2> QED BY <2>1, <2>2
<1> QED BY <1>2, <1>5, <1>6, <1>7, <1>8 DEF IInv

(* An instruction with an object: the object keeps the number it has, or   *)
(* gets the counter as its number; the instruction names that number.      *)
LEMMA InvLabelInsn ==
    ASSUME IInv, NEW f \in Functions, NEW o \in Objects, NEW kind \in Kinds,
           LabelInsn(f, o, kind)
    PROVE  IInv'
<1> DEFINE n == Number(f, iv[o])
           x == [kind |-> kind, num |-> n, id |-> o]
           list == <<x>>
<1>1. TypeOK BY DEF IInv
<1>2. /\ iv[o] # Unborn
      /\ insns' = [insns EXCEPT ![f] = @ \o list]
      /\ next_label' = [next_label EXCEPT ![f] = Counter(f, iv[o])]
      /\ iv' = [iv EXCEPT ![o] = n]
      /\ home' = [home EXCEPT ![o] = IF iv[o] = Undefined
                                     THEN {<<f, build[f]>>} ELSE @]
      /\ UNCHANGED <<build, alive>>
    BY DEF LabelInsn, Append_, SvIV, SvIV_set
<1>3. /\ iv[o] \in Nat \cup {Undefined}
      /\ next_label[f] \in Nat /\ build[f] \in Nat
      /\ n \in Nat /\ iv'[o] = n
      /\ iv[o] \in Nat => /\ n = iv[o] /\ next_label'[f] = next_label[f]
                          /\ home'[o] = home[o]
      /\ iv[o] = Undefined => /\ n = next_label[f]
                              /\ next_label'[f] = next_label[f] + 1
                              /\ home'[o] = {Here(f)}
      /\ \A p \in Objects \ {o} : iv'[p] = iv[p] /\ home'[p] = home[p]
      /\ \A g \in Functions \ {f} : next_label'[g] = next_label[g]
    BY <1>1, <1>2, LabelAssumption DEF TypeOK, Number, Counter, Here
<1>4. x \in Insn BY <1>3 DEF Insn
<1>5. list \in Seq(Insn) /\ Len(list) = 1 /\ list[1] = x /\ DOMAIN list = {1}
    BY <1>4
<1>6. /\ insns' \in [Functions -> Seq(Insn)]
      /\ \A g \in Functions \ {f} : insns'[g] = insns[g]
      /\ Len(insns'[f]) = Len(insns[f]) + 1 /\ Len(insns[f]) \in Nat
      /\ \A i \in DOMAIN insns'[f] :
            \/ i \in DOMAIN insns[f] /\ insns'[f][i] = insns[f][i]
            \/ i = Len(insns[f]) + 1 /\ insns'[f][i] = x
    <2> HIDE DEF list
    <2>1. Longer(f, list) BY <1>1, <1>2, <1>5, Appended
    <2> QED BY <1>5, <2>1 DEF Longer
<1> HIDE DEF n
<1>7. TypeOK'
    <2>1. next_label' \in [Functions -> Nat] /\ iv' \in [Objects -> Nat \cup {Undefined, Unborn}]
        BY <1>1, <1>2, <1>3 DEF TypeOK
    <2>2. home' \in [Objects -> SUBSET (Functions \X Nat)]
        BY <1>1, <1>2, <1>3 DEF TypeOK
    <2> QED BY <1>1, <1>2, <1>6, <2>1, <2>2 DEF TypeOK
<1>8. \A p \in Objects : ObjectOK(p)'
    <2> TAKE p \in Objects
    <2>0. ObjectOK(p) BY DEF IInv
    <2>1. CASE p = o
        <3>0. iv[p] \in Nat => home[p] # {} BY <2>0 DEF ObjectOK
        <3>1. iv'[p] \in Nat /\ home'[p] # {} BY <1>3, <2>1, <3>0
        <3>2. \A q \in home'[p] : q \in home[p] \/ q = <<f, build[f]>>
            BY <1>3, <2>1 DEF Here
        <3>3. \A q \in home'[p] : q[1] \in Functions /\ q[2] \in Nat /\ q[2] <= build[q[1]]
            BY <1>3, <2>0, <3>2 DEF ObjectOK
        <3> QED BY <1>2, <3>1, <3>3 DEF ObjectOK
    <2>2. CASE p # o BY <1>2, <1>3, <2>0, <2>2 DEF ObjectOK
    <2> QED BY <2>1, <2>2
\* An object that instructions name has a number, and keeps its home.
<1>9. \A p \in Objects : home[p] # {} => iv'[p] = iv[p] /\ home'[p] = home[p]
    BY <1>3 DEF IInv, ObjectOK
<1>10. \A g \in Functions : \A i \in DOMAIN insns'[g] : InsnOK(g, i)'
    <2> TAKE g \in Functions
    <2> TAKE i \in DOMAIN insns'[g]
    <2>1. ASSUME i \in DOMAIN insns[g], insns'[g][i] = insns[g][i]
          PROVE  InsnOK(g, i)'
        <3>1. InsnOK(g, i) BY <2>1 DEF IInv
        <3>2. 1..Len(insns[g]) \subseteq 1..Len(insns'[g]) BY <1>6
        <3>4. build' = build BY <1>2
        <3> QED BY <1>9, <2>1, <3>1, <3>2, <3>4 DEF InsnOK, Here
    <2>2. ASSUME g = f, insns'[f][i] = x
          PROVE  InsnOK(g, i)'
        <3>1. insns'[g][i].id = o /\ insns'[g][i].num = n BY <2>2
        <3>2. o \notin Locals BY LabelAssumption DEF Locals
        <3>3. Here(g)' = Here(f) BY <1>2, <2>2 DEF Here
        <3>4. iv'[o] = n /\ home'[o] # {} BY <1>3, <1>8, <1>7 DEF ObjectOK
        <3> QED BY <3>1, <3>2, <3>3, <3>4 DEF InsnOK
    <2> QED BY <1>6, <2>1, <2>2
<1>11. \A g \in Functions : Numbered(Bound(g), next_label[g])'
    <2> TAKE g \in Functions
    <2>0. Numbered(Bound(g), next_label[g]) BY DEF IInv
    <2>a. x.id \notin Locals BY LabelAssumption DEF Locals
    <2>1. CASE g # f
        <3>1. Here(g) # Here(f) BY <2>1 DEF Here
        <3>2. insns'[g] = insns[g] /\ Here(g)' = Here(g) BY <1>2, <1>6, <2>1 DEF Here
        <3>3. \A p \in Objects : home'[p] = {Here(g)} => home[p] = {Here(g)} /\ iv'[p] = iv[p]
            BY <1>3, <3>1
        <3>4. Bound(g)' \subseteq Bound(g) BY <3>2, <3>3 DEF Bound
        <3> QED BY <1>3, <2>0, <2>1, <3>4 DEF Numbered
    <2>2. CASE g = f /\ iv[o] \in Nat
        <3>2. iv'[o] = iv[o] /\ home'[o] = home[o] BY <1>3, <2>2
        <3>3. Bound(f)' \subseteq Bound(f)
            BY <1>2, <1>3, <1>6, <2>a, <3>2 DEF Bound, Here
        <3> QED BY <1>3, <2>0, <2>2, <3>3 DEF Numbered
    <2>3. CASE g = f /\ iv[o] = Undefined
        <3> DEFINE F == {<<o, next_label[f]>>}
        <3>0. home[o] = {} BY <2>3, LabelAssumption DEF IInv, ObjectOK
        <3>1. Bound(f)' \subseteq Bound(f) \cup F
            BY <1>2, <1>3, <1>6, <2>a, <2>3 DEF Bound, Here
        <3>2. \A y \in Bound(f) : o # y[1]
            BY <3>0, LabelAssumption DEF Bound, Locals
        <3>3. Numbered(F, next_label[f] + 1) BY <1>3 DEF Numbered
        <3>4. \A z \in F : next_label[f] <= z[2] /\ \A y \in Bound(f) : z[1] # y[1]
            BY <1>3, <3>2
        <3>5. next_label[f] + 1 \in Nat /\ next_label[f] <= next_label[f] + 1
            BY <1>3
        <3> HIDE DEF F
        <3>6. Numbered(Bound(f)', next_label[f] + 1)
            BY ONLY <1>3, <2>0, <2>3, <3>1, <3>3, <3>4, <3>5, Grow
        <3> QED BY <1>3, <2>3, <3>6 DEF Numbered
    <2> QED BY <1>3, <2>1, <2>2, <2>3
<1> QED BY <1>7, <1>8, <1>10, <1>11 DEF IInv

-----------------------------------------------------------------------------

(* The invariant does not speak of anything else than these variables.     *)
LEMMA InvSame ==
    ASSUME IInv, UNCHANGED <<iv, next_label, insns, build, home>>, alive' \in BOOLEAN
    PROVE  IInv'
<1>1. TypeOK' BY DEF IInv, TypeOK
<1>2. \A f \in Functions : \A i \in DOMAIN insns[f] : InsnOK(f, i)'
    BY DEF IInv, InsnOK, Here
<1>3. \A o \in Objects : ObjectOK(o)' BY DEF IInv, ObjectOK
<1>4. \A f \in Functions : Numbered(Bound(f), next_label[f])'
    <2> TAKE f \in Functions
    <2>1. Bound(f)' = Bound(f) BY DEF Bound, Here
    <2> QED BY <2>1 DEF IInv, Numbered
<1> QED BY <1>1, <1>2, <1>3, <1>4 DEF IInv

(* Each step of the specification keeps the invariant.                     *)
LEMMA InvNext == IInv /\ [Next]_vars => IInv'
<1> SUFFICES ASSUME IInv, [Next]_vars PROVE IInv' OBVIOUS
<1>1. CASE UNCHANGED vars
    BY <1>1, InvSame DEF vars, IInv, TypeOK
<1>2. CASE \E o \in Objects : jit_label_undefined(o) BY <1>2, InvUndefined
<1>3. ASSUME NEW f \in Functions, jit_function_compile(f) PROVE IInv'
    BY <1>3, InvCompile
<1>4. ASSUME NEW f \in Functions, pa_async_check(f) PROVE IInv'
    BY <1>4, InvAsyncCheck
<1>5. ASSUME NEW f \in Functions, pa_sv_nv(f) PROVE IInv'
    BY <1>5, InvSvNv
<1>6. ASSUME NEW f \in Functions, NEW o \in Objects, jit_function_reserve_label(f, o)
      PROVE  IInv'
    BY <1>6, InvReserve
<1>7. ASSUME NEW f \in Functions, NEW o \in Objects, jit_insn_address_of_label(f, o)
      PROVE  IInv'
    BY <1>7, InvSame DEF jit_insn_address_of_label
<1>8. ASSUME NEW f \in Functions, NEW o \in Objects, NEW kind \in Kinds,
             LabelInsn(f, o, kind)
      PROVE  IInv'
    BY <1>8, InvLabelInsn
<1> QED BY <1>1, <1>2, <1>3, <1>4, <1>5, <1>6, <1>7, <1>8 DEF Next

(* Every reachable state satisfies the invariant.                          *)
THEOREM Invariant == Spec => []IInv
BY InvInit, InvNext, PTL DEF Spec

(* Label objects and instructions hold what the wrappers and libjit take   *)
(* them to hold (xsp/instruction.xsp:23-53).                               *)
THEOREM TypeCorrect == Spec => []TypeOK
<1>1. IInv => TypeOK BY DEF IInv
<1> QED BY <1>1, Invariant, PTL

(* Instructions with the same label go to the same place, and instructions *)
(* with different labels of the present build to different places.         *)
THEOREM Agree == Spec => []LabelsAgree
BY InvAgrees, Invariant, PTL

(* The number of a label never changes.                                    *)
THEOREM Stable == Spec => LabelStable
<1>1. IInv /\ [Next]_vars => [\A o \in Objects : iv[o] \in Nat => iv'[o] = iv[o]]_vars
    <2> SUFFICES ASSUME IInv, Next, NEW p \in Objects, iv[p] \in Nat
                 PROVE  iv'[p] = iv[p]
        OBVIOUS
    <2>0. iv \in [Objects -> Nat \cup {Undefined, Unborn}] BY DEF IInv, TypeOK
    <2>1. ASSUME NEW o \in Objects, jit_label_undefined(o) PROVE iv'[p] = iv[p]
        BY <2>0, <2>1, LabelAssumption DEF jit_label_undefined
    <2>2. ASSUME NEW f \in Functions,
                 jit_function_compile(f) \/ pa_async_check(f) \/ pa_sv_nv(f)
          PROVE  iv'[p] = iv[p]
        BY <2>2 DEF jit_function_compile, pa_async_check, pa_sv_nv
    <2>3. ASSUME NEW f \in Functions, NEW o \in Objects, jit_function_reserve_label(f, o)
          PROVE  iv'[p] = iv[p]
        BY <2>0, <2>3, LabelAssumption DEF jit_function_reserve_label
    <2>4. ASSUME NEW f \in Functions, NEW o \in Objects, jit_insn_address_of_label(f, o)
          PROVE  iv'[p] = iv[p]
        BY <2>4 DEF jit_insn_address_of_label
    <2>5. ASSUME NEW f \in Functions, NEW o \in Objects, NEW kind \in Kinds,
                 LabelInsn(f, o, kind)
          PROVE  iv'[p] = iv[p]
        BY <2>0, <2>5, LabelAssumption DEF LabelInsn, SvIV, SvIV_set, Number
    <2> QED BY <2>1, <2>2, <2>3, <2>4, <2>5 DEF Next
<1> QED BY <1>1, Invariant, PTL DEF Spec, LabelStable
=============================================================================

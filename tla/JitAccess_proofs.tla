--------------------------- MODULE JitAccess_proofs --------------------------
(***************************************************************************)
(* Proofs about JitAccess: the scalars in globs, arrays, pads and closures *)
(* implement the variables of PerlVars, for any values, registers and      *)
(* indexes, and any number of scopes and closures.                         *)
(***************************************************************************)
EXTENDS JitAccess, FiniteSetTheorems, TLAPS

-----------------------------------------------------------------------------
(* The inductive invariant.                                                *)

(* A scalar is in one place: a variable, an element, what local has put    *)
(* aside, the lexical.  Closures hold the lexical, too, at most once.      *)
Once(q)     == \A m \in DOMAIN q, n \in DOMAIN q : m # n /\ q[m] # NULL => q[m] # q[n]
Apart(p, q) == \A m \in DOMAIN p, n \in DOMAIN q : p[m] # NULL => p[m] # q[n]
Lacks(q, s) == \A n \in DOMAIN q : q[n] # s

OnePlace(g, s, a, p, k) ==
  /\ Once(s) /\ Once(a) /\ Once(k)
  /\ Apart(s, a) /\ Apart(s, k) /\ Apart(a, k)
  /\ g # NULL => Lacks(s, g) /\ Lacks(a, g) /\ Lacks(k, g) /\ g # p
  /\ Lacks(s, p) /\ Lacks(a, p)

(* A temporary: nothing but one register refers to it.                     *)
Loose(x, g, s, a, p, k) ==
  x \in SV /\ x # g /\ x # p /\ Lacks(s, x) /\ Lacks(a, x) /\ Lacks(k, x)

RegOK(r) ==
  \/ reg[r] \in {NULL, PL_sv_undef, gv_sv, pad}
  \/ \E n \in DOMAIN av : av[n] # NULL /\ reg[r] = av[n]
  \/ /\ Loose(reg[r], gv_sv, saved, av, pad, kept)
     /\ \A q \in Reg : q # r => reg[q] # reg[r]

Bounded ==
  Len(saved) <= MaxScopes /\ Len(av) <= MaxElems /\ Len(kept) <= MaxClosures

IInv ==
  /\ TypeOK
  /\ Bounded
  /\ OnePlace(gv_sv, saved, av, pad, kept)
  /\ \A r \in Reg : RegOK(r)

-----------------------------------------------------------------------------
(* There is a free scalar.                                                 *)

LEMMA ToSetBounded ==
  ASSUME NEW S, NEW q \in Seq(S)
  PROVE  /\ IsFiniteSet(ToSet(q)) /\ Cardinality(ToSet(q)) \in Nat
         /\ Cardinality(ToSet(q)) <= Len(q)
<1>1. q \in Surjection(1..Len(q), ToSet(q))
  BY DEF Surjection, ToSet
<1>2. Len(q) \in Nat
  OBVIOUS
<1>3. IsFiniteSet(1..Len(q)) /\ Cardinality(1..Len(q)) = Len(q)
  <2>1. PICK n \in Nat : n = Len(q)
    BY <1>2
  <2>2. 1 \in Int /\ n \in Int
    OBVIOUS
  <2>3. IsFiniteSet(1..n) /\ Cardinality(1..n) = IF 1 > n THEN 0 ELSE n - 1 + 1
    BY <2>2, FS_Interval
  <2> QED
    BY <2>1, <2>3
<1> QED
  BY <1>1, <1>2, <1>3, FS_Surjection, FS_CardinalityType

LEMMA UnionBounded ==
  ASSUME NEW S, NEW T, NEW m \in Nat, NEW n \in Nat,
         IsFiniteSet(S), IsFiniteSet(T), Cardinality(S) <= m, Cardinality(T) <= n
  PROVE  IsFiniteSet(S \cup T) /\ Cardinality(S \cup T) <= m + n
<1>1. IsFiniteSet(S \cap T)
  BY FS_Intersection
<1>2. /\ Cardinality(S) \in Nat /\ Cardinality(T) \in Nat
      /\ Cardinality(S \cap T) \in Nat /\ Cardinality(S \cup T) \in Nat
  BY <1>1, FS_Union, FS_CardinalityType
<1> QED
  BY <1>2, FS_Union

LEMMA UsedBounded ==
  ASSUME IInv
  PROVE  /\ IsFiniteSet(Used)
         /\ Cardinality(Used)
              <= 2 + MaxScopes + MaxClosures + MaxElems + Cardinality(Reg)
<1> DEFINE Held == {reg[r] : r \in Reg}
<1>1. /\ MaxScopes \in Nat /\ MaxClosures \in Nat /\ MaxElems \in Nat
      /\ IsFiniteSet(Reg) /\ Cardinality(Reg) \in Nat
  BY AccessAssumption, FS_CardinalityType
<1>2. IsFiniteSet({gv_sv} \cup {pad}) /\ Cardinality({gv_sv} \cup {pad}) <= 2
  <2>1. PICK A : A = {gv_sv}
    OBVIOUS
  <2>2. PICK B : B = {pad}
    OBVIOUS
  <2>3. /\ IsFiniteSet(A) /\ Cardinality(A) = 1
        /\ IsFiniteSet(B) /\ Cardinality(B) = 1
    BY <2>1, <2>2, FS_Singleton
  <2>4. IsFiniteSet(A \cup B) /\ Cardinality(A \cup B) <= 1 + 1
    BY <2>3, UnionBounded
  <2> QED
    BY <2>1, <2>2, <2>4
<1>3. IsFiniteSet(ToSet(kept)) /\ Cardinality(ToSet(kept)) <= MaxClosures
  <2>1. kept \in Seq(SV) /\ Len(kept) <= MaxClosures /\ Len(kept) \in Nat
    BY DEF IInv, TypeOK, Bounded
  <2> QED
    BY <1>1, <2>1, ToSetBounded
<1>4. IsFiniteSet(ToSet(saved)) /\ Cardinality(ToSet(saved)) <= MaxScopes
  <2>1. saved \in Seq(SV \cup {NULL}) /\ Len(saved) <= MaxScopes /\ Len(saved) \in Nat
    BY DEF IInv, TypeOK, Bounded
  <2> QED
    BY <1>1, <2>1, ToSetBounded
<1>5. IsFiniteSet(ToSet(av)) /\ Cardinality(ToSet(av)) <= MaxElems
  <2>1. av \in Seq(SV \cup {NULL}) /\ Len(av) <= MaxElems /\ Len(av) \in Nat
    BY DEF IInv, TypeOK, Bounded
  <2> QED
    BY <1>1, <2>1, ToSetBounded
<1>6. IsFiniteSet(Held) /\ Cardinality(Held) <= Cardinality(Reg)
  <2>1. reg \in Surjection(Reg, Held)
    BY DEF IInv, TypeOK, Surjection
  <2> QED
    BY <1>1, <2>1, FS_Surjection
<1> HIDE DEF Held
<1>7. PICK A : A = ({gv_sv} \cup {pad}) \cup ToSet(kept)
  OBVIOUS
<1>8. PICK k \in Nat : k = 2 + MaxClosures
  BY <1>1
<1>9. IsFiniteSet(A) /\ Cardinality(A) <= k
  BY <1>1, <1>2, <1>3, <1>7, <1>8, UnionBounded
<1>10. PICK B : B = A \cup ToSet(saved)
  OBVIOUS
<1>11. PICK l \in Nat : l = k + MaxScopes
  BY <1>1
<1>12. IsFiniteSet(B) /\ Cardinality(B) <= l
  BY <1>1, <1>4, <1>9, <1>10, <1>11, UnionBounded
<1>13. PICK C : C = B \cup ToSet(av)
  OBVIOUS
<1>14. PICK m \in Nat : m = l + MaxElems
  BY <1>1
<1>15. IsFiniteSet(C) /\ Cardinality(C) <= m
  BY <1>1, <1>5, <1>12, <1>13, <1>14, UnionBounded
<1>16. Used = C \cup Held
  BY <1>7, <1>10, <1>13 DEF Used, Held
<1>17. IsFiniteSet(Used) /\ Cardinality(Used) <= m + Cardinality(Reg)
  BY <1>1, <1>6, <1>15, <1>16, UnionBounded
<1>18. Cardinality(Used) \in Nat
  BY <1>17, FS_CardinalityType
<1> QED
  BY <1>1, <1>8, <1>11, <1>14, <1>17, <1>18

(* The one that is taken is referred to by nothing.                        *)
LEMMA FreshIsFree ==
  ASSUME IInv
  PROVE  /\ Fresh \in SV /\ Fresh # NULL /\ Fresh # PL_sv_undef
         /\ Loose(Fresh, gv_sv, saved, av, pad, kept)
         /\ \A r \in Reg : reg[r] # Fresh
<1>1. \E s \in SV : s \notin Used
  <2> SUFFICES ASSUME \A s \in SV : s \in Used
               PROVE  FALSE
    OBVIOUS
  <2>1. SV \in SUBSET Used
    OBVIOUS
  <2>2. IsFiniteSet(SV) /\ Cardinality(SV) <= Cardinality(Used)
    BY <2>1, UsedBounded, FS_Subset
  <2>3. /\ MaxScopes \in Nat /\ MaxClosures \in Nat /\ MaxElems \in Nat
        /\ Cardinality(Reg) \in Nat /\ Cardinality(SV) \in Nat
        /\ Cardinality(Used) \in Nat
    BY <2>2, UsedBounded, AccessAssumption, FS_CardinalityType
  <2> QED
    BY <2>2, <2>3, UsedBounded, AccessAssumption
<1>2. Fresh \in SV /\ Fresh \notin Used
  BY <1>1 DEF Fresh
<1>3. Fresh # NULL /\ Fresh # PL_sv_undef
  BY <1>2, AccessAssumption
<1>4. Fresh # gv_sv /\ Fresh # pad /\ \A r \in Reg : reg[r] # Fresh
  BY <1>2 DEF Used
<1>5. Lacks(saved, Fresh) /\ Lacks(av, Fresh) /\ Lacks(kept, Fresh)
  BY <1>2 DEF Used, ToSet, Lacks
<1> QED
  BY <1>2, <1>3, <1>4, <1>5 DEF Loose

-----------------------------------------------------------------------------
(* Sequences of scalars that lose some, or get another one.                *)
From(t, q, d) ==
  /\ DOMAIN t \subseteq Int
  /\ \A n \in DOMAIN t : t[n] = NULL \/ (n + d \in DOMAIN q /\ t[n] = q[n + d])

Adds(t, q, j, x) ==
  \A n \in DOMAIN t : IF n = j THEN t[n] = x
                      ELSE t[n] = NULL \/ (n \in DOMAIN q /\ t[n] = q[n])

LEMMA Shifted ==
  ASSUME NEW m \in Int, NEW n \in Int, NEW d \in Int, m # n
  PROVE  m + d # n + d
OBVIOUS

LEMMA FromOnce ==
  ASSUME NEW t, NEW q, NEW d \in Int, From(t, q, d), Once(q)
  PROVE  Once(t)
<1> SUFFICES ASSUME NEW m \in DOMAIN t, NEW n \in DOMAIN t, m # n, t[m] # NULL
             PROVE  t[m] # t[n]
  BY DEF Once
<1>1. m \in Int /\ n \in Int /\ m + d \in DOMAIN q /\ t[m] = q[m + d]
  BY DEF From
<1>2. CASE t[n] = NULL
  BY <1>2
<1>3. CASE t[n] # NULL
  <2>1. n + d \in DOMAIN q /\ t[n] = q[n + d]
    BY <1>3 DEF From
  <2>2. m + d # n + d
    BY <1>1, Shifted
  <2> QED
    BY <1>1, <2>1, <2>2 DEF Once
<1> QED
  BY <1>2, <1>3

LEMMA FromApart ==
  ASSUME NEW t, NEW q, NEW d \in Int, From(t, q, d), NEW u
  PROVE  /\ Apart(q, u) => Apart(t, u)
         /\ Apart(u, q) => Apart(u, t)
  BY DEF From, Apart

LEMMA FromLacks ==
  ASSUME NEW t, NEW q, NEW d \in Int, From(t, q, d), NEW x, x # NULL, Lacks(q, x)
  PROVE  Lacks(t, x)
  BY DEF From, Lacks

LEMMA AddsOnce ==
  ASSUME NEW t, NEW q, NEW j, NEW x, Adds(t, q, j, x), Once(q),
         x # NULL => Lacks(q, x)
  PROVE  Once(t)
  BY DEF Adds, Once, Lacks

LEMMA AddsApart ==
  ASSUME NEW t, NEW q, NEW j, NEW x, Adds(t, q, j, x), NEW u,
         x # NULL => Lacks(u, x)
  PROVE  /\ Apart(q, u) => Apart(t, u)
         /\ Apart(u, q) => Apart(u, t)
  BY DEF Adds, Apart, Lacks

LEMMA AddsLacks ==
  ASSUME NEW t, NEW q, NEW j, NEW x, Adds(t, q, j, x), NEW y, y # NULL, x # y,
         Lacks(q, y)
  PROVE  Lacks(t, y)
  BY DEF Adds, Lacks

(* The operations of Perl on them.                                         *)
LEMMA AppendAdds ==
  ASSUME NEW S, NEW q \in Seq(S), NEW x
  PROVE  Adds(Append(q, x), q, Len(q) + 1, x)
<1>1. PICK t : t = Append(q, x)
  OBVIOUS
<1>2. /\ DOMAIN t = 1..Len(q) + 1 /\ DOMAIN q = 1..Len(q) /\ Len(q) \in Nat
      /\ t[Len(q) + 1] = x /\ \A n \in 1..Len(q) : t[n] = q[n]
  BY <1>1
<1> QED
  BY <1>1, <1>2 DEF Adds

LEMMA TailFrom ==
  ASSUME NEW S, NEW q \in Seq(S), q # << >>
  PROVE  From(Tail(q), q, 1) /\ Tail(q) \in Seq(S) /\ Len(Tail(q)) = Len(q) - 1
<1>1. PICK t : t = Tail(q)
  OBVIOUS
<1>2. /\ t \in Seq(S) /\ Len(t) = Len(q) - 1 /\ Len(q) \in Nat
      /\ DOMAIN t = 1..Len(q) - 1 /\ DOMAIN q = 1..Len(q)
      /\ \A n \in 1..Len(q) - 1 : t[n] = q[n + 1]
  BY <1>1
<1> QED
  BY <1>1, <1>2 DEF From

LEMMA FrontFrom ==
  ASSUME NEW S, NEW q \in Seq(S), q # << >>
  PROVE  /\ From(Front(q), q, 0) /\ Front(q) \in Seq(S)
         /\ Len(Front(q)) = Len(q) - 1 /\ Last(q) \in S
         /\ Once(q) /\ Last(q) # NULL => Lacks(Front(q), Last(q))
<1>1. PICK t : t = Front(q)
  OBVIOUS
<1>2. Len(q) \in Nat /\ Len(q) # 0 /\ DOMAIN q = 1..Len(q) /\ Last(q) = q[Len(q)]
  BY DEF Last
<1>3. /\ t \in Seq(S) /\ Len(t) = Len(q) - 1 /\ DOMAIN t = 1..Len(q) - 1
      /\ \A n \in 1..Len(q) - 1 : t[n] = q[n]
  BY <1>1, <1>2 DEF Front
<1>4. From(t, q, 0) /\ Last(q) \in S
  BY <1>2, <1>3 DEF From
<1>5. Once(q) /\ Last(q) # NULL => Lacks(t, Last(q))
  BY <1>2, <1>3 DEF Once, Lacks
<1> QED
  BY <1>1, <1>3, <1>4, <1>5

LEMMA StoredAdds ==
  ASSUME TypeOK, NEW n \in Nat, n # 0, NEW s \in SV
  PROVE  /\ Adds(Stored(n, s), av, n, s)
         /\ Stored(n, s) \in Seq(SV \cup {NULL})
         /\ Len(Stored(n, s)) = IF n > Len(av) THEN n ELSE Len(av)
         /\ \A m \in DOMAIN av : m # n => Stored(n, s)[m] = av[m]
         /\ Stored(n, s)[n] = s /\ n \in DOMAIN Stored(n, s)
<1>1. PICK l \in Nat : l = IF n > Len(av) THEN n ELSE Len(av)
  BY DEF TypeOK
<1>2. PICK t : t = [m \in 1..l |-> IF m = n THEN s ELSE IF m \in DOMAIN av THEN av[m] ELSE NULL]
  OBVIOUS
<1>3. t = Stored(n, s)
  BY <1>1, <1>2 DEF Stored
<1>4. /\ av \in Seq(SV \cup {NULL}) /\ DOMAIN av = 1..Len(av) /\ Len(av) \in Nat
      /\ \A m \in DOMAIN av : av[m] \in SV \cup {NULL}
  BY DEF TypeOK
<1>5. t \in [1..l -> SV \cup {NULL}]
  BY <1>2, <1>4
<1>6. t \in Seq(SV \cup {NULL}) /\ Len(t) = l /\ DOMAIN t = 1..l
  BY <1>5
<1>7. n \in 1..l /\ \A m \in DOMAIN av : m \in 1..l
  <2>1. PICK k \in Nat : k = Len(av)
    BY <1>4
  <2>2. l = IF n > k THEN n ELSE k
    BY <1>1, <2>1
  <2>3. n \in 1..l /\ \A m \in 1..k : m \in 1..l
    BY <2>2
  <2> QED
    BY <1>4, <2>1, <2>3
<1>8. Adds(t, av, n, s)
  BY <1>2, <1>6 DEF Adds
<1> QED
  BY <1>1, <1>2, <1>3, <1>6, <1>7, <1>8

-----------------------------------------------------------------------------
(* The invariant is inductive: first the emitted calls.                    *)
LEMMA InitInv == Init => IInv
<1> SUFFICES ASSUME Init PROVE IInv
  OBVIOUS
<1>1. TypeOK
  <2>1. val \in [SV -> Val \cup {"undef"}] /\ reg \in [Reg -> SV \cup {PL_sv_undef, NULL}]
    BY DEF Init
  <2>2. saved \in Seq(SV \cup {NULL}) /\ av \in Seq(SV \cup {NULL}) /\ kept \in Seq(SV)
    BY DEF Init
  <2> QED
    BY <2>1, <2>2 DEF Init, TypeOK
<1>2. Bounded
  BY AccessAssumption DEF Init, Bounded
<1>3. OnePlace(gv_sv, saved, av, pad, kept)
  BY DEF Init, OnePlace, Once, Apart, Lacks
<1>4. \A r \in Reg : RegOK(r)
  BY DEF Init, RegOK
<1> QED
  BY <1>1, <1>2, <1>3, <1>4 DEF IInv

(* What a register may be given.                                           *)
Available(x) ==
  \/ x \in {NULL, PL_sv_undef, gv_sv, pad}
  \/ \E n \in DOMAIN av : av[n] # NULL /\ x = av[n]
  \/ Loose(x, gv_sv, saved, av, pad, kept) /\ \A q \in Reg : reg[q] # x

LEMMA LoadKeeps ==
  ASSUME IInv, NEW r \in Reg, NEW x, Available(x), Load(r, x),
         UNCHANGED << gv_sv, saved, av, lexical >>,
         val' \in [SV -> Val \cup {"undef"}]
  PROVE  IInv'
<1>1. x \in SV \cup {PL_sv_undef, NULL}
  <2>1. /\ av \in Seq(SV \cup {NULL}) /\ gv_sv \in SV \cup {NULL} /\ pad \in SV
    BY DEF IInv, TypeOK
  <2>2. \A n \in DOMAIN av : av[n] \in SV \cup {NULL}
    BY <2>1
  <2> QED
    BY <2>1, <2>2 DEF Available, Loose
<1>2. reg' \in [Reg -> SV \cup {PL_sv_undef, NULL}]
  BY <1>1 DEF Load, IInv, TypeOK
<1>3. TypeOK' /\ Bounded' /\ OnePlace(gv_sv, saved, av, pad, kept)'
  BY <1>2 DEF IInv, TypeOK, Bounded, OnePlace, lexical
<1>4. ASSUME NEW q \in Reg PROVE RegOK(q)'
  <2>1. reg'[q] = IF q = r THEN x ELSE reg[q]
    BY DEF Load, IInv, TypeOK
  <2>2. \A p \in Reg : reg'[p] = IF p = r THEN x ELSE reg[p]
    BY DEF Load, IInv, TypeOK
  <2>3. CASE q = r
    BY <2>1, <2>2, <2>3 DEF Available, RegOK, Loose, lexical
  <2>4. CASE q # r
    <3>1. RegOK(q)
      BY DEF IInv
    <3>2. CASE \/ reg[q] \in {NULL, PL_sv_undef, gv_sv, pad}
               \/ \E n \in DOMAIN av : av[n] # NULL /\ reg[q] = av[n]
      BY <2>1, <2>4, <3>2 DEF RegOK, lexical
    <3>3. CASE /\ Loose(reg[q], gv_sv, saved, av, pad, kept)
               /\ \A p \in Reg : p # q => reg[p] # reg[q]
      <4>1. x # reg[q]
        BY <3>3, AccessAssumption DEF Available, Loose, Lacks
      <4> QED
        BY <2>2, <2>4, <3>3, <4>1 DEF RegOK, lexical
    <3> QED
      BY <3>1, <3>2, <3>3 DEF RegOK
  <2> QED
    BY <2>3, <2>4
<1> QED
  BY <1>3, <1>4 DEF IInv

LEMMA ValTyped ==
  ASSUME TypeOK, NEW s \in SV, NEW v \in Val \cup {"undef"}
  PROVE  [val EXCEPT ![s] = v] \in [SV -> Val \cup {"undef"}]
BY DEF TypeOK

LEMMA FetchKeeps ==
  ASSUME IInv, NEW r \in Reg, NEW index, pa_av_fetch(r, index)
  PROVE  IInv'
<1>1. PICK x : x = IF InArray(Slot(index)) THEN av[Slot(index)] ELSE PL_sv_undef
  OBVIOUS
<1>2. Available(x) /\ Load(r, x)
  BY <1>1 DEF pa_av_fetch, Available, InArray
<1> QED
  BY <1>2, LoadKeeps DEF pa_av_fetch, IInv, TypeOK

(* The scalar of the glob is created when there is none.                   *)
LEMMA CreateKeeps ==
  ASSUME IInv, NEW r \in Reg, pa_gv_svn(r), gv_sv = NULL
  PROVE  IInv'
<1>1. PICK f : f = Fresh
  OBVIOUS
<1>2. /\ f \in SV /\ f # NULL /\ Loose(f, gv_sv, saved, av, pad, kept)
      /\ \A q \in Reg : reg[q] # f
  BY <1>1, FreshIsFree
<1>3. /\ gv_sv' = f /\ val' = [val EXCEPT ![f] = "undef"] /\ reg' = [reg EXCEPT ![r] = f]
      /\ UNCHANGED << saved, av, pad, clearsv, kept >>
  BY <1>1 DEF pa_gv_svn, Load, lexical
<1>4. val' \in [SV -> Val \cup {"undef"}]
  BY <1>2, <1>3, ValTyped DEF IInv
<1>5. TypeOK' /\ Bounded'
  BY <1>2, <1>3, <1>4 DEF IInv, TypeOK, Bounded
<1>6. OnePlace(gv_sv, saved, av, pad, kept)'
  BY <1>2, <1>3 DEF IInv, OnePlace, Loose
<1>7. ASSUME NEW q \in Reg PROVE RegOK(q)'
  <2>1. \A p \in Reg : reg'[p] = IF p = r THEN f ELSE reg[p]
    BY <1>3 DEF IInv, TypeOK
  <2>2. CASE q = r
    BY <1>3, <2>1, <2>2 DEF RegOK
  <2>3. CASE q # r
    <3>1. RegOK(q) /\ reg[q] # f
      BY <1>2 DEF IInv
    <3> QED
      BY <1>2, <1>3, <2>1, <2>3, <3>1 DEF RegOK, Loose
  <2> QED
    BY <2>2, <2>3
<1> QED
  BY <1>5, <1>6, <1>7 DEF IInv

(* An element is created where there is none.                              *)
LEMMA SlotBounded ==
  ASSUME IInv, NEW index \in Index, ~(Slot(index) < 1)
  PROVE  /\ Slot(index) \in Nat /\ Slot(index) # 0
         /\ Slot(index) <= MaxElems
<1>1. PICK l \in Nat : l = Len(av)
  BY DEF IInv, TypeOK
<1>2. index \in Int /\ index < MaxElems /\ l <= MaxElems /\ MaxElems \in Nat
  BY <1>1, AccessAssumption DEF IInv, Bounded
<1>3. Slot(index) = IF index < 0 THEN l + index + 1 ELSE index + 1
  BY <1>1 DEF Slot
<1> QED
  BY <1>2, <1>3

LEMMA ElemKeeps ==
  ASSUME IInv, NEW r \in Reg, NEW index \in Index, pa_av_fetch_lvalue(r, index),
         ~InArray(Slot(index)), ~(Slot(index) < 1)
  PROVE  IInv'
<1>1. PICK f : f = Fresh
  OBVIOUS
<1>2. /\ f \in SV /\ f # NULL /\ Loose(f, gv_sv, saved, av, pad, kept)
      /\ \A q \in Reg : reg[q] # f
  BY <1>1, FreshIsFree
<1>3. PICK n : n = Slot(index)
  OBVIOUS
<1>4. n \in Nat /\ n # 0 /\ n <= MaxElems /\ ~InArray(n)
  BY <1>3, SlotBounded
<1>5. /\ av' = Stored(n, f) /\ val' = [val EXCEPT ![f] = "undef"]
      /\ reg' = [reg EXCEPT ![r] = f]
      /\ UNCHANGED << gv_sv, saved, pad, clearsv, kept >>
  BY <1>1, <1>3 DEF pa_av_fetch_lvalue, Load, lexical
<1>6. val' \in [SV -> Val \cup {"undef"}]
  BY <1>2, <1>5, ValTyped DEF IInv
<1>7. /\ Adds(av', av, n, f) /\ av' \in Seq(SV \cup {NULL})
      /\ Len(av') = IF n > Len(av) THEN n ELSE Len(av)
      /\ \A m \in DOMAIN av : m # n => av'[m] = av[m]
      /\ av'[n] = f /\ n \in DOMAIN av' /\ DOMAIN av' = 1..Len(av')
      /\ DOMAIN av = 1..Len(av)
  <2>1. TypeOK /\ av \in Seq(SV \cup {NULL}) /\ n \in Nat /\ n # 0 /\ f \in SV
    BY <1>2, <1>4 DEF IInv, TypeOK
  <2>2. /\ Adds(av', av, n, f) /\ av' \in Seq(SV \cup {NULL})
        /\ Len(av') = IF n > Len(av) THEN n ELSE Len(av)
        /\ \A m \in DOMAIN av : m # n => av'[m] = av[m]
        /\ av'[n] = f /\ n \in DOMAIN av'
    BY <1>5, <2>1, StoredAdds
  <2>3. DOMAIN av' = 1..Len(av') /\ DOMAIN av = 1..Len(av)
    BY <2>1, <2>2
  <2> QED
    BY <2>2, <2>3
<1>8. TypeOK'
  BY <1>2, <1>5, <1>6, <1>7 DEF IInv, TypeOK
<1>9. Bounded'
  BY <1>4, <1>5, <1>7 DEF IInv, Bounded
<1>10. OnePlace(gv_sv, saved, av, pad, kept)'
  <2>1. Once(av') /\ Apart(saved, av') /\ Apart(av', kept)
    BY <1>2, <1>7, AddsOnce, AddsApart DEF IInv, OnePlace, Loose
  <2>2. pad # NULL
    BY AccessAssumption DEF IInv, TypeOK
  <2>3. Lacks(av', pad) /\ (gv_sv # NULL => Lacks(av', gv_sv))
    BY <1>2, <1>7, <2>2, AddsLacks DEF IInv, OnePlace, Loose
  <2> QED
    BY <1>5, <2>1, <2>3 DEF IInv, OnePlace
<1>11. ASSUME NEW q \in Reg PROVE RegOK(q)'
  <2>1. \A p \in Reg : reg'[p] = IF p = r THEN f ELSE reg[p]
    BY <1>5 DEF IInv, TypeOK
  <2>2. CASE q = r
    BY <1>2, <1>7, <2>1, <2>2 DEF RegOK
  <2>3. CASE q # r
    <3>1. RegOK(q) /\ reg[q] # f /\ reg'[q] = reg[q]
      BY <1>2, <2>1, <2>3 DEF IInv
    <3>2. CASE reg[q] \in {NULL, PL_sv_undef, gv_sv, pad}
      BY <1>5, <3>1, <3>2 DEF RegOK
    <3>3. CASE \E m \in DOMAIN av : av[m] # NULL /\ reg[q] = av[m]
      <4>1. PICK m \in DOMAIN av : av[m] # NULL /\ reg[q] = av[m]
        BY <3>3
      <4>2. m # n /\ m \in DOMAIN av'
        BY <1>4, <1>7, <4>1 DEF InArray, Adds
      <4> QED
        BY <1>7, <3>1, <4>1, <4>2 DEF RegOK
    <3>4. CASE /\ Loose(reg[q], gv_sv, saved, av, pad, kept)
               /\ \A p \in Reg : p # q => reg[p] # reg[q]
      <4>1. reg[q] # NULL
        BY <3>4, AccessAssumption DEF Loose
      <4>2. Lacks(av', reg[q])
        BY <1>7, <3>1, <3>4, <4>1, AddsLacks DEF Loose
      <4> QED
        BY <1>5, <2>1, <3>1, <3>4, <4>2 DEF RegOK, Loose
    <3> QED
      BY <3>1, <3>2, <3>3, <3>4 DEF RegOK
  <2> QED
    BY <2>2, <2>3
<1> QED
  BY <1>8, <1>9, <1>10, <1>11 DEF IInv

LEMMA LookUpKeeps ==
  ASSUME IInv, NEW r \in Reg,
         \/ pa_gv_sv(r) \/ pa_gv_svn(r) \/ pa_new_mortal_sv(r) \/ pa_get_pad_sv(r)
         \/ \E i \in Index : pa_av_fetch(r, i) \/ pa_av_fetch_lvalue(r, i)
  PROVE  IInv'
<1>1. TypeOK /\ val \in [SV -> Val \cup {"undef"}]
  BY DEF IInv, TypeOK
<1>2. CASE pa_gv_sv(r)
  BY <1>1, <1>2, LoadKeeps DEF pa_gv_sv, Available
<1>3. CASE pa_gv_svn(r)
  <2>1. CASE gv_sv # NULL
    BY <1>1, <1>3, <2>1, LoadKeeps DEF pa_gv_svn, pa_gv_sv, Available
  <2>2. CASE gv_sv = NULL
    BY <1>3, <2>2, CreateKeeps
  <2> QED
    BY <2>1, <2>2
<1>4. CASE pa_new_mortal_sv(r)
  <2>1. PICK f : f = Fresh
    OBVIOUS
  <2>2. f \in SV /\ Available(f)
    BY <2>1, FreshIsFree DEF Available
  <2>3. val' \in [SV -> Val \cup {"undef"}]
    BY <1>1, <1>4, <2>1, <2>2, ValTyped DEF pa_new_mortal_sv
  <2> QED
    BY <1>4, <2>1, <2>2, <2>3, LoadKeeps DEF pa_new_mortal_sv
<1>5. CASE pa_get_pad_sv(r)
  BY <1>1, <1>5, LoadKeeps DEF pa_get_pad_sv, Available
<1>6. ASSUME NEW i \in Index, pa_av_fetch(r, i) \/ pa_av_fetch_lvalue(r, i)
      PROVE  IInv'
  <2>1. CASE pa_av_fetch(r, i)
    BY <2>1, FetchKeeps
  <2>2. CASE pa_av_fetch_lvalue(r, i) /\ (InArray(Slot(i)) \/ Slot(i) < 1)
    BY <2>2, FetchKeeps DEF pa_av_fetch_lvalue
  <2>3. CASE pa_av_fetch_lvalue(r, i) /\ ~(InArray(Slot(i)) \/ Slot(i) < 1)
    BY <2>3, ElemKeeps
  <2> QED
    BY <1>6, <2>1, <2>2, <2>3
<1> QED
  BY <1>2, <1>3, <1>4, <1>5, <1>6

(* A step after which no register points anywhere keeps the rest.          *)
LEMMA ClearedKeeps ==
  ASSUME reg' = [r \in Reg |-> NULL], Bounded', OnePlace(gv_sv, saved, av, pad, kept)',
         gv_sv' \in SV \cup {NULL}, saved' \in Seq(SV \cup {NULL}),
         av' \in Seq(SV \cup {NULL}), pad' \in SV, clearsv' \in BOOLEAN,
         kept' \in Seq(SV), val' \in [SV -> Val \cup {"undef"}]
  PROVE  IInv'
<1>1. reg' \in [Reg -> SV \cup {PL_sv_undef, NULL}]
  OBVIOUS
<1>2. TypeOK'
  BY <1>1 DEF TypeOK
<1>3. \A r \in Reg : RegOK(r)'
  BY DEF RegOK
<1> QED
  BY <1>2, <1>3 DEF IInv

LEMMA SetKeeps ==
  ASSUME IInv, NEW r \in Reg, NEW v \in Val \cup {"undef"}, reg[r] # NULL, SetTo(r, v)
  PROVE  IInv'
<1>1. CASE reg[r] = PL_sv_undef
  <2>1. Croak
    BY <1>1 DEF SetTo
  <2> QED
    BY <2>1, ClearedKeeps DEF Croak, IInv, TypeOK, Bounded, OnePlace, lexical
<1>2. CASE reg[r] # PL_sv_undef
  <2>1. reg[r] \in SV
    BY <1>2 DEF IInv, TypeOK
  <2>2. val' \in [SV -> Val \cup {"undef"}]
    BY <1>2, <2>1, ValTyped DEF SetTo, IInv
  <2>3. UNCHANGED << gv_sv, saved, av, pad, clearsv, kept, reg >>
    BY <1>2 DEF SetTo, lexical
  <2> QED
    BY <2>2, <2>3 DEF IInv, TypeOK, Bounded, OnePlace, RegOK
<1> QED
  BY <1>1, <1>2

LEMMA GetTyped ==
  ASSUME IInv, NEW r \in Reg, reg[r] # NULL
  PROVE  Get(reg[r]) \in Val \cup {"undef"}
BY DEF IInv, TypeOK, Get

LEMMA UnstackKeeps ==
  ASSUME IInv, pa_pp_unstack
  PROVE  IInv'
<1>1. PICK f : f = Fresh
  OBVIOUS
<1>2. f \in SV /\ f # NULL /\ Loose(f, gv_sv, saved, av, pad, kept)
  BY <1>1, FreshIsFree
<1>3. /\ pad' = IF clearsv /\ pad \in ToSet(kept) THEN f ELSE pad
      /\ val' = IF clearsv THEN [val EXCEPT ![pad'] = "undef"] ELSE val
      /\ clearsv' = FALSE /\ reg' = [r \in Reg |-> NULL]
      /\ UNCHANGED << gv_sv, saved, av, kept >>
  BY <1>1 DEF pa_pp_unstack
<1>4. pad' \in SV /\ OnePlace(gv_sv, saved, av, pad, kept)'
  BY <1>2, <1>3 DEF IInv, TypeOK, OnePlace, Loose
<1>5. val' \in [SV -> Val \cup {"undef"}]
  BY <1>3, <1>4, ValTyped DEF IInv, TypeOK
<1> QED
  BY <1>3, <1>4, <1>5, ClearedKeeps DEF IInv, TypeOK, Bounded

-----------------------------------------------------------------------------
(* Perl code.                                                              *)
LEMMA LocalKeeps ==
  ASSUME IInv, Local
  PROVE  IInv'
<1>1. PICK f : f = Fresh
  OBVIOUS
<1>2. f \in SV /\ f # NULL /\ Loose(f, gv_sv, saved, av, pad, kept)
  BY <1>1, FreshIsFree
<1>3. /\ gv_sv' = f /\ saved' = Append(saved, gv_sv) /\ val' = [val EXCEPT ![f] = "undef"]
      /\ reg' = [r \in Reg |-> NULL] /\ Len(saved) < MaxScopes
      /\ UNCHANGED << av, pad, clearsv, kept >>
  BY <1>1 DEF Local, PerlCode
<1>4. /\ saved \in Seq(SV \cup {NULL}) /\ gv_sv \in SV \cup {NULL} /\ pad \in SV
      /\ Len(saved) \in Nat /\ MaxScopes \in Nat /\ pad # NULL /\ pad # gv_sv
  BY AccessAssumption DEF IInv, TypeOK, OnePlace
<1>5. /\ saved' \in Seq(SV \cup {NULL}) /\ Len(saved') = Len(saved) + 1
      /\ Adds(saved', saved, Len(saved) + 1, gv_sv)
  BY <1>3, <1>4, AppendAdds
<1>6. Bounded'
  BY <1>3, <1>4, <1>5 DEF IInv, Bounded
<1>7. Once(saved') /\ Apart(saved', av) /\ Apart(saved', kept)
  BY <1>5, AddsOnce, AddsApart DEF IInv, OnePlace
<1>8. Lacks(saved', pad) /\ Lacks(saved', f)
  BY <1>2, <1>4, <1>5, AddsLacks DEF IInv, OnePlace, Loose
<1>9. OnePlace(gv_sv, saved, av, pad, kept)'
  BY <1>2, <1>3, <1>7, <1>8 DEF IInv, OnePlace, Loose
<1>10. val' \in [SV -> Val \cup {"undef"}]
  BY <1>2, <1>3, ValTyped DEF IInv
<1> QED
  BY <1>2, <1>3, <1>5, <1>6, <1>9, <1>10, ClearedKeeps DEF IInv, TypeOK

LEMMA LeaveScopeKeeps ==
  ASSUME IInv, LeaveScope
  PROVE  IInv'
<1>1. /\ saved # << >> /\ gv_sv' = Last(saved) /\ saved' = Front(saved)
      /\ reg' = [r \in Reg |-> NULL]
      /\ UNCHANGED << av, pad, clearsv, kept, val >>
  BY DEF LeaveScope, PerlCode
<1>2. /\ saved \in Seq(SV \cup {NULL}) /\ pad \in SV /\ pad # NULL
      /\ Len(saved) \in Nat /\ MaxScopes \in Nat
  BY AccessAssumption DEF IInv, TypeOK
<1>3. /\ From(saved', saved, 0) /\ saved' \in Seq(SV \cup {NULL})
      /\ Len(saved') = Len(saved) - 1 /\ gv_sv' \in SV \cup {NULL}
      /\ gv_sv' # NULL => Lacks(saved', gv_sv')
  BY <1>1, <1>2, FrontFrom DEF IInv, OnePlace
<1>4. Bounded'
  BY <1>1, <1>2, <1>3 DEF IInv, Bounded
<1>5. Once(saved') /\ Apart(saved', av) /\ Apart(saved', kept) /\ Lacks(saved', pad)
  BY <1>2, <1>3, FromOnce, FromApart, FromLacks DEF IInv, OnePlace
<1>6. gv_sv' # NULL => Lacks(av, gv_sv') /\ Lacks(kept, gv_sv') /\ gv_sv' # pad
  <2>1. Len(saved) \in DOMAIN saved /\ gv_sv' = saved[Len(saved)]
    BY <1>1, <1>2 DEF Last
  <2> QED
    BY <2>1 DEF IInv, OnePlace, Apart, Lacks
<1>7. OnePlace(gv_sv, saved, av, pad, kept)'
  BY <1>1, <1>3, <1>5, <1>6 DEF IInv, OnePlace
<1> QED
  BY <1>1, <1>3, <1>4, <1>7, ClearedKeeps DEF IInv, TypeOK

LEMMA AssignKeeps ==
  ASSUME IInv, NEW v \in Val, AssignScalar(v)
  PROVE  IInv'
<1>1. PICK f : f = Fresh
  OBVIOUS
<1>2. f \in SV /\ f # NULL /\ Loose(f, gv_sv, saved, av, pad, kept)
  BY <1>1, FreshIsFree
<1>3. /\ gv_sv' = IF gv_sv = NULL THEN f ELSE gv_sv
      /\ val' = [val EXCEPT ![gv_sv'] = v] /\ reg' = [r \in Reg |-> NULL]
      /\ UNCHANGED << saved, av, pad, clearsv, kept >>
  BY <1>1 DEF AssignScalar, PerlCode
<1>4. gv_sv' \in SV /\ OnePlace(gv_sv, saved, av, pad, kept)'
  BY <1>2, <1>3 DEF IInv, TypeOK, OnePlace, Loose
<1>5. val' \in [SV -> Val \cup {"undef"}]
  BY <1>3, <1>4, ValTyped DEF IInv
<1> QED
  BY <1>3, <1>4, <1>5, ClearedKeeps DEF IInv, TypeOK, Bounded

LEMMA ArrayKeeps ==
  ASSUME IInv, Shift \/ Delete
  PROVE  IInv'
<1>1. /\ reg' = [r \in Reg |-> NULL]
      /\ UNCHANGED << gv_sv, saved, pad, clearsv, kept, val >>
  BY DEF Shift, Delete, PerlCode
<1>2. /\ av \in Seq(SV \cup {NULL}) /\ pad # NULL /\ Len(av) \in Nat /\ MaxElems \in Nat
  BY AccessAssumption DEF IInv, TypeOK
<1>3. PICK d \in Int : /\ From(av', av, d) /\ av' \in Seq(SV \cup {NULL})
                       /\ Len(av') <= Len(av)
  <2>1. CASE Shift
    <3>1. av # << >> /\ av' = Tail(av)
      BY <2>1 DEF Shift, PerlCode
    <3>2. From(av', av, 1) /\ av' \in Seq(SV \cup {NULL}) /\ Len(av') = Len(av) - 1
      BY <1>2, <3>1, TailFrom
    <3> QED
      BY <1>2, <3>2
  <2>2. CASE Delete
    <3>1. PICK n \in DOMAIN av : av' = [av EXCEPT ![n] = NULL]
      BY <2>2 DEF Delete, PerlCode
    <3>2. av' \in Seq(SV \cup {NULL}) /\ Len(av') = Len(av)
      BY <1>2, <3>1
    <3>3. /\ DOMAIN av' = DOMAIN av /\ DOMAIN av \subseteq Int
          /\ \A m \in DOMAIN av : av'[m] = NULL \/ av'[m] = av[m]
      BY <1>2, <3>1
    <3>4. From(av', av, 0)
      BY <3>3 DEF From
    <3> QED
      BY <1>2, <3>2, <3>4
  <2> QED
    BY <2>1, <2>2
<1>4. Bounded'
  <2>1. Len(av') \in Nat
    BY <1>3
  <2> QED
    BY <1>1, <1>2, <1>3, <2>1 DEF IInv, Bounded
<1>5. /\ Once(av') /\ Apart(saved, av') /\ Apart(av', kept) /\ Lacks(av', pad)
      /\ gv_sv # NULL => Lacks(av', gv_sv)
  BY <1>2, <1>3, FromOnce, FromApart, FromLacks DEF IInv, OnePlace
<1>6. OnePlace(gv_sv, saved, av, pad, kept)'
  BY <1>1, <1>5 DEF IInv, OnePlace
<1> QED
  BY <1>1, <1>3, <1>4, <1>6, ClearedKeeps DEF IInv, TypeOK

LEMMA MakeClosureKeeps ==
  ASSUME IInv, MakeClosure
  PROVE  IInv'
<1>1. /\ pad \notin ToSet(kept) /\ Len(kept) < MaxClosures /\ kept' = Append(kept, pad)
      /\ reg' = [r \in Reg |-> NULL]
      /\ UNCHANGED << gv_sv, saved, av, pad, clearsv, val >>
  BY DEF MakeClosure, PerlCode
<1>2. kept \in Seq(SV) /\ Len(kept) \in Nat /\ MaxClosures \in Nat /\ pad \in SV
  BY AccessAssumption DEF IInv, TypeOK
<1>3. /\ kept' \in Seq(SV) /\ Len(kept') = Len(kept) + 1
      /\ Adds(kept', kept, Len(kept) + 1, pad)
  BY <1>1, <1>2, AppendAdds
<1>4. Lacks(kept, pad)
  BY <1>1 DEF ToSet, Lacks
<1>5. Once(kept') /\ Apart(saved, kept') /\ Apart(av, kept')
  BY <1>3, <1>4, AddsOnce, AddsApart DEF IInv, OnePlace
<1>6. gv_sv # NULL => Lacks(kept', gv_sv)
  BY <1>3, AddsLacks DEF IInv, OnePlace
<1>7. OnePlace(gv_sv, saved, av, pad, kept)'
  BY <1>1, <1>5, <1>6 DEF IInv, OnePlace
<1>8. Bounded'
  BY <1>1, <1>2, <1>3 DEF IInv, Bounded
<1> QED
  BY <1>1, <1>3, <1>7, <1>8, ClearedKeeps DEF IInv, TypeOK

LEMMA DropClosureKeeps ==
  ASSUME IInv, DropClosure
  PROVE  IInv'
<1>1. /\ kept # << >> /\ kept' = Tail(kept) /\ reg' = [r \in Reg |-> NULL]
      /\ UNCHANGED << gv_sv, saved, av, pad, clearsv, val >>
  BY DEF DropClosure, PerlCode
<1>2. kept \in Seq(SV) /\ Len(kept) \in Nat /\ MaxClosures \in Nat
  BY AccessAssumption DEF IInv, TypeOK
<1>3. /\ kept' \in Seq(SV) /\ Len(kept') = Len(kept) - 1 /\ From(kept', kept, 1)
  BY <1>1, <1>2, TailFrom
<1>4. /\ Once(kept') /\ Apart(saved, kept') /\ Apart(av, kept')
      /\ gv_sv # NULL => Lacks(kept', gv_sv)
  BY <1>3, FromOnce, FromApart, FromLacks DEF IInv, OnePlace
<1>5. OnePlace(gv_sv, saved, av, pad, kept)'
  BY <1>1, <1>4 DEF IInv, OnePlace
<1>6. Bounded'
  BY <1>1, <1>2, <1>3 DEF IInv, Bounded
<1> QED
  BY <1>1, <1>3, <1>5, <1>6, ClearedKeeps DEF IInv, TypeOK

LEMMA CallClosureKeeps ==
  ASSUME IInv, NEW v \in Val, CallClosure(v)
  PROVE  IInv'
<1>1. PICK n \in DOMAIN kept :
        /\ val' = [val EXCEPT ![kept[n]] = v] /\ reg' = [r \in Reg |-> NULL]
        /\ UNCHANGED << gv_sv, saved, av, pad, clearsv, kept >>
  BY DEF CallClosure, PerlCode
<1>2. kept[n] \in SV
  BY DEF IInv, TypeOK
<1>3. val' \in [SV -> Val \cup {"undef"}]
  BY <1>1, <1>2, ValTyped DEF IInv
<1> QED
  BY <1>1, <1>3, ClearedKeeps DEF IInv, TypeOK, Bounded, OnePlace

LEMMA StepInv == IInv /\ [Next]_vars => IInv'
<1> SUFFICES ASSUME IInv, [Next]_vars PROVE IInv'
  OBVIOUS
<1>1. ASSUME NEW r \in Reg,
             \/ pa_gv_sv(r) \/ pa_gv_svn(r) \/ pa_new_mortal_sv(r) \/ pa_get_pad_sv(r)
             \/ \E i \in Index : pa_av_fetch(r, i) \/ pa_av_fetch_lvalue(r, i)
      PROVE  IInv'
  BY <1>1, LookUpKeeps
<1>2. ASSUME NEW r \in Reg, NEW v \in Val, pa_sv_set(r, v)
      PROVE  IInv'
  BY <1>2, SetKeeps DEF pa_sv_set
<1>3. ASSUME NEW r \in Reg, NEW s \in Reg, pa_sv_set_sv_nosteal(r, s)
      PROVE  IInv'
  BY <1>3, SetKeeps, GetTyped DEF pa_sv_set_sv_nosteal
<1>4. CASE pa_save_clearsv
  BY <1>4 DEF pa_save_clearsv, IInv, TypeOK, Bounded, OnePlace, RegOK
<1>5. CASE pa_pp_unstack
  BY <1>5, UnstackKeeps
<1>6. CASE Local \/ LeaveScope \/ Shift \/ Delete \/ MakeClosure \/ DropClosure
  BY <1>6, LocalKeeps, LeaveScopeKeeps, ArrayKeeps, MakeClosureKeeps, DropClosureKeeps
<1>7. ASSUME NEW v \in Val, AssignScalar(v) \/ CallClosure(v)
      PROVE  IInv'
  BY <1>7, AssignKeeps, CallClosureKeeps
<1>8. CASE UNCHANGED vars
  BY <1>8 DEF vars, IInv, TypeOK, Bounded, OnePlace, RegOK
<1> QED
  BY <1>1, <1>2, <1>3, <1>4, <1>5, <1>6, <1>7, <1>8 DEF Next

(* A scalar is in one place, and a register is in one of the variables of  *)
(* the moment or has a temporary to itself.                                *)
THEOREM Invariant == Spec => []IInv
BY InitInv, StepInv, PTL DEF Spec

(* Variables hold scalars or nothing, scalars hold values of the program.  *)
THEOREM TypeCorrect == Spec => []TypeOK
<1>1. IInv => TypeOK
  BY DEF IInv
<1> QED
  BY <1>1, Invariant, PTL

-----------------------------------------------------------------------------
(* The refinement.  What the variables of PerlVars are, for any state.     *)
CellsIn(q, v) == [n \in DOMAIN q |-> IF q[n] = NULL THEN "missing" ELSE v[q[n]]]

ClosuresIn(k, p, v) ==
  [n \in DOMAIN k |-> IF k[n] = p THEN "current" ELSE v[k[n]]]

PlaceIn(x, g, p, a, v) ==
  CASE x = NULL             -> Vars!Nothing
    [] x = PL_sv_undef      -> Vars!NoValue
    [] x \in SV /\ x = g    -> Vars!Scalar
    [] x = p                -> Vars!My
    [] x \in SV \cap ToSet(a) -> Vars!Elem(CHOOSE m \in DOMAIN a : a[m] = x)
    [] OTHER -> Vars!Temp(IF x = PL_sv_undef THEN "undef" ELSE v[x])

LEMMA MappedAre ==
  /\ Cells(Append(saved, gv_sv)) = CellsIn(Append(saved, gv_sv), val)
  /\ Cells(Append(saved, gv_sv))' = CellsIn(Append(saved', gv_sv'), val')
  /\ Cells(av) = CellsIn(av, val)
  /\ Cells(av)' = CellsIn(av', val')
BY DEF Cells, CellOf, CellsIn

LEMMA PlaceIs ==
  ASSUME NEW r \in Reg
  PROVE  /\ Place(r) = PlaceIn(reg[r], gv_sv, pad, av, val)
         /\ Place(r)' = PlaceIn(reg'[r], gv_sv', pad', av', val')
BY DEF Place, PlaceIn, Get, Vars!Nothing, Vars!NoValue, Vars!Scalar, Vars!My,
       Vars!Elem, Vars!Temp

(* Where there is one place for a scalar, the cases exclude each other.    *)
Sorted(g, p, a) ==
  /\ g \in SV \cup {NULL} /\ p \in SV /\ a \in Seq(SV \cup {NULL})
  /\ Once(a) /\ Lacks(a, p) /\ (g # NULL => Lacks(a, g) /\ g # p)

LEMMA SortedNow == IInv => Sorted(gv_sv, pad, av)
BY DEF IInv, TypeOK, OnePlace, Sorted

LEMMA SortedNext == IInv' => Sorted(gv_sv', pad', av')
BY DEF IInv, TypeOK, OnePlace, Sorted

LEMMA Unambiguous ==
  ASSUME NEW g, NEW p, NEW a, Sorted(g, p, a)
  PROVE  /\ NULL \notin SV /\ PL_sv_undef \notin SV /\ NULL # PL_sv_undef
         /\ g \in SV \cup {NULL} /\ p \in SV /\ p \notin ToSet(a)
         /\ g # NULL => g # p /\ g \notin ToSet(a)
BY AccessAssumption DEF Sorted, Lacks, ToSet

LEMMA Places ==
  ASSUME NEW g, NEW p, NEW a, NEW v, Sorted(g, p, a)
  PROVE  /\ PlaceIn(NULL, g, p, a, v) = Vars!Nothing
         /\ PlaceIn(PL_sv_undef, g, p, a, v) = Vars!NoValue
         /\ g # NULL => PlaceIn(g, g, p, a, v) = Vars!Scalar
         /\ PlaceIn(p, g, p, a, v) = Vars!My
BY Unambiguous DEF PlaceIn

LEMMA PlaceOfElem ==
  ASSUME NEW g, NEW p, NEW a, NEW v, Sorted(g, p, a), NEW n \in DOMAIN a, a[n] # NULL
  PROVE  PlaceIn(a[n], g, p, a, v) = Vars!Elem(n)
<1>1. a[n] \in SV /\ a[n] # p /\ a[n] # g /\ a[n] \in ToSet(a)
  BY DEF Sorted, Lacks, ToSet
<1>2. n = CHOOSE m \in DOMAIN a : a[m] = a[n]
  BY DEF Sorted, Once
<1>3. PlaceIn(a[n], g, p, a, v) = Vars!Elem(CHOOSE m \in DOMAIN a : a[m] = a[n])
  BY <1>1, Unambiguous DEF PlaceIn
<1> QED
  BY <1>2, <1>3

LEMMA PlaceOfTemp ==
  ASSUME NEW g, NEW p, NEW a, NEW v, Sorted(g, p, a), NEW x \in SV, x # g, x # p,
         Lacks(a, x)
  PROVE  PlaceIn(x, g, p, a, v) = Vars!Temp(v[x])
<1>1. x # NULL /\ x # PL_sv_undef /\ x \notin ToSet(a)
  BY Unambiguous DEF Lacks, ToSet
<1> QED
  BY <1>1 DEF PlaceIn

(* A register whose scalar stays where it is stays where it is.            *)
LEMMA Stays ==
  ASSUME NEW g, NEW h, NEW p, NEW a, NEW b, NEW v, NEW w, NEW x,
         Sorted(g, p, a), Sorted(h, p, b),
         \/ x \in {NULL, PL_sv_undef, p}
         \/ x = g /\ g = h
         \/ \E n \in DOMAIN a : n \in DOMAIN b /\ a[n] # NULL /\ x = a[n] /\ b[n] = x
         \/ /\ x \in SV /\ x # g /\ x # h /\ x # p /\ Lacks(a, x) /\ Lacks(b, x)
            /\ w[x] = v[x]
  PROVE  PlaceIn(x, h, p, b, w) = PlaceIn(x, g, p, a, v)
<1>1. CASE x \in {NULL, PL_sv_undef, p}
  <2>1. x = NULL => PlaceIn(x, h, p, b, w) = Vars!Nothing /\ PlaceIn(x, g, p, a, v) = Vars!Nothing
    BY Places
  <2>2. x = PL_sv_undef =>
          PlaceIn(x, h, p, b, w) = Vars!NoValue /\ PlaceIn(x, g, p, a, v) = Vars!NoValue
    BY Places
  <2>3. x = p => PlaceIn(x, h, p, b, w) = Vars!My /\ PlaceIn(x, g, p, a, v) = Vars!My
    BY Places
  <2> QED
    BY <1>1, <2>1, <2>2, <2>3
<1>2. CASE x = g /\ g = h /\ g # NULL
  <2>1. PlaceIn(x, g, p, a, v) = Vars!Scalar
    BY <1>2, Places
  <2>2. PlaceIn(x, h, p, b, w) = Vars!Scalar
    BY <1>2, Places
  <2> QED
    BY <2>1, <2>2
<1>3. CASE \E n \in DOMAIN a : n \in DOMAIN b /\ a[n] # NULL /\ x = a[n] /\ b[n] = x
  <2>1. PICK n \in DOMAIN a : n \in DOMAIN b /\ a[n] # NULL /\ x = a[n] /\ b[n] = x
    BY <1>3
  <2>2. PlaceIn(a[n], g, p, a, v) = Vars!Elem(n)
    BY <2>1, PlaceOfElem
  <2>3. PlaceIn(b[n], h, p, b, w) = Vars!Elem(n)
    BY <2>1, PlaceOfElem
  <2> QED
    BY <2>1, <2>2, <2>3
<1>4. CASE /\ x \in SV /\ x # g /\ x # h /\ x # p /\ Lacks(a, x) /\ Lacks(b, x)
           /\ w[x] = v[x]
  <2>1. PlaceIn(x, g, p, a, v) = Vars!Temp(v[x])
    BY <1>4, PlaceOfTemp
  <2>2. PlaceIn(x, h, p, b, w) = Vars!Temp(w[x])
    BY <1>4, PlaceOfTemp
  <2> QED
    BY <1>4, <2>1, <2>2
<1> QED
  BY <1>1, <1>2, <1>3, <1>4

(* A scalar that is not in a sequence has nothing to do with its values.   *)
LEMMA CellsElsewhere ==
  ASSUME NEW q, NEW v, NEW f, NEW w, Lacks(q, f) \/ f = NULL
  PROVE  CellsIn(q, [v EXCEPT ![f] = w]) = CellsIn(q, v)
BY DEF CellsIn, Lacks

LEMMA ClosuresElsewhere ==
  ASSUME NEW k, NEW p, NEW v, NEW f, NEW w, Lacks(k, f) \/ f = p
  PROVE  ClosuresIn(k, p, [v EXCEPT ![f] = w]) = ClosuresIn(k, p, v)
BY DEF ClosuresIn, Lacks

LEMMA CellsTyped ==
  ASSUME NEW q \in Seq(SV \cup {NULL}), NEW v \in [SV -> Val \cup {"undef"}]
  PROVE  CellsIn(q, v) \in Seq(Vars!Cell)
<1>1. Len(q) \in Nat /\ DOMAIN q = 1..Len(q) /\ \A n \in 1..Len(q) : q[n] \in SV \cup {NULL}
  OBVIOUS
<1>2. CellsIn(q, v) \in [1..Len(q) -> Vars!Cell]
  BY <1>1 DEF CellsIn, Vars!Cell
<1> QED
  BY <1>1, <1>2

LEMMA ClosuresTyped ==
  ASSUME NEW k \in Seq(SV), NEW p, NEW v \in [SV -> Val \cup {"undef"}]
  PROVE  ClosuresIn(k, p, v) \in Seq(Vars!Cell \cup {"current"})
<1>1. Len(k) \in Nat /\ DOMAIN k = 1..Len(k) /\ \A n \in 1..Len(k) : k[n] \in SV
  OBVIOUS
<1>2. ClosuresIn(k, p, v) \in [1..Len(k) -> Vars!Cell \cup {"current"}]
  BY <1>1 DEF ClosuresIn, Vars!Cell
<1> QED
  BY <1>1, <1>2

(* The values of the scopes: those put aside, and the innermost.           *)
LEMMA ScopesAre ==
  ASSUME NEW s \in Seq(SV \cup {NULL}), NEW g, NEW v
  PROVE  /\ DOMAIN CellsIn(Append(s, g), v) = 1..Len(s) + 1
         /\ Len(CellsIn(Append(s, g), v)) = Len(s) + 1
         /\ CellsIn(Append(s, g), v)[Len(s) + 1] = IF g = NULL THEN "missing" ELSE v[g]
         /\ \A n \in 1..Len(s) : CellsIn(Append(s, g), v)[n] = CellsIn(s, v)[n]
<1>1. PICK u : u = Append(s, g)
  OBVIOUS
<1>2. /\ Len(s) \in Nat /\ DOMAIN u = 1..Len(s) + 1 /\ u[Len(s) + 1] = g
      /\ DOMAIN s = 1..Len(s) /\ \A n \in 1..Len(s) : u[n] = s[n]
  BY <1>1
<1>3. PICK t : t = CellsIn(u, v)
  OBVIOUS
<1>4. /\ DOMAIN t = 1..Len(s) + 1
      /\ \A n \in 1..Len(s) + 1 : t[n] = IF u[n] = NULL THEN "missing" ELSE v[u[n]]
      /\ t = [n \in 1..Len(s) + 1 |-> t[n]]
  BY <1>2, <1>3 DEF CellsIn
<1>5. PICK l \in Nat : l = Len(s) + 1
  BY <1>2
<1>6. Len(t) = l
  BY <1>4, <1>5
<1>7. l \in 1..l /\ \A n \in 1..Len(s) : n \in 1..l
  BY <1>2, <1>5
<1>8. \A n \in 1..Len(s) : t[n] = CellsIn(s, v)[n]
  BY <1>2, <1>4, <1>5, <1>7 DEF CellsIn
<1>9. t[Len(s) + 1] = IF g = NULL THEN "missing" ELSE v[g]
  BY <1>2, <1>4, <1>5, <1>7
<1> QED
  BY <1>1, <1>3, <1>4, <1>5, <1>6, <1>8, <1>9

(* Scopes whose values differ in the innermost only.                       *)
LEMMA InnermostSet ==
  ASSUME NEW s \in Seq(SV \cup {NULL}), NEW g, NEW h \in SV, NEW v, NEW w,
         \A n \in DOMAIN s : CellsIn(s, w)[n] = CellsIn(s, v)[n], h # NULL
  PROVE  CellsIn(Append(s, h), w)
           = [CellsIn(Append(s, g), v) EXCEPT ![Len(CellsIn(Append(s, g), v))] = w[h]]
<1>1. PICK t : t = CellsIn(Append(s, g), v)
  OBVIOUS
<1>2. PICK u : u = CellsIn(Append(s, h), w)
  OBVIOUS
<1>3. PICK l \in Nat : l = Len(s)
  OBVIOUS
<1>4. /\ DOMAIN CellsIn(Append(s, g), v) = 1..Len(s) + 1
      /\ Len(CellsIn(Append(s, g), v)) = Len(s) + 1
      /\ \A n \in 1..Len(s) : CellsIn(Append(s, g), v)[n] = CellsIn(s, v)[n]
  BY ScopesAre
<1>5. DOMAIN CellsIn(Append(s, h), w) = 1..Len(s) + 1
  BY ScopesAre
<1>6. \A n \in 1..Len(s) : CellsIn(Append(s, h), w)[n] = CellsIn(s, w)[n]
  BY ScopesAre
<1>7. CellsIn(Append(s, h), w)[Len(s) + 1] = IF h = NULL THEN "missing" ELSE w[h]
  BY ScopesAre
<1>8. /\ DOMAIN t = 1..l + 1 /\ Len(t) = l + 1
      /\ \A n \in 1..l : t[n] = CellsIn(s, v)[n]
  BY <1>1, <1>3, <1>4
<1>9. /\ DOMAIN u = 1..l + 1 /\ u[l + 1] = w[h]
      /\ \A n \in 1..l : u[n] = CellsIn(s, w)[n]
  BY <1>2, <1>3, <1>5, <1>7, <1>6
<1>10. \A n \in 1..l + 1 : n \in 1..l \/ n = l + 1
  OBVIOUS
<1>11. \A n \in 1..l : CellsIn(s, w)[n] = CellsIn(s, v)[n]
  BY <1>3
<1>12. \A n \in 1..l : n # l + 1
  OBVIOUS
<1>13. \A n \in 1..l + 1 : u[n] = IF n = l + 1 THEN w[h] ELSE t[n]
  BY <1>8, <1>9, <1>10, <1>11, <1>12
<1>14. u = [n \in 1..l + 1 |-> u[n]] /\ t = [n \in 1..l + 1 |-> t[n]]
  BY <1>1, <1>2, <1>8, <1>9 DEF CellsIn
<1>15. u = [t EXCEPT ![l + 1] = w[h]]
  BY <1>13, <1>14
<1> QED
  BY <1>1, <1>2, <1>8, <1>15

-----------------------------------------------------------------------------
(* Looking up.                                                             *)
LEMMA DenoteBy ==
  ASSUME NEW r \in Reg, NEW q, Place(r)' = q,
         \A x \in Reg : x # r => Place(x)' = Place(x)
  PROVE  Vars!Denote(r, q)
BY DEF Vars!Denote

LEMMA Looked ==
  ASSUME IInv, NEW r \in Reg, NEW x, Load(r, x),
         UNCHANGED << gv_sv, saved, av, val, lexical >>
  PROVE  /\ Vars!Denote(r, PlaceIn(x, gv_sv, pad, av, val))
         /\ UNCHANGED << Cells(Append(saved, gv_sv)), Cells(av), Vars!lexical >>
<1>1. \A q \in Reg : reg'[q] = IF q = r THEN x ELSE reg[q]
  BY DEF Load, IInv, TypeOK
<1>2. Place(r)' = PlaceIn(x, gv_sv, pad, av, val)
  BY <1>1, PlaceIs DEF lexical
<1>3. ASSUME NEW q \in Reg, q # r PROVE Place(q)' = Place(q)
  BY <1>1, <1>3, PlaceIs DEF lexical
<1>4. UNCHANGED << Cells(Append(saved, gv_sv)), Cells(av), Vars!lexical >>
  BY DEF Cells, CellOf, lexical, Vars!lexical
<1> QED
  BY <1>2, <1>3, <1>4, DenoteBy

LEMMA InnermostIs ==
  ASSUME IInv
  PROVE  /\ Vars!Innermost = CellOf(gv_sv)
         /\ Len(Cells(Append(saved, gv_sv))) = Len(saved) + 1
<1>1. saved \in Seq(SV \cup {NULL}) /\ Len(saved) \in Nat
  BY DEF IInv, TypeOK
<1>2. /\ Len(CellsIn(Append(saved, gv_sv), val)) = Len(saved) + 1
      /\ CellsIn(Append(saved, gv_sv), val)[Len(saved) + 1] = CellOf(gv_sv)
  BY <1>1, ScopesAre DEF CellOf
<1> QED
  BY <1>2, MappedAre DEF Vars!Innermost

LEMMA SomeValue ==
  ASSUME IInv, NEW s \in SV
  PROVE  val[s] # "missing" /\ val[s] \in Val \cup {"undef"}
<1>1. val[s] \in Val \cup {"undef"}
  BY DEF IInv, TypeOK
<1> QED
  BY <1>1, AccessAssumption

LEMMA GvSvRefines ==
  ASSUME IInv, NEW r \in Reg, pa_gv_sv(r)
  PROVE  Vars!LookUp(r)
<1>1. /\ Vars!Denote(r, PlaceIn(gv_sv, gv_sv, pad, av, val))
      /\ UNCHANGED << Cells(Append(saved, gv_sv)), Cells(av), Vars!lexical >>
  BY Looked DEF pa_gv_sv
<1>2. PlaceIn(gv_sv, gv_sv, pad, av, val)
        = IF gv_sv = NULL THEN Vars!Nothing ELSE Vars!Scalar
  BY Places, SortedNow
<1>3. gv_sv = NULL <=> Vars!Innermost = "missing"
  <2>1. gv_sv \in SV \cup {NULL}
    BY DEF IInv, TypeOK
  <2> QED
    BY <2>1, InnermostIs, SomeValue DEF CellOf
<1> QED
  BY <1>1, <1>2, <1>3 DEF Vars!LookUp

LEMMA PadRefines ==
  ASSUME IInv, NEW r \in Reg, pa_get_pad_sv(r)
  PROVE  Vars!LookUp(r)
<1>1. /\ Vars!Denote(r, PlaceIn(pad, gv_sv, pad, av, val))
      /\ UNCHANGED << Cells(Append(saved, gv_sv)), Cells(av), Vars!lexical >>
  BY Looked DEF pa_get_pad_sv
<1>2. PlaceIn(pad, gv_sv, pad, av, val) = Vars!My
  BY Places, SortedNow
<1> QED
  BY <1>1, <1>2 DEF Vars!LookUp

LEMMA FetchRefines ==
  ASSUME IInv, NEW r \in Reg, NEW index, pa_av_fetch(r, index)
  PROVE  Vars!LookUp(r)
<1>1. PICK n : n = Slot(index)
  OBVIOUS
<1>2. PICK x : x = IF InArray(n) THEN av[n] ELSE PL_sv_undef
  OBVIOUS
<1>3. /\ Vars!Denote(r, PlaceIn(x, gv_sv, pad, av, val))
      /\ UNCHANGED << Cells(Append(saved, gv_sv)), Cells(av), Vars!lexical >>
  BY <1>1, <1>2, Looked DEF pa_av_fetch
<1>4. CASE InArray(n)
  <2>1. n \in DOMAIN av /\ av[n] # NULL /\ x = av[n]
    BY <1>2, <1>4 DEF InArray
  <2>2. PlaceIn(x, gv_sv, pad, av, val) = Vars!Elem(n)
    BY <2>1, PlaceOfElem, SortedNow
  <2>3. n \in DOMAIN Cells(av) /\ Cells(av)[n] # "missing"
    <3>1. av[n] \in SV
      BY <2>1 DEF IInv, TypeOK
    <3> QED
      BY <2>1, <3>1, SomeValue DEF Cells, CellOf
  <2> QED
    BY <1>3, <2>2, <2>3 DEF Vars!LookUp
<1>5. CASE ~InArray(n)
  <2>1. PlaceIn(x, gv_sv, pad, av, val) = Vars!NoValue
    BY <1>2, <1>5, Places, SortedNow
  <2> QED
    BY <1>3, <2>1 DEF Vars!LookUp
<1> QED
  BY <1>4, <1>5

-----------------------------------------------------------------------------
(* Creating.                                                               *)
LEMMA RegStays ==
  ASSUME IInv, IInv', NEW q \in Reg, reg'[q] = reg[q], pad' = pad,
         gv_sv # NULL => gv_sv' = gv_sv,
         \A n \in DOMAIN av : av[n] # NULL => n \in DOMAIN av' /\ av'[n] = av[n],
         Loose(reg[q], gv_sv, saved, av, pad, kept) =>
           /\ reg[q] # gv_sv' /\ Lacks(av', reg[q])
           /\ val'[reg[q]] = val[reg[q]]
  PROVE  Place(q)' = Place(q)
<1>1. PICK x : x = reg[q]
  OBVIOUS
<1>2. PICK h : h = gv_sv'
  OBVIOUS
<1>3. PICK b : b = av'
  OBVIOUS
<1>4. PICK w : w = val'
  OBVIOUS
<1>5. Sorted(gv_sv, pad, av) /\ Sorted(h, pad, b)
  BY <1>2, <1>3, SortedNow, SortedNext
<1>6. \/ x \in {NULL, PL_sv_undef, pad}
      \/ x = gv_sv /\ gv_sv = h
      \/ \E n \in DOMAIN av : n \in DOMAIN b /\ av[n] # NULL /\ x = av[n] /\ b[n] = x
      \/ /\ x \in SV /\ x # gv_sv /\ x # h /\ x # pad /\ Lacks(av, x) /\ Lacks(b, x)
         /\ w[x] = val[x]
  <2>1. RegOK(q)
    BY DEF IInv
  <2>2. CASE x \in {NULL, PL_sv_undef, gv_sv, pad}
    BY <1>2, <2>2
  <2>3. CASE \E n \in DOMAIN av : av[n] # NULL /\ x = av[n]
    BY <1>3, <2>3
  <2>4. CASE Loose(x, gv_sv, saved, av, pad, kept)
    BY <1>1, <1>2, <1>3, <1>4, <2>4 DEF Loose
  <2> QED
    BY <1>1, <2>1, <2>2, <2>3, <2>4 DEF RegOK
<1>7. PlaceIn(x, h, pad, b, w) = PlaceIn(x, gv_sv, pad, av, val)
  BY <1>5, <1>6, Stays
<1> QED
  BY <1>1, <1>2, <1>3, <1>4, <1>7, PlaceIs

(* What holds of the scalar that a step allocates for register r.          *)
Allocates(f, r) ==
  /\ f \in SV /\ f # NULL /\ Loose(f, gv_sv, saved, av, pad, kept)
  /\ \A q \in Reg : reg[q] # f
  /\ val' = [val EXCEPT ![f] = "undef"] /\ reg' = [reg EXCEPT ![r] = f]
  /\ UNCHANGED << saved, pad, clearsv, kept >>

LEMMA AllocatedApart ==
  ASSUME IInv, NEW r \in Reg, NEW f, Allocates(f, r)
  PROVE  /\ \A q \in Reg : reg'[q] = IF q = r THEN f ELSE reg[q]
         /\ \A s \in SV : s # f => val'[s] = val[s]
         /\ val'[f] = "undef"
         /\ UNCHANGED Vars!lexical
<1>1. /\ \A q \in Reg : reg'[q] = IF q = r THEN f ELSE reg[q]
      /\ \A s \in SV : s # f => val'[s] = val[s]
      /\ val'[f] = "undef"
  BY DEF IInv, TypeOK, Allocates
<1>2. val'[pad'] = val[pad] /\ clearsv' = clearsv
  BY <1>1 DEF Allocates, Loose, IInv, TypeOK
<1>3. \A n \in DOMAIN kept : val'[kept[n]] = val[kept[n]]
  BY <1>1 DEF Allocates, Loose, Lacks, IInv, TypeOK
<1>4. UNCHANGED [n \in DOMAIN kept |-> IF kept[n] = pad THEN "current" ELSE val[kept[n]]]
  BY <1>3 DEF Allocates
<1> QED
  BY <1>1, <1>2, <1>4 DEF Vars!lexical

LEMMA CreateRefines ==
  ASSUME IInv, IInv', NEW r \in Reg, pa_gv_svn(r), gv_sv = NULL
  PROVE  Vars!CreateScalar(r)
<1>1. PICK f : f = Fresh
  OBVIOUS
<1>2. Allocates(f, r) /\ gv_sv' = f /\ av' = av
  BY <1>1, FreshIsFree DEF pa_gv_svn, Load, lexical, Allocates
<1>3. /\ \A q \in Reg : reg'[q] = IF q = r THEN f ELSE reg[q]
      /\ \A s \in SV : s # f => val'[s] = val[s]
      /\ val'[f] = "undef" /\ UNCHANGED Vars!lexical
  BY <1>2, AllocatedApart
<1>4. Vars!Denote(r, Vars!Scalar)
  <2>1. Place(r)' = Vars!Scalar
    <3>1. PlaceIn(f, f, pad', av', val') = Vars!Scalar
      BY <1>2, Places, SortedNext DEF Allocates
    <3> QED
      BY <1>2, <1>3, <3>1, PlaceIs
  <2>2. ASSUME NEW q \in Reg, q # r PROVE Place(q)' = Place(q)
    <3>1. Loose(reg[q], gv_sv, saved, av, pad, kept) =>
            /\ reg[q] # gv_sv' /\ Lacks(av', reg[q]) /\ val'[reg[q]] = val[reg[q]]
      BY <1>2, <1>3 DEF Loose, Allocates
    <3> QED
      BY <1>2, <1>3, <2>2, <3>1, RegStays DEF Allocates
  <2> QED
    BY <2>1, <2>2, DenoteBy
<1>5. UNCHANGED Cells(av)
  <2>1. \A n \in DOMAIN av : av[n] # NULL => val'[av[n]] = val[av[n]]
    BY <1>2, <1>3 DEF Allocates, Loose, Lacks, IInv, TypeOK
  <2> QED
    BY <1>2, <2>1 DEF Cells, CellOf
<1>6. Vars!Innermost = "missing"
  BY InnermostIs DEF CellOf
<1>7. Cells(Append(saved, gv_sv))'
        = [Cells(Append(saved, gv_sv)) EXCEPT ![Len(Cells(Append(saved, gv_sv)))] = "undef"]
  <2>1. PICK w : w = val'
    OBVIOUS
  <2>2. saved \in Seq(SV \cup {NULL}) /\ f \in SV /\ f # NULL /\ w[f] = "undef"
    BY <1>2, <1>3, <2>1 DEF IInv, TypeOK, Allocates
  <2>3. CellsIn(saved, w) = CellsIn(saved, val)
    <3>1. w = [val EXCEPT ![f] = "undef"] /\ Lacks(saved, f)
      BY <1>2, <2>1 DEF Allocates, Loose
    <3>2. CellsIn(saved, [val EXCEPT ![f] = "undef"]) = CellsIn(saved, val)
      BY <3>1, CellsElsewhere
    <3> QED
      BY <3>1, <3>2
  <2>4. CellsIn(Append(saved, f), w)
          = [CellsIn(Append(saved, gv_sv), val)
               EXCEPT ![Len(CellsIn(Append(saved, gv_sv), val))] = w[f]]
    BY <2>2, <2>3, InnermostSet
  <2> QED
    BY <1>2, <2>1, <2>2, <2>4, MappedAre DEF Allocates
<1> QED
  BY <1>3, <1>4, <1>5, <1>6, <1>7 DEF Vars!CreateScalar

LEMMA ScopesStay ==
  ASSUME IInv, NEW r \in Reg, NEW f, Allocates(f, r), gv_sv' = gv_sv
  PROVE  UNCHANGED Cells(Append(saved, gv_sv))
<1>1. saved \in Seq(SV \cup {NULL})
  BY DEF IInv, TypeOK
<1>2. Adds(Append(saved, gv_sv), saved, Len(saved) + 1, gv_sv)
  BY <1>1, AppendAdds
<1>3. Lacks(Append(saved, gv_sv), f)
  BY <1>2, AddsLacks DEF Allocates, Loose
<1>4. CellsIn(Append(saved, gv_sv), val') = CellsIn(Append(saved, gv_sv), val)
  BY <1>3, CellsElsewhere DEF Allocates
<1> QED
  BY <1>4, MappedAre DEF Allocates

LEMMA MortalRefines ==
  ASSUME IInv, IInv', NEW r \in Reg, pa_new_mortal_sv(r)
  PROVE  Vars!NewTemp(r)
<1>1. PICK f : f = Fresh
  OBVIOUS
<1>2. Allocates(f, r) /\ gv_sv' = gv_sv /\ av' = av
  BY <1>1, FreshIsFree DEF pa_new_mortal_sv, Load, lexical, Allocates
<1>3. /\ \A q \in Reg : reg'[q] = IF q = r THEN f ELSE reg[q]
      /\ \A s \in SV : s # f => val'[s] = val[s]
      /\ val'[f] = "undef" /\ UNCHANGED Vars!lexical
  BY <1>2, AllocatedApart
<1>4. Vars!Denote(r, Vars!Temp("undef"))
  <2>1. Place(r)' = Vars!Temp("undef")
    <3>1. PICK w : w = val'
      OBVIOUS
    <3>2. Sorted(gv_sv, pad, av) /\ f \in SV /\ f # gv_sv /\ f # pad /\ Lacks(av, f)
      BY <1>2, SortedNow DEF Allocates, Loose
    <3>3. PlaceIn(f, gv_sv, pad, av, w) = Vars!Temp(w[f])
      BY <3>2, PlaceOfTemp
    <3> QED
      BY <1>2, <1>3, <3>1, <3>3, PlaceIs DEF Allocates
  <2>2. ASSUME NEW q \in Reg, q # r PROVE Place(q)' = Place(q)
    <3>1. Loose(reg[q], gv_sv, saved, av, pad, kept) =>
            /\ reg[q] # gv_sv' /\ Lacks(av', reg[q]) /\ val'[reg[q]] = val[reg[q]]
      BY <1>2, <1>3 DEF Loose, Allocates
    <3> QED
      BY <1>2, <1>3, <2>2, <3>1, RegStays DEF Allocates
  <2> QED
    BY <2>1, <2>2, DenoteBy
<1>5. UNCHANGED << Cells(Append(saved, gv_sv)), Cells(av) >>
  <2>1. UNCHANGED Cells(av)
    <3>1. \A n \in DOMAIN av : av[n] # NULL => val'[av[n]] = val[av[n]]
      BY <1>2, <1>3 DEF Allocates, Loose, Lacks, IInv, TypeOK
    <3> QED
      BY <1>2, <3>1 DEF Cells, CellOf
  <2> QED
    BY <1>2, <2>1, ScopesStay
<1> QED
  BY <1>3, <1>4, <1>5 DEF Vars!NewTemp

LEMMA CellsAre ==
  ASSUME IInv
  PROVE  /\ DOMAIN Cells(av) = DOMAIN av /\ Len(Cells(av)) = Len(av)
         /\ Len(av) \in Nat /\ DOMAIN av = 1..Len(av)
         /\ \A n \in DOMAIN av : Cells(av)[n] = CellOf(av[n])
<1>1. Len(av) \in Nat /\ DOMAIN av = 1..Len(av)
  BY DEF IInv, TypeOK
<1> QED
  BY <1>1 DEF Cells

LEMMA ElemRefines ==
  ASSUME IInv, IInv', NEW r \in Reg, NEW index \in Index, pa_av_fetch_lvalue(r, index),
         ~InArray(Slot(index)), ~(Slot(index) < 1)
  PROVE  Vars!CreateElem(r)
<1>1. PICK f : f = Fresh
  OBVIOUS
<1>2. PICK n : n = Slot(index)
  OBVIOUS
<1>3. n \in Nat /\ n # 0 /\ (n \in DOMAIN av => av[n] = NULL)
  BY <1>2, SlotBounded DEF InArray
<1>4. PICK b : b = Stored(n, f)
  OBVIOUS
<1>5. Allocates(f, r) /\ gv_sv' = gv_sv /\ av' = b
  BY <1>1, <1>2, <1>4, FreshIsFree DEF pa_av_fetch_lvalue, Load, lexical, Allocates
<1>6. /\ \A q \in Reg : reg'[q] = IF q = r THEN f ELSE reg[q]
      /\ \A s \in SV : s # f => val'[s] = val[s]
      /\ val'[f] = "undef" /\ UNCHANGED Vars!lexical
  BY <1>5, AllocatedApart
<1>7. f \in SV /\ f # NULL
  BY <1>5 DEF Allocates
<1>8. /\ Adds(b, av, n, f) /\ b \in Seq(SV \cup {NULL})
      /\ Len(b) = IF n > Len(av) THEN n ELSE Len(av)
      /\ \A m \in DOMAIN av : m # n => b[m] = av[m]
      /\ b[n] = f /\ n \in DOMAIN b
  BY <1>3, <1>4, <1>7, StoredAdds DEF IInv
<1>9. PICK l \in Nat : l = Len(b)
  BY <1>8
<1>10. PICK k \in Nat : k = Len(av)
  BY CellsAre
<1>11. /\ DOMAIN b = 1..l /\ l = IF n > k THEN n ELSE k
       /\ DOMAIN av = 1..k
  BY <1>8, <1>9, <1>10, CellsAre
<1>12. \A m \in DOMAIN av : m \in DOMAIN b
  BY <1>3, <1>11
<1>13. Vars!Denote(r, Vars!Elem(n))
  <2>1. Place(r)' = Vars!Elem(n)
    <3>1. PICK w : w = val'
      OBVIOUS
    <3>2. Sorted(gv_sv, pad, b)
      BY <1>5, SortedNext DEF Allocates
    <3>3. PlaceIn(b[n], gv_sv, pad, b, w) = Vars!Elem(n)
      BY <1>7, <1>8, <3>2, PlaceOfElem
    <3>4. reg'[r] = b[n] /\ gv_sv' = gv_sv /\ pad' = pad /\ av' = b /\ val' = w
      BY <1>5, <1>6, <1>8, <3>1 DEF Allocates
    <3>5. Place(r)' = PlaceIn(reg'[r], gv_sv', pad', av', val')
      BY PlaceIs
    <3> QED
      BY <3>3, <3>4, <3>5
  <2>2. ASSUME NEW q \in Reg, q # r PROVE Place(q)' = Place(q)
    <3>1. Loose(reg[q], gv_sv, saved, av, pad, kept) =>
            /\ reg[q] # gv_sv' /\ Lacks(av', reg[q]) /\ val'[reg[q]] = val[reg[q]]
      <4> SUFFICES ASSUME Loose(reg[q], gv_sv, saved, av, pad, kept)
                   PROVE  /\ reg[q] # gv_sv' /\ Lacks(av', reg[q])
                          /\ val'[reg[q]] = val[reg[q]]
        OBVIOUS
      <4>1. reg[q] \in SV /\ reg[q] # gv_sv /\ reg[q] # f /\ Lacks(av, reg[q])
        BY <1>5 DEF Loose, Allocates
      <4>2. reg[q] # NULL
        BY <4>1, AccessAssumption
      <4>3. Lacks(b, reg[q])
        BY <1>8, <4>1, <4>2, AddsLacks
      <4> QED
        BY <1>5, <1>6, <4>1, <4>3
    <3>2. \A m \in DOMAIN av : av[m] # NULL => m \in DOMAIN av' /\ av'[m] = av[m]
      BY <1>3, <1>5, <1>8, <1>12
    <3> QED
      BY <1>5, <1>6, <2>2, <3>1, <3>2, RegStays DEF Allocates
  <2> QED
    BY <2>1, <2>2, DenoteBy
<1>14. UNCHANGED Cells(Append(saved, gv_sv))
  BY <1>5, ScopesStay
<1>15. \A m \in DOMAIN av : av[m] # NULL => val'[av[m]] = val[av[m]]
  BY <1>5, <1>6 DEF Allocates, Loose, Lacks, IInv, TypeOK
<1>16. Cells(av)' = [m \in 1..l |->
          IF m = n THEN "undef"
          ELSE IF m \in DOMAIN av THEN CellOf(av[m]) ELSE "missing"]
  <2>1. PICK w : w = val'
    OBVIOUS
  <2>2. Cells(av)' = [m \in 1..l |-> IF b[m] = NULL THEN "missing" ELSE w[b[m]]]
    BY <1>5, <1>11, <2>1 DEF Cells, CellOf
  <2>3. ASSUME NEW m \in 1..l
        PROVE  (IF b[m] = NULL THEN "missing" ELSE w[b[m]])
                 = IF m = n THEN "undef"
                   ELSE IF m \in DOMAIN av THEN CellOf(av[m]) ELSE "missing"
    <3>1. CASE m = n
      BY <1>6, <1>7, <1>8, <2>1, <3>1
    <3>2. CASE m # n /\ m \in DOMAIN av
      <4>1. b[m] = av[m]
        BY <1>8, <3>2
      <4>2. av[m] # NULL => w[av[m]] = val[av[m]]
        BY <1>15, <2>1, <3>2
      <4> QED
        BY <3>2, <4>1, <4>2 DEF CellOf
    <3>3. CASE m # n /\ m \notin DOMAIN av
      <4>1. b[m] = NULL
        BY <1>8, <1>11, <3>3 DEF Adds
      <4> QED
        BY <3>3, <4>1
    <3> QED
      BY <3>1, <3>2, <3>3
  <2> QED
    BY <2>2, <2>3
<1>17. Cells(av)' = [m \in 1..(IF n > Len(Cells(av)) THEN n ELSE Len(Cells(av))) |->
          IF m = n THEN "undef"
          ELSE IF m \in DOMAIN Cells(av) THEN Cells(av)[m] ELSE "missing"]
  <2>1. Len(Cells(av)) = k /\ DOMAIN Cells(av) = DOMAIN av
        /\ \A m \in DOMAIN av : Cells(av)[m] = CellOf(av[m])
    BY <1>10, CellsAre
  <2> QED
    BY <1>11, <1>16, <2>1
<1>18. n \in 1..Len(Cells(av)')
  <2>1. Len(Cells(av)') = l
    BY <1>16
  <2> QED
    BY <1>3, <1>11, <2>1
<1>19. n \in DOMAIN Cells(av) => Cells(av)[n] = "missing"
  BY <1>3, CellsAre DEF CellOf
<1> QED
  BY <1>6, <1>13, <1>14, <1>17, <1>18, <1>19 DEF Vars!CreateElem

-----------------------------------------------------------------------------
(* Writing.                                                                *)
Writes(x, v) ==
  /\ x \in SV /\ v \in Val \cup {"undef"} /\ val' = [val EXCEPT ![x] = v]
  /\ UNCHANGED << gv_sv, saved, av, pad, clearsv, kept, reg >>

(* A write is seen where the scalar is.                                    *)
LEMMA WriteElsewhere ==
  ASSUME IInv, NEW x, NEW v, Writes(x, v)
  PROVE  /\ x # gv_sv /\ Lacks(saved, x) => UNCHANGED Cells(Append(saved, gv_sv))
         /\ Lacks(av, x) => UNCHANGED Cells(av)
         /\ x # pad /\ Lacks(kept, x) => UNCHANGED Vars!lexical
<1>1. x # NULL
  BY AccessAssumption DEF Writes
<1>2. ASSUME x # gv_sv, Lacks(saved, x) PROVE UNCHANGED Cells(Append(saved, gv_sv))
  <2>1. saved \in Seq(SV \cup {NULL})
    BY DEF IInv, TypeOK
  <2>2. Adds(Append(saved, gv_sv), saved, Len(saved) + 1, gv_sv)
    BY <2>1, AppendAdds
  <2>3. Lacks(Append(saved, gv_sv), x)
    BY <1>1, <1>2, <2>2, AddsLacks
  <2>4. CellsIn(Append(saved, gv_sv), [val EXCEPT ![x] = v])
          = CellsIn(Append(saved, gv_sv), val)
    BY <2>3, CellsElsewhere
  <2> QED
    BY <2>4, MappedAre DEF Writes
<1>3. ASSUME Lacks(av, x) PROVE UNCHANGED Cells(av)
  <2>1. CellsIn(av, [val EXCEPT ![x] = v]) = CellsIn(av, val)
    BY <1>3, CellsElsewhere
  <2> QED
    BY <2>1, MappedAre DEF Writes
<1>4. ASSUME x # pad, Lacks(kept, x) PROVE UNCHANGED Vars!lexical
  <2>1. val'[pad] = val[pad]
    BY <1>4 DEF Writes, IInv, TypeOK
  <2>2. \A n \in DOMAIN kept : val'[kept[n]] = val[kept[n]]
    BY <1>4 DEF Writes, Lacks, IInv, TypeOK
  <2>3. UNCHANGED [n \in DOMAIN kept |-> IF kept[n] = pad THEN "current" ELSE val[kept[n]]]
    BY <2>2 DEF Writes
  <2> QED
    BY <2>1, <2>3 DEF Vars!lexical, Writes
<1> QED
  BY <1>2, <1>3, <1>4

(* No register changes its place by a write, but one of a temporary.       *)
LEMMA WriteStays ==
  ASSUME IInv, IInv', NEW x, NEW v, Writes(x, v), NEW q \in Reg,
         Loose(reg[q], gv_sv, saved, av, pad, kept) => reg[q] # x
  PROVE  Place(q)' = Place(q)
<1>1. Loose(reg[q], gv_sv, saved, av, pad, kept) =>
        /\ reg[q] # gv_sv' /\ Lacks(av', reg[q]) /\ val'[reg[q]] = val[reg[q]]
  BY DEF Loose, Writes, IInv, TypeOK
<1>2. \A n \in DOMAIN av : av[n] # NULL => n \in DOMAIN av' /\ av'[n] = av[n]
  BY DEF Writes
<1>3. reg'[q] = reg[q] /\ pad' = pad /\ gv_sv' = gv_sv
  BY DEF Writes
<1> QED
  BY <1>1, <1>2, <1>3, RegStays

LEMMA PlacesStay ==
  ASSUME \A q \in Reg : Place(q)' = Place(q)
  PROVE  UNCHANGED [r \in Reg |-> Place(r)]
OBVIOUS

LEMMA ScalarWritten ==
  ASSUME IInv, IInv', NEW r \in Reg, NEW v, Writes(reg[r], v), reg[r] = gv_sv
  PROVE  Vars!Write(r, v)
<1>1. /\ gv_sv \in SV /\ gv_sv # NULL /\ gv_sv # pad
      /\ Lacks(saved, gv_sv) /\ Lacks(av, gv_sv) /\ Lacks(kept, gv_sv)
  BY AccessAssumption DEF Writes, IInv, OnePlace
<1>2. Place(r).p = "scalar"
  <2>1. Place(r) = Vars!Scalar
    BY <1>1, Places, PlaceIs, SortedNow
  <2> QED
    BY <2>1 DEF Vars!Scalar
<1>3. UNCHANGED Cells(av) /\ UNCHANGED Vars!lexical
  BY <1>1, WriteElsewhere
<1>4. UNCHANGED [q \in Reg |-> Place(q)]
  <2>1. ASSUME NEW q \in Reg PROVE Place(q)' = Place(q)
    <3>1. Loose(reg[q], gv_sv, saved, av, pad, kept) => reg[q] # reg[r]
      BY DEF Loose
    <3> QED
      BY <3>1, WriteStays
  <2> QED
    BY <2>1, PlacesStay
<1>5. Cells(Append(saved, gv_sv))'
        = [Cells(Append(saved, gv_sv)) EXCEPT ![Len(Cells(Append(saved, gv_sv)))] = v]
  <2>1. PICK w : w = [val EXCEPT ![gv_sv] = v]
    OBVIOUS
  <2>2. saved \in Seq(SV \cup {NULL}) /\ w[gv_sv] = v
    BY <1>1, <2>1 DEF IInv, TypeOK
  <2>3. CellsIn(saved, w) = CellsIn(saved, val)
    <3>1. CellsIn(saved, [val EXCEPT ![gv_sv] = v]) = CellsIn(saved, val)
      BY <1>1, CellsElsewhere
    <3> QED
      BY <2>1, <3>1
  <2>4. CellsIn(Append(saved, gv_sv), w)
          = [CellsIn(Append(saved, gv_sv), val)
               EXCEPT ![Len(CellsIn(Append(saved, gv_sv), val))] = w[gv_sv]]
    BY <1>1, <2>2, <2>3, InnermostSet
  <2>5. Cells(Append(saved, gv_sv))' = CellsIn(Append(saved, gv_sv), w)
    BY <2>1, MappedAre DEF Writes
  <2> QED
    BY <2>2, <2>4, <2>5, MappedAre
<1> QED
  BY <1>2, <1>3, <1>4, <1>5 DEF Vars!Write

LEMMA LexicalWritten ==
  ASSUME IInv, IInv', NEW r \in Reg, NEW v, Writes(reg[r], v), reg[r] = pad
  PROVE  Vars!Write(r, v)
<1>1. pad \in SV /\ gv_sv # pad /\ Lacks(saved, pad) /\ Lacks(av, pad)
  BY AccessAssumption DEF IInv, TypeOK, OnePlace
<1>2. Place(r).p = "my"
  <2>1. Place(r) = Vars!My
    BY Places, PlaceIs, SortedNow
  <2> QED
    BY <2>1 DEF Vars!My
<1>3. UNCHANGED << Cells(Append(saved, gv_sv)), Cells(av) >>
  BY <1>1, WriteElsewhere
<1>4. UNCHANGED [q \in Reg |-> Place(q)]
  <2>1. ASSUME NEW q \in Reg PROVE Place(q)' = Place(q)
    <3>1. Loose(reg[q], gv_sv, saved, av, pad, kept) => reg[q] # reg[r]
      BY DEF Loose
    <3> QED
      BY <3>1, WriteStays
  <2> QED
    BY <2>1, PlacesStay
<1>5. val'[pad'] = v /\ clearsv' = clearsv
  BY <1>1 DEF Writes, IInv, TypeOK
<1>6. UNCHANGED [n \in DOMAIN kept |-> IF kept[n] = pad THEN "current" ELSE val[kept[n]]]
  <2>1. \A n \in DOMAIN kept : kept[n] # pad => val'[kept[n]] = val[kept[n]]
    BY DEF Writes, IInv, TypeOK
  <2> QED
    BY <2>1 DEF Writes
<1> QED
  BY <1>2, <1>3, <1>4, <1>5, <1>6 DEF Vars!Write

LEMMA ElemWritten ==
  ASSUME IInv, IInv', NEW r \in Reg, NEW v, Writes(reg[r], v),
         NEW n \in DOMAIN av, av[n] # NULL, reg[r] = av[n]
  PROVE  Vars!Write(r, v)
<1>1. /\ av[n] \in SV /\ av[n] # gv_sv /\ av[n] # pad
      /\ Lacks(saved, av[n]) /\ Lacks(kept, av[n])
  BY DEF IInv, TypeOK, OnePlace, Lacks, Apart
<1>2. Place(r).p = "elem" /\ Place(r).n = n
  <2>1. Place(r) = Vars!Elem(n)
    BY PlaceOfElem, PlaceIs, SortedNow
  <2> QED
    BY <2>1 DEF Vars!Elem
<1>3. UNCHANGED Cells(Append(saved, gv_sv)) /\ UNCHANGED Vars!lexical
  BY <1>1, WriteElsewhere
<1>4. UNCHANGED [q \in Reg |-> Place(q)]
  <2>1. ASSUME NEW q \in Reg PROVE Place(q)' = Place(q)
    <3>1. Loose(reg[q], gv_sv, saved, av, pad, kept) => reg[q] # reg[r]
      BY DEF Loose, Lacks
    <3> QED
      BY <3>1, WriteStays
  <2> QED
    BY <2>1, PlacesStay
<1>5. Cells(av)' = [Cells(av) EXCEPT ![n] = v]
  <2>1. \A m \in DOMAIN av : m # n /\ av[m] # NULL => av[m] # av[n]
    BY DEF IInv, OnePlace, Once
  <2>2. \A m \in DOMAIN av : m # n /\ av[m] # NULL => val'[av[m]] = val[av[m]]
    BY <2>1 DEF Writes, IInv, TypeOK
  <2>3. val'[av[n]] = v
    BY <1>1 DEF Writes, IInv, TypeOK
  <2> QED
    BY <2>2, <2>3 DEF Cells, CellOf, Writes
<1> QED
  BY <1>2, <1>3, <1>4, <1>5 DEF Vars!Write

LEMMA TempWritten ==
  ASSUME IInv, IInv', NEW r \in Reg, NEW v, Writes(reg[r], v),
         Loose(reg[r], gv_sv, saved, av, pad, kept),
         \A q \in Reg : q # r => reg[q] # reg[r]
  PROVE  Vars!Write(r, v)
<1>1. PICK x : x = reg[r]
  OBVIOUS
<1>2. x \in SV /\ x # gv_sv /\ x # pad /\ Lacks(saved, x) /\ Lacks(av, x) /\ Lacks(kept, x)
  BY <1>1 DEF Loose
<1>3. Place(r).p = "temp"
  <2>1. PlaceIn(x, gv_sv, pad, av, val) = Vars!Temp(val[x])
    BY <1>2, PlaceOfTemp, SortedNow
  <2> QED
    BY <1>1, <2>1, PlaceIs DEF Vars!Temp
<1>4. UNCHANGED << Cells(Append(saved, gv_sv)), Cells(av) >> /\ UNCHANGED Vars!lexical
  BY <1>1, <1>2, WriteElsewhere
<1>5. Vars!Denote(r, Vars!Temp(v))
  <2>1. Place(r)' = Vars!Temp(v)
    <3>1. PICK w : w = val'
      OBVIOUS
    <3>2. PlaceIn(x, gv_sv, pad, av, w) = Vars!Temp(w[x])
      BY <1>2, PlaceOfTemp, SortedNow
    <3>3. w[x] = v
      BY <1>1, <1>2, <3>1 DEF Writes, IInv, TypeOK
    <3>4. reg'[r] = x /\ gv_sv' = gv_sv /\ pad' = pad /\ av' = av /\ val' = w
      BY <1>1, <3>1 DEF Writes
    <3>5. Place(r)' = PlaceIn(reg'[r], gv_sv', pad', av', val')
      BY PlaceIs
    <3> QED
      BY <3>2, <3>3, <3>4, <3>5
  <2>2. ASSUME NEW q \in Reg, q # r PROVE Place(q)' = Place(q)
    <3>1. reg[q] # reg[r]
      BY <2>2
    <3> QED
      BY <3>1, WriteStays
  <2> QED
    BY <2>1, <2>2, DenoteBy
<1> QED
  BY <1>3, <1>4, <1>5 DEF Vars!Write

-----------------------------------------------------------------------------
(* Perl code, and what leaves the body.                                    *)
LEMMA NothingLeft ==
  ASSUME IInv', reg' = [r \in Reg |-> NULL], NEW q \in Reg
  PROVE  Place(q)' = Vars!Nothing
<1>1. PICK g : g = gv_sv'
  OBVIOUS
<1>2. PICK p : p = pad'
  OBVIOUS
<1>3. PICK a : a = av'
  OBVIOUS
<1>4. PICK w : w = val'
  OBVIOUS
<1>5. PlaceIn(NULL, g, p, a, w) = Vars!Nothing
  BY <1>1, <1>2, <1>3, SortedNext, Places
<1>6. reg'[q] = NULL
  OBVIOUS
<1>7. Place(q)' = PlaceIn(reg'[q], g, p, a, w)
  BY <1>1, <1>2, <1>3, <1>4, PlaceIs
<1> QED
  BY <1>5, <1>6, <1>7

LEMMA ByPerlCode ==
  ASSUME IInv', reg' = [r \in Reg |-> NULL], clearsv' = clearsv
  PROVE  Vars!PerlCode
<1>1. [r \in Reg |-> Place(r)]' = [r \in Reg |-> Vars!Nothing]
  BY NothingLeft
<1>2. /\ saved' \in Seq(SV \cup {NULL}) /\ av' \in Seq(SV \cup {NULL})
      /\ gv_sv' \in SV \cup {NULL} /\ pad' \in SV /\ kept' \in Seq(SV)
      /\ val' \in [SV -> Val \cup {"undef"}]
  BY DEF IInv, TypeOK
<1>3. Cells(Append(saved, gv_sv))' \in Seq(Vars!Cell)
  <2>1. PICK s \in Seq(SV \cup {NULL}) : s = saved'
    BY <1>2
  <2>2. PICK g \in SV \cup {NULL} : g = gv_sv'
    BY <1>2
  <2>3. Append(s, g) \in Seq(SV \cup {NULL})
    OBVIOUS
  <2>4. PICK q \in Seq(SV \cup {NULL}) : q = Append(saved', gv_sv')
    BY <2>1, <2>2, <2>3
  <2>5. PICK w \in [SV -> Val \cup {"undef"}] : w = val'
    BY <1>2
  <2>6. CellsIn(q, w) \in Seq(Vars!Cell)
    BY CellsTyped
  <2> QED
    BY <2>4, <2>5, <2>6, MappedAre
<1>4. Cells(av)' \in Seq(Vars!Cell)
  <2>1. PICK q \in Seq(SV \cup {NULL}) : q = av'
    BY <1>2
  <2>2. PICK w \in [SV -> Val \cup {"undef"}] : w = val'
    BY <1>2
  <2>3. CellsIn(q, w) \in Seq(Vars!Cell)
    BY CellsTyped
  <2> QED
    BY <2>1, <2>2, <2>3, MappedAre
<1>5. val'[pad'] \in Vars!Cell
  BY <1>2 DEF Vars!Cell
<1>6. [n \in DOMAIN kept |-> IF kept[n] = pad THEN "current" ELSE val[kept[n]]]'
        \in Seq(Vars!Cell \cup {"current"})
  <2>1. PICK k \in Seq(SV) : k = kept'
    BY <1>2
  <2>2. PICK p : p = pad'
    OBVIOUS
  <2>3. PICK w \in [SV -> Val \cup {"undef"}] : w = val'
    BY <1>2
  <2>4. ClosuresIn(k, p, w) \in Seq(Vars!Cell \cup {"current"})
    BY ClosuresTyped
  <2> QED
    BY <2>1, <2>2, <2>3, <2>4 DEF ClosuresIn
<1> QED
  BY <1>1, <1>3, <1>4, <1>5, <1>6 DEF Vars!PerlCode

LEMMA SetRefines ==
  ASSUME IInv, IInv', NEW r \in Reg, NEW v \in Val \cup {"undef"}, reg[r] # NULL, SetTo(r, v)
  PROVE  Vars!PerlCode \/ Vars!Write(r, v)
<1>1. CASE reg[r] = PL_sv_undef
  BY <1>1, ByPerlCode DEF SetTo, Croak, lexical
<1>2. CASE reg[r] # PL_sv_undef
  <2>1. Writes(reg[r], v)
    BY <1>2 DEF SetTo, Writes, lexical, IInv, TypeOK
  <2>2. RegOK(r)
    BY DEF IInv
  <2>3. CASE reg[r] = gv_sv
    BY <2>1, <2>3, ScalarWritten
  <2>4. CASE reg[r] = pad
    BY <2>1, <2>4, LexicalWritten
  <2>5. CASE \E n \in DOMAIN av : av[n] # NULL /\ reg[r] = av[n]
    BY <2>1, <2>5, ElemWritten
  <2>6. CASE /\ Loose(reg[r], gv_sv, saved, av, pad, kept)
             /\ \A q \in Reg : q # r => reg[q] # reg[r]
    BY <2>1, <2>6, TempWritten
  <2> QED
    BY <1>2, <2>2, <2>3, <2>4, <2>5, <2>6 DEF RegOK
<1> QED
  BY <1>1, <1>2

(* What a register denotes has the value of its scalar.                    *)
LEMMA ValueIs ==
  ASSUME IInv, NEW r \in Reg, reg[r] # NULL
  PROVE  Place(r) # Vars!Nothing /\ Vars!Value(Place(r)) = Get(reg[r])
<1>1. PICK x : x = reg[r]
  OBVIOUS
<1>2. Place(r) = PlaceIn(x, gv_sv, pad, av, val)
  BY <1>1, PlaceIs
<1>3. PL_sv_undef \notin SV /\ pad \in SV /\ gv_sv \in SV \cup {NULL}
  BY AccessAssumption DEF IInv, TypeOK
<1>4. CASE x = PL_sv_undef
  <2>1. Place(r) = Vars!NoValue
    BY <1>2, <1>4, Places, SortedNow
  <2> QED
    BY <1>1, <1>4, <2>1 DEF Vars!NoValue, Vars!Nothing, Vars!Value, Get
<1>5. CASE x = gv_sv
  <2>1. Place(r) = Vars!Scalar
    BY <1>1, <1>2, <1>5, Places, SortedNow
  <2>2. Vars!Innermost = Get(x)
    BY <1>1, <1>3, <1>5, InnermostIs, AccessAssumption DEF CellOf, Get
  <2> QED
    BY <1>1, <2>1, <2>2 DEF Vars!Scalar, Vars!Nothing, Vars!Value
<1>6. CASE x = pad
  <2>1. Place(r) = Vars!My
    BY <1>2, <1>6, Places, SortedNow
  <2> QED
    BY <1>1, <1>3, <1>6, <2>1 DEF Vars!My, Vars!Nothing, Vars!Value, Get
<1>7. CASE \E n \in DOMAIN av : av[n] # NULL /\ x = av[n]
  <2>1. PICK n \in DOMAIN av : av[n] # NULL /\ x = av[n]
    BY <1>7
  <2>2. Place(r) = Vars!Elem(n)
    BY <1>2, <2>1, PlaceOfElem, SortedNow
  <2>3. x \in SV
    BY <2>1 DEF IInv, TypeOK
  <2>4. Cells(av)[n] = Get(x)
    BY <1>3, <2>1, <2>3 DEF Cells, CellOf, Get
  <2> QED
    BY <1>1, <2>2, <2>4 DEF Vars!Elem, Vars!Nothing, Vars!Value
<1>8. CASE Loose(x, gv_sv, saved, av, pad, kept)
  <2>1. Place(r) = Vars!Temp(val[x])
    BY <1>2, <1>8, PlaceOfTemp, SortedNow DEF Loose
  <2>2. x \in SV
    BY <1>8 DEF Loose
  <2> QED
    BY <1>1, <1>3, <2>1, <2>2 DEF Vars!Temp, Vars!Nothing, Vars!Value, Get
<1> QED
  <2>1. RegOK(r)
    BY DEF IInv
  <2> QED
    BY <1>1, <1>4, <1>5, <1>6, <1>7, <1>8, <2>1 DEF RegOK

LEMMA CopyRefines ==
  ASSUME IInv, IInv', NEW d \in Reg, NEW s \in Reg, pa_sv_set_sv_nosteal(d, s)
  PROVE  Vars!PerlCode \/ Vars!Copy(d, s)
<1>1. reg[d] # NULL /\ reg[s] # NULL /\ SetTo(d, Get(reg[s]))
  BY DEF pa_sv_set_sv_nosteal
<1>2. Get(reg[s]) \in Val \cup {"undef"}
  BY <1>1, GetTyped
<1>3. Vars!PerlCode \/ Vars!Write(d, Get(reg[s]))
  BY <1>1, <1>2, SetRefines
<1>4. Place(s) # Vars!Nothing /\ Vars!Value(Place(s)) = Get(reg[s])
  BY <1>1, ValueIs
<1> QED
  BY <1>3, <1>4 DEF Vars!Copy

LEMMA UnstackRefines ==
  ASSUME IInv, IInv', pa_pp_unstack
  PROVE  Vars!EndIteration
<1>1. PICK f : f = Fresh
  OBVIOUS
<1>2. f \in SV /\ f # NULL /\ Loose(f, gv_sv, saved, av, pad, kept)
  BY <1>1, FreshIsFree
<1>3. /\ pad' = IF clearsv /\ pad \in ToSet(kept) THEN f ELSE pad
      /\ val' = IF clearsv THEN [val EXCEPT ![pad'] = "undef"] ELSE val
      /\ clearsv' = FALSE /\ reg' = [r \in Reg |-> NULL]
      /\ UNCHANGED << gv_sv, saved, av, kept >>
  BY <1>1 DEF pa_pp_unstack
<1>4. [r \in Reg |-> Place(r)]' = [r \in Reg |-> Vars!Nothing]
  BY <1>3, NothingLeft
<1>5. /\ pad' \in SV /\ pad' # gv_sv /\ Lacks(saved, pad') /\ Lacks(av, pad')
      /\ val \in [SV -> Val \cup {"undef"}] /\ kept \in Seq(SV)
  BY <1>2, <1>3, AccessAssumption DEF Loose, IInv, TypeOK, OnePlace
<1>6. UNCHANGED << Cells(Append(saved, gv_sv)), Cells(av) >>
  <2>1. \A s \in SV : s # pad' => val'[s] = val[s]
    BY <1>3, <1>5
  <2>2. \A n \in DOMAIN av : av[n] # NULL => val'[av[n]] = val[av[n]]
    BY <1>5, <2>1 DEF Lacks, IInv, TypeOK
  <2>3. UNCHANGED Cells(av)
    BY <1>3, <2>2 DEF Cells, CellOf
  <2>4. Lacks(Append(saved, gv_sv), pad')
    <3>1. saved \in Seq(SV \cup {NULL})
      BY DEF IInv, TypeOK
    <3>2. Adds(Append(saved, gv_sv), saved, Len(saved) + 1, gv_sv)
      BY <3>1, AppendAdds
    <3>3. pad' # NULL
      BY <1>5, AccessAssumption
    <3> QED
      BY <1>5, <3>2, <3>3, AddsLacks
  <2>5. CellsIn(Append(saved, gv_sv), val') = CellsIn(Append(saved, gv_sv), val)
    <3>1. CellsIn(Append(saved, gv_sv), [val EXCEPT ![pad'] = "undef"])
            = CellsIn(Append(saved, gv_sv), val)
      BY <2>4, CellsElsewhere
    <3> QED
      BY <1>3, <3>1
  <2> QED
    BY <1>3, <2>3, <2>5, MappedAre
<1>7. CASE clearsv
  <2>1. val'[pad'] = "undef"
    BY <1>3, <1>5, <1>7
  <2>2. ASSUME NEW n \in DOMAIN kept
        PROVE  (IF kept'[n] = pad' THEN "current" ELSE val'[kept'[n]])
                 = IF (IF kept[n] = pad THEN "current" ELSE val[kept[n]]) = "current"
                   THEN val[pad] ELSE IF kept[n] = pad THEN "current" ELSE val[kept[n]]
    <3>1. kept[n] \in SV /\ kept[n] # pad'
      BY <1>2, <1>3, <1>5, <1>7 DEF Loose, Lacks, ToSet
    <3>2. val'[kept[n]] = val[kept[n]]
      BY <1>3, <1>5, <3>1
    <3>3. val[kept[n]] # "current"
      BY <1>5, <3>1, AccessAssumption
    <3> QED
      BY <1>3, <3>1, <3>2, <3>3
  <2>3. [n \in DOMAIN kept |-> IF kept[n] = pad THEN "current" ELSE val[kept[n]]]'
          = [n \in DOMAIN [m \in DOMAIN kept |->
                             IF kept[m] = pad THEN "current" ELSE val[kept[m]]] |->
               IF [m \in DOMAIN kept |->
                     IF kept[m] = pad THEN "current" ELSE val[kept[m]]][n] = "current"
               THEN val[pad]
               ELSE [m \in DOMAIN kept |->
                       IF kept[m] = pad THEN "current" ELSE val[kept[m]]][n]]
    BY <1>3, <2>2
  <2> QED
    BY <1>3, <1>4, <1>6, <1>7, <2>1, <2>3 DEF Vars!EndIteration
<1>8. CASE ~clearsv
  <2>1. val'[pad'] = val[pad]
        /\ UNCHANGED [n \in DOMAIN kept |-> IF kept[n] = pad THEN "current" ELSE val[kept[n]]]
    BY <1>3, <1>8
  <2> QED
    BY <1>3, <1>4, <1>6, <1>8, <2>1 DEF Vars!EndIteration
<1> QED
  BY <1>7, <1>8 DEF IInv, TypeOK

-----------------------------------------------------------------------------
(* Every step.                                                             *)
LEMMA LookingUp ==
  ASSUME IInv, IInv', NEW r \in Reg,
         \/ pa_gv_sv(r) \/ pa_gv_svn(r) \/ pa_new_mortal_sv(r) \/ pa_get_pad_sv(r)
         \/ \E i \in Index : pa_av_fetch(r, i) \/ pa_av_fetch_lvalue(r, i)
  PROVE  Vars!LookUp(r) \/ Vars!CreateScalar(r) \/ Vars!CreateElem(r) \/ Vars!NewTemp(r)
<1>1. CASE pa_gv_sv(r)
  BY <1>1, GvSvRefines
<1>2. CASE pa_gv_svn(r)
  <2>1. CASE gv_sv = NULL
    BY <1>2, <2>1, CreateRefines
  <2>2. CASE gv_sv # NULL
    BY <1>2, <2>2, GvSvRefines DEF pa_gv_svn
  <2> QED
    BY <2>1, <2>2
<1>3. CASE pa_new_mortal_sv(r)
  BY <1>3, MortalRefines
<1>4. CASE pa_get_pad_sv(r)
  BY <1>4, PadRefines
<1>5. ASSUME NEW i \in Index, pa_av_fetch(r, i)
      PROVE  Vars!LookUp(r)
  BY <1>5, FetchRefines
<1>6. ASSUME NEW i \in Index, pa_av_fetch_lvalue(r, i)
      PROVE  Vars!LookUp(r) \/ Vars!CreateElem(r)
  <2>1. CASE InArray(Slot(i)) \/ Slot(i) < 1
    BY <1>6, <2>1, FetchRefines DEF pa_av_fetch_lvalue
  <2>2. CASE ~InArray(Slot(i)) /\ ~(Slot(i) < 1)
    BY <1>6, <2>2, ElemRefines
  <2> QED
    BY <2>1, <2>2
<1> QED
  BY <1>1, <1>2, <1>3, <1>4, <1>5, <1>6

LEMMA PerlRefines ==
  ASSUME IInv',
         \/ Local \/ LeaveScope \/ Shift \/ Delete \/ MakeClosure \/ DropClosure
         \/ \E v \in Val : AssignScalar(v) \/ CallClosure(v)
  PROVE  Vars!PerlCode
<1>1. reg' = [r \in Reg |-> NULL] /\ clearsv' = clearsv
  BY DEF Local, LeaveScope, Shift, Delete, MakeClosure, DropClosure, AssignScalar,
         CallClosure, PerlCode
<1> QED
  BY <1>1, ByPerlCode

LEMMA IntroduceRefines ==
  ASSUME pa_save_clearsv
  PROVE  Vars!Introduce
BY DEF pa_save_clearsv, Vars!Introduce, Cells, CellOf, Place, Get

AllVars == << Cells(Append(saved, gv_sv)), Cells(av), Vars!lexical, [r \in Reg |-> Place(r)] >>

LEMMA StepRefines ==
  ASSUME IInv, IInv', [Next]_vars
  PROVE  Vars!Next \/ UNCHANGED AllVars
<1>1. ASSUME NEW r \in Reg,
             \/ pa_gv_sv(r) \/ pa_gv_svn(r) \/ pa_new_mortal_sv(r) \/ pa_get_pad_sv(r)
             \/ \E i \in Index : pa_av_fetch(r, i) \/ pa_av_fetch_lvalue(r, i)
      PROVE  Vars!Next
  BY <1>1, LookingUp DEF Vars!Next
<1>2. ASSUME NEW r \in Reg, NEW v \in Val, pa_sv_set(r, v)
      PROVE  Vars!Next
  <2>1. Vars!PerlCode \/ Vars!Write(r, v)
    BY <1>2, SetRefines DEF pa_sv_set
  <2> QED
    BY <2>1 DEF Vars!Next, Vars!Assign
<1>3. ASSUME NEW r \in Reg, NEW s \in Reg, pa_sv_set_sv_nosteal(r, s)
      PROVE  Vars!Next
  BY <1>3, CopyRefines DEF Vars!Next
<1>4. CASE pa_save_clearsv
  BY <1>4, IntroduceRefines DEF Vars!Next
<1>5. CASE pa_pp_unstack
  BY <1>5, UnstackRefines DEF Vars!Next
<1>6. CASE \/ Local \/ LeaveScope \/ Shift \/ Delete \/ MakeClosure \/ DropClosure
           \/ \E v \in Val : AssignScalar(v) \/ CallClosure(v)
  BY <1>6, PerlRefines DEF Vars!Next
<1>7. CASE UNCHANGED vars
  BY <1>7 DEF vars, AllVars, Vars!lexical, Cells, CellOf, Place, Get
<1> QED
  BY <1>1, <1>2, <1>3, <1>4, <1>5, <1>6, <1>7 DEF Next

LEMMA InitRefines == Init => Vars!Init
<1> SUFFICES ASSUME Init PROVE Vars!Init
  OBVIOUS
<1>1. Cells(Append(saved, gv_sv)) = << "missing" >>
  <2>1. Append(saved, gv_sv) = << NULL >>
    BY DEF Init
  <2> QED
    BY <2>1 DEF Cells, CellOf
<1>2. Cells(av) = << >>
  BY DEF Init, Cells
<1>3. ASSUME NEW r \in Reg PROVE Place(r) = Vars!Nothing
  <2>1. reg[r] = NULL
    BY DEF Init
  <2>2. PlaceIn(NULL, gv_sv, pad, av, val) = Vars!Nothing
    BY InitInv, SortedNow, Places
  <2> QED
    BY <2>1, <2>2, PlaceIs
<1>4. val[pad] = "undef" /\ clearsv = FALSE
  BY DEF Init
<1>5. [n \in DOMAIN kept |-> IF kept[n] = pad THEN "current" ELSE val[kept[n]]] = << >>
  BY DEF Init
<1> QED
  BY <1>1, <1>2, <1>3, <1>4, <1>5 DEF Vars!Init

(* Compiled code works on the variables that the program has at the        *)
(* moment: for any number of values, registers, indexes, scopes, elements  *)
(* and closures, what it does to scalars is what PerlVars allows.          *)
THEOREM Refines == Spec => ImplementsVars
<1>1. IInv /\ IInv' /\ [Next]_vars => [Vars!Next]_AllVars
  BY StepRefines
<1> QED
  BY <1>1, InitRefines, Invariant, PTL DEF Spec, ImplementsVars, Vars!Spec, AllVars

=============================================================================

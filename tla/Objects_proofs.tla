--------------------------- MODULE Objects_proofs ---------------------------
(***************************************************************************)
(* Proofs about Objects: for any objects and arrays of any length, libjit  *)
(* is given one object for each element that the array had, each from its  *)
(* own place, and the conversion reads past the array only if Perl code    *)
(* has made it shorter.                                                    *)
(***************************************************************************)
EXTENDS Objects, TLAPS

(* An element is being converted: the count is not yet past the size.      *)
Converting == at \in {"FETCH", "check"} => i < size

(* The size was taken before any Perl code ran, and is within the bound.   *)
Taken ==
  /\ at = "start" => i = 0 /\ count = Len(av) /\ ~touched
  /\ at # "start" => size = count
  /\ ~touched => count = Len(av)
  /\ count <= MaxLen

(* The history has what the array holds now.                               *)
Held == \A n \in Places : n \in DOMAIN av => av[n] \in held[n]

(* Each object of the vector, and the element being converted, is one that *)
(* its place has held or returned.                                         *)
FromPlace ==
  /\ Len(res) = i
  /\ \A n \in 1..i : res[n] \in held[n]
  /\ at = "check" => sv \in held[i + 1]
  /\ at = "created" => made = res /\ i = size

(* The inductive invariant.                                                *)
IInv ==
  /\ TypeOK /\ av \in Arrays
  /\ Converting /\ Taken /\ Held /\ FromPlace /\ CrashIsForeign

LEMMA InvEachInPlace == IInv => EachInPlace
BY DEF IInv, TypeOK, Taken, FromPlace, EachInPlace

(* Arrays are sequences, not longer than the bound.                        *)
LEMMA ArraysSeq ==
  ASSUME NEW a \in Arrays
  PROVE  a \in Seq(Elem) /\ Len(a) \in 0..MaxLen /\ DOMAIN a = 1..Len(a)
<1>1. PICK n \in 0..MaxLen : a \in [1..n -> Elem]
  BY DEF Arrays
<1>2. n \in Nat
  BY ObjectsAssumption
<1>3. a \in Seq(Elem) /\ Len(a) = n
  BY <1>1, <1>2
<1> QED
  BY <1>1, <1>3

(* What an array holds at a place is an element, or nothing.               *)
LEMMA HeldType ==
  ASSUME NEW a \in Arrays, NEW n \in Places
  PROVE  /\ HeldAt(a, n) \subseteq Elem
         /\ n \in DOMAIN a => a[n] \in HeldAt(a, n)
<1>1. a \in Seq(Elem)
  BY ArraysSeq
<1>2. CASE n \in DOMAIN a
  <2>1. a[n] \in Elem
    BY <1>1, <1>2
  <2> QED
    BY <1>2, <2>1 DEF HeldAt
<1>3. CASE n \notin DOMAIN a
  BY <1>3 DEF HeldAt
<1> QED
  BY <1>2, <1>3

LEMMA InitInv == Init => IInv
<1> SUFFICES ASSUME Init PROVE IInv
  OBVIOUS
<1>1. << >> \in Seq(Ptr) /\ Len(<< >>) = 0
  OBVIOUS
<1>2. av \in Arrays /\ av \in Seq(Elem) /\ Len(av) \in 0..MaxLen
  BY ArraysSeq DEF Init
<1>3. "other" \in Elem \ {"hole"}
  BY DEF Elem
<1>4. held = [n \in Places |-> HeldAt(av, n)] /\ count = Len(av)
  BY DEF Init
<1>5. held \in [Places -> SUBSET Elem] /\ Held
  BY <1>2, <1>4, HeldType DEF Held
<1>6. TypeOK
  <2>1. res \in Seq(Ptr) /\ made \in Seq(Ptr)
    BY <1>1 DEF Init
  <2>2. sv \in Elem \ {"hole"}
    BY <1>3 DEF Init
  <2>3. touched \in BOOLEAN
    BY DEF Init
  <2>6. count \in Nat
    BY <1>2, <1>4, ObjectsAssumption
  <2>4. i \in 0..size /\ size \in Nat
    BY DEF Init
  <2>5. at \in {"start", "loop", "FETCH", "check", "croaked", "crashed",
               "created", "aborted"}
    BY DEF Init
  <2> QED
    BY <1>2, <1>5, <2>1, <2>2, <2>3, <2>4, <2>5, <2>6 DEF TypeOK
<1>7. Taken
  BY <1>2, <1>4, ObjectsAssumption DEF Init, Taken
<1> QED
  BY <1>1, <1>2, <1>5, <1>6, <1>7
     DEF Init, IInv, Converting, FromPlace, CrashIsForeign

LEMMA TakeSizeInv == IInv /\ TakeSize => IInv'
<1> SUFFICES ASSUME IInv, TakeSize PROVE IInv'
  OBVIOUS
<1>1. /\ at = "start" /\ at' = "loop" /\ size' = Len(av) /\ i = 0
      /\ UNCHANGED << av, i, sv, res, made, count, held, touched >>
  BY DEF TakeSize, Goto, IInv, Taken, past
<1>2. count = Len(av)
  BY <1>1 DEF IInv, Taken
<1>3. TypeOK'
  BY <1>1, <1>2 DEF IInv, TypeOK
<1> QED
  BY <1>1, <1>2, <1>3
     DEF IInv, TypeOK, Converting, Taken, Held, FromPlace, CrashIsForeign

LEMMA FetchInv == IInv /\ Fetch => IInv'
<1> SUFFICES ASSUME IInv, Fetch PROVE IInv'
  OBVIOUS
<1>1. /\ at = "loop" /\ i < size
      /\ UNCHANGED << av, size, i, res, made, count, held, touched >>
  BY DEF Fetch, past
<1>2. /\ i \in Nat /\ size \in Nat /\ av \in Seq(Elem) /\ av \in Arrays
      /\ size = count /\ count <= MaxLen /\ MaxLen \in Nat
  BY <1>1, ObjectsAssumption DEF IInv, TypeOK, Taken
<1>3. i + 1 \in Places
  BY <1>1, <1>2 DEF Places
<1>4. Taken' /\ Held'
  <2>1. at' # "start"
    BY DEF Fetch, Goto
  <2> QED
    BY <1>1, <1>2, <2>1 DEF IInv, Taken, Held
<1>5. CASE i + 1 \notin DOMAIN av \/ av[i + 1] = "hole"
  <2>1. at' = "crashed" /\ sv' = sv
    BY <1>5 DEF Fetch, Goto
  <2>2. TypeOK'
    BY <1>1, <2>1 DEF IInv, TypeOK
  <2>3. CrashIsForeign'
    <3>1. ~touched => i + 1 \in DOMAIN av
      BY <1>1, <1>2 DEF IInv, Taken
    <3> QED
      BY <1>1, <1>5, <3>1 DEF CrashIsForeign
  <2> QED
    BY <1>1, <1>2, <1>4, <2>1, <2>2, <2>3 DEF IInv, Converting, FromPlace
<1>6. CASE i + 1 \in DOMAIN av /\ av[i + 1] # "hole"
  <2>1. /\ sv' = av[i + 1]
        /\ at' = IF av[i + 1] = "magic" THEN "FETCH" ELSE "check"
    BY <1>6 DEF Fetch, Goto
  <2>2. av[i + 1] \in Elem /\ av[i + 1] \in held[i + 1]
    BY <1>2, <1>3, <1>6 DEF IInv, Held
  <2>3. TypeOK'
    BY <1>1, <1>6, <2>1, <2>2 DEF IInv, TypeOK
  <2>4. FromPlace'
    BY <1>1, <2>1, <2>2 DEF IInv, FromPlace
  <2> QED
    BY <1>1, <1>2, <1>4, <2>1, <2>3, <2>4
       DEF IInv, Converting, CrashIsForeign
<1> QED
  BY <1>5, <1>6

(* FETCH may do anything to the array: from then on it is touched, and the *)
(* history only grows.                                                     *)
LEMMA FetchChangesInv == IInv /\ FetchChanges => IInv'
<1> SUFFICES ASSUME IInv, FetchChanges PROVE IInv'
  OBVIOUS
<1>1. /\ av' \in Arrays /\ touched' = TRUE /\ at = "FETCH"
      /\ held' = [n \in Places |-> held[n] \cup HeldAt(av', n)]
      /\ UNCHANGED << at, size, i, sv, res, made, count >>
  BY DEF FetchChanges
<1>2. av' \in Seq(Elem)
  BY <1>1, ArraysSeq
<1>3. held' \in [Places -> SUBSET Elem] /\ Held'
  BY <1>1, HeldType DEF IInv, TypeOK, Held
<1>4. TypeOK'
  BY <1>1, <1>2, <1>3 DEF IInv, TypeOK
<1>5. FromPlace'
  <2>1. /\ i \in Nat /\ i < size /\ size = count /\ count <= MaxLen
        /\ size \in Nat /\ MaxLen \in Nat
    BY <1>1, ObjectsAssumption DEF IInv, TypeOK, Converting, Taken
  <2>2. \A n \in 1..i : n \in Places
    BY <2>1 DEF Places
  <2>3. \A n \in 1..i : res[n] \in held'[n]
    BY <1>1, <2>2 DEF IInv, FromPlace
  <2> QED
    BY <1>1, <2>3 DEF IInv, FromPlace
<1>6. Taken'
  BY <1>1 DEF IInv, Taken
<1> QED
  BY <1>1, <1>3, <1>4, <1>5, <1>6 DEF IInv, Converting, CrashIsForeign

LEMMA FetchReturnsInv == IInv /\ FetchReturns => IInv'
<1> SUFFICES ASSUME IInv, FetchReturns PROVE IInv'
  OBVIOUS
<1>1. /\ at = "FETCH" /\ at' = "check" /\ sv' \in Ptr \cup {"other"}
      /\ held' = [held EXCEPT ![i + 1] = @ \cup {sv'}]
      /\ UNCHANGED << av, size, i, res, made, count, touched >>
  BY DEF FetchReturns, Goto
<1>2. /\ i \in Nat /\ i < size /\ size = count /\ count <= MaxLen
      /\ size \in Nat /\ MaxLen \in Nat
  BY <1>1, ObjectsAssumption DEF IInv, TypeOK, Converting, Taken
<1>3. i + 1 \in Places /\ \A n \in 1..i : n \in Places
  BY <1>2 DEF Places
<1>4. sv' \in Elem \ {"hole"}
  BY <1>1, ObjectsAssumption DEF Elem
<1>5. held \in [Places -> SUBSET Elem]
  BY DEF IInv, TypeOK
<1>6. /\ held' \in [Places -> SUBSET Elem] /\ sv' \in held'[i + 1]
      /\ \A n \in Places : held[n] \subseteq held'[n]
  BY <1>1, <1>3, <1>4, <1>5
<1>7. TypeOK'
  BY <1>1, <1>4, <1>6 DEF IInv, TypeOK
<1>8. Held' /\ FromPlace'
  BY <1>1, <1>3, <1>6 DEF IInv, Held, FromPlace
<1>9. Taken'
  BY <1>1 DEF IInv, Taken
<1> QED
  BY <1>1, <1>2, <1>7, <1>8, <1>9 DEF IInv, Converting, CrashIsForeign

LEMMA ConvertInv == IInv /\ lj_convert_sv_to_object => IInv'
<1> SUFFICES ASSUME IInv, lj_convert_sv_to_object PROVE IInv'
  OBVIOUS
<1>0. /\ at = "check" /\ i < size /\ i \in Nat /\ size \in Nat
      /\ res \in Seq(Ptr) /\ Len(res) = i
      /\ UNCHANGED << av, size, sv, made, count, held, touched >>
  BY DEF lj_convert_sv_to_object, IInv, TypeOK, Converting, FromPlace, past
<1>1. CASE sv \in Ptr
  <2>1. res' = Append(res, sv) /\ i' = i + 1 /\ at' = "loop"
    BY <1>1 DEF lj_convert_sv_to_object, Goto
  <2>2. /\ res' \in Seq(Ptr) /\ Len(res') = i'
        /\ \A n \in 1..i : res'[n] = res[n]
        /\ res'[i + 1] = sv
    BY <1>0, <1>1, <2>1
  <2>3. TypeOK'
    BY <1>0, <2>1, <2>2 DEF IInv, TypeOK
  <2>4. \A n \in 1..i + 1 : res'[n] \in held[n]
    BY <1>0, <2>2 DEF IInv, FromPlace
  <2>5. FromPlace'
    BY <1>0, <2>1, <2>2, <2>4 DEF FromPlace
  <2>6. Taken' /\ Held'
    BY <1>0, <2>1 DEF IInv, Taken, Held
  <2> QED
    BY <1>0, <2>1, <2>3, <2>5, <2>6 DEF IInv, Converting, CrashIsForeign
<1>2. CASE sv \notin Ptr
  <2>1. at' = "croaked" /\ UNCHANGED << i, res >>
    BY <1>2 DEF lj_convert_sv_to_object, Goto
  <2>2. TypeOK'
    BY <1>0, <2>1 DEF IInv, TypeOK
  <2> QED
    BY <1>0, <2>1, <2>2
       DEF IInv, Converting, Taken, Held, FromPlace, CrashIsForeign
<1> QED
  BY <1>1, <1>2

LEMMA CreateInv == IInv /\ jit_type_create => IInv'
<1> SUFFICES ASSUME IInv, jit_type_create PROVE IInv'
  OBVIOUS
<1>1. /\ at = "loop" /\ i = size
      /\ \/ at' = "created" /\ made' = res
         \/ at' = "aborted" /\ made' = made
      /\ UNCHANGED << av, size, i, sv, res, count, held, touched >>
  BY DEF jit_type_create, Goto, past
<1>2. TypeOK'
  BY <1>1 DEF IInv, TypeOK
<1> QED
  BY <1>1, <1>2 DEF IInv, Converting, Taken, Held, FromPlace, CrashIsForeign

LEMMA StepInv == IInv /\ [Next]_vars => IInv'
<1>1. CASE UNCHANGED vars
  BY <1>1
     DEF vars, past, IInv, TypeOK, Converting, Taken, Held, FromPlace,
         CrashIsForeign
<1> QED
  BY <1>1, TakeSizeInv, FetchInv, FetchChangesInv, FetchReturnsInv, ConvertInv,
     CreateInv DEF Next

-----------------------------------------------------------------------------
(* The inductive invariant holds in every reachable state.                 *)
THEOREM Invariant == Spec => []IInv
BY InitInv, StepInv, PTL DEF Spec

(* The locals of the conversion and the vector keep their types.           *)
THEOREM TypeCorrect == Spec => []TypeOK
<1>1. IInv => TypeOK
  BY DEF IInv
<1> QED
  BY <1>1, Invariant, PTL

(* What libjit is given has an object for each element that was counted,  *)
(* and each is one that its own place of the array held or returned.       *)
THEOREM InPlace == Spec => []EachInPlace
BY InvEachInPlace, Invariant, PTL

(* Without a hole and without Perl code that changes the array, the        *)
(* conversion does not crash.                                              *)
THEOREM NoOwnCrash == Spec => []CrashIsForeign
<1>1. IInv => CrashIsForeign
  BY DEF IInv
<1> QED
  BY <1>1, Invariant, PTL

=============================================================================

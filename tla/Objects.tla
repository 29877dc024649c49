------------------------------ MODULE Objects ------------------------------
(***************************************************************************)
(* Arrays of objects as arguments: the typemap of std::vector, and the     *)
(* wrappers that take one (types of fields and of parameters, arguments of *)
(* emitted calls).                                                         *)
(*                                                                         *)
(* lj_convert_avref_to_object_array takes the length of the array once and *)
(* then fetches the elements one by one.  An element with get magic (a     *)
(* tied scalar) has sv_isobject run Perl code, which may change the array: *)
(* store, push, shift, delete.                                             *)
(***************************************************************************)
EXTENDS Integers, Sequences

CONSTANTS
  Ptr,      (* the pointers that objects hold                              *)
  MaxLen    (* bound on the length of the array                            *)

(* An element is an object, some other value ("other"), a scalar with get  *)
(* magic ("magic"), or is not there ("hole").                              *)
ASSUME ObjectsAssumption ==
  MaxLen \in Nat /\ Ptr \cap {"other", "magic", "hole"} = {}

VARIABLES
  at,        (* where the wrapper is                                       *)
  av,        (* the array                                                  *)
  size, i,   (* locals of the conversion                                   *)
  sv,        (* the value of the element being converted                   *)
  res,       (* the vector                                                 *)
  made,      (* what libjit is given: the elements, of which the count     *)
  count,     (* history: the length of the array at the call               *)
  held,      (* history: what each place has held or returned since        *)
  touched    (* history: Perl code has changed the array                   *)

past == << count, held, touched >>
vars == << at, av, size, i, sv, res, made, past >>

Elem   == Ptr \cup {"other", "magic", "hole"}
Places == 1..MaxLen
Arrays == UNION {[1..n -> Elem] : n \in 0..MaxLen}

(* What the array a holds at place n.                                      *)
HeldAt(a, n) == IF n \in DOMAIN a THEN {a[n]} ELSE {}

Init ==
  /\ at = "start" /\ av \in Arrays
  /\ size = 0 /\ i = 0 /\ sv = "other" /\ res = << >> /\ made = << >>
  /\ count = Len(av) /\ held = [n \in Places |-> HeldAt(av, n)]
  /\ touched = FALSE

Goto(place) == at' = place

(* Faulty variant: av_len is the last index, and one is added twice.       *)
TakeSize_past ==
  /\ at = "start" /\ size' = Len(av) + 1 /\ Goto("loop")
  /\ UNCHANGED << av, i, sv, res, made, past >>

(* The argument is an array reference (any other croaks at once).          *)
TakeSize ==
  /\ at = "start" /\ size' = Len(av) /\ Goto("loop")
  /\ UNCHANGED << av, i, sv, res, made, past >>

(* *av_fetch(av, i, 0), which is NULL for an element that is not there.    *)
Fetch ==
  /\ at = "loop" /\ i < size
  /\ IF i + 1 \notin DOMAIN av \/ av[i + 1] = "hole"
     THEN Goto("crashed") /\ UNCHANGED sv
     ELSE /\ sv' = av[i + 1]
          /\ Goto(IF av[i + 1] = "magic" THEN "FETCH" ELSE "check")
  /\ UNCHANGED << av, size, i, res, made, past >>

(* SvGETMAGIC in sv_isobject: Perl code, and the value that it returns.    *)
FetchChanges ==
  /\ at = "FETCH"
  /\ av' \in Arrays \ {av} /\ touched' = TRUE
  /\ held' = [n \in Places |-> held[n] \cup HeldAt(av', n)]
  /\ UNCHANGED << at, size, i, sv, res, made, count >>

FetchReturns ==
  /\ at = "FETCH"
  /\ sv' \in Ptr \cup {"other"} /\ Goto("check")
  /\ held' = [held EXCEPT ![i + 1] = @ \cup {sv'}]
  /\ UNCHANGED << av, size, i, res, made, count, touched >>

(* Faulty variant: an element that is no object is left out.               *)
lj_convert_sv_to_object_skip ==
  /\ at = "check"
  /\ res' = IF sv \in Ptr THEN Append(res, sv) ELSE res
  /\ i' = i + 1 /\ Goto("loop")
  /\ UNCHANGED << av, size, sv, made, past >>

(* Faulty variant: the check left out.                                     *)
lj_convert_sv_to_object_any ==
  /\ at = "check"
  /\ res' = Append(res, sv) /\ i' = i + 1 /\ Goto("loop")
  /\ UNCHANGED << av, size, sv, made, past >>

lj_convert_sv_to_object ==
  /\ at = "check"
  /\ IF sv \in Ptr THEN res' = Append(res, sv) /\ i' = i + 1 /\ Goto("loop")
                   ELSE Goto("croaked") /\ UNCHANGED << i, res >>
  /\ UNCHANGED << av, size, sv, made, past >>

(* &types[0], types.size(): of an empty vector, undefined; it is a null    *)
(* pointer, or the library stops the process.                              *)
jit_type_create ==
  /\ at = "loop" /\ i = size
  /\ \/ Goto("created") /\ made' = res
     \/ res = << >> /\ Goto("aborted") /\ UNCHANGED made
  /\ UNCHANGED << av, size, i, sv, res, past >>

Next == \/ TakeSize \/ Fetch \/ FetchChanges \/ FetchReturns
        \/ lj_convert_sv_to_object \/ jit_type_create

Spec == Init /\ [][Next]_vars

-----------------------------------------------------------------------------
(* The type invariant.                                                     *)
TypeOK ==
  /\ at \in {"start", "loop", "FETCH", "check", "croaked", "crashed",
             "created", "aborted"}
  /\ av \in Seq(Elem) /\ size \in Nat /\ i \in 0..size
  /\ sv \in Elem \ {"hole"}
  /\ res \in Seq(Ptr) /\ made \in Seq(Ptr)
  /\ count \in Nat /\ held \in [Places -> SUBSET Elem]
  /\ touched \in BOOLEAN

(* A signature, a structure or a call is made of as many objects as the    *)
(* array had elements when the wrapper was called, whatever FETCH did to   *)
(* the array meanwhile, and the n-th of them is one that the n-th place of *)
(* the array has held since, or that a FETCH returned there                *)
(* (helpers.h:47-56, type.xsp:7-14).  So an array that nobody changes is   *)
(* taken over element by element; one that a FETCH changes may give an     *)
(* object twice and leave another one out.                                 *)
EachInPlace ==
  at = "created" =>
    /\ Len(made) = count
    /\ \A n \in 1..count : made[n] \in held[n]

(* The null pointer that av_fetch may return is met only if the array had  *)
(* a hole, or if Perl code has changed it after its length was taken       *)
(* (helpers.h:53): the count never runs past the array by itself.          *)
CrashIsForeign ==
  at = "crashed" => touched \/ \E n \in DOMAIN av : av[n] = "hole"

=============================================================================

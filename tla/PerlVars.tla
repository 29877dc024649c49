------------------------------ MODULE PerlVars ------------------------------
(***************************************************************************)
(* What compiled code owes to the variables of a program: a package scalar *)
(* with its dynamic scopes, an array, and a lexical declared in a loop,    *)
(* which is another one in each iteration.  Compiled code looks a variable  *)
(* up, by which a register comes to denote its place, and reads or writes  *)
(* that place and no other, until Perl code runs.                          *)
(***************************************************************************)
EXTENDS Integers, Sequences

CONSTANTS Val, Reg

VARIABLES
  scalars,  (* the values of the scalar, the innermost scope last          *)
  array,    (* the values of the elements                                  *)
  my,       (* the value of the lexical of this iteration                  *)
  introduced, (* the iteration has declared it                             *)
  closures, (* what closures hold: "current", the lexical of this          *)
            (* iteration, or the value of the one of an earlier iteration  *)
  place     (* what each register denotes                                  *)

Cell == Val \cup {"undef", "missing"}

Nothing == [p |-> "nothing", n |-> 0, v |-> "missing"]
NoValue == [p |-> "undef", n |-> 0, v |-> "undef"]  (* cannot be written   *)
Temp(v) == [p |-> "temp", n |-> 0, v |-> v]
Scalar  == [p |-> "scalar", n |-> 0, v |-> "missing"]
My      == [p |-> "my", n |-> 0, v |-> "missing"]
Elem(n) == [p |-> "elem", n |-> n, v |-> "missing"]

Innermost == scalars[Len(scalars)]

Value(q) == CASE q.p = "scalar" -> Innermost [] q.p = "elem" -> array[q.n]
              [] q.p = "my" -> my
              [] OTHER -> q.v

Init == scalars = << "missing" >> /\ array = << >> /\ place = [r \in Reg |-> Nothing]
        /\ my = "undef" /\ introduced = FALSE /\ closures = << >>

lexical == << my, introduced, closures >>

Denote(r, q) == place' = [place EXCEPT ![r] = q]

(* Looking a variable up changes none; one that is missing reads as undef. *)
LookUp(r) ==
  /\ \/ Denote(r, IF Innermost = "missing" THEN Nothing ELSE Scalar)
     \/ \E n \in DOMAIN array :
          Denote(r, IF array[n] = "missing" THEN NoValue ELSE Elem(n))
     \/ Denote(r, NoValue) \/ Denote(r, My)
  /\ UNCHANGED << scalars, array, lexical >>

CreateScalar(r) ==
  /\ Innermost = "missing"
  /\ scalars' = [scalars EXCEPT ![Len(scalars)] = "undef"]
  /\ Denote(r, Scalar) /\ UNCHANGED << array, lexical >>

(* The element comes into being, and missing ones before it.               *)
CreateElem(r) ==
  \E n \in 1..Len(array'):
    /\ n \in DOMAIN array => array[n] = "missing"
    /\ array' = [m \in 1..(IF n > Len(array) THEN n ELSE Len(array)) |->
                   IF m = n THEN "undef" ELSE
                   IF m \in DOMAIN array THEN array[m] ELSE "missing"]
    /\ Denote(r, Elem(n)) /\ UNCHANGED << scalars, lexical >>

NewTemp(r) ==
  Denote(r, Temp("undef")) /\ UNCHANGED << scalars, array, lexical >>

Write(r, v) ==
  \/ /\ place[r].p = "temp"
     /\ Denote(r, Temp(v)) /\ UNCHANGED << scalars, array, lexical >>
  \/ /\ place[r].p = "scalar"
     /\ scalars' = [scalars EXCEPT ![Len(scalars)] = v]
     /\ UNCHANGED << array, place, lexical >>
  \/ /\ place[r].p = "elem"
     /\ array' = [array EXCEPT ![place[r].n] = v]
     /\ UNCHANGED << scalars, place, lexical >>
  \/ /\ place[r].p = "my"
     /\ my' = v /\ UNCHANGED << scalars, array, introduced, closures, place >>

Assign(r) == \E v \in Val : Write(r, v)

Copy(r, q) == place[q] # Nothing /\ Write(r, Value(place[q]))

Introduce == introduced' = TRUE /\ UNCHANGED << scalars, array, my, closures, place >>

(* The next iteration has a lexical of its own, and closures keep theirs.  *)
EndIteration ==
  /\ place' = [r \in Reg |-> Nothing] /\ introduced' = FALSE
  /\ IF introduced
     THEN /\ my' = "undef"
          /\ closures' = [n \in DOMAIN closures |->
                            IF closures[n] = "current" THEN my ELSE closures[n]]
     ELSE UNCHANGED << my, closures >>
  /\ UNCHANGED << scalars, array >>

(* Perl code does what it likes, and the registers are done with.          *)
PerlCode ==
  /\ place' = [r \in Reg |-> Nothing]
  /\ scalars' \in Seq(Cell) /\ array' \in Seq(Cell)
  /\ my' \in Cell /\ closures' \in Seq(Cell \cup {"current"})
  /\ UNCHANGED introduced

Next ==
  \/ PerlCode \/ Introduce \/ EndIteration
  \/ \E r \in Reg :
       \/ LookUp(r) \/ CreateScalar(r) \/ CreateElem(r) \/ NewTemp(r)
       \/ Assign(r) \/ \E q \in Reg : Copy(r, q)

Spec == Init /\ [][Next]_<< scalars, array, lexical, place >>

=============================================================================

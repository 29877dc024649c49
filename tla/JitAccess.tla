----------------------------- MODULE JitAccess -----------------------------
(***************************************************************************)
(* Compiled access to package scalars, to arrays and to lexicals.          *)
(*                                                                         *)
(* The code emitted by pa_gv_sv, pa_av_fetch, pa_get_pad_sv and their like *)
(* finds, each time it runs, the scalar (SV) that is in a glob, an array   *)
(* or the pad at that moment, and hands a pointer to it to pa_sv_set_iv,   *)
(* pa_sv_set_nv or pa_sv_set_sv_nosteal.  Perl code that runs in between   *)
(* (a run loop, a pp function, a tied variable) localises, stores, shifts, *)
(* deletes, and makes closures that keep the lexical of an iteration.      *)
(*                                                                         *)
(* The body is one that uses a pointer before any Perl code runs: nothing  *)
(* counts a reference for it.  An instruction is executed at a time, in    *)
(* any order.  Magic, and the width of an index, are left out.             *)
(***************************************************************************)
EXTENDS Integers, SequencesExt

CONSTANTS
  SV,               (* scalars: more than a state holds (memory that runs  *)
                    (* out ends the process)                               *)
  PL_sv_undef, NULL,
  Val,              (* values                                              *)
  Reg,              (* the values (jit_value_t) that hold pointers         *)
  Index,            (* the indexes that the program uses                   *)
  MaxElems,         (* bound on the length of the array                    *)
  MaxScopes,        (* bound on nested scopes of the scalar                *)
  MaxClosures       (* bound on the closures that are alive                *)

ASSUME AccessAssumption ==
  /\ PL_sv_undef \notin SV /\ NULL \notin SV \cup {PL_sv_undef}
  /\ Val \cap {"undef", "missing", "current", "stolen"} = {}
  /\ MaxElems \in Nat /\ MaxScopes \in Nat /\ MaxClosures \in Nat
  /\ Index \subseteq Int /\ \A index \in Index : index < MaxElems
  /\ IsFiniteSet(Reg)
  /\ IsFiniteSet(SV) =>
       Cardinality(SV) > 2 + MaxScopes + MaxClosures + MaxElems + Cardinality(Reg)

VARIABLES
  gv_sv,     (* GvSV of the glob                                           *)
  saved,     (* what local has put on the savestack                        *)
  av,        (* AvARRAY; av[1] is the element of index 0                   *)
  pad,       (* the scalar in the slot of the lexical, PL_curpad[padix]    *)
  clearsv,   (* the savestack has a SAVEt_CLEARSV for that slot            *)
  kept,      (* the scalars that closures hold                             *)
  val,       (* the value of each scalar                                   *)
  reg

vars == << gv_sv, saved, av, pad, clearsv, kept, val, reg >>
lexical == << pad, clearsv, kept >>

Init ==
  /\ gv_sv = NULL /\ saved = << >> /\ av = << >>
  /\ pad \in SV /\ clearsv = FALSE /\ kept = << >>
  /\ val = [s \in SV |-> "undef"]
  /\ reg = [r \in Reg |-> NULL]

Used == {gv_sv, pad} \cup ToSet(kept) \cup ToSet(saved) \cup ToSet(av) \cup {reg[r] : r \in Reg}

(* newSV: a freed scalar is taken again.                                   *)
Fresh == CHOOSE s \in SV : s \notin Used

Load(r, s) == reg' = [reg EXCEPT ![r] = s]

-----------------------------------------------------------------------------
(* The emitted calls.                                                      *)

pa_gv_sv(r) == Load(r, gv_sv) /\ UNCHANGED << gv_sv, saved, av, val, lexical >>

pa_gv_svn(r) ==
  IF gv_sv # NULL THEN pa_gv_sv(r)
  ELSE /\ gv_sv' = Fresh /\ val' = [val EXCEPT ![Fresh] = "undef"]
       /\ Load(r, Fresh) /\ UNCHANGED << saved, av, lexical >>

(* av_fetch: a negative index counts from the end.                         *)
Slot(index) == IF index < 0 THEN Len(av) + index + 1 ELSE index + 1
InArray(n)  == n \in DOMAIN av /\ av[n] # NULL

pa_av_fetch(r, index) ==
  /\ Load(r, IF InArray(Slot(index)) THEN av[Slot(index)] ELSE PL_sv_undef)
  /\ UNCHANGED << gv_sv, saved, av, val, lexical >>

Stored(n, s) ==
  [m \in 1..(IF n > Len(av) THEN n ELSE Len(av)) |->
     IF m = n THEN s ELSE IF m \in DOMAIN av THEN av[m] ELSE NULL]

pa_av_fetch_lvalue(r, index) ==
  IF InArray(Slot(index)) \/ Slot(index) < 1 THEN pa_av_fetch(r, index)
  ELSE /\ av' = Stored(Slot(index), Fresh)
       /\ val' = [val EXCEPT ![Fresh] = "undef"]
       /\ Load(r, Fresh) /\ UNCHANGED << gv_sv, saved, lexical >>

pa_new_mortal_sv(r) ==
  /\ val' = [val EXCEPT ![Fresh] = "undef"]
  /\ Load(r, Fresh) /\ UNCHANGED << gv_sv, saved, av, lexical >>

(* Faulty variant: the scalar that was in the pad when the code was made.  *)
pa_get_pad_sv_emitted(r) ==
  /\ Load(r, IF kept = << >> THEN pad ELSE kept[1])
  /\ UNCHANGED << gv_sv, saved, av, val, lexical >>

pa_get_pad_sv(r) == Load(r, pad) /\ UNCHANGED << gv_sv, saved, av, val, lexical >>

(* On pa_get_pad_sv_address, once in an iteration.                         *)
pa_save_clearsv ==
  /\ ~clearsv
  /\ clearsv' = TRUE /\ UNCHANGED << gv_sv, saved, av, pad, kept, val, reg >>

(* pa_pp_unstack(TRUE): leave_scope clears the lexical, or puts another    *)
(* one into the pad if a closure holds it.  The body looks it up again.    *)
pa_pp_unstack ==
  /\ pad' = IF clearsv /\ pad \in ToSet(kept) THEN Fresh ELSE pad
  /\ val' = IF clearsv THEN [val EXCEPT ![pad'] = "undef"] ELSE val
  /\ clearsv' = FALSE /\ reg' = [r \in Reg |-> NULL]
  /\ UNCHANGED << gv_sv, saved, av, kept >>

(* A croak (modification of a read-only value) leaves the body.            *)
Croak ==
  /\ reg' = [r \in Reg |-> NULL]
  /\ UNCHANGED << gv_sv, saved, av, val, lexical >>

SetTo(r, v) ==
  IF reg[r] = PL_sv_undef THEN Croak
  ELSE val' = [val EXCEPT ![reg[r]] = v] /\ UNCHANGED << gv_sv, saved, av, reg, lexical >>

(* pa_sv_set_iv, pa_sv_set_nv.                                             *)
pa_sv_set(r, v) == reg[r] # NULL /\ SetTo(r, v)

Get(s) == IF s = PL_sv_undef THEN "undef" ELSE val[s]

(* Faulty variant: SvSetSV, which takes the buffer of a temporary.         *)
pa_sv_set_sv_steal(d, s) ==
  /\ reg[d] \in SV /\ reg[s] \in SV /\ reg[d] # reg[s]
  /\ val' = [val EXCEPT ![reg[d]] = val[reg[s]], ![reg[s]] = "stolen"]
  /\ UNCHANGED << gv_sv, saved, av, reg, lexical >>

(* SvSetSV_nosteal: nothing to do when both are the same scalar.           *)
pa_sv_set_sv_nosteal(d, s) ==
  /\ reg[d] # NULL /\ reg[s] # NULL /\ reg[d] # reg[s]
  /\ SetTo(d, Get(reg[s]))

-----------------------------------------------------------------------------
(* Perl code.                                                              *)

PerlCode(sv, scopes, array, values) ==
  /\ gv_sv' = sv /\ saved' = scopes /\ av' = array /\ val' = values
  /\ reg' = [r \in Reg |-> NULL]
  /\ UNCHANGED << pad, clearsv >>

Local ==
  /\ Len(saved) < MaxScopes /\ UNCHANGED kept
  /\ PerlCode(Fresh, Append(saved, gv_sv), av, [val EXCEPT ![Fresh] = "undef"])

LeaveScope ==
  /\ saved # << >> /\ UNCHANGED kept
  /\ PerlCode(Last(saved), Front(saved), av, val)

AssignScalar(v) ==
  LET s == IF gv_sv = NULL THEN Fresh ELSE gv_sv
  IN  PerlCode(s, saved, av, [val EXCEPT ![s] = v]) /\ UNCHANGED kept

Shift  == av # << >> /\ PerlCode(gv_sv, saved, Tail(av), val) /\ UNCHANGED kept

Delete ==
  /\ \E n \in DOMAIN av : PerlCode(gv_sv, saved, [av EXCEPT ![n] = NULL], val)
  /\ UNCHANGED kept

(* A closure for the lexical of this iteration; the oldest one goes.       *)
MakeClosure ==
  /\ pad \notin ToSet(kept) /\ Len(kept) < MaxClosures
  /\ kept' = Append(kept, pad) /\ PerlCode(gv_sv, saved, av, val)

DropClosure ==
  /\ kept # << >> /\ kept' = Tail(kept) /\ PerlCode(gv_sv, saved, av, val)

CallClosure(v) ==
  /\ \E n \in DOMAIN kept : PerlCode(gv_sv, saved, av, [val EXCEPT ![kept[n]] = v])
  /\ UNCHANGED kept

Next ==
  \/ \E r \in Reg :
       \/ pa_gv_sv(r) \/ pa_gv_svn(r) \/ pa_new_mortal_sv(r)
       \/ pa_get_pad_sv(r)
       \/ \E i \in Index : pa_av_fetch(r, i) \/ pa_av_fetch_lvalue(r, i)
       \/ \E v \in Val : pa_sv_set(r, v)
       \/ \E s \in Reg : pa_sv_set_sv_nosteal(r, s)
  \/ pa_save_clearsv \/ pa_pp_unstack
  \/ Local \/ LeaveScope \/ Shift \/ Delete \/ MakeClosure \/ DropClosure
  \/ \E v \in Val : AssignScalar(v) \/ CallClosure(v)

Spec == Init /\ [][Next]_vars

-----------------------------------------------------------------------------
(* The type invariant.                                                     *)
TypeOK ==
  /\ gv_sv \in SV \cup {NULL}
  /\ saved \in Seq(SV \cup {NULL}) /\ av \in Seq(SV \cup {NULL})
  /\ pad \in SV /\ clearsv \in BOOLEAN /\ kept \in Seq(SV)
  /\ val \in [SV -> Val \cup {"undef"}]
  /\ reg \in [Reg -> SV \cup {PL_sv_undef, NULL}]

(* The values of the variables, and the place of each register in them.    *)
CellOf(s) == IF s = NULL THEN "missing" ELSE val[s]
Cells(q)  == [n \in DOMAIN q |-> CellOf(q[n])]

Place(r) ==
  CASE reg[r] = NULL        -> [p |-> "nothing", n |-> 0, v |-> "missing"]
    [] reg[r] = PL_sv_undef -> [p |-> "undef", n |-> 0, v |-> "undef"]
    [] reg[r] \in SV /\ reg[r] = gv_sv ->
         [p |-> "scalar", n |-> 0, v |-> "missing"]
    [] reg[r] = pad -> [p |-> "my", n |-> 0, v |-> "missing"]
    [] reg[r] \in SV \cap ToSet(av) ->
         [p |-> "elem", n |-> CHOOSE m \in DOMAIN av : av[m] = reg[r],
          v |-> "missing"]
    [] OTHER -> [p |-> "temp", n |-> 0, v |-> Get(reg[r])]

Vars == INSTANCE PerlVars WITH
          scalars <- Cells(Append(saved, gv_sv)), array <- Cells(av),
          my <- val[pad], introduced <- clearsv,
          closures <- [n \in DOMAIN kept |->
                         IF kept[n] = pad THEN "current" ELSE val[kept[n]]],
          place <- [r \in Reg |-> Place(r)]

(* Compiled code works on the variables that the program has at that       *)
(* moment: a read creates and changes nothing, a write lands in the        *)
(* innermost scope of the scalar, in the element, or in the lexical of     *)
(* this iteration, that was looked up, a copy leaves its source alone, the *)
(* shared undef is never written, and the end of an iteration gives the    *)
(* next one a lexical of its own without touching those that closures have *)
(* (jitapi.c:91-103, 115, 210-234, 323-339, 346-352).                      *)
ImplementsVars == Vars!Spec

=============================================================================

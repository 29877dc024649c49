---------------------------- MODULE MCJitAccess ----------------------------
(* Instances of JitAccess: one value, two registers, an index that counts  *)
(* from the end and one that may be past it, a closure of this iteration   *)
(* and one of an earlier, and as many scalars as are ever in use.          *)
EXTENDS JitAccess

CONSTANTS r1, r2

MCIndex == {-2, 1}

(* Which free scalar is taken makes no difference to what happens next: a  *)
(* state counts for its values and for the places of its registers.        *)
MCView ==
  << Cells(Append(saved, gv_sv)), Cells(av), val[pad], clearsv,
     [n \in DOMAIN kept |-> << kept[n] = pad, val[kept[n]] >>], [r \in Reg |-> Place(r)],
     reg[r1] = reg[r2] >>

=============================================================================

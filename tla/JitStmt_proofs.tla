--------------------------- MODULE JitStmt_proofs ---------------------------
(***************************************************************************)
(* Proofs about JitStmt: the type invariant and the balance of Perl's      *)
(* stacks, for every set of bodies, every nesting of blocks and every      *)
(* bound on the stacks.                                                    *)
(***************************************************************************)
EXTENDS JitStmt, SequenceTheorems, TLAPS

-----------------------------------------------------------------------------
(* The invariant.  The stacks are an arrangement of frames, one for each   *)
(* context: the marks that its ENTERs pushed on the scope stack, and on    *)
(* the savestack the floor that its SAVETMPS saved, followed by nothing    *)
(* but variables to clear.                                                 *)
Scopes(c) == IF c.type = "loop" THEN 2 ELSE 1

(* The height of the scope stack and of the savestack below context k.     *)
Base(p, k)  == p.cxstack[k].oldscopesp - Scopes(p.cxstack[k])
Start(p, k) == p.scopestack[Base(p, k) + 1]

(* The floor of the temporaries while context k is the last one.           *)
FloorAt(p, k) ==
  IF k = Len(p.cxstack) THEN p.tmps_floor
                        ELSE p.savestack[Start(p, k + 1) + 1].val

ContextOK(p, k) ==
  /\ Base(p, k) \in Nat
  /\ p.cxstack[k].oldscopesp <= Len(p.scopestack)
  /\ Start(p, k) < Len(p.savestack)
  /\ p.savestack[Start(p, k) + 1].type = "tmps_floor"
  /\ p.cxstack[k].type = "loop" =>
       p.scopestack[p.cxstack[k].oldscopesp] = Start(p, k) + 1

Nested(p, j, k) ==
  /\ p.cxstack[j].oldscopesp <= Base(p, k)
  /\ Start(p, j) < Start(p, k)
  /\ FloorAt(p, j) <= FloorAt(p, k)

StacksOK(p) ==
  /\ p \in PLType
  /\ Len(p.cxstack) >= 1
  /\ Len(p.scopestack) = p.cxstack[Len(p.cxstack)].oldscopesp
  /\ \A k \in 1..Len(p.cxstack) : ContextOK(p, k)
  /\ \A k \in 1..Len(p.cxstack), j \in 1..Len(p.cxstack) : j < k => Nested(p, j, k)
  /\ \A k \in 1..Len(p.cxstack) - 1 :
       /\ Base(p, k + 1) = p.cxstack[k].oldscopesp
       /\ \A n \in Start(p, k) + 2..Start(p, k + 1) : p.savestack[n].type = "clearsv"
  /\ \A n \in Start(p, Len(p.cxstack)) + 2..Len(p.savestack) :
       p.savestack[n].type = "clearsv"
  /\ p.tmps_floor <= p.tmps_ix

(* t is the first n elements of s.                                         *)
Prefix(t, s, n) ==
  n \in 0..Len(s) /\ Len(t) = n /\ \A i \in 1..n : t[i] = s[i]

(* The stacks when the body was entered are the lower part of the stacks,  *)
(* and only loops are above them.                                          *)
EntryOK(p, e) ==
  LET n == Len(e[1])
  IN  /\ n \in 1..Len(p.cxstack)
      /\ Prefix(e[1], p.cxstack, n)
      /\ Prefix(e[2], p.scopestack, p.cxstack[n].oldscopesp)
      /\ e[3] = FloorAt(p, n)
      /\ \A k \in n + 1..Len(p.cxstack) : p.cxstack[k].type = "loop"

(* What is below the eval that was entered in o is what was there in o.    *)
EvalOf(o) == Len(o.cxstack) + 1

Behind(o, p) ==
  /\ EvalOf(o) \in 2..Len(p.cxstack)
  /\ p.cxstack[EvalOf(o)].type = "eval"
  /\ Prefix(o.cxstack, p.cxstack, EvalOf(o) - 1)
  /\ Prefix(o.scopestack, p.scopestack, Base(p, EvalOf(o)))
  /\ Prefix(o.savestack, p.savestack, Start(p, EvalOf(o)))
  /\ o.tmps_floor = p.savestack[Start(p, EvalOf(o)) + 1].val
  /\ o.stack_sp = p.cxstack[EvalOf(o)].oldsp
  /\ o.curcop = p.cxstack[EvalOf(o)].oldcop
  /\ o.tmps_ix <= FloorAt(p, EvalOf(o))

OuterOK(p, os) ==
  /\ \A i \in 1..Len(os) : Behind(os[i], p)
  /\ \A i \in 1..Len(os), j \in 1..Len(os) : i < j => EvalOf(os[i]) < EvalOf(os[j])
  /\ \A k \in 1..Len(p.cxstack) : p.cxstack[k].type = "eval" =>
       \E i \in 1..Len(os) : EvalOf(os[i]) = k

(* A mortal made below the last context is below the floor of the next.    *)
MortalOK(p, m) ==
  /\ m.depth \in 1..Len(p.cxstack)
  /\ m.ix <= p.tmps_ix
  /\ m.depth < Len(p.cxstack) => m.ix <= FloorAt(p, m.depth + 1)

(* The frames, and what the history variables say of them.                 *)
FramesOK ==
  /\ StacksOK(PL)
  /\ at # "perl" => EntryOK(PL, entry)
  /\ OuterOK(PL, outer)
  /\ \A m \in mortals : MortalOK(PL, m)

Running == at \in {"code", "call"}

CodeOK ==
  /\ at = "perl" => mortals = {}
  /\ Running => call \in Callable /\ pc \in 1..Len(Code(call)) /\ MayBegin(call)
  /\ at = "call" => Instr.i \in {"call", "runloop"}

(* What the instructions of pa_pp_nextstate and pa_pp_unstack before pc    *)
(* have done.                                                              *)
StatementOK ==
  Running /\ call.f = "pa_pp_nextstate" =>
    /\ pc >= 2 => PL.curcop = call.op
    /\ pc >= 4 /\ Depth = 1 => PL.stack_sp = PL.cxstack[1].oldsp
    /\ pc >= 6 => PL.tmps_ix = PL.tmps_floor

IterationOK ==
  Running /\ call.f = "pa_pp_unstack" =>
    /\ pc >= 8 => PL.tmps_ix = PL.tmps_floor
    /\ pc = 11 => Len(PL.savestack) = Mark(PL)

IInv == TypeOK /\ FramesOK /\ CodeOK /\ StatementOK /\ IterationOK

-----------------------------------------------------------------------------
(* The three ways the frames change.  Within the last frame: what it holds *)
(* above the saved floor, and the temporaries above the floor.             *)
Within(p, q) ==
  /\ q \in PLType
  /\ q.cxstack = p.cxstack
  /\ q.scopestack = p.scopestack
  /\ q.tmps_floor = p.tmps_floor
  /\ q.tmps_floor <= q.tmps_ix
  /\ Len(q.savestack) > Start(p, Len(p.cxstack))
  /\ \A n \in 1..Start(p, Len(p.cxstack)) + 1 : q.savestack[n] = p.savestack[n]
  /\ \A n \in Start(p, Len(p.cxstack)) + 2..Len(q.savestack) :
       q.savestack[n].type = "clearsv"

(* A frame is added, for context c.                                        *)
Opens(p, q, c) ==
  /\ q \in PLType
  /\ Len(q.cxstack) = Len(p.cxstack) + 1
  /\ \A k \in 1..Len(p.cxstack) : q.cxstack[k] = p.cxstack[k]
  /\ q.cxstack[Len(p.cxstack) + 1] = c
  /\ Len(q.scopestack) = Len(p.scopestack) + Scopes(c)
  /\ \A i \in 1..Len(p.scopestack) : q.scopestack[i] = p.scopestack[i]
  /\ q.scopestack[Len(p.scopestack) + 1] = Len(p.savestack)
  /\ c.type = "loop" => q.scopestack[Len(p.scopestack) + 2] = Len(p.savestack) + 1
  /\ c.oldscopesp = Len(q.scopestack)
  /\ Len(q.savestack) = Len(p.savestack) + 1
  /\ \A n \in 1..Len(p.savestack) : q.savestack[n] = p.savestack[n]
  /\ q.savestack[Len(p.savestack) + 1].type = "tmps_floor"
  /\ q.savestack[Len(p.savestack) + 1].val = p.tmps_floor
  /\ q.tmps_floor = p.tmps_ix
  /\ q.tmps_ix = p.tmps_ix

(* The frames from context k on are taken off.                             *)
Cuts(p, q, k) ==
  /\ q \in PLType
  /\ Prefix(q.cxstack, p.cxstack, k - 1)
  /\ Prefix(q.scopestack, p.scopestack, Base(p, k))
  /\ Prefix(q.savestack, p.savestack, Start(p, k))
  /\ q.tmps_floor = p.savestack[Start(p, k) + 1].val
  /\ p.tmps_ix <= q.tmps_ix

(* What all three keep: the frames up to context m, m not being cut.       *)
Keeps(p, q, m) ==
  /\ m \in 1..Len(p.cxstack) /\ m <= Len(q.cxstack)
  /\ \A k \in 1..m : /\ q.cxstack[k] = p.cxstack[k]
                     /\ Base(q, k) = Base(p, k)
                     /\ Start(q, k) = Start(p, k)
                     /\ FloorAt(q, k) = FloorAt(p, k)
  /\ \A i \in 1..p.cxstack[m].oldscopesp : q.scopestack[i] = p.scopestack[i]
  /\ \A n \in 1..Start(p, m) + 1 : q.savestack[n] = p.savestack[n]

(* The types of the parts of the stacks.                                   *)
LEMMA PartTypes ==
  ASSUME NEW p \in PLType
  PROVE  /\ p.cxstack \in Seq(Context) /\ Len(p.cxstack) \in Nat
         /\ p.scopestack \in Seq(Nat) /\ Len(p.scopestack) \in Nat
         /\ p.savestack \in Seq(SavedValue) /\ Len(p.savestack) \in Nat
         /\ p.tmps_ix \in Nat /\ p.tmps_floor \in Nat /\ p.stack_sp \in Int
         /\ p.curcop \in Op \cup {NULL} /\ p.tainted \in BOOLEAN
         /\ \A k \in 1..Len(p.cxstack) :
              p.cxstack[k] \in Context /\ p.cxstack[k].oldscopesp \in Nat
         /\ \A i \in 1..Len(p.scopestack) : p.scopestack[i] \in Nat
         /\ \A n \in 1..Len(p.savestack) :
              p.savestack[n] \in SavedValue /\ p.savestack[n].val \in Nat
<1>1. /\ p.cxstack \in Seq(Context) /\ p.scopestack \in Seq(Nat)
      /\ p.savestack \in Seq(SavedValue)
      /\ p.tmps_ix \in Nat /\ p.tmps_floor \in Nat /\ p.stack_sp \in Int
      /\ p.curcop \in Op \cup {NULL} /\ p.tainted \in BOOLEAN
  BY DEF PLType
<1>2. \A k \in 1..Len(p.cxstack) : p.cxstack[k] \in Context
  BY <1>1
<1>3. \A n \in 1..Len(p.savestack) : p.savestack[n] \in SavedValue
  BY <1>1
<1>4. \A c \in Context : c.oldscopesp \in Nat
  BY DEF Context
<1>5. \A v \in SavedValue : v.val \in Nat
  BY DEF SavedValue
<1> QED
  BY <1>1, <1>2, <1>3, <1>4, <1>5

(* The marks and the floors of a well-formed arrangement are numbers.      *)
LEMMA FrameTypes ==
  ASSUME NEW p, StacksOK(p), NEW k \in 1..Len(p.cxstack)
  PROVE  /\ Len(p.cxstack) \in Nat /\ Len(p.scopestack) \in Nat
         /\ Len(p.savestack) \in Nat
         /\ Scopes(p.cxstack[k]) \in {1, 2}
         /\ Base(p, k) \in Nat /\ p.cxstack[k].oldscopesp \in Nat
         /\ p.cxstack[k].oldscopesp = Base(p, k) + Scopes(p.cxstack[k])
         /\ p.cxstack[k].oldscopesp <= Len(p.scopestack)
         /\ Start(p, k) \in Nat /\ Start(p, k) < Len(p.savestack)
         /\ FloorAt(p, k) \in Nat
<1>1. p \in PLType
  BY DEF StacksOK
<1>2. \A h \in 1..Len(p.cxstack) :
        /\ Scopes(p.cxstack[h]) \in {1, 2}
        /\ Base(p, h) \in Nat /\ p.cxstack[h].oldscopesp \in Nat
        /\ p.cxstack[h].oldscopesp = Base(p, h) + Scopes(p.cxstack[h])
        /\ p.cxstack[h].oldscopesp <= Len(p.scopestack)
        /\ Start(p, h) < Len(p.savestack)
  BY <1>1, PartTypes DEF StacksOK, ContextOK, Scopes, Base
<1>3. \A h \in 1..Len(p.cxstack) : Start(p, h) \in Nat
  <2> TAKE h \in 1..Len(p.cxstack)
  <2>1. Base(p, h) + 1 \in 1..Len(p.scopestack)
    BY <1>1, <1>2, PartTypes
  <2> QED
    BY <1>1, <2>1, PartTypes DEF Start
<1>4. FloorAt(p, k) \in Nat
  <2>1. CASE k = Len(p.cxstack)
    BY <1>1, <2>1, PartTypes DEF FloorAt
  <2>2. CASE k # Len(p.cxstack)
    <3>1. k + 1 \in 1..Len(p.cxstack)
      BY <1>1, <2>2, PartTypes
    <3>2. Start(p, k + 1) + 1 \in 1..Len(p.savestack)
      BY <1>1, <1>2, <1>3, <3>1, PartTypes
    <3> QED
      BY <1>1, <2>2, <3>2, PartTypes DEF FloorAt
  <2> QED
    BY <2>1, <2>2
<1> QED
  BY <1>1, <1>2, <1>3, <1>4, PartTypes

(* The last frame is the highest in every respect.                         *)
LEMMA FrameOrder ==
  ASSUME NEW p, StacksOK(p), NEW k \in 1..Len(p.cxstack)
  PROVE  /\ Start(p, k) <= Start(p, Len(p.cxstack))
         /\ p.cxstack[k].oldscopesp <= Len(p.scopestack)
         /\ FloorAt(p, k) <= p.tmps_floor /\ FloorAt(p, Len(p.cxstack)) = p.tmps_floor
         /\ p.tmps_floor <= p.tmps_ix /\ p.tmps_floor \in Nat /\ p.tmps_ix \in Nat
         /\ Len(p.cxstack) \in 1..Len(p.cxstack)
<1>1. p \in PLType /\ Len(p.cxstack) >= 1 /\ p.tmps_floor <= p.tmps_ix
  BY DEF StacksOK
<1>2. Len(p.cxstack) \in 1..Len(p.cxstack)
  BY <1>1, PartTypes
<1>3. FloorAt(p, Len(p.cxstack)) = p.tmps_floor
  BY DEF FloorAt
<1>4. CASE k = Len(p.cxstack)
  BY <1>1, <1>2, <1>3, <1>4, FrameTypes, PartTypes
<1>5. CASE k < Len(p.cxstack)
  <2>1. Nested(p, k, Len(p.cxstack))
    BY <1>2, <1>5 DEF StacksOK
  <2>2. Start(p, k) \in Nat /\ Start(p, Len(p.cxstack)) \in Nat
    BY <1>2, FrameTypes
  <2> QED
    BY <1>1, <1>2, <1>3, <2>1, <2>2, FrameTypes, PartTypes DEF Nested
<1> QED
  BY <1>1, <1>4, <1>5, PartTypes

(* Two neighbours.                                                         *)
LEMMA FrameLinks ==
  ASSUME NEW p, StacksOK(p), NEW k \in 1..Len(p.cxstack) - 1
  PROVE  /\ k \in 1..Len(p.cxstack) /\ k + 1 \in 1..Len(p.cxstack)
         /\ Base(p, k + 1) = p.cxstack[k].oldscopesp
         /\ FloorAt(p, k) = p.savestack[Start(p, k + 1) + 1].val
         /\ \A n \in Start(p, k) + 2..Start(p, k + 1) : p.savestack[n].type = "clearsv"
<1>1. Len(p.cxstack) \in Nat
  BY PartTypes DEF StacksOK
<1>2. k \in 1..Len(p.cxstack) /\ k + 1 \in 1..Len(p.cxstack) /\ k # Len(p.cxstack)
  BY <1>1
<1> QED
  BY <1>2 DEF StacksOK, FloorAt

LEMMA WithinKeeps ==
  ASSUME NEW p, StacksOK(p), NEW q, Within(p, q)
  PROVE  StacksOK(q) /\ Keeps(p, q, Len(p.cxstack))
<1>1. PICK d : d = Len(p.cxstack)
  OBVIOUS
<1>2. /\ p \in PLType /\ q \in PLType /\ d \in Nat /\ d \in 1..d
      /\ q.cxstack = p.cxstack /\ q.scopestack = p.scopestack
  BY <1>1, FrameOrder, PartTypes DEF StacksOK, Within
<1>3. \A k \in 1..d : Base(q, k) = Base(p, k) /\ Start(q, k) = Start(p, k)
  BY <1>2 DEF Base, Start
<1>4. \A n \in 1..Start(p, d) + 1 : q.savestack[n] = p.savestack[n]
  BY <1>1 DEF Within
<1>5. \A k \in 1..d : /\ Start(p, k) \in Nat /\ Start(p, k) <= Start(p, d)
                     /\ Start(p, k) + 1 \in 1..Start(p, d) + 1
  <2> TAKE k \in 1..d
  <2>1. Start(p, k) \in Nat /\ Start(p, k) <= Start(p, d) /\ Start(p, d) \in Nat
    BY <1>1, <1>2, FrameOrder, FrameTypes
  <2> QED
    BY <2>1
<1>6. \A k \in 1..d : FloorAt(q, k) = FloorAt(p, k)
  <2> TAKE k \in 1..d
  <2>1. CASE k = d
    BY <1>1, <1>2, <2>1 DEF FloorAt, Within
  <2>2. CASE k # d
    <3>1. k + 1 \in 1..d
      BY <1>2, <2>2
    <3>2. q.savestack[Start(p, k + 1) + 1] = p.savestack[Start(p, k + 1) + 1]
      BY <1>4, <1>5, <3>1
    <3> QED
      BY <1>1, <1>2, <1>3, <2>2, <3>1, <3>2 DEF FloorAt
  <2> QED
    BY <2>1, <2>2
<1>7. Len(q.savestack) \in Nat /\ Len(p.savestack) \in Nat /\ Start(p, d) < Len(q.savestack)
  BY <1>1, <1>2, PartTypes DEF Within
<1>8. \A k \in 1..d : ContextOK(q, k)
  <2> TAKE k \in 1..d
  <2>1. ContextOK(p, k)
    BY <1>1 DEF StacksOK
  <2>2. Start(p, k) < Len(q.savestack)
    BY <1>2, <1>5, <1>7
  <2>3. q.savestack[Start(p, k) + 1] = p.savestack[Start(p, k) + 1]
    BY <1>4, <1>5
  <2> QED
    BY <1>2, <1>3, <2>1, <2>2, <2>3 DEF ContextOK
<1>9. \A k \in 1..d, j \in 1..d : j < k => Nested(q, j, k)
  <2> TAKE k \in 1..d, j \in 1..d
  <2> HAVE j < k
  <2>1. Nested(p, j, k)
    BY <1>1 DEF StacksOK
  <2> QED
    BY <1>2, <1>3, <1>6, <2>1 DEF Nested
<1>10. ASSUME NEW k \in 1..d - 1
       PROVE  /\ Base(q, k + 1) = q.cxstack[k].oldscopesp
              /\ \A n \in Start(q, k) + 2..Start(q, k + 1) :
                   q.savestack[n].type = "clearsv"
  <2>1. k \in 1..d /\ k + 1 \in 1..d /\ Base(p, k + 1) = p.cxstack[k].oldscopesp
    BY <1>1, FrameLinks
  <2>2. ASSUME NEW n \in Start(p, k) + 2..Start(p, k + 1)
        PROVE  q.savestack[n].type = "clearsv"
    <3>1. p.savestack[n].type = "clearsv"
      BY <1>1, FrameLinks
    <3>2. n \in 1..Start(p, d) + 1
      <4>1. /\ Start(p, k) \in Nat /\ Start(p, k + 1) \in Nat /\ Start(p, d) \in Nat
            /\ Start(p, k + 1) <= Start(p, d)
        BY <1>2, <1>5, <2>1
      <4> QED
        BY <4>1
    <3> QED
      BY <1>4, <3>1, <3>2
  <2> QED
    BY <1>2, <1>3, <2>1, <2>2
<1>11. StacksOK(q)
  <2>1. Len(q.cxstack) = d /\ d >= 1 /\ Len(q.scopestack) = q.cxstack[d].oldscopesp
    BY <1>1, <1>2 DEF StacksOK
  <2>2. /\ q.tmps_floor <= q.tmps_ix
        /\ \A n \in Start(p, d) + 2..Len(q.savestack) : q.savestack[n].type = "clearsv"
    BY <1>1 DEF Within
  <2>3. \A n \in Start(q, d) + 2..Len(q.savestack) : q.savestack[n].type = "clearsv"
    BY <1>2, <1>3, <2>2
  <2> QED
    BY <1>2, <1>8, <1>9, <1>10, <2>1, <2>2, <2>3 DEF StacksOK
<1>12. Keeps(p, q, d)
  BY <1>1, <1>2, <1>3, <1>4, <1>6 DEF Keeps
<1> QED
  BY <1>1, <1>11, <1>12

LEMMA CutsKeeps ==
  ASSUME NEW p, StacksOK(p), NEW k \in 2..Len(p.cxstack), NEW q, Cuts(p, q, k)
  PROVE  StacksOK(q) /\ Keeps(p, q, k - 1)
<1>1. PICK m : m = k - 1
  OBVIOUS
<1>2. PICK d : d = Len(p.cxstack)
  OBVIOUS
<1>3. /\ p \in PLType /\ q \in PLType /\ d \in Nat /\ k \in 1..d /\ k \in Nat
      /\ m \in 1..d - 1 /\ m \in 1..d /\ m + 1 = k /\ m \in Nat /\ m >= 1 /\ m # d
      /\ \A j \in 1..m : j \in 1..d
  <2>1. p \in PLType /\ q \in PLType /\ d \in Nat
    BY <1>2, PartTypes DEF StacksOK, Cuts
  <2> QED
    BY <1>1, <1>2, <2>1
<1>4. /\ Len(q.cxstack) = m /\ Len(q.scopestack) = Base(p, k)
      /\ Len(q.savestack) = Start(p, k)
      /\ \A j \in 1..m : q.cxstack[j] = p.cxstack[j]
      /\ \A i \in 1..Base(p, k) : q.scopestack[i] = p.scopestack[i]
      /\ \A n \in 1..Start(p, k) : q.savestack[n] = p.savestack[n]
  BY <1>1 DEF Cuts, Prefix
<1>5. /\ Base(p, k) = p.cxstack[m].oldscopesp
      /\ FloorAt(p, m) = p.savestack[Start(p, k) + 1].val
  BY <1>2, <1>3, FrameLinks
<1>6. \A j \in 1..m : /\ p.cxstack[j].oldscopesp <= Base(p, k)
                     /\ Start(p, j) < Start(p, k) /\ Start(p, j) + 1 \in 1..Start(p, k)
                     /\ Base(p, j) \in Nat /\ Start(p, j) \in Nat
                     /\ Base(p, j) + 1 \in 1..p.cxstack[j].oldscopesp
                     /\ Base(p, j) + 1 \in 1..Base(p, k)
                     /\ p.cxstack[j].oldscopesp \in 1..Base(p, k)
  <2> TAKE j \in 1..m
  <2>1. Nested(p, j, k)
    BY <1>2, <1>3 DEF StacksOK
  <2>2. /\ Base(p, j) \in Nat /\ Start(p, j) \in Nat /\ Base(p, k) \in Nat
        /\ Start(p, k) \in Nat /\ Scopes(p.cxstack[j]) \in {1, 2}
        /\ p.cxstack[j].oldscopesp = Base(p, j) + Scopes(p.cxstack[j])
    BY <1>2, <1>3, FrameTypes
  <2>3. p.cxstack[j].oldscopesp <= Base(p, k) /\ Start(p, j) < Start(p, k)
    BY <2>1 DEF Nested
  <2> QED
    BY <2>2, <2>3
<1>7. \A j \in 1..m : Base(q, j) = Base(p, j)
  BY <1>4 DEF Base
<1>8. \A j \in 1..m : Start(q, j) = Start(p, j)
  <2> TAKE j \in 1..m
  <2>1. q.scopestack[Base(p, j) + 1] = p.scopestack[Base(p, j) + 1]
    BY <1>4, <1>6
  <2> QED
    BY <1>7, <2>1 DEF Start
<1>9. \A j \in 1..m : FloorAt(q, j) = FloorAt(p, j)
  <2> TAKE j \in 1..m
  <2>1. CASE j = m
    BY <1>4, <1>5, <2>1 DEF FloorAt, Cuts
  <2>2. CASE j # m
    <3>1. j + 1 \in 1..m /\ j # d
      BY <1>3, <2>2
    <3>2. q.savestack[Start(p, j + 1) + 1] = p.savestack[Start(p, j + 1) + 1]
      BY <1>4, <1>6, <3>1
    <3> QED
      BY <1>2, <1>4, <1>8, <2>2, <3>1, <3>2 DEF FloorAt
  <2> QED
    BY <2>1, <2>2
<1>10. \A j \in 1..m : ContextOK(q, j)
  <2> TAKE j \in 1..m
  <2>1. ContextOK(p, j)
    BY <1>2, <1>3 DEF StacksOK
  <2>2. Start(q, j) < Len(q.savestack) /\ q.cxstack[j].oldscopesp <= Len(q.scopestack)
    BY <1>4, <1>6, <1>8
  <2>3. q.savestack[Start(p, j) + 1] = p.savestack[Start(p, j) + 1]
    BY <1>4, <1>6
  <2>4. q.scopestack[p.cxstack[j].oldscopesp] = p.scopestack[p.cxstack[j].oldscopesp]
    BY <1>4, <1>6
  <2> QED
    BY <1>4, <1>7, <1>8, <2>1, <2>2, <2>3, <2>4 DEF ContextOK
<1>11. \A h \in 1..m, j \in 1..m : j < h => Nested(q, j, h)
  <2> TAKE h \in 1..m, j \in 1..m
  <2> HAVE j < h
  <2>1. Nested(p, j, h)
    BY <1>2, <1>3 DEF StacksOK
  <2> QED
    BY <1>4, <1>7, <1>8, <1>9, <2>1 DEF Nested
<1>12. ASSUME NEW j \in 1..m - 1
       PROVE  /\ Base(q, j + 1) = q.cxstack[j].oldscopesp
              /\ \A n \in Start(q, j) + 2..Start(q, j + 1) :
                   q.savestack[n].type = "clearsv"
  <2>1. j \in 1..m /\ j + 1 \in 1..m /\ j \in 1..d - 1
    BY <1>3
  <2>2. Base(p, j + 1) = p.cxstack[j].oldscopesp
    BY <1>2, <2>1, FrameLinks
  <2>3. ASSUME NEW n \in Start(p, j) + 2..Start(p, j + 1)
        PROVE  q.savestack[n].type = "clearsv"
    <3>1. p.savestack[n].type = "clearsv"
      BY <1>2, <2>1, FrameLinks
    <3>2. n \in 1..Start(p, k)
      <4>1. /\ Start(p, j) \in Nat /\ Start(p, j + 1) \in Nat /\ Start(p, k) \in Nat
            /\ Start(p, j + 1) < Start(p, k)
        BY <1>2, <1>3, <1>6, <2>1, FrameTypes
      <4> QED
        BY <4>1
    <3> QED
      BY <1>4, <3>1, <3>2
  <2> QED
    BY <1>4, <1>7, <1>8, <2>1, <2>2, <2>3
<1>13. \A n \in Start(q, m) + 2..Len(q.savestack) : q.savestack[n].type = "clearsv"
  <2> SUFFICES ASSUME NEW n \in Start(p, m) + 2..Start(p, k)
               PROVE  q.savestack[n].type = "clearsv"
    BY <1>3, <1>4, <1>8
  <2>1. p.savestack[n].type = "clearsv"
    BY <1>2, <1>3, FrameLinks
  <2>2. n \in 1..Start(p, k)
    <3>1. Start(p, m) \in Nat /\ Start(p, k) \in Nat
      BY <1>2, <1>3, FrameTypes
    <3> QED
      BY <3>1
  <2> QED
    BY <1>4, <2>1, <2>2
<1>14. q.tmps_floor <= q.tmps_ix
  <2>1. q.tmps_floor = FloorAt(p, m) /\ p.tmps_ix <= q.tmps_ix
    BY <1>5 DEF Cuts
  <2>2. FloorAt(p, m) <= p.tmps_floor /\ p.tmps_floor <= p.tmps_ix
    BY <1>2, <1>3, FrameOrder
  <2>3. FloorAt(p, m) \in Nat /\ p.tmps_floor \in Nat /\ p.tmps_ix \in Nat /\ q.tmps_ix \in Nat
    BY <1>2, <1>3, FrameTypes, PartTypes
  <2> QED
    BY <2>1, <2>2, <2>3
<1>15. StacksOK(q)
  <2>1. Len(q.cxstack) >= 1 /\ Len(q.scopestack) = q.cxstack[m].oldscopesp
    BY <1>3, <1>4, <1>5
  <2> QED
    BY <1>3, <1>4, <1>10, <1>11, <1>12, <1>13, <1>14, <2>1 DEF StacksOK
<1>16. Keeps(p, q, m)
  <2>1. \A i \in 1..p.cxstack[m].oldscopesp : q.scopestack[i] = p.scopestack[i]
    BY <1>4, <1>5
  <2>2. \A n \in 1..Start(p, m) + 1 : q.savestack[n] = p.savestack[n]
    <3> TAKE n \in 1..Start(p, m) + 1
    <3>1. n \in 1..Start(p, k)
      <4>1. Start(p, m) \in Nat /\ Start(p, k) \in Nat /\ Start(p, m) < Start(p, k)
        BY <1>2, <1>3, <1>6, FrameTypes
      <4> QED
        BY <4>1
    <3> QED
      BY <1>4, <3>1
  <2> QED
    BY <1>2, <1>3, <1>4, <1>7, <1>8, <1>9, <2>1, <2>2 DEF Keeps
<1> QED
  BY <1>1, <1>15, <1>16

LEMMA OpensKeeps ==
  ASSUME NEW p, StacksOK(p), NEW c \in Context, NEW q, Opens(p, q, c)
  PROVE  /\ StacksOK(q) /\ Keeps(p, q, Len(p.cxstack))
         /\ Base(q, Len(p.cxstack) + 1) = Len(p.scopestack)
         /\ Start(q, Len(p.cxstack) + 1) = Len(p.savestack)
<1>1. PICK d : d = Len(p.cxstack)
  OBVIOUS
<1>2. PICK e : e = d + 1
  OBVIOUS
<1>3. PICK sc : sc = Len(p.scopestack)
  OBVIOUS
<1>4. PICK sv : sv = Len(p.savestack)
  OBVIOUS
<1>5. /\ p \in PLType /\ q \in PLType /\ d \in Nat /\ d \in 1..d /\ d >= 1
      /\ sc \in Nat /\ sv \in Nat /\ c.oldscopesp \in Nat
      /\ e \in 1..e /\ e \in Nat /\ \A k \in 1..d : k \in 1..e /\ k # e
      /\ \A k \in 1..e : k \in 1..d \/ k = e
  <2>1. p \in PLType /\ q \in PLType /\ d \in Nat /\ d \in 1..d /\ sc \in Nat /\ sv \in Nat
    BY <1>1, <1>3, <1>4, FrameOrder, PartTypes DEF StacksOK, Opens
  <2>2. c.oldscopesp \in Nat
    BY DEF Context
  <2> QED
    BY <1>2, <2>1, <2>2
<1>6. /\ Len(q.cxstack) = e /\ q.cxstack[e] = c
      /\ \A k \in 1..d : q.cxstack[k] = p.cxstack[k]
      /\ Len(q.scopestack) = sc + Scopes(c) /\ c.oldscopesp = sc + Scopes(c)
      /\ \A i \in 1..sc : q.scopestack[i] = p.scopestack[i]
      /\ q.scopestack[sc + 1] = sv
      /\ c.type = "loop" => q.scopestack[sc + 2] = sv + 1
      /\ Len(q.savestack) = sv + 1
      /\ \A n \in 1..sv : q.savestack[n] = p.savestack[n]
      /\ q.savestack[sv + 1].type = "tmps_floor"
      /\ q.savestack[sv + 1].val = p.tmps_floor
      /\ q.tmps_floor = p.tmps_ix /\ q.tmps_ix = p.tmps_ix
  BY <1>1, <1>2, <1>3, <1>4 DEF Opens
<1>7. Scopes(c) \in {1, 2} /\ (c.type = "loop" => Scopes(c) = 2)
  BY DEF Scopes
<1>8. \A k \in 1..d : /\ Base(p, k) \in Nat /\ Start(p, k) \in Nat
                     /\ p.cxstack[k].oldscopesp \in 1..sc
                     /\ Base(p, k) + 1 \in 1..sc /\ Start(p, k) + 1 \in 1..sv
                     /\ Start(p, k) < sv
  <2> TAKE k \in 1..d
  <2>1. /\ Base(p, k) \in Nat /\ Start(p, k) \in Nat /\ Start(p, k) < sv
        /\ Scopes(p.cxstack[k]) \in {1, 2} /\ p.cxstack[k].oldscopesp <= sc
        /\ p.cxstack[k].oldscopesp = Base(p, k) + Scopes(p.cxstack[k])
    BY <1>1, <1>3, <1>4, FrameTypes
  <2> QED
    BY <1>5, <2>1
<1>9. Base(q, e) = sc /\ Start(q, e) = sv
  <2>1. Base(q, e) = sc
    BY <1>5, <1>6, <1>7 DEF Base
  <2> QED
    BY <1>6, <2>1 DEF Start
<1>10. \A k \in 1..d : Base(q, k) = Base(p, k)
  BY <1>6 DEF Base
<1>11. \A k \in 1..d : Start(q, k) = Start(p, k)
  <2> TAKE k \in 1..d
  <2>1. q.scopestack[Base(p, k) + 1] = p.scopestack[Base(p, k) + 1]
    BY <1>6, <1>8
  <2> QED
    BY <1>10, <2>1 DEF Start
<1>12. \A k \in 1..d : FloorAt(q, k) = FloorAt(p, k)
  <2> TAKE k \in 1..d
  <2>1. CASE k = d
    <3>1. FloorAt(p, k) = p.tmps_floor
      BY <1>1, <2>1 DEF FloorAt
    <3>2. FloorAt(q, k) = q.savestack[Start(q, k + 1) + 1].val
      BY <1>5, <1>6 DEF FloorAt
    <3>3. Start(q, k + 1) = sv
      BY <1>2, <1>9, <2>1
    <3> QED
      BY <1>6, <3>1, <3>2, <3>3
  <2>2. CASE k # d
    <3>1. k + 1 \in 1..d
      BY <1>5, <2>2
    <3>2. q.savestack[Start(p, k + 1) + 1] = p.savestack[Start(p, k + 1) + 1]
      BY <1>6, <1>8, <3>1
    <3> QED
      BY <1>1, <1>5, <1>6, <1>11, <2>2, <3>1, <3>2 DEF FloorAt
  <2> QED
    BY <2>1, <2>2
<1>13. FloorAt(q, e) = p.tmps_ix
  BY <1>6 DEF FloorAt
<1>14. \A k \in 1..e : ContextOK(q, k)
  <2> TAKE k \in 1..e
  <2>1. CASE k \in 1..d
    <3>1. ContextOK(p, k)
      BY <1>1, <2>1 DEF StacksOK
    <3>2. /\ q.savestack[Start(p, k) + 1] = p.savestack[Start(p, k) + 1]
          /\ q.scopestack[p.cxstack[k].oldscopesp] = p.scopestack[p.cxstack[k].oldscopesp]
      BY <1>6, <1>8, <2>1
    <3>3. p.cxstack[k].oldscopesp <= Len(q.scopestack) /\ Start(p, k) < Len(q.savestack)
      <4>1. p.cxstack[k].oldscopesp \in 1..sc /\ Start(p, k) \in Nat /\ Start(p, k) < sv
        BY <1>8, <2>1
      <4>2. Len(q.scopestack) \in {sc + 1, sc + 2} /\ Len(q.savestack) = sv + 1
        BY <1>6, <1>7
      <4> QED
        BY <1>5, <4>1, <4>2
    <3> QED
      BY <1>6, <1>10, <1>11, <2>1, <3>1, <3>2, <3>3 DEF ContextOK
  <2>2. CASE k = e
    <3>1. c.type = "loop" => q.scopestack[c.oldscopesp] = sv + 1
      BY <1>6, <1>7
    <3> QED
      BY <1>5, <1>6, <1>9, <2>2, <3>1 DEF ContextOK
  <2> QED
    BY <1>5, <2>1, <2>2
<1>15. \A k \in 1..e, j \in 1..e : j < k => Nested(q, j, k)
  <2> TAKE k \in 1..e, j \in 1..e
  <2> HAVE j < k
  <2>0. j \in 1..d
    BY <1>2, <1>5
  <2>1. CASE k \in 1..d
    <3>1. Nested(p, j, k)
      BY <1>1, <2>0, <2>1 DEF StacksOK
    <3> QED
      BY <1>6, <1>10, <1>11, <1>12, <2>0, <2>1, <3>1 DEF Nested
  <2>2. CASE k = e
    <3>1. p.cxstack[j].oldscopesp <= sc /\ Start(p, j) < sv
      BY <1>8, <2>0
    <3>2. FloorAt(p, j) <= p.tmps_ix
      <4>1. FloorAt(p, j) <= p.tmps_floor /\ p.tmps_floor <= p.tmps_ix
        BY <1>1, <2>0, FrameOrder
      <4>2. FloorAt(p, j) \in Nat /\ p.tmps_floor \in Nat /\ p.tmps_ix \in Nat
        BY <1>1, <1>5, <2>0, FrameTypes, PartTypes
      <4> QED
        BY <4>1, <4>2
    <3> QED
      BY <1>6, <1>9, <1>11, <1>12, <1>13, <2>0, <2>2, <3>1, <3>2 DEF Nested
  <2> QED
    BY <1>5, <2>1, <2>2
<1>16. ASSUME NEW k \in 1..e - 1
       PROVE  /\ Base(q, k + 1) = q.cxstack[k].oldscopesp
              /\ \A n \in Start(q, k) + 2..Start(q, k + 1) :
                   q.savestack[n].type = "clearsv"
  <2>0. k \in 1..d
    BY <1>2, <1>5
  <2>1. CASE k # d
    <3>1. k \in 1..d - 1 /\ k + 1 \in 1..d
      BY <1>5, <2>0, <2>1
    <3>2. Base(p, k + 1) = p.cxstack[k].oldscopesp
      BY <1>1, <3>1, FrameLinks
    <3>3. ASSUME NEW n \in Start(p, k) + 2..Start(p, k + 1)
          PROVE  q.savestack[n].type = "clearsv"
      <4>1. p.savestack[n].type = "clearsv"
        BY <1>1, <3>1, FrameLinks
      <4>2. n \in 1..sv
        <5>1. Start(p, k) \in Nat /\ Start(p, k + 1) \in Nat /\ Start(p, k + 1) < sv
          BY <1>8, <2>0, <3>1
        <5> QED
          BY <1>5, <5>1
      <4> QED
        BY <1>6, <4>1, <4>2
    <3> QED
      BY <1>6, <1>10, <1>11, <2>0, <3>1, <3>2, <3>3
  <2>2. CASE k = d
    <3>1. sc = p.cxstack[d].oldscopesp
      BY <1>1, <1>3 DEF StacksOK
    <3>2. Base(q, k + 1) = sc /\ Start(q, k + 1) = sv
      BY <1>2, <1>9, <2>2
    <3>3. ASSUME NEW n \in Start(p, d) + 2..sv
          PROVE  q.savestack[n].type = "clearsv"
      <4>1. p.savestack[n].type = "clearsv"
        BY <1>1, <1>4 DEF StacksOK
      <4>2. n \in 1..sv
        <5>1. Start(p, d) \in Nat
          BY <1>5, <1>8
        <5> QED
          BY <1>5, <5>1
      <4> QED
        BY <1>6, <4>1, <4>2
    <3> QED
      BY <1>5, <1>6, <1>11, <2>2, <3>1, <3>2, <3>3
  <2> QED
    BY <2>1, <2>2
<1>17. StacksOK(q)
  <2>1. \A n \in Start(q, e) + 2..Len(q.savestack) : q.savestack[n].type = "clearsv"
    BY <1>5, <1>6, <1>9
  <2>2. Len(q.cxstack) >= 1 /\ Len(q.scopestack) = q.cxstack[e].oldscopesp
    BY <1>5, <1>6
  <2>3. q.tmps_floor <= q.tmps_ix
    <3>1. p.tmps_ix \in Nat
      BY <1>5, PartTypes
    <3> QED
      BY <1>6, <3>1
  <2> QED
    BY <1>5, <1>6, <1>14, <1>15, <1>16, <2>1, <2>2, <2>3 DEF StacksOK
<1>18. Keeps(p, q, d)
  <2>1. \A i \in 1..p.cxstack[d].oldscopesp : q.scopestack[i] = p.scopestack[i]
    BY <1>1, <1>3, <1>6 DEF StacksOK
  <2>2. \A n \in 1..Start(p, d) + 1 : q.savestack[n] = p.savestack[n]
    <3> TAKE n \in 1..Start(p, d) + 1
    <3>1. n \in 1..sv
      BY <1>5, <1>8
    <3> QED
      BY <1>6, <3>1
  <2>3. d <= e
    BY <1>2, <1>5
  <2> QED
    BY <1>1, <1>5, <1>6, <1>10, <1>11, <1>12, <2>1, <2>2, <2>3 DEF Keeps
<1> QED
  BY <1>1, <1>2, <1>3, <1>4, <1>9, <1>17, <1>18

-----------------------------------------------------------------------------
(* What is known of the frames that are kept stays so.                     *)
LEMMA KeepsEntry ==
  ASSUME NEW p, StacksOK(p), NEW q, StacksOK(q), NEW m, Keeps(p, q, m),
         NEW e, EntryOK(p, e), Len(e[1]) <= m,
         \A k \in m + 1..Len(q.cxstack) : q.cxstack[k].type = "loop"
  PROVE  EntryOK(q, e)
<1>1. PICK n : n = Len(e[1])
  OBVIOUS
<1>2. PICK d : d = Len(q.cxstack)
  OBVIOUS
<1>3. /\ n \in 1..m /\ m \in Nat /\ n \in Nat /\ n \in 1..d /\ m <= d /\ d \in Nat
      /\ m \in 1..Len(p.cxstack) /\ n \in 1..Len(p.cxstack) /\ Len(p.cxstack) \in Nat
  <2>1. Len(p.cxstack) \in Nat /\ d \in Nat /\ m \in 1..Len(p.cxstack) /\ m <= d
    BY <1>2, PartTypes DEF StacksOK, Keeps
  <2>2. n \in 1..Len(p.cxstack) /\ n <= m
    BY <1>1 DEF EntryOK
  <2> QED
    BY <2>1, <2>2
<1>4. /\ Prefix(e[1], p.cxstack, n)
      /\ Prefix(e[2], p.scopestack, p.cxstack[n].oldscopesp)
      /\ e[3] = FloorAt(p, n)
      /\ \A k \in n + 1..Len(p.cxstack) : p.cxstack[k].type = "loop"
  BY <1>1 DEF EntryOK
<1>5. \A k \in 1..m : q.cxstack[k] = p.cxstack[k] /\ FloorAt(q, k) = FloorAt(p, k)
  BY DEF Keeps
<1>6. Prefix(e[1], q.cxstack, n)
  <2>1. n \in 0..Len(q.cxstack)
    BY <1>2, <1>3
  <2>2. Len(e[1]) = n /\ \A i \in 1..n : e[1][i] = p.cxstack[i] /\ i \in 1..m
    BY <1>3, <1>4 DEF Prefix
  <2> QED
    BY <1>5, <2>1, <2>2 DEF Prefix
<1>7. Prefix(e[2], q.scopestack, q.cxstack[n].oldscopesp)
  <2>1. q.cxstack[n].oldscopesp = p.cxstack[n].oldscopesp
    BY <1>3, <1>5
  <2>2. q.cxstack[n].oldscopesp \in Nat /\ q.cxstack[n].oldscopesp <= Len(q.scopestack)
        /\ Len(q.scopestack) \in Nat
    BY <1>2, <1>3, FrameTypes
  <2>3. \A i \in 1..p.cxstack[n].oldscopesp : q.scopestack[i] = p.scopestack[i]
    <3>1. p.cxstack[n].oldscopesp <= p.cxstack[m].oldscopesp
      <4>1. CASE n = m
        BY <1>3, <4>1, FrameTypes
      <4>2. CASE n < m
        <5>1. Nested(p, n, m)
          BY <1>3, <4>2 DEF StacksOK
        <5>2. /\ Base(p, m) \in Nat /\ Scopes(p.cxstack[m]) \in {1, 2}
              /\ p.cxstack[m].oldscopesp = Base(p, m) + Scopes(p.cxstack[m])
              /\ p.cxstack[n].oldscopesp \in Nat
          BY <1>3, FrameTypes
        <5> QED
          BY <5>1, <5>2 DEF Nested
      <4> QED
        BY <1>3, <4>1, <4>2
    <3>2. p.cxstack[n].oldscopesp \in Nat /\ p.cxstack[m].oldscopesp \in Nat
      BY <1>3, FrameTypes
    <3> QED
      BY <3>1, <3>2 DEF Keeps
  <2> QED
    BY <1>4, <2>1, <2>2, <2>3 DEF Prefix
<1>8. \A k \in n + 1..d : q.cxstack[k].type = "loop"
  <2> TAKE k \in n + 1..d
  <2>1. CASE k <= m
    <3>1. k \in 1..m /\ k \in n + 1..Len(p.cxstack)
      BY <1>3, <2>1
    <3> QED
      BY <1>4, <1>5, <3>1
  <2>2. CASE k > m
    <3>1. k \in m + 1..d
      BY <1>3, <2>2
    <3> QED
      BY <1>2, <3>1
  <2> QED
    BY <1>3, <2>1, <2>2
<1> QED
  BY <1>1, <1>2, <1>3, <1>4, <1>5, <1>6, <1>7, <1>8 DEF EntryOK

LEMMA KeepsBehind ==
  ASSUME NEW p, StacksOK(p), NEW q, StacksOK(q), NEW m, Keeps(p, q, m),
         NEW o, Behind(o, p), EvalOf(o) <= m
  PROVE  Behind(o, q)
<1>1. PICK e : e = EvalOf(o)
  OBVIOUS
<1>2. /\ e \in 2..m /\ e \in 1..m /\ e \in 1..Len(p.cxstack) /\ m \in 1..Len(p.cxstack)
      /\ e \in 2..Len(q.cxstack) /\ e \in 1..Len(q.cxstack) /\ e - 1 \in 0..Len(q.cxstack)
      /\ m \in Nat
  <2>1. /\ Len(p.cxstack) \in Nat /\ Len(q.cxstack) \in Nat
        /\ m \in 1..Len(p.cxstack) /\ m <= Len(q.cxstack)
    BY PartTypes DEF StacksOK, Keeps
  <2>2. e \in 2..Len(p.cxstack) /\ e <= m
    BY <1>1 DEF Behind
  <2> QED
    BY <2>1, <2>2
<1>3. /\ q.cxstack[e] = p.cxstack[e] /\ Base(q, e) = Base(p, e)
      /\ Start(q, e) = Start(p, e) /\ FloorAt(q, e) = FloorAt(p, e)
  BY <1>2 DEF Keeps
<1>4. /\ p.cxstack[e].type = "eval"
      /\ Prefix(o.cxstack, p.cxstack, e - 1)
      /\ Prefix(o.scopestack, p.scopestack, Base(p, e))
      /\ Prefix(o.savestack, p.savestack, Start(p, e))
      /\ o.tmps_floor = p.savestack[Start(p, e) + 1].val
      /\ o.stack_sp = p.cxstack[e].oldsp
      /\ o.curcop = p.cxstack[e].oldcop
      /\ o.tmps_ix <= FloorAt(p, e)
  BY <1>1 DEF Behind
<1>5. Prefix(o.cxstack, q.cxstack, e - 1)
  <2>1. Len(o.cxstack) = e - 1 /\ \A i \in 1..e - 1 : o.cxstack[i] = p.cxstack[i] /\ i \in 1..m
    BY <1>2, <1>4 DEF Prefix
  <2> QED
    BY <1>2, <2>1 DEF Prefix, Keeps
<1>6. /\ Base(p, e) \in Nat /\ Base(p, e) <= p.cxstack[m].oldscopesp
      /\ Start(p, e) \in Nat /\ Start(p, e) <= Start(p, m)
      /\ p.cxstack[m].oldscopesp \in Nat /\ Start(p, m) \in Nat
  <2>1. /\ Base(p, e) \in Nat /\ Start(p, e) \in Nat
        /\ p.cxstack[m].oldscopesp \in Nat /\ Start(p, m) \in Nat
        /\ Scopes(p.cxstack[e]) \in {1, 2} /\ Scopes(p.cxstack[m]) \in {1, 2}
        /\ p.cxstack[e].oldscopesp = Base(p, e) + Scopes(p.cxstack[e])
        /\ p.cxstack[m].oldscopesp = Base(p, m) + Scopes(p.cxstack[m])
        /\ Base(p, m) \in Nat
    BY <1>2, FrameTypes
  <2>2. CASE e = m
    BY <2>1, <2>2
  <2>3. CASE e < m
    <3>1. Nested(p, e, m)
      BY <1>2, <2>3 DEF StacksOK
    <3> QED
      BY <2>1, <3>1 DEF Nested
  <2> QED
    BY <1>2, <2>2, <2>3
<1>7. Prefix(o.scopestack, q.scopestack, Base(q, e))
  <2>1. Base(q, e) \in 0..Len(q.scopestack)
    <3>1. /\ Base(q, e) \in Nat /\ Len(q.scopestack) \in Nat
          /\ Scopes(q.cxstack[e]) \in {1, 2}
          /\ q.cxstack[e].oldscopesp = Base(q, e) + Scopes(q.cxstack[e])
          /\ q.cxstack[e].oldscopesp <= Len(q.scopestack)
      BY <1>2, FrameTypes
    <3> QED
      BY <3>1
  <2>2. \A i \in 1..Base(p, e) : q.scopestack[i] = p.scopestack[i]
    BY <1>6 DEF Keeps
  <2> QED
    BY <1>3, <1>4, <2>1, <2>2 DEF Prefix
<1>8. \A n \in 1..Start(p, e) + 1 : q.savestack[n] = p.savestack[n]
  BY <1>6 DEF Keeps
<1>9. Prefix(o.savestack, q.savestack, Start(q, e))
  <2>1. Start(q, e) \in 0..Len(q.savestack)
    <3>1. Start(q, e) \in Nat /\ Len(q.savestack) \in Nat /\ Start(q, e) < Len(q.savestack)
      BY <1>2, FrameTypes
    <3> QED
      BY <3>1
  <2>2. \A n \in 1..Start(p, e) : q.savestack[n] = p.savestack[n]
    BY <1>6, <1>8
  <2> QED
    BY <1>3, <1>4, <2>1, <2>2 DEF Prefix
<1>10. q.savestack[Start(p, e) + 1] = p.savestack[Start(p, e) + 1]
  BY <1>6, <1>8
<1> QED
  BY <1>1, <1>2, <1>3, <1>4, <1>5, <1>7, <1>9, <1>10 DEF Behind

LEMMA KeepsOuter ==
  ASSUME NEW p, StacksOK(p), NEW q, StacksOK(q), NEW m, Keeps(p, q, m),
         NEW os, OuterOK(p, os),
         \A k \in 1..Len(p.cxstack) : p.cxstack[k].type = "eval" => k <= m,
         \A k \in m + 1..Len(q.cxstack) : q.cxstack[k].type # "eval"
  PROVE  OuterOK(q, os)
<1>1. Len(p.cxstack) \in Nat /\ Len(q.cxstack) \in Nat /\ m \in 1..Len(p.cxstack)
  BY PartTypes DEF StacksOK, Keeps
<1>2. \A i \in 1..Len(os) : Behind(os[i], q)
  <2> TAKE i \in 1..Len(os)
  <2>1. Behind(os[i], p)
    BY DEF OuterOK
  <2>2. EvalOf(os[i]) \in 1..Len(p.cxstack) /\ p.cxstack[EvalOf(os[i])].type = "eval"
    BY <1>1, <2>1 DEF Behind
  <2> QED
    BY <2>1, <2>2, KeepsBehind
<1>3. \A k \in 1..Len(q.cxstack) : q.cxstack[k].type = "eval" =>
        \E i \in 1..Len(os) : EvalOf(os[i]) = k
  <2> TAKE k \in 1..Len(q.cxstack)
  <2> HAVE q.cxstack[k].type = "eval"
  <2>1. k \in 1..m /\ k \in 1..Len(p.cxstack)
    BY <1>1
  <2>2. p.cxstack[k] = q.cxstack[k]
    BY <2>1 DEF Keeps
  <2> QED
    BY <2>1, <2>2 DEF OuterOK
<1> QED
  BY <1>2, <1>3 DEF OuterOK

LEMMA KeepsMortal ==
  ASSUME NEW p, StacksOK(p), NEW q, StacksOK(q), NEW m, Keeps(p, q, m),
         NEW x, x.ix \in Nat, MortalOK(p, x), x.depth < m
  PROVE  MortalOK(q, x)
<1>1. /\ x.depth + 1 \in 1..m /\ x.depth + 1 \in 1..Len(p.cxstack)
      /\ x.depth + 1 \in 1..Len(q.cxstack) /\ x.depth \in 1..Len(q.cxstack)
      /\ x.depth < Len(p.cxstack)
  <2>1. /\ Len(p.cxstack) \in Nat /\ Len(q.cxstack) \in Nat
        /\ m \in 1..Len(p.cxstack) /\ m <= Len(q.cxstack)
    BY PartTypes DEF StacksOK, Keeps
  <2>2. x.depth \in 1..Len(p.cxstack)
    BY DEF MortalOK
  <2> QED
    BY <2>1, <2>2
<1>2. x.ix <= FloorAt(p, x.depth + 1) /\ FloorAt(q, x.depth + 1) = FloorAt(p, x.depth + 1)
  BY <1>1 DEF MortalOK, Keeps
<1>3. /\ FloorAt(q, x.depth + 1) \in Nat /\ FloorAt(q, x.depth + 1) <= q.tmps_floor
      /\ q.tmps_floor <= q.tmps_ix /\ q.tmps_floor \in Nat /\ q.tmps_ix \in Nat
  BY <1>1, FrameOrder, FrameTypes
<1>4. x.ix <= q.tmps_ix
  BY <1>2, <1>3
<1> QED
  BY <1>1, <1>2, <1>4 DEF MortalOK

-----------------------------------------------------------------------------
(* What Perl's functions do to the frames.                                 *)
LEMMA PlainIsWithin ==
  ASSUME NEW p, StacksOK(p), NEW q \in PLType,
         q.cxstack = p.cxstack, q.scopestack = p.scopestack,
         q.savestack = p.savestack, q.tmps_floor = p.tmps_floor,
         q.tmps_floor <= q.tmps_ix
  PROVE  Within(p, q)
<1>1. Len(p.cxstack) \in 1..Len(p.cxstack)
  BY PartTypes DEF StacksOK
<1>2. Len(q.savestack) > Start(p, Len(p.cxstack))
  <2>1. /\ Start(p, Len(p.cxstack)) \in Nat /\ Len(p.savestack) \in Nat
        /\ Start(p, Len(p.cxstack)) < Len(p.savestack)
    BY <1>1, FrameTypes
  <2> QED
    BY <2>1
<1> QED
  BY <1>2 DEF Within, StacksOK

(* A variable is introduced.                                               *)
LEMMA IntroducedIsWithin ==
  ASSUME NEW p, StacksOK(p)
  PROVE  /\ Introduced(p) \in PLType /\ Within(p, Introduced(p))
         /\ Introduced(p).tmps_ix = p.tmps_ix
<1>1. PICK v : v = [type |-> "clearsv", val |-> 0]
  OBVIOUS
<1>2. v \in SavedValue /\ v.type = "clearsv"
  BY <1>1 DEF SavedValue
<1>3. PICK q : q = [p EXCEPT !.savestack = Append(@, v)]
  OBVIOUS
<1>4. p \in PLType /\ p.savestack \in Seq(SavedValue) /\ Len(p.savestack) \in Nat
  BY PartTypes DEF StacksOK
<1>5. PICK s : s = Append(p.savestack, v)
  OBVIOUS
<1>6. /\ s \in Seq(SavedValue) /\ Len(s) = Len(p.savestack) + 1
      /\ \A n \in 1..Len(p.savestack) : s[n] = p.savestack[n]
      /\ s[Len(p.savestack) + 1] = v
  BY <1>2, <1>4, <1>5
<1>7. q \in PLType
  BY <1>3, <1>4, <1>5, <1>6 DEF PLType
<1>8. /\ q.savestack = s /\ q.cxstack = p.cxstack /\ q.scopestack = p.scopestack
      /\ q.tmps_floor = p.tmps_floor /\ q.tmps_ix = p.tmps_ix
  BY <1>3, <1>4, <1>5 DEF PLType
<1>9. Len(p.cxstack) \in 1..Len(p.cxstack) /\ p.tmps_floor <= p.tmps_ix
  BY PartTypes DEF StacksOK
<1>10. /\ Start(p, Len(p.cxstack)) \in Nat
       /\ Start(p, Len(p.cxstack)) < Len(p.savestack)
  BY <1>9, FrameTypes
<1>11. \A n \in 1..Start(p, Len(p.cxstack)) + 1 : s[n] = p.savestack[n]
  <2>1. \A n \in 1..Start(p, Len(p.cxstack)) + 1 : n \in 1..Len(p.savestack)
    BY <1>4, <1>10
  <2> QED
    BY <1>6, <2>1
<1>12. \A n \in Start(p, Len(p.cxstack)) + 2..Len(s) : s[n].type = "clearsv"
  <2> TAKE n \in Start(p, Len(p.cxstack)) + 2..Len(s)
  <2>1. CASE n = Len(p.savestack) + 1
    BY <1>2, <1>6, <2>1
  <2>2. CASE n # Len(p.savestack) + 1
    <3>1. /\ n \in Start(p, Len(p.cxstack)) + 2..Len(p.savestack)
          /\ n \in 1..Len(p.savestack)
      BY <1>4, <1>6, <1>10, <2>2
    <3>2. p.savestack[n].type = "clearsv"
      BY <3>1 DEF StacksOK
    <3> QED
      BY <1>6, <3>1, <3>2
  <2> QED
    BY <2>1, <2>2
<1>13. Len(s) > Start(p, Len(p.cxstack))
  BY <1>4, <1>6, <1>10
<1>14. Within(p, q)
  BY <1>7, <1>8, <1>9, <1>11, <1>12, <1>13 DEF Within
<1>15. q = Introduced(p)
  BY <1>1, <1>3 DEF Introduced
<1> QED
  BY <1>7, <1>8, <1>14, <1>15

(* The last scope of a loop is left: the variables of the iteration are    *)
(* cleared.                                                                *)
LEMMA LeaveScopeIsWithin ==
  ASSUME NEW p, StacksOK(p), Cx(p).type = "loop",
         NEW q, q = LeaveScope(p, old_save(p))
  PROVE  /\ q \in PLType /\ Within(p, q) /\ Len(q.savestack) = Mark(p)
         /\ q.tmps_ix = p.tmps_ix /\ q.curcop = p.curcop
         /\ q.stack_sp = p.stack_sp
<1>1. PICK d : d = Len(p.cxstack)
  OBVIOUS
<1>2. p \in PLType /\ d \in 1..Len(p.cxstack) /\ p.tmps_floor <= p.tmps_ix
  BY <1>1, PartTypes DEF StacksOK
<1>3. PICK b : b = Start(p, d) + 1
  OBVIOUS
<1>4. /\ Start(p, d) \in Nat /\ Len(p.savestack) \in Nat
      /\ b \in Nat /\ b \in 1..Len(p.savestack)
  <2>1. Start(p, d) \in Nat /\ Len(p.savestack) \in Nat /\ Start(p, d) < Len(p.savestack)
    BY <1>2, FrameTypes
  <2> QED
    BY <1>3, <2>1
<1>5. old_save(p) = b /\ Mark(p) = b
  <2>1. ContextOK(p, d) /\ Len(p.scopestack) = p.cxstack[d].oldscopesp
    BY <1>1, <1>2 DEF StacksOK
  <2> QED
    BY <1>1, <1>3, <2>1 DEF ContextOK, old_save, Mark, Cx
<1>6. \A n \in b + 1..Len(p.savestack) : p.savestack[n].type = "clearsv"
  <2>1. \A n \in b + 1..Len(p.savestack) : n \in Start(p, d) + 2..Len(p.savestack)
    BY <1>3, <1>4
  <2> QED
    BY <1>1, <2>1 DEF StacksOK
<1>7. CASE Len(p.savestack) <= b
  <2>1. q = p /\ Len(p.savestack) = b
    BY <1>4, <1>5, <1>7 DEF LeaveScope
  <2>2. Within(p, q)
    BY <1>2, <2>1, PlainIsWithin
  <2> QED
    BY <1>2, <1>5, <2>1, <2>2
<1>8. CASE Len(p.savestack) > b
  <2>1. {n \in b + 1..Len(p.savestack) : p.savestack[n].type = "tmps_floor"} = {}
    BY <1>6
  <2>2. PICK s : s = SubSeq(p.savestack, 1, b)
    OBVIOUS
  <2>3. q = [p EXCEPT !.savestack = s, !.tmps_floor = p.tmps_floor]
    <3>1. ~(Len(p.savestack) <= b)
      BY <1>4, <1>8
    <3> QED
      BY <1>2, <1>5, <2>1, <2>2, <3>1 DEF LeaveScope, PLType
  <2>4. /\ s \in Seq(SavedValue) /\ Len(s) = b
        /\ \A n \in 1..b : s[n] = p.savestack[n]
    BY <1>2, <1>4, <2>2, PartTypes
  <2>5. q \in PLType
    BY <1>2, <2>3, <2>4 DEF PLType
  <2>6. /\ q.savestack = s /\ q.cxstack = p.cxstack /\ q.scopestack = p.scopestack
        /\ q.tmps_floor = p.tmps_floor /\ q.tmps_ix = p.tmps_ix
        /\ q.curcop = p.curcop /\ q.stack_sp = p.stack_sp
    BY <1>2, <2>3 DEF PLType
  <2>7. \A n \in Start(p, d) + 2..Len(s) : s[n].type = "clearsv"
    BY <1>3, <1>4, <2>4
  <2>8. Len(s) > Start(p, d) /\ \A n \in 1..Start(p, d) + 1 : s[n] = p.savestack[n]
    BY <1>3, <1>4, <2>4
  <2>9. Within(p, q)
    BY <1>1, <1>2, <2>5, <2>6, <2>7, <2>8 DEF Within
  <2> QED
    BY <1>5, <2>4, <2>5, <2>6, <2>9
<1> QED
  BY <1>4, <1>7, <1>8

LEMMA EnterIs ==
  ASSUME NEW p \in PLType, NEW q, q = ENTER(p)
  PROVE  /\ q \in PLType
         /\ q.cxstack = p.cxstack /\ q.savestack = p.savestack
         /\ q.tmps_ix = p.tmps_ix /\ q.tmps_floor = p.tmps_floor
         /\ q.stack_sp = p.stack_sp /\ q.curcop = p.curcop
         /\ q.scopestack = Append(p.scopestack, Len(p.savestack))
<1>1. PICK s : s = Append(p.scopestack, Len(p.savestack))
  OBVIOUS
<1>2. s \in Seq(Nat)
  BY <1>1, PartTypes
<1>3. q = [p EXCEPT !.scopestack = s]
  BY <1>1 DEF ENTER
<1> QED
  BY <1>1, <1>2, <1>3 DEF PLType

LEMMA SaveTmpsIs ==
  ASSUME NEW p \in PLType, NEW q, q = SAVETMPS(p)
  PROVE  /\ q \in PLType
         /\ q.cxstack = p.cxstack /\ q.scopestack = p.scopestack
         /\ q.tmps_ix = p.tmps_ix /\ q.tmps_floor = p.tmps_ix
         /\ q.stack_sp = p.stack_sp /\ q.curcop = p.curcop
         /\ q.savestack = Append(p.savestack,
                                 [type |-> "tmps_floor", val |-> p.tmps_floor])
<1>1. PICK v : v = [type |-> "tmps_floor", val |-> p.tmps_floor]
  OBVIOUS
<1>2. v \in SavedValue
  BY <1>1, PartTypes DEF SavedValue
<1>3. PICK s : s = Append(p.savestack, v)
  OBVIOUS
<1>4. s \in Seq(SavedValue)
  BY <1>2, <1>3, PartTypes
<1>5. q = [[p EXCEPT !.savestack = s] EXCEPT !.tmps_floor = p.tmps_ix]
  BY <1>1, <1>3 DEF SAVETMPS
<1>6. PICK r : r = [p EXCEPT !.savestack = s]
  OBVIOUS
<1>7. /\ r \in PLType /\ r.savestack = s
      /\ r.cxstack = p.cxstack /\ r.scopestack = p.scopestack
      /\ r.tmps_ix = p.tmps_ix /\ r.tmps_floor = p.tmps_floor
      /\ r.stack_sp = p.stack_sp /\ r.curcop = p.curcop
  BY <1>4, <1>6 DEF PLType
<1>8. q = [r EXCEPT !.tmps_floor = r.tmps_ix]
  BY <1>5, <1>6, <1>7
<1>9. /\ q \in PLType /\ q.savestack = r.savestack
      /\ q.cxstack = r.cxstack /\ q.scopestack = r.scopestack
      /\ q.tmps_ix = r.tmps_ix /\ q.tmps_floor = r.tmps_ix
      /\ q.stack_sp = r.stack_sp /\ q.curcop = r.curcop
  BY <1>7, <1>8 DEF PLType
<1> QED
  BY <1>1, <1>3, <1>7, <1>9

Pushed(p, q, t, c) ==
  /\ c.type = t /\ c.oldsp = p.stack_sp /\ c.oldcop = p.curcop
  /\ c.oldscopesp = Len(p.scopestack)
  /\ q \in PLType
  /\ q.scopestack = p.scopestack /\ q.savestack = p.savestack
  /\ q.tmps_ix = p.tmps_ix /\ q.tmps_floor = p.tmps_floor
  /\ q.stack_sp = p.stack_sp /\ q.curcop = p.curcop
  /\ q.cxstack = Append(p.cxstack, c)

LEMMA PushBlockIs ==
  ASSUME NEW p \in PLType, NEW t \in {"block", "loop", "eval"},
         NEW o \in Op \cup {NULL}, NEW q, q = PUSHBLOCK(p, t, o)
  PROVE  \E c \in Context : Pushed(p, q, t, c)
<1>1. PICK c : c = [type |-> t, oldsp |-> p.stack_sp, oldcop |-> p.curcop,
                    oldscopesp |-> Len(p.scopestack), my_op |-> o]
  OBVIOUS
<1>2. /\ c \in Context /\ c.type = t /\ c.oldsp = p.stack_sp /\ c.oldcop = p.curcop
      /\ c.oldscopesp = Len(p.scopestack)
  BY <1>1, PartTypes DEF Context
<1>3. PICK s : s = Append(p.cxstack, c)
  OBVIOUS
<1>4. s \in Seq(Context)
  BY <1>2, <1>3, PartTypes
<1>5. q = [p EXCEPT !.cxstack = s]
  BY <1>1, <1>3 DEF PUSHBLOCK
<1>6. /\ q \in PLType
      /\ q.scopestack = p.scopestack /\ q.savestack = p.savestack
      /\ q.tmps_ix = p.tmps_ix /\ q.tmps_floor = p.tmps_floor
      /\ q.stack_sp = p.stack_sp /\ q.curcop = p.curcop
      /\ q.cxstack = s
  BY <1>4, <1>5 DEF PLType
<1> QED
  BY <1>2, <1>3, <1>6 DEF Pushed

(* A loop and an eval are entered.                                         *)
LEMMA EnterLoopOpens ==
  ASSUME NEW p \in PLType, NEW o \in Op, NEW q, q = pp_enterloop(p, o)
  PROVE  \E c \in Context :
           /\ c.type = "loop" /\ c.oldsp = p.stack_sp /\ c.oldcop = p.curcop
           /\ Opens(p, q, c)
<1>1. PICK p1 : p1 = ENTER(p)
  OBVIOUS
<1>2. PICK p2 : p2 = SAVETMPS(p1)
  OBVIOUS
<1>3. PICK p3 : p3 = ENTER(p2)
  OBVIOUS
<1>4. q = PUSHBLOCK(p3, "loop", o)
  BY <1>1, <1>2, <1>3 DEF pp_enterloop
<1>5. /\ p1 \in PLType
      /\ p1.cxstack = p.cxstack /\ p1.savestack = p.savestack
      /\ p1.tmps_ix = p.tmps_ix /\ p1.tmps_floor = p.tmps_floor
      /\ p1.stack_sp = p.stack_sp /\ p1.curcop = p.curcop
      /\ p1.scopestack = Append(p.scopestack, Len(p.savestack))
  BY <1>1, EnterIs
<1>6. PICK v : v = [type |-> "tmps_floor", val |-> p1.tmps_floor]
  OBVIOUS
<1>7. /\ p2 \in PLType
      /\ p2.cxstack = p1.cxstack /\ p2.scopestack = p1.scopestack
      /\ p2.tmps_ix = p1.tmps_ix /\ p2.tmps_floor = p1.tmps_ix
      /\ p2.stack_sp = p1.stack_sp /\ p2.curcop = p1.curcop
      /\ p2.savestack = Append(p1.savestack, v)
  BY <1>2, <1>5, <1>6, SaveTmpsIs
<1>8. /\ p3 \in PLType
      /\ p3.cxstack = p2.cxstack /\ p3.savestack = p2.savestack
      /\ p3.tmps_ix = p2.tmps_ix /\ p3.tmps_floor = p2.tmps_floor
      /\ p3.stack_sp = p2.stack_sp /\ p3.curcop = p2.curcop
      /\ p3.scopestack = Append(p2.scopestack, Len(p2.savestack))
  BY <1>3, <1>7, EnterIs
<1>8a. PICK c \in Context : Pushed(p3, q, "loop", c)
  <2>1. PICK my_op \in Op \cup {NULL} : my_op = o
    OBVIOUS
  <2>2. PICK t \in {"block", "loop", "eval"} : t = "loop"
    OBVIOUS
  <2>3. q = PUSHBLOCK(p3, t, my_op) /\ p3 \in PLType
    BY <1>4, <1>8, <2>1, <2>2
  <2>4. \E c \in Context : Pushed(p3, q, t, c)
    BY <2>3, PushBlockIs
  <2> QED
    BY <2>2, <2>4
<1>9. /\ c.type = "loop" /\ c.oldsp = p3.stack_sp /\ c.oldcop = p3.curcop
      /\ c.oldscopesp = Len(p3.scopestack)
      /\ q \in PLType
      /\ q.scopestack = p3.scopestack /\ q.savestack = p3.savestack
      /\ q.tmps_ix = p3.tmps_ix /\ q.tmps_floor = p3.tmps_floor
      /\ q.stack_sp = p3.stack_sp /\ q.curcop = p3.curcop
      /\ q.cxstack = Append(p3.cxstack, c)
  BY <1>8a DEF Pushed
<1>10. /\ Len(q.cxstack) = Len(p.cxstack) + 1
       /\ \A k \in 1..Len(p.cxstack) : q.cxstack[k] = p.cxstack[k]
       /\ q.cxstack[Len(p.cxstack) + 1] = c
  <2>1. p.cxstack \in Seq(Context) /\ q.cxstack = Append(p.cxstack, c)
    BY <1>5, <1>7, <1>8, <1>9, PartTypes
  <2> QED
    BY <2>1
<1>11. /\ p2.savestack = Append(p.savestack, v) /\ q.savestack = p2.savestack
       /\ p.savestack \in Seq(SavedValue) /\ Len(p.savestack) \in Nat
       /\ v.type = "tmps_floor" /\ v.val = p.tmps_floor /\ v \in SavedValue
  <2>1. v.type = "tmps_floor" /\ v.val = p.tmps_floor /\ v \in SavedValue
    BY <1>5, <1>6, PartTypes DEF SavedValue
  <2> QED
    BY <1>5, <1>7, <1>8, <1>9, <2>1, PartTypes
<1>12. /\ Len(q.savestack) = Len(p.savestack) + 1
       /\ Len(p2.savestack) = Len(p.savestack) + 1
       /\ \A n \in 1..Len(p.savestack) : q.savestack[n] = p.savestack[n]
       /\ q.savestack[Len(p.savestack) + 1] = v
  BY <1>11
<1>13. /\ q.scopestack = Append(Append(p.scopestack, Len(p.savestack)), Len(p.savestack) + 1)
       /\ p.scopestack \in Seq(Nat) /\ Len(p.scopestack) \in Nat
  BY <1>5, <1>7, <1>8, <1>9, <1>12, PartTypes
<1>14. /\ Len(q.scopestack) = Len(p.scopestack) + 2
       /\ \A i \in 1..Len(p.scopestack) : q.scopestack[i] = p.scopestack[i]
       /\ q.scopestack[Len(p.scopestack) + 1] = Len(p.savestack)
       /\ q.scopestack[Len(p.scopestack) + 2] = Len(p.savestack) + 1
  <2>1. PICK a : a = Len(p.savestack)
    OBVIOUS
  <2>2. PICK s : s = Append(p.scopestack, a)
    OBVIOUS
  <2>3. /\ s \in Seq(Nat) /\ Len(s) = Len(p.scopestack) + 1 /\ a \in Nat /\ a + 1 \in Nat
        /\ s[Len(p.scopestack) + 1] = a
        /\ \A i \in 1..Len(p.scopestack) : s[i] = p.scopestack[i]
    BY <1>11, <1>13, <2>1, <2>2
  <2>4. /\ q.scopestack = Append(s, a + 1)
    BY <1>13, <2>1, <2>2
  <2>5. /\ Len(q.scopestack) = Len(s) + 1 /\ q.scopestack[Len(s) + 1] = a + 1
        /\ \A i \in 1..Len(s) : q.scopestack[i] = s[i]
    BY <2>3, <2>4
  <2>6. /\ Len(s) + 1 = Len(p.scopestack) + 2 /\ Len(p.scopestack) + 1 \in 1..Len(s)
        /\ \A i \in 1..Len(p.scopestack) : i \in 1..Len(s)
    BY <1>13, <2>3
  <2> QED
    BY <2>1, <2>3, <2>5, <2>6
<1>15. Scopes(c) = 2
  BY <1>9 DEF Scopes
<1>16. /\ c.oldscopesp = Len(q.scopestack) /\ q.tmps_floor = p.tmps_ix
       /\ q.tmps_ix = p.tmps_ix /\ c.oldsp = p.stack_sp /\ c.oldcop = p.curcop
  BY <1>5, <1>7, <1>8, <1>9
<1>17. Opens(p, q, c)
  BY <1>9, <1>10, <1>11, <1>12, <1>14, <1>15, <1>16 DEF Opens
<1> QED
  BY <1>9, <1>16, <1>17

LEMMA EnterOpens ==
  ASSUME NEW p \in PLType, NEW t \in {"block", "eval"},
         NEW q, q = PUSHBLOCK(SAVETMPS(ENTER(p)), t, NULL)
  PROVE  \E c \in Context :
           /\ c.type = t /\ c.oldsp = p.stack_sp /\ c.oldcop = p.curcop
           /\ Opens(p, q, c)
<1>1. PICK p1 : p1 = ENTER(p)
  OBVIOUS
<1>2. PICK p2 : p2 = SAVETMPS(p1)
  OBVIOUS
<1>3. q = PUSHBLOCK(p2, t, NULL)
  BY <1>1, <1>2
<1>4. /\ p1 \in PLType
      /\ p1.cxstack = p.cxstack /\ p1.savestack = p.savestack
      /\ p1.tmps_ix = p.tmps_ix /\ p1.tmps_floor = p.tmps_floor
      /\ p1.stack_sp = p.stack_sp /\ p1.curcop = p.curcop
      /\ p1.scopestack = Append(p.scopestack, Len(p.savestack))
  BY <1>1, EnterIs
<1>5. PICK v : v = [type |-> "tmps_floor", val |-> p1.tmps_floor]
  OBVIOUS
<1>6. /\ p2 \in PLType
      /\ p2.cxstack = p1.cxstack /\ p2.scopestack = p1.scopestack
      /\ p2.tmps_ix = p1.tmps_ix /\ p2.tmps_floor = p1.tmps_ix
      /\ p2.stack_sp = p1.stack_sp /\ p2.curcop = p1.curcop
      /\ p2.savestack = Append(p1.savestack, v)
  BY <1>2, <1>4, <1>5, SaveTmpsIs
<1>7. PICK c \in Context : Pushed(p2, q, t, c)
  <2>1. PICK my_op \in Op \cup {NULL} : my_op = NULL
    OBVIOUS
  <2>2. q = PUSHBLOCK(p2, t, my_op) /\ p2 \in PLType /\ t \in {"block", "loop", "eval"}
    BY <1>3, <1>6, <2>1
  <2> QED
    BY <2>2, PushBlockIs
<1>8. /\ c.type = t /\ c.oldsp = p2.stack_sp /\ c.oldcop = p2.curcop
      /\ c.oldscopesp = Len(p2.scopestack)
      /\ q \in PLType
      /\ q.scopestack = p2.scopestack /\ q.savestack = p2.savestack
      /\ q.tmps_ix = p2.tmps_ix /\ q.tmps_floor = p2.tmps_floor
      /\ q.stack_sp = p2.stack_sp /\ q.curcop = p2.curcop
      /\ q.cxstack = Append(p2.cxstack, c)
  BY <1>7 DEF Pushed
<1>9. /\ Len(q.cxstack) = Len(p.cxstack) + 1
       /\ \A k \in 1..Len(p.cxstack) : q.cxstack[k] = p.cxstack[k]
       /\ q.cxstack[Len(p.cxstack) + 1] = c
  <2>1. p.cxstack \in Seq(Context) /\ q.cxstack = Append(p.cxstack, c)
    BY <1>4, <1>6, <1>8, PartTypes
  <2> QED
    BY <2>1
<1>10. /\ q.savestack = Append(p.savestack, v)
       /\ p.savestack \in Seq(SavedValue) /\ Len(p.savestack) \in Nat
       /\ v.type = "tmps_floor" /\ v.val = p.tmps_floor /\ v \in SavedValue
  <2>1. v.type = "tmps_floor" /\ v.val = p.tmps_floor /\ v \in SavedValue
    BY <1>4, <1>5, PartTypes DEF SavedValue
  <2> QED
    BY <1>4, <1>6, <1>8, <2>1, PartTypes
<1>11. /\ Len(q.savestack) = Len(p.savestack) + 1
       /\ \A n \in 1..Len(p.savestack) : q.savestack[n] = p.savestack[n]
       /\ q.savestack[Len(p.savestack) + 1] = v
  BY <1>10
<1>12. /\ q.scopestack = Append(p.scopestack, Len(p.savestack))
       /\ p.scopestack \in Seq(Nat) /\ Len(p.savestack) \in Nat
  BY <1>4, <1>6, <1>8, PartTypes
<1>13. /\ Len(q.scopestack) = Len(p.scopestack) + 1
       /\ \A i \in 1..Len(p.scopestack) : q.scopestack[i] = p.scopestack[i]
       /\ q.scopestack[Len(p.scopestack) + 1] = Len(p.savestack)
  BY <1>12
<1>14. Scopes(c) = 1
  BY <1>8 DEF Scopes
<1>15. /\ c.oldscopesp = Len(q.scopestack) /\ q.tmps_floor = p.tmps_ix
       /\ q.tmps_ix = p.tmps_ix /\ c.oldsp = p.stack_sp /\ c.oldcop = p.curcop
  BY <1>4, <1>6, <1>8
<1>16. Opens(p, q, c)
  BY <1>8, <1>9, <1>10, <1>11, <1>13, <1>14, <1>15 DEF Opens
<1> QED
  BY <1>8, <1>15, <1>16

LEMMA EnterEvalOpens ==
  ASSUME NEW p \in PLType, NEW q, q = pp_entertry(p)
  PROVE  \E c \in Context :
           /\ c.type = "eval" /\ c.oldsp = p.stack_sp /\ c.oldcop = p.curcop
           /\ Opens(p, q, c)
<1>1. PICK t \in {"block", "eval"} : t = "eval"
  OBVIOUS
<1>2. q = PUSHBLOCK(SAVETMPS(ENTER(p)), t, NULL)
  BY <1>1 DEF pp_entertry
<1> QED
  BY <1>1, <1>2, EnterOpens

(* A scope is left: the savestack is cut back to b, and the floor is f.    *)
Left(p, q, b, f) ==
  /\ q \in PLType
  /\ Prefix(q.scopestack, p.scopestack, Len(p.scopestack) - 1)
  /\ Prefix(q.savestack, p.savestack, b)
  /\ q.tmps_floor = f
  /\ q.cxstack = p.cxstack /\ q.tmps_ix = p.tmps_ix
  /\ q.stack_sp = p.stack_sp /\ q.curcop = p.curcop

(* The savestack above b restores the floor to f.                          *)
Restores(p, b, f) ==
  \/ /\ \A n \in b + 1..Len(p.savestack) : p.savestack[n].type = "clearsv"
     /\ f = p.tmps_floor
  \/ /\ b < Len(p.savestack) /\ p.savestack[b + 1].type = "tmps_floor"
     /\ f = p.savestack[b + 1].val

LEMMA LeaveScopeIs ==
  ASSUME NEW p \in PLType, NEW b \in 0..Len(p.savestack), NEW f,
         Restores(p, b, f),
         NEW q, q = LeaveScope(p, b)
  PROVE  /\ q \in PLType
         /\ Prefix(q.savestack, p.savestack, b) /\ q.tmps_floor = f
         /\ q.cxstack = p.cxstack /\ q.scopestack = p.scopestack
         /\ q.tmps_ix = p.tmps_ix /\ q.stack_sp = p.stack_sp /\ q.curcop = p.curcop
<1>1. Len(p.savestack) \in Nat /\ p.savestack \in Seq(SavedValue) /\ b \in Nat
  BY PartTypes
<1>2. CASE Len(p.savestack) <= b
  <2>1. q = p /\ b = Len(p.savestack)
    BY <1>1, <1>2 DEF LeaveScope
  <2>2. f = p.tmps_floor
    BY <1>1, <1>2 DEF Restores
  <2> QED
    BY <1>1, <2>1, <2>2 DEF Prefix
<1>3. CASE Len(p.savestack) > b
  <2>1. PICK floors : floors = {n \in b + 1..Len(p.savestack) :
                                  p.savestack[n].type = "tmps_floor"}
    OBVIOUS
  <2>2. PICK oldest : oldest = CHOOSE n \in floors : \A m \in floors : n <= m
    OBVIOUS
  <2>3. PICK g : g = IF floors = {} THEN p.tmps_floor ELSE p.savestack[oldest].val
    OBVIOUS
  <2>4. PICK s : s = SubSeq(p.savestack, 1, b)
    OBVIOUS
  <2>5. q = [[p EXCEPT !.savestack = s] EXCEPT !.tmps_floor = g]
    <3>1. ~(Len(p.savestack) <= b)
      BY <1>1, <1>3
    <3> QED
      BY <2>1, <2>2, <2>3, <2>4, <3>1 DEF LeaveScope, PLType
  <2>6. g = f
    <3>1. CASE \A n \in b + 1..Len(p.savestack) : p.savestack[n].type = "clearsv"
      <4>1. floors = {}
        BY <2>1, <3>1
      <4>2. b + 1 \in b + 1..Len(p.savestack)
        BY <1>1, <1>3
      <4>3. f = p.tmps_floor
        BY <3>1, <4>2 DEF Restores
      <4> QED
        BY <2>3, <4>1, <4>3
    <3>2. CASE ~\A n \in b + 1..Len(p.savestack) : p.savestack[n].type = "clearsv"
      <4>1. p.savestack[b + 1].type = "tmps_floor" /\ f = p.savestack[b + 1].val
        BY <3>2 DEF Restores
      <4>2. b + 1 \in floors /\ \A m \in floors : m \in Int /\ b + 1 <= m
        BY <1>1, <1>3, <2>1, <4>1
      <4>3. oldest \in floors /\ \A m \in floors : oldest <= m
        BY <2>2, <4>2
      <4>4. oldest = b + 1
        BY <1>1, <4>2, <4>3
      <4> QED
        BY <2>3, <4>1, <4>2, <4>4
    <3> QED
      BY <3>1, <3>2
  <2>7. s \in Seq(SavedValue) /\ Prefix(s, p.savestack, b)
    BY <1>1, <2>4 DEF Prefix
  <2>8. f \in Nat
    <3>1. b + 1 \in 1..Len(p.savestack)
      BY <1>1, <1>3
    <3> QED
      BY <3>1, PartTypes DEF Restores
  <2>9. PICK r : r = [p EXCEPT !.savestack = s]
    OBVIOUS
  <2>10. /\ r \in PLType /\ r.savestack = s
         /\ r.cxstack = p.cxstack /\ r.scopestack = p.scopestack
         /\ r.tmps_ix = p.tmps_ix /\ r.stack_sp = p.stack_sp /\ r.curcop = p.curcop
    BY <2>7, <2>9 DEF PLType
  <2>11. /\ q \in PLType /\ q.savestack = r.savestack /\ q.tmps_floor = f
         /\ q.cxstack = r.cxstack /\ q.scopestack = r.scopestack
         /\ q.tmps_ix = r.tmps_ix /\ q.stack_sp = r.stack_sp /\ q.curcop = r.curcop
    BY <2>5, <2>6, <2>8, <2>9, <2>10 DEF PLType
  <2> QED
    BY <2>7, <2>10, <2>11
<1> QED
  BY <1>1, <1>2, <1>3

LEMMA CutIs ==
  ASSUME NEW S, NEW u \in Seq(S), NEW n \in 0..Len(u), NEW s, s = SubSeq(u, 1, n)
  PROVE  s \in Seq(S) /\ Prefix(s, u, n)
<1>1. Len(u) \in Nat /\ n \in Nat /\ n <= Len(u)
  OBVIOUS
<1>2. s \in Seq(S) /\ Len(s) = n
  BY <1>1
<1>3. \A i \in 1..n : s[i] = u[i]
  BY <1>1
<1> QED
  BY <1>1, <1>2, <1>3 DEF Prefix

LEMMA LeaveIs ==
  ASSUME NEW p \in PLType, Len(p.scopestack) >= 1,
         NEW b \in 0..Len(p.savestack), b = Mark(p), NEW f,
         Restores(p, b, f),
         NEW q, q = LEAVE(p)
  PROVE  Left(p, q, b, f)
<1>1. PICK s : s = SubSeq(p.scopestack, 1, Len(p.scopestack) - 1)
  OBVIOUS
<1>2. /\ s \in Seq(Nat) /\ Prefix(s, p.scopestack, Len(p.scopestack) - 1)
      /\ Len(p.savestack) \in Nat
  <2>1. p.scopestack \in Seq(Nat) /\ Len(p.scopestack) \in Nat /\ Len(p.savestack) \in Nat
    BY PartTypes
  <2>2. Len(p.scopestack) - 1 \in 0..Len(p.scopestack)
    BY <2>1
  <2> QED
    BY <1>1, <2>1, <2>2, CutIs
<1>3. PICK r : r = [p EXCEPT !.scopestack = s]
  OBVIOUS
<1>4. /\ r \in PLType /\ r.scopestack = s
      /\ r.cxstack = p.cxstack /\ r.savestack = p.savestack
      /\ r.tmps_ix = p.tmps_ix /\ r.tmps_floor = p.tmps_floor
      /\ r.stack_sp = p.stack_sp /\ r.curcop = p.curcop
  BY <1>2, <1>3 DEF PLType
<1>5. q = LeaveScope(r, b)
  BY <1>1, <1>3 DEF LEAVE
<1>7. Restores(r, b, f) /\ b \in 0..Len(r.savestack)
  BY <1>4 DEF Restores
<1>6. /\ q \in PLType
      /\ Prefix(q.savestack, r.savestack, b) /\ q.tmps_floor = f
      /\ q.cxstack = r.cxstack /\ q.scopestack = r.scopestack
      /\ q.tmps_ix = r.tmps_ix /\ q.stack_sp = r.stack_sp /\ q.curcop = r.curcop
  BY <1>4, <1>5, <1>7, LeaveScopeIs
<1> QED
  BY <1>2, <1>4, <1>6 DEF Left

LEMMA PrefixOfPrefix ==
  ASSUME NEW s, NEW t, NEW u, NEW n, NEW m, Len(s) \in Nat,
         Prefix(t, s, n), Prefix(u, t, m)
  PROVE  Prefix(u, s, m)
BY DEF Prefix

(* A context is popped, and the argument stack is cut back to v.           *)
Popped(p, q, v) ==
  /\ q \in PLType
  /\ Prefix(q.cxstack, p.cxstack, Len(p.cxstack) - 1)
  /\ Prefix(q.scopestack, p.scopestack, Cx(p).oldscopesp)
  /\ q.curcop = Cx(p).oldcop /\ q.stack_sp = v
  /\ q.savestack = p.savestack
  /\ q.tmps_ix = p.tmps_ix /\ q.tmps_floor = p.tmps_floor

LEMMA PopBlockIs ==
  ASSUME NEW p \in PLType, Len(p.cxstack) >= 1,
         Cx(p).oldscopesp <= Len(p.scopestack), NEW v \in Int,
         NEW q, q = [POPBLOCK(p) EXCEPT !.stack_sp = v]
  PROVE  Popped(p, q, v)
<1>1. PICK c : c = Cx(p)
  OBVIOUS
<1>2. /\ c \in Context /\ c.oldscopesp \in Nat /\ c.oldcop \in Op \cup {NULL}
      /\ Len(p.cxstack) \in Nat /\ Len(p.scopestack) \in Nat
  <2>1. Len(p.cxstack) \in 1..Len(p.cxstack)
    BY PartTypes
  <2>2. c \in Context
    BY <1>1, <2>1, PartTypes DEF Cx
  <2> QED
    BY <2>2, PartTypes DEF Context
<1>3. PICK x : x = SubSeq(p.cxstack, 1, Len(p.cxstack) - 1)
  OBVIOUS
<1>4. x \in Seq(Context) /\ Prefix(x, p.cxstack, Len(p.cxstack) - 1)
  <2>1. p.cxstack \in Seq(Context) /\ Len(p.cxstack) - 1 \in 0..Len(p.cxstack)
    BY <1>2, PartTypes
  <2> QED
    BY <1>3, <2>1, CutIs
<1>5. PICK y : y = SubSeq(p.scopestack, 1, c.oldscopesp)
  OBVIOUS
<1>6. y \in Seq(Nat) /\ Prefix(y, p.scopestack, c.oldscopesp)
  <2>1. p.scopestack \in Seq(Nat) /\ c.oldscopesp \in 0..Len(p.scopestack)
    BY <1>1, <1>2, PartTypes
  <2> QED
    BY <1>5, <2>1, CutIs
<1>7. q = [[[[p EXCEPT !.cxstack = x] EXCEPT !.curcop = c.oldcop]
               EXCEPT !.scopestack = y] EXCEPT !.stack_sp = v]
  BY <1>1, <1>3, <1>5 DEF POPBLOCK, PLType
<1>8. PICK a : a = [p EXCEPT !.cxstack = x]
  OBVIOUS
<1>9. PICK b : b = [a EXCEPT !.curcop = c.oldcop]
  OBVIOUS
<1>10. PICK r : r = [b EXCEPT !.scopestack = y]
  OBVIOUS
<1>11. /\ a \in PLType /\ a.cxstack = x /\ a.scopestack = p.scopestack
       /\ a.savestack = p.savestack /\ a.tmps_ix = p.tmps_ix
       /\ a.tmps_floor = p.tmps_floor
  BY <1>4, <1>8 DEF PLType
<1>12. /\ b \in PLType /\ b.cxstack = x /\ b.curcop = c.oldcop
       /\ b.savestack = p.savestack /\ b.tmps_ix = p.tmps_ix
       /\ b.tmps_floor = p.tmps_floor
  BY <1>2, <1>9, <1>11 DEF PLType
<1>13. /\ r \in PLType /\ r.cxstack = x /\ r.curcop = c.oldcop /\ r.scopestack = y
       /\ r.savestack = p.savestack /\ r.tmps_ix = p.tmps_ix
       /\ r.tmps_floor = p.tmps_floor
  BY <1>6, <1>10, <1>12 DEF PLType
<1>14. q = [r EXCEPT !.stack_sp = v]
  BY <1>7, <1>8, <1>9, <1>10
<1>15. /\ q \in PLType /\ q.cxstack = x /\ q.curcop = c.oldcop /\ q.scopestack = y
       /\ q.savestack = p.savestack /\ q.tmps_ix = p.tmps_ix
       /\ q.tmps_floor = p.tmps_floor /\ q.stack_sp = v
  BY <1>13, <1>14 DEF PLType
<1> QED
  BY <1>1, <1>4, <1>6, <1>15 DEF Popped

(* A loop is left.                                                         *)
LEMMA LeaveLoopCuts ==
  ASSUME NEW p, StacksOK(p), Cx(p).type = "loop", Len(p.cxstack) >= 2,
         NEW n \in {0, 1}, NEW q, q = pp_leaveloop(p, n)
  PROVE  Cuts(p, q, Len(p.cxstack)) /\ q.tmps_ix = p.tmps_ix
<1>1. PICK d : d = Len(p.cxstack)
  OBVIOUS
<1>2. PICK m : m = Start(p, d)
  OBVIOUS
<1>3. PICK h : h = Len(p.scopestack)
  OBVIOUS
<1>4. /\ p \in PLType /\ d \in Nat /\ d \in 1..Len(p.cxstack) /\ Cx(p) = p.cxstack[d]
      /\ Cx(p).oldsp + n \in Int /\ Cx(p).oldscopesp <= Len(p.scopestack)
  <2>1. p \in PLType /\ d \in Nat /\ d \in 1..Len(p.cxstack)
    BY <1>1, PartTypes DEF StacksOK
  <2>2. Cx(p) \in Context /\ Cx(p) = p.cxstack[d]
    BY <1>1, <2>1, PartTypes DEF Cx
  <2> QED
    BY <2>1, <2>2, FrameOrder DEF Context
<1>5. /\ h = Cx(p).oldscopesp /\ Scopes(p.cxstack[d]) = 2 /\ Base(p, d) = h - 2
      /\ Base(p, d) \in Nat /\ h \in Nat
      /\ m \in Nat /\ m < Len(p.savestack) /\ Len(p.savestack) \in Nat
      /\ p.savestack[m + 1].type = "tmps_floor" /\ p.scopestack[h] = m + 1
      /\ p.scopestack[h - 1] = m
  <2>1. h = p.cxstack[d].oldscopesp /\ ContextOK(p, d)
    BY <1>1, <1>3, <1>4 DEF StacksOK
  <2>2. Scopes(p.cxstack[d]) = 2
    BY <1>4 DEF Scopes
  <2>3. Base(p, d) = h - 2 /\ Base(p, d) \in Nat /\ h \in Nat
    BY <1>4, <2>1, <2>2, FrameTypes DEF Base
  <2>4. m \in Nat /\ m < Len(p.savestack) /\ Len(p.savestack) \in Nat
    BY <1>2, <1>4, FrameTypes
  <2>5. p.scopestack[Base(p, d) + 1] = m /\ Base(p, d) + 1 = h - 1
    BY <1>2, <2>3 DEF Start
  <2> QED
    BY <1>2, <1>4, <2>1, <2>2, <2>3, <2>4, <2>5 DEF ContextOK
<1>6. PICK p1 : p1 = [POPBLOCK(p) EXCEPT !.stack_sp = Cx(p).oldsp + n]
  OBVIOUS
<1>7. Popped(p, p1, Cx(p).oldsp + n)
  BY <1>1, <1>4, <1>6, PopBlockIs
<1>8. /\ p1 \in PLType /\ Prefix(p1.cxstack, p.cxstack, d - 1)
      /\ Prefix(p1.scopestack, p.scopestack, h)
      /\ p1.savestack = p.savestack
      /\ p1.tmps_ix = p.tmps_ix /\ p1.tmps_floor = p.tmps_floor
  BY <1>1, <1>5, <1>7 DEF Popped
<1>9. Len(p1.scopestack) = h /\ Mark(p1) = m + 1 /\ h >= 2
  <2>1. h >= 2 /\ h \in 1..h
    BY <1>5
  <2> QED
    BY <1>5, <1>8, <2>1 DEF Prefix, Mark
<1>10. PICK p2 : p2 = LEAVE(p1)
  OBVIOUS
<1>11. Left(p1, p2, m + 1, p.tmps_floor)
  <2>1. \A i \in m + 2..Len(p.savestack) : p.savestack[i].type = "clearsv"
    BY <1>1, <1>2 DEF StacksOK
  <2>2. Restores(p1, m + 1, p.tmps_floor)
    BY <1>5, <1>8, <2>1 DEF Restores
  <2>3. m + 1 \in 0..Len(p1.savestack)
    BY <1>5, <1>8
  <2>4. Len(p1.scopestack) >= 1
    BY <1>5, <1>9
  <2>5. PICK b \in 0..Len(p1.savestack) : b = m + 1
    BY <2>3
  <2>6. Left(p1, p2, b, p.tmps_floor)
    BY <1>8, <1>9, <1>10, <2>2, <2>4, <2>5, LeaveIs
  <2> QED
    BY <2>5, <2>6
<1>12. /\ p2 \in PLType
       /\ Prefix(p2.scopestack, p1.scopestack, h - 1)
       /\ Prefix(p2.savestack, p.savestack, m + 1)
       /\ p2.cxstack = p1.cxstack /\ p2.tmps_ix = p.tmps_ix
       /\ p2.tmps_floor = p.tmps_floor
  BY <1>8, <1>9, <1>11 DEF Left
<1>13. Prefix(p2.scopestack, p.scopestack, h - 1)
  BY <1>3, <1>5, <1>8, <1>12, PrefixOfPrefix
<1>14. Len(p2.scopestack) = h - 1 /\ Mark(p2) = m
  <2>1. h - 1 \in 1..h - 1
    BY <1>5, <1>9
  <2> QED
    BY <1>5, <1>13, <2>1 DEF Prefix, Mark
<1>15. Left(p2, q, m, p.savestack[m + 1].val)
  <2>1. q = LEAVE(p2)
    BY <1>6, <1>10 DEF pp_leaveloop
  <2>2. Len(p2.savestack) = m + 1 /\ p2.savestack[m + 1] = p.savestack[m + 1]
    BY <1>5, <1>12 DEF Prefix
  <2>3. Restores(p2, m, p.savestack[m + 1].val)
    BY <1>5, <2>2 DEF Restores
  <2>4. m \in 0..Len(p2.savestack) /\ Len(p2.scopestack) >= 1
    BY <1>5, <1>9, <1>14, <2>2
  <2>5. PICK b \in 0..Len(p2.savestack) : b = m
    BY <2>4
  <2>6. Left(p2, q, b, p.savestack[m + 1].val)
    BY <1>12, <1>14, <2>1, <2>3, <2>4, <2>5, LeaveIs
  <2> QED
    BY <2>5, <2>6
<1>16. /\ q \in PLType /\ Prefix(q.scopestack, p2.scopestack, h - 2)
       /\ Prefix(q.savestack, p2.savestack, m)
       /\ q.cxstack = p1.cxstack /\ q.tmps_ix = p.tmps_ix
       /\ q.tmps_floor = p.savestack[m + 1].val
  <2>1. Len(p2.scopestack) - 1 = h - 2
    BY <1>5, <1>14
  <2> QED
    BY <1>12, <1>15, <2>1 DEF Left
<1>17. Prefix(q.scopestack, p.scopestack, h - 2) /\ Prefix(q.savestack, p.savestack, m)
  BY <1>3, <1>5, <1>12, <1>13, <1>16, PrefixOfPrefix
<1>18. p.tmps_ix <= q.tmps_ix
  <2>1. p.tmps_ix \in Nat
    BY <1>4, PartTypes
  <2> QED
    BY <1>16, <2>1
<1> QED
  BY <1>1, <1>2, <1>5, <1>8, <1>16, <1>17, <1>18 DEF Cuts

(* A die unwinds to the innermost eval, whose context n is.                *)
Died(p, t) == [die_unwind(p) EXCEPT !.tmps_ix = t]

Innermost(p, n) ==
  n \in 2..Len(p.cxstack) /\ p.cxstack[n].type = "eval" /\ \A k \in Evals(p) : k <= n

LEMMA DieCuts ==
  ASSUME NEW p, StacksOK(p), NEW n, Innermost(p, n),
         NEW t \in Nat, p.tmps_ix <= t, NEW q, q = Died(p, t)
  PROVE  /\ Cuts(p, q, n) /\ q.tmps_ix = t
         /\ q.stack_sp = p.cxstack[n].oldsp /\ q.curcop = p.cxstack[n].oldcop
<1>0. /\ n \in 2..Len(p.cxstack) /\ p.cxstack[n].type = "eval"
      /\ \A k \in Evals(p) : k <= n
  BY DEF Innermost
<1>1. PICK m : m = Start(p, n)
  OBVIOUS
<1>2. PICK h : h = p.cxstack[n].oldscopesp
  OBVIOUS
<1>3. PICK c : c = p.cxstack[n]
  OBVIOUS
<1>4. /\ p \in PLType /\ n \in 1..Len(p.cxstack) /\ n \in Nat /\ n - 1 \in Nat
      /\ Len(p.cxstack) \in Nat /\ c \in Context /\ c.oldsp \in Int
      /\ p.cxstack \in Seq(Context)
  <2>1. p \in PLType /\ Len(p.cxstack) \in Nat /\ p.cxstack \in Seq(Context)
    BY PartTypes DEF StacksOK
  <2>2. n \in 1..Len(p.cxstack) /\ n \in Nat /\ n - 1 \in Nat
    BY <1>0, <2>1
  <2>3. c \in Context
    BY <1>3, <2>1, <2>2
  <2> QED
    BY <2>1, <2>2, <2>3 DEF Context
<1>5. n = CHOOSE k \in Evals(p) : \A j \in Evals(p) : j <= k
  <2>1. n \in Evals(p) /\ \A k \in Evals(p) : k \in Nat
    BY <1>0, <1>4 DEF Evals
  <2>2. PICK x : x = CHOOSE k \in Evals(p) : \A j \in Evals(p) : j <= k
    OBVIOUS
  <2>3. x \in Evals(p) /\ \A j \in Evals(p) : j <= x
    BY <1>0, <2>1, <2>2
  <2>4. n <= x /\ x <= n /\ x \in Nat
    BY <1>0, <2>1, <2>3
  <2>5. n = x
    BY <1>4, <2>4
  <2> QED
    BY <2>2, <2>5
<1>6. /\ Base(p, n) = h - 1 /\ Base(p, n) \in Nat /\ h \in Nat /\ h >= 1
      /\ h <= Len(p.scopestack) /\ Len(p.scopestack) \in Nat
      /\ m \in Nat /\ m < Len(p.savestack) /\ Len(p.savestack) \in Nat
      /\ p.savestack[m + 1].type = "tmps_floor" /\ p.scopestack[h] = m
  <2>1. ContextOK(p, n)
    BY <1>4 DEF StacksOK
  <2>2. Scopes(p.cxstack[n]) = 1
    BY <1>0 DEF Scopes
  <2>3. /\ Base(p, n) = h - 1 /\ Base(p, n) \in Nat /\ h \in Nat
        /\ h <= Len(p.scopestack) /\ Len(p.scopestack) \in Nat
    BY <1>2, <1>4, <2>2, FrameTypes DEF Base
  <2>4. m \in Nat /\ m < Len(p.savestack) /\ Len(p.savestack) \in Nat
    BY <1>1, <1>4, FrameTypes
  <2>5. p.scopestack[Base(p, n) + 1] = m /\ Base(p, n) + 1 = h /\ h >= 1
    BY <1>1, <2>3 DEF Start
  <2> QED
    BY <1>1, <2>1, <2>3, <2>4, <2>5 DEF ContextOK
<1>7. PICK x : x = SubSeq(p.cxstack, 1, n)
  OBVIOUS
<1>8. PICK p0 : p0 = [p EXCEPT !.cxstack = x]
  OBVIOUS
<1>9. x \in Seq(Context) /\ Len(x) = n /\ Prefix(x, p.cxstack, n)
  <2>1. n \in 0..Len(p.cxstack) /\ p.cxstack \in Seq(Context)
    BY <1>4
  <2>2. x \in Seq(Context) /\ Prefix(x, p.cxstack, n)
    BY <1>7, <2>1, CutIs
  <2> QED
    BY <2>2 DEF Prefix
<1>10. /\ p0 \in PLType /\ p0.cxstack = x /\ p0.scopestack = p.scopestack
       /\ p0.savestack = p.savestack /\ p0.tmps_ix = p.tmps_ix
       /\ p0.tmps_floor = p.tmps_floor
  BY <1>4, <1>8, <1>9 DEF PLType
<1>11. Cx(p0) = c
  <2>1. n \in 1..n
    BY <1>4
  <2> QED
    BY <1>3, <1>9, <1>10, <2>1 DEF Cx, Prefix
<1>12. PICK p1 : p1 = [POPBLOCK(p0) EXCEPT !.stack_sp = c.oldsp]
  OBVIOUS
<1>13. Popped(p0, p1, c.oldsp)
  <2>1. Len(p0.cxstack) >= 1 /\ Cx(p0).oldscopesp <= Len(p0.scopestack)
    BY <1>2, <1>3, <1>4, <1>6, <1>9, <1>10, <1>11
  <2> QED
    BY <1>4, <1>10, <1>12, <2>1, PopBlockIs
<1>14. /\ p1 \in PLType /\ Prefix(p1.cxstack, x, n - 1)
       /\ Prefix(p1.scopestack, p.scopestack, h)
       /\ p1.savestack = p.savestack /\ p1.curcop = c.oldcop /\ p1.stack_sp = c.oldsp
       /\ p1.tmps_ix = p.tmps_ix /\ p1.tmps_floor = p.tmps_floor
  BY <1>2, <1>3, <1>9, <1>10, <1>11, <1>13 DEF Popped
<1>15. Prefix(p1.cxstack, p.cxstack, n - 1)
  BY <1>4, <1>9, <1>14, PrefixOfPrefix
<1>16. Len(p1.scopestack) = h /\ Mark(p1) = m
  <2>1. h \in 1..h
    BY <1>6
  <2> QED
    BY <1>6, <1>14, <2>1 DEF Prefix, Mark
<1>17. PICK r : r = LEAVE(p1)
  OBVIOUS
<1>18. Left(p1, r, m, p.savestack[m + 1].val)
  <2>1. Restores(p1, m, p.savestack[m + 1].val)
    BY <1>6, <1>14 DEF Restores
  <2>2. m \in 0..Len(p1.savestack) /\ Len(p1.scopestack) >= 1
    BY <1>6, <1>14, <1>16
  <2>3. PICK b \in 0..Len(p1.savestack) : b = m
    BY <2>2
  <2>4. Left(p1, r, b, p.savestack[m + 1].val)
    BY <1>14, <1>16, <1>17, <2>1, <2>2, <2>3, LeaveIs
  <2> QED
    BY <2>3, <2>4
<1>19. /\ r \in PLType /\ Prefix(r.scopestack, p1.scopestack, h - 1)
       /\ Prefix(r.savestack, p.savestack, m)
       /\ r.cxstack = p1.cxstack
       /\ r.tmps_floor = p.savestack[m + 1].val
       /\ r.stack_sp = c.oldsp /\ r.curcop = c.oldcop
  BY <1>14, <1>16, <1>18 DEF Left
<1>20. Prefix(r.scopestack, p.scopestack, h - 1)
  BY <1>6, <1>14, <1>19, PrefixOfPrefix
<1>21. q = [r EXCEPT !.tmps_ix = t]
  <2>1. die_unwind(p) = LEAVE([POPBLOCK(p0) EXCEPT !.stack_sp = Cx(p0).oldsp])
    BY <1>5, <1>7, <1>8 DEF die_unwind
  <2> QED
    BY <1>11, <1>12, <1>17, <2>1 DEF Died
<1>22. /\ q \in PLType /\ q.cxstack = r.cxstack /\ q.scopestack = r.scopestack
       /\ q.savestack = r.savestack /\ q.tmps_floor = r.tmps_floor
       /\ q.stack_sp = r.stack_sp /\ q.curcop = r.curcop /\ q.tmps_ix = t
  BY <1>19, <1>21 DEF PLType
<1> QED
  BY <1>1, <1>3, <1>6, <1>15, <1>19, <1>20, <1>22 DEF Cuts

-----------------------------------------------------------------------------
(* The code of pa_pp_nextstate and pa_pp_unstack, one instruction after    *)
(* the other.  First, the concatenation of the tuples they are made of.    *)
LEMMA Concat1_1 ==
  ASSUME NEW a, NEW b
  PROVE  << a >> \o << b >>
           = << a, b >>
<1>1. PICK S : S = {a, b}
  OBVIOUS
<1>2. PICK u : u = << a >> \o << b >>
  OBVIOUS
<1>3. PICK v : v = << a, b >>
  OBVIOUS
<1>4. u \in Seq(S) /\ Len(u) = 2
  BY <1>1, <1>2
<1>5. u[1] = a /\ u[2] = b
  BY <1>2
<1>6. v \in Seq(S) /\ Len(v) = 2
  BY <1>1, <1>3
<1>7. v[1] = a /\ v[2] = b
  BY <1>3
<1>8. u = v
  BY <1>4, <1>5, <1>6, <1>7, SeqEqual
<1> QED
  BY <1>2, <1>3, <1>8

LEMMA Concat2_1 ==
  ASSUME NEW a, NEW b, NEW c
  PROVE  << a, b >> \o << c >>
           = << a, b, c >>
<1>1. PICK S : S = {a, b, c}
  OBVIOUS
<1>2. PICK u : u = << a, b >> \o << c >>
  OBVIOUS
<1>3. PICK v : v = << a, b, c >>
  OBVIOUS
<1>4. u \in Seq(S) /\ Len(u) = 3
  BY <1>1, <1>2
<1>5. u[1] = a /\ u[2] = b /\ u[3] = c
  BY <1>2
<1>6. v \in Seq(S) /\ Len(v) = 3
  BY <1>1, <1>3
<1>7. v[1] = a /\ v[2] = b /\ v[3] = c
  BY <1>3
<1>8. u = v
  BY <1>4, <1>5, <1>6, <1>7, SeqEqual
<1> QED
  BY <1>2, <1>3, <1>8

LEMMA Concat3_3 ==
  ASSUME NEW a, NEW b, NEW c, NEW d, NEW e, NEW f
  PROVE  << a, b, c >> \o << d, e, f >>
           = << a, b, c, d, e, f >>
<1>1. PICK S : S = {a, b, c, d, e, f}
  OBVIOUS
<1>2. PICK u : u = << a, b, c >> \o << d, e, f >>
  OBVIOUS
<1>3. PICK v : v = << a, b, c, d, e, f >>
  OBVIOUS
<1>4. u \in Seq(S) /\ Len(u) = 6
  BY <1>1, <1>2
<1>5. /\ u[1] = a /\ u[2] = b /\ u[3] = c /\ u[4] = d /\ u[5] = e
      /\ u[6] = f
  BY <1>2
<1>6. v \in Seq(S) /\ Len(v) = 6
  BY <1>1, <1>3
<1>7. /\ v[1] = a /\ v[2] = b /\ v[3] = c /\ v[4] = d /\ v[5] = e
      /\ v[6] = f
  BY <1>3
<1>8. u = v
  BY <1>4, <1>5, <1>6, <1>7, SeqEqual
<1> QED
  BY <1>2, <1>3, <1>8

LEMMA Concat6_3 ==
  ASSUME NEW a, NEW b, NEW c, NEW d, NEW e, NEW f, NEW g, NEW h, NEW i
  PROVE  << a, b, c, d, e, f >> \o << g, h, i >>
           = << a, b, c, d, e, f, g, h, i >>
<1>1. PICK S : S = {a, b, c, d, e, f, g, h, i}
  OBVIOUS
<1>2. PICK u : u = << a, b, c, d, e, f >> \o << g, h, i >>
  OBVIOUS
<1>3. PICK v : v = << a, b, c, d, e, f, g, h, i >>
  OBVIOUS
<1>4. u \in Seq(S) /\ Len(u) = 9
  BY <1>1, <1>2
<1>5. /\ u[1] = a /\ u[2] = b /\ u[3] = c /\ u[4] = d /\ u[5] = e
      /\ u[6] = f /\ u[7] = g /\ u[8] = h /\ u[9] = i
  BY <1>2
<1>6. v \in Seq(S) /\ Len(v) = 9
  BY <1>1, <1>3
<1>7. /\ v[1] = a /\ v[2] = b /\ v[3] = c /\ v[4] = d /\ v[5] = e
      /\ v[6] = f /\ v[7] = g /\ v[8] = h /\ v[9] = i
  BY <1>3
<1>8. u = v
  BY <1>4, <1>5, <1>6, <1>7, SeqEqual
<1> QED
  BY <1>2, <1>3, <1>8

LEMMA Concat3_1 ==
  ASSUME NEW a, NEW b, NEW c, NEW d
  PROVE  << a, b, c >> \o << d >>
           = << a, b, c, d >>
<1>1. PICK S : S = {a, b, c, d}
  OBVIOUS
<1>2. PICK u : u = << a, b, c >> \o << d >>
  OBVIOUS
<1>3. PICK v : v = << a, b, c, d >>
  OBVIOUS
<1>4. u \in Seq(S) /\ Len(u) = 4
  BY <1>1, <1>2
<1>5. u[1] = a /\ u[2] = b /\ u[3] = c /\ u[4] = d
  BY <1>2
<1>6. v \in Seq(S) /\ Len(v) = 4
  BY <1>1, <1>3
<1>7. v[1] = a /\ v[2] = b /\ v[3] = c /\ v[4] = d
  BY <1>3
<1>8. u = v
  BY <1>4, <1>5, <1>6, <1>7, SeqEqual
<1> QED
  BY <1>2, <1>3, <1>8

LEMMA Concat4_1 ==
  ASSUME NEW a, NEW b, NEW c, NEW d, NEW e
  PROVE  << a, b, c, d >> \o << e >>
           = << a, b, c, d, e >>
<1>1. PICK S : S = {a, b, c, d, e}
  OBVIOUS
<1>2. PICK u : u = << a, b, c, d >> \o << e >>
  OBVIOUS
<1>3. PICK v : v = << a, b, c, d, e >>
  OBVIOUS
<1>4. u \in Seq(S) /\ Len(u) = 5
  BY <1>1, <1>2
<1>5. u[1] = a /\ u[2] = b /\ u[3] = c /\ u[4] = d /\ u[5] = e
  BY <1>2
<1>6. v \in Seq(S) /\ Len(v) = 5
  BY <1>1, <1>3
<1>7. v[1] = a /\ v[2] = b /\ v[3] = c /\ v[4] = d /\ v[5] = e
  BY <1>3
<1>8. u = v
  BY <1>4, <1>5, <1>6, <1>7, SeqEqual
<1> QED
  BY <1>2, <1>3, <1>8

LEMMA Concat5_3 ==
  ASSUME NEW a, NEW b, NEW c, NEW d, NEW e, NEW f, NEW g, NEW h
  PROVE  << a, b, c, d, e >> \o << f, g, h >>
           = << a, b, c, d, e, f, g, h >>
<1>1. PICK S : S = {a, b, c, d, e, f, g, h}
  OBVIOUS
<1>2. PICK u : u = << a, b, c, d, e >> \o << f, g, h >>
  OBVIOUS
<1>3. PICK v : v = << a, b, c, d, e, f, g, h >>
  OBVIOUS
<1>4. u \in Seq(S) /\ Len(u) = 8
  BY <1>1, <1>2
<1>5. /\ u[1] = a /\ u[2] = b /\ u[3] = c /\ u[4] = d /\ u[5] = e
      /\ u[6] = f /\ u[7] = g /\ u[8] = h
  BY <1>2
<1>6. v \in Seq(S) /\ Len(v) = 8
  BY <1>1, <1>3
<1>7. /\ v[1] = a /\ v[2] = b /\ v[3] = c /\ v[4] = d /\ v[5] = e
      /\ v[6] = f /\ v[7] = g /\ v[8] = h
  BY <1>3
<1>8. u = v
  BY <1>4, <1>5, <1>6, <1>7, SeqEqual
<1> QED
  BY <1>2, <1>3, <1>8

LEMMA Concat8_3 ==
  ASSUME NEW a, NEW b, NEW c, NEW d, NEW e, NEW f, NEW g, NEW h, NEW i,
         NEW j, NEW k
  PROVE  << a, b, c, d, e, f, g, h >> \o << i, j, k >>
           = << a, b, c, d, e, f, g, h, i, j, k >>
<1>1. PICK S : S = {a, b, c, d, e, f, g, h, i, j, k}
  OBVIOUS
<1>2. PICK u : u = << a, b, c, d, e, f, g, h >> \o << i, j, k >>
  OBVIOUS
<1>3. PICK v : v = << a, b, c, d, e, f, g, h, i, j, k >>
  OBVIOUS
<1>4. u \in Seq(S) /\ Len(u) = 11
  BY <1>1, <1>2
<1>5. /\ u[1] = a /\ u[2] = b /\ u[3] = c /\ u[4] = d /\ u[5] = e
      /\ u[6] = f /\ u[7] = g /\ u[8] = h /\ u[9] = i /\ u[10] = j
      /\ u[11] = k
  BY <1>2
<1>6. v \in Seq(S) /\ Len(v) = 11
  BY <1>1, <1>3
<1>7. /\ v[1] = a /\ v[2] = b /\ v[3] = c /\ v[4] = d /\ v[5] = e
      /\ v[6] = f /\ v[7] = g /\ v[8] = h /\ v[9] = i /\ v[10] = j
      /\ v[11] = k
  BY <1>3
<1>8. u = v
  BY <1>4, <1>5, <1>6, <1>7, SeqEqual
<1> QED
  BY <1>2, <1>3, <1>8

(* t is the instruction of pa_taint_not.                                   *)
Untaints(t) == t = SetVar("tainted", FALSE)

NextstateTuple(op, t) ==
  << SetVar("curcop", op), t, RestoreSp,
     BranchIfNot("tmps_gt", "tmps_not_gt"),
     CallNative("free_tmps"), Label("tmps_not_gt"),
     BranchIfNot("sig_pending", "not_pending"),
     CallNative("signalhook"), Label("not_pending") >>

StayTuple(t) ==
  << BranchIfNot("sig_pending", "not_pending"), CallNative("signalhook"),
     Label("not_pending"), t, RestoreSp,
     BranchIfNot("tmps_gt", "tmps_not_gt"),
     CallNative("free_tmps"), Label("tmps_not_gt") >>

LeaveTuple(t) ==
  << BranchIfNot("sig_pending", "not_pending"), CallNative("signalhook"),
     Label("not_pending"), t, RestoreSp,
     BranchIfNot("tmps_gt", "tmps_not_gt"),
     CallNative("free_tmps"), Label("tmps_not_gt"),
     BranchIfNot("save_gt", "save_not_gt"),
     CallNative("leave_scope"), Label("save_not_gt") >>

LEMMA NextstateCode ==
  ASSUME NEW op, NEW t, Untaints(t)
  PROVE  pa_pp_nextstate(op) = NextstateTuple(op, t)
<1>1. PICK a : a = SetVar("curcop", op)
  OBVIOUS
<1>2. PICK b : b = t
  OBVIOUS
<1>3. PICK c : c = RestoreSp
  OBVIOUS
<1>4. PICK d : d = BranchIfNot("tmps_gt", "tmps_not_gt")
  OBVIOUS
<1>5. PICK e : e = CallNative("free_tmps")
  OBVIOUS
<1>6. PICK f : f = Label("tmps_not_gt")
  OBVIOUS
<1>7. PICK g : g = BranchIfNot("sig_pending", "not_pending")
  OBVIOUS
<1>8. PICK h : h = CallNative("signalhook")
  OBVIOUS
<1>9. PICK i : i = Label("not_pending")
  OBVIOUS
<1>10. pa_pp_nextstate(op) =
         << a >> \o << b >> \o << c >> \o << d, e, f >> \o << g, h, i >>
  BY <1>1, <1>2, <1>3, <1>4, <1>5, <1>6, <1>7, <1>8, <1>9
     DEF Untaints, pa_pp_nextstate, pa_taint_not, restore_stack_sp, pa_freetmps, pa_async_check
<1>11. << a >> \o << b >> = << a, b >>
  BY Concat1_1
<1>12. << a, b >> \o << c >> = << a, b, c >>
  BY Concat2_1
<1>13. << a, b, c >> \o << d, e, f >> = << a, b, c, d, e, f >>
  BY Concat3_3
<1>14. << a, b, c, d, e, f >> \o << g, h, i >> = << a, b, c, d, e, f, g, h, i >>
  BY Concat6_3
<1> QED
  BY <1>1, <1>2, <1>3, <1>4, <1>5, <1>6, <1>7, <1>8, <1>9, <1>10, <1>11, <1>12,
     <1>13, <1>14 DEF NextstateTuple

LEMMA UnstackCode ==
  ASSUME NEW t, Untaints(t), NEW leave \in BOOLEAN
  PROVE  pa_pp_unstack(leave) = IF leave THEN LeaveTuple(t) ELSE StayTuple(t)
<1>1. PICK a : a = BranchIfNot("sig_pending", "not_pending")
  OBVIOUS
<1>2. PICK b : b = CallNative("signalhook")
  OBVIOUS
<1>3. PICK c : c = Label("not_pending")
  OBVIOUS
<1>4. PICK d : d = t
  OBVIOUS
<1>5. PICK e : e = RestoreSp
  OBVIOUS
<1>6. PICK f : f = BranchIfNot("tmps_gt", "tmps_not_gt")
  OBVIOUS
<1>7. PICK g : g = CallNative("free_tmps")
  OBVIOUS
<1>8. PICK h : h = Label("tmps_not_gt")
  OBVIOUS
<1>9. PICK i : i = BranchIfNot("save_gt", "save_not_gt")
  OBVIOUS
<1>10. PICK j : j = CallNative("leave_scope")
  OBVIOUS
<1>11. PICK k : k = Label("save_not_gt")
  OBVIOUS
<1>12. << a, b, c >> \o << d >> = << a, b, c, d >>
  BY Concat3_1
<1>13. << a, b, c, d >> \o << e >> = << a, b, c, d, e >>
  BY Concat4_1
<1>14. << a, b, c, d, e >> \o << f, g, h >> = << a, b, c, d, e, f, g, h >>
  BY Concat5_3
<1>15. << a, b, c, d, e, f, g, h >> \o << i, j, k >>
         = << a, b, c, d, e, f, g, h, i, j, k >>
  BY Concat8_3
<1>16. << a, b, c, d, e, f, g, h >> \o << >> = << a, b, c, d, e, f, g, h >>
  <2>1. PICK S : S = {a, b, c, d, e, f, g, h}
    OBVIOUS
  <2>2. << a, b, c, d, e, f, g, h >> \in Seq(S)
    BY <2>1
  <2> QED
    BY <2>2, ConcatEmptySeq
<1>17. ASSUME leave
       PROVE  pa_pp_unstack(leave) =
                << a, b, c >> \o << d >> \o << e >> \o << f, g, h >> \o << i, j, k >>
  BY <1>1, <1>2, <1>3, <1>4, <1>5, <1>6, <1>7, <1>8, <1>9, <1>10, <1>11, <1>17
     DEF Untaints, pa_pp_unstack, pa_taint_not, restore_stack_sp, pa_freetmps,
         pa_async_check, pa_leave_scope
<1>18. ASSUME ~leave
       PROVE  pa_pp_unstack(leave) =
                << a, b, c >> \o << d >> \o << e >> \o << f, g, h >> \o << >>
  BY <1>1, <1>2, <1>3, <1>4, <1>5, <1>6, <1>7, <1>8, <1>18
     DEF Untaints, pa_pp_unstack, pa_taint_not, restore_stack_sp, pa_freetmps,
         pa_async_check
<1>19. leave => pa_pp_unstack(leave) = << a, b, c, d, e, f, g, h, i, j, k >>
  BY <1>12, <1>13, <1>14, <1>15, <1>17
<1>20. ~leave => pa_pp_unstack(leave) = << a, b, c, d, e, f, g, h >>
  BY <1>12, <1>13, <1>14, <1>16, <1>18
<1>21. /\ LeaveTuple(t) = << a, b, c, d, e, f, g, h, i, j, k >>
       /\ StayTuple(t) = << a, b, c, d, e, f, g, h >>
  BY <1>1, <1>2, <1>3, <1>4, <1>5, <1>6, <1>7, <1>8, <1>9, <1>10, <1>11
     DEF LeaveTuple, StayTuple
<1> QED
  BY <1>19, <1>20, <1>21

(* A label is where its branch goes if it is there once.                   *)
LEMMA TargetIs ==
  ASSUME NEW s, NEW l, NEW j \in DOMAIN s, s[j] = Label(l),
         \A k \in DOMAIN s : s[k].i = "label" /\ s[k].label = l => k = j
  PROVE  Target(s, l) = j
<1>1. Label(l).i = "label" /\ Label(l).label = l
  BY DEF Label
<1>2. \A k \in DOMAIN s : s[k] = Label(l) => k = j
  BY <1>1
<1> QED
  BY <1>2 DEF Target

(* The elements of the tuples.                                            *)
LEMMA Tuple8 ==
  ASSUME NEW a, NEW b, NEW c, NEW d, NEW e, NEW f,
         NEW g, NEW h,
         NEW s, s = << a, b, c, d, e, f, g, h >>
  PROVE  /\ Len(s) = 8 /\ DOMAIN s = 1..8
         /\ s[1] = a /\ s[2] = b /\ s[3] = c /\ s[4] = d /\ s[5] = e
         /\ s[6] = f /\ s[7] = g /\ s[8] = h
<1>1. PICK S : S = {a, b, c, d, e, f, g, h}
  OBVIOUS
<1>2. s \in Seq(S) /\ Len(s) = 8
  BY <1>1
<1>3. DOMAIN s = 1..8
  BY <1>2
<1>4. /\ s[1] = a /\ s[2] = b /\ s[3] = c /\ s[4] = d /\ s[5] = e
      /\ s[6] = f /\ s[7] = g /\ s[8] = h
  OBVIOUS
<1> QED
  BY <1>2, <1>3, <1>4

LEMMA Tuple9 ==
  ASSUME NEW a, NEW b, NEW c, NEW d, NEW e, NEW f,
         NEW g, NEW h, NEW i,
         NEW s, s = << a, b, c, d, e, f, g, h, i >>
  PROVE  /\ Len(s) = 9 /\ DOMAIN s = 1..9
         /\ s[1] = a /\ s[2] = b /\ s[3] = c /\ s[4] = d /\ s[5] = e
         /\ s[6] = f /\ s[7] = g /\ s[8] = h /\ s[9] = i
<1>1. PICK S : S = {a, b, c, d, e, f, g, h, i}
  OBVIOUS
<1>2. s \in Seq(S) /\ Len(s) = 9
  BY <1>1
<1>3. DOMAIN s = 1..9
  BY <1>2
<1>4. /\ s[1] = a /\ s[2] = b /\ s[3] = c /\ s[4] = d /\ s[5] = e
      /\ s[6] = f /\ s[7] = g /\ s[8] = h /\ s[9] = i
  OBVIOUS
<1> QED
  BY <1>2, <1>3, <1>4

LEMMA Tuple11 ==
  ASSUME NEW a, NEW b, NEW c, NEW d, NEW e, NEW f,
         NEW g, NEW h, NEW i, NEW j, NEW k,
         NEW s, s = << a, b, c, d, e, f, g, h, i, j, k >>
  PROVE  /\ Len(s) = 11 /\ DOMAIN s = 1..11
         /\ s[1] = a /\ s[2] = b /\ s[3] = c /\ s[4] = d /\ s[5] = e
         /\ s[6] = f /\ s[7] = g /\ s[8] = h /\ s[9] = i /\ s[10] = j
         /\ s[11] = k
<1>1. PICK S : S = {a, b, c, d, e, f, g, h, i, j, k}
  OBVIOUS
<1>2. s \in Seq(S) /\ Len(s) = 11
  BY <1>1
<1>3. DOMAIN s = 1..11
  BY <1>2
<1>4. /\ s[1] = a /\ s[2] = b /\ s[3] = c /\ s[4] = d /\ s[5] = e
      /\ s[6] = f /\ s[7] = g /\ s[8] = h /\ s[9] = i /\ s[10] = j
      /\ s[11] = k
  OBVIOUS
<1> QED
  BY <1>2, <1>3, <1>4

LEMMA TaintInsn ==
  ASSUME NEW t, Untaints(t)
  PROVE  t.i = "set" /\ t.var = "tainted" /\ t.val = FALSE
BY DEF Untaints, SetVar

NextstateInsns(s, op) ==
  /\ s[1].i = "set" /\ s[1].var = "curcop" /\ s[1].val = op
  /\ s[2].i = "set" /\ s[2].var = "tainted" /\ s[2].val = FALSE
  /\ s[3].i = "restore_sp"
  /\ s[4].i = "branch_if_not" /\ s[4].cond = "tmps_gt"
  /\ s[4].label = "tmps_not_gt"
  /\ s[5].i = "call" /\ s[5].fn = "free_tmps"
  /\ s[6].i = "label" /\ s[6].label = "tmps_not_gt" /\ s[6] = Label("tmps_not_gt")
  /\ s[7].i = "branch_if_not" /\ s[7].cond = "sig_pending"
  /\ s[7].label = "not_pending"
  /\ s[8].i = "call" /\ s[8].fn = "signalhook"
  /\ s[9].i = "label" /\ s[9].label = "not_pending" /\ s[9] = Label("not_pending")

LEMMA NextstateSteps ==
  ASSUME NEW op, NEW t, Untaints(t), NEW s, s = NextstateTuple(op, t)
  PROVE  /\ Len(s) = 9 /\ NextstateInsns(s, op)
         /\ Target(s, "tmps_not_gt") = 6 /\ Target(s, "not_pending") = 9
<1>1. Len(s) = 9 /\ DOMAIN s = 1..9
  BY Tuple9 DEF NextstateTuple
<1>2. /\ s[1] = SetVar("curcop", op) /\ s[2] = t
      /\ s[3] = RestoreSp
      /\ s[4] = BranchIfNot("tmps_gt", "tmps_not_gt")
      /\ s[5] = CallNative("free_tmps") /\ s[6] = Label("tmps_not_gt")
      /\ s[7] = BranchIfNot("sig_pending", "not_pending")
      /\ s[8] = CallNative("signalhook") /\ s[9] = Label("not_pending")
  BY Tuple9 DEF NextstateTuple
<1>3. NextstateInsns(s, op)
  <2>1. s[1].i = "set" /\ s[1].var = "curcop" /\ s[1].val = op
    BY <1>2 DEF SetVar
  <2>2. s[2].i = "set" /\ s[2].var = "tainted" /\ s[2].val = FALSE
    BY <1>2, TaintInsn
  <2>3. s[3].i = "restore_sp"
    BY <1>2 DEF RestoreSp
  <2>4. /\ s[4].i = "branch_if_not" /\ s[4].cond = "tmps_gt"
       /\ s[4].label = "tmps_not_gt"
    BY <1>2 DEF BranchIfNot
  <2>5. s[5].i = "call" /\ s[5].fn = "free_tmps"
    BY <1>2 DEF CallNative
  <2>6. s[6].i = "label" /\ s[6].label = "tmps_not_gt"
    BY <1>2 DEF Label
  <2>7. /\ s[7].i = "branch_if_not" /\ s[7].cond = "sig_pending"
       /\ s[7].label = "not_pending"
    BY <1>2 DEF BranchIfNot
  <2>8. s[8].i = "call" /\ s[8].fn = "signalhook"
    BY <1>2 DEF CallNative
  <2>9. s[9].i = "label" /\ s[9].label = "not_pending"
    BY <1>2 DEF Label
  <2> QED
    BY <1>2, <2>1, <2>2, <2>3, <2>4, <2>5, <2>6, <2>7, <2>8, <2>9
       DEF NextstateInsns
<1>4. \A k \in DOMAIN s : s[k].i = "label" => k \in {6, 9}
  BY <1>1, <1>3 DEF NextstateInsns
<1>5. Target(s, "tmps_not_gt") = 6
  <2>1. 6 \in DOMAIN s
    BY <1>1
  <2>2. \A k \in DOMAIN s : s[k].i = "label" /\ s[k].label = "tmps_not_gt" => k = 6
    BY <1>3, <1>4 DEF NextstateInsns
  <2> QED
    BY <1>2, <2>1, <2>2, TargetIs
<1>6. Target(s, "not_pending") = 9
  <2>1. 9 \in DOMAIN s
    BY <1>1
  <2>2. \A k \in DOMAIN s : s[k].i = "label" /\ s[k].label = "not_pending" => k = 9
    BY <1>3, <1>4 DEF NextstateInsns
  <2> QED
    BY <1>2, <2>1, <2>2, TargetIs
<1> QED
  BY <1>1, <1>3, <1>5, <1>6

UnstackInsns(s) ==
  /\ s[1].i = "branch_if_not" /\ s[1].cond = "sig_pending"
  /\ s[1].label = "not_pending"
  /\ s[2].i = "call" /\ s[2].fn = "signalhook"
  /\ s[3].i = "label" /\ s[3].label = "not_pending" /\ s[3] = Label("not_pending")
  /\ s[4].i = "set" /\ s[4].var = "tainted" /\ s[4].val = FALSE
  /\ s[5].i = "restore_sp"
  /\ s[6].i = "branch_if_not" /\ s[6].cond = "tmps_gt"
  /\ s[6].label = "tmps_not_gt"
  /\ s[7].i = "call" /\ s[7].fn = "free_tmps"
  /\ s[8].i = "label" /\ s[8].label = "tmps_not_gt" /\ s[8] = Label("tmps_not_gt")

LeaveInsns(s) ==
  /\ s[9].i = "branch_if_not" /\ s[9].cond = "save_gt"
  /\ s[9].label = "save_not_gt"
  /\ s[10].i = "call" /\ s[10].fn = "leave_scope"
  /\ s[11].i = "label" /\ s[11].label = "save_not_gt" /\ s[11] = Label("save_not_gt")

LEMMA LeaveSteps ==
  ASSUME NEW t, Untaints(t), NEW s, s = LeaveTuple(t)
  PROVE  /\ Len(s) = 11 /\ UnstackInsns(s) /\ LeaveInsns(s)
         /\ Target(s, "not_pending") = 3 /\ Target(s, "tmps_not_gt") = 8
         /\ Target(s, "save_not_gt") = 11
<1>1. Len(s) = 11 /\ DOMAIN s = 1..11
  BY Tuple11 DEF LeaveTuple
<1>2. /\ s[1] = BranchIfNot("sig_pending", "not_pending")
      /\ s[2] = CallNative("signalhook") /\ s[3] = Label("not_pending")
      /\ s[4] = t /\ s[5] = RestoreSp
      /\ s[6] = BranchIfNot("tmps_gt", "tmps_not_gt")
      /\ s[7] = CallNative("free_tmps") /\ s[8] = Label("tmps_not_gt")
      /\ s[9] = BranchIfNot("save_gt", "save_not_gt")
      /\ s[10] = CallNative("leave_scope") /\ s[11] = Label("save_not_gt")
  BY Tuple11 DEF LeaveTuple
<1>3. UnstackInsns(s) /\ LeaveInsns(s)
  <2>1. /\ s[1].i = "branch_if_not" /\ s[1].cond = "sig_pending"
       /\ s[1].label = "not_pending"
    BY <1>2 DEF BranchIfNot
  <2>2. s[2].i = "call" /\ s[2].fn = "signalhook"
    BY <1>2 DEF CallNative
  <2>3. s[3].i = "label" /\ s[3].label = "not_pending"
    BY <1>2 DEF Label
  <2>4. s[4].i = "set" /\ s[4].var = "tainted" /\ s[4].val = FALSE
    BY <1>2, TaintInsn
  <2>5. s[5].i = "restore_sp"
    BY <1>2 DEF RestoreSp
  <2>6. /\ s[6].i = "branch_if_not" /\ s[6].cond = "tmps_gt"
       /\ s[6].label = "tmps_not_gt"
    BY <1>2 DEF BranchIfNot
  <2>7. s[7].i = "call" /\ s[7].fn = "free_tmps"
    BY <1>2 DEF CallNative
  <2>8. s[8].i = "label" /\ s[8].label = "tmps_not_gt"
    BY <1>2 DEF Label
  <2>9. /\ s[9].i = "branch_if_not" /\ s[9].cond = "save_gt"
       /\ s[9].label = "save_not_gt"
    BY <1>2 DEF BranchIfNot
  <2>10. s[10].i = "call" /\ s[10].fn = "leave_scope"
    BY <1>2 DEF CallNative
  <2>11. s[11].i = "label" /\ s[11].label = "save_not_gt"
    BY <1>2 DEF Label
  <2> QED
    BY <1>2, <2>1, <2>2, <2>3, <2>4, <2>5, <2>6, <2>7, <2>8, <2>9, <2>10, <2>11
       DEF UnstackInsns, LeaveInsns
<1>4. \A k \in DOMAIN s : s[k].i = "label" => k \in {3, 8, 11}
  BY <1>1, <1>3 DEF UnstackInsns, LeaveInsns
<1>5. Target(s, "not_pending") = 3
  <2>1. 3 \in DOMAIN s
    BY <1>1
  <2>2. \A k \in DOMAIN s : s[k].i = "label" /\ s[k].label = "not_pending" => k = 3
    BY <1>3, <1>4 DEF UnstackInsns, LeaveInsns
  <2> QED
    BY <1>2, <2>1, <2>2, TargetIs
<1>6. Target(s, "tmps_not_gt") = 8
  <2>1. 8 \in DOMAIN s
    BY <1>1
  <2>2. \A k \in DOMAIN s : s[k].i = "label" /\ s[k].label = "tmps_not_gt" => k = 8
    BY <1>3, <1>4 DEF UnstackInsns, LeaveInsns
  <2> QED
    BY <1>2, <2>1, <2>2, TargetIs
<1>7. Target(s, "save_not_gt") = 11
  <2>1. 11 \in DOMAIN s
    BY <1>1
  <2>2. \A k \in DOMAIN s : s[k].i = "label" /\ s[k].label = "save_not_gt" => k = 11
    BY <1>3, <1>4 DEF UnstackInsns, LeaveInsns
  <2> QED
    BY <1>2, <2>1, <2>2, TargetIs
<1> QED
  BY <1>1, <1>3, <1>5, <1>6, <1>7

LEMMA StaySteps ==
  ASSUME NEW t, Untaints(t), NEW s, s = StayTuple(t)
  PROVE  /\ Len(s) = 8 /\ UnstackInsns(s)
         /\ Target(s, "not_pending") = 3 /\ Target(s, "tmps_not_gt") = 8
<1>1. Len(s) = 8 /\ DOMAIN s = 1..8
  BY Tuple8 DEF StayTuple
<1>2. /\ s[1] = BranchIfNot("sig_pending", "not_pending")
      /\ s[2] = CallNative("signalhook") /\ s[3] = Label("not_pending")
      /\ s[4] = t /\ s[5] = RestoreSp
      /\ s[6] = BranchIfNot("tmps_gt", "tmps_not_gt")
      /\ s[7] = CallNative("free_tmps") /\ s[8] = Label("tmps_not_gt")
  BY Tuple8 DEF StayTuple
<1>3. UnstackInsns(s)
  <2>1. /\ s[1].i = "branch_if_not" /\ s[1].cond = "sig_pending"
       /\ s[1].label = "not_pending"
    BY <1>2 DEF BranchIfNot
  <2>2. s[2].i = "call" /\ s[2].fn = "signalhook"
    BY <1>2 DEF CallNative
  <2>3. s[3].i = "label" /\ s[3].label = "not_pending"
    BY <1>2 DEF Label
  <2>4. s[4].i = "set" /\ s[4].var = "tainted" /\ s[4].val = FALSE
    BY <1>2, TaintInsn
  <2>5. s[5].i = "restore_sp"
    BY <1>2 DEF RestoreSp
  <2>6. /\ s[6].i = "branch_if_not" /\ s[6].cond = "tmps_gt"
       /\ s[6].label = "tmps_not_gt"
    BY <1>2 DEF BranchIfNot
  <2>7. s[7].i = "call" /\ s[7].fn = "free_tmps"
    BY <1>2 DEF CallNative
  <2>8. s[8].i = "label" /\ s[8].label = "tmps_not_gt"
    BY <1>2 DEF Label
  <2> QED
    BY <1>2, <2>1, <2>2, <2>3, <2>4, <2>5, <2>6, <2>7, <2>8
       DEF UnstackInsns
<1>4. \A k \in DOMAIN s : s[k].i = "label" => k \in {3, 8}
  BY <1>1, <1>3 DEF UnstackInsns
<1>5. Target(s, "not_pending") = 3
  <2>1. 3 \in DOMAIN s
    BY <1>1
  <2>2. \A k \in DOMAIN s : s[k].i = "label" /\ s[k].label = "not_pending" => k = 3
    BY <1>3, <1>4 DEF UnstackInsns
  <2> QED
    BY <1>2, <2>1, <2>2, TargetIs
<1>6. Target(s, "tmps_not_gt") = 8
  <2>1. 8 \in DOMAIN s
    BY <1>1
  <2>2. \A k \in DOMAIN s : s[k].i = "label" /\ s[k].label = "tmps_not_gt" => k = 8
    BY <1>3, <1>4 DEF UnstackInsns
  <2> QED
    BY <1>2, <2>1, <2>2, TargetIs
<1> QED
  BY <1>1, <1>3, <1>5, <1>6

LEMMA UnstackSteps ==
  ASSUME NEW leave \in BOOLEAN, NEW s, s = pa_pp_unstack(leave)
  PROVE  /\ UnstackInsns(s)
         /\ Target(s, "not_pending") = 3 /\ Target(s, "tmps_not_gt") = 8
         /\ \/ Len(s) = 8
            \/ Len(s) = 11 /\ LeaveInsns(s) /\ Target(s, "save_not_gt") = 11
<1>1. PICK t : Untaints(t)
  BY DEF Untaints
<1>2. s = LeaveTuple(t) \/ s = StayTuple(t)
  BY <1>1, UnstackCode
<1> QED
  BY <1>1, <1>2, LeaveSteps, StaySteps
-----------------------------------------------------------------------------
(* What every instruction of the code of a call is.                        *)
InsnOK(c, s, j) ==
  /\ s[j].i = "set" =>
       \/ s[j].var = "curcop" /\ s[j].val \in Op
       \/ s[j].var = "tainted" /\ s[j].val = FALSE
       \/ s[j].var = "op"
  /\ s[j].i = "branch_if_not" => Target(s, s[j].label) \in Nat /\ Target(s, s[j].label) > j
  /\ s[j].i = "label" /\ s[j].label = "save_not_gt" => c.f = "pa_pp_unstack" /\ j = 11
  /\ s[j].i = "call" =>
       \/ s[j].fn \in {"signalhook", "free_tmps", "pp", "closure"}
       \/ s[j].fn = "leave_scope" /\ c.f = "pa_pp_unstack"
       \/ c.f = "native" /\ s[j].fn = c.fn /\ c.fn \in NativeFn /\ Len(s) = 1

CodeShape(c, s) == Len(s) \in Nat /\ Len(s) >= 1 /\ \A j \in 1..Len(s) : InsnOK(c, s, j)

LEMMA NextstateShape ==
  ASSUME NEW c, c.f = "pa_pp_nextstate", c.op \in Op, NEW s, s = pa_pp_nextstate(c.op)
  PROVE  CodeShape(c, s)
<1>1. PICK t : Untaints(t)
  BY DEF Untaints
<1>2. PICK op : op = c.op
  OBVIOUS
<1>3. s = NextstateTuple(op, t)
  BY <1>1, <1>2, NextstateCode
<1>4. /\ Len(s) = 9 /\ NextstateInsns(s, op)
      /\ Target(s, "tmps_not_gt") = 6 /\ Target(s, "not_pending") = 9
  BY <1>1, <1>3, NextstateSteps
<1>5. ASSUME NEW j \in 1..9
      PROVE  InsnOK(c, s, j)
  <2>1. j \in {1, 2, 3, 4, 5, 6, 7, 8, 9}
    OBVIOUS
  <2> QED
    BY <1>2, <1>4, <2>1 DEF NextstateInsns, InsnOK
<1> QED
  BY <1>4, <1>5 DEF CodeShape

LEMMA UnstackShape ==
  ASSUME NEW c, c.f = "pa_pp_unstack", c.leave \in BOOLEAN,
         NEW s, s = pa_pp_unstack(c.leave)
  PROVE  CodeShape(c, s)
<1>1. /\ UnstackInsns(s)
      /\ Target(s, "not_pending") = 3 /\ Target(s, "tmps_not_gt") = 8
      /\ \/ Len(s) = 8
         \/ Len(s) = 11 /\ LeaveInsns(s) /\ Target(s, "save_not_gt") = 11
  BY UnstackSteps
<1>2. ASSUME NEW j \in 1..8
      PROVE  InsnOK(c, s, j)
  <2>1. j \in {1, 2, 3, 4, 5, 6, 7, 8}
    OBVIOUS
  <2> QED
    BY <1>1, <2>1 DEF UnstackInsns, InsnOK
<1>3. CASE Len(s) = 8
  BY <1>2, <1>3 DEF CodeShape
<1>4. CASE Len(s) = 11 /\ LeaveInsns(s) /\ Target(s, "save_not_gt") = 11
  <2>1. ASSUME NEW j \in {9, 10, 11}
        PROVE  InsnOK(c, s, j)
    BY <1>4 DEF LeaveInsns, InsnOK
  <2>2. \A j \in 1..11 : j \in 1..8 \/ j \in {9, 10, 11}
    OBVIOUS
  <2> QED
    BY <1>2, <1>4, <2>1, <2>2 DEF CodeShape
<1> QED
  BY <1>1, <1>3, <1>4

(* A call whose code is one instruction, or one of the short emitters.     *)
LEMMA OneShape ==
  ASSUME NEW c, NEW x, NEW s, s = << x >>,
         \/ x.i = "set" /\ x.var = "tainted" /\ x.val = FALSE
         \/ x.i = "runloop"
         \/ x.i = "call" /\ c.f = "native" /\ x.fn = c.fn /\ c.fn \in NativeFn
  PROVE  CodeShape(c, s)
<1>1. Len(s) = 1 /\ s[1] = x
  OBVIOUS
<1>2. InsnOK(c, s, 1)
  BY <1>1 DEF InsnOK
<1> QED
  BY <1>1, <1>2 DEF CodeShape

LEMMA SkipShape ==
  ASSUME NEW c, NEW cond, NEW fn \in {"signalhook", "free_tmps"}, NEW l, l # "save_not_gt",
         NEW s, s = << BranchIfNot(cond, l), CallNative(fn), Label(l) >>
  PROVE  CodeShape(c, s)
<1>1. PICK x : x = BranchIfNot(cond, l)
  OBVIOUS
<1>2. PICK y : y = CallNative(fn)
  OBVIOUS
<1>3. PICK z : z = Label(l)
  OBVIOUS
<1>4. /\ x.i = "branch_if_not" /\ x.label = l
      /\ y.i = "call" /\ y.fn = fn /\ z.i = "label" /\ z.label = l
  BY <1>1, <1>2, <1>3 DEF BranchIfNot, CallNative, Label
<1>5. s = << x, y, z >>
  BY <1>1, <1>2, <1>3
<1>6. Len(s) = 3 /\ DOMAIN s = 1..3 /\ s[1] = x /\ s[2] = y /\ s[3] = z
  <2>1. PICK S : S = {x, y, z}
    OBVIOUS
  <2>2. s \in Seq(S) /\ Len(s) = 3
    BY <1>5, <2>1
  <2>3. s[1] = x /\ s[2] = y /\ s[3] = z
    BY <1>5
  <2> QED
    BY <2>2, <2>3
<1>7. Target(s, l) = 3
  <2>1. PICK j \in DOMAIN s : j = 3
    BY <1>6
  <2>2. \A k \in DOMAIN s : s[k].i = "label" /\ s[k].label = l => k = j
    BY <1>4, <1>6, <2>1
  <2>3. s[j] = Label(l)
    BY <1>3, <1>6, <2>1
  <2> QED
    BY <2>1, <2>2, <2>3, TargetIs
<1>8. ASSUME NEW j \in 1..3
      PROVE  InsnOK(c, s, j)
  <2>1. j \in {1, 2, 3}
    OBVIOUS
  <2> QED
    BY <1>4, <1>6, <1>7, <2>1 DEF InsnOK
<1> QED
  BY <1>6, <1>8 DEF CodeShape

LEMMA OpShape ==
  ASSUME NEW c, NEW op, NEW fn \in {"pp", "closure"}, NEW s, s = pa_pp_op(op, fn)
  PROVE  CodeShape(c, s)
<1>1. PICK x : x = SaveOp
  OBVIOUS
<1>2. PICK y : y = SetVar("op", op)
  OBVIOUS
<1>3. PICK z : z = CallNative(fn)
  OBVIOUS
<1>4. PICK w : w = RestoreOp
  OBVIOUS
<1>5. /\ x.i = "save_op" /\ y.i = "set" /\ y.var = "op"
      /\ z.i = "call" /\ z.fn = fn /\ w.i = "restore_op"
  BY <1>1, <1>2, <1>3, <1>4 DEF SaveOp, SetVar, CallNative, RestoreOp
<1>6. s = << x, y, z, w >>
  BY <1>1, <1>2, <1>3, <1>4 DEF pa_pp_op
<1>7. Len(s) = 4 /\ s[1] = x /\ s[2] = y /\ s[3] = z /\ s[4] = w
  BY <1>6
<1>8. ASSUME NEW j \in 1..4
      PROVE  InsnOK(c, s, j)
  <2>1. j \in {1, 2, 3, 4}
    OBVIOUS
  <2> QED
    BY <1>5, <1>7, <2>1 DEF InsnOK
<1> QED
  BY <1>7, <1>8 DEF CodeShape

LEMMA CallCases ==
  ASSUME NEW c \in Callable
  PROVE  /\ c \in Call /\ c # Return
         /\ \/ c.f = "pa_pp_op" /\ c.ppaddr \in {"pp", "closure"}
            \/ c.f = "pa_call_runloop"
            \/ c.f = "pa_pp_nextstate" /\ c.op \in Op
            \/ c.f = "pa_pp_unstack" /\ c.leave \in BOOLEAN
            \/ c.f = "native" /\ c.fn \in NativeFn
            \/ c.f = "pa_async_check"
            \/ c.f = "pa_taint_not"
            \/ c.f = "pa_freetmps"
<1>1. c \in Call /\ c # Return
  BY StmtAssumption
<1>2. CASE c \in [f : {"pa_pp_op"}, op : Op, ppaddr : {"pp", "closure"}]
  BY <1>1, <1>2
<1>3. CASE c \in [f : {"pa_call_runloop", "pa_pp_nextstate"}, op : Op]
  BY <1>1, <1>3
<1>4. CASE c \in [f : {"pa_pp_unstack"}, leave : BOOLEAN]
  BY <1>1, <1>4
<1>5. CASE c \in [f : {"native"}, fn : NativeFn]
  BY <1>1, <1>5
<1>6. CASE c \in [f : {"pa_async_check", "pa_taint_not", "pa_freetmps", "return"}]
  BY <1>1, <1>6 DEF Return
<1> QED
  BY <1>1, <1>2, <1>3, <1>4, <1>5, <1>6 DEF Call

LEMMA CodeIs ==
  ASSUME NEW c \in Callable, NEW s, s = Code(c)
  PROVE  CodeShape(c, s)
<1>1. CASE c.f = "pa_pp_op" /\ c.ppaddr \in {"pp", "closure"}
  <2>1. s = pa_pp_op(c.op, c.ppaddr)
    BY <1>1 DEF Code
  <2> QED
    BY <1>1, <2>1, OpShape
<1>2. CASE c.f = "pa_call_runloop"
  <2>1. PICK x : x = CallRunloop(c.op)
    OBVIOUS
  <2>2. s = << x >> /\ x.i = "runloop"
    BY <1>2, <2>1 DEF Code, pa_call_runloop, CallRunloop
  <2> QED
    BY <2>2, OneShape
<1>3. CASE c.f = "pa_pp_nextstate" /\ c.op \in Op
  <2>1. s = pa_pp_nextstate(c.op)
    BY <1>3 DEF Code
  <2> QED
    BY <1>3, <2>1, NextstateShape
<1>4. CASE c.f = "pa_pp_unstack" /\ c.leave \in BOOLEAN
  <2>1. s = pa_pp_unstack(c.leave)
    BY <1>4 DEF Code
  <2> QED
    BY <1>4, <2>1, UnstackShape
<1>5. CASE c.f = "native" /\ c.fn \in NativeFn
  <2>1. PICK x : x = CallNative(c.fn)
    OBVIOUS
  <2>2. s = << x >>
    BY <1>5, <2>1 DEF Code, native_wrapper
  <2>3. x.i = "call" /\ x.fn = c.fn
    BY <2>1 DEF CallNative
  <2> QED
    BY <1>5, <2>2, <2>3, OneShape
<1>6. CASE c.f = "pa_async_check"
  <2>1. s = << BranchIfNot("sig_pending", "not_pending"), CallNative("signalhook"),
               Label("not_pending") >>
    BY <1>6 DEF Code, pa_async_check
  <2>2. PICK cond : cond = "sig_pending"
    OBVIOUS
  <2>3. PICK fn : fn = "signalhook"
    OBVIOUS
  <2>4. PICK l : l = "not_pending"
    OBVIOUS
  <2>5. s = << BranchIfNot(cond, l), CallNative(fn), Label(l) >>
    BY <2>1, <2>2, <2>3, <2>4
  <2> QED
    BY <2>3, <2>4, <2>5, SkipShape
<1>7. CASE c.f = "pa_taint_not"
  <2>1. PICK x : Untaints(x)
    BY DEF Untaints
  <2>2. s = << x >>
    BY <1>7, <2>1 DEF Code, pa_taint_not, Untaints
  <2> QED
    BY <2>1, <2>2, TaintInsn, OneShape
<1>8. CASE c.f = "pa_freetmps"
  <2>1. s = << BranchIfNot("tmps_gt", "tmps_not_gt"), CallNative("free_tmps"),
               Label("tmps_not_gt") >>
    BY <1>8 DEF Code, pa_freetmps
  <2>2. PICK cond : cond = "tmps_gt"
    OBVIOUS
  <2>3. PICK fn : fn = "free_tmps"
    OBVIOUS
  <2>4. PICK l : l = "tmps_not_gt"
    OBVIOUS
  <2>5. s = << BranchIfNot(cond, l), CallNative(fn), Label(l) >>
    BY <2>1, <2>2, <2>3, <2>4
  <2> QED
    BY <2>3, <2>4, <2>5, SkipShape
<1> QED
  BY <1>1, <1>2, <1>3, <1>4, <1>5, <1>6, <1>7, <1>8, CallCases
-----------------------------------------------------------------------------
(* What a change within the last frame leaves as it was.                   *)
LEMMA WithinStays ==
  ASSUME NEW p, StacksOK(p), NEW q, Within(p, q), NEW os, OuterOK(p, os)
  PROVE  StacksOK(q) /\ OuterOK(q, os) /\ q.cxstack = p.cxstack
<1>1. PICK d : d = Len(p.cxstack)
  OBVIOUS
<1>2. StacksOK(q) /\ Keeps(p, q, d) /\ q.cxstack = p.cxstack /\ d \in Nat
  <2>1. q.cxstack = p.cxstack
    BY DEF Within
  <2>2. d \in Nat
    BY <1>1, PartTypes DEF StacksOK
  <2> QED
    BY <1>1, <2>1, <2>2, WithinKeeps
<1>3. \A k \in 1..Len(p.cxstack) : p.cxstack[k].type = "eval" => k <= d
  BY <1>1, <1>2
<1>4. \A k \in d + 1..Len(q.cxstack) : q.cxstack[k].type # "eval"
  BY <1>1, <1>2
<1> QED
  BY <1>2, <1>3, <1>4, KeepsOuter

LEMMA WithinEntry ==
  ASSUME NEW p, StacksOK(p), NEW q, Within(p, q), NEW e, EntryOK(p, e)
  PROVE  EntryOK(q, e)
<1>1. PICK d : d = Len(p.cxstack)
  OBVIOUS
<1>2. StacksOK(q) /\ Keeps(p, q, d) /\ q.cxstack = p.cxstack /\ d \in Nat
  <2>1. q.cxstack = p.cxstack
    BY DEF Within
  <2>2. d \in Nat
    BY <1>1, PartTypes DEF StacksOK
  <2> QED
    BY <1>1, <2>1, <2>2, WithinKeeps
<1>3. Len(e[1]) <= d
  BY <1>1, <1>2 DEF EntryOK
<1>4. \A k \in d + 1..Len(q.cxstack) : q.cxstack[k].type = "loop"
  BY <1>1, <1>2
<1> QED
  BY <1>2, <1>3, <1>4, KeepsEntry

LEMMA WithinMortal ==
  ASSUME NEW p, StacksOK(p), NEW q, Within(p, q), NEW x, x.ix \in Nat, MortalOK(p, x),
         x.depth < Len(p.cxstack) \/ x.ix <= q.tmps_ix
  PROVE  MortalOK(q, x)
<1>1. PICK d : d = Len(p.cxstack)
  OBVIOUS
<1>2. StacksOK(q) /\ Keeps(p, q, d) /\ q.cxstack = p.cxstack /\ d \in Nat
  <2>1. q.cxstack = p.cxstack
    BY DEF Within
  <2>2. d \in Nat
    BY <1>1, PartTypes DEF StacksOK
  <2> QED
    BY <1>1, <2>1, <2>2, WithinKeeps
<1>3. CASE x.depth < d
  BY <1>2, <1>3, KeepsMortal
<1>4. CASE ~(x.depth < d)
  BY <1>1, <1>2, <1>4 DEF MortalOK
<1> QED
  BY <1>3, <1>4

(* A loop is entered.                                                      *)
LEMMA OpensStays ==
  ASSUME NEW p, StacksOK(p), NEW c \in Context, c.type = "loop", NEW q, Opens(p, q, c),
         NEW os, OuterOK(p, os)
  PROVE  StacksOK(q) /\ OuterOK(q, os)
<1>1. PICK d : d = Len(p.cxstack)
  OBVIOUS
<1>2. /\ StacksOK(q) /\ Keeps(p, q, d) /\ d \in Nat /\ Len(q.cxstack) = d + 1
      /\ q.cxstack[d + 1] = c
  <2>1. d \in Nat
    BY <1>1, PartTypes DEF StacksOK
  <2>2. Len(q.cxstack) = d + 1 /\ q.cxstack[d + 1] = c
    BY <1>1 DEF Opens
  <2> QED
    BY <1>1, <2>1, <2>2, OpensKeeps
<1>3. \A k \in 1..Len(p.cxstack) : p.cxstack[k].type = "eval" => k <= d
  BY <1>1, <1>2
<1>4. \A k \in d + 1..Len(q.cxstack) : q.cxstack[k].type # "eval"
  BY <1>2
<1> QED
  BY <1>2, <1>3, <1>4, KeepsOuter

LEMMA OpensEntry ==
  ASSUME NEW p, StacksOK(p), NEW c \in Context, c.type = "loop", NEW q, Opens(p, q, c),
         NEW e, EntryOK(p, e)
  PROVE  EntryOK(q, e)
<1>1. PICK d : d = Len(p.cxstack)
  OBVIOUS
<1>2. /\ StacksOK(q) /\ Keeps(p, q, d) /\ d \in Nat /\ Len(q.cxstack) = d + 1
      /\ q.cxstack[d + 1] = c
  <2>1. d \in Nat
    BY <1>1, PartTypes DEF StacksOK
  <2>2. Len(q.cxstack) = d + 1 /\ q.cxstack[d + 1] = c
    BY <1>1 DEF Opens
  <2> QED
    BY <1>1, <2>1, <2>2, OpensKeeps
<1>3. Len(e[1]) <= d
  BY <1>1, <1>2 DEF EntryOK
<1>4. \A k \in d + 1..Len(q.cxstack) : q.cxstack[k].type = "loop"
  BY <1>2
<1> QED
  BY <1>2, <1>3, <1>4, KeepsEntry

LEMMA OpensMortal ==
  ASSUME NEW p, StacksOK(p), NEW c \in Context, NEW q, Opens(p, q, c),
         NEW x, x.ix \in Nat, MortalOK(p, x)
  PROVE  MortalOK(q, x)
<1>1. PICK d : d = Len(p.cxstack)
  OBVIOUS
<1>2. /\ StacksOK(q) /\ Keeps(p, q, d) /\ d \in Nat /\ Len(q.cxstack) = d + 1
      /\ q.tmps_floor = p.tmps_ix /\ q.tmps_ix = p.tmps_ix
  <2>1. d \in Nat
    BY <1>1, PartTypes DEF StacksOK
  <2>2. Len(q.cxstack) = d + 1 /\ q.tmps_floor = p.tmps_ix /\ q.tmps_ix = p.tmps_ix
    BY <1>1 DEF Opens
  <2> QED
    BY <1>1, <2>1, <2>2, OpensKeeps
<1>3. CASE x.depth < d
  BY <1>2, <1>3, KeepsMortal
<1>4. CASE ~(x.depth < d)
  <2>1. x.depth = d /\ x.ix <= p.tmps_ix
    BY <1>1, <1>2, <1>4 DEF MortalOK
  <2>2. FloorAt(q, d + 1) = p.tmps_ix
    BY <1>2 DEF FloorAt
  <2> QED
    BY <1>2, <2>1, <2>2 DEF MortalOK
<1> QED
  BY <1>3, <1>4

(* The last loop is left.                                                  *)
LEMMA LeftStays ==
  ASSUME NEW p, StacksOK(p), Cx(p).type = "loop", Len(p.cxstack) >= 2,
         NEW q, Cuts(p, q, Len(p.cxstack)), NEW os, OuterOK(p, os)
  PROVE  StacksOK(q) /\ OuterOK(q, os)
<1>1. PICK d : d = Len(p.cxstack)
  OBVIOUS
<1>2. d \in 2..Len(p.cxstack) /\ d \in Nat /\ p.cxstack[d].type = "loop"
  BY <1>1, PartTypes DEF StacksOK, Cx
<1>3. PICK m : m = d - 1
  OBVIOUS
<1>4. StacksOK(q) /\ Keeps(p, q, m)
  BY <1>1, <1>2, <1>3, CutsKeeps
<1>5. Len(q.cxstack) = m
  BY <1>1, <1>3 DEF Cuts, Prefix
<1>6. \A k \in 1..Len(p.cxstack) : p.cxstack[k].type = "eval" => k <= m
  BY <1>1, <1>2, <1>3
<1>7. \A k \in m + 1..Len(q.cxstack) : q.cxstack[k].type # "eval"
  BY <1>2, <1>3, <1>5
<1> QED
  BY <1>4, <1>6, <1>7, KeepsOuter

LEMMA LeftEntry ==
  ASSUME NEW p, StacksOK(p), Len(p.cxstack) >= 2,
         NEW q, Cuts(p, q, Len(p.cxstack)),
         NEW e, EntryOK(p, e), Len(e[1]) < Len(p.cxstack)
  PROVE  EntryOK(q, e)
<1>1. PICK d : d = Len(p.cxstack)
  OBVIOUS
<1>2. d \in 2..Len(p.cxstack) /\ d \in Nat
  BY <1>1, PartTypes DEF StacksOK
<1>3. PICK m : m = d - 1
  OBVIOUS
<1>4. StacksOK(q) /\ Keeps(p, q, m)
  BY <1>1, <1>2, <1>3, CutsKeeps
<1>5. Len(q.cxstack) = m
  BY <1>1, <1>3 DEF Cuts, Prefix
<1>6. Len(e[1]) <= m
  BY <1>1, <1>2, <1>3 DEF EntryOK
<1>7. \A k \in m + 1..Len(q.cxstack) : q.cxstack[k].type = "loop"
  BY <1>2, <1>3, <1>5
<1> QED
  BY <1>4, <1>6, <1>7, KeepsEntry

LEMMA LeftMortal ==
  ASSUME NEW p, StacksOK(p), Len(p.cxstack) >= 2,
         NEW q, Cuts(p, q, Len(p.cxstack)),
         NEW x, x.ix \in Nat, MortalOK(p, x),
         NEW y, y.ix = x.ix,
         y.depth = IF x.depth < Len(p.cxstack) THEN x.depth ELSE Len(p.cxstack) - 1
  PROVE  MortalOK(q, y)
<1>1. PICK d : d = Len(p.cxstack)
  OBVIOUS
<1>2. d \in 2..Len(p.cxstack) /\ d \in Nat /\ p \in PLType /\ q \in PLType
  BY <1>1, PartTypes DEF StacksOK, Cuts
<1>3. PICK m : m = d - 1
  OBVIOUS
<1>4. StacksOK(q) /\ Keeps(p, q, m)
  BY <1>1, <1>2, <1>3, CutsKeeps
<1>5. Len(q.cxstack) = m /\ p.tmps_ix <= q.tmps_ix
  BY <1>1, <1>3 DEF Cuts, Prefix
<1>6. x.depth \in 1..d /\ x.ix <= p.tmps_ix
  BY <1>1 DEF MortalOK
<1>7. x.ix <= q.tmps_ix
  <2>1. p.tmps_ix \in Nat /\ q.tmps_ix \in Nat
    BY <1>2, PartTypes
  <2> QED
    BY <1>5, <1>6, <2>1
<1>8. CASE x.depth < m
  <2>1. y.depth = x.depth
    BY <1>1, <1>2, <1>3, <1>6, <1>8
  <2>2. MortalOK(q, x)
    BY <1>4, <1>8, KeepsMortal
  <2> QED
    BY <2>1, <2>2 DEF MortalOK
<1>9. CASE ~(x.depth < m)
  <2>1. y.depth = m /\ m \in 1..m
    BY <1>1, <1>2, <1>3, <1>6, <1>9
  <2> QED
    BY <1>5, <1>7, <2>1 DEF MortalOK
<1> QED
  BY <1>8, <1>9
-----------------------------------------------------------------------------
(* Evals: one is entered, and a die unwinds to the last.                   *)
LEMMA EvalStays ==
  ASSUME NEW p, StacksOK(p), NEW c \in Context, c.type = "eval",
         c.oldsp = p.stack_sp, c.oldcop = p.curcop, NEW q, Opens(p, q, c),
         NEW os \in Seq(PLType), OuterOK(p, os)
  PROVE  StacksOK(q) /\ OuterOK(q, Append(os, p))
<1>1. PICK d : d = Len(p.cxstack)
  OBVIOUS
<1>2. PICK e : e = d + 1
  OBVIOUS
<1>3. PICK z : z = Append(os, p)
  OBVIOUS
<1>4. PICK l : l = Len(os)
  OBVIOUS
<1>5. /\ p \in PLType /\ d \in Nat /\ d >= 1 /\ e \in Nat /\ l \in Nat
      /\ Len(z) = l + 1 /\ z[l + 1] = p /\ \A i \in 1..l : z[i] = os[i]
      /\ Len(p.scopestack) \in Nat /\ Len(p.savestack) \in Nat
  <2>1. p \in PLType /\ d \in Nat /\ d >= 1 /\ Len(p.scopestack) \in Nat /\ Len(p.savestack) \in Nat
    BY <1>1, PartTypes DEF StacksOK
  <2>2. /\ l \in Nat /\ Len(z) = l + 1 /\ z[l + 1] = p
        /\ \A i \in 1..l : z[i] = os[i]
    BY <1>3, <1>4, <2>1
  <2> QED
    BY <1>2, <2>1, <2>2
<1>6. /\ StacksOK(q) /\ Keeps(p, q, d)
      /\ Base(q, e) = Len(p.scopestack) /\ Start(q, e) = Len(p.savestack)
  BY <1>1, <1>2, OpensKeeps
<1>7. /\ Len(q.cxstack) = e /\ q.cxstack[e] = c
      /\ \A k \in 1..d : q.cxstack[k] = p.cxstack[k]
      /\ Len(q.scopestack) = Len(p.scopestack) + Scopes(c)
      /\ \A i \in 1..Len(p.scopestack) : q.scopestack[i] = p.scopestack[i]
      /\ Len(q.savestack) = Len(p.savestack) + 1
      /\ \A n \in 1..Len(p.savestack) : q.savestack[n] = p.savestack[n]
      /\ q.savestack[Len(p.savestack) + 1].val = p.tmps_floor
      /\ q.tmps_floor = p.tmps_ix
  BY <1>1, <1>2 DEF Opens
<1>8. Behind(p, q)
  <2>1. EvalOf(p) = e /\ e \in 2..Len(q.cxstack) /\ e - 1 = d
    BY <1>1, <1>2, <1>5, <1>7 DEF EvalOf
  <2>2. Prefix(p.cxstack, q.cxstack, d)
    BY <1>1, <1>2, <1>5, <1>7 DEF Prefix
  <2>3. Prefix(p.scopestack, q.scopestack, Base(q, e))
    <3>1. Scopes(c) \in {1, 2}
      BY DEF Scopes
    <3> QED
      BY <1>5, <1>6, <1>7, <3>1 DEF Prefix
  <2>4. Prefix(p.savestack, q.savestack, Start(q, e))
    BY <1>5, <1>6, <1>7 DEF Prefix
  <2>5. p.tmps_ix <= FloorAt(q, e)
    <3>1. FloorAt(q, e) = p.tmps_ix /\ p.tmps_ix \in Nat
      BY <1>5, <1>7, PartTypes DEF FloorAt
    <3> QED
      BY <3>1
  <2> QED
    BY <1>6, <1>7, <2>1, <2>2, <2>3, <2>4, <2>5 DEF Behind
<1>9. \A i \in 1..l : Behind(os[i], q) /\ EvalOf(os[i]) \in 1..d
  <2> TAKE i \in 1..l
  <2>1. Behind(os[i], p)
    BY <1>4 DEF OuterOK
  <2>2. EvalOf(os[i]) \in 1..d /\ EvalOf(os[i]) <= d
    BY <1>1, <1>5, <2>1 DEF Behind
  <2> QED
    BY <1>6, <2>1, <2>2, KeepsBehind
<1>10. \A i \in 1..l + 1 : Behind(z[i], q)
  <2> TAKE i \in 1..l + 1
  <2>1. i \in 1..l \/ i = l + 1
    BY <1>5
  <2> QED
    BY <1>5, <1>8, <1>9, <2>1
<1>11. EvalOf(p) = e
  BY <1>1, <1>2 DEF EvalOf
<1>12. \A i \in 1..l + 1, j \in 1..l + 1 : i < j => EvalOf(z[i]) < EvalOf(z[j])
  <2> TAKE i \in 1..l + 1, j \in 1..l + 1
  <2> HAVE i < j
  <2>1. i \in 1..l /\ z[i] = os[i] /\ EvalOf(os[i]) \in 1..d
    BY <1>5, <1>9
  <2>2. CASE j \in 1..l
    BY <1>4, <1>5, <2>1, <2>2 DEF OuterOK
  <2>3. CASE j = l + 1
    BY <1>2, <1>5, <1>11, <2>1, <2>3
  <2> QED
    BY <1>5, <2>2, <2>3
<1>13. \A k \in 1..Len(q.cxstack) : q.cxstack[k].type = "eval" =>
         \E i \in 1..l + 1 : EvalOf(z[i]) = k
  <2> TAKE k \in 1..Len(q.cxstack)
  <2> HAVE q.cxstack[k].type = "eval"
  <2>1. CASE k = e
    <3>1. l + 1 \in 1..l + 1 /\ EvalOf(z[l + 1]) = k
      BY <1>5, <1>11, <2>1
    <3> QED
      BY <3>1
  <2>2. CASE k # e
    <3>1. k \in 1..d /\ p.cxstack[k].type = "eval"
      BY <1>2, <1>5, <1>7, <2>2
    <3>2. PICK i \in 1..l : EvalOf(os[i]) = k
      BY <1>1, <1>4, <3>1 DEF OuterOK
    <3>3. i \in 1..l + 1 /\ EvalOf(z[i]) = k
      BY <1>5, <3>2
    <3> QED
      BY <3>3
  <2> QED
    BY <2>1, <2>2
<1>14. OuterOK(q, z)
  BY <1>5, <1>10, <1>12, <1>13 DEF OuterOK
<1> QED
  BY <1>3, <1>6, <1>14

(* Two sequences that have the same first elements are the same.           *)
LEMMA PrefixesEqual ==
  ASSUME NEW S, NEW s \in Seq(S), NEW t \in Seq(S), NEW u, NEW n,
         Prefix(s, u, n), Prefix(t, u, n)
  PROVE  s = t
<1>1. Len(s) = Len(t) /\ \A i \in 1..Len(s) : s[i] = t[i]
  BY DEF Prefix
<1> QED
  BY <1>1, SeqEqual

LEMMA DieStays ==
  ASSUME NEW p, StacksOK(p), NEW os \in Seq(PLType), OuterOK(p, os), Evals(p) # {},
         NEW t \in Nat, p.tmps_ix <= t,
         NEW q, q = Died(p, t)
  PROVE  /\ StacksOK(q) /\ Len(os) >= 1
         /\ OuterOK(q, SubSeq(os, 1, Len(os) - 1))
         /\ Frame(q) = Frame(os[Len(os)]) /\ q.tmps_ix >= os[Len(os)].tmps_ix
<1>1. PICK l : l = Len(os)
  OBVIOUS
<1>2. l \in Nat /\ p \in PLType /\ Len(p.cxstack) \in Nat
  BY <1>1, PartTypes DEF StacksOK
<1>3. l >= 1
  <2>1. PICK k \in 1..Len(p.cxstack) : p.cxstack[k].type = "eval"
    <3>1. DOMAIN p.cxstack = 1..Len(p.cxstack)
      BY <1>2, PartTypes
    <3> QED
      BY <3>1 DEF Evals
  <2>2. \E i \in 1..l : EvalOf(os[i]) = k
    BY <1>1, <2>1 DEF OuterOK
  <2> QED
    BY <1>2, <2>2
<1>4. PICK o : o = os[l]
  OBVIOUS
<1>5. PICK n : n = EvalOf(o)
  OBVIOUS
<1>6. l \in 1..l /\ o \in PLType /\ Behind(o, p)
  BY <1>1, <1>2, <1>3, <1>4 DEF OuterOK
<1>7. /\ n \in 2..Len(p.cxstack) /\ n \in 1..Len(p.cxstack) /\ n \in Nat
      /\ p.cxstack[n].type = "eval"
      /\ Prefix(o.cxstack, p.cxstack, n - 1)
      /\ Prefix(o.scopestack, p.scopestack, Base(p, n))
      /\ Prefix(o.savestack, p.savestack, Start(p, n))
      /\ o.tmps_floor = p.savestack[Start(p, n) + 1].val
      /\ o.stack_sp = p.cxstack[n].oldsp
      /\ o.curcop = p.cxstack[n].oldcop
      /\ o.tmps_ix <= FloorAt(p, n)
  BY <1>2, <1>5, <1>6 DEF Behind
<1>8. \A k \in Evals(p) : k <= n
  <2> TAKE k \in Evals(p)
  <2>1. k \in 1..Len(p.cxstack) /\ p.cxstack[k].type = "eval"
    BY <1>2, PartTypes DEF Evals
  <2>2. PICK i \in 1..l : EvalOf(os[i]) = k
    BY <1>1, <2>1 DEF OuterOK
  <2>3. CASE i = l
    BY <1>4, <1>5, <1>7, <2>2, <2>3
  <2>4. CASE i # l
    <3>1. i < l
      BY <1>2, <2>4
    <3>2. k < n
      BY <1>1, <1>4, <1>5, <1>6, <2>2, <3>1 DEF OuterOK
    <3> QED
      BY <1>7, <2>1, <3>2
  <2> QED
    BY <2>3, <2>4
<1>9. /\ Cuts(p, q, n) /\ q.tmps_ix = t
      /\ q.stack_sp = p.cxstack[n].oldsp /\ q.curcop = p.cxstack[n].oldcop
  <2>1. Innermost(p, n)
    BY <1>7, <1>8 DEF Innermost
  <2> QED
    BY <2>1, DieCuts
<1>10. PICK m : m = n - 1
  OBVIOUS
<1>11. StacksOK(q) /\ Keeps(p, q, m)
  BY <1>7, <1>9, <1>10, CutsKeeps
<1>12. Len(q.cxstack) = m /\ \A k \in 1..m : q.cxstack[k] = p.cxstack[k]
  BY <1>9, <1>10 DEF Cuts, Prefix
<1>13. PICK z : z = SubSeq(os, 1, l - 1)
  OBVIOUS
<1>14. Len(z) = l - 1 /\ \A i \in 1..l - 1 : z[i] = os[i] /\ i \in 1..l /\ i < l
  BY <1>1, <1>2, <1>3, <1>13
<1>15. \A i \in 1..l - 1 : EvalOf(os[i]) < n /\ Behind(os[i], p)
  BY <1>1, <1>4, <1>5, <1>6, <1>14 DEF OuterOK
<1>16. \A i \in 1..l - 1 : Behind(z[i], q)
  <2> TAKE i \in 1..l - 1
  <2>1. Behind(os[i], p) /\ EvalOf(os[i]) < n /\ z[i] = os[i]
    BY <1>14, <1>15
  <2>2. EvalOf(os[i]) \in 2..Len(p.cxstack)
    BY <2>1 DEF Behind
  <2>3. EvalOf(os[i]) <= m
    BY <1>2, <1>7, <1>10, <2>1, <2>2
  <2> QED
    BY <1>11, <2>1, <2>3, KeepsBehind
<1>17. \A i \in 1..l - 1, j \in 1..l - 1 : i < j => EvalOf(z[i]) < EvalOf(z[j])
  BY <1>1, <1>14 DEF OuterOK
<1>18. \A k \in 1..Len(q.cxstack) : q.cxstack[k].type = "eval" =>
         \E i \in 1..l - 1 : EvalOf(z[i]) = k
  <2> TAKE k \in 1..Len(q.cxstack)
  <2> HAVE q.cxstack[k].type = "eval"
  <2>1. k \in 1..Len(p.cxstack) /\ k < n /\ p.cxstack[k].type = "eval"
    <3>1. k \in 1..m /\ q.cxstack[k] = p.cxstack[k]
      BY <1>12
    <3>2. k \in 1..Len(p.cxstack) /\ k < n
      BY <1>2, <1>7, <1>10, <3>1
    <3> QED
      BY <3>1, <3>2
  <2>2. PICK i \in 1..l : EvalOf(os[i]) = k
    BY <1>1, <2>1 DEF OuterOK
  <2>3. i # l
    BY <1>4, <1>5, <1>7, <2>1, <2>2
  <2>4. i \in 1..l - 1
    BY <1>2, <2>3
  <2> QED
    BY <1>14, <2>2, <2>4
<1>19. OuterOK(q, z)
  BY <1>14, <1>16, <1>17, <1>18 DEF OuterOK
<1>20. /\ Prefix(q.cxstack, p.cxstack, n - 1)
       /\ Prefix(q.scopestack, p.scopestack, Base(p, n))
       /\ Prefix(q.savestack, p.savestack, Start(p, n))
       /\ q.tmps_floor = p.savestack[Start(p, n) + 1].val
       /\ q \in PLType
  BY <1>9 DEF Cuts
<1>21. q.cxstack = o.cxstack /\ q.scopestack = o.scopestack /\ q.savestack = o.savestack
  <2>1. /\ q.cxstack \in Seq(Context) /\ o.cxstack \in Seq(Context)
        /\ q.scopestack \in Seq(Nat) /\ o.scopestack \in Seq(Nat)
        /\ q.savestack \in Seq(SavedValue) /\ o.savestack \in Seq(SavedValue)
    BY <1>6, <1>20, PartTypes
  <2>2. q.cxstack = o.cxstack
    BY <1>7, <1>20, <2>1, PrefixesEqual
  <2>3. q.scopestack = o.scopestack
    BY <1>7, <1>20, <2>1, PrefixesEqual
  <2>4. q.savestack = o.savestack
    BY <1>7, <1>20, <2>1, PrefixesEqual
  <2> QED
    BY <2>2, <2>3, <2>4
<1>22. Frame(q) = Frame(o)
  <2>1. q.tmps_floor = o.tmps_floor /\ q.stack_sp = o.stack_sp /\ q.curcop = o.curcop
    BY <1>7, <1>9, <1>20
  <2> QED
    BY <1>21, <2>1 DEF Frame, Stacks
<1>23. q.tmps_ix >= o.tmps_ix
  <2>1. FloorAt(p, n) <= p.tmps_floor /\ p.tmps_floor <= p.tmps_ix
    BY <1>7, FrameOrder
  <2>2. FloorAt(p, n) \in Nat /\ p.tmps_floor \in Nat /\ p.tmps_ix \in Nat /\ o.tmps_ix \in Nat
    BY <1>2, <1>6, <1>7, FrameTypes, PartTypes
  <2> QED
    BY <1>7, <1>9, <2>1, <2>2
<1> QED
  BY <1>1, <1>3, <1>4, <1>11, <1>13, <1>19, <1>22, <1>23
-----------------------------------------------------------------------------
(* What native code does to the frames.  Only whether PL_tainted is set    *)
(* may change:                                                             *)
Alike(p, q) ==
  /\ q \in PLType
  /\ q.cxstack = p.cxstack /\ q.scopestack = p.scopestack
  /\ q.savestack = p.savestack /\ q.tmps_floor = p.tmps_floor
  /\ q.tmps_ix = p.tmps_ix /\ q.stack_sp = p.stack_sp /\ q.curcop = p.curcop

LEMMA TaintIs ==
  ASSUME NEW p \in PLType, NEW q \in Taint(p)
  PROVE  Alike(p, q)
<1>1. PICK b \in {p.tainted, TRUE} : q = [p EXCEPT !.tainted = b]
  BY DEF Taint
<1>2. b \in BOOLEAN
  BY <1>1, PartTypes
<1> QED
  BY <1>1, <1>2 DEF Alike, PLType

LEMMA AlikeIsWithin ==
  ASSUME NEW p, StacksOK(p), NEW q, Alike(p, q)
  PROVE  Within(p, q)
<1>1. p.tmps_floor <= p.tmps_ix
  BY DEF StacksOK
<1> QED
  BY <1>1, PlainIsWithin DEF Alike

LEMMA WithinAlike ==
  ASSUME NEW p, NEW q, Within(p, q), NEW r, Alike(q, r)
  PROVE  Within(p, r)
BY DEF Within, Alike

(* The parts of OpsEffect.                                                 *)
Before(p) == {p} \cup {r \in {Introduced(p)} : Len(p.savestack) < MaxSave}
Sps(p)    == {n \in 0..MaxSp : n >= Cx(p).oldsp}
Cops(p)   == {p.curcop} \cup
               {c.op : c \in {d \in Callable : d.f = "pa_pp_nextstate"}}

Ran(q, sp, t, b, o) ==
  [q EXCEPT !.stack_sp = sp, !.tmps_ix = t, !.tainted = b, !.curcop = o]

LEMMA OpsEffectIs ==
  ASSUME NEW p
  PROVE  OpsEffect(p) =
           {Ran(q, sp, t, b, o) : q \in Before(p), sp \in Sps(p),
              t \in p.tmps_floor..MaxTmps, b \in BOOLEAN, o \in Cops(p)}
BY DEF OpsEffect, Ran, Before, Sps, Cops

LEMMA RanOf ==
  ASSUME NEW A, NEW B, NEW C, NEW D,
         NEW q \in {Ran(r, sp, t, b, o) : r \in A, sp \in B, t \in C, b \in BOOLEAN, o \in D}
  PROVE  \E r \in A, sp \in B, t \in C, b \in BOOLEAN, o \in D : q = Ran(r, sp, t, b, o)
OBVIOUS

LEMMA OpsIs ==
  ASSUME NEW p, StacksOK(p), NEW q \in OpsEffect(p)
  PROVE  Within(p, q)
<1>1. PICK r \in Before(p), sp \in Sps(p), t \in p.tmps_floor..MaxTmps, b \in BOOLEAN,
           o \in Cops(p) : q = Ran(r, sp, t, b, o)
  BY OpsEffectIs, RanOf
<1>2. p \in PLType /\ p.tmps_floor \in Nat /\ p.curcop \in Op \cup {NULL}
  BY PartTypes DEF StacksOK
<1>3. r \in PLType /\ Within(p, r)
  <2>1. CASE r = p
    <3>1. p.tmps_floor <= p.tmps_ix
      BY DEF StacksOK
    <3> QED
      BY <1>2, <2>1, <3>1, PlainIsWithin
  <2>2. CASE r = Introduced(p)
    BY <2>2, IntroducedIsWithin
  <2> QED
    BY <2>1, <2>2 DEF Before
<1>4. sp \in Int /\ t \in Nat /\ p.tmps_floor <= t
  BY <1>2, StmtAssumption DEF Sps
<1>5. o \in Op \cup {NULL}
  <2>1. \A c \in Callable : c.f = "pa_pp_nextstate" => c.op \in Op
    BY CallCases
  <2> QED
    BY <1>2, <2>1 DEF Cops
<1>6. PICK r1 : r1 = [r EXCEPT !.stack_sp = sp]
  OBVIOUS
<1>7. PICK r2 : r2 = [r1 EXCEPT !.tmps_ix = t]
  OBVIOUS
<1>8. PICK r3 : r3 = [r2 EXCEPT !.tainted = b]
  OBVIOUS
<1>9. /\ r1 \in PLType /\ r1.cxstack = r.cxstack /\ r1.scopestack = r.scopestack
      /\ r1.savestack = r.savestack /\ r1.tmps_floor = r.tmps_floor
  BY <1>3, <1>4, <1>6 DEF PLType
<1>10. /\ r2 \in PLType /\ r2.cxstack = r.cxstack /\ r2.scopestack = r.scopestack
       /\ r2.savestack = r.savestack /\ r2.tmps_floor = r.tmps_floor /\ r2.tmps_ix = t
  BY <1>4, <1>7, <1>9 DEF PLType
<1>11. /\ r3 \in PLType /\ r3.cxstack = r.cxstack /\ r3.scopestack = r.scopestack
       /\ r3.savestack = r.savestack /\ r3.tmps_floor = r.tmps_floor /\ r3.tmps_ix = t
  BY <1>8, <1>10 DEF PLType
<1>12. q = [r3 EXCEPT !.curcop = o]
  BY <1>1, <1>6, <1>7, <1>8 DEF Ran
<1>13. /\ q \in PLType /\ q.cxstack = r.cxstack /\ q.scopestack = r.scopestack
       /\ q.savestack = r.savestack /\ q.tmps_floor = r.tmps_floor /\ q.tmps_ix = t
  BY <1>5, <1>11, <1>12 DEF PLType
<1>14. q.tmps_floor <= q.tmps_ix
  <2>1. r.tmps_floor = p.tmps_floor
    BY <1>3 DEF Within
  <2> QED
    BY <1>4, <1>13, <2>1
<1> QED
  BY <1>3, <1>13, <1>14 DEF Within

(* The calls that keep the statement's and the iteration's business.       *)
LEMMA FreeTmpsIs ==
  ASSUME NEW p, StacksOK(p), NEW q \in NativeEffect(p, "free_tmps")
  PROVE  /\ Within(p, q) /\ q.tmps_ix = p.tmps_floor
         /\ q.stack_sp = p.stack_sp /\ q.curcop = p.curcop /\ q.savestack = p.savestack
<1>1. PICK r : r = [p EXCEPT !.tmps_ix = p.tmps_floor]
  OBVIOUS
<1>2. p \in PLType /\ p.tmps_floor \in Nat
  BY PartTypes DEF StacksOK
<1>3. /\ r \in PLType /\ r.cxstack = p.cxstack /\ r.scopestack = p.scopestack
      /\ r.savestack = p.savestack /\ r.tmps_floor = p.tmps_floor
      /\ r.tmps_ix = p.tmps_floor /\ r.stack_sp = p.stack_sp /\ r.curcop = p.curcop
  BY <1>1, <1>2 DEF PLType
<1>4. Within(p, r)
  BY <1>2, <1>3, PlainIsWithin
<1>5. q \in Taint(r)
  BY <1>1 DEF NativeEffect
<1>6. Alike(r, q)
  BY <1>3, <1>5, TaintIs
<1>7. Within(p, q)
  BY <1>4, <1>6, WithinAlike
<1> QED
  BY <1>3, <1>6, <1>7 DEF Alike

LEMMA HookIs ==
  ASSUME NEW p, StacksOK(p), NEW fn \in {"signalhook", "helper"},
         NEW q \in NativeEffect(p, fn)
  PROVE  Within(p, q) /\ Alike(p, q)
<1>1. q \in Taint(p) /\ p \in PLType
  BY DEF NativeEffect, StacksOK
<1> QED
  BY <1>1, TaintIs, AlikeIsWithin

LEMMA LeaveScopeCallIs ==
  ASSUME NEW p, StacksOK(p), Cx(p).type = "loop", NEW q \in NativeEffect(p, "leave_scope")
  PROVE  /\ Within(p, q) /\ q.tmps_ix = p.tmps_ix
         /\ Len(q.savestack) = Mark(q)
<1>1. PICK r : r = LeaveScope(p, old_save(p))
  OBVIOUS
<1>2. /\ r \in PLType /\ Within(p, r) /\ Len(r.savestack) = Mark(p)
      /\ r.tmps_ix = p.tmps_ix
  BY <1>1, LeaveScopeIsWithin
<1>3. q \in Taint(r)
  BY <1>1 DEF NativeEffect
<1>4. Alike(r, q)
  BY <1>2, <1>3, TaintIs
<1>5. Within(p, q)
  BY <1>2, <1>4, WithinAlike
<1>6. q.scopestack = p.scopestack
  BY <1>5 DEF Within
<1> QED
  BY <1>2, <1>4, <1>5, <1>6 DEF Alike, Mark

(* Values and mortals.                                                     *)
LEMMA ValueIs ==
  ASSUME NEW p, StacksOK(p), NEW fn \in {"push_sv", "pop_sv", "save_clearsv"},
         NEW q \in NativeEffect(p, fn)
  PROVE  Within(p, q) /\ q.tmps_ix = p.tmps_ix
<1>1. p \in PLType /\ p.stack_sp \in Int /\ p.tmps_floor <= p.tmps_ix
  BY PartTypes DEF StacksOK
<1>2. CASE fn = "save_clearsv"
  <2>1. q = Introduced(p)
    BY <1>2 DEF NativeEffect
  <2> QED
    BY <2>1, IntroducedIsWithin
<1>3. CASE fn \in {"push_sv", "pop_sv"}
  <2>1. PICK v \in Int : q = [p EXCEPT !.stack_sp = v]
    <3>1. CASE fn = "push_sv"
      <4>1. q = [p EXCEPT !.stack_sp = p.stack_sp + 1] /\ p.stack_sp + 1 \in Int
        BY <1>1, <3>1 DEF NativeEffect
      <4> QED
        BY <4>1
    <3>2. CASE fn = "pop_sv"
      <4>1. q = [p EXCEPT !.stack_sp = p.stack_sp - 1] /\ p.stack_sp - 1 \in Int
        BY <1>1, <3>2 DEF NativeEffect
      <4> QED
        BY <4>1
    <3> QED
      BY <1>3, <3>1, <3>2
  <2>2. /\ q \in PLType /\ q.cxstack = p.cxstack /\ q.scopestack = p.scopestack
        /\ q.savestack = p.savestack /\ q.tmps_floor = p.tmps_floor
        /\ q.tmps_ix = p.tmps_ix
    BY <1>1, <2>1 DEF PLType
  <2> QED
    BY <1>1, <2>2, PlainIsWithin
<1> QED
  BY <1>2, <1>3

LEMMA NewMortalIs ==
  ASSUME NEW p, StacksOK(p), NEW q \in NativeEffect(p, "new_mortal_sv")
  PROVE  Within(p, q) /\ q.tmps_ix = p.tmps_ix + 1
<1>1. p \in PLType /\ p.tmps_ix \in Nat /\ p.tmps_floor \in Nat /\ p.tmps_floor <= p.tmps_ix
  BY PartTypes DEF StacksOK
<1>2. PICK v : v = p.tmps_ix + 1
  OBVIOUS
<1>3. v \in Nat /\ p.tmps_floor <= v
  BY <1>1, <1>2
<1>4. q = [p EXCEPT !.tmps_ix = v]
  BY <1>2 DEF NativeEffect
<1>5. /\ q \in PLType /\ q.cxstack = p.cxstack /\ q.scopestack = p.scopestack
      /\ q.savestack = p.savestack /\ q.tmps_floor = p.tmps_floor /\ q.tmps_ix = v
  BY <1>1, <1>3, <1>4 DEF PLType
<1> QED
  BY <1>2, <1>3, <1>5, PlainIsWithin
-----------------------------------------------------------------------------
(* The initial stacks.                                                     *)
LEMMA InitStacks ==
  ASSUME NEW q, q = pp_enter(NoPL)
  PROVE  StacksOK(q) /\ OuterOK(q, << >>)
<1>1. PICK p : p = NoPL
  OBVIOUS
<1>2. /\ p \in PLType /\ Len(p.cxstack) = 0 /\ Len(p.scopestack) = 0
      /\ Len(p.savestack) = 0 /\ p.tmps_ix = 0 /\ p.tmps_floor = 0
  BY <1>1 DEF NoPL, PLType
<1>3. PICK t \in {"block", "eval"} : t = "block"
  OBVIOUS
<1>4. PICK c \in Context : c.type = t /\ Opens(p, q, c)
  <2>1. q = PUSHBLOCK(SAVETMPS(ENTER(p)), t, NULL)
    BY <1>1, <1>3 DEF pp_enter
  <2> QED
    BY <1>2, <2>1, EnterOpens
<1>5. Scopes(c) = 1
  BY <1>3, <1>4 DEF Scopes
<1>6. /\ q \in PLType /\ Len(q.cxstack) = 1 /\ q.cxstack[1] = c
      /\ Len(q.scopestack) = 1 /\ q.scopestack[1] = 0
      /\ c.oldscopesp = 1
      /\ Len(q.savestack) = 1
      /\ q.savestack[1].type = "tmps_floor" /\ q.savestack[1].val = 0
      /\ q.tmps_floor = 0 /\ q.tmps_ix = 0
  <2>1. 0 + 1 = 1
    OBVIOUS
  <2> QED
    BY <1>2, <1>4, <1>5, <2>1 DEF Opens
<1>7. Base(q, 1) = 0
  BY <1>5, <1>6 DEF Base
<1>8. Start(q, 1) = 0
  <2>1. 0 + 1 = 1
    OBVIOUS
  <2> QED
    BY <1>6, <1>7, <2>1 DEF Start
<1>9. \A k \in 1..Len(q.cxstack) : k = 1
  BY <1>6
<1>10. ContextOK(q, 1)
  BY <1>3, <1>4, <1>6, <1>7, <1>8 DEF ContextOK
<1>11. StacksOK(q)
  <2>1. \A n \in Start(q, 1) + 2..Len(q.savestack) : FALSE
    BY <1>6, <1>8
  <2>2. \A k \in 1..Len(q.cxstack) - 1 : FALSE
    BY <1>6
  <2>3. \A k \in 1..Len(q.cxstack), j \in 1..Len(q.cxstack) : j < k => Nested(q, j, k)
    BY <1>6
  <2> QED
    BY <1>6, <1>9, <1>10, <2>1, <2>2, <2>3 DEF StacksOK
<1>12. OuterOK(q, << >>)
  <2>1. \A k \in 1..Len(q.cxstack) : q.cxstack[k].type # "eval"
    BY <1>3, <1>4, <1>6, <1>9
  <2> QED
    BY <2>1 DEF OuterOK
<1> QED
  BY <1>11, <1>12

(* The stacks that a body finds are those it was entered with.             *)
LEMMA EntryAtDispatch ==
  ASSUME NEW p, StacksOK(p), NEW e, e = Stacks(p)
  PROVE  EntryOK(p, e) /\ e \in Seq(Context) \X Seq(Nat) \X Nat
<1>1. /\ p \in PLType /\ Len(p.cxstack) \in Nat /\ Len(p.cxstack) >= 1
      /\ p.cxstack \in Seq(Context) /\ p.scopestack \in Seq(Nat)
      /\ Len(p.scopestack) \in Nat /\ p.tmps_floor \in Nat
      /\ Len(p.scopestack) = p.cxstack[Len(p.cxstack)].oldscopesp
  BY PartTypes DEF StacksOK
<1>2. e[1] = p.cxstack /\ e[2] = p.scopestack /\ e[3] = p.tmps_floor
  BY DEF Stacks
<1>3. PICK n : n = Len(p.cxstack)
  OBVIOUS
<1>4. n \in 1..n /\ n \in 0..n /\ n \in Nat
  BY <1>1, <1>3
<1>5. Prefix(e[1], p.cxstack, n)
  BY <1>2, <1>3, <1>4 DEF Prefix
<1>6. Prefix(e[2], p.scopestack, p.cxstack[n].oldscopesp)
  BY <1>1, <1>2, <1>3 DEF Prefix
<1>7. e[3] = FloorAt(p, n)
  BY <1>2, <1>3 DEF FloorAt
<1>8. EntryOK(p, e)
  BY <1>2, <1>3, <1>4, <1>5, <1>6, <1>7 DEF EntryOK
<1>9. e \in Seq(Context) \X Seq(Nat) \X Nat
  BY <1>1 DEF Stacks
<1> QED
  BY <1>8, <1>9

(* A body that is as deep as it was entered has the stacks it was entered  *)
(* with.                                                                   *)
LEMMA EntryAtReturn ==
  ASSUME NEW p, StacksOK(p), NEW e \in Seq(Context) \X Seq(Nat) \X Nat,
         EntryOK(p, e), Len(p.cxstack) = Len(e[1])
  PROVE  Stacks(p) = e
<1>1. /\ p.cxstack \in Seq(Context) /\ p.scopestack \in Seq(Nat)
      /\ Len(p.cxstack) \in Nat /\ Len(p.scopestack) \in Nat
      /\ Len(p.scopestack) = p.cxstack[Len(p.cxstack)].oldscopesp
  BY PartTypes DEF StacksOK
<1>2. PICK n : n = Len(p.cxstack)
  OBVIOUS
<1>3. /\ Prefix(e[1], p.cxstack, n)
      /\ Prefix(e[2], p.scopestack, p.cxstack[n].oldscopesp)
      /\ e[3] = FloorAt(p, n)
  BY <1>2 DEF EntryOK
<1>4. PICK e1 \in Seq(Context), e2 \in Seq(Nat), e3 \in Nat : e = << e1, e2, e3 >>
  OBVIOUS
<1>5. e[1] = e1 /\ e[2] = e2 /\ e[3] = e3
  BY <1>4
<1>6. e1 = p.cxstack
  <2>1. Len(e1) = Len(p.cxstack) /\ \A i \in 1..Len(e1) : e1[i] = p.cxstack[i]
    BY <1>2, <1>3, <1>5 DEF Prefix
  <2> QED
    BY <1>1, <1>4, <2>1, SeqEqual
<1>7. e2 = p.scopestack
  <2>1. Len(e2) = Len(p.scopestack) /\ \A i \in 1..Len(e2) : e2[i] = p.scopestack[i]
    BY <1>1, <1>2, <1>3, <1>5 DEF Prefix
  <2> QED
    BY <1>1, <1>4, <2>1, SeqEqual
<1>8. e3 = p.tmps_floor
  BY <1>2, <1>3, <1>5 DEF FloorAt
<1> QED
  BY <1>4, <1>6, <1>7, <1>8 DEF Stacks
-----------------------------------------------------------------------------
(* The steps of the body.                                                  *)
LEMMA Typed ==
  ASSUME IInv
  PROVE  /\ PL \in PLType /\ StacksOK(PL) /\ OuterOK(PL, outer)
         /\ Len(PL.cxstack) \in Nat /\ Len(PL.cxstack) >= 1
         /\ at # "perl" => EntryOK(PL, entry)
         /\ \A m \in mortals : m.ix \in Nat /\ m.depth \in Nat /\ MortalOK(PL, m)
         /\ outer \in Seq(PLType) /\ entry \in Seq(Context) \X Seq(Nat) \X Nat
         /\ call \in Call /\ pc \in Nat /\ sig_pending \in BOOLEAN
<1>1. TypeOK /\ FramesOK
  BY DEF IInv
<1>2. PL \in PLType /\ StacksOK(PL) /\ Len(PL.cxstack) >= 1
  BY <1>1 DEF FramesOK, StacksOK
<1>3. Len(PL.cxstack) \in Nat
  BY <1>2, PartTypes
<1> QED
  BY <1>1, <1>2, <1>3 DEF FramesOK, TypeOK

LEMMA SameIsWithin ==
  ASSUME NEW p, StacksOK(p)
  PROVE  Within(p, p)
<1>1. p \in PLType /\ p.tmps_floor <= p.tmps_ix
  BY DEF StacksOK
<1> QED
  BY <1>1, PlainIsWithin

(* The code of the call being executed.                                    *)
LEMMA Executing ==
  ASSUME IInv, Running
  PROVE  /\ call \in Callable /\ pc \in Nat /\ pc >= 1 /\ pc <= Len(Code(call))
         /\ Len(Code(call)) \in Nat
         /\ InsnOK(call, Code(call), pc)
         /\ MayBegin(call)
<1>1. call \in Callable /\ pc \in 1..Len(Code(call)) /\ MayBegin(call)
  BY DEF IInv, CodeOK
<1>2. CodeShape(call, Code(call))
  BY <1>1, CodeIs
<1> QED
  BY <1>1, <1>2 DEF CodeShape

LEMMA GotoIs ==
  ASSUME IInv, Running, NEW j \in Nat, j > pc, Goto(j)
  PROVE  \/ at' = "boundary" /\ pc' = 1
         \/ at' = "code" /\ pc' = j /\ j \in 1..Len(Code(call)) /\ Len(Code(call)) >= 2
BY Executing DEF Goto

(* A call of several instructions goes on in the context it began in.      *)
LEMMA MayGoOn ==
  ASSUME NEW c \in Callable, Len(Code(c)) >= 2, MayBegin(c), PL'.cxstack = PL.cxstack
  PROVE  MayBegin(c)'
<1>1. c.f # "native"
  <2>1. PICK x : x = CallNative(c.fn)
    OBVIOUS
  <2>2. PICK s : s = << x >>
    OBVIOUS
  <2>3. ASSUME c.f = "native" PROVE Code(c) = s
    BY <2>1, <2>2, <2>3 DEF Code, native_wrapper
  <2>4. Len(s) = 1
    BY <2>2
  <2>5. PICK n : n = Len(Code(c))
    OBVIOUS
  <2>6. c.f = "native" => n = 1
    BY <2>3, <2>4, <2>5
  <2> QED
    BY <2>5, <2>6
<1>2. CASE c.f = "pa_pp_unstack"
  BY <1>2 DEF MayBegin, Cx
<1>3. CASE c.f # "pa_pp_unstack"
  BY <1>1, <1>3 DEF MayBegin
<1> QED
  BY <1>2, <1>3

(* What is the same for every step within the last frame.                  *)
LEMMA CodeStep ==
  ASSUME IInv, Running, Within(PL, PL'), UNCHANGED << call, outer, entry >>,
         sig_pending' \in BOOLEAN, NEW j \in Nat, j > pc, Goto(j),
         mortals' \subseteq [ix : Nat, depth : Nat],
         \A m \in mortals' : MortalOK(PL', m)
  PROVE  TypeOK' /\ FramesOK' /\ CodeOK'
<1>1. StacksOK(PL') /\ OuterOK(PL', outer') /\ PL'.cxstack = PL.cxstack
  BY Typed, WithinStays
<1>2. EntryOK(PL', entry')
  <2>1. EntryOK(PL, entry)
    BY Typed DEF Running
  <2> QED
    BY <2>1, Typed, WithinEntry
<1>3. \/ at' = "boundary" /\ pc' = 1
      \/ at' = "code" /\ pc' = j /\ j \in 1..Len(Code(call)) /\ Len(Code(call)) >= 2
  BY GotoIs
<1>4. FramesOK'
  BY <1>1, <1>2 DEF FramesOK
<1>5. TypeOK'
  BY <1>1, <1>3, Typed DEF TypeOK, StacksOK
<1>6. CodeOK'
  <2>1. CASE at' = "boundary"
    BY <2>1 DEF CodeOK, Running
  <2>2. CASE at' = "code" /\ pc' = j /\ j \in 1..Len(Code(call)) /\ Len(Code(call)) >= 2
    <3>1. call \in Callable /\ MayBegin(call)'
      BY <1>1, <2>2, Executing, MayGoOn
    <3> QED
      BY <2>2, <3>1 DEF CodeOK, Running
  <2> QED
    BY <1>3, <2>1, <2>2
<1> QED
  BY <1>4, <1>5, <1>6

(* Where the code of pa_pp_nextstate and of pa_pp_unstack is.              *)
LEMMA InNextstate ==
  ASSUME IInv, Running, call.f = "pa_pp_nextstate"
  PROVE  /\ Len(Code(call)) = 9 /\ NextstateInsns(Code(call), call.op) /\ pc \in 1..9
         /\ Target(Code(call), "tmps_not_gt") = 6
         /\ Target(Code(call), "not_pending") = 9
<1>1. PICK t : Untaints(t)
  BY DEF Untaints
<1>2. Code(call) = pa_pp_nextstate(call.op)
  BY DEF Code
<1>3. Code(call) = NextstateTuple(call.op, t)
  BY <1>1, <1>2, NextstateCode
<1>4. /\ Len(Code(call)) = 9 /\ NextstateInsns(Code(call), call.op)
      /\ Target(Code(call), "tmps_not_gt") = 6
      /\ Target(Code(call), "not_pending") = 9
  BY <1>1, <1>3, NextstateSteps
<1> QED
  BY <1>4, Executing

LEMMA InUnstack ==
  ASSUME IInv, Running, call.f = "pa_pp_unstack"
  PROVE  /\ UnstackInsns(Code(call)) /\ pc \in 1..Len(Code(call))
         /\ Target(Code(call), "not_pending") = 3
         /\ Target(Code(call), "tmps_not_gt") = 8
         /\ \/ Len(Code(call)) = 8
            \/ /\ Len(Code(call)) = 11 /\ LeaveInsns(Code(call))
               /\ Target(Code(call), "save_not_gt") = 11
         /\ Cx(PL).type = "loop"
<1>1. call \in Callable /\ MayBegin(call)
  BY Executing
<1>2. call.leave \in BOOLEAN
  BY <1>1, CallCases
<1>3. Code(call) = pa_pp_unstack(call.leave)
  BY DEF Code
<1>4. Cx(PL).type = "loop"
  BY <1>1 DEF MayBegin
<1> QED
  BY <1>2, <1>3, <1>4, UnstackSteps, Executing

LEMMA UnstackPc ==
  ASSUME IInv, Running, call.f = "pa_pp_unstack"
  PROVE  /\ UnstackInsns(Code(call))
         /\ \/ pc \in {1, 2, 3, 4, 5, 6, 7, 8}
            \/ pc \in {9, 10, 11} /\ Len(Code(call)) = 11 /\ LeaveInsns(Code(call))
<1>1. PICK n : n = Len(Code(call))
  OBVIOUS
<1>2. pc \in 1..n /\ (n = 8 \/ (n = 11 /\ LeaveInsns(Code(call))))
  BY <1>1, InUnstack
<1>3. CASE n = 8
  BY <1>2, <1>3, InUnstack
<1>4. CASE n = 11 /\ LeaveInsns(Code(call))
  BY <1>1, <1>2, <1>4, InUnstack
<1> QED
  BY <1>2, <1>3, <1>4

(* A step of another call has nothing to say of them.                      *)
LEMMA NoStatement ==
  ASSUME call' = call, call.f # "pa_pp_nextstate"
  PROVE  StatementOK'
BY DEF StatementOK

LEMMA NoIteration ==
  ASSUME call' = call, call.f # "pa_pp_unstack"
  PROVE  IterationOK'
BY DEF IterationOK

LEMMA Outside ==
  ASSUME at' \in {"perl", "boundary"}
  PROVE  StatementOK' /\ IterationOK'
BY DEF StatementOK, IterationOK, Running

(* Mortals stay if no temporary is freed.                                  *)
LEMMA MortalsStay ==
  ASSUME IInv, Within(PL, PL'), PL'.tmps_ix >= PL.tmps_ix, mortals' = mortals
  PROVE  /\ mortals' \subseteq [ix : Nat, depth : Nat]
         /\ \A m \in mortals' : MortalOK(PL', m)
<1>1. mortals \subseteq [ix : Nat, depth : Nat]
  BY DEF IInv, TypeOK
<1>2. ASSUME NEW m \in mortals PROVE MortalOK(PL', m)
  <2>1. m.ix \in Nat /\ MortalOK(PL, m) /\ StacksOK(PL)
    BY Typed
  <2>2. m.ix <= PL.tmps_ix /\ PL.tmps_ix \in Nat
    BY <2>1, PartTypes, Typed DEF MortalOK
  <2>3. PL'.tmps_ix \in Nat
    BY PartTypes DEF Within
  <2>4. m.ix <= PL'.tmps_ix
    BY <2>1, <2>2, <2>3
  <2> QED
    BY <2>1, <2>4, WithinMortal
<1> QED
  BY <1>1, <1>2

(* A statement, or the end of an iteration, frees the temporaries above    *)
(* the floor: the body has given up those of the present context.          *)
LEMMA MortalsGivenUp ==
  ASSUME IInv, Within(PL, PL'), mortals' = GiveUp
  PROVE  /\ mortals' \subseteq [ix : Nat, depth : Nat]
         /\ \A m \in mortals' : MortalOK(PL', m)
<1>1. mortals' \subseteq mortals /\ mortals \subseteq [ix : Nat, depth : Nat]
  BY DEF IInv, TypeOK, GiveUp
<1>2. ASSUME NEW m \in mortals' PROVE MortalOK(PL', m)
  <2>1. m \in mortals /\ m.depth < Len(PL.cxstack)
    BY DEF GiveUp, Depth
  <2>2. m.ix \in Nat /\ MortalOK(PL, m) /\ StacksOK(PL)
    BY <2>1, Typed
  <2> QED
    BY <2>1, <2>2, WithinMortal
<1> QED
  BY <1>1, <1>2

LEMMA StepSet ==
  ASSUME IInv, ExecSet
  PROVE  IInv'
<1>1. /\ at = "code" /\ Running /\ Instr.i = "set" /\ Goto(pc + 1)
      /\ UNCHANGED << sig_pending, call, outer, entry, mortals >>
  BY DEF ExecSet, Exec, Running
<1>2. InsnOK(call, Code(call), pc) /\ pc \in Nat /\ Instr = Code(call)[pc]
  BY <1>1, Executing DEF Instr
<1>3. /\ PL' \in PLType
      /\ PL'.cxstack = PL.cxstack /\ PL'.scopestack = PL.scopestack
      /\ PL'.savestack = PL.savestack /\ PL'.tmps_floor = PL.tmps_floor
      /\ PL'.tmps_ix = PL.tmps_ix /\ PL'.stack_sp = PL.stack_sp
      /\ PL'.curcop = IF Instr.var = "curcop" THEN Instr.val ELSE PL.curcop
  <2>0. PL \in PLType
    BY Typed
  <2>1. CASE Instr.var = "curcop" /\ Instr.val \in Op
    <3>1. PICK v \in Op : v = Instr.val
      BY <2>1
    <3>2. PL' = [PL EXCEPT !.curcop = v]
      BY <2>1, <3>1 DEF ExecSet
    <3> QED
      BY <2>0, <2>1, <3>1, <3>2 DEF PLType
  <2>2. CASE Instr.var = "tainted" /\ Instr.val = FALSE
    <3>1. PICK v \in BOOLEAN : v = Instr.val
      BY <2>2
    <3>2. PL' = [PL EXCEPT !.tainted = v]
      BY <2>2, <3>1 DEF ExecSet
    <3> QED
      BY <2>0, <2>2, <3>2 DEF PLType
  <2>3. CASE Instr.var = "op"
    <3>1. PL' = PL
      BY <2>3 DEF ExecSet
    <3> QED
      BY <2>0, <2>3, <3>1
  <2> QED
    BY <1>1, <1>2, <2>1, <2>2, <2>3 DEF InsnOK
<1>4. Within(PL, PL')
  <2>1. PL.tmps_floor <= PL.tmps_ix /\ StacksOK(PL)
    BY Typed DEF StacksOK
  <2> QED
    BY <1>3, <2>1, PlainIsWithin
<1>5. TypeOK' /\ FramesOK' /\ CodeOK'
  <2>1. /\ mortals' \subseteq [ix : Nat, depth : Nat]
        /\ \A m \in mortals' : MortalOK(PL', m)
    <3>1. PL.tmps_ix \in Nat
      BY Typed, PartTypes
    <3>2. PL'.tmps_ix >= PL.tmps_ix
      BY <1>3, <3>1
    <3> QED
      BY <1>1, <1>4, <3>2, MortalsStay
  <2>2. PICK j \in Nat : j = pc + 1 /\ j > pc
    BY <1>2
  <2>3. Goto(j) /\ sig_pending' \in BOOLEAN
    BY <1>1, <2>2, Typed
  <2> QED
    BY <1>1, <1>4, <2>1, <2>2, <2>3, CodeStep
<1>6. \/ at' = "boundary"
      \/ at' = "code" /\ pc' = pc + 1
  BY <1>1, <1>2, GotoIs
<1>7. StatementOK'
  <2>1. CASE call.f = "pa_pp_nextstate"
    <3>1. NextstateInsns(Code(call), call.op) /\ pc \in 1..9
      BY <1>1, <2>1, InNextstate
    <3>2. pc \in {1, 2}
      BY <1>1, <1>2, <3>1 DEF NextstateInsns
    <3>3. PL'.curcop = call.op
      <4>1. CASE pc = 1
        BY <1>2, <1>3, <3>1, <4>1 DEF NextstateInsns
      <4>2. CASE pc = 2
        <5>1. PL.curcop = call.op
          BY <1>1, <2>1, <4>2 DEF IInv, StatementOK
        <5> QED
          BY <1>2, <1>3, <3>1, <4>2, <5>1 DEF NextstateInsns
      <4> QED
        BY <3>2, <4>1, <4>2
    <3>4. ASSUME at' = "code" PROVE pc' \in {2, 3}
      BY <1>6, <3>2, <3>4
    <3> QED
      BY <1>1, <1>6, <3>3, <3>4, Outside DEF StatementOK, Running
  <2> QED
    BY <1>1, <2>1, NoStatement
<1>8. IterationOK'
  <2>1. CASE call.f = "pa_pp_unstack"
    <3>1. pc = 4
      <4>1. PICK s : s = Code(call)
        OBVIOUS
      <4>2. /\ UnstackInsns(s) /\ s[pc].i = "set"
            /\ pc \in {1, 2, 3, 4, 5, 6, 7, 8} \/ (pc \in {9, 10, 11} /\ LeaveInsns(s))
        BY <1>1, <1>2, <2>1, <4>1, UnstackPc
      <4> QED
        BY <4>2 DEF UnstackInsns, LeaveInsns
    <3>2. ASSUME at' = "code" PROVE pc' = 5
      BY <1>6, <3>1, <3>2
    <3> QED
      BY <1>1, <1>6, <3>2, Outside DEF IterationOK, Running
  <2> QED
    BY <1>1, <2>1, NoIteration
<1> QED
  BY <1>5, <1>7, <1>8 DEF IInv

(* A step that leaves the interpreter variables and the mortals alone.     *)
LEMMA IdleStep ==
  ASSUME IInv, Running, UNCHANGED << PL, call, outer, entry, mortals >>,
         sig_pending' \in BOOLEAN, NEW j \in Nat, j > pc, Goto(j)
  PROVE  TypeOK' /\ FramesOK' /\ CodeOK'
<1>1. Within(PL, PL')
  BY Typed, SameIsWithin
<1>2. PL'.tmps_ix >= PL.tmps_ix
  <2>1. PL.tmps_ix \in Nat
    BY Typed, PartTypes
  <2> QED
    BY <2>1
<1>3. /\ mortals' \subseteq [ix : Nat, depth : Nat]
      /\ \A m \in mortals' : MortalOK(PL', m)
  BY <1>1, <1>2, MortalsStay
<1> QED
  BY <1>1, <1>3, CodeStep

LEMMA OldSpIs ==
  ASSUME IInv, NEW sp \in OldSpRead
  PROVE  sp \in Int /\ (Depth = 1 => sp = PL.cxstack[1].oldsp)
<1>1. PICK d \in Nat : d = Depth /\ d = Len(PL.cxstack) /\ d >= 1
  BY Typed DEF Depth
<1>2. /\ PL.cxstack \in Seq(Context) /\ CxWords \in Nat /\ CxWords > 1
      /\ \A k \in 1..d : PL.cxstack[k].oldsp \in Int
  <2>1. \A k \in 1..d : PL.cxstack[k] \in Context
    BY <1>1, Typed, PartTypes
  <2> QED
    BY <2>1, Typed, PartTypes, StmtAssumption DEF Context
<1>3. PICK ix \in Nat : ix = d - 1
  BY <1>1
<1>4. CASE ix % CxWords = 0
  <2>1. PICK k \in Nat : k = ix \div CxWords
    BY <1>2
  <2>2. k <= ix /\ (ix = 0 => k = 0)
    <3>1. ix \div CxWords <= ix
      BY <1>2
    <3>2. 0 \div CxWords = 0
      BY <1>2
    <3> QED
      BY <2>1, <3>1, <3>2
  <2>3. k + 1 \in 1..d
    BY <1>1, <1>3, <2>2
  <2>4. sp = PL.cxstack[k + 1].oldsp
    BY <1>1, <1>3, <1>4, <2>1 DEF OldSpRead
  <2>5. d = 1 => k + 1 = 1
    BY <1>3, <2>2
  <2> QED
    BY <1>1, <1>2, <2>3, <2>4, <2>5
<1>5. CASE ix % CxWords # 0
  <2>1. sp \in 0..MaxSp /\ MaxSp \in Nat
    BY <1>1, <1>3, <1>5, StmtAssumption DEF OldSpRead
  <2>2. ix # 0
    BY <1>2, <1>5
  <2> QED
    BY <1>1, <1>3, <2>1, <2>2
<1> QED
  BY <1>4, <1>5

LEMMA StepRestoreSp ==
  ASSUME IInv, ExecRestoreSp
  PROVE  IInv'
<1>1. /\ at = "code" /\ Running /\ Instr.i = "restore_sp" /\ Goto(pc + 1)
      /\ UNCHANGED << sig_pending, call, outer, entry, mortals >>
  BY DEF ExecRestoreSp, Exec, Running
<1>2. PICK sp \in OldSpRead : PL' = [PL EXCEPT !.stack_sp = sp]
  BY DEF ExecRestoreSp
<1>3. /\ sp \in Int /\ (Depth = 1 => sp = PL.cxstack[1].oldsp)
      /\ pc \in Nat /\ Instr = Code(call)[pc]
  BY <1>1, OldSpIs, Typed DEF Instr
<1>4. /\ PL' \in PLType
      /\ PL'.cxstack = PL.cxstack /\ PL'.scopestack = PL.scopestack
      /\ PL'.savestack = PL.savestack /\ PL'.tmps_floor = PL.tmps_floor
      /\ PL'.tmps_ix = PL.tmps_ix /\ PL'.stack_sp = sp
      /\ PL'.curcop = PL.curcop
  <2>1. PL \in PLType
    BY Typed
  <2> QED
    BY <1>2, <1>3, <2>1 DEF PLType
<1>5. Within(PL, PL')
  <2>1. PL.tmps_floor <= PL.tmps_ix /\ StacksOK(PL)
    BY Typed DEF StacksOK
  <2> QED
    BY <1>4, <2>1, PlainIsWithin
<1>6. TypeOK' /\ FramesOK' /\ CodeOK'
  <2>1. /\ mortals' \subseteq [ix : Nat, depth : Nat]
        /\ \A m \in mortals' : MortalOK(PL', m)
    <3>1. PL.tmps_ix \in Nat
      BY Typed, PartTypes
    <3>2. PL'.tmps_ix >= PL.tmps_ix
      BY <1>4, <3>1
    <3> QED
      BY <1>1, <1>5, <3>2, MortalsStay
  <2>2. PICK j \in Nat : j = pc + 1 /\ j > pc
    BY <1>3
  <2>3. Goto(j) /\ sig_pending' \in BOOLEAN
    BY <1>1, <2>2, Typed
  <2> QED
    BY <1>1, <1>5, <2>1, <2>2, <2>3, CodeStep
<1>7. \/ at' = "boundary"
      \/ at' = "code" /\ pc' = pc + 1
  BY <1>1, <1>3, GotoIs
<1>8. StatementOK'
  <2>1. CASE call.f = "pa_pp_nextstate"
    <3>1. NextstateInsns(Code(call), call.op) /\ pc \in 1..9
      BY <1>1, <2>1, InNextstate
    <3>2. pc = 3
      BY <1>1, <1>3, <3>1 DEF NextstateInsns
    <3>3. PL.curcop = call.op
      BY <1>1, <2>1, <3>2 DEF IInv, StatementOK
    <3>4. ASSUME at' = "code" PROVE pc' = 4
      BY <1>7, <3>2, <3>4
    <3>5. Depth' = 1 => PL'.stack_sp = PL'.cxstack[1].oldsp
      BY <1>3, <1>4 DEF Depth
    <3> QED
      BY <1>1, <1>4, <1>7, <3>3, <3>4, <3>5, Outside DEF StatementOK, Running
  <2> QED
    BY <1>1, <2>1, NoStatement
<1>9. IterationOK'
  <2>1. CASE call.f = "pa_pp_unstack"
    <3>1. pc = 5
      <4>1. PICK s : s = Code(call)
        OBVIOUS
      <4>2. /\ UnstackInsns(s) /\ s[pc].i = "restore_sp"
            /\ pc \in {1, 2, 3, 4, 5, 6, 7, 8} \/ (pc \in {9, 10, 11} /\ LeaveInsns(s))
        BY <1>1, <1>3, <2>1, <4>1, UnstackPc
      <4> QED
        BY <4>2 DEF UnstackInsns, LeaveInsns
    <3>2. ASSUME at' = "code" PROVE pc' = 6
      BY <1>7, <3>1, <3>2
    <3> QED
      BY <1>1, <1>7, <3>2, Outside DEF IterationOK, Running
  <2> QED
    BY <1>1, <2>1, NoIteration
<1> QED
  BY <1>6, <1>8, <1>9 DEF IInv

LEMMA StepOther ==
  ASSUME IInv, ExecOther
  PROVE  IInv'
<1>1. /\ at = "code" /\ Running /\ Instr.i \in {"label", "save_op", "restore_op"}
      /\ Goto(pc + 1)
      /\ UNCHANGED << PL, sig_pending, call, outer, entry, mortals >>
  BY DEF ExecOther, Running
<1>2. pc \in Nat /\ Instr = Code(call)[pc]
  BY Typed DEF Instr
<1>3. TypeOK' /\ FramesOK' /\ CodeOK'
  <2>1. PICK j \in Nat : j = pc + 1 /\ j > pc
    BY <1>2
  <2>2. Goto(j) /\ sig_pending' \in BOOLEAN
    BY <1>1, <2>1, Typed
  <2> QED
    BY <1>1, <2>1, <2>2, IdleStep
<1>4. \/ at' = "boundary"
      \/ at' = "code" /\ pc' = pc + 1 /\ pc + 1 <= Len(Code(call))
  BY <1>1, <1>2, GotoIs
<1>5. StatementOK'
  <2>1. CASE call.f = "pa_pp_nextstate"
    <3>1. NextstateInsns(Code(call), call.op) /\ pc \in 1..9 /\ Len(Code(call)) = 9
      BY <1>1, <2>1, InNextstate
    <3>2. pc \in {6, 9}
      BY <1>1, <1>2, <3>1 DEF NextstateInsns
    <3>3. /\ PL.curcop = call.op
          /\ Depth = 1 => PL.stack_sp = PL.cxstack[1].oldsp
          /\ PL.tmps_ix = PL.tmps_floor
      BY <1>1, <2>1, <3>2 DEF IInv, StatementOK
    <3> QED
      BY <1>1, <3>3 DEF StatementOK, Depth
  <2> QED
    BY <1>1, <2>1, NoStatement
<1>6. IterationOK'
  <2>1. CASE call.f = "pa_pp_unstack"
    <3>1. pc \in {3, 8} \/ (pc = 11 /\ Len(Code(call)) = 11)
      <4>1. PICK s : s = Code(call)
        OBVIOUS
      <4>2. /\ UnstackInsns(s) /\ s[pc].i \in {"label", "save_op", "restore_op"}
            /\ \/ pc \in {1, 2, 3, 4, 5, 6, 7, 8}
               \/ pc \in {9, 10, 11} /\ LeaveInsns(s) /\ Len(s) = 11
        BY <1>1, <1>2, <2>1, <4>1, UnstackPc
      <4> QED
        BY <4>1, <4>2 DEF UnstackInsns, LeaveInsns
    <3>2. pc = 8 => PL.tmps_ix = PL.tmps_floor
      BY <1>1, <2>1 DEF IInv, IterationOK
    <3>3. ASSUME at' = "code" PROVE pc' = 4 \/ (pc' = 9 /\ PL.tmps_ix = PL.tmps_floor)
      <4>1. PICK n : n = Len(Code(call))
        OBVIOUS
      <4>2. pc' = pc + 1 /\ pc + 1 <= n
        BY <1>4, <3>3, <4>1
      <4>3. pc \in {3, 8} \/ (pc = 11 /\ n = 11)
        BY <3>1, <4>1
      <4> QED
        BY <1>1, <3>2, <4>2, <4>3
    <3> QED
      BY <1>1, <1>4, <3>3, Outside DEF IterationOK, Running
  <2> QED
    BY <1>1, <2>1, NoIteration
<1> QED
  BY <1>3, <1>5, <1>6 DEF IInv

LEMMA StepCallStart ==
  ASSUME IInv, CallStart
  PROVE  IInv'
<1>1. /\ at = "code" /\ Running /\ Instr.i \in {"call", "runloop"} /\ at' = "call"
      /\ sig_pending' \in BOOLEAN
      /\ UNCHANGED << PL, call, pc, outer, entry, mortals >>
  BY DEF CallStart, Running
<1>2. TypeOK'
  BY <1>1 DEF IInv, TypeOK
<1>3. FramesOK'
  BY <1>1 DEF IInv, FramesOK
<1>4. CodeOK'
  <2>1. call \in Callable /\ pc \in 1..Len(Code(call)) /\ MayBegin(call)
    BY <1>1 DEF IInv, CodeOK
  <2>2. MayBegin(call)'
    BY <1>1, <2>1 DEF MayBegin, Cx, Depth
  <2> QED
    BY <1>1, <2>1, <2>2 DEF CodeOK, Running, Instr
<1>5. StatementOK' /\ IterationOK'
  BY <1>1 DEF IInv, StatementOK, IterationOK, Running, Depth, Mark
<1> QED
  BY <1>2, <1>3, <1>4, <1>5 DEF IInv

(* In a loop the savestack is never below the mark of the iteration.       *)
LEMMA LoopMark ==
  ASSUME NEW p, StacksOK(p), Cx(p).type = "loop"
  PROVE  Mark(p) \in Nat /\ Mark(p) <= Len(p.savestack) /\ Len(p.savestack) \in Nat
<1>1. PICK d : d = Len(p.cxstack)
  OBVIOUS
<1>2. d \in 1..d /\ d \in 1..Len(p.cxstack)
  BY <1>1, FrameOrder, PartTypes DEF StacksOK
<1>3. /\ ContextOK(p, d) /\ p.cxstack[d].type = "loop"
      /\ Len(p.scopestack) = p.cxstack[d].oldscopesp
  BY <1>1, <1>2 DEF StacksOK, Cx
<1>4. Mark(p) = Start(p, d) + 1 /\ Start(p, d) < Len(p.savestack)
  BY <1>3 DEF ContextOK, Mark
<1>5. Start(p, d) \in Nat /\ Len(p.savestack) \in Nat
  BY <1>2, FrameTypes
<1> QED
  BY <1>4, <1>5

LEMMA StepBranch ==
  ASSUME IInv, ExecBranch
  PROVE  IInv'
<1>1. /\ at = "code" /\ Running /\ Instr.i = "branch_if_not"
      /\ UNCHANGED << PL, sig_pending, call, outer, entry, mortals >>
  BY DEF ExecBranch, Exec, Running
<1>2. PICK j : /\ Goto(j)
               /\ j = IF Holds(Instr.cond) THEN pc + 1
                                           ELSE Target(Code(call), Instr.label)
  BY DEF ExecBranch
<1>2a. /\ Holds(Instr.cond) => j = pc + 1
       /\ ~Holds(Instr.cond) => j = Target(Code(call), Instr.label)
  BY <1>2
<1>3. pc \in Nat /\ Instr = Code(call)[pc] /\ InsnOK(call, Code(call), pc)
  BY <1>1, Typed, Executing DEF Instr
<1>4. j \in Nat /\ j > pc
  <2>1. /\ Target(Code(call), Instr.label) \in Nat
        /\ Target(Code(call), Instr.label) > pc
    BY <1>1, <1>3 DEF InsnOK
  <2>2. pc + 1 \in Nat /\ pc + 1 > pc
    BY <1>3
  <2> QED
    BY <1>2, <2>1, <2>2
<1>5. TypeOK' /\ FramesOK' /\ CodeOK'
  <2>1. sig_pending' \in BOOLEAN
    BY <1>1, Typed
  <2> QED
    BY <1>1, <1>2, <1>4, <2>1, IdleStep
<1>6. \/ at' = "boundary"
      \/ at' = "code" /\ pc' = j
  BY <1>1, <1>2, <1>4, GotoIs
<1>7. PL.tmps_floor \in Nat /\ PL.tmps_ix \in Nat /\ PL.tmps_floor <= PL.tmps_ix
  BY Typed, PartTypes DEF StacksOK
<1>8. StatementOK'
  <2>1. CASE call.f = "pa_pp_nextstate"
    <3>1. NextstateInsns(Code(call), call.op) /\ pc \in 1..9
      BY <1>1, <2>1, InNextstate
    <3>2. pc \in {4, 7}
      BY <1>1, <1>3, <3>1 DEF NextstateInsns
    <3>3. /\ PL.curcop = call.op
          /\ Depth = 1 => PL.stack_sp = PL.cxstack[1].oldsp
          /\ pc = 7 => PL.tmps_ix = PL.tmps_floor
      BY <1>1, <2>1, <3>2 DEF IInv, StatementOK
    <3>4. CASE pc = 4
      <4>1. Instr.cond = "tmps_gt" /\ Instr.label = "tmps_not_gt"
        BY <1>3, <3>1, <3>4 DEF NextstateInsns
      <4>2. j = 5 \/ PL.tmps_ix = PL.tmps_floor
        <5>1. ~Holds(Instr.cond) => ~(PL.tmps_ix > PL.tmps_floor)
          BY <4>1 DEF Holds
        <5> QED
          BY <1>2a, <1>7, <3>4, <5>1
      <4> QED
        BY <1>1, <1>6, <3>3, <4>2, Outside DEF StatementOK, Running, Depth
    <3>5. CASE pc = 7
      BY <1>1, <3>3, <3>5 DEF StatementOK, Depth
    <3> QED
      BY <3>2, <3>4, <3>5
  <2> QED
    BY <1>1, <2>1, NoStatement
<1>9. IterationOK'
  <2>1. CASE call.f = "pa_pp_unstack"
    <3>1. /\ UnstackInsns(Code(call))
          /\ pc \in {1, 6} \/ (pc = 9 /\ LeaveInsns(Code(call)) /\ Len(Code(call)) = 11)
      <4>1. PICK s : s = Code(call)
        OBVIOUS
      <4>2. /\ UnstackInsns(s) /\ s[pc].i = "branch_if_not"
            /\ \/ pc \in {1, 2, 3, 4, 5, 6, 7, 8}
               \/ pc \in {9, 10, 11} /\ LeaveInsns(s) /\ Len(s) = 11
        BY <1>1, <1>3, <2>1, <4>1, UnstackPc
      <4>3. pc \in {1, 6} \/ pc = 9
        BY <4>2 DEF UnstackInsns, LeaveInsns
      <4> QED
        BY <4>1, <4>2, <4>3
    <3>2. CASE pc = 1
      <4>1. Target(Code(call), Instr.label) = 3
        BY <1>1, <1>3, <2>1, <3>1, <3>2, InUnstack DEF UnstackInsns
      <4>2. j \in {2, 3}
        BY <1>2, <3>2, <4>1
      <4> QED
        BY <1>6, <4>2, Outside DEF IterationOK, Running
    <3>3. CASE pc = 6
      <4>1. /\ Target(Code(call), Instr.label) = 8
            /\ Instr.cond = "tmps_gt"
        BY <1>1, <1>3, <2>1, <3>1, <3>3, InUnstack DEF UnstackInsns
      <4>2. j = 7 \/ (j = 8 /\ PL.tmps_ix = PL.tmps_floor)
        <5>1. ~Holds(Instr.cond) => ~(PL.tmps_ix > PL.tmps_floor)
          BY <4>1 DEF Holds
        <5> QED
          BY <1>2a, <1>7, <3>3, <4>1, <5>1
      <4> QED
        BY <1>1, <1>6, <4>2, Outside DEF IterationOK, Running
    <3>4. CASE pc = 9 /\ LeaveInsns(Code(call)) /\ Len(Code(call)) = 11
      <4>1. /\ Target(Code(call), "save_not_gt") = 11
            /\ Cx(PL).type = "loop"
        <5>1. PICK n : n = Len(Code(call))
          OBVIOUS
        <5> QED
          BY <1>1, <2>1, <3>4, <5>1, InUnstack
      <4>2. Instr.label = "save_not_gt" /\ Instr.cond = "save_gt"
        BY <1>3, <3>4 DEF LeaveInsns
      <4>3. PL.tmps_ix = PL.tmps_floor
        BY <1>1, <2>1, <3>4 DEF IInv, IterationOK
      <4>4. /\ Mark(PL) \in Nat /\ Mark(PL) <= Len(PL.savestack)
            /\ Len(PL.savestack) \in Nat
        BY <4>1, Typed, LoopMark
      <4>5. j = 10 \/ (j = 11 /\ Len(PL.savestack) = Mark(PL))
        <5>1. ~Holds(Instr.cond) => ~(Len(PL.savestack) > Mark(PL))
          BY <4>2 DEF Holds, old_save, Mark
        <5> QED
          BY <1>2a, <3>4, <4>1, <4>2, <4>4, <5>1
      <4> QED
        BY <1>1, <1>6, <4>3, <4>5, Outside DEF IterationOK, Running, Mark
    <3> QED
      BY <3>1, <3>2, <3>3, <3>4
  <2> QED
    BY <1>1, <2>1, NoIteration
<1> QED
  BY <1>5, <1>8, <1>9 DEF IInv

(* A step that ends a call.                                                *)
LEMMA EndStep ==
  ASSUME IInv, at' = "boundary", pc' = 1,
         UNCHANGED << sig_pending, call, outer, entry >>,
         StacksOK(PL'), OuterOK(PL', outer), EntryOK(PL', entry),
         mortals' \subseteq [ix : Nat, depth : Nat],
         \A m \in mortals' : MortalOK(PL', m)
  PROVE  IInv'
<1>1. FramesOK'
  BY DEF FramesOK
<1>2. TypeOK'
  BY Typed DEF TypeOK, StacksOK
<1>3. CodeOK'
  BY DEF CodeOK, Running
<1> QED
  BY <1>1, <1>2, <1>3, Outside DEF IInv

(* A native call of its own is the only instruction of its code.           *)
LEMMA NativeEnds ==
  ASSUME IInv, Running, call.f = "native", Goto(pc + 1)
  PROVE  at' = "boundary" /\ pc' = 1
<1>1. PICK x : x = CallNative(call.fn)
  OBVIOUS
<1>2. PICK s : s = << x >>
  OBVIOUS
<1>3. Code(call) = s
  BY <1>1, <1>2 DEF Code, native_wrapper
<1>4. Len(Code(call)) = 1
  BY <1>2, <1>3
<1>5. pc \in Nat /\ pc >= 1
  BY Executing
<1> QED
  BY <1>4, <1>5 DEF Goto

LEMMA StepEnterLoop ==
  ASSUME IInv, CallEnd, call.f = "native", Instr.fn = "pp_enterloop"
  PROVE  IInv'
<1>1. /\ at = "call" /\ Running /\ Goto(pc + 1) /\ mortals' = mortals
      /\ UNCHANGED << sig_pending, call, outer, entry >>
  BY DEF CallEnd, Running, MortalsAfter
<1>2. PL' = pp_enterloop(PL, JitOp)
  BY DEF CallEnd, NativeEffect
<1>3. PICK c \in Context : c.type = "loop" /\ Opens(PL, PL', c)
  <2>1. PL \in PLType /\ JitOp \in Op
    BY Typed, StmtAssumption
  <2> QED
    BY <1>2, <2>1, EnterLoopOpens
<1>4. StacksOK(PL') /\ OuterOK(PL', outer)
  BY <1>3, Typed, OpensStays
<1>5. EntryOK(PL', entry)
  <2>1. EntryOK(PL, entry)
    BY <1>1, Typed
  <2> QED
    BY <1>3, <2>1, Typed, OpensEntry
<1>6. \A m \in mortals' : MortalOK(PL', m)
  <2>1. ASSUME NEW m \in mortals PROVE MortalOK(PL', m)
    <3>1. m.ix \in Nat /\ MortalOK(PL, m) /\ StacksOK(PL)
      BY Typed
    <3> QED
      BY <1>3, <3>1, OpensMortal
  <2> QED
    BY <1>1, <2>1
<1>7. mortals' \subseteq [ix : Nat, depth : Nat]
  BY <1>1 DEF IInv, TypeOK
<1>8. at' = "boundary" /\ pc' = 1
  BY <1>1, NativeEnds
<1> QED
  BY <1>1, <1>4, <1>5, <1>6, <1>7, <1>8, EndStep

(* The loop that a body may leave is its own.                              *)
LEMMA OwnLoop ==
  ASSUME IInv, at # "perl", Depth > Len(entry[1])
  PROVE  /\ Cx(PL).type = "loop" /\ Len(PL.cxstack) >= 2
         /\ Len(entry[1]) < Len(PL.cxstack)
<1>1. EntryOK(PL, entry) /\ Len(PL.cxstack) \in Nat
  BY Typed
<1>2. PICK n : n = Len(entry[1])
  OBVIOUS
<1>3. /\ n \in 1..Len(PL.cxstack)
      /\ \A k \in n + 1..Len(PL.cxstack) : PL.cxstack[k].type = "loop"
  BY <1>1, <1>2 DEF EntryOK
<1>4. n < Len(PL.cxstack) /\ n \in Nat /\ n >= 1
  BY <1>1, <1>2, <1>3 DEF Depth
<1>5. Len(PL.cxstack) \in n + 1..Len(PL.cxstack) /\ Len(PL.cxstack) >= 2
  BY <1>1, <1>4
<1> QED
  BY <1>2, <1>3, <1>4, <1>5 DEF Cx

LEMMA StepLeaveLoop ==
  ASSUME IInv, CallEnd, call.f = "native", Instr.fn = "pp_leaveloop", call.fn = "pp_leaveloop"
  PROVE  IInv'
<1>1. /\ at = "call" /\ at # "perl" /\ Running /\ Goto(pc + 1)
      /\ UNCHANGED << sig_pending, call, outer, entry >>
  BY DEF CallEnd, Running
<1>2. PICK n \in {0, 1} : PL' = pp_leaveloop(PL, n)
  <2>1. PL' \in {pp_leaveloop(PL, n) : n \in {0, IF Cx(PL).oldsp < MaxSp THEN 1 ELSE 0}}
    BY DEF CallEnd, NativeEffect
  <2> QED
    BY <2>1
<1>3. Depth > Len(entry[1])
  <2>1. MayBegin(call)
    BY <1>1, Executing
  <2> QED
    BY <2>1 DEF MayBegin
<1>4. /\ Cx(PL).type = "loop" /\ Len(PL.cxstack) >= 2
      /\ Len(entry[1]) < Len(PL.cxstack)
  BY <1>1, <1>3, OwnLoop
<1>5. Cuts(PL, PL', Len(PL.cxstack))
  BY <1>2, <1>4, Typed, LeaveLoopCuts
<1>6. StacksOK(PL') /\ OuterOK(PL', outer)
  BY <1>4, <1>5, Typed, LeftStays
<1>7. EntryOK(PL', entry)
  <2>1. EntryOK(PL, entry)
    BY <1>1, Typed
  <2> QED
    BY <1>4, <1>5, <2>1, Typed, LeftEntry
<1>8. ASSUME NEW y \in mortals'
      PROVE  y \in [ix : Nat, depth : Nat] /\ MortalOK(PL', y)
  <2>1. PICK m \in mortals : y = [m EXCEPT !.depth = IF m.depth < Depth THEN m.depth
                                                     ELSE Depth - 1]
    BY <1>8 DEF CallEnd, MortalsAfter
  <2>2. PICK d : d = IF m.depth < Depth THEN m.depth ELSE Depth - 1
    OBVIOUS
  <2>3. m \in [ix : Nat, depth : Nat] /\ MortalOK(PL, m) /\ m.ix \in Nat /\ m.depth \in Nat
    BY Typed DEF IInv, TypeOK
  <2>4. d \in Nat
    BY <1>4, <2>2, <2>3, Typed DEF Depth
  <2>5. y = [m EXCEPT !.depth = d]
    BY <2>1, <2>2
  <2>6. y \in [ix : Nat, depth : Nat] /\ y.ix = m.ix /\ y.depth = d
    BY <2>3, <2>4, <2>5
  <2>7. y.depth = IF m.depth < Len(PL.cxstack) THEN m.depth ELSE Len(PL.cxstack) - 1
    BY <2>2, <2>6 DEF Depth
  <2> QED
    BY <1>4, <1>5, <2>3, <2>6, <2>7, Typed, LeftMortal
<1>9. at' = "boundary" /\ pc' = 1
  BY <1>1, NativeEnds
<1> QED
  BY <1>1, <1>6, <1>7, <1>8, <1>9, EndStep

(* The other native calls stay within the last frame.                      *)
LEMMA CallWithin ==
  ASSUME IInv, CallEnd, Running,
         Instr.fn # "pp_enterloop", Instr.fn # "pp_leaveloop"
  PROVE  /\ Within(PL, PL')
         /\ mortals' \subseteq [ix : Nat, depth : Nat]
         /\ \A m \in mortals' : MortalOK(PL', m)
<1>1. /\ StacksOK(PL) /\ PL' \in NativeEffect(PL, Instr.fn)
      /\ mortals' = MortalsAfter(Instr.fn)
      /\ PL.tmps_ix \in Nat
  BY Typed, PartTypes DEF CallEnd
<1>2. CASE Instr.fn \in {"signalhook", "helper"}
  <2>1. Within(PL, PL') /\ PL'.tmps_ix = PL.tmps_ix
    BY <1>1, <1>2, HookIs DEF Alike
  <2>2. mortals' = mortals
    BY <1>1, <1>2 DEF MortalsAfter
  <2>3. PL'.tmps_ix >= PL.tmps_ix
    BY <1>1, <2>1
  <2> QED
    BY <2>1, <2>2, <2>3, MortalsStay
<1>3. CASE Instr.fn = "free_tmps"
  <2>1. Within(PL, PL')
    BY <1>1, <1>3, FreeTmpsIs
  <2>2. mortals' = GiveUp
    BY <1>1, <1>3 DEF MortalsAfter
  <2> QED
    BY <2>1, <2>2, MortalsGivenUp
<1>4. CASE Instr.fn \in {"pp", "closure"}
  <2>1. PL' \in OpsEffect(PL)
    BY <1>1, <1>4 DEF NativeEffect
  <2>2. Within(PL, PL')
    BY <1>1, <2>1, OpsIs
  <2>3. mortals' = GiveUp
    BY <1>1, <1>4 DEF MortalsAfter
  <2> QED
    BY <2>2, <2>3, MortalsGivenUp
<1>5. CASE Instr.fn = "leave_scope" /\ call.f = "pa_pp_unstack"
  <2>1. Cx(PL).type = "loop"
    BY <1>5, InUnstack
  <2>2. Within(PL, PL') /\ PL'.tmps_ix = PL.tmps_ix
    BY <1>1, <1>5, <2>1, LeaveScopeCallIs
  <2>3. mortals' = mortals
    BY <1>1, <1>5 DEF MortalsAfter
  <2>4. PL'.tmps_ix >= PL.tmps_ix
    BY <1>1, <2>2
  <2> QED
    BY <2>2, <2>3, <2>4, MortalsStay
<1>6. CASE Instr.fn \in {"push_sv", "pop_sv", "save_clearsv"}
  <2>1. Within(PL, PL') /\ PL'.tmps_ix = PL.tmps_ix
    BY <1>1, <1>6, ValueIs
  <2>2. mortals' = mortals
    BY <1>1, <1>6 DEF MortalsAfter
  <2>3. PL'.tmps_ix >= PL.tmps_ix
    BY <1>1, <2>1
  <2> QED
    BY <2>1, <2>2, <2>3, MortalsStay
<1>7. CASE Instr.fn = "new_mortal_sv"
  <2>1. Within(PL, PL') /\ PL'.tmps_ix = PL.tmps_ix + 1
    BY <1>1, <1>7, NewMortalIs
  <2>2. PICK v \in Nat : v = PL.tmps_ix + 1 /\ v >= PL.tmps_ix
    BY <1>1
  <2>3. PICK d \in Nat : d = Len(PL.cxstack) /\ d >= 1
    BY Typed
  <2>4. PICK x \in [ix : Nat, depth : Nat] : x = [ix |-> v, depth |-> d]
    OBVIOUS
  <2>5. mortals' = mortals \cup {x}
    BY <1>1, <1>7, <2>2, <2>3, <2>4 DEF MortalsAfter, Depth
  <2>6. MortalOK(PL', x)
    <3>1. x.ix = v /\ x.depth = d /\ PL'.tmps_ix = v /\ PL'.cxstack = PL.cxstack
      BY <2>1, <2>2, <2>4 DEF Within
    <3>2. d \in 1..d /\ v <= v
      BY <2>2, <2>3
    <3> QED
      BY <2>3, <3>1, <3>2 DEF MortalOK
  <2>7. ASSUME NEW m \in mortals PROVE MortalOK(PL', m)
    <3>1. m.ix \in Nat /\ MortalOK(PL, m)
      BY Typed
    <3>2. m.ix <= PL.tmps_ix
      BY <3>1 DEF MortalOK
    <3>3. m.ix <= PL'.tmps_ix
      BY <1>1, <2>1, <2>2, <3>1, <3>2
    <3> QED
      BY <1>1, <2>1, <3>1, <3>3, WithinMortal
  <2>8. mortals \subseteq [ix : Nat, depth : Nat]
    BY DEF IInv, TypeOK
  <2> QED
    BY <2>1, <2>4, <2>5, <2>6, <2>7, <2>8
<1> QED
  <2>1. InsnOK(call, Code(call), pc) /\ Instr = Code(call)[pc] /\ Instr.i = "call"
    BY Executing DEF Instr, CallEnd
  <2> QED
    BY <1>2, <1>3, <1>4, <1>5, <1>6, <1>7, <2>1 DEF InsnOK, NativeFn

LEMMA StepCallEnd ==
  ASSUME IInv, CallEnd
  PROVE  IInv'
<1>1. /\ at = "call" /\ Running /\ Instr.i = "call" /\ Goto(pc + 1)
      /\ PL' \in NativeEffect(PL, Instr.fn)
      /\ UNCHANGED << sig_pending, call, outer, entry >>
  BY DEF CallEnd, Running
<1>2. /\ InsnOK(call, Code(call), pc) /\ Instr = Code(call)[pc]
      /\ pc \in Nat /\ StacksOK(PL)
  BY <1>1, Typed, Executing DEF Instr
<1>3. CASE Instr.fn = "pp_enterloop" \/ Instr.fn = "pp_leaveloop"
  <2>1. call.f = "native" /\ call.fn = Instr.fn
    BY <1>1, <1>2, <1>3 DEF InsnOK
  <2> QED
    BY <1>3, <2>1, StepEnterLoop, StepLeaveLoop
<1>4. CASE Instr.fn # "pp_enterloop" /\ Instr.fn # "pp_leaveloop"
  <2>1. /\ Within(PL, PL')
        /\ mortals' \subseteq [ix : Nat, depth : Nat]
        /\ \A m \in mortals' : MortalOK(PL', m)
    BY <1>1, <1>4, CallWithin
  <2>2. TypeOK' /\ FramesOK' /\ CodeOK'
    <3>1. PICK j \in Nat : j = pc + 1 /\ j > pc
      BY <1>2
    <3>2. Goto(j) /\ sig_pending' \in BOOLEAN
      BY <1>1, <3>1, Typed
    <3> QED
      BY <1>1, <2>1, <3>1, <3>2, CodeStep
  <2>3. \/ at' = "boundary"
        \/ at' = "code" /\ pc' = pc + 1
    BY <1>1, <1>2, GotoIs
  <2>4. PL'.cxstack = PL.cxstack /\ PL'.tmps_floor = PL.tmps_floor
    BY <2>1 DEF Within
  <2>5. StatementOK'
    <3>1. CASE call.f = "pa_pp_nextstate"
      <4>1. NextstateInsns(Code(call), call.op) /\ pc \in 1..9
        BY <1>1, <3>1, InNextstate
      <4>2. pc \in {5, 8}
        BY <1>1, <1>2, <4>1 DEF NextstateInsns
      <4>3. /\ PL.curcop = call.op
            /\ Depth = 1 => PL.stack_sp = PL.cxstack[1].oldsp
            /\ pc = 8 => PL.tmps_ix = PL.tmps_floor
        BY <1>1, <3>1, <4>2 DEF IInv, StatementOK
      <4>4. /\ PL'.curcop = PL.curcop /\ PL'.stack_sp = PL.stack_sp
            /\ PL'.tmps_ix = PL'.tmps_floor
        <5>1. CASE pc = 5
          <6>1. Instr.fn = "free_tmps"
            BY <1>2, <4>1, <5>1 DEF NextstateInsns
          <6> QED
            BY <1>1, <1>2, <2>4, <6>1, FreeTmpsIs
        <5>2. CASE pc = 8
          <6>1. Instr.fn = "signalhook"
            BY <1>2, <4>1, <5>2 DEF NextstateInsns
          <6>2. Alike(PL, PL')
            BY <1>1, <1>2, <6>1, HookIs
          <6> QED
            BY <4>3, <5>2, <6>2 DEF Alike
        <5> QED
          BY <4>2, <5>1, <5>2
      <4> QED
        BY <1>1, <2>4, <4>3, <4>4 DEF StatementOK, Depth
    <3> QED
      BY <1>1, <3>1, NoStatement
  <2>6. IterationOK'
    <3>1. CASE call.f = "pa_pp_unstack"
      <4>1. /\ UnstackInsns(Code(call))
            /\ pc \in {2, 7} \/ (pc = 10 /\ LeaveInsns(Code(call)))
        <5>1. PICK s : s = Code(call)
          OBVIOUS
        <5>2. /\ UnstackInsns(s) /\ s[pc].i = "call"
              /\ \/ pc \in {1, 2, 3, 4, 5, 6, 7, 8}
                 \/ pc \in {9, 10, 11} /\ LeaveInsns(s)
          BY <1>1, <1>2, <3>1, <5>1, UnstackPc
        <5>3. pc \in {2, 7} \/ pc = 10
          BY <5>2 DEF UnstackInsns, LeaveInsns
        <5> QED
          BY <5>1, <5>2, <5>3
      <4>2. CASE pc = 2
        <5>1. ASSUME at' = "code" PROVE pc' = 3
          BY <2>3, <4>2, <5>1
        <5> QED
          BY <2>3, <5>1, Outside DEF IterationOK, Running
      <4>3. CASE pc = 7
        <5>1. ASSUME at' = "code" PROVE pc' = 8
          BY <2>3, <4>3, <5>1
        <5>2. Instr.fn = "free_tmps"
          BY <1>2, <4>1, <4>3 DEF UnstackInsns
        <5>3. PL'.tmps_ix = PL'.tmps_floor
          BY <1>1, <1>2, <2>4, <5>2, FreeTmpsIs
        <5> QED
          BY <2>3, <5>1, <5>3, Outside DEF IterationOK, Running
      <4>4. CASE pc = 10 /\ LeaveInsns(Code(call))
        <5>1. Instr.fn = "leave_scope"
          BY <1>2, <4>4 DEF LeaveInsns
        <5>2. Cx(PL).type = "loop"
          BY <1>1, <3>1, InUnstack
        <5>3. PL'.tmps_ix = PL.tmps_ix /\ Len(PL'.savestack) = Mark(PL')
          BY <1>1, <1>2, <5>1, <5>2, LeaveScopeCallIs
        <5>4. PL.tmps_ix = PL.tmps_floor
          BY <1>1, <3>1, <4>4 DEF IInv, IterationOK
        <5>5. (Len(PL.savestack) = Mark(PL))'
          BY <5>3 DEF Mark
        <5> QED
          BY <2>4, <5>3, <5>4, <5>5 DEF IterationOK
      <4> QED
        BY <4>1, <4>2, <4>3, <4>4
    <3> QED
      BY <1>1, <3>1, NoIteration
  <2> QED
    BY <2>2, <2>5, <2>6 DEF IInv
<1> QED
  BY <1>3, <1>4

LEMMA StepRunloopEnd ==
  ASSUME IInv, RunloopEnd
  PROVE  IInv'
<1>1. /\ at = "call" /\ Running /\ Instr.i = "runloop" /\ Goto(pc + 1)
      /\ PL' \in OpsEffect(PL) /\ mortals' = GiveUp
      /\ UNCHANGED << sig_pending, call, outer, entry >>
  BY DEF RunloopEnd, Running
<1>2. Instr = Code(call)[pc] /\ pc \in Nat /\ StacksOK(PL)
  BY <1>1, Typed DEF Instr
<1>3. Within(PL, PL')
  BY <1>1, <1>2, OpsIs
<1>4. /\ mortals' \subseteq [ix : Nat, depth : Nat]
      /\ \A m \in mortals' : MortalOK(PL', m)
  BY <1>1, <1>3, MortalsGivenUp
<1>5. TypeOK' /\ FramesOK' /\ CodeOK'
  <2>1. PICK j \in Nat : j = pc + 1 /\ j > pc
    BY <1>2
  <2>2. Goto(j) /\ sig_pending' \in BOOLEAN
    BY <1>1, <2>1, Typed
  <2> QED
    BY <1>1, <1>3, <1>4, <2>1, <2>2, CodeStep
<1>6. call.f # "pa_pp_nextstate"
  <2>1. ASSUME call.f = "pa_pp_nextstate" PROVE FALSE
    <3>1. NextstateInsns(Code(call), call.op) /\ pc \in 1..9
      BY <1>1, <2>1, InNextstate
    <3> QED
      BY <1>1, <1>2, <3>1 DEF NextstateInsns
  <2> QED
    BY <2>1
<1>7. call.f # "pa_pp_unstack"
  <2>1. ASSUME call.f = "pa_pp_unstack" PROVE FALSE
    <3>1. PICK s : s = Code(call)
      OBVIOUS
    <3>2. /\ UnstackInsns(s) /\ s[pc].i = "runloop"
          /\ \/ pc \in {1, 2, 3, 4, 5, 6, 7, 8}
             \/ pc \in {9, 10, 11} /\ LeaveInsns(s)
      BY <1>1, <1>2, <2>1, <3>1, UnstackPc
    <3> QED
      BY <3>2 DEF UnstackInsns, LeaveInsns
  <2> QED
    BY <2>1
<1> QED
  BY <1>1, <1>5, <1>6, <1>7, NoStatement, NoIteration DEF IInv

LEMMA StepDie ==
  ASSUME IInv, Die
  PROVE  IInv'
<1>1. /\ Evals(PL) # {} /\ outer' = SubSeq(outer, 1, Len(outer) - 1)
      /\ at' = "perl" /\ call' = Return /\ pc' = 1 /\ mortals' = {}
      /\ UNCHANGED << sig_pending, entry >>
  BY DEF Die
<1>2. PICK t \in PL.tmps_ix..MaxTmps : PL' = Died(PL, t)
  BY DEF Die, Died
<1>3. t \in Nat /\ PL.tmps_ix <= t
  <2>1. PL.tmps_ix \in Nat /\ MaxTmps \in Nat
    BY Typed, PartTypes, StmtAssumption
  <2> QED
    BY <1>2, <2>1
<1>4. /\ StacksOK(PL') /\ Len(outer) >= 1
      /\ OuterOK(PL', SubSeq(outer, 1, Len(outer) - 1))
  BY <1>1, <1>2, <1>3, Typed, DieStays
<1>5. TypeOK'
  <2>1. outer' \in Seq(PLType)
    BY <1>1, <1>4, Typed
  <2>2. PL' \in PLType
    BY <1>4 DEF StacksOK
  <2>3. call' \in Call /\ pc' \in Nat
    BY <1>1 DEF Return, Call
  <2> QED
    BY <1>1, <2>1, <2>2, <2>3, Typed DEF TypeOK
<1>6. FramesOK'
  BY <1>1, <1>4 DEF FramesOK
<1>7. CodeOK'
  BY <1>1 DEF CodeOK, Running
<1> QED
  BY <1>1, <1>5, <1>6, <1>7, Outside DEF IInv

(* The program around the body.                                            *)
LEMMA StepEnterBlock ==
  ASSUME IInv, NEW x \in Around, EnterBlock(x)
  PROVE  IInv'
<1>1. /\ at = "perl" /\ at' = "perl" /\ mortals = {} /\ mortals' = {}
      /\ UNCHANGED << sig_pending, call, pc, entry >>
  BY DEF EnterBlock, IInv, CodeOK
<1>2. PICK ix \in PL.tmps_floor..PL.tmps_floor + 1 :
        LET p == [PL EXCEPT !.tmps_ix = ix, !.tainted = FALSE]
        IN  /\ PL' = IF x = "eval" THEN pp_entertry(p) ELSE pp_enterloop(p, LoopOp)
            /\ outer' = IF x = "eval" THEN Append(outer, p) ELSE outer
  BY DEF EnterBlock
<1>3. PICK p : p = [PL EXCEPT !.tmps_ix = ix, !.tainted = FALSE]
  OBVIOUS
<1>4. /\ PL' = IF x = "eval" THEN pp_entertry(p) ELSE pp_enterloop(p, LoopOp)
      /\ outer' = IF x = "eval" THEN Append(outer, p) ELSE outer
  BY <1>2, <1>3
<1>5. StacksOK(p) /\ OuterOK(p, outer) /\ p \in PLType
  <2>1. PL \in PLType /\ StacksOK(PL) /\ PL.tmps_floor \in Nat
    BY Typed, PartTypes
  <2>2. ix \in Nat /\ PL.tmps_floor <= ix
    BY <1>2, <2>1
  <2>3. PICK p1 : p1 = [PL EXCEPT !.tmps_ix = ix]
    OBVIOUS
  <2>4. PICK b \in BOOLEAN : b = FALSE
    OBVIOUS
  <2>5. /\ p1 \in PLType /\ p1.cxstack = PL.cxstack /\ p1.scopestack = PL.scopestack
        /\ p1.savestack = PL.savestack /\ p1.tmps_floor = PL.tmps_floor
        /\ p1.tmps_ix = ix
    BY <2>1, <2>2, <2>3 DEF PLType
  <2>6. p = [p1 EXCEPT !.tainted = b]
    BY <1>3, <2>3, <2>4
  <2>7. /\ p \in PLType /\ p.cxstack = PL.cxstack /\ p.scopestack = PL.scopestack
        /\ p.savestack = PL.savestack /\ p.tmps_floor = PL.tmps_floor
        /\ p.tmps_floor <= p.tmps_ix
    BY <2>2, <2>5, <2>6 DEF PLType
  <2>8. Within(PL, p)
    BY <2>1, <2>7, PlainIsWithin
  <2> QED
    BY <2>1, <2>7, <2>8, Typed, WithinStays
<1>6. StacksOK(PL') /\ OuterOK(PL', outer') /\ outer' \in Seq(PLType)
  <2>1. CASE x = "eval"
    <3>1. PL' = pp_entertry(p) /\ outer' = Append(outer, p)
      BY <1>4, <2>1
    <3>2. PICK c \in Context : /\ c.type = "eval" /\ c.oldsp = p.stack_sp
                               /\ c.oldcop = p.curcop /\ Opens(p, PL', c)
      BY <1>5, <3>1, EnterEvalOpens
    <3>3. outer \in Seq(PLType)
      BY Typed
    <3> QED
      BY <1>5, <3>1, <3>2, <3>3, EvalStays
  <2>2. CASE x # "eval"
    <3>1. PL' = pp_enterloop(p, LoopOp) /\ outer' = outer /\ LoopOp \in Op
      BY <1>4, <2>2, StmtAssumption
    <3>2. PICK c \in Context : c.type = "loop" /\ Opens(p, PL', c)
      BY <1>5, <3>1, EnterLoopOpens
    <3> QED
      BY <1>5, <3>1, <3>2, Typed, OpensStays
  <2> QED
    BY <2>1, <2>2
<1>7. TypeOK'
  BY <1>1, <1>6, Typed DEF TypeOK, StacksOK
<1>8. FramesOK'
  BY <1>1, <1>6 DEF FramesOK
<1>9. CodeOK'
  BY <1>1 DEF CodeOK, Running
<1> QED
  BY <1>1, <1>7, <1>8, <1>9, Outside DEF IInv

LEMMA StepDispatch ==
  ASSUME IInv, Dispatch
  PROVE  IInv'
<1>1. /\ at' = "boundary" /\ entry' = Stacks(PL)
      /\ UNCHANGED << PL, sig_pending, call, pc, outer, mortals >>
  BY DEF Dispatch
<1>2. EntryOK(PL, entry') /\ entry' \in Seq(Context) \X Seq(Nat) \X Nat
  BY <1>1, Typed, EntryAtDispatch
<1>3. TypeOK'
  BY <1>1, <1>2 DEF IInv, TypeOK
<1>4. FramesOK'
  BY <1>1, <1>2 DEF IInv, FramesOK
<1>5. CodeOK'
  BY <1>1 DEF CodeOK, Running
<1> QED
  BY <1>1, <1>3, <1>4, <1>5, Outside DEF IInv

LEMMA StepBegin ==
  ASSUME IInv, NEW c \in Callable, Begin(c)
  PROVE  IInv'
<1>1. /\ at = "boundary" /\ at' = "code" /\ call' = c /\ pc' = 1 /\ MayBegin(c)
      /\ UNCHANGED << PL, sig_pending, outer, entry, mortals >>
  BY DEF Begin
<1>2. c \in Call /\ Len(Code(c)) \in Nat /\ Len(Code(c)) >= 1
  BY CallCases, CodeIs DEF CodeShape
<1>3. TypeOK'
  BY <1>1, <1>2 DEF IInv, TypeOK
<1>4. FramesOK'
  BY <1>1 DEF IInv, FramesOK
<1>5. CodeOK'
  <2>1. MayBegin(c)'
    BY <1>1 DEF MayBegin, Cx, Depth
  <2>2. 1 \in 1..Len(Code(c))
    BY <1>2
  <2> QED
    BY <1>1, <2>1, <2>2 DEF CodeOK, Running
<1>6. StatementOK' /\ IterationOK'
  BY <1>1 DEF StatementOK, IterationOK
<1> QED
  BY <1>3, <1>4, <1>5, <1>6 DEF IInv

LEMMA StepReturnBody ==
  ASSUME IInv, ReturnBody
  PROVE  IInv'
<1>1. /\ at = "boundary" /\ at' = "boundary" /\ call' = Return /\ mortals' = {}
      /\ UNCHANGED << PL, sig_pending, pc, outer, entry >>
  BY DEF ReturnBody
<1>2. call' \in Call
  BY <1>1 DEF Return, Call
<1>3. TypeOK'
  BY <1>1, <1>2 DEF IInv, TypeOK
<1>4. FramesOK'
  BY <1>1 DEF IInv, FramesOK
<1>5. CodeOK'
  BY <1>1 DEF CodeOK, Running
<1> QED
  BY <1>1, <1>3, <1>4, <1>5, Outside DEF IInv

LEMMA StepSigArrive ==
  ASSUME IInv, SigArrive \/ UNCHANGED vars
  PROVE  IInv'
<1>1. /\ UNCHANGED << PL, at, call, pc, outer, entry, mortals >>
      /\ sig_pending' \in BOOLEAN
  BY Typed DEF SigArrive, vars
<1>2. TypeOK'
  BY <1>1 DEF IInv, TypeOK
<1>3. FramesOK'
  BY <1>1 DEF IInv, FramesOK
<1>4. CodeOK'
  BY <1>1 DEF IInv, CodeOK, Running, MayBegin, Cx, Depth, Instr
<1>5. StatementOK' /\ IterationOK'
  BY <1>1 DEF IInv, StatementOK, IterationOK, Running, Depth, Mark
<1> QED
  BY <1>2, <1>3, <1>4, <1>5 DEF IInv

LEMMA InitInv == Init => IInv
<1> SUFFICES ASSUME Init PROVE IInv
  OBVIOUS
<1>1. /\ PL = pp_enter(NoPL) /\ outer = << >> /\ sig_pending = FALSE
      /\ at = "perl" /\ call = Return /\ pc = 1 /\ entry = Stacks(PL)
      /\ mortals = {}
  BY DEF Init
<1>2. StacksOK(PL) /\ OuterOK(PL, outer)
  BY <1>1, InitStacks
<1>3. entry \in Seq(Context) \X Seq(Nat) \X Nat
  BY <1>1, <1>2, EntryAtDispatch
<1>4. call \in Call
  BY <1>1 DEF Return, Call
<1>5. TypeOK
  <2>1. PL \in PLType
    BY <1>2 DEF StacksOK
  <2>2. outer \in Seq(PLType)
    BY <1>1
  <2>3. mortals \subseteq [ix : Nat, depth : Nat] /\ pc \in Nat
    BY <1>1
  <2>4. sig_pending \in BOOLEAN /\ at \in {"perl", "boundary", "code", "call"}
    BY <1>1
  <2> QED
    BY <1>3, <1>4, <2>1, <2>2, <2>3, <2>4 DEF TypeOK
<1>6. FramesOK
  BY <1>1, <1>2 DEF FramesOK
<1> QED
  BY <1>1, <1>5, <1>6 DEF IInv, CodeOK, Running, StatementOK, IterationOK

LEMMA StepInv == IInv /\ [Next]_vars => IInv'
<1> SUFFICES ASSUME IInv, [Next]_vars PROVE IInv'
  OBVIOUS
<1>1. CASE \E x \in Around : EnterBlock(x)
  BY <1>1, StepEnterBlock
<1>2. CASE Dispatch
  BY <1>2, StepDispatch
<1>3. CASE Die
  BY <1>3, StepDie
<1>4. CASE \E c \in Callable : Begin(c)
  BY <1>4, StepBegin
<1>5. CASE ReturnBody
  BY <1>5, StepReturnBody
<1>6. CASE ExecSet
  BY <1>6, StepSet
<1>7. CASE ExecRestoreSp
  BY <1>7, StepRestoreSp
<1>8. CASE ExecBranch
  BY <1>8, StepBranch
<1>9. CASE ExecOther
  BY <1>9, StepOther
<1>10. CASE CallStart
  BY <1>10, StepCallStart
<1>11. CASE CallEnd
  BY <1>11, StepCallEnd
<1>12. CASE RunloopEnd
  BY <1>12, StepRunloopEnd
<1>13. CASE SigArrive \/ UNCHANGED vars
  BY <1>13, StepSigArrive
<1> QED
  BY <1>1, <1>2, <1>3, <1>4, <1>5, <1>6, <1>7, <1>8, <1>9, <1>10, <1>11, <1>12,
     <1>13 DEF Next

-----------------------------------------------------------------------------
(* IInv is an invariant: however bodies nest loops, leave them, are left   *)
(* by a die, and are entered again, the stacks are an arrangement of the   *)
(* frames of the present contexts (the code of jitapi.c:117-223 and what   *)
(* Perl does when that code calls it).                                     *)
THEOREM Invariant == Spec => []IInv
<1> QED
  BY InitInv, StepInv, PTL DEF Spec

(* What the invariant says of the properties of JitStmt.                   *)
LEMMA InvTypeOK == IInv => TypeOK
BY DEF IInv

LEMMA InvBalanced == IInv => BodyBalanced
<1> SUFFICES ASSUME IInv, at = "boundary", Depth = Len(entry[1])
             PROVE  Stacks(PL) = entry
  BY DEF BodyBalanced
<1>1. Len(PL.cxstack) = Len(entry[1]) /\ EntryOK(PL, entry)
  BY Typed DEF Depth
<1> QED
  BY <1>1, Typed, EntryAtReturn

LEMMA InvOuterLive == IInv => OuterMortalsLive
BY Typed DEF OuterMortalsLive, MortalOK

LEMMA InvHook == IInv => HookSeesStatement
<1> SUFFICES ASSUME IInv, at = "call", call.f = "pa_pp_nextstate",
                    Instr = CallNative("signalhook")
             PROVE  /\ PL.curcop = call.op
                    /\ PL.tmps_ix = PL.tmps_floor
                    /\ Depth = 1 => PL.stack_sp = PL.cxstack[1].oldsp
  BY DEF HookSeesStatement
<1>1. Running /\ Instr = Code(call)[pc]
  BY DEF Running, Instr
<1>2. Instr.i = "call" /\ Instr.fn = "signalhook"
  BY DEF CallNative
<1>3. NextstateInsns(Code(call), call.op) /\ pc \in 1..9
  BY <1>1, InNextstate
<1>4. pc = 8
  BY <1>1, <1>2, <1>3 DEF NextstateInsns
<1> QED
  BY <1>1, <1>4 DEF IInv, StatementOK

LEMMA InvIterationEnds == IInv => UnstackEndsIteration
<1> SUFFICES ASSUME IInv, at = "code", Instr = Label("save_not_gt")
             PROVE  Len(PL.savestack) = Mark(PL) /\ PL.tmps_ix = PL.tmps_floor
  BY DEF UnstackEndsIteration
<1>1. Running /\ Instr = Code(call)[pc]
  BY DEF Running, Instr
<1>2. Instr.i = "label" /\ Instr.label = "save_not_gt"
  BY DEF Label
<1>3. call.f = "pa_pp_unstack" /\ pc = 11
  BY <1>1, <1>2, Executing DEF InsnOK
<1> QED
  BY <1>1, <1>3 DEF IInv, IterationOK

(* Every variable keeps its type: the contexts, marks and saved values     *)
(* that Perl's functions read off the stacks are there to be read.         *)
THEOREM TypeCorrect == Spec => []TypeOK
<1> QED
  BY Invariant, InvTypeOK, PTL

(* A body that has left the loops it entered gives the contexts, the       *)
(* scopes and the floor of the temporaries back as it got them, however    *)
(* many iterations ended in pa_pp_unstack and whatever its OPs pushed      *)
(* (jitapi.c:117-127, 217-223).                                            *)
THEOREM Balanced == Spec => []BodyBalanced
<1> QED
  BY Invariant, InvBalanced, PTL

(* A mortal that the body made before it entered a loop lives as long as   *)
(* the loop, whatever statements and iterations free inside it             *)
(* (jitapi.c:150-175).                                                     *)
THEOREM OuterLive == Spec => []OuterMortalsLive
<1> QED
  BY Invariant, InvOuterLive, PTL

(* The signal handlers that pa_pp_nextstate runs find the new statement    *)
(* set up (jitapi.c:203-207).                                              *)
THEOREM HookInside == Spec => []HookSeesStatement
<1> QED
  BY Invariant, InvHook, PTL

(* pa_pp_unstack(TRUE) ends the iteration on both branches of its checks:  *)
(* when it skips a call there was nothing to free or to clear              *)
(* (jitapi.c:150-175, 215-223).                                            *)
THEOREM IterationEnds == Spec => []UnstackEndsIteration
<1> QED
  BY Invariant, InvIterationEnds, PTL

(* A die out of a body, from any call, finds everything below the          *)
(* innermost eval as it was when the eval was entered, and Perl's unwind   *)
(* takes off all the rest.                                                 *)
THEOREM Restored == Spec => DieRestores
<1>1. IInv /\ [Next]_vars =>
        [Die => LET o == outer[Len(outer)]
                IN  Frame(PL') = Frame(o) /\ PL'.tmps_ix >= o.tmps_ix]_vars
  <2> SUFFICES ASSUME IInv, Die
               PROVE  /\ Frame(PL') = Frame(outer[Len(outer)])
                      /\ PL'.tmps_ix >= outer[Len(outer)].tmps_ix
    OBVIOUS
  <2>1. Evals(PL) # {}
    BY DEF Die
  <2>2. PICK t \in PL.tmps_ix..MaxTmps : PL' = Died(PL, t)
    BY DEF Die, Died
  <2>3. t \in Nat /\ PL.tmps_ix <= t
    <3>1. PL.tmps_ix \in Nat /\ MaxTmps \in Nat
      BY Typed, PartTypes, StmtAssumption
    <3> QED
      BY <2>2, <3>1
  <2> QED
    BY <2>1, <2>2, <2>3, Typed, DieStays
<1> QED
  BY <1>1, Invariant, PTL DEF DieRestores, Spec

=============================================================================

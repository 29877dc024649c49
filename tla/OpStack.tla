------------------------------ MODULE OpStack ------------------------------
(***************************************************************************)
(* What compiled OPs owe to the code around them: a stack discipline.      *)
(* Each activation (a run loop, or a compiled function called directly) is *)
(* executing an OP, and may execute one other OP inside it.  An activation *)
(* only ever changes its own entry: whatever begins and ends above it, it  *)
(* goes on with the OP it was executing.                                   *)
(***************************************************************************)
EXTENDS Integers, Sequences

CONSTANTS
  Op, NULL,
  succ,       (* succ[o]: the OPs that may follow o                        *)
  RestartOp   (* where an activation may restart after a die               *)

VARIABLE stack  (* <<o>> or <<o, inner>> for each activation               *)

Entry == stack[Len(stack)]

Init == stack = << >>

(* A run starts.                                                           *)
Start == stack = << >> /\ \E o \in Op : stack' = << << o >> >>

(* An activation begins above the present one.                             *)
Begin == stack # << >> /\ \E o \in Op : stack' = Append(stack, << o >>)

(* The OP finishes and its activation goes on with one that follows it.    *)
Advance ==
  /\ stack # << >> /\ Len(Entry) = 1 /\ Entry[1] \in Op
  /\ \E o \in succ[Entry[1]] :
       stack' = [stack EXCEPT ![Len(stack)] = << o >>]

(* The OP starts and finishes another one inside it.                       *)
Nest ==
  /\ stack # << >> /\ Len(Entry) = 1
  /\ \E o \in Op : stack' = [stack EXCEPT ![Len(stack)] = << @[1], o >>]

Unnest ==
  /\ stack # << >> /\ Len(Entry) = 2
  /\ stack' = [stack EXCEPT ![Len(stack)] = << @[1] >>]

(* The last activation ends.                                               *)
End ==
  /\ stack # << >> /\ Len(Entry) = 1
  /\ stack' = SubSeq(stack, 1, Len(stack) - 1)

(* A die ends some activations and restarts the one below.                 *)
Unwind ==
  \E m \in 1..Len(stack), o \in RestartOp :
    stack' = Append(SubSeq(stack, 1, m - 1), << o >>)

Next == Start \/ Begin \/ Advance \/ Nest \/ Unnest \/ End \/ Unwind

Spec == Init /\ [][Next]_stack

=============================================================================

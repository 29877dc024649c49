--------------------------- MODULE MCJitThreads ---------------------------
(* Instances of JitThreads: the main interpreter and a clone of it, which  *)
(* share a context.                                                        *)
EXTENDS JitThreads

CONSTANTS main, c, o

(* Every interpreter may emit each kind of call.                           *)
MCEmits == [i \in Interp |-> {"IVAR", "call", "undef"}]

=============================================================================

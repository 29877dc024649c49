----------------------------- MODULE MCJitValue -----------------------------
(* Instances of JitValue for TLC: two numbers are enough to tell a stale   *)
(* read from a fresh one.                                                  *)
EXTENDS JitValue
=============================================================================

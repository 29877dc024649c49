----------------------------- MODULE MCJitTypes -----------------------------
(***************************************************************************)
(* Builds of perl: 32 and 64 bits, 64-bit integers on 32 bits, long        *)
(* doubles, threads, and a bool of one byte or of an int.  A perl with     *)
(* __float128 numbers is left out, see README.                             *)
(***************************************************************************)
EXTENDS JitTypes

Build(iv, nint, nv, nfloat, bool, usethreads) ==
    [IV |-> iv, nint |-> nint, NV |-> nv, nfloat |-> nfloat, bool |-> bool,
     usethreads |-> usethreads]

MCPlatforms ==
    {Build(8, 8, "float64", "x87_16", 1, TRUE),
     Build(8, 8, "x87_16", "x87_16", 1, FALSE),
     Build(8, 8, "x87_12", "x87_16", 1, FALSE),  \* does not compile
     Build(4, 4, "float64", "x87_12", 1, FALSE),
     Build(8, 4, "x87_12", "x87_12", 1, TRUE),
     Build(8, 4, "float64", "float64", 4, FALSE)}

MCNVs == {0, 1}

\* What the theorems about JitTypes ask of the builds holds of these.
ASSUME FormatsTold == SizeTellsFormat
=============================================================================

SPECIFICATION Spec
CONSTANTS
  PL_sv_undef = PL_sv_undef
  NULL = NULL
  SV = {s1, s2, s3, s4, s5, s6, s7, s8, s9, s10}
  Val = {v}
  r1 = r1
  r2 = r2
  Reg = {r1, r2}
  Index <- MCIndex
  MaxElems = 2
  MaxScopes = 1
  MaxClosures = 2
VIEW MCView
INVARIANTS TypeOK
PROPERTIES ImplementsVars

SPECIFICATION Spec
CONSTANTS
  s = s
  j = j
  l = l
  NULL = NULL
  Op = {s, j, l}
  CxWords = 2
  JitOp = j
  LoopOp = l
  Around = {"loop", "eval"}
  Callable <- MCCallable
  MaxSp = 1
  MaxTmps = 2
  MaxSave = 5
  MaxCx = 3
INVARIANTS TypeOK HookSeesStatement BodyBalanced OuterMortalsLive UnstackEndsIteration
PROPERTIES DieRestores

SPECIFICATION Spec
CONSTANTS
  s = s
  j = j
  l = l
  NULL = NULL
  Op = {s, j, l}
  CxWords = 2
  JitOp = j
  LoopOp = l
  Around = {"loop", "eval"}
  Callable <- MCEnterloop
  MaxSp = 1
  MaxTmps = 2
  MaxSave = 4
  MaxCx = 3
PROPERTIES EnterloopIgnoresOp

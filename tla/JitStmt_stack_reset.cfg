SPECIFICATION Spec
CONSTANTS
  s = s
  j = j
  l = l
  NULL = NULL
  Op = {s, j, l}
  CxWords = 2
  JitOp = j
  LoopOp = l
  Around = {"loop", "eval"}
  Callable <- MCStatements
  MaxSp = 2
  MaxTmps = 2
  MaxSave = 2
  MaxCx = 2
PROPERTIES StackCutToContext

SPECIFICATION FairSpec
CONSTANTS
  main = main
  c = c
  Main = main
  Nobody = Nobody
  o = o
  Interp = {main, c}
  JitOp = {o}
  Emits <- MCEmits
  MayDie = {main, c}
  MaxBuilds = 2
  MaxCalls = 2
  MaxDepth = 2
INVARIANTS TypeOK OwnVariables
PROPERTIES BuilderGetsLock
CHECK_DEADLOCK FALSE

SPECIFICATION FairSpec
CONSTANTS
  s = s
  j = j
  k = k
  a = a
  cb = cb
  NULL = NULL
  Op = {s, j, k, a, cb}
  JitOp = {j, k}
  StartOp = {s}
  CallbackOp = {j, cb}
  RestartOp = {s, NULL}
  op_next <- MCNext
  op_succ <- MCSucc
  Callable <- MCCallable
  Reentrant = {"pp", "signalhook", "helper"}
  Dying = {"pp", "signalhook", "helper"}
  MaxCalls = 2
  MaxLevels = 3
INVARIANTS TypeOK OpAtBoundary NativeSeesItsOp WaitingGetsItsOp
PROPERTIES SignalDespatched ImplementsOpStack

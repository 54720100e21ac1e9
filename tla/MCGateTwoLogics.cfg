SPECIFICATION Spec
CONSTANTS
  l1 = l1
  l2 = l2
  u1 = u1
  u2 = u2
  NoConn = NoConn
  Conns = {l1, l2, u1}
  Fds = {1, 2}
  Uids = {1, 2}
  ClientFrames <- TwoLogics
  MayClose = {l1, u1}
  MaxWorkers = 2
  MaxSend <- Once
  MaxQueue = 1
INVARIANTS OneWatcher ReadsOwn NotStranded

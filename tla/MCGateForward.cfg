SPECIFICATION Spec
CONSTANTS
  l1 = l1
  l2 = l2
  u1 = u1
  u2 = u2
  NoConn = NoConn
  Conns = {l1, u1, u2}
  Fds = {1, 2}
  Uids = {1, 2}
  ClientFrames <- TwoUsers
  MayClose = {l1, u1, u2}
  MaxWorkers = 1
  MaxSend <- Once
  MaxQueue = 1
INVARIANTS ForwardsToLogic

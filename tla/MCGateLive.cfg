SPECIFICATION FairSpec
CONSTANTS
  l1 = l1
  l2 = l2
  u1 = u1
  u2 = u2
  NoConn = NoConn
  Conns = {l1, u1, u2}
  Fds = {1, 2, 3}
  Uids = {1, 2}
  ClientFrames <- OneWay
  MayClose = {u1}
  MaxWorkers = 1
  MaxSend <- OnceOrOther
  MaxQueue = 1
PROPERTIES HandoverCompletes ForwardedInTheEnd EndIsTold

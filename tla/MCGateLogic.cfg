SPECIFICATION GateLogicSpec
CONSTANTS
  l1 = l1
  u1 = u1
  u2 = u2
  NoConn = NoConn
  Conns = {l1, u1, u2}
  Fds = {1, 2, 3}
  Uids = {1, 2}
  ClientFrames <- Clients
  MayClose = {u1, u2}
  MaxWorkers = 1
  MaxSend <- Sends
  MaxQueue = 1
  Logic = l1
INVARIANTS TypeOK LoginAuthentic NeverUnknown PresenceTold   MapsAgree

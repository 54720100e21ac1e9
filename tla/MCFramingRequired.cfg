SPECIFICATION Spec
CONSTANTS
  c1 = c1
  c2 = c2
  Conns = {c1, c2}
  Peers <- MCPeers
  Junk <- MCJunk
  READ_SIZE = 6
  DEF_LINE_BUFF_SIZE = 8
  LINE_LIMIT = 16
  LINE_STEP = 4
  MAX_PKG = 16
INVARIANT RequiredArrive

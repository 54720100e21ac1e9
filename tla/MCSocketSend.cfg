SPECIFICATION Spec
CONSTANTS
  Chunk = 2
  Room = 3
  Lens = {1, 3}
  MaxMsgs = 3
INVARIANTS NothingTwice KeptInOrder
PROPERTY ReachesPeer

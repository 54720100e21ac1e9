SPECIFICATION Spec
CONSTANTS
  m1 = m1
  m2 = m2
  h1 = h1
  FREED = FREED
  NULL = NULL
  Msgs = {m1, m2}
  Hands = {h1}
  Addrs = {1, 2, 3, 4, 5}
  Strings <- SmallStrings
  Numbers <- EdgeNumbers
SYMMETRY Alike
INVARIANTS OwnedOnce WritesWhatItHolds ObjectsAreValues

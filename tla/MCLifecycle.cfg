SPECIFICATION Spec
CONSTANTS
  u1 = u1
  u2 = u2
  Users = {u1, u2}
  Fds = {1, 2, 3, 4, 5, 6, 7}
  MaxFaults = 1
INVARIANTS TypeOK NumbersOwn CleanlyDown
PROPERTY StopCompletes

SPECIFICATION Spec
CONSTANTS
  n1 = n1
  n2 = n2
  p1 = p1
  p2 = p2
  Names = {n1, n2}
  Passwds = {p1, p2}
  MaxRequests = 4
  MaxFaults = 2
INVARIANTS TypeOK OneAccount
PROPERTIES ImplementsService Truthful

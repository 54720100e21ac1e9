SPECIFICATION Spec
CONSTANTS
  Byte <- MCByte
  Zero = 0
  Data <- MCData
  Sizes <- MCSizes
  DEFAULT_BUFF_SIZE = 2
  GROW_LIMIT = 2
  MaxData = 4
INVARIANTS TypeOK SpansInside
PROPERTIES ImplementsByteQueue AddTerminates

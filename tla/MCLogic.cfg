SPECIFICATION Spec
CONSTANTS
  Uids = {1}
  Sths = {"a", "b"}
  Frames <- OneUser
  MaxSaid = 3
INVARIANTS TypeOK IoMsgsOwned
PROPERTIES ImplementsService WokenDrains AnswersGoOut StopCompletes

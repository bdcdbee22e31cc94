SPECIFICATION FairSpec
CONSTANTS
  Cpus = {c1, c2}
  Slots = 2
  Fallible = {"read", "decode"}
  MaxEvents = 4
  MaxErrors = 2
INVARIANTS
  TypeOK
  EveryRecordAccounted
PROPERTIES
  AcceptedIsLogged
  CloseEnds
  ImplementsAnomalyLog
CHECK_DEADLOCK FALSE

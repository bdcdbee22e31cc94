SPECIFICATION FairSpec
CONSTANTS
  Procs = {p1, p2}
  None = None
  Hooks <- MCHooks
  Fallible <- MCFallible
  GcIntervals = {0, 1}
  Word = 64
  NsPerUs = 4
  Defaults <- MCDefaults
  Flags <- MCFlags
  MaxLatency = 16
INVARIANTS
  TypeOK
  ExitLeavesNothing
  ServingIsAttached
  VerdictFollowsFlags
  NoBlindScrape
PROPERTIES
  SignalEndsAgent
CHECK_DEADLOCK FALSE

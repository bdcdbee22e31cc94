SPECIFICATION Spec
CONSTANTS
  Procs = {p1}
  None = None
  Hooks <- MCHooks
  Fallible = {"egress"}
  GcIntervals = {1}
  Word = 64
  NsPerUs = 4
  Defaults <- MCDefaults
  Flags <- MCFlags
  MaxLatency = 16
INVARIANTS
  FiltersAreCleanedUp
CHECK_DEADLOCK FALSE

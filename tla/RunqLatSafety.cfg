SPECIFICATION Spec
CONSTANTS
  Keys = {1, 2}
  None = None
  MaxEntries = 1
  Cpus = {c1, c2}
  HighRunqlat = 1
  NsPerUs = 2
  MaxClock = 4
  MaxWakeups = 2
SYMMETRY CpuSymmetry
INVARIANTS
  EachWakeupMeasuredOnce
  SleeperSampleIsExact
CHECK_DEADLOCK FALSE

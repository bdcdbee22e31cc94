SPECIFICATION Spec
CONSTANTS
  Keys = {1, 2, 3}
  None = None
  MaxEntries = 1
  Cpus = {c1, c2}
  Ipv4 = {1, 2}
  ShortTcpConn = 2
  NsPerUs = 1
  MaxClock = 3
  MaxMoves = 2
INVARIANTS
  EveryLeaveIsCounted
CHECK_DEADLOCK FALSE

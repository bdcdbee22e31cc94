SPECIFICATION Spec
CONSTANTS
  Keys = {1}
  None = None
  MaxEntries = 1
  Socks = {s1}
  SlowTcpRtt = 1
  RetransWindow = 2
  RetransBurst = 3
  EventCooldown = 1
  CwndDropPct = 50
  Samples <- MCSamples
  Word = 16
  MaxClock = 6
  MaxRcvs = 0
  MaxRetrans = 4
INVARIANT EveryBurstIsReported
CHECK_DEADLOCK FALSE

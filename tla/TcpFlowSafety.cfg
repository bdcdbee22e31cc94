SPECIFICATION Spec
CONSTANTS
  Keys = {1, 2}
  None = None
  MaxEntries = 1
  Socks = {s1, s2}
  SlowTcpRtt = 1
  RetransWindow = 2
  RetransBurst = 2
  EventCooldown = 1
  CwndDropPct = 50
  Samples <- MCSamples
  Word = 16
  MaxClock = 4
  MaxRcvs = 2
  MaxRetrans = 3
SYMMETRY SockSymmetry
INVARIANTS
  BurstIsReal
  DenseBurstIsReported
  CooldownHeld
  DropIsReal
  RetransCountIsReal
CHECK_DEADLOCK FALSE

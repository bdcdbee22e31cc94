SPECIFICATION FairSpec
CONSTANTS
  Keys = {1}
  None = None
  MaxEntries = 1
  Cpus = {c1, c2}
  UdpIdle = 1
  LongUdpFlow = 1
  EventCooldown = 1
  NsPerUs = 1
  Word = 16
  MaxClock = 4
  MaxPackets = 3
INVARIANTS
  TypeOK
  PacketsNotOvercounted
  LongFlowIsLong
  CooldownHeldOnOneCpu
PROPERTIES
  GcTakesOnlyIdle
  IdleFlowIsCollected

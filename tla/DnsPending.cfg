SPECIFICATION FairSpec
CONSTANTS
  Keys = {1, 2}
  None = None
  MaxEntries = 1
  Cpus = {c1, c2}
  Rcodes = {0, 2}
  DnsTimeout = 1
  SlowDnsFlag = 0
  DefaultSlowDns = 1
  NsPerUs = 2
  Word = 16
  MaxClock = 3
  MaxPackets = 3
INVARIANTS
  TypeOK
  LatencyFromRealQuery
  MeasuredOncePerCpu
  CountersAgree
PROPERTIES
  GcTakesOnlyExpired
  UnansweredQueryIsCollected

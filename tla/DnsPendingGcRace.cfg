SPECIFICATION Spec
CONSTANTS
  Keys = {1, 2}
  None = None
  MaxEntries = 1
  Cpus = {c1}
  Rcodes = {0}
  DnsTimeout = 1
  SlowDnsFlag = 0
  DefaultSlowDns = 1
  NsPerUs = 2
  Word = 16
  MaxClock = 4
  MaxPackets = 3
PROPERTIES
  GcNeverTakesLiveQuery

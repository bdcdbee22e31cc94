SPECIFICATION Spec
CONSTANTS
  Cpus = {c1, c2}
  Buckets = 3
  Samples = {2, 5}
  MaxSamples = 2
  MaxConns = 1
  MaxScrapes = 2
  MaxFails = 1
SYMMETRY CpuSymmetry
INVARIANTS
  BucketsAreExact
  FailureIsConfined
  CounterWithinHistogram
  GaugeWithinMoves
PROPERTIES
  NeverGoesDown
CHECK_DEADLOCK FALSE

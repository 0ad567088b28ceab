SPECIFICATION Spec
CONSTANTS
  item = item
  wake = wake
  dep = dep
  w1 = w1
  w2 = w2
  Work <- MCWork
  Deps <- MCDeps
  WakeOf <- MCWakeOf
  Workers <- MCWorkers
  NoWorker = NoWorker
  NoDep = NoDep
  Atomic = {}
  Tagged = {}
  EarlyReaders = {item}
  RecoveryWork = {item}
  FailureKinds = {}
  Pages = 2
  LeaseLen = 2
  MaxDelay = 1
  MaxFailures = 2
  MaxRevision = 2
  MaxDepRevision = 0
  MaxGeneration = 1
  MaxLapses = 2
SYMMETRY MCSymmetry
INVARIANT
  NoLostInvalidation
CHECK_DEADLOCK FALSE

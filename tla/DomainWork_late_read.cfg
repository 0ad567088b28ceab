SPECIFICATION Spec
CONSTANTS
  item = item
  wake = wake
  dep = dep
  w1 = w1
  w2 = w2
  Work <- MCWork
  Deps <- MCDeps
  WakeOf <- MCWakeOf
  Workers <- MCWorkers
  NoWorker = NoWorker
  NoDep = NoDep
  Atomic = {item}
  Tagged = {item}
  EarlyReaders = {}
  RecoveryWork = {}
  FailureKinds = {}
  Pages = 1
  LeaseLen = 2
  MaxDelay = 1
  MaxFailures = 2
  MaxRevision = 1
  MaxDepRevision = 2
  MaxGeneration = 1
  MaxLapses = 0
SYMMETRY MCSymmetry
INVARIANT
  BlockedForCause
CHECK_DEADLOCK FALSE

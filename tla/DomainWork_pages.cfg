SPECIFICATION Spec
CONSTANTS
  item = item
  wake = wake
  dep = dep
  w1 = w1
  w2 = w2
  Work <- MCWork
  Deps <- MCDeps
  WakeOf <- MCWakeOf
  Workers <- MCWorkers
  NoWorker = NoWorker
  NoDep = NoDep
  Atomic = {item}
  Tagged = {item}
  EarlyReaders = {item}
  RecoveryWork = {item}
  FailureKinds = {"other", "database"}
  Pages = 2
  LeaseLen = 1
  MaxDelay = 1
  MaxFailures = 2
  MaxRevision = 2
  MaxDepRevision = 0
  MaxGeneration = 2
  MaxLapses = 2
SYMMETRY MCSymmetry
INVARIANTS
  TypeOK
  NoLostInvalidation
  GenerationFenced
PROPERTIES
  Promised
CHECK_DEADLOCK FALSE

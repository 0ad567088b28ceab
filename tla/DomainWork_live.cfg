SPECIFICATION FairSpec
CONSTANTS
  item = item
  wake = wake
  dep = dep
  w1 = w1
  w2 = w2
  Work <- MCWork
  Deps <- MCDeps
  WakeOf <- MCWakeOf
  Workers <- MCWorkers
  NoWorker = NoWorker
  NoDep = NoDep
  Atomic = {item}
  Tagged = {item}
  EarlyReaders = {item}
  RecoveryWork = {}
  FailureKinds = {}
  Pages = 2
  LeaseLen = 1
  MaxDelay = 1
  MaxFailures = 2
  MaxRevision = 2
  MaxDepRevision = 1
  MaxGeneration = 1
  MaxLapses = 1
INVARIANTS SleepersAreWoken
PROPERTIES EventuallyAtRest
CHECK_DEADLOCK FALSE

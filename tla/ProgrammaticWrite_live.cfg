SPECIFICATION FairSpec
CONSTANTS
  relay = relay
  cancel = cancel
  mass = mass
  again = again
  None = None
  Kind <- MCKind
  Payload <- MCPayload
  Writes = {relay, cancel}
  Devices = {laptop}
  LeaseLen = 1
  Window = 2
  MaxWire = 2
  Persistent = FALSE
INVARIANTS TypeOK OutcomeIsTrue
PROPERTIES GrantedIsDecided
CHECK_DEADLOCK FALSE

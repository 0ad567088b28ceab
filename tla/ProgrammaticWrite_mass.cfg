SPECIFICATION Spec
CONSTANTS
  relay = relay
  cancel = cancel
  mass = mass
  again = again
  None = None
  Kind <- MCKind
  Payload <- MCPayload
  Writes = {mass, again}
  Devices = {laptop, desk}
  LeaseLen = 1
  Window = 2
  MaxWire = 2
  Persistent = TRUE
INVARIANTS AtMostOnce NoBlindResend AcceptedIsSettleable
PROPERTIES Promised
CHECK_DEADLOCK FALSE

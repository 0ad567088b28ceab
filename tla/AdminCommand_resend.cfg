SPECIFICATION FairSpec
CONSTANTS
  first = first
  again = again
  other = other
  home = home
  NoReceipt = NoReceipt
  Requests = {first, again, other}
  Commands <- MCCommands
  Sessions = {home}
  CommandOf <- MCCommandOf
  RelatedOf <- MCRelatedOf
  IntentOf <- MCIntentOf
  SessionOf <- MCSessionOf
  Serializable = {other}
  MaxAttempts = 2
INVARIANTS TypeOK ReceiptTellsEffect AnswerIsDurable
PROPERTIES RevokedActsNoMore Promised EveryRequestAnswered
CHECK_DEADLOCK FALSE

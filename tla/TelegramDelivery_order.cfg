SPECIFICATION FairSpec
CONSTANTS
  Task = Task
  Cancellation = Cancellation
  first = first
  second = second
  Reminders = {first, second}
  MaxClaims <- MCMaxClaims
  MaxText = 1
INVARIANTS TypeOK OutOnRecord TaskTellsOrder
PROPERTIES CancellationFollows Promised
CHECK_DEADLOCK FALSE

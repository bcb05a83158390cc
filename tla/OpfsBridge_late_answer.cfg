CONSTANTS
  Clients = {"filesystem"}
  Kinds = {"call", "read", "write"}
  MaxCalls = 3
  MaxDeaths = 0
  Slow <- SlowRead
SPECIFICATION Spec
INVARIANT AnswersMatch
CHECK_DEADLOCK FALSE

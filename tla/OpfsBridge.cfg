CONSTANTS
  Clients = {"bridge", "filesystem"}
  Kinds = {"call", "read", "write"}
  MaxCalls = 3
  MaxDeaths = 1
  Slow <- Remembered
SPECIFICATION FairSpec
INVARIANT TypeOK
INVARIANT CarriedOutOnce
INVARIANT NoRace
PROPERTY CallsSpec
PROPERTY EveryCallReturns
CHECK_DEADLOCK FALSE

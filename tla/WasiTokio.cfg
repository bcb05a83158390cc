SPECIFICATION Spec
CONSTANTS
  MaxTasks = 2
  MaxSends = 1
  Selects = {{"recv", "join"}, {"join", "init"}}
INVARIANT TypeOK
INVARIANT InOnePlace
INVARIANT ChannelContract
PROPERTY SettledForGood
PROPERTY EveryBodyIsPolled
CHECK_DEADLOCK FALSE

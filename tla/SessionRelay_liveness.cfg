CONSTANTS
  c1 = c1
  c2 = c2
  r1 = r1
  NoConn = NoConn
  Conns = {c1, c2}
  Reqs = {r1}
  Kinds = {"initialize", "list", "stream"}
  Deployed = FALSE
  Statuses <- JustReady
  Backlogs = {0}
  MaxParts = 1
SPECIFICATION FairSpec
PROPERTY EveryRequestAnswered
PROPERTY RepliesSpec
CHECK_DEADLOCK FALSE

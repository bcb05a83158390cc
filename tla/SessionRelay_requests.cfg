CONSTANTS
  c1 = c1
  c2 = c2
  r1 = r1
  r2 = r2
  NoConn = NoConn
  Conns = {c1, c2}
  Reqs = {r1, r2}
  Kinds = {"call"}
  Deployed = TRUE
  Statuses <- JustReady
  Backlogs = {0}
  MaxParts = 0
SPECIFICATION Spec
SYMMETRY Symmetry
INVARIANT TypeOK
INVARIANT EveryWaiterIsPending
INVARIANT PendingFollowsSocket
INVARIANT OneBrowser
INVARIANT TokenIsDurable
CHECK_DEADLOCK FALSE

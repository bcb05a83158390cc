CONSTANTS
  c1 = c1
  c2 = c2
  r1 = r1
  b1 = b1
  b2 = b2
  NoConn = NoConn
  NoTab = NoTab
  Conns = {c1, c2}
  Reqs = {r1}
  Tabs = {b1, b2}
  Kinds = {"call"}
  Deployed = TRUE
  Statuses <- JustReady
  Backlogs = {0, 1, 2}
  MaxParts = 0
  App = "sdk"
  HasToken = TRUE
  MaxOpens = 1
  MaxFaults = 1
SPECIFICATION FairSessionSpec
INVARIANT ClientInv
INVARIANT DisconnectIsFinal
INVARIANT ServedByTheBrowser
PROPERTY ObjectSpec
CHECK_DEADLOCK FALSE
PROPERTY Settles
PROPERTY ClosedSocketIsForgotten

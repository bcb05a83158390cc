SPECIFICATION Spec
CONSTANTS
  Threads = {1, 2}
  Workers = {w1, w2}
  Nobody = Nobody
  MaxRunning = 1
  ScanLimit = 2
  MaxSelected = 1
  DefaultRetries = 1
  MaxNow = 2
  MaxFaults = 2
SYMMETRY Symmetry
INVARIANT RowsInv
INVARIANT RunningCap
INVARIANT NothingMissed
INVARIANT BaselineIsTheMemory
PROPERTY NothingGoesBack
CHECK_DEADLOCK FALSE

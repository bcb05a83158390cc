SPECIFICATION Spec
CONSTANTS
  Threads = {1, 2}
  Workers = {w1}
  Nobody = Nobody
  MaxRunning = 1
  ScanLimit = 2
  MaxSelected = 1
  DefaultRetries = 2
  MaxNow = 2
  MaxFaults = 1
PROPERTIES
  EveryEditIsExtracted
  EveryChangeIsConsolidated
CHECK_DEADLOCK FALSE

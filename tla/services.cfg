SPECIFICATION ServicesSpec
CONSTANTS
  Jobs = {j1, j2, j3, j4, j5}
  Concurrency = 2
  Calls = {a, b}
  MaxSteps = 2
  MaxFinishes = 2
  MaxWipes = 1
  Refreshes = 5
  MaxPending = 3
  UsageCalls = 1
  MaxAttempts = 2
  MaxRewirings = 1
CHECK_DEADLOCK FALSE
INVARIANTS ServicesInv QueueInv
PROPERTIES FirstInFirstOut NothingStaleIsUsed ServicesSettle

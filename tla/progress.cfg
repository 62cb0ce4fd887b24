SPECIFICATION Spec
CONSTANTS
  Pulls = {p1}
  Heads = {a, b}
  Roles = {r1}
  Jobs = {1, 2}
  MaxRetries = 1
  MaxCrashes = 1
  Concurrency = 1
  RoutingMode = "model"
  Policy = "manual"
  Features = {"retry", "cancel", "pause", "lost"}
  Allowlists = {{p1}}
INVARIANTS OneJobPerHead AttemptsAreWhole
PROPERTIES JobsSettle

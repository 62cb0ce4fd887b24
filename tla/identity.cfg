SPECIFICATION SafeSpec
CONSTANTS
  Pulls = {p1}
  Heads = {a, b}
  Roles = {r1}
  Jobs = {1, 2, 3}
  MaxRetries = 0
  MaxCrashes = 1
  Concurrency = 1
  RoutingMode = "fixed"
  Policy = "manual"
  Features = {"rereview", "cancel"}
  Allowlists = {{p1}}
INVARIANTS OneCurrentJob OneReviewPerHead StopsReachRuns
PROPERTIES ImplementsContract UsesQueue

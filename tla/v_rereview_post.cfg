SPECIFICATION SafeSpec
CONSTANTS
  Pulls = {p1}
  Heads = {a, b}
  Roles = {r1}
  Jobs = {1, 2}
  MaxRetries = 0
  MaxCrashes = 0
  Concurrency = 2
  RoutingMode = "fixed"
  Policy = "manual"
  Features = {"rereview", "cancel"}
  Allowlists = {{p1}}
INVARIANTS OneReviewPerHead

SPECIFICATION SafeSpec
CONSTANTS
  Pulls = {p1}
  Heads = {a, b}
  Roles = {r1, r2}
  Jobs = {1, 2}
  MaxRetries = 0
  MaxCrashes = 1
  Concurrency = 1
  RoutingMode = "fixed"
  Policy = "internal_then_external"
  Features = {"escalate", "cancel"}
  Allowlists = {{p1},{}}
INVARIANTS RowsMatch
 
CHECK_DEADLOCK FALSE

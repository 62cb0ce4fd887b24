SPECIFICATION SafeSpec
CONSTANTS
  Pulls = {p1}
  Heads = {a, b}
  Roles = {r1}
  Jobs = {1}
  MaxRetries = 1
  MaxCrashes = 0
  Concurrency = 1
  RoutingMode = "fixed"
  Policy = "manual"
  Features = {"merge", "retry"}
  Allowlists = {{p1}}
PROPERTIES MergedNeverStarts

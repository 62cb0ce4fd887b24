SPECIFICATION SafeSpec
CONSTANTS
  Pulls = {p1, p2}
  Heads = {a, b}
  Roles = {r1}
  Jobs = {1, 2}
  MaxRetries = 0
  MaxCrashes = 1
  Concurrency = 2
  RoutingMode = "fixed"
  Policy = "manual"
  Features = {"merge", "pause", "cancel", "rereview"}
  Allowlists = {{p1, p2}}
INVARIANTS PausedIsQuiet MergedIsQuiet
PROPERTIES PostsOnlyCurrent DeadStaysDead

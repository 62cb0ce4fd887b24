SPECIFICATION StackSpec
CONSTANTS
  p1 = p1
  p2 = p2
  p3 = p3
  Layouts <- OneLayout
  Heads = {a}
  Pushed = {p1}
  Unmarked = {p1, p2}
  MemberRetries = 0
  TokenCap = FALSE
  MaxHandlers = 2
  MaxMoves = 0
  MaxUpsets = 2
  Jobs = {1, 2, 3}
  Concurrency = 1
CHECK_DEADLOCK FALSE
INVARIANT RailSettles

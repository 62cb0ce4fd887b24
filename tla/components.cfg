SPECIFICATION ComponentsSpec
CONSTANTS
  hook = hook
  comment = comment
  c1 = c1
  m1 = m1
  p1 = p1
  p2 = p2
  r1 = r1
  Fingerprints = {f1}
  Protected = {}
  MaxThreads = 2
  MaxRuns = 3
  MaxTouches = 2
  Targets <- HookAndComment
  Webhooks = {hook}
  Spaced = {}
  Policies = {"manual", "internal_then_external"}
  MaxPageUpsets = 3
  Defects = {d1, d2}
  Worthy = {d1}
  Operators = {o1, o2}
  MaxScans = 2
  MaxSubmits = 3
  MaxScanUpsets = 2
  ProfileNames = {"default", "strict"}
  Default = "default"
  BuiltIn = {"security"}
  CustomRoles = {"go"}
  Patterns = {1}
  MaxEdits = 1
  MaxRevisions = 2
  MaxRevisionJobs = 1
  Seats = 3
  Hands = 2
  Attempts = 2
  LabAttempts = 2
  Ceiling = 1
  MaxCost = 1
  MaxPanelRuns = 2
  Sends = 3
  MaxConversations = 2
  MaxMessages = 3
  MaxChatCost = 1
  MaxChatDeaths = 1
  Deliveries = {1, 2, 3, 4, 5, 6}
  SubjectOf <- SubjectOfDelivery
  KindOf <- KindOfSubject
  HandlerIds = {1, 2}
  RateLimit = 1
  MaxArrivals = 4
  MaxIntakeUpsets = 1
  RoleOf <- OneReviewerRow
  Editors = {"ann", "ben"}
  Bodies = {1, 2}
  MaxPrompts = 2
  MaxSaves = 1
  MaxPromptRuns = 2
  MaxEvals = 1
CHECK_DEADLOCK FALSE
INVARIANTS ComponentsTypeOK PagesOnce OneIssuePerFinding CeilingHolds ChatIsSerial  PromptsTraceable
PROPERTIES ClosesOnlySettled ProfilesHold

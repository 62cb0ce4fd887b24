SPECIFICATION HandlersSpec
CONSTANTS
  Pulls = {1, 2}
  Stacks = {"s"}
  HeadOf <- TwoBranches
  FirstBases <- ChainOfTwo
  Forked = {}
  Trunk = "main"
  Given = {"declare", "start", "end", "top"}
  Bodies <- SomeBodies
  Requests = {1, 2}
  MaxCommands = 3
  MaxRebases = 1
  ConfigRoles <- EnvironmentRoles
  Definitions <- OneDefinition
  Answers <- SomeAnswers
  Paths = {"code", "lock", "auth"}
  MaxFiles = 2
  MaxHunk = 1
  MaxReviewers = 3
  ObservationFiles = 1
  ObservationLines = 1
  AlertFiles = 3
  AlertLines = 2
  MaxDeaths = 2
  MaxHeads = 2
  Spots = {1, 2}
  ReviewDrafts = FALSE
  PostEmptyReview = TRUE
  AllowApprove = TRUE
  MaxEdits = 1
  MaxRetakes = 1
  MaxMishaps = 2
  RepoReviews = {r1, r2}
  MaxPauses = 2
  MaxPauseUpsets = 2
  Tabs = {t1, t2}
  BuiltIn = {"r1"}
  Custom = "c"
  Times = {1500, 2000000}
  MaxRows = 2
  MaxTime = 1800000
  MaxCeiling = 1
  MaxFormEdits = 2
  MaxSaves = 1
  TypedValues = {1}
  EnvValue = 9
  MaxFileRows = 2
  MaxStarts = 3
CHECK_DEADLOCK FALSE
INVARIANTS HandlersTypeOK StacksAsAsked ReviewersAnswer  RepoPauseIsQuiet  MigratesWhole
PROPERTIES MergedStaysQuiet PressesDoAsShown

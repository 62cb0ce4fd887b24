-------------------------------- MODULE Routing --------------------------------
(***************************************************************************)
(* The pre-review router of one job: the scan of its diff                    *)
(* (routing/signals.ts), the rules and the model that choose a profile and   *)
(* reviewers (routing/select.ts, routeSpecialists), the list its stamped     *)
(* configuration answers with (jobs/enqueue.ts), and the reviewer rows that  *)
(* are inserted one by one, through deaths of the process.                   *)
(***************************************************************************)
EXTENDS Integers, Sequences, SequencesExt, Kept

CONSTANTS ConfigRoles,     \* REVIEWER_ROLES, in order
          Definitions,     \* the profile definitions a job may be stamped with
          Answers,         \* role lists the router model may answer, foreign roles too
          Paths,           \* the kinds of path a diff touches, a subset of PathKinds
          MaxFiles,        \* bound: files of a diff
          MaxHunk,         \* bound: changed lines of a file
          MaxReviewers,    \* ROUTER_MAX_REVIEWERS
          ObservationFiles, ObservationLines, AlertFiles, AlertLines,   \* its thresholds
          MaxDeaths        \* bound: deaths of the process

PathKinds == {"code", "docs", "test", "lock", "auth", "migrations", "api"}
Marks     == {"add", "del", "addLike", "delLike"}

\* The built-in roles, in order of preference.
Preferred == <<"correctness", "security", "tests", "data-integrity", "concurrency", "api",
               "maintainer", "architecture">>

\* The lists that are configured, and every name of a role there is.
Configured == {ConfigRoles} \cup {def.reviewers : def \in Definitions}
RoleNames  == ToSet(Preferred) \cup UNION {ToSet(list) : list \in Configured \cup Answers}

\* parse of the environment: every limit is at least one, there are reviewers.
\* What can be activated names none twice (validateProfileDefinition); that
\* REVIEWER_ROLES does not is asked of its operator: the rows of a job are
\* UNIQUE (job_id, role), so with a repeated role no fixed job can be enqueued.
ASSUME RoutingAssumption ==
  /\ Paths \subseteq PathKinds /\ MaxFiles \in Nat /\ MaxHunk \in Nat /\ MaxDeaths \in Nat
  /\ \A list \in Configured : list # <<>> /\ IsInjective(list)
  /\ Configured \cup Answers \subseteq Seq(RoleNames)
  /\ {MaxReviewers, ObservationFiles, ObservationLines, AlertFiles, AlertLines} \subseteq Nat \ {0}

VARIABLES
  mode,     \* config.routing.mode of this process, "hybrid" where a model is asked
  diff,     \* the pull's diff, file by file: its path and the marks of its changed lines
  stamp,    \* the definition of jobs.profile_revision_id, or NoDefinition
  decision, \* SQLite: the routing_* columns of the job
  panel,    \* SQLite: the roles of its reviewer_runs, in order of insertion
  todo,     \* memory: roles still to insert
  stage,    \* where the run of the job is
  deaths    \* bound's counter

routingVars == <<mode, diff, stamp, decision, panel, todo, stage, deaths>>

NoDefinition == [reviewers |-> <<>>, alerts |-> [p \in {"observation", "diagnosis", "poison-alert"} |-> {}]]
Undecided    == [source |-> "none", profile |-> "diagnosis", reviewers |-> <<>>, lines |-> 0, risky |-> FALSE]

-----------------------------------------------------------------------------
(* The scan: parseUnifiedDiff and scanRoutingSignals *)

\* A hunk line like "+++ b/README.md" is an added line whose text begins with
\* "++ ": here it names a document.  One like "--- x" is a removed comment.
\* The name after +++ is the file's name, wherever the line stands, and no line
\* that begins with +++ or --- is counted.
ParsedFile(f) ==
  [path  |-> IF Contains(f.hunk, "addLike") THEN "docs" ELSE f.path,
   lines |-> Len(SelectSeq(f.hunk, LAMBDA m : m \in {"add", "del"})),
   added |-> Contains(f.hunk, "add")]

\* A diff without lines that look like headers, for comparison.
PlainFile(f) ==
  [path |-> f.path, lines |-> Len(f.hunk), added |-> ToSet(f.hunk) \cap {"add", "addLike"} # {}]

FamiliesOf(path) ==
  CASE path = "docs" -> {"docs"} [] path = "test" -> {"tests"} [] path = "lock" -> {"dependencies"}
    [] path = "code" -> {}       [] OTHER -> {path}
HardRisk == {"auth", "secrets", "billing", "migrations", "deploy"}

Lines(files) == FoldLeft(LAMBDA n, f : n + f.lines, 0, files)

SignalsOf(files) ==
  LET paths  == {files[i].path : i \in DOMAIN files}
      tested == \E i \in DOMAIN files : files[i].path = "test" /\ files[i].added
  IN  [count    |-> Len(files), lines |-> Lines(files),
       families |-> UNION {FamiliesOf(p) : p \in paths},
       risky    |-> \E p \in paths : FamiliesOf(p) \cap HardRisk # {},
       lock     |-> "lock" \in paths,
       narrow   |-> files # <<>> /\ paths \subseteq {"docs", "test"},
       untested |-> paths \ {"docs", "test", "lock"} # {} /\ ~tested]

Scanned(d) == SignalsOf([i \in DOMAIN d |-> ParsedFile(d[i])])
Actual(d)  == SignalsOf([i \in DOMAIN d |-> PlainFile(d[i])])

-----------------------------------------------------------------------------
(* The rules: routing/select.ts *)

Rank == [p \in {"observation", "diagnosis", "poison-alert"} |->
           CASE p = "observation" -> 0 [] p = "diagnosis" -> 1 [] p = "poison-alert" -> 2]
Higher(p, q) == IF Rank[p] >= Rank[q] THEN p ELSE q

DeterministicProfile(s) ==
  CASE s.risky \/ s.count >= AlertFiles \/ s.lines >= AlertLines -> "poison-alert"
    [] /\ ~s.risky /\ s.count < AlertFiles /\ s.lines < AlertLines
       /\ s.count <= ObservationFiles /\ s.lines <= ObservationLines
       /\ (s.narrow /\ ~s.lock) \/ s.lines <= 20 -> "observation"
    [] OTHER -> "diagnosis"

FamilyRoles(family) ==
  CASE family = "auth"         -> <<"security", "correctness">>
    [] family = "migrations"   -> <<"data-integrity", "correctness", "maintainer">>
    [] family = "api"          -> <<"api", "correctness">>
    [] family = "dependencies" -> <<"security", "maintainer">>
    [] family = "tests"        -> <<"tests">>
    [] family = "docs"         -> <<"maintainer">>

\* The places of a list where a role is named first.
FirstNamed(roles) == {i \in DOMAIN roles : \A k \in 1..(i - 1) : roles[k] # roles[i]}

\* Mutant: the answer is taken as it is.
Unfiltered(roles, allowlist) == KeptAt(roles, FirstNamed(roles))

\* filterAllowedRoles.
Allowed(roles, allowlist) == KeptAt(roles, {i \in FirstNamed(roles) : roles[i] \in ToSet(allowlist)})

RolesForSignals(s, allowlist) ==
  LET suggested ==
        <<"correctness">> \o SetToSeq(UNION {ToSet(FamilyRoles(f)) : f \in s.families})
          \o (IF s.untested THEN <<"tests">> ELSE <<>>)
          \o (IF s.count >= 8 THEN <<"architecture">> ELSE <<>>)
          \o (IF s.risky \/ s.lock THEN <<"maintainer">> ELSE <<>>)
      kept == Allowed(suggested, allowlist)
  IN  IF kept = <<>> THEN allowlist ELSE kept

Lower(a, b) == IF a <= b THEN a ELSE b
CapOf(profile) ==
  CASE profile = "observation"  -> Lower(2, MaxReviewers)
    [] profile = "diagnosis"    -> Lower(4, MaxReviewers)
    [] profile = "poison-alert" -> MaxReviewers

\* Over the cap the built-in roles come first, and the rest as they stand.
CapReviewers(roles, profile) ==
  IF Len(roles) <= CapOf(profile) THEN roles
  ELSE SubSeq(Among(Preferred, ToSet(roles)) \o Among(roles, ToSet(roles) \ ToSet(Preferred)), 1, CapOf(profile))

Decision(source, profile, reviewers, s) ==
  [source |-> source, profile |-> profile, reviewers |-> reviewers, lines |-> s.lines, risky |-> s.risky]

Deterministic(s, allowlist) ==
  LET p == DeterministicProfile(s)
  IN  Decision("deterministic", p, CapReviewers(RolesForSignals(s, allowlist), p), s)

\* diagnosisFallback: the router failed, or its answer does not parse.
Fallback(s, allowlist) ==
  LET p == Higher("diagnosis", DeterministicProfile(s))
  IN  Decision("fallback", p, CapReviewers(RolesForSignals(s, allowlist), p), s)

\* Mutant: the model's profile stands.
TrustsModel(profile, roles, s, allowlist) ==
  Decision("hybrid", profile, CapReviewers(Allowed(roles, allowlist), profile), s)

\* mergeModelDecision with applyHardRuleOverride.
MergeModel(profile, roles, s, allowlist) ==
  LET p      == Higher(profile, DeterministicProfile(s))
      own    == Allowed(roles, allowlist)
      chosen == IF own = <<>> \/ p # profile THEN RolesForSignals(s, allowlist) ELSE own
      joined == IF p = "poison-alert" THEN Allowed(chosen \o RolesForSignals(s, allowlist), allowlist)
                ELSE chosen
  IN  Decision(IF p # profile THEN "hard-rule" ELSE "hybrid", p, CapReviewers(joined, p), s)

-----------------------------------------------------------------------------
(* The run of the job *)

Allowlist == IF stamp.reviewers # <<>> THEN stamp.reviewers ELSE ConfigRoles

\* applyProfileToSpecs: the level's list where the stamped definition has one.
Answering(d) ==
  LET listed == stamp.alerts[d.profile]
      picked == Among(stamp.reviewers, IF listed # {} THEN listed ELSE ToSet(d.reviewers))
  IN  IF stamp.reviewers = <<>> THEN Among(ConfigRoles, ToSet(d.reviewers))
      ELSE IF picked = <<>> THEN stamp.reviewers ELSE picked

\* The whole configured set: fixed mode.
WholeSet == Allowlist

RoutingInit ==
  /\ mode \in {"fixed", "deterministic", "hybrid"}
  /\ diff \in SeqOf([path : Paths, hunk : SeqOf(Marks, MaxHunk)], MaxFiles) \ {<<>>}
  /\ stamp \in Definitions \cup {NoDefinition}
  /\ decision = Undecided
  /\ panel = IF mode = "fixed" THEN WholeSet ELSE <<>>       \* enqueuePullJob
  /\ todo = <<>> /\ stage = "queued" /\ deaths = 0

RunMoves == UNCHANGED <<mode, diff, stamp, deaths>>

\* persistDecision, then the rows of the roles that answer it.
Decides(d) ==
  /\ decision' = d /\ todo' = Answering(d) /\ stage' = "seating" /\ UNCHANGED panel /\ RunMoves

\* Fixed mode records the rows there are, and inserts them first where there
\* are none.
Fixed ==
  /\ stage = "queued" /\ mode = "fixed" /\ panel = <<>>
  /\ todo' = WholeSet /\ stage' = "seating" /\ UNCHANGED <<decision, panel>> /\ RunMoves

RecordsFixed ==
  /\ \/ stage = "queued" /\ panel # <<>> /\ (mode = "fixed" \/ decision.source = "none")
     \/ stage = "seating" /\ todo = <<>> /\ mode = "fixed"
  /\ decision' = Decision("fixed", "diagnosis", panel, Scanned(diff))
  /\ stage' = "reviewing" /\ UNCHANGED <<panel, todo>> /\ RunMoves

\* Mutant: a job with a profile has its reviewers.
ReusesProfile ==
  /\ stage = "queued" /\ mode # "fixed" /\ decision.source # "none"
  /\ stage' = "reviewing" /\ UNCHANGED <<decision, panel, todo>> /\ RunMoves

\* "Routing reused".
Reuses ==
  /\ stage = "queued" /\ mode # "fixed" /\ decision.source # "none" /\ panel # <<>>
  /\ stage' = "reviewing" /\ UNCHANGED <<decision, panel, todo>> /\ RunMoves

\* setJobState routing; the model is asked, if there is one.
StartsRouting ==
  /\ stage = "queued" /\ mode # "fixed" /\ panel = <<>>
  /\ IF mode = "hybrid"
     THEN stage' = "asking" /\ UNCHANGED <<decision, panel, todo>> /\ RunMoves
     ELSE Decides(Deterministic(Scanned(diff), Allowlist))

ModelAnswers ==
  /\ stage = "asking"
  /\ \E profile \in DOMAIN Rank, roles \in Answers :
       Decides(MergeModel(profile, roles, Scanned(diff), Allowlist))

ModelFails == stage = "asking" /\ Decides(Fallback(Scanned(diff), Allowlist))

\* One INSERT OR IGNORE of ensureReviewerRuns.
Seats ==
  /\ stage = "seating" /\ todo # <<>>
  /\ panel' = (IF Contains(panel, Head(todo)) THEN panel ELSE Append(panel, Head(todo)))
  /\ todo' = Tail(todo) /\ UNCHANGED <<decision, stage>> /\ RunMoves

Seated ==
  /\ stage = "seating" /\ todo = <<>> /\ mode # "fixed"
  /\ stage' = "reviewing" /\ UNCHANGED <<decision, panel, todo>> /\ RunMoves

\* The process dies; the next one, whose environment may be another, runs the
\* job again.
Dies ==
  /\ deaths < MaxDeaths /\ deaths' = deaths + 1
  /\ mode' \in {"fixed", "deterministic", "hybrid"}
  /\ stage' = "queued" /\ todo' = <<>> /\ UNCHANGED <<diff, stamp, decision, panel>>

RoutingNext ==
  \/ Fixed \/ RecordsFixed \/ Reuses \/ StartsRouting \/ ModelAnswers \/ ModelFails
  \/ Seats \/ Seated \/ Dies

RoutingSpec == RoutingInit /\ [][RoutingNext]_routingVars

-----------------------------------------------------------------------------
(* Properties *)

Known(roles) == ToSet(roles) \subseteq ToSet(Allowlist)

\* Every column and every row has its type: the reviewers recorded are of the
\* list the job may choose from.
RoutingTypeOK ==
  /\ mode \in {"fixed", "deterministic", "hybrid"} /\ deaths \in 0..MaxDeaths
  /\ stage \in {"queued", "asking", "seating", "reviewing"}
  /\ decision.profile \in DOMAIN Rank /\ Known(decision.reviewers) /\ Known(panel) /\ Known(todo)

\* README.md: "The model cannot downgrade file/diff hard-risk triggers", nor
\* those of size, and a failed router still gives a review: what the router or
\* its failure decided is at or over what the scanned signals call for, with
\* somebody chosen, and never more than ROUTER_MAX_REVIEWERS of them.
RiskIsAnswered ==
  decision.source \in {"deterministic", "hybrid", "hard-rule", "fallback"} =>
    /\ Rank[decision.profile] >= Rank[DeterministicProfile(Scanned(diff))]
    /\ decision.reviewers # <<>> /\ Len(decision.reviewers) <= MaxReviewers

\* However often the process died, and under whichever mode it came back, the
\* specialists that run are of one choice, none twice: the decision on record or,
\* after two deaths between which the mode was fixed, the first of the whole set.
PanelAnswersDecision ==
  stage = "reviewing" =>
    /\ panel # <<>> /\ IsInjective(panel)
    /\ \/ ToSet(panel) \subseteq
            ToSet(IF decision.source = "fixed" THEN decision.reviewers ELSE Answering(decision))
       \/ deaths > 1 /\ IsPrefix(panel, WholeSet)

\* jobs/enqueue.ts:41-43: "When the profile defines a reviewer list for that
\* level it replaces the router's picks outright — the router decides the
\* alert, the profile decides who answers it": all of the list answer.
PanelIsWhole ==
  stage = "reviewing" /\ decision.source # "fixed" /\ stamp.alerts[decision.profile] # {} =>
    ToSet(Answering(decision)) \subseteq ToSet(panel)

\* README.md:299: "A deterministic scanner extracts cheap signals (file/line
\* counts, languages, auth/secrets/billing/migrations/deploy ...": the signals
\* on record count the lines of the diff and see its hard-risk files.
SignalsAreTheDiffs ==
  decision.source # "none" =>
    decision.lines = Actual(diff).lines /\ (Actual(diff).risky => decision.risky)
=============================================================================

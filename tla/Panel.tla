-------------------------------- MODULE Panel --------------------------------
(***************************************************************************)
(* The paid stages of one pull review job and the ceiling of its profile:    *)
(* createProfileBudget, runProfileReviewers, runReviewer,                    *)
(* runBudgetedAggregation and runInternalEscalation of jobs/pipeline.ts, the *)
(* workers of util.ts mapLimit, and the runs that follow one another when a  *)
(* job is retried or its process dies.  The budget lives in a run's memory.  *)
(***************************************************************************)
EXTENDS Integers, FiniteSets, Sequences

CONSTANTS Seats,          \* number of reviewer rows
          Hands,          \* config.opencode.reviewerConcurrency
          Attempts,       \* config.opencode.maxRetries + 1
          LabAttempts,    \* config.poisonAlert.internal.retries + 1
          Ceiling,        \* maxTotalCostUsd or maxTotalTokens of the profile
          MaxCost,        \* bound: what one call of a model may cost
          MaxPanelRuns    \* bound: runs of the job

ASSUME PanelAssumption ==
  /\ Seats \in Nat \ {0} /\ Hands \in Nat \ {0} /\ Attempts \in Nat \ {0} /\ LabAttempts \in Nat \ {0}
  /\ Ceiling \in Nat \ {0} /\ MaxCost \in Nat /\ MaxPanelRuns \in Nat \ {0}

VARIABLES
  behavior,   \* onBudgetExceeded of the profile
  seats,      \* SQLite: reviewer_runs, in order: state
  stage,      \* SQLite: jobs.state of the latest run
  warned,     \* SQLite: jobs.budget_exceeded_warning is set
  runNo,      \* the latest run of the job
  hands,      \* memory: the workers of each run's mapLimit
  todo,       \* memory: the rows each run took on, not yet taken by a worker
  spent,      \* memory: state.cost of each run's budget, but for the internal pass
  lab,        \* memory: [tries, spent] of each run's internal pass
  skipped     \* history: the latest run has left a paid stage out

panelVars == <<behavior, seats, stage, warned, runNo, hands, todo, spent, lab, skipped>>

Costs   == 0..MaxCost
PanelRuns == 1..MaxPanelRuns
Idle    == [at |-> "free", seat |-> 0, attempt |-> 0]
Resting == [k \in 1..Hands |-> Idle]

\* ProfileBudget.check: the latch never opens, as what is spent only grows.
Over(r) == spent[r] + lab[r].spent > Ceiling

Record(r, c) == spent' = [spent EXCEPT ![r] = @ + c]
Warns        == warned' = TRUE /\ skipped' = TRUE

\* The catch of runJob: rows that had not finished have failed with the job.
JobFails ==
  /\ stage' = "failed"
  /\ seats' = [i \in DOMAIN seats |-> IF seats[i] \in {"queued", "running"} THEN "failed" ELSE seats[i]]

\* reconcileAndRoute and routeSpecialists: the verifier asks a budget nothing
\* was spent of, and the router does not ask; then the rows not done are taken on.
Verifies ==
  /\ stage = "reconciling" /\ \E c \in Costs : Record(runNo, c)
  /\ stage' = "routing"
  /\ UNCHANGED <<behavior, seats, warned, runNo, hands, todo, lab, skipped>>

Routes ==
  /\ stage = "routing" /\ \E c \in Costs : Record(runNo, c)
  /\ stage' = "reviewing"
  /\ todo' = [todo EXCEPT ![runNo] = SelectSeq([i \in DOMAIN seats |-> i], LAMBDA i : seats[i] # "done")]
  /\ UNCHANGED <<behavior, seats, warned, runNo, hands, lab, skipped>>

Hand(r, k, to) == hands' = [hands EXCEPT ![r][k] = to]

\* A free worker takes the next row: it calls, or it leaves the row out, or the
\* whole panel ends and the calls of the others go on.
TakesRow(r, k) ==
  LET i == Head(todo[r])
  IN  /\ hands[r][k].at = "free" /\ todo[r] # <<>>
      /\ todo' = [todo EXCEPT ![r] = Tail(@)]
      /\ IF ~Over(r)
         THEN /\ seats' = [seats EXCEPT ![i] = "running"]
              /\ Hand(r, k, [at |-> "call", seat |-> i, attempt |-> 1])
              /\ UNCHANGED <<stage, warned, skipped>>
         ELSE IF behavior = "degrade"
         THEN /\ seats' = [seats EXCEPT ![i] = "failed"] /\ Warns
              /\ UNCHANGED <<stage, hands>>
         ELSE /\ Hand(r, k, [Idle EXCEPT !.at = "gone"]) /\ UNCHANGED <<warned, skipped>>
              /\ IF r = runNo /\ stage = "reviewing" THEN JobFails ELSE UNCHANGED <<seats, stage>>
      /\ UNCHANGED <<behavior, runNo, spent, lab>>

\* Mutant: one attempt too many.
RetriesOnceMore(h) == h.attempt <= Attempts

RetriesLeft(h) == h.attempt < Attempts

\* A call of runReviewer has answered, or failed, with or without a bill.
ReviewerReturns(r, k) ==
  LET h == hands[r][k]
  IN  /\ h.at = "call" /\ \E c \in Costs : Record(r, c)
      /\ \/ seats' = [seats EXCEPT ![h.seat] = "done"] /\ Hand(r, k, Idle)
         \/ /\ seats' = [seats EXCEPT ![h.seat] = "failed"]
            /\ Hand(r, k, IF RetriesLeft(h) THEN [h EXCEPT !.at = "sleep"] ELSE Idle)
      /\ UNCHANGED <<behavior, stage, warned, runNo, todo, lab, skipped>>

\* Mutant: a retry does not look at the budget again.
WakesUnchecked(r, k) ==
  LET h == hands[r][k]
  IN  /\ h.at = "sleep"
      /\ seats' = [seats EXCEPT ![h.seat] = "running"]
      /\ Hand(r, k, [h EXCEPT !.at = "call", !.attempt = @ + 1])
      /\ UNCHANGED <<behavior, stage, warned, runNo, todo, spent, lab, skipped>>

\* The pause before a retry is over, and others have spent meanwhile.
Wakes(r, k) ==
  LET h == hands[r][k]
  IN  /\ h.at = "sleep"
      /\ IF Over(r) THEN Hand(r, k, Idle) /\ UNCHANGED seats
         ELSE /\ seats' = [seats EXCEPT ![h.seat] = "running"]
              /\ Hand(r, k, [h EXCEPT !.at = "call", !.attempt = @ + 1])
      /\ UNCHANGED <<behavior, stage, warned, runNo, todo, spent, lab, skipped>>

\* All workers have returned: the job fails with nothing to show or, in fail
\* mode, at the ceiling; else the aggregator is called, or replaced.
Aggregates ==
  /\ stage = "reviewing" /\ todo[runNo] = <<>> /\ \A k \in 1..Hands : hands[runNo][k].at = "free"
  /\ IF (\A i \in DOMAIN seats : seats[i] # "done") \/ (Over(runNo) /\ behavior = "fail")
     THEN JobFails /\ UNCHANGED <<warned, skipped>>
     ELSE /\ UNCHANGED seats
          /\ IF Over(runNo) THEN Warns /\ stage' = "aggregated"
             ELSE stage' = "aggregating" /\ UNCHANGED <<warned, skipped>>
  /\ UNCHANGED <<behavior, runNo, hands, todo, spent, lab>>

\* runAggregator answers, well or by its fallback; it may have spilled.
AggregatorReturns ==
  /\ stage = "aggregating" /\ stage' = "aggregated"
  /\ \E c \in Costs :
       /\ Record(runNo, c)
       /\ warned' = (warned \/ (spent[runNo] + c > Ceiling /\ behavior = "degrade"))
  /\ UNCHANGED <<behavior, seats, runNo, hands, todo, lab, skipped>>

\* The alert is not poison, or the internal pass is called, or left out.
Sniffs ==
  /\ stage = "aggregated"
  /\ \/ stage' = "publishing" /\ UNCHANGED <<seats, warned, lab, skipped>>
     \/ /\ ~Over(runNo) /\ stage' = "sniffing" /\ lab' = [lab EXCEPT ![runNo].tries = 1]
        /\ UNCHANGED <<seats, warned, skipped>>
     \/ /\ Over(runNo) /\ UNCHANGED lab
        /\ IF behavior = "fail" THEN JobFails /\ UNCHANGED <<warned, skipped>>
           ELSE Warns /\ stage' = "publishing" /\ UNCHANGED seats
  /\ UNCHANGED <<behavior, runNo, hands, todo, spent>>

\* runInternalEscalation: a good answer, or one past its own cap, or one that
\* does not parse (billed twice), or none; its retries ask no budget.
SniffReturns ==
  LET billed(c) == [lab EXCEPT ![runNo].spent = @ + c]
  IN  /\ stage = "sniffing"
      /\ \E c \in Costs :
           \/ stage' = "publishing" /\ lab' = billed(c) /\ UNCHANGED seats
           \/ /\ lab[runNo].tries < LabAttempts
              /\ lab' = [billed(2 * c) EXCEPT ![runNo].tries = @ + 1] /\ UNCHANGED <<stage, seats>>
           \/ /\ lab' = billed(2 * c)
              /\ \/ JobFails                                      \* internal.fallback
                 \/ stage' = "publishing" /\ UNCHANGED seats
      /\ UNCHANGED <<behavior, warned, runNo, hands, todo, spent, skipped>>

Publishes ==
  /\ stage = "publishing" /\ stage' = "completed"
  /\ UNCHANGED <<behavior, seats, warned, runNo, hands, todo, spent, lab, skipped>>

NextRun ==
  /\ runNo < MaxPanelRuns /\ runNo' = runNo + 1 /\ stage' = "reconciling" /\ skipped' = FALSE
  /\ UNCHANGED <<behavior, warned, spent, lab>>

\* retryFailedReviewers, of every failed row or of one of them.
PanelRetried ==
  LET failed == {i \in DOMAIN seats : seats[i] = "failed"}
  IN  /\ stage \in {"failed", "completed"} /\ failed # {}
      /\ \E some \in {failed} \union {{i} : i \in failed} :
           seats' = [i \in DOMAIN seats |-> IF i \in some THEN "queued" ELSE seats[i]]
      /\ NextRun /\ UNCHANGED <<hands, todo>>

\* The process dies; resetInterruptedJobs queues the job and its running rows.
PanelDies ==
  /\ stage \notin {"failed", "completed"} /\ NextRun
  /\ seats' = [i \in DOMAIN seats |-> IF seats[i] = "running" THEN "queued" ELSE seats[i]]
  /\ hands' = [r \in PanelRuns |-> Resting] /\ todo' = [r \in PanelRuns |-> <<>>]

-----------------------------------------------------------------------------
PanelInit ==
  /\ behavior \in {"degrade", "fail"}
  /\ seats = [i \in 1..Seats |-> "queued"] /\ stage = "reconciling" /\ warned = FALSE /\ runNo = 1
  /\ hands = [r \in PanelRuns |-> Resting] /\ todo = [r \in PanelRuns |-> <<>>]
  /\ spent = [r \in PanelRuns |-> 0] /\ lab = [r \in PanelRuns |-> [tries |-> 0, spent |-> 0]]
  /\ skipped = FALSE

PanelNext ==
  \/ Verifies \/ Routes \/ Aggregates \/ AggregatorReturns \/ Sniffs \/ SniffReturns \/ Publishes
  \/ \E r \in PanelRuns, k \in 1..Hands : TakesRow(r, k) \/ ReviewerReturns(r, k) \/ Wakes(r, k)
  \/ PanelRetried \/ PanelDies

PanelSpec == PanelInit /\ [][PanelNext]_panelVars

-----------------------------------------------------------------------------
(* Properties *)

PanelTypeOK ==
  /\ \A i \in DOMAIN seats : seats[i] \in {"queued", "running", "done", "failed"}
  /\ stage \in {"reconciling", "routing", "reviewing", "aggregating", "aggregated", "sniffing",
                "publishing", "completed", "failed"}
  /\ runNo \in PanelRuns
  /\ \A r \in PanelRuns :
       /\ spent[r] \in Nat /\ lab[r].spent \in Nat /\ lab[r].tries \in 0..LabAttempts
       /\ \A k \in 1..Hands : /\ hands[r][k].at \in {"free", "call", "sleep", "gone"}
                              /\ hands[r][k].attempt \in 0..Attempts

Larger(a, b) == IF a > b THEN a ELSE b

\* "concurrent reviewers may collectively overshoot by up to one in-flight batch
\* — the retry loop also re-checks so failed attempts cannot respend past a
\* latched ceiling" (pipeline.ts:210-213), whatever the interleaving of calls,
\* pauses and failures: the router, unasked, may add its call to the verifier's,
\* the internal pass spends nothing once a ceiling has tripped, and a job that
\* degrades and completes has something to show and says what it left out.
CeilingHolds ==
  /\ \A r \in PanelRuns : /\ spent[r] <= Larger(Ceiling + Hands * MaxCost, 2 * MaxCost)
                          /\ lab[r].spent > 0 => spent[r] <= Ceiling
  /\ stage = "completed" /\ behavior = "degrade" =>
       (skipped => warned) /\ \E i \in DOMAIN seats : seats[i] = "done"
=============================================================================

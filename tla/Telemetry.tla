------------------------------- MODULE Telemetry -------------------------------
(***************************************************************************)
(* What one job tells OpenObserve: the line, the metrics and the trace of    *)
(* each of its ends (JobStore.emitTerminalSummary, jobs/summary.ts,          *)
(* telemetry/metrics.ts, telemetry/traces.ts), the gauges of the queue, and  *)
(* the two chains of POSTs they go out by, best effort: queueExport of       *)
(* telemetry/otlp.ts, and postIngestLine of telemetry/ingest.ts, which the   *)
(* events of telemetry/app-log.ts go through too, those about a failed       *)
(* export among them.                                                        *)
(***************************************************************************)
EXTENDS Integers, FiniteSets, Sequences

CONSTANTS MaxPending,     \* MAX_PENDING_EXPORTS and MAX_PENDING_INGEST_POSTS
          UsageCalls,     \* reviewers of the job
          MaxAttempts,    \* bound: the job's retries, plus 1
          MaxRewirings    \* bound: changes of the settings

ASSUME TelemetryAssumption ==
  MaxPending \in Nat \ {0} /\ UsageCalls \in Nat \ {0} /\ MaxAttempts \in Nat \ {0} /\ MaxRewirings \in Nat

VARIABLES
  job,       \* SQLite: the job's state and attempt
  rows,      \* SQLite: reviewer_runs: state, and the bill of its last answer, 0 if none
  flights,   \* memory: calls of the model not yet answered, by row
  wired,     \* the channels that resolve to an endpoint
  chains,    \* memory: tasks of each chain, and its pending counter
  rejected,  \* memory: chains whose promise is rejected, so that no task of theirs runs
  printed,   \* history: summary lines
  traced,    \* history: the traces exported, and the run each is of
  rewirings  \* bound

telemetryVars == <<job, rows, flights, wired, chains, rejected, printed, traced, rewirings>>

Chains == {"exports", "lines"}
Channels == {"logs", "metrics", "traces"}
Ended == {"completed", "failed", "stale", "cancelled"}
Reviewers == 1..UsageCalls

-----------------------------------------------------------------------------
(* The chains *)

\* Mutant: off by one at the cap.
OffersOneMore(q, chain) ==
  IF q.pending[chain] > MaxPending THEN q
  ELSE [q EXCEPT !.tasks[chain] = Append(@, "waiting"), !.pending[chain] = @ + 1]

\* postIngestLine and queueExport: at the cap the item is dropped.
Offer(q, chain) ==
  IF q.pending[chain] >= MaxPending THEN q
  ELSE [q EXCEPT !.tasks[chain] = Append(@, "waiting"), !.pending[chain] = @ + 1]

\* emitAppLog and emitJobSummary: standard output, and a line if logs are wired.
Line(q) == IF "logs" \in wired THEN Offer(q, "lines") ELSE q

\* queueExport: a full queue is an event of its own.
QueueExport(q) == IF q.pending["exports"] >= MaxPending THEN Line(q) ELSE Offer(q, "exports")

\* exportMetrics and exportTraces: no endpoint, no export.
Export(q, signal) == IF signal \in wired THEN QueueExport(q) ELSE q

\* exportQueueMetrics, exportTerminalJobMetrics, exportTerminalJobTraces.
Gauges(q) == Export(q, "metrics")
JobMetrics(q) == Export(q, "metrics")
JobTraces(q) == Export(q, "traces")

\* emitTerminalSummary: the line of emitJobSummary, the metrics, the trace.
Terminal(q) == JobTraces(JobMetrics(Line(q)))

\* Mutant: a task that throws in its own handler leaves the chain rejected.
Wedges(chain) == rejected' = rejected \cup {chain}

\* .catch(() => {}) at the end of every task.
Heals(chain) == UNCHANGED rejected

\* Mutant: the counter goes down on answers only.
CountsAnswers(q, chain, answered) ==
  [q EXCEPT !.tasks[chain] = Tail(@), !.pending[chain] = IF answered THEN @ - 1 ELSE @]

\* The finally of a task, whatever came of its POST.
TaskSettled(q, chain, answered) == [q EXCEPT !.tasks[chain] = Tail(@), !.pending[chain] = @ - 1]

Head1(chain) == IF chains.tasks[chain] = <<>> THEN "none" ELSE Head(chains.tasks[chain])
Becomes(chain, state) == chains' = [chains EXCEPT !.tasks[chain] = <<state>> \o Tail(@)]
JobKept == UNCHANGED <<job, rows, flights, wired, printed, traced, rewirings>>

\* The task at the head of a chain posts.
Posts(chain) ==
  /\ chain \notin rejected /\ Head1(chain) = "waiting" /\ Becomes(chain, "posting")
  /\ JobKept /\ UNCHANGED rejected

\* response.ok.
Accepted(chain) ==
  /\ Head1(chain) = "posting" /\ chains' = TaskSettled(chains, chain, TRUE)
  /\ JobKept /\ Heals(chain)

\* Mutant: an ingest line that fails is an event like a failed export.
LinesToo(q, chain) == Line(q)

\* Only the export queue tells of its failures.
Tells(q, chain) == IF chain = "exports" THEN Line(q) ELSE q

\* The answer is no: an export reads why first.
Refused(chain) ==
  /\ Head1(chain) = "posting"
  /\ IF chain = "exports" THEN Becomes(chain, "reading")
     ELSE chains' = TaskSettled(Tells(chains, chain), chain, TRUE)
  /\ JobKept /\ UNCHANGED rejected

\* The body of a refusal is read, or cut off: text().catch(() => "").
ReadsRefusal ==
  /\ Head1("exports") = "reading"
  /\ chains' = TaskSettled(Tells(chains, "exports"), "exports", TRUE)
  /\ JobKept /\ Heals("exports")

\* No answer: the request failed or AbortSignal.timeout(10_000) ended it.
TaskTimesOut(chain) ==
  /\ Head1(chain) = "posting" /\ chains' = TaskSettled(Tells(chains, chain), chain, FALSE)
  /\ JobKept /\ Heals(chain)

\* The handler itself throws, as when console.error has no pipe left.
HandlerThrows(chain) ==
  /\ Head1(chain) \in {"posting", "reading"} /\ chains' = TaskSettled(chains, chain, FALSE)
  /\ JobKept /\ Heals(chain)

-----------------------------------------------------------------------------
(* The job *)

Bill == Cardinality({i \in Reviewers : rows[i].bill # 0})

\* buildJobSummary over the rows of the transition: `complete` is usage_complete.
Summary(state, partial) == [attempt |-> job.attempt, state |-> state, complete |-> ~partial, bill |-> Bill]

\* jobTrace and traceIdForJob: all spans under one id, made of the job's.
JobTrace == [id |-> "maomao-job", attempt |-> job.attempt]

Ends(state, partial) ==
  /\ job' = [job EXCEPT !.state = state]
  /\ printed' = printed \cup {Summary(state, partial)}
  /\ traced' = traced \cup {JobTrace}
  /\ chains' = Gauges(Terminal(chains))
  /\ UNCHANGED <<wired, rejected, rewirings>>

ChainsKept == UNCHANGED <<wired, rejected, rewirings>>

\* The queue claims the job: job_started, and the gauges.
LineStarts ==
  /\ job.state = "queued" /\ job' = [job EXCEPT !.state = "running"]
  /\ chains' = Gauges(Line(chains))
  /\ UNCHANGED <<rows, flights, printed, traced>> /\ ChainsKept

Asks(i) ==
  /\ job.state = "running" /\ rows[i].state = "queued"
  /\ rows' = [rows EXCEPT ![i].state = "running"]
  /\ flights' = [flights EXCEPT ![i] = @ + 1]
  /\ UNCHANGED <<job, printed, traced, chains>> /\ ChainsKept

\* patchReviewer: the bill lands whatever has become of the job.
Lands(i) ==
  /\ flights[i] > 0 /\ flights' = [flights EXCEPT ![i] = @ - 1]
  /\ rows' = [rows EXCEPT ![i] = [state |-> IF @.state = "retired" THEN "retired" ELSE "done", bill |-> 1]]
  /\ UNCHANGED <<job, printed, traced, chains>> /\ ChainsKept

Completes ==
  /\ job.state = "running" /\ \A i \in Reviewers : rows[i].state = "done"
  /\ Ends("completed", FALSE) /\ UNCHANGED <<rows, flights>>

\* A worker finds the budget spent and its profile says fail: mapLimit rejects,
\* the calls of the other workers go on (pipeline.ts:299-301).
Fails ==
  /\ job.state = "running" /\ \E i \in Reviewers : rows[i].state = "queued"
  /\ Ends("failed", FALSE)
  /\ rows' = [i \in Reviewers |-> IF rows[i].state = "done" THEN rows[i] ELSE [rows[i] EXCEPT !.state = "failed"]]
  /\ UNCHANGED flights

\* A newer head or a cancel: partialUsage if the job was running.
Retires(state) ==
  /\ job.state \in {"queued", "running"} /\ Ends(state, job.state = "running")
  /\ rows' = [i \in Reviewers |->
                IF rows[i].state \in {"queued", "running"} THEN [rows[i] EXCEPT !.state = "retired"] ELSE rows[i]]
  /\ UNCHANGED flights

\* retryFailedReviewers.
Retried ==
  /\ job.state = "failed" /\ job.attempt < MaxAttempts
  /\ job' = [state |-> "queued", attempt |-> job.attempt + 1]
  /\ rows' = [i \in Reviewers |-> IF rows[i].state = "failed" THEN [state |-> "queued", bill |-> 0] ELSE rows[i]]
  /\ chains' = Gauges(chains)
  /\ UNCHANGED <<flights, printed, traced>> /\ ChainsKept

\* The operator changes what the channels resolve to.
Rewires ==
  /\ rewirings < MaxRewirings /\ rewirings' = rewirings + 1 /\ wired' \in SUBSET Channels
  /\ UNCHANGED <<job, rows, flights, chains, rejected, printed, traced>>

-----------------------------------------------------------------------------
TelemetryInit ==
  /\ job = [state |-> "queued", attempt |-> 1]
  /\ rows = [i \in Reviewers |-> [state |-> "queued", bill |-> 0]]
  /\ flights = [i \in Reviewers |-> 0]
  /\ wired \in SUBSET Channels
  /\ chains = [tasks |-> [c \in Chains |-> <<>>], pending |-> [c \in Chains |-> 0]]
  /\ rejected = {} /\ printed = {} /\ traced = {} /\ rewirings = 0

JobSteps ==
  \/ LineStarts \/ Completes \/ Fails \/ Retried \/ Retires("stale") \/ Retires("cancelled")
  \/ \E i \in Reviewers : Asks(i) \/ Lands(i)

ChainSteps(chain) ==
  Posts(chain) \/ Accepted(chain) \/ Refused(chain) \/ TaskTimesOut(chain) \/ HandlerThrows(chain)

TelemetryNext == JobSteps \/ Rewires \/ ReadsRefusal \/ \E chain \in Chains : ChainSteps(chain)

\* A task whose predecessor has settled runs, and its request ends by its timer.
TelemetryFairness ==
  /\ \A chain \in Chains : WF_telemetryVars(Posts(chain)) /\ WF_telemetryVars(TaskTimesOut(chain))
  /\ WF_telemetryVars(ReadsRefusal)

TelemetrySpec == TelemetryInit /\ [][TelemetryNext]_telemetryVars /\ TelemetryFairness

-----------------------------------------------------------------------------
(* Properties *)

TelemetryTypeOK ==
  /\ job \in [state : {"queued", "running"} \cup Ended, attempt : 1..MaxAttempts]
  /\ \A i \in Reviewers : /\ rows[i] \in [state : {"queued", "running", "done", "failed", "retired"}, bill : {0, 1}]
                          /\ flights[i] \in 0..MaxAttempts
  /\ wired \subseteq Channels /\ rejected \subseteq Chains
  /\ \A c \in Chains : chains.pending[c] \in 0..MaxPending

\* "one request in flight, a capped pending queue" (otlp.ts:21): whatever the
\* answers, timeouts and throwing handlers were, the counter that decides on
\* dropping is the number of tasks not yet settled, and only the first of them
\* has been posted.
BacklogCounted ==
  \A c \in Chains :
    /\ chains.pending[c] = Len(chains.tasks[c])
    /\ \A k \in 2..Len(chains.tasks[c]) : chains.tasks[c][k] = "waiting"

\* "must not leave postChain rejected and wedge every later export"
\* (otlp.ts:337-338), nor may a failing endpoint keep the service telling itself
\* of it: once the job is at rest both chains come to rest.
Drains == <>[](\A c \in Chains : chains.tasks[c] = <<>>)

\* "false when the line is a floor" (summary.ts:110-112): a line that says its
\* usage is complete counts every call of that run that comes to be billed.
FloorsAreMarked ==
  \A l \in printed : (l.complete /\ l.attempt = job.attempt /\ job.state = l.state) => Bill = l.bill

\* "one OTLP/HTTP trace per terminal job run" (traces.ts:21): two runs of a
\* job are two traces.
OneTracePerRun == \A s, t \in traced : s.id = t.id => s.attempt = t.attempt
=============================================================================

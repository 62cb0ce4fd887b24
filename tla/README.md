# A verification project for Maomao

TLA+ models of Maomao's review service, the TLC runs that check them on small
instances, and TLAPS proofs about them for every instance. Source references
are relative to the repository (`src/jobs/store.ts:538`); the definitions'
sources, line by line, are the `map` of `PROJECT.json`.

Run a model with `tlc -config identity.cfg MCReviewService.tla`, check proofs
with `tlapm ReviewService_proofs.tla`.

## 1. The system

Maomao is one Node.js process over one SQLite database. A webhook or a command
creates a *job* for a head of a pull request; an in-process queue runs it
through a pipeline of git, forge and model calls; one review is posted. The
process is single threaded and SQLite is synchronous (better-sqlite3), so what
happens between two `await`s is atomic, and everything else interleaves.

| component | state | operations | talks to |
|---|---|---|---|
| **Job queue** `jobs/queue.ts` | memory: `pending` ids, `active` set, `started` | `start`, `enqueue`, `abort(Many)`, `pump`, release in `finally` | runs `run()` of the pipeline; resets rows at start |
| **Job store** `jobs/store.ts` | SQLite: `jobs`, `reviewer_runs`, `merged_pulls`, `global_pauses`, `repo_pauses`, `deliveries`, ... | `enqueue` (sweep and dedup), `setJobState`, `cancelJobs`, `retryFailedReviewers`, `ensureReviewerRuns`, `resetInterrupted` | everyone |
| **Pipeline** `jobs/pipeline.ts` | memory: where each run awaits, its `AbortController` | `run`, `runJob` and the stages: prepare, reconcile, route, review, aggregate, sniff, publish, close threads, dispatch | store, forge, model CLI, git |
| **Webhooks and commands** `github/webhooks.ts`, `jobs/enqueue.ts`, `jobs/cancel.ts`, `github/reviewer-request.ts` | memory: handlers that await the reviewer badge | `pull_request` deliveries, merge, `review`, `escalate`, stack and finding commands | store, queue (`dispatchEnqueue`), forge |
| **Operator routes** `server.ts` | - | retry, dequeue, cancel, pause, resume, settings | store, queue |
| **Publication** `jobs/pipeline.ts`, `forge/review-text.ts`, `findings/apply.ts` | the forge: reviews and threads | look for the marker, post, post again without inline comments, close threads | forge |
| **Escalation** `routing/policy.ts`, `routing/escalation.ts` | SQLite: dispatch status per job, a row per target | decide, page the targets, re-page on demand | comments on the pull, webhook targets |
| **Stack reviews** `jobs/pipeline.ts`, `stacks/*` | SQLite: stack jobs and their members; memory: the run's locals | trigger, supersede, re-pin; per member: pin, enqueue, run inline or cover, wait, verify; check, diff, summarise | store, queue, forge, the pull pipeline |
| **Findings** `findings/*` | SQLite: findings; the forge: threads | reconcile, publish, close threads; dismiss, reopen, remark | pipeline, commands |
| **Health scans** `jobs/pipeline.ts`, `server.ts` | SQLite: scan findings, `scan_issues` claims; the forge: issues | scan, close resolved issues; submit the issue form | pipeline, forge |
| **Intake** `github/webhooks.ts`, `github/rate-limit.ts`, `forge/deliveries.ts` | SQLite: `webhook_deliveries`, `processed_review_commands`; memory: the window | claim, ignore, refuse, release | webhooks |
| **Revisions** `config-revisions.ts`, `prompt-revisions.ts` | SQLite: profile and prompt revisions, custom roles, routes, evaluations | draft, edit, activate, roll back, deactivate, delete; stamp a job or a reviewer run | settings, pipeline |
| **Paid panel** `jobs/pipeline.ts`, `util.ts` | memory: the budget of a run, the workers of `mapLimit` | call, bill, retry, degrade or fail | model CLI |
| **Chat** `chat/*` | SQLite: conversations; memory: the chain of sends; disk: the checkout | ask, prepare, run, reset, sweep | model CLI, git |
| **Routing** `routing/select.ts`, `routing/signals.ts`, `jobs/enqueue.ts` | SQLite: the decision and the reviewer rows | scan the diff, decide, ask a model, apply the profile, insert the panel | pipeline |
| **Model CLI** `opencode/*` | memory: probe, pins, model list; child processes | probe, pin, spawn under a timer, abort, parse, list models | pipeline, chat |
| **Stack commands** `github/webhooks.ts`, `stacks/*` | SQLite: starts and declarations; the forge: marker comments | declare, start, end, top; by comment or by body; resume | stack reviews, forge |
| **GitLab** `gitlab/webhooks.ts`, `gitlab/provider.ts` | the instance: notes, discussions, approval | merge request events; publish in several calls | pipeline, store |
| **Pauses** `server.ts`, `jobs/cancel.ts`, `jobs/store.ts` | SQLite: `repo_pauses`, `global_pauses` | pause, extend, end, lapse; cancel what is pending | webhooks, queue |
| **Telemetry** `telemetry/*`, `jobs/summary.ts` | memory: the chains of exports and lines; a settings file | offer, post, time out; resolve four layers | endpoints |
| **Profile editor** `config-form.ts`, `server.ts` | SQLite: the draft; the browser: its forms | add, move, remove, test, save | revisions |
| **Database** `db.ts` | the file, of whatever release | create, rebuild, extend, heal | the process start |
| Other forge calls, git, sessions, pages, workbench | HTTP, git, HTML | I/O | - |

**What is hard here.** Nothing runs in parallel, but every `await` of a run or
a handler lets every other turn in: a newer head, a merge, a cancellation, a
pause, a retry, a second delivery. A job is described three times, by its row,
by its queue entry and by the run that works on it, and the three must agree
after each turn. A handler that created a row awaits the reviewer badge before
the queue hears of it. The process may die at any `await`; the row survives,
queue, run and controller do not, and the forge may or may not have the review
that was on its way. Deliveries are repeated, reordered and, after a force
push, go backwards. The promises to keep, per component:

- *queue*: never twice, never over `JOB_CONCURRENCY`, never idle, in order;
- *store*: one current job per pull, one-way dead states, one summary line per
  attempt, nothing interrupted is forgotten;
- *pipeline*: what died stops, what ended has no work left, a job always ends;
- *publication*: one review per head, only for the current one, none under a
  merge or pause; threads and pages only for a job that still counts;
- *switches*: under the pause nothing runs; a merged pull is never started;
- *stacks*: one open job per stack, one run per row, no wait for its own slot, a
  summary only over settled members, no member left in limbo;
- *findings*: a thread is closed only for what is settled; what was dismissed
  stays so;
- *side tables*: an issue per finding, a page per target, an act per delivery;
- *revisions and budgets*: what a job was stamped with is what it runs, and what
  it spends stays within a batch of its ceiling.

- *stack commands*: positions distinct, a run only for whom it was asked, the walk
  finds the stack or says why not;
- *routing*: a risky diff is answered, a restart keeps the panel of the decision;
- *GitLab*: one note per head, no finding lost between two calls;
- *the rest*: a call leaves no child, exports drain, what a page promises is what a
  save does, a migration loses no row, a stale page ends no other pause.

`PROJECT.json` lists every hazard with its line and the properties aimed at it.

## 2. The modules

| module | what it is |
|---|---|
| `JobQueue` | the queue: operators on queue records, its own specification, properties |
| `JobQueue_proofs` | theorems about it |
| `ReviewService` | store, pipeline, handlers, operator routes and forge around that queue |
| `ReviewContract` | abstract specification: what a reader of pull requests is promised |
| `ReviewProperties` | what `ReviewService` promises, the refinements included |
| `ReviewService_proofs`, `ReviewRuns_proofs` | theorems about it: rows, queue and identity; runs, what they post, and the contract |
| `StackReview` | stack jobs, their runs and triggers, beside the pull jobs of their members |
| `StackProperties` | what it promises |
| `StackReview_proofs` | theorems about it |
| `Findings` | finding rows and review threads, the runs and the people who write both |
| `Dispatches` | the pages of a poison alert, target by target |
| `ScanIssues` | health scans and the issues made from them |
| `Revisions`, `Prompts` | profile revisions and prompt revisions, and what is stamped with them |
| `Panel` | the paid stages of one job under its profile's ceiling |
| `Chat` | questions about a job, their conversations and the shared checkout |
| `Intake` | what becomes of a delivery |
| `StackWalk` | the walk that resolves a stack from the branches, and what a stack is by its meaning |
| `StackCommands` | commands and body markers, their tables, marker comments |
| `Kept` | what `filter()` leaves of a list |
| `Routing` | from a diff to the reviewer rows of a job |
| `MergeRequests` | merge requests of GitLab: events, runs, the calls of a publication |
| `Pauses` | the timed pause of a repository beside the switch |
| `ModelCli`, `ModelList` | calls of the model CLI; the list of its models |
| `Telemetry`, `TelemetrySettings` | the export chains and summary lines; the settings, their page and form |
| `ProfileEditor` | the profile form, what it decodes, refuses and saves |
| `Migration` | the database brought to this release |
| `Tables_proofs` | theorems about `Revisions`, `Prompts`, `Panel`, `Chat` and `ScanIssues` |
| `Components_proofs` | about `Intake`, `Dispatches` and `Findings`, and the eight of `MCComponents` together |
| `Services_proofs` | about `ModelCli`, `ModelList` and `Telemetry`, and the four of `MCServices` together |
| `Handlers_proofs` | about `StackWalk`, `StackCommands`, `Routing`, `MergeRequests`, `Pauses`, `ProfileEditor`, `TelemetrySettings` and `Migration`, and the scenes of `MCHandlers` together |
| `MCReviewService`, `MCStackReview`, `MCComponents`, `MCServices`, `MCHandlers` | what TLC runs: the first two instantiate a module, the others play several, each in a scene of its own |

Three modules compose: `ReviewService` and `StackReview` each extend `JobQueue`
and drive its operators, so that the queue inside them is the queue of the proofs;
the `MC` modules with scenes put side by side what shares no state: `MCComponents` the
eight modules from `Findings` to `Intake`, `MCServices` the queue by itself and what else the
process keeps in memory, `MCHandlers` what handles a command, an event, a form or a start.
A behaviour picks a scene and plays one module; the others stay as they begin, so
that the states explored are the sum of the modules' and not their product. Each
module models as much of a job as it needs.

**JobQueue.** `queue = [pending, active, started]` is `this.pending`,
`this.active` and whether `start()` was called. `Pumped`, `Enqueued`,
`AbortedMany` and `Finished` are `pump`, `enqueue`, `abortMany` and the
`finally` block of a run; the loop of `pump` is one step because nothing in it
awaits. `HandOver` is `dispatchEnqueue`: enqueue first, then the aborts of the
superseded jobs. `Start` takes the interrupted jobs in any order, since the
`SELECT` has no `ORDER BY`. `Die` is the end of the process.

**ReviewService** extends it; row ids are the queue's `Jobs`.

| variable | code |
|---|---|
| `rows` | a row of `jobs` with its `reviewer_runs`: `state`, `pull`, `head`, `slot` (whether `dedup_key` is the shared one), `runs`, `retries`, `reviewed` (`github_review_id`), `manual`, `paged`; `lines` counts the summary lines of the attempt and saturates at 2 |
| `merged`, `paused` | `merged_pulls`; an open row of `global_pauses` |
| `reviews` | reviews of Maomao on the forge, per pull and head |
| `pc`, `aborted` | the `await` each run is suspended at; runs whose controller has fired |
| `handoffs` | handlers between `store.enqueue` and `dispatchEnqueue`, with the jobs they will abort |
| `allowed` | the allowlist of this process (re-read at a restart) |

A turn of the event loop is one action. `Commit(rs, q, stopped)` is the part
all turns share: the queue becomes `q`, the jobs it has newly claimed run up to
their first `await` (`Entered`: the pause check, the early returns, the target
authorization), and the controllers of stopped jobs fire. `Step(j)` has one
action per `await` of `runJob`; each ends in an error, in `throwIfStale`, or in
the next stage (`Continues`). `Unwound` is the catch block. `Release` is the
`finally` block, run as a microtask before any other event (`Idle`).

Choices made in the translation:

- A handler that needs no badge (none configured) is `Dispatch` taken at once;
  the model also lets anything happen before it.
- Accepting a review and receiving the reply is one step, except with the
  feature `lost`, where a post is accepted and the reply is an error. A post in
  flight at a process death may or may not land.
- Which reviewers routing picks, whether a model call succeeds, what the
  reviewers find and hence whether the severity asks for a page are
  nondeterministic. `queued` and `running` reviewer runs are one value, `live`.
- Heads may be delivered in any order, any number of times.
- A process death inside one synchronous turn that writes twice is not
  modelled, nor are time budgets, the verify-only mode, or manual jobs.

**ReviewContract** has three variables: the current head of each pull, the
reviews decided and on their way, the reviews posted. A review is decided only
for the current head, and only if that head has none; it then lands or is
lost, whatever happens to the head meanwhile. `ReviewProperties!Contract` maps
`current` to the heads of the living jobs in the shared slot, `inflight` to
the runs at `post` and `repost`, `posted` to the forge.

**StackReview** extends `JobQueue` as `ReviewService` does. The whole pull
pipeline is one step here (`ReviewPull`, `InlineEnds`), since the stack only
sees how it ends.

| variable | code |
|---|---|
| `head`, `moves` | the forge: the commit each pull is at; pushes so far |
| `rows` | a row of `jobs`: `state`, `over` (one pull, or the members of a stack), `head`, `key` (0 while `enqueue` can find it, else moved aside), `rail` (`stack_run_members`: `pin`, `state`, `job`) |
| `pc`, `mem`, `aborted` | the `await` of each run in a slot; its locals (member, attempt, covered members, over the cap); fired controllers |
| `handoffs` | handlers that await the progress comments and the reviewer badge |
| `upsets` | cancellations and process deaths so far |

`Trigger` is `runStackEnqueue`: other layouts and running jobs are superseded,
ended rows at this head lose their key (`RetiredKeys`), a queued job is re-pinned
and anything else is a new row. `Attempt` is `store.enqueue` of a member with the
sweep of its other heads: `Joined` when a job has this head already (covered if
it is queued, awaited if it runs), else a row that runs inside the stack's slot.
`Resolved` is `resolveStackMemberCoverage`, which every `setJobState` makes;
`Unwinds` is the catch block. Choices: which members the branch chain resolves
to is the input `Layouts`; the comments of one post are one step; a
run that finds no free row unwinds (the bound on rows); pulls in `Unmarked` have
no stack marker, so their pushes make jobs of their own.

**Findings.** `findings` are the rows of one pull, `threads` the forge's threads
of each, oldest first; `pass` is a run with the snapshot it took at each await
(`threads`, `remarks`, `verifier`, `summaries`, `post`, `refresh`, `close`);
`orders` are command handlers between their write and the forge's answer. A run
lists, classifies, publishes, refreshes and closes; a person dismisses, reopens,
remarks, or closes a thread by hand at any point. `marked` is whether the head
has a review; a run at a new head clears it. `buried` and `pass.touched` are
history, for the properties.

**Dispatches.** `pageRows` has one row per target, shared by the two jobs of a head; `sender`
is where each job's loop over the targets awaits. `Loops` is the
loop up to its next call or its end. `Calls` may land, fail, or land and lose the
reply; `DispatchDies` may do the same to a call in flight. `overlapped` is history.

**ScanIssues.** `claims` are `scan_issues` rows: none (-1), a claim (0), an
issue's number; `issues` is the forge. `scan` and `submits` are the scan job and
the operators' requests at their awaits.

**Revisions** and **Prompts** keep their tables as sequences by id, with
`edit_seq` (`seq`); `stamped` and `reviewers` are what bears an id. `forms` are
drafts open in a browser, as they were read. `clobbered` is history.

**Panel.** `seats` are the reviewer rows, `hands` and `todo` the workers of
`mapLimit` and the rows they have not taken, for each run of the job, since a
run that failed leaves calls behind; `spent` and `lab` are the budget of each
run, without and with the internal pass. Prices are 0 to `MaxCost`.

**Chat.** `asks` are the sends with the one each waits for, `lockTail` the entry
of `locks`; `checkedOut` is the disk, `half` after a preparation that failed.

**Intake.** `deliveryRow` and `commandDone` are the two tables of claims,
`handlers` the requests at their awaits, `did` and `declined` what a subject came
to. Four kinds of subject stand for the four orders in which the handlers claim
and act: replies and commands, closed pulls, pushes.

**StackWalk.** `Walk` follows the branches of a layout down as `resolveStackChain` does,
one `Descends` per turn of its loop, with its limit of 100 pulls. `IsStackOf` is the reference
definition: it says what a stack is without walking.

**StackCommands** extends it. `layout` is the forge's open pulls and their bases; `declared`,
`starts` and `lastRun` are the tables; `awaiting` holds the handlers, each with the listing it
took (`seen`), which may be older than what it decides. Jobs are
`StackReview`'s subject: here a run is the list of members it was enqueued with.
Several refreshes of one handler are taken pull by pull, as its loop awaits. The body
marker is read from the delivery; `BodyEvent` covers the fall-through to a normal
review and the resume of a stack that has run.

**Routing.** A path is a class of the patterns of `signals.ts`; a hunk is a sequence
of marks, two of which look like headers (`addLike`, `delLike`), because the parser
does not follow hunks. `Scan`'s counts and risks feed `select.ts`'s rules; the
model's answer is any list in `Answers`; `MergeModel` is what is kept of it. The rows
are inserted one per step (`ensureReviewerRuns` has no transaction).

**MergeRequests.** `posts` are Maomao's notes and discussions at the instance, by head
and spot; a run's awaits are the steps of `runJob` and of `createReview` in
`gitlab/provider.ts`: list, note, each discussion, the unplaced rest, approval. A
`mishap` is a refusal, a failed call, or a death. Events are those of the heads the
request has had, in any order, any number of times.

**Pauses.** `pauses` are the rows of one repository by id; `handler` says how far `POST
/pause` is past its awaits, where the process may die between statements; `asking`
are the forms that await the forge; `tab` is the row an operator's page offers to
end. Each review is of a pull of its own.

**ModelCli, ModelList.** `calls` are the promises of `run()`, `child` what the operating
system has, `watched` the timer and the listener each call has armed. A turn in which
the probe or the pin settles spawns every call that waited (`Spawned`). `out` is the
stream, event by event, which may repeat and stop anywhere.

**Telemetry, TelemetrySettings.** `chains` holds the tasks of the two promise chains and
the counter of pending ones; a task resolves its endpoint when it is offered, posts,
and settles by an answer, an error or its timer. Of a job only its attempts, the calls
still being billed and its summary lines are left. The settings' four layers
(environment and file, for a channel and shared) are records of small values;
`Status`, `Resolved*` and `Preview` are the code's three resolutions of them.

**ProfileEditor.** `draft` is the revision with its `edit_seq`, `pages` the forms of two
tabs as their fields stand. Times are thousandths of a second; `Exact` says for which
of them `Number(text) * 1000` is an integer in binary floating point.

**Migration.** Four tables stand for all: two that are rebuilt, one that is extended, one
that is healed. `db` is the file, `journal` the open transaction, `FileOf` the shapes of the releases.

## 3. The runs

| run | question | instance |
|---|---|---|
| `services` | `ServicesInv`, `QueueInv`, `FirstInFirstOut`, `NothingStaleIsUsed`, `ServicesSettle`: does the queue keep its promises under every sequence of operations, do the calls of the model CLI and the exports of telemetry end, count and leave nothing behind? | four scenes |
| `identity` | `OneCurrentJob`, `OneReviewPerHead`, `StopsReachRuns`, `ImplementsContract`, `UsesQueue`: heads in any order, re-reviews, cancellations, a process death; does the service implement the contract and drive the queue properly? | 1 pull, 2 heads, 3 jobs, 1 slot, 1 death |
| `switches` | `PausedIsQuiet`, `MergedIsQuiet`, `PostsOnlyCurrent`, `DeadStaysDead`: merges and pauses against running jobs | 2 pulls, 2 heads, 2 jobs, 2 slots, 1 death |
| `paging` | `RowsMatch`, `PagesOnlyLive`: escalation by command or policy, an allowlist that changes with the restart | 2 reviewers, 2 jobs, 1 death |
| `progress` | `AttemptsAreWhole`, `OneJobPerHead`, `JobsSettle`: retries, pauses and lost replies with a router in the loop; does every job end, under fairness? | 2 jobs, 1 retry, 1 death |
| `stack` | `RowsAndRail`, `OneOpenStack`, `SummaryIsSettled`: stacks against pushes, new layouts, cancellation, death | 2 layouts over 3 pulls, 2 heads, 3 rows, 2 slots, 1 push, 1 upset |
| `components` | `ComponentsTypeOK`, `ClosesOnlySettled`, `PagesOnce`, `OneIssuePerFinding`, `ProfilesHold`, `CeilingHolds`, `ChatIsSerial`, `ActsOnce`, `PromptsTraceable`: each component with tables of its own, against its races, failures and deaths | eight scenes |
| `handlers` | `HandlersTypeOK`, `StacksAsAsked`, `ReviewersAnswer`, `PublishesOnce`, `MergedStaysQuiet`, `RepoPauseIsQuiet`, `PagesAreTrue`, `PressesDoAsShown`, `MigratesWhole`: commands, diffs, merge requests, pauses, forms, settings and the migration, against stale pages, failures and deaths | eight scenes |
| `v_threads` | `EndedNeverCloses`, violated | 2 jobs |
| `v_merged_retry` | `MergedNeverStarts`, violated | 1 job |
| `v_rereview_post` | `OneReviewPerHead`, violated with 2 slots | 2 jobs, 2 slots |
| `v_followup` | `RailSettles`, violated | 1 layout of 2 members with jobs of their own, 3 rows, 1 slot, 2 upsets |

Some properties are conjunctions of parts that are defined and stated one by one
in their modules; a part holds of its scene, or of the same instance.

| property | parts |
|---|---|
| `QueueInv` | `QueueTypeOK`, `OneEntryPerJob`, `WithinConcurrency`, `WorkConserving` |
| `ServicesInv` | `NoOrphans` (a call that ended has left no child), `UsageHonest` (what is booked is what the stream said, once), `BacklogCounted`; types |
| `NothingStaleIsUsed` | `PinnedCheckout`, `NewestList` |
| `ServicesSettle` | `PendingLeaves`, `CallsSettle`, `Drains` |
| `AttemptsAreWhole` | `QueuedIsOwned`, `EndedRunsEnded`, `OneLinePerAttempt` |
| `RowsMatch` | `TypeOK`, `RowMatchesRun` |
| `RowsAndRail` | `StackTypeOK`, `UniqueRows`, `OneRunPerRow`, `WaitsForRunning`, `RailAnswered` |
| `ProfilesHold` | `ProfilesRunnable`, `JobsKeepTheirProfile` |
| `StacksAsAsked` | `PositionsDistinct`, `RunsWereAsked`, `WalkFindsTheStack` |
| `ReviewersAnswer` | `RiskIsAnswered`, `PanelAnswersDecision` |
| `PublishesOnce` | `OneNotePerHead`, `NothingDropped` |
| `PagesAreTrue` | `SavedIsSound`, `RoundTrip`, `PageSaysWhatIsSent` |
| `PressesDoAsShown` | `ClickEndsWhatItShows`, `FlagsTheRow`, `ClicksKeepRows`, `PreviewIsWhatSaveGives` |

A part can fail by itself: beside the definition whose bug would break it, each module
keeps a wrong form marked "Mutant" (`EnqueuedTwice`, `RestartQueued`, ...), under
which TLC refutes that part. `PROJECT.json` lists one for each property of a run.

**Why these bounds.** Each promise concerns a pair: two jobs of a pull, two
heads, a job and a switch, a run before and one after a death. Two heads give
newer, older, repeated and forced pushes; three jobs in `identity` let a head
be superseded, come back and be re-reviewed. With one slot, one job waits while
another runs; the queue's own run has more jobs than slots twice over.
`switches` needs two pulls running at once so that a switch hits one and not
the other. `MaxRetries` and `MaxCrashes` bound counters that code leaves
unbounded: one is enough for an attempt after an attempt and a process after a
process, and a second adds no new pair. `paging` has two reviewers, so that a run can
fail of one of them only; in `progress` there is one, since the liveness check pays for
each state several times, so which of several failed reviewers a retry takes up is
left to the proof of `AttemptsAreWhole`. `identity` has one slot on purpose: with two,
`OneReviewPerHead` fails, and that is the run `v_rereview_post`. `CHECK_DEADLOCK
FALSE` stands in `paging` only: with the pull not on the allowlist and the
death used up, no delivery is admitted and the service really is at rest.
In the other runs a repeated delivery is always possible. Every optional handler
is a member of `Features`, so that a run pays for those its question needs.

**`stack`.** Two layouts, one a member longer, are the shortest stacks that can
supersede each other and have a middle member to skip for the budget; three rows are a stack,
its successor and one member's job, or a stack and both jobs of a short one; one handler in
flight is enough to cross with a run, since a second adds only its own dispatch.
One push and one upset give every pair of an interruption and an await. What needs two
upsets, and a third state of one rail, is `v_followup`'s and the proofs' subject. The
pushed pull is the first of both layouts and the one without a marker, so that
its own jobs meet the stack's. `CHECK_DEADLOCK FALSE`, because rows run out and
then everything may be at rest. No liveness: with a bound on
rows, "the stack ends" would be about the bound. That a stack never waits for its
own slot is stated as a safety property instead (`WaitsForRunning`).

**`components`.** The bounds, each the smallest at which what its property excludes could
happen: 1 finding with 2 threads, 3 runs and 2 acts of people (dismissed, missed,
met again); a webhook and a comment target, 3 upsets, two jobs; 2 findings of
which 1 is worth an issue, 2 operators, 3 submits; 2 profile names, 2 revisions, 1
edit, 1 job; 3 reviewer rows over 2 workers with 2 attempts, a ceiling of 1 and
prices 0 or 1, 2 runs; 3 sends in 2 conversations of 3 messages, 1 death; 6
deliveries of 5 subjects (one comment under two), 2 requests at once, 4
arrivals, a rate limit of 1; 1 reviewer row, 2 editors, 2 texts, 2 prompts.

**`services`.** Five jobs for two slots make the queue longer than its slots twice over.
Two calls of the CLI share a probe and a pin, two steps are a stream with something
between its start and its end, two finishes per child let one repeat, and one wipe takes
the pin away under a call. Five refreshes of the model list are the fewest in which a late
answer could overtake two newer ones. A backlog of three with two attempts fills both
chains and meets the limit; one rewiring moves the endpoint under an export that waits.

**`handlers`.** *commands*: two requests, because every race of these handlers is
between two; three commands are a start, a declaration and an end, and one rebase
makes one of them stale. *walk*: four pulls are the fewest with a fork in the middle
of a chain, a cycle, and a pull above the trigger; every layout of their bases is tried.
*routing*: two files and thresholds of one line put the diff on both sides of every
threshold; a plain, a locked and a risky path, and documents by a line that looks like a
header; two deaths are the fewest after which the rows may be of the whole set under a routed
decision (section 4). *requests*: two heads give a late event and a moved head, two spots a
discussion before and after a refusal, two mishaps a refusal with a death after
it; the queue runs one job of a request at a time, as one slot does. *pauses*: two
rows are a pause and its extension, or a pause and the next one that a stale page
could hit; two upsets are a lapse and a death. *editor*: two tabs, two rows, two edits, one save;
times are those the form can say (`RoundTrip` fails for others, section 4). *settings*: one
value an operator types and one of the environment. *migration*: three starts are two that fail and
one that succeeds, over two rows.

`CHECK_DEADLOCK FALSE` stands in these three: a scene ends when its bounds are used
up, and an idle component rests.

**Fairness.** `Release` is weakly fair: microtasks run before anything else.
Steps of runs and hand-offs are strongly fair: each becomes ready when its
`await` settles, other turns may come between any number of times, and the
event loop serves what is ready. They settle because the model CLI runs under a
timeout (`opencode/spawn.ts`), HTTP calls end, and the badge call has a
deadline of its own (`github/reviewer-request.ts`). `Boot` is weakly fair: the
container restarts. Deliveries, operators and deaths are not fair.
`Drains` rests on the timer of a post (10 s, `telemetry/otlp.ts`) and on the promise
chain, which starts the next task when one settles; endpoints owe nothing. `CallsSettle`
rests on the timers of probe and child and on the file system that ends a pin's
write; no child ever has to answer or exit.

## 4. What the runs found

Each is a run whose property states a sentence of the repository:

1. `v_threads`: "Failed or stale jobs never close existing threads"
   (README.md:665). The check precedes an awaited listing of the threads.
2. `v_merged_retry`: "once the merge is recorded, Maomao never starts a review
   for one" (README.md:565). Retry does not look at the merge marker.
3. `v_rereview_post`: "one conservative review" (README.md:5). A job cancelled
   while its post is in flight gives its slot to a re-review, whose run lists
   the reviews before that post lands.
4. `v_followup`: "Members the run never finished must not render QUEUED/REVIEWING
   forever" (`pipeline.ts:1069`). A stack run that finds one delegated review dead
   when it finishes awaits a comment about it before it writes `completed`
   (`pipeline.ts:1555`). Another delegated review that ends during this await is
   seen by nobody: the run does not look again, and the job's own end settles the
   rails of ended stacks only (`store.ts:1195`). The proof attempt found this:
   `RailSettles` would not follow at that step, TLC then showed why on an
   instance with two upsets. `RailAnswered` is what does hold, with this exception.

The repository says more that its code does not do. Each of these is a property of its
module, stated in the code's words; a run checks none of them, but TLC refutes each when
it is added to the configuration named (an invariant unless marked *action*).

| property | added to | the repository says | what happens |
|---|---|---|---|
| `NeverReportedAgain` *(action)* | `components.cfg` | "will not be re-reported on later SHAs of that PR unless someone `@maomao reopen`s it" (README.md:680) | a dismissal that arrives while a run resolves the same thread is overwritten by `uncertain` when that resolve fails (`pipeline.ts:592`) |
| `OneMarkerComment` | `handlers.cfg` | "exactly one marker comment per member PR" (`stacks/comments.ts:1`) | two commands list a pull's comments before either creates one |
| `DeclarationsStand` *(action)* | `handlers.cfg` | "A pre-existing declaration that disagrees with the branch layout aborts the run" (`webhooks.ts:1240`) | it is replaced, and the run goes on |
| `EventIsCovered` | `handlers.cfg`, `Pulls` {1, 2, 3} in a chain, `Given` {"start", "end"}, one request, bodies with one `part` | a member's push "would otherwise land with no review at all" (`webhooks.ts:1262`) | a member that has left the chain resumes a run without it |
| `PanelIsWhole` | `handlers.cfg` | "the profile decides who answers" (`enqueue.ts:43`) | a death between two inserts of the panel leaves the rest out for good |
| `SignalsAreTheDiffs` | `handlers.cfg` | "extracts cheap signals (file/line counts, ...)" (README.md:299) | added lines that begin with `++ `, removed ones with `-- `, pass for headers |
| `AcceptedIsRecorded` | `handlers.cfg` | "what the forge actually accepted" (`pipeline.ts:2597`) | after a restart nothing counts as accepted |
| `EventIsTheDelivered` | `handlers.cfg` | "a recorded event always corresponds to a delivered one" (`pipeline.ts:2588`) | GitLab may refuse the approval, or give it before a death |
| `ReviewsItsOwnDiff` | `handlers.cfg` | "anchored to an exact head SHA" (`ui/pages.ts:215`) | the diff is the live head's |
| `AskedReviewsStand` | `handlers.cfg` | "the pause gates *automatic* reviews only" (README.md:606) | it cancels members of a stack and reviews asked for by URL |
| `ExtensionKeepsThePause` | `handlers.cfg` | "until it expires or an operator ends it early" (README.md:604) | an extension is two statements without a transaction |
| `EndpointsAsCalled` | `handlers.cfg` | "The URLs Maomao will call" (`ui/telemetry.ts:265`) | the page joins a stream of the environment with a stored base, which the server does not |
| `EveryFieldFillsIn` | `handlers.cfg` | "env-over-stored per field" (`settings.ts:21`) | credentials are taken layer by layer |
| `NoEditIsLost` *(action)* | `handlers.cfg`, `MaxSaves = 2` | "returns a conflict instead of overwriting a teammate's change" (README.md:647) | a row click or a refused save draws old values with the new number |
| `RoundTrip` | `handlers.cfg`, `Times = {1001, 1500}` | "lossless for schema-valid values" (`config-form.ts:383`) | 1001 ms comes back as 1000.9999999999999 and is refused |
| `OneTracePerRun` | `services.cfg` | "one OTLP/HTTP trace per terminal job run" (`traces.ts:21`) | the ids hash the job only |
| `FloorsAreMarked` | `services.cfg`, `UsageCalls = 2` | `usage_complete` is "false when the line is a floor" (`summary.ts:111`) | a failed job's line is written while its calls are billed |

Others that the same model shows when features are combined, without a run of
their own: a retry of the job that a re-review moved aside makes two jobs for a
head (README.md:39, `store.ts:1811`); the body-only second post may start after
the merge (README.md:567, `forge/review-text.ts:29`); a lost reply to an
accepted post is answered by a second post (`review-text.ts:26`); escalating a
failed job runs it again within the same attempt and emits a second summary
line (README.md:329, `webhooks.ts:569`); a retry while the page of the same job
is being sent is dropped by the queue and leaves the row queued until the
restart (`queue.ts:81`); terminal states do change, `completed` to `stale` by a
sweep and to `queued` by a retry (the comment at `config.ts:34`).

What the other models show, also without runs of their own, because no sentence of
the repository promises otherwise or the sentence is about something else:

- *Stacks.* The aside key of a retried member repeats after a restart of the
  stack, and the second `UPDATE` fails the run (`pipeline.ts:1285`). A run
  superseded after phase 3 still posts its summary (`pipeline.ts:1540`). A head
  that moved in phase 3 ends the run stale with the rail as it is, and a stack
  cancelled while it waits after a restart may keep a member `reviewing` whose
  job has ended: `RailAnswered` is about completed and failed stacks for this
  reason.
- *Findings.* A reopen made while a run works from an earlier snapshot is
  written back as dismissed (`apply.ts:144`).
- *Routing.* A death between the decision and its rows, a restart in fixed mode that dies
  while it inserts the whole set, and a restart with the router: the rows there are taken
  for the decision's (`pipeline.ts:1899`). `PanelAnswersDecision` says so (`deaths > 1`).
- *Pages.* The marker drops the white space of a target's key and is compared
  with the key that has it, so such a target is paged again after a lost reply;
  `PagesOnce` excludes it (`Spaced`, empty in the run).
- *Revisions.* A retry after a revision was deleted runs the environment's
  roles; activation looks at no `edit_seq`; a row retried after its prompt was
  disabled keeps the old stamp; an evaluation started on a draft is attributed
  to whatever the draft says later.
- *Budget.* It starts at 0 again with a retry or a restart. In fail mode
  the calls of the other workers go on after the panel failed and write their
  rows under the next run. The router and the retries of the internal pass ask no
  budget; an internal answer that does not parse is billed twice.
- *Chat.* A preparation that fails half-way leaves a directory the next send of
  a conversation that had a workspace runs in (`chat/service.ts:270`).
- *Intake.* Between the look at a claim and the claim lie awaits, so two requests
  for one comment may both act; so may a redelivery after a death between the
  act and the claim. `ActsOnce` states exactly these two exceptions.

## 5. The proofs

Assumptions, each as weak as its constants' comments: `QueueAssumption`
(`Concurrency` positive, finitely many jobs; `config.ts` clamps the former),
`ServiceAssumption` and `StackAssumption` (row ids count from 1, at least one pull
and head, a layout has two or more distinct members), and one of the same kind for
each component's module (`RevisionAssumption`, `PromptAssumption`,
`ScanAssumption`, `ChatAssumption`, `PanelAssumption`, `IntakeAssumption`,
`DispatchAssumption`, `FindingsAssumption`, `CliAssumption`, `ModelListAssumption`,
`TelemetryAssumption`, `PausesAssumption`, `MergeRequestAssumption`,
`MigrationAssumption`, `StackCommandsAssumption`, `RoutingAssumption`, `EditorAssumption`,
`TelemetrySettingsAssumption`). TLC evaluates each in the runs. Two ask for more than the
code does: `RoutingAssumption`, that `REVIEWER_ROLES` names no role twice (with a repeated
one no job of fixed mode can be enqueued, since its rows are UNIQUE), and the hypothesis of
`PageAlwaysRoundTrips` and `PagesAreAlwaysTrue`, that the form can say every timeout there
is (`Exact`; section 4 has one that it cannot).

| module | theorem | states |
|---|---|---|
| `JobQueue_proofs` | `QueueSafe`, `WellTyped`, `NeverTwice`, `NeverOver`, `NeverIdle`, `QueueInOrder` | `[]QueueInv`, its parts, and `FirstInFirstOut` |
| `ReviewService_proofs` | `QueueImplemented`, `ServiceQueueSafe` | `SafeSpec => UsesQueue`: the service implements `JobQueue`, so the queue's promises hold inside it |
| | `ServiceInvariant` | its inductive invariant |
| | `OneWay`, `PauseHolds`, `OneCurrent` | `DeadStaysDead`, `[]PausedIsQuiet`, `[]OneCurrentJob` |
| `ReviewRuns_proofs` | `RowsAgree`, `StopsArrive`, `ReviewersEnd`, `PagesAreWanted` | `[]RowsMatch`, `[]StopsReachRuns`, `[]EndedRunsEnded`, `PagesOnlyLive` |
| | `AttemptsEndWhole` (a) | `[]AttemptsAreWhole` |
| | `MergesHold` (b), `PostsCurrent` (b) | `[]MergedIsQuiet`, `PostsOnlyCurrent` |
| | `OneJobEach` (c) | `[]OneJobPerHead` |
| | `OneReviewEach` (d) | `[]OneReviewPerHead` |
| | `ContractImplemented` (c, d) | `SafeSpec => ImplementsContract` |
| `StackReview_proofs` | `StackSound`, `OneOpenAlways` | the invariant of its rows, `[]OneOpenStack` |
| | `StackDeep`, `RowsAndRailAlways`, `SummaryAlwaysSettled` | its whole inductive invariant, `[]RowsAndRail`, `SummaryIsSettled` |
| `Tables_proofs` | `RevisionsWellTyped`, `AlwaysRunnable`, `StampsHold`, `ProfilesAlwaysHold` | types, `[]ProfilesRunnable`, `JobsKeepTheirProfile`, and both as `ProfilesHold` |
| | `PromptsSound`, `PromptsWellTyped`, `AlwaysTraceable` | types, `[]PromptsTraceable` |
| | `PanelSound`, `CeilingAlways` | types, `[]CeilingHolds` |
| | `ChatSound`, `ChatWellTyped`, `ChatAlwaysSerial` | types, `[]ChatIsSerial` |
| | `ClaimsHeld`, `ScanIssuesWellTyped`, `OneIssueEver` | types, `[]OneIssuePerFinding` |
| `Components_proofs` | `ActsOnceAlways`, `IntakeWellTyped` | `[]ActsOnce`, types |
| | `PagesOnceAlways`, `PagesWellTyped` | `[]PagesOnce`, types |
| | `FindingsSound`, `ClosesSettled` | types, `ClosesOnlySettled` |
| | `ComponentsHold`, `PromisesHold` | `ComponentsSpec => []ComponentsTypeOK`, and each promise of the eight under `ComponentsSpec` |
| `Services_proofs` | `ServicesHold`, `NothingStale` | `ServicesSpec => []ServicesInv`, `NothingStaleIsUsed` |
| `Handlers_proofs` | `ResolutionIsTheStack` | what the walk gives is the stack, and it gives nothing only if there is none: for any layout |
| | `StacksWereAsked` | `[](PositionsDistinct /\ RunsWereAsked)` |
| | `RoutingWellTyped`, `RiskIsAlwaysAnswered`, `PanelAlwaysAnswers` | types, `[]RiskIsAnswered`, `[]PanelAnswersDecision` |
| | `EachHeadOnce`, `MergedIsDone`, `RequestWellTyped` | `[]PublishesOnce`, `MergedStaysQuiet`, types |
| | `PausesAreQuiet`, `PausesWellTyped`, `ClicksEndTheirPause` | `[]RepoPauseIsQuiet`, types, `ClickEndsWhatItShows` |
| | `EditorWellTyped`, `SavedIsAlwaysSound`, `PageAlwaysRoundTrips` | types, `[]SavedIsSound`, `[]RoundTrip` (under `Exact`) |
| | `FlagsAreTrue`, `ClicksLoseNothing` | `FlagsTheRow`, `ClicksKeepRows` |
| | `SettingsWellTyped`, `PageAlwaysSaysWhatIsSent`, `PreviewIsTrue` | types, `[]PageSaysWhatIsSent`, `PreviewIsWhatSaveGives` |
| | `EveryRowSurvives`, `MigrationWellTyped` | `[]MigratesWhole`, types |
| | `HandlersWellTyped`, `StacksAreAsAsked`, `ReviewersAlwaysAnswer`, `PagesAreAlwaysTrue` (under `Exact`), `PressesAlwaysDo`, `HandlersPromisesHold` | of `HandlersSpec`: `[]HandlersTypeOK`, `[]StacksAsAsked`, `[]ReviewersAnswer`, `[]PagesAreTrue`, `PressesDoAsShown`, and the promises above |

`Features` names the optional handlers that are switched on, and a theorem with a letter
leaves some out: (a) `escalate`; (b) `merge`, or else `retry` and `escalate`; (c) `rereview`, or
else `retry` and `escalate`; (d) `lost`, and `rereview` unless there is one slot. Each is left out
because the code breaks the promise with it, and TLC refutes the property when the feature is
added to its run: escalating runs a job again within its attempt (a); neither the retry button nor
an escalation looks at the merge (b); an ended job that gave its slot away and is run again is a
second one for its head (c); a lost reply posts twice, and with two slots a re-review overlaps the
post it replaces (d). The theorems without a letter hold with every feature.

**JobQueue_proofs**, for every number of jobs and slots. The inductive invariant is
`IInv`: the queue is *sound* (typed, no repetition, disjoint, within the limit)
and, once started, *busy* (an entry waits only when every slot is taken);
before that it is empty. `NeverIdle` alone is not inductive, since releasing a
slot frees one and pumping refills it only if the free slots are counted right,
which needs the disjointness and the limit. The lemmas say what each operator
does: `PumpedClaimsPrefix` (pump claims a prefix, as long as slots allow),
`WithoutIsSubsequence` (splicing leaves a subsequence), `EnqueuedSound`,
`FinishedSound`, and `OperationEntries` (nothing enters but what is enqueued).

**ReviewService_proofs.** The argument goes row by row:

1. *Rows.* `Evolves(r, s)` is how one write may change a row: its identity
   stays, a dead row keeps its state. `SetState`, `EnsureRuns`, `Reviewing`,
   `Unwound` and `Entered` evolve rows, and evolution is transitive.
2. *Turns.* Every `Step(j)` is a `Turn`: one evolved row, one next `await`, and
   a run at work finds its row live or dead (`StepTurns`).
3. *Commits.* `Prepared(rs)` is what the handlers may commit: nothing dead
   revives, nothing comes to life. `CommitEffect` says what the claim adds.
4. *Steps.* `NextEffect`: every step of the service keeps `ServiceInv`, takes
   the queue by a step of `JobQueue`, and has the effects the theorems state.

`ServiceInv` is `IInv` of the queue, the types of rows, runs and hand-offs, *a
run in progress holds a slot* (`Claimed`) and *a run works on a job that is
live, or died under it* (`RunsOfLiveJobs`). The last two are the strengthening:
without them a release might free a slot it does not have, and a run could
bring a paused job back to life. `OneCurrent` needs `IdentityInv` besides:
whatever the queue or a hand-off knows exists, so that no row comes into being
except by `store.enqueue`, whose sweep has killed every other holder of the slot
(`EnqueuePullIdentity`).

**StackReview_proofs.** `StackInv` adds to `OneOpenStack` what keeps it: rows and
rails fit (a stack has an entry per member, and an entry names a pull job or
none); an open stack has the key a trigger looks up; a job in the queue, or on its
way there, is not a stack that has completed or failed; a run holds a slot and a stack's run is at
one of its members. Every turn rewrites rows as `Follows` says: what a row is
over never changes, what is active kept its state and its key, and what ends was at
work or is dead. Each write follows (`StateKeeps`, `RailKeeps`, `MovedFollows`,
`SkippedKeeps`, `PullAdded`), following is transitive, and `FollowsSound` turns it into the
invariant. `TurnKeeps` does the rest for every handler and every stage of a run.
Only the trigger makes a stack; `TriggerFollows` shows that no open stack is left when it does:
another layout's was superseded, its own running one too, and one that
waits would have been a duplicate. Without *an open stack is on the shared
key* the superseded ones would be missed, and without *no dead stack in the queue's
way to life* a claim would bring one back.

`RowsAndRail` and `SummaryIsSettled` need more, `DeepInv`: what a run remembers agrees
with the rows while others write them. Its parts are the types; one row per identity
(`Unique`; a key moved aside becomes a number of its row's own); `RunFine`, of each run,
what its rail looks like at its `await`: the members before the present one settled,
covered ones remembered as such, the present one with a job that is inline or
somebody's, and after the run every member answered; and that each running job is
worked on once (`InlineOk`: what a stack runs inline is known neither to the queue nor to
a handler that brings a job); and a trigger that re-pins does so at heads
no other row of the layout is at (`HandPins`). The argument has three layers:

1. *Rows.* `Evolves(F, W, a, b)`: from table `a` to `b`, only the jobs of `F` end by
   themselves, only those of `W` have their rails written, a dead row stays, and whoever
   ends settles the members that waited for it on ended stacks. Every write of the model
   evolves rows (`MovedEvolves`, `SkippedEvolves`, `SweptEvolves`), and evolution is transitive.
2. *Others.* `Rest(s, N, rs)`: a turn of run `s` that evolves rows leaves every other run
   as fine as it was. Two runs share a row only if one covers what the other runs.
3. *The run itself.* Each stage (`Attempt`, `InlineEnds`, `Waits`, `Verify`, `Repin`, the
   checks, the post, the follow-up, the end) shows `RunFine` at the `await` it goes to.

A claim takes jobs of the queue into runs; the row of one may be a stack's whose rail an
earlier process half filled, and the invariant allows for just that. `FrameOk` bounds what is left
(heads, counters, signals), and `SoundInv` is all three. At the step from `followup` to the
end `RailSettles` does not follow, for the reason in section 4.

**ReviewRuns_proofs** extends the argument of `ReviewService_proofs` from what a row may
become to where its run is meanwhile:

1. *Turns.* Every turn of a run is a `Leg` from a row and an `await` to a row and an
   `await` (`Ran`), every other step of the service is `Handled`: a table is written, a
   queue committed, some jobs signalled. `NextCases` shows that these shapes
   cover `Next`; `Published` says how a run comes to `post` and what it adds to the forge.
2. *Agreement.* `BaseInv` is `ServiceInv`, `IdentityInv`, the types, and `RunsInv`: a job has
   a run exactly while its row says so (`LiveHasRun`), only dead jobs are signalled and each run
   of a dead job is, or will be by the handler that awaits the badge (`Signals`), and a job past
   its reviewers has none at work (`AllFit`). It holds with every feature, and carries
   `RowsAgree`, `StopsArrive`, `ReviewersEnd` and `PagesAreWanted`.
   `StopsReachRuns` alone is not inductive: a signal may still wait
   in a handler, and that handler's list must stay a list of dead jobs (`StaleAreDead`).
3. *Attempts.* `AttemptsInv`: what waits in the queue or behind a badge is due, once, and
   a job has told of its attempt exactly if it has ended.
4. *Heads.* A job aside has ended (`AsideEnded`), so two active jobs of a head would both be in
   its slot, which `IdentityInv` excludes. For the reviews, `Once` says a head whose review is being
   posted has none. A run is at `post` only after it listed the reviews there; nobody
   else posts in between because no two runs are at work on one head (`Apart`: they are distinct jobs of
   distinct heads, or there is one slot).
5. *Refinement.* The mapping is `Contract`'s. A turn that starts to post is `Decide`, its end
   `Land` or `Lose`, a commit that changes who holds a pull's slot is the contract's change of head,
   a crash loses some of what is in flight and lands the rest (`CrashContract`); everything
   else stutters (`NextContract`).

**Tables_proofs.** *Profiles*: the strengthening is `StampsInv`: nothing is
stamped with a draft, with `ProfilesRunnable`, preserved pointwise (`Kept`: a
revision that was activated keeps what it says). Drafts are the only
revisions whose text changes, so stamps on others are safe. *Prompts*: `PromptsInv`, a
form, a reviewer row or an evaluation bears the number of a revision that has left
draft, or says what it was read to say (`PromptKept`).
*Panel*: `Within`, what a run has spent and what its calls underway may still
be billed stay within `Ceiling + Hands * MaxCost`, a call each for the hands
that had looked at the budget before the last one was billed.
*Chat*: `ChatInv` is `ChainInv` (`Alone`: whoever works, or has left, has
only sends that have left before it in the chain of locks) and `ConvInv` (`Room`, `Open`: a
send at work has room in its conversation). The lock is a chain of promises, and
mutual exclusion is the induction along it.
*Scan issues*: `ClaimsInv`, a claim with no number yet is held by exactly one
submit that works on its finding, and a submit about to create has seen that no
issue of the finding is open. `OneIssuePerFinding` alone says nothing of the
awaits between the claim and the number. That a health scan closes issues that are there is
`LinksInv`: what it has taken up is linked, no submit undoes a link, and issues only grow.

**Components_proofs.** *Intake*: `Unraced`, a subject nobody raced for was acted on at most once,
and its claim says so. *Dispatches*: `PageInv`, a row that says sent was sent,
and a marker on the forge has its row or a sender that knows. *Findings*: `Agrees`. A run decides
between awaits on a snapshot; what it decided of a finding (`resolved`, `moved`, ...) still
agrees with the row it wrote and the threads it saw, unless a person was at that finding
meanwhile (`pass.touched`), because only the run itself writes there otherwise. From that a
thread it closes is of a settled finding, or leaves another one open.
`EachAlone` then shows that a behaviour of `MCComponents` is one of each of its eight components.

**Services_proofs.** `CliInv`: a call of the model CLI has a child from its spawn on, its timer until
it settles and its listener until it is aborted, and waits for the probe or the pin
exactly while one is underway. `ListInv`: one refresh is out at a time, so answers
come in the order they were asked. `TelemetryInv`: the counter of a chain is what is in
it, and what is booked of a job's calls is what their streams said.

**Handlers_proofs.** *The walk*: `Walk` is a recursive function, so what it gives is
not proved by induction on it but by the least number at which a claim fails
(`LeastNumber`). Every turn keeps a chain of different open pulls, each the only one the next
is based on (`TurnKeepsChain`); a turn that does not end the walk adds a pull, so after as many turns
as there are open pulls it has ended (`WalkIsChain`). The other way, a stack `c` is met from above: after
`n` turns the chain is the upper `n + 1` of `c` (`TurnFollowsStack`), so the walk ends with
`c` and fails for none.
*Commands*: `CommandsInv` types the requests that await, by stage, and says that a stack
somebody waits for was asked for. `RunsWereAsked` alone is not inductive: the run
is enqueued awaits after the command. That a new row's position is free is what the
reconciliation leaves (`ReconciledRows`), and what is enqueued is a stack by the walk's theorem
(`ResolvedChain`).
*Routing*: `DecisionHeld`, a decision is none, the fixed one, or `Sound` for the scanned signals
(at their level or over, reviewers of the list, somebody, within the limit), which every rule and
every answer of the model gives (`DecisionsAreSound`); `StageHeld`, what rows and list say at each
stage, in fixed mode that they are the whole set cut in two; `RowsHeld`, outside of
that insertion the rows are of the decision, or of the whole set after a second death. What
`filter()` leaves of a list (`AmongIsPart`) and what a cap cuts (`Capped`) are lemmas.
*Editor*: `EditorInv`, the draft can be activated, and a page holds a form of the types its
fields can have, no newer than the draft, and the draft itself as long as nobody typed in it and
nobody saved since (`PageHeld`). `SavedCanBeActivated`: a form that flags nothing becomes a
definition that can be activated, since repeated names are told apart by their places
(`NumbersApart`); `DraftIsAccepted`: what is drawn of a draft flags nothing and decodes to it; and a
flag bears the row's number on the page, not in the list the schema saw (`FlagStep`).
*Settings*: types are inductive and enough; the page, the form and the sender are three resolutions
that are shown equal over the first layer that has a value (`FirstOfFour`, `FirstOfThree`).
*Pauses*: `OpenRows`, one row of a repository is open, none between the two
statements of an extension, and the room for the new one stays. *Migration*: `Whole(f)`, the
file that is committed has every row ever written in its table, nothing aside, and every change
that comes before the statement the start is at; `Rebuilding(f)`, while a transaction is open one
table is aside and its rows are on their way back to where the rollback would have them.
*Merge requests*: `JobsInv` (a run is of the job that is at work, or was ended under it)
and `PostsInv` (who is about to post a note has seen that there is none, and nobody else posts;
a finding of a run is anchored, listed, or still to be).
*Together*: a step of `MCHandlers` is a step of the module that is played and leaves the
others' variables (`ScenesApart`), so a behaviour is one of each module (`HandlersPlay`). The
stack commands are played twice, over two sets of branches (`Layouts`): the scene `commands` keeps
`CommandsInv`, and in `walk` nobody gives more than a start, so the layout's type is enough (`WalkScene`) and
`SameWalk` carries the theorem of the walk over.

**Only model-checked.** Liveness under fairness and ENABLED (`JobsSettle` and
`ServicesSettle`), which are beyond the prover. Every invariant and every action property that a passing
run checks is stated by a theorem. The refuted properties of section 4 are refuted by TLC.

## 6. Plan

Done, in the order of what a mistake would cost: the queue and the service with their
contract; stacks; the side tables (findings, pages, issues, revisions, prompts,
budget, chat, intake); the modules around them (stack commands, routing, GitLab,
pauses, model CLI, telemetry, profile form, migration); proofs of their safety.
Left, most important first:

1. *GitLab notes.* The commands under a discussion, as `Findings` has them for GitHub.
2. *Stack liveness.* It needs rows that are reused, so that it is not about the bound.
3. *Briefs*: the brief job with its cache; *connections*: forge connections edited while
   jobs of them run.

## 7. Not modelled

- *GitHub's and GitLab's clients, git*: calls that end, well or in error; their outcomes
  are nondeterministic where a run awaits them. Paging of listings and the retry of a
  request are inside one such call.
- *Connections and the registry* (`forge/*`): a lookup by scope; each model here has one
  scope.
- *Parsing and grammar* (anchors, prompts, severities, stack command lines, the text of
  a model's answer, patterns of paths): data that no property of these modules tells
  apart. Where a conversion is a property's subject it is modelled by what it does
  (the diff parser, the decimal seconds, the resolution of settings).
- *The environment* (`config.ts`) *and the page of effective settings*
  (`config-effective.ts`): a pure view of the process's start, which `RoutingAssumption`
  and its like state the bounds of.
- *Sessions* (`auth.ts`, `oauth.ts`): signatures and expiry of a single request; no state
  that another request touches but a rate window, which is `Intake`'s.
- *Pages and their scripts* (`ui/*`): HTML of the state other modules have. Two exceptions
  compute something: the telemetry page and the profile form, both modelled.
- *Component workbench, demo, evaluation scripts*: development tools.

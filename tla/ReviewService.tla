---------------------------- MODULE ReviewService ----------------------------
(***************************************************************************)
(* The review service: job rows in SQLite (jobs/store.ts), the in-memory   *)
(* queue (JobQueue), the review pipeline of a job (jobs/pipeline.ts), the   *)
(* handlers that create, stop and re-run jobs (webhooks, UI routes), and    *)
(* the forge that receives the reviews.                                    *)
(*                                                                         *)
(* The process is one Node event loop over synchronous SQLite, so what      *)
(* happens between two awaits is one step.  pc[j] is the await the run of   *)
(* job j is suspended at.  A run that has returned releases its slot in     *)
(* microtasks, before any other event: `Idle` is the guard that says so.    *)
(***************************************************************************)
EXTENDS JobQueue        \* whose Jobs are the row ids here, 1, 2, ...

CONSTANTS Pulls,        \* pull requests
          Heads,        \* commits a pull request's head may be at
          Roles,        \* specialist reviewers
          MaxRetries,   \* bound: operator retries of one job
          MaxCrashes,   \* bound: process deaths
          RoutingMode,  \* config.routing.mode, "fixed" or "model"
          Policy,       \* config.poisonAlert.policy
          Features,     \* which of the optional handlers and faults occur
          Allowlists    \* values the allowlist may have, one per process

ASSUME ServiceAssumption ==
  /\ Jobs = 1..Cardinality(Jobs)     \* bound: job rows
  /\ MaxRetries \in Nat /\ MaxCrashes \in Nat
  /\ RoutingMode \in {"fixed", "model"}
  /\ Policy \in {"manual", "internal_only", "external_only",
                 "internal_and_external", "internal_then_external"}
  /\ Allowlists \subseteq SUBSET Pulls /\ Allowlists # {}
  /\ IsFiniteSet(Pulls) /\ IsFiniteSet(Heads) /\ IsFiniteSet(Roles)
  /\ Pulls # {} /\ Heads # {}

VARIABLES
  rows,      \* SQLite: the jobs table with its reviewer_runs
  merged,    \* SQLite: merged_pulls
  paused,    \* SQLite: an open global_pauses row
  reviews,   \* the forge: reviews Maomao posted per pull and head
  pc,        \* memory: where the run of each job awaits
  aborted,   \* memory: active jobs whose AbortController has fired
  handoffs,  \* memory: webhook handlers awaiting the reviewer badge
  allowed,   \* memory: pulls the allowlists of this process admit
  crashes    \* process deaths so far (bound)

durable == <<rows, merged, paused>>
vars == <<rows, merged, paused, reviews, queue, pc, aborted, handoffs, allowed, crashes>>

-----------------------------------------------------------------------------
(* Job rows *)

DeadStates     == {"stale", "cancelled"}
TerminalStates == {"completed", "failed"} \union DeadStates
LiveStates     == {"preparing", "reconciling", "routing", "reviewing",
                   "aggregating", "sniffing", "publishing"}
ActiveStates   == {"queued"} \union LiveStates

\* "live" is a reviewer run that is queued or running; "none" has no row.
RunStates == {"none", "live", "done", "failed"} \union DeadStates

\* slot: dedup_key is the shared '' key, or moved aside to rereview:<id>.
\* lines: job summaries emitted for the current attempt, saturating at 2.
\* reviewed: github_review_id is set.  manual, paged: the escalation request
\* and whether external_dispatch_status is 'dispatched'.
Rows == [state : {"absent"} \union ActiveStates \union TerminalStates,
         pull : Pulls, head : Heads, slot : {"shared", "aside"},
         runs : [Roles -> RunStates], retries : 0..MaxRetries, lines : 0..2,
         reviewed : BOOLEAN, manual : BOOLEAN, paged : BOOLEAN]

Dead(r)     == r.state \in DeadStates
Active(r)   == r.state \in ActiveStates
Terminal(r) == r.state \in TerminalStates

LiveRuns(r) == {k \in Roles : r.runs[k] = "live"}
EndRuns(r, s) == [k \in Roles |-> IF r.runs[k] = "live" THEN s ELSE r.runs[k]]

\* Mutants of setJobState: no one-way guard; a line for every terminal write.
SetStateAnyWay(r, s) ==
  [r EXCEPT !.state = s, !.runs = IF s \in DeadStates THEN EndRuns(r, s) ELSE @,
            !.lines = IF s \in TerminalStates /\ ~Terminal(r) THEN 1 ELSE @]

SetStateLoud(r, s) ==
  IF Dead(r) THEN r
  ELSE [r EXCEPT !.state = s, !.runs = IF s \in DeadStates THEN EndRuns(r, s) ELSE @,
                 !.lines = IF s \in TerminalStates /\ @ < 2 THEN @ + 1 ELSE @]

\* setJobState, and the same transition made in bulk by the stale sweep and
\* cancelJobs: stale and cancelled are one-way, dead jobs retire their live
\* runs, and entering a terminal state from another emits a summary line.
SetState(r, s) ==
  IF Dead(r) THEN r
  ELSE [r EXCEPT !.state = s,
                 !.runs  = IF s \in DeadStates THEN EndRuns(r, s) ELSE @,
                 !.lines = IF s \in TerminalStates /\ ~Terminal(r) /\ @ < 2
                           THEN @ + 1 ELSE @]

\* Mutant: runs are born queued whatever became of the job.
EnsureRunsLive(r, picked) ==
  [r EXCEPT !.runs = [k \in Roles |-> IF r.runs[k] = "none" /\ k \in picked THEN "live" ELSE r.runs[k]]]

\* ensureReviewerRuns: INSERT OR IGNORE; a dead job's runs are born dead.
EnsureRuns(r, picked) ==
  [r EXCEPT !.runs = [k \in Roles |->
     IF r.runs[k] = "none" /\ k \in picked
     THEN IF Dead(r) THEN r.state ELSE "live"
     ELSE r.runs[k]]]

NoRuns(r) == \A k \in Roles : r.runs[k] = "none"

\* The reviewer stage runs every reviewer that is not done, the failed ones of
\* an earlier attempt included.
Reviewing(r) ==
  SetState([r EXCEPT !.runs = [k \in Roles |-> IF @[k] = "failed" THEN "live" ELSE @[k]]], "reviewing")

\* Mutant: the catch block only logs.
UnwoundSilently(r, signal) == r

\* The catch block of runJob: stale and aborted runs end stale, others fail
\* and so do the reviewers that had not finished.
Unwound(r, signal) ==
  IF Dead(r) \/ signal THEN SetState(r, "stale")
  ELSE SetState([r EXCEPT !.runs = EndRuns(r, "failed")], "failed")

\* shouldRunExternal, as far as the policy decides it; the routed profile and
\* the severity of the findings may still say no.  No page without a review.
MayPage(r) == r.reviewed /\ Policy # "internal_only" /\ (Policy = "manual" => r.manual)

\* jobHasPendingDispatch, for a completed job that was asked to page.
OwesPage(r) == r.manual /\ ~r.paged /\ MayPage(r)

\* Mutant: the claim does not look at the pause switch.
EnteredUnpaused(r) ==
  IF Dead(r) THEN [row |-> r, at |-> "returned"]
  ELSE IF r.state = "completed" THEN [row |-> r, at |-> IF OwesPage(r) THEN "redispatch" ELSE "returned"]
  ELSE IF r.pull \in allowed THEN [row |-> SetState(r, "preparing"), at |-> "checkout"]
  ELSE [row |-> SetState([r EXCEPT !.runs = EndRuns(r, "failed")], "failed"), at |-> "returned"]

\* run() up to its first await: the claim-time pause switch, the early
\* returns of runJob, the authorization of the target.  The resulting row, and
\* where the run is after it.
Entered(r) ==
  IF paused THEN [row |-> IF Active(r) THEN SetState(r, "cancelled") ELSE r, at |-> "returned"]
  ELSE IF Dead(r) THEN [row |-> r, at |-> "returned"]
  ELSE IF r.state = "completed" THEN [row |-> r, at |-> IF OwesPage(r) THEN "redispatch" ELSE "returned"]
  ELSE IF r.pull \in allowed THEN [row |-> SetState(r, "preparing"), at |-> "checkout"]
  ELSE [row |-> SetState([r EXCEPT !.runs = EndRuns(r, "failed")], "failed"), at |-> "returned"]

-----------------------------------------------------------------------------
(* Turns of the event loop *)

Awaits == {"checkout", "reconcile", "route", "review", "aggregate", "sniff", "summaries",
           "post", "repost", "refresh", "closing", "dispatch", "redispatch"}

Idle    == \A j \in Jobs : pc[j] # "returned"
Serving == queue.started /\ Idle

\* Mutant: the run's finally block forgets to drop its controller.
CommitLeaky(rs, q, stopped) ==
  LET claimed == q.active \ queue.active
  IN  /\ queue' = q
      /\ rows'  = [j \in Jobs |-> IF j \in claimed THEN Entered(rs[j]).row ELSE rs[j]]
      /\ pc'    = [j \in Jobs |-> IF j \in claimed THEN Entered(rs[j]).at
                                  ELSE IF j \in q.active THEN pc[j] ELSE "idle"]
      /\ aborted' = aborted \union (stopped \intersect q.active)

\* A turn that leaves the job table at rs and the queue at q: the jobs q has
\* claimed enter their runs, the controllers of the stopped ones fire.
Commit(rs, q, stopped) ==
  LET claimed == q.active \ queue.active
  IN  /\ queue' = q
      /\ rows'  = [j \in Jobs |-> IF j \in claimed THEN Entered(rs[j]).row ELSE rs[j]]
      /\ pc'    = [j \in Jobs |-> IF j \in claimed THEN Entered(rs[j]).at
                                  ELSE IF j \in q.active THEN pc[j] ELSE "idle"]
      /\ aborted' = (aborted \union stopped) \intersect q.active

\* The jobs of S moved to state s by one guarded UPDATE.
Moved(rs, S, s) == [j \in Jobs |-> IF j \in S THEN SetState(rs[j], s) ELSE rs[j]]

\* Mutant: cancellation without the abort hook.
CancelAllSilently(S) ==
  LET hit == {j \in S : Active(rows[j])}
  IN  Commit(Moved(rows, hit, "cancelled"), AbortedMany(queue, hit), {})

\* cancelJobs with onCancelled = queue.abortMany: all active jobs of S.
CancelAll(S) ==
  LET hit == {j \in S : Active(rows[j])}
  IN  Commit(Moved(rows, hit, "cancelled"), AbortedMany(queue, hit), hit)

-----------------------------------------------------------------------------
(* Handlers that create jobs *)

Exists(j)      == rows[j].state # "absent"
JobsOf(p)      == {j \in Jobs : Exists(j) /\ rows[j].pull = p}
IsNext(n)      == ~Exists(n) /\ \A i \in 1..(n - 1) : Exists(i)   \* AUTOINCREMENT
Holders(rs, p) == {j \in JobsOf(p) : rs[j].slot = "shared"}

NewRow(p, h) ==
  [state |-> "queued", pull |-> p, head |-> h, slot |-> "shared",
   runs |-> [k \in Roles |-> IF RoutingMode = "fixed" THEN "live" ELSE "none"],
   retries |-> 0, lines |-> 0, reviewed |-> FALSE, manual |-> FALSE, paged |-> FALSE]

\* Mutant: only jobs still at work are marked stale.
SweptActive(rs, p, h) == {j \in Holders(rs, p) : rs[j].head # h /\ Active(rs[j])}

\* The other heads of the pull that store.enqueue marks stale.
Swept(rs, p, h) == {j \in Holders(rs, p) : rs[j].head # h /\ ~Dead(rs[j])}

\* Mutant: only a queued job counts as a duplicate.
EnqueuePullAgain(rs, p, h) ==
  LET stale == Swept(rs, p, h)
      swept == Moved(rs, stale, "stale")
  IN  IF \E j \in Holders(rs, p) : rs[j].head = h /\ rs[j].state = "queued"
      THEN Commit(swept, AbortedMany(queue, stale), stale) /\ UNCHANGED handoffs
      ELSE \E n \in Jobs :
           /\ IsNext(n)
           /\ Commit([swept EXCEPT ![n] = NewRow(p, h)], queue, {})
           /\ handoffs' = handoffs \union {[job |-> n, stale |-> stale]}

\* store.enqueue in one transaction, then the handler up to its first await:
\* a head that holds the slot is a duplicate and the stale jobs are aborted at
\* once; a created job waits for the reviewer badge before it is dispatched.
EnqueuePull(rs, p, h) ==
  LET stale == Swept(rs, p, h)
      swept == Moved(rs, stale, "stale")
  IN  IF \E j \in Holders(rs, p) : rs[j].head = h
      THEN Commit(swept, AbortedMany(queue, stale), stale) /\ UNCHANGED handoffs
      ELSE \E n \in Jobs :
           /\ IsNext(n)
           /\ Commit([swept EXCEPT ![n] = NewRow(p, h)], queue, {})
           /\ handoffs' = handoffs \union {[job |-> n, stale |-> stale]}

\* Mutant: a delivery that comes after the merge is not refused.
PushLate(p, h) ==
  /\ Serving /\ p \in allowed /\ ~paused
  /\ EnqueuePull(rows, p, h)
  /\ UNCHANGED <<merged, paused, reviews, allowed, crashes>>

\* A pull_request delivery for head h of pull p.  Heads arrive in any order
\* and any number of times: forges reorder and redeliver, pushes are forced.
Push(p, h) ==
  /\ Serving /\ p \in allowed /\ p \notin merged /\ ~paused
  /\ EnqueuePull(rows, p, h)
  /\ UNCHANGED <<merged, paused, reviews, allowed, crashes>>

\* The badge call has settled: dispatchEnqueue.
Dispatch(t) ==
  /\ Serving
  /\ handoffs' = handoffs \ {t}
  /\ Commit(rows, AbortedMany(Enqueued(queue, t.job), t.stale), t.stale)
  /\ UNCHANGED <<merged, paused, reviews, allowed, crashes>>

\* The review command: a terminal job at the head gives up the shared slot
\* and a fresh job takes it; an active one is reported and kept.
ReReview(p, h) ==
  LET occupant == {j \in Holders(rows, p) : rows[j].head = h}
      rekeyed  == [j \in Jobs |-> IF j \in occupant THEN [rows[j] EXCEPT !.slot = "aside"] ELSE rows[j]]
  IN  /\ Serving /\ "rereview" \in Features /\ p \in allowed /\ p \notin merged
      /\ \A j \in occupant : Terminal(rows[j])
      /\ EnqueuePull(rekeyed, p, h)
      /\ UNCHANGED <<merged, paused, reviews, allowed, crashes>>

-----------------------------------------------------------------------------
(* Handlers that re-run or stop jobs *)

\* The escalate command, on the newest job of the pull: completed jobs page
\* from the queue, failed ones are run again.
Escalate(p) ==
  /\ Serving /\ "escalate" \in Features
  /\ \E j \in JobsOf(p) :
       /\ \A k \in JobsOf(p) : k <= j
       /\ ~Dead(rows[j])
       /\ Commit([rows EXCEPT ![j].manual = TRUE], Enqueued(queue, j), {})
  /\ UNCHANGED <<merged, paused, reviews, handoffs, allowed, crashes>>

\* A new attempt at the reviewers of `again`.
Retried(r, again) ==
  [r EXCEPT !.state = "queued", !.retries = @ + 1, !.lines = 0,
            !.runs = [k \in Roles |-> IF k \in again THEN "live" ELSE @[k]]]

\* retryFailedReviewers for all failed runs or one of them, then the queue.
Retry(j) ==
  LET failed == {k \in Roles : rows[j].runs[k] = "failed"}
  IN  /\ Serving /\ "retry" \in Features /\ rows[j].retries < MaxRetries
      /\ rows[j].state \in {"completed", "failed"}
      /\ \E again \in {failed} \union {{k} : k \in failed} :
           /\ again # {}
           /\ Commit([rows EXCEPT ![j] = Retried(@, again)], Enqueued(queue, j), {})
      /\ UNCHANGED <<merged, paused, reviews, handoffs, allowed, crashes>>

\* The dequeue and cancel buttons, for queued and running jobs.
Cancel(j) ==
  /\ Serving /\ "cancel" \in Features /\ Active(rows[j])
  /\ CancelAll({j})
  /\ UNCHANGED <<merged, paused, reviews, handoffs, allowed, crashes>>

\* pull_request.closed with merged = true: the marker, then the cancellation.
Merge(p) ==
  /\ Serving /\ "merge" \in Features /\ p \in allowed
  /\ merged' = merged \union {p}
  /\ CancelAll(JobsOf(p))
  /\ UNCHANGED <<paused, reviews, handoffs, allowed, crashes>>

\* The instance-wide pause switch.
Pause ==
  /\ Serving /\ "pause" \in Features
  /\ paused' = TRUE
  /\ CancelAll(Jobs)
  /\ UNCHANGED <<merged, reviews, handoffs, allowed, crashes>>

Resume ==
  /\ Serving /\ paused
  /\ paused' = FALSE
  /\ UNCHANGED <<rows, merged, reviews, queue, pc, aborted, handoffs, allowed, crashes>>

-----------------------------------------------------------------------------
(* The pipeline: one action per await of runJob *)

At(j, a)   == Idle /\ pc[j] = a
IsStale(j) == Dead(rows[j])
Stop(j)    == IsStale(j) \/ j \in aborted      \* throwIfStale would throw

\* The run of j leaves its row at r and awaits at a.
Goes(j, r, a) ==
  /\ rows' = [rows EXCEPT ![j] = r]
  /\ pc' = [pc EXCEPT ![j] = a]
  /\ UNCHANGED <<merged, paused, queue, aborted, handoffs, allowed, crashes>>

Unwinds(j, r) == Goes(j, Unwound(r, j \in aborted), "returned")

\* Mutant: throwIfStale left out.
ContinuesBlindly(j, r, a) == Goes(j, r, a)

\* The await at a ended: by an error, or normally with the job still wanted.
\* The run is checked after every await; a stopped one can only unwind.
Continues(j, r, a) == ~Stop(j) /\ Goes(j, r, a)

\* Clone spec, diff and checkout; then the prior threads are read.
Checkout(j) ==
  /\ At(j, "checkout") /\ UNCHANGED reviews
  /\ Unwinds(j, rows[j]) \/ Continues(j, SetState(rows[j], "reconciling"), "reconcile")

\* Reconciliation of prior findings, and routing when it needs no model call.
Reconcile(j) ==
  /\ At(j, "reconcile") /\ UNCHANGED reviews
  /\ \/ Unwinds(j, rows[j])
     \/ /\ RoutingMode = "fixed" \/ ~NoRuns(rows[j])
        /\ LET r == IF NoRuns(rows[j]) THEN EnsureRuns(rows[j], Roles) ELSE rows[j]
           IN  Continues(j, Reviewing(r), "review")
     \/ /\ RoutingMode = "model" /\ NoRuns(rows[j])
        /\ Continues(j, SetState(rows[j], "routing"), "route")

\* The router answered, or failed into the fallback set: the runs it picked
\* are created before anyone looks whether the job still lives.
Route(j) ==
  /\ At(j, "route") /\ UNCHANGED reviews
  /\ \E picked \in SUBSET Roles \ {{}} :
       LET r == EnsureRuns(rows[j], picked)
       IN  IF Stop(j) THEN Unwinds(j, r) ELSE Goes(j, Reviewing(r), "review")

\* One specialist ends, after its own attempts; late results of retired runs
\* keep the retired state.
ReviewerEnds(j, k) ==
  /\ At(j, "review") /\ rows[j].runs[k] = "live" /\ UNCHANGED reviews
  /\ \E outcome \in {"done", "failed"} : Goes(j, [rows[j] EXCEPT !.runs[k] = outcome], "review")

\* All specialists ended: aggregate what is there, or fail without any.
Reviewed(j) ==
  /\ At(j, "review") /\ LiveRuns(rows[j]) = {} /\ UNCHANGED reviews
  /\ IF Stop(j) \/ \A k \in Roles : rows[j].runs[k] # "done"
     THEN Unwinds(j, rows[j])
     ELSE Goes(j, SetState(rows[j], "aggregating"), "aggregate")

\* The aggregator, then the internal second look where the policy asks for it.
Aggregate(j) ==
  /\ At(j, "aggregate") /\ UNCHANGED reviews
  /\ \/ Unwinds(j, rows[j])
     \/ /\ Policy \in {"internal_only", "internal_and_external", "internal_then_external"}
        /\ Continues(j, SetState(rows[j], "sniffing"), "sniff")
     \/ Continues(j, SetState(rows[j], "publishing"), "summaries")

Sniff(j) ==
  /\ At(j, "sniff") /\ UNCHANGED reviews
  /\ Unwinds(j, rows[j]) \/ Continues(j, SetState(rows[j], "publishing"), "summaries")

-----------------------------------------------------------------------------
(* The pipeline: publication, thread closing, external dispatch *)

Target(j) == <<rows[j].pull, rows[j].head>>
PostsOne(j) == reviews' = [reviews EXCEPT ![Target(j)] = @ + 1]

\* publishReview returned: the row learns of the review before anyone looks
\* whether the job still lives.
AfterPublish(j, posted) ==
  LET r == IF posted THEN [rows[j] EXCEPT !.reviewed = TRUE] ELSE rows[j]
  IN  IF IsStale(j) THEN Unwinds(j, r) ELSE Goes(j, r, "refresh")

\* Mutant: publication does not look for the marker of an earlier review.
SummariesUnread(j) ==
  /\ At(j, "summaries") /\ UNCHANGED reviews
  /\ Unwinds(j, rows[j]) \/ AfterPublish(j, FALSE) \/ Continues(j, rows[j], "post")

\* The reviews already on the pull: one for this head is adopted, a clean
\* result may post nothing, else the POST starts if the job still lives.
Summaries(j) ==
  /\ At(j, "summaries") /\ UNCHANGED reviews
  /\ \/ Unwinds(j, rows[j])
     \/ reviews[Target(j)] > 0 /\ AfterPublish(j, TRUE)
     \/ reviews[Target(j)] = 0 /\ AfterPublish(j, FALSE)
     \/ reviews[Target(j)] = 0 /\ Continues(j, rows[j], "post")

\* createReviewWithFallback: any error of a post with inline comments is
\* answered by a second, body-only post.  With "lost" replies, an error may
\* follow an accepted post.
Post(j) ==
  /\ At(j, "post")
  /\ \/ PostsOne(j) /\ AfterPublish(j, TRUE)
     \/ UNCHANGED reviews /\ (Unwinds(j, rows[j]) \/ Goes(j, rows[j], "repost"))
     \/ "lost" \in Features /\ PostsOne(j) /\ (Unwinds(j, rows[j]) \/ Goes(j, rows[j], "repost"))

Repost(j) ==
  /\ At(j, "repost")
  /\ \/ PostsOne(j) /\ AfterPublish(j, TRUE)
     \/ UNCHANGED reviews /\ Unwinds(j, rows[j])
     \/ "lost" \in Features /\ PostsOne(j) /\ Unwinds(j, rows[j])

\* Mutant: no stale check between the threads and the page.
CompletesBlindly(j) ==
  \/ MayPage(rows[j]) /\ Goes(j, rows[j], "dispatch")
  \/ Goes(j, SetState(rows[j], "completed"), "returned")

\* The tail of runJob after the threads: stale check, the page when one is
\* wanted, completion.
Completes(j) ==
  \/ Stop(j) /\ Unwinds(j, rows[j])
  \/ ~Stop(j) /\ MayPage(rows[j]) /\ Goes(j, rows[j], "dispatch")
  \/ ~Stop(j) /\ Goes(j, SetState(rows[j], "completed"), "returned")

\* The threads were listed (or could not be): prior threads are closed from
\* here on, with no further look at the job.
Refresh(j) ==
  /\ At(j, "refresh") /\ UNCHANGED reviews
  /\ Completes(j) \/ Goes(j, rows[j], "closing")

Closing(j) == At(j, "closing") /\ UNCHANGED reviews /\ Completes(j)

\* dispatchExternalEscalation reached its targets or failed to.
ExternalDispatch(j) ==
  /\ At(j, "dispatch") /\ UNCHANGED reviews
  /\ \E ok \in BOOLEAN : Goes(j, SetState([rows[j] EXCEPT !.paged = ok], "completed"), "returned")

Redispatch(j) ==
  /\ At(j, "redispatch") /\ UNCHANGED reviews
  /\ \E ok \in BOOLEAN : Goes(j, [rows[j] EXCEPT !.paged = ok], "returned")

Step(j) ==
  \/ Checkout(j) \/ Reconcile(j) \/ Route(j)
  \/ \E k \in Roles : ReviewerEnds(j, k)
  \/ Reviewed(j) \/ Aggregate(j) \/ Sniff(j)
  \/ Summaries(j) \/ Post(j) \/ Repost(j)
  \/ Refresh(j) \/ Closing(j) \/ ExternalDispatch(j) \/ Redispatch(j)

\* Mutant: the slot is freed and nobody pumps.
ReleaseOnly(j) ==
  /\ pc[j] = "returned"
  /\ Commit(rows, [queue EXCEPT !.active = @ \ {j}], {})
  /\ UNCHANGED <<merged, paused, reviews, handoffs, allowed, crashes>>

\* The run returned: its slot is freed and the queue pumps.
Release(j) ==
  /\ pc[j] = "returned"
  /\ Commit(rows, Finished(queue, j), {})
  /\ UNCHANGED <<merged, paused, reviews, handoffs, allowed, crashes>>

-----------------------------------------------------------------------------
(* Process death and start *)

\* Memory is gone.  A review being posted may or may not arrive.  The next
\* process reads its allowlists anew.
Crash ==
  /\ Serving /\ crashes < MaxCrashes
  /\ crashes' = crashes + 1
  /\ \E landed \in SUBSET {j \in Jobs : pc[j] \in {"post", "repost"}} :
       reviews' = [t \in Pulls \X Heads |-> reviews[t] + Cardinality({j \in landed : Target(j) = t})]
  /\ queue' = Stopped /\ pc' = [j \in Jobs |-> "idle"] /\ aborted' = {} /\ handoffs' = {}
  /\ allowed' \in Allowlists
  /\ UNCHANGED durable

\* Mutant: recovery looks for running jobs and forgets the queued ones.
BootRunning ==
  /\ ~queue.started
  /\ LET interrupted == {j \in Jobs : rows[j].state \in LiveStates}
         reset == [j \in Jobs |-> IF j \in interrupted THEN [rows[j] EXCEPT !.state = "queued"] ELSE rows[j]]
     IN  \E order \in SetToSeqs(interrupted) :
           Commit(reset, Pumped([pending |-> order, active |-> {}, started |-> TRUE]), {})
  /\ UNCHANGED <<merged, paused, reviews, handoffs, allowed, crashes>>

\* queue.start: resetInterrupted puts every active row back to queued, and
\* the queue takes them all.
Boot ==
  /\ ~queue.started
  /\ LET interrupted == {j \in Jobs : Active(rows[j])}
         reset == [j \in Jobs |-> IF j \in interrupted THEN [rows[j] EXCEPT !.state = "queued"] ELSE rows[j]]
     IN  \E order \in SetToSeqs(interrupted) :
           Commit(reset, Pumped([pending |-> order, active |-> {}, started |-> TRUE]), {})
  /\ UNCHANGED <<merged, paused, reviews, handoffs, allowed, crashes>>

-----------------------------------------------------------------------------
Init ==
  /\ rows = [j \in Jobs |-> [NewRow(CHOOSE p \in Pulls : TRUE, CHOOSE h \in Heads : TRUE)
                               EXCEPT !.state = "absent"]]
  /\ merged = {} /\ paused = FALSE
  /\ reviews = [t \in Pulls \X Heads |-> 0]
  /\ queue = Stopped /\ pc = [j \in Jobs |-> "idle"] /\ aborted = {} /\ handoffs = {}
  /\ allowed \in Allowlists /\ crashes = 0

Requests ==
  \/ \E p \in Pulls, h \in Heads : Push(p, h) \/ ReReview(p, h)
  \/ \E p \in Pulls : Escalate(p) \/ Merge(p)
  \/ \E j \in Jobs : Retry(j) \/ Cancel(j)
  \/ Pause \/ Resume

Next ==
  \/ Requests
  \/ \E t \in handoffs : Dispatch(t)
  \/ \E j \in Jobs : Step(j) \/ Release(j)
  \/ Crash \/ Boot

\* The event loop serves what is ready: microtasks at once (Release), and
\* every settled await in the end, however often other turns come between
\* (hence strong fairness).  Awaits settle: model CLIs run under timeouts,
\* HTTP calls end, the badge call has a deadline of its own.  A dead process
\* is restarted.  Nothing is assumed of deliveries, operators and crashes.
Fairness ==
  /\ \A j \in Jobs : WF_vars(Release(j)) /\ SF_vars(Step(j))
  /\ \A j \in Jobs : SF_vars(\E t \in handoffs : t.job = j /\ Dispatch(t))
  /\ WF_vars(Boot)

SafeSpec == Init /\ [][Next]_vars
Spec     == SafeSpec /\ Fairness
=============================================================================

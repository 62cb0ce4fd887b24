-------------------------- MODULE ReviewProperties --------------------------
(* What ReviewService promises: invariants, what a step may never do, and    *)
(* what must happen in the end.  README.md says which run checks which.      *)
EXTENDS ReviewService

TypeOK ==
  /\ rows \in [Jobs -> Rows]
  /\ merged \subseteq Pulls /\ paused \in BOOLEAN
  /\ reviews \in [Pulls \X Heads -> Nat]
  /\ QueueTypeOK
  /\ pc \in [Jobs -> Awaits \union {"idle", "returned"}]
  /\ aborted \subseteq queue.active
  /\ handoffs \subseteq [job : Jobs, stale : SUBSET Jobs]
  /\ allowed \in Allowlists /\ crashes \in 0..MaxCrashes

-----------------------------------------------------------------------------
(* Identity of jobs *)

\* The shared slot of a pull has at most one job that is not dead: whatever
\* order heads are delivered in, the sweep and the dedup of store.enqueue
\* leave one head current.
OneCurrentJob ==
  \A i, j \in Jobs :
    /\ i # j /\ Exists(i) /\ Exists(j)
    /\ rows[i].pull = rows[j].pull
    /\ rows[i].slot = "shared" /\ rows[j].slot = "shared"
    => Dead(rows[i]) \/ Dead(rows[j])

\* "Every job is unique on (repository, PR number, head SHA)" (README.md:39):
\* no two jobs work on, or wait for, the same head.
OneJobPerHead ==
  \A i, j \in Jobs : i # j /\ Active(rows[i]) /\ Active(rows[j]) => Target(i) # Target(j)

\* "Maomao [...] posts one conservative review" (README.md:5): no head gets
\* two, whatever crashes, cancellations and re-reviews come between.
OneReviewPerHead == \A t \in Pulls \X Heads : reviews[t] <= 1

\* The newer-head sweep: the newest head a pull's deliveries created a job for
\* is never overtaken by a job of an older head starting to post.
PostsOnlyCurrent ==
  [][\A j \in Jobs : pc[j] # "post" /\ pc'[j] = "post" =>
       /\ ~Dead(rows[j]) /\ ~paused
       /\ rows[j].pull \notin merged
       /\ \A i \in Holders(rows, rows[j].pull) :
            rows[i].head # rows[j].head => Dead(rows[i]) \/ rows[j].slot = "aside"]_vars

\* The same promises as one abstract machine: see ReviewContract.
Contract == INSTANCE ReviewContract WITH
  current  <- [p \in Pulls |-> {rows[j].head : j \in {i \in Holders(rows, p) : ~Dead(rows[i])}}],
  inflight <- {Target(j) : j \in {i \in Jobs : pc[i] \in {"post", "repost"}}},
  posted   <- {t \in Pulls \X Heads : reviews[t] > 0}

\* The service implements the contract, through crashes and restarts.
ImplementsContract == Contract!Spec

\* The service drives the queue only through the queue's own operations, so
\* what JobQueue promises holds of the queue inside the service.
UsesQueue == QueueSafeSpec

-----------------------------------------------------------------------------
(* Rows, queue and runs agree *)

\* A queued row has someone who will start it: the queue, or the handler that
\* created it and awaits the badge.  Else it waits for the next restart.
QueuedIsOwned ==
  queue.started => \A j \in Jobs : rows[j].state = "queued" =>
    j \in ToSet(queue.pending) \/ \E t \in handoffs : t.job = j

\* A row says "running" exactly while a run works on it.
RowMatchesRun ==
  queue.started => \A j \in Jobs :
    /\ rows[j].state \in LiveStates => pc[j] \in Awaits \ {"redispatch"}
    /\ pc[j] \in Awaits \ {"redispatch"} => rows[j].state \in LiveStates \union DeadStates
    /\ pc[j] # "idle" <=> j \in queue.active

\* A run whose job died has been signalled, or the handler that carries the
\* signal is still on its way; and no other run is ever signalled.
StopsReachRuns ==
  \A j \in Jobs :
    /\ j \in aborted => Dead(rows[j])
    /\ Dead(rows[j]) /\ pc[j] \in Awaits => j \in aborted \/ \E t \in handoffs : j \in t.stale

\* A job that ended has no reviewer left queued or running, not even one that
\* routing adds to it after its death.
EndedRunsEnded == \A j \in Jobs : Terminal(rows[j]) => LiveRuns(rows[j]) = {}

\* "one line per attempt" (README.md:329): an attempt that ended has emitted
\* exactly one summary line, an attempt in progress none.
OneLinePerAttempt ==
  \A j \in Jobs : Exists(j) => rows[j].lines = IF Terminal(rows[j]) THEN 1 ELSE 0

\* Rows, queue and runs agree at every await and across restarts, and each state
\* variable is of its type.
RowsMatch == TypeOK /\ RowMatchesRun

\* An attempt has its owner while it waits, leaves no reviewer live behind it,
\* and is told of exactly once.
AttemptsAreWhole == QueuedIsOwned /\ EndedRunsEnded /\ OneLinePerAttempt

-----------------------------------------------------------------------------
(* Switches and finality *)

\* While reviews are paused nothing runs: neither what ran when the switch
\* turned on, nor what slipped into the queue past the enqueue gates.
PausedIsQuiet == paused => \A j \in Jobs : rows[j].state \notin LiveStates

\* "once the merge is recorded, Maomao never starts a review for one"
\* (README.md:565): a merged pull has no job waiting or running.
MergedIsQuiet == \A j \in Jobs : Active(rows[j]) => rows[j].pull \notin merged

\* The same promise, of a step: no run starts on a pull whose merge is recorded.
MergedNeverStarts ==
  [][\A j \in Jobs : pc[j] # "checkout" /\ pc'[j] = "checkout" => rows[j].pull \notin merged]_vars

\* stale and cancelled are one-way (setJobState, retryFailedReviewers), also
\* across restarts.
DeadStaysDead == [][\A j \in Jobs : Dead(rows[j]) => rows'[j].state = rows[j].state]_vars

\* "External pages must never fire for a job that was cancelled or superseded"
\* (pipeline.ts:2614), nor for one without a published review.
PagesOnlyLive ==
  [][\A j \in Jobs : pc[j] # pc'[j] /\ pc'[j] \in {"dispatch", "redispatch"} =>
       rows[j].reviewed /\ ~Dead(rows[j])]_vars

\* "Failed or stale jobs never close existing threads" (README.md:665).
EndedNeverCloses ==
  [][\A j \in Jobs : pc[j] = "refresh" /\ pc'[j] = "closing" =>
       rows[j].state \notin {"failed", "stale"}]_vars

-----------------------------------------------------------------------------
(* Liveness *)

\* Every job that waits or runs ends: completed, failed, stale or cancelled.
JobsSettle == \A j \in Jobs : Active(rows[j]) ~> Terminal(rows[j])
=============================================================================

------------------------------ MODULE JobQueue ------------------------------
(***************************************************************************)
(* The in-memory job queue (src/jobs/queue.ts): a FIFO of pending job ids  *)
(* and a set of active ones, at most `Concurrency` at a time.  The process *)
(* is single threaded, so each operation is one step; an active entry      *)
(* leaves only when the run it stands for has returned.  The operators on  *)
(* queue records are shared with ReviewService, which drives this queue    *)
(* with real jobs and is shown to use it only through these actions.       *)
(***************************************************************************)
EXTENDS Naturals, Sequences, FiniteSets, SequencesExt

CONSTANTS Jobs,         \* job ids
          Concurrency   \* config.jobConcurrency

\* config.ts clamps JOB_CONCURRENCY with Math.max(1, ...); a process only
\* ever sees finitely many jobs.
ASSUME QueueAssumption == Concurrency \in Nat \ {0} /\ IsFiniteSet(Jobs)

VARIABLE queue          \* [pending, active, started]

Queues == [pending : Seq(Jobs), active : SUBSET Jobs, started : BOOLEAN]

\* The process before queue.start(): nothing is queued, nothing runs.
Stopped == [pending |-> <<>>, active |-> {}, started |-> FALSE]

-----------------------------------------------------------------------------
(* Operations, as functions from queue to queue *)

\* Mutants of pump: the bound of the loop dropped; pop() in place of shift().
PumpedPastCap(q) == [q EXCEPT !.active = @ \union ToSet(q.pending), !.pending = <<>>]

PumpedFromBack(q) ==
  LET free == Concurrency - Cardinality(q.active)
      rest == IF free < Len(q.pending) THEN Len(q.pending) - free ELSE 0
  IN  [q EXCEPT !.active  = @ \union ToSet(SubSeq(q.pending, rest + 1, Len(q.pending))),
                !.pending = SubSeq(@, 1, rest)]

\* pump: claim from the front while a slot is free and an entry waits.
Pumped(q) ==
  LET free == Concurrency - Cardinality(q.active)
      n    == IF free < Len(q.pending) THEN free ELSE Len(q.pending)
  IN  [q EXCEPT !.active  = @ \union ToSet(SubSeq(q.pending, 1, n)),
                !.pending = SubSeq(@, n + 1, Len(@))]

\* Mutant: enqueue without the pending.includes half of its guard.
EnqueuedTwice(q, j) ==
  IF j \in q.active THEN q ELSE Pumped([q EXCEPT !.pending = Append(@, j)])

\* enqueue: a job that waits or runs already is dropped.
Enqueued(q, j) ==
  IF j \in ToSet(q.pending) \union q.active THEN q
  ELSE LET longer == [q EXCEPT !.pending = Append(@, j)]
       IN  IF q.started THEN Pumped(longer) ELSE longer

\* Mutant: `delete pending[i]` in place of splice leaves a hole.
WithHoles(s, S) == [i \in 1..Len(s) |-> IF s[i] \in S THEN "undefined" ELSE s[i]]

\* s without the members of S, order kept: the net effect of splicing each out.
Without(s, S) ==
  LET kept == {i \in 1..Len(s) : s[i] \notin S}
  IN  [n \in 1..Cardinality(kept) |->
         s[CHOOSE i \in kept : Cardinality({k \in kept : k <= i}) = n]]

\* abortMany, for the pending half; running jobs are signalled, not removed.
AbortedMany(q, S) == [q EXCEPT !.pending = Without(@, S)]

\* Mutants: the finally block pumps before it frees the slot; it does not pump.
FinishedLate(q, j)    == [Pumped(q) EXCEPT !.active = @ \ {j}]
FinishedQuietly(q, j) == [q EXCEPT !.active = @ \ {j}]

\* The finally block of pump: the slot is freed, then the queue pumps again.
Finished(q, j) == Pumped([q EXCEPT !.active = @ \ {j}])

-----------------------------------------------------------------------------
QueueInit == queue = Stopped

\* start: the interrupted jobs of the previous process, in the order the
\* database returns them (its SELECT has no ORDER BY).
Start(order) ==
  /\ ~queue.started
  /\ queue' = Pumped([pending |-> order, active |-> {}, started |-> TRUE])

Enqueue(j) == queue.started /\ queue' = Enqueued(queue, j)

\* dispatchEnqueue (jobs/enqueue.ts): the new job first, then the aborts.
HandOver(j, S) == queue.started /\ queue' = AbortedMany(Enqueued(queue, j), S)

AbortMany(S) == queue.started /\ queue' = AbortedMany(queue, S)

Finish(j) == j \in queue.active /\ queue' = Finished(queue, j)

\* The process dies: the queue lives in memory only.
Die == queue.started /\ queue' = Stopped

Starts == \E S \in SUBSET Jobs : \E order \in SetToSeqs(S) : Start(order)

QueueNext ==
  \/ Starts
  \/ \E j \in Jobs : Enqueue(j) \/ Finish(j)
  \/ \E j \in Jobs, S \in SUBSET Jobs : HandOver(j, S)
  \/ \E S \in SUBSET Jobs : AbortMany(S)
  \/ Die

\* Every await of a run ends: the model CLIs run under a timeout, HTTP calls
\* settle, so a claimed run eventually returns.
QueueFairness == \A j \in Jobs : WF_queue(Finish(j))

QueueSafeSpec == QueueInit /\ [][QueueNext]_queue
QueueSpec     == QueueSafeSpec /\ QueueFairness

-----------------------------------------------------------------------------
(* Properties *)

QueueTypeOK == queue \in Queues

\* One slot per job, ever: a job is never pending twice, nor pending while it
\* runs, so run() is never entered twice for one job (queue.enqueue's guard).
OneEntryPerJob ==
  /\ IsInjective(queue.pending)
  /\ ToSet(queue.pending) \intersect queue.active = {}

\* JOB_CONCURRENCY bounds the runs in progress.
WithinConcurrency == Cardinality(queue.active) <= Concurrency

\* No slot idles while a job waits: pump runs after every enqueue and release.
WorkConserving ==
  IF queue.started
  THEN queue.pending # <<>> => Cardinality(queue.active) = Concurrency
  ELSE queue = Stopped

\* The queue's promise: never over, never idle, never twice.
QueueInv == OneEntryPerJob /\ WithinConcurrency /\ WorkConserving

\* Runs start in arrival order: a step that claims a job leaves nothing
\* pending that was ahead of it.
FirstInFirstOut ==
  [][\A i, k \in 1..Len(queue.pending) :
       i < k /\ queue.pending[k] \in queue'.active
         => queue.pending[i] \notin ToSet(queue'.pending)]_queue

\* A pending job is eventually claimed, aborted, or lost with the process.
PendingLeaves ==
  \A j \in Jobs : (j \in ToSet(queue.pending)) ~> (j \notin ToSet(queue.pending))
=============================================================================

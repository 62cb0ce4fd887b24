----------------------------- MODULE StackReview -----------------------------
(***************************************************************************)
(* Stack reviews (runStackJob in jobs/pipeline.ts, the stack half of         *)
(* jobs/store.ts, the stack triggers of github/webhooks.ts).  One stack job  *)
(* pins its members' heads, reviews each member as a pull job it runs        *)
(* inline, inside its own queue slot, looks at every head again and posts a  *)
(* summary.  Pull jobs that deliveries create run beside it from the queue.  *)
(*                                                                         *)
(* A turn of the event loop is one step, as in ReviewService; the pull       *)
(* pipeline modelled there is one step here, from its claim to its end.      *)
(***************************************************************************)
EXTENDS JobQueue        \* whose Jobs are the row ids here, 1, 2, ...

CONSTANTS Layouts,       \* member sequences the branch chain may resolve to
          Heads,         \* commits a member may be at
          MemberRetries, \* STACK_MEMBER_MAX_RETRIES
          TokenCap,      \* whether reviews may pass config.stackTokenCap
          Pushed,        \* pulls that are pushed to
          Unmarked,      \* pulls whose deliveries carry no stack marker
          MaxHandlers,   \* bound: handlers in flight
          MaxMoves,      \* bound: pushes
          MaxUpsets      \* bound: cancellations and process deaths

StackPulls == UNION {ToSet(l) : l \in Layouts}

ASSUME StackAssumption ==
  /\ Jobs = 1..Cardinality(Jobs)          \* bound: job rows
  /\ MemberRetries \in Nat /\ MaxHandlers \in Nat
  /\ MaxMoves \in Nat /\ MaxUpsets \in Nat
  /\ TokenCap \in BOOLEAN /\ Pushed \union Unmarked \subseteq StackPulls
  /\ IsFiniteSet(Heads) /\ Heads # {} /\ Layouts # {}
  /\ Layouts \subseteq Seq(StackPulls) /\ \A l \in Layouts : Len(l) > 1 /\ IsInjective(l)

VARIABLES
  head,      \* the forge: the commit each pull is at
  moves,     \* pushes so far (bound)
  rows,      \* SQLite: jobs with their stack_run_members
  pc,        \* memory: where the run in a queue slot awaits
  mem,       \* memory: the locals of a stack run
  aborted,   \* memory: runs whose AbortController has fired
  handoffs,  \* memory: handlers awaiting comments or the reviewer badge
  upsets     \* cancellations and process deaths so far (bound)

stackVars == <<head, moves, rows, queue, pc, mem, aborted, handoffs, upsets>>

-----------------------------------------------------------------------------
(* Rows *)

DeadStates     == {"stale", "cancelled"}
TerminalStates == {"completed", "failed"} \union DeadStates

\* A pull job is a row over one pull.  key 0 is the key enqueue looks up: the
\* shared '' of a pull, stack:<id>@<members> of a stack; other keys are aside.
IsStack(r)  == Len(r.over) > 1
Dead(r)     == r.state \in DeadStates
Active(r)   == r.state \in {"queued", "running"}
Terminal(r) == r.state \in TerminalStates
Exists(j)   == rows[j].state # "absent"
Top(l)      == l[Len(l)]

NewRow(l, at) ==
  [state |-> "queued", over |-> l, head |-> at[Top(l)], key |-> 0,
   rail  |-> IF Len(l) = 1 THEN <<>>
             ELSE [i \in 1..Len(l) |-> [pin |-> at[l[i]], state |-> "queued", job |-> 0]]]

SetState(r, s) == IF Dead(r) THEN r ELSE [r EXCEPT !.state = s]

\* coveredMemberOutcome of the row of job j.
Outcome(rs, j) == IF rs[j].state = "completed" THEN "done" ELSE "skipped"

\* resolveStackMemberCoverage: where the stack has ended, a member that waits
\* for one of the jobs of `ended` takes its outcome.
Resolved(rs, ended) ==
  LET settled(e) == IF e.state = "reviewing" /\ e.job \in ended
                    THEN [e EXCEPT !.state = Outcome(rs, e.job)] ELSE e
  IN  [s \in Jobs |->
         IF Terminal(rs[s]) THEN [rs[s] EXCEPT !.rail = [i \in DOMAIN @ |-> settled(@[i])]] ELSE rs[s]]

\* Mutant: a stack is not told of its members' jobs.
MovedAlone(rs, S, s) ==
  [j \in Jobs |-> IF j \in S THEN SetState(rs[j], s) ELSE rs[j]]

\* The jobs of S moved to state s, and what waited for them.
Moved(rs, S, s) == Resolved([j \in Jobs |-> IF j \in S THEN SetState(rs[j], s) ELSE rs[j]], S)

\* skipUnreachedStackMembers: members the run leaves behind.
SkipUnreached(rs, s) ==
  LET left(e) == IF e.state = "queued" \/ (e.state = "reviewing" /\ e.job = 0) THEN "skipped"
                 ELSE IF e.state = "reviewing" /\ Terminal(rs[e.job]) THEN Outcome(rs, e.job)
                 ELSE e.state
  IN  [rs EXCEPT ![s].rail = [i \in DOMAIN @ |-> [@[i] EXCEPT !.state = left(rs[s].rail[i])]]]

-----------------------------------------------------------------------------
(* Turns of the event loop *)

StackAwaits == {"pin", "mode", "repin", "inline", "wait", "verify", "check", "diff",
                "clone", "cumulate", "post", "followup"}

NoLocals == [i |-> 0, attempt |-> 0, covered |-> {}, overCap |-> FALSE]
AtFirst  == [NoLocals EXCEPT !.i = 1]

StackIdle == \A j \in Jobs : pc[j] # "returned"
Serving   == queue.started /\ StackIdle

\* run() up to its first await, for either kind of job.
EnteredAll(rs, claimed) ==
  [j \in Jobs |->
     IF j \notin claimed \/ rs[j].state = "completed" THEN rs[j]
     ELSE IF Dead(rs[j]) THEN SkipUnreached(rs, j)[j]
     ELSE SetState(rs[j], "running")]

EnteredAt(r) ==
  IF Dead(r) \/ r.state = "completed" THEN "returned" ELSE IF IsStack(r) THEN "pin" ELSE "review"

\* A turn that leaves the rows at rs and the queue at q; run j, if any, moves
\* on to `at` with locals m.
Turn(rs, q, stopped, moved) ==
  LET claimed == q.active \ queue.active
  IN  /\ queue' = q
      /\ rows'  = EnteredAll(rs, claimed)
      /\ pc'    = [j \in Jobs |-> IF j \in claimed THEN EnteredAt(rs[j])
                                  ELSE IF j \notin q.active THEN "idle"
                                  ELSE IF j \in DOMAIN moved THEN moved[j].at ELSE pc[j]]
      /\ mem'   = [j \in Jobs |-> IF j \in claimed /\ EnteredAt(rs[j]) = "pin" THEN AtFirst
                                  ELSE IF j \notin q.active \/ j \in claimed THEN NoLocals
                                  ELSE IF j \in DOMAIN moved THEN moved[j].mem ELSE mem[j]]
      /\ aborted' = (aborted \union stopped) \intersect q.active

Commit(rs, q, stopped) == Turn(rs, q, stopped, <<>>)

\* Run j awaits at `at`, with rows rs and locals m.
Goes(j, rs, at, m) ==
  /\ Turn(rs, queue, {}, [k \in {j} |-> [at |-> at, mem |-> m]])
  /\ UNCHANGED <<head, moves, handoffs, upsets>>

Returns(j, rs) == Goes(j, rs, "returned", NoLocals)

StackAt(j, a) == StackIdle /\ pc[j] = a
Stop(j)       == Dead(rows[j]) \/ j \in aborted      \* throwIfStale would throw

\* The catch block of runStackJob.
Unwinds(s, rs) ==
  LET left == SkipUnreached(rs, s)
  IN  Returns(s, [left EXCEPT ![s] = SetState(@, IF Dead(@) \/ s \in aborted THEN "stale" ELSE "failed")])

-----------------------------------------------------------------------------
(* Creating jobs *)

IsNextRow(n) == ~Exists(n) /\ \A i \in 1..(n - 1) : Exists(i)     \* AUTOINCREMENT

\* The pull rows of p that enqueue sees: those on the shared key.
Holders(rs, p) == {j \in Jobs : rs[j].state # "absent" /\ rs[j].over = <<p>> /\ rs[j].key = 0}
AtHead(rs, p, h) == {j \in Holders(rs, p) : rs[j].head = h}

\* The stale sweep of store.enqueue for a pull at head h.
OtherHeads(rs, p, h) == {j \in Holders(rs, p) : rs[j].head # h /\ ~Dead(rs[j])}
SweptPull(rs, p, h)  == Moved(rs, OtherHeads(rs, p, h), "stale")

\* A delivery for a pull that carries no stack marker.
PushDelivery(p) ==
  LET h     == head[p]
      stale == OtherHeads(rows, p, h)
      swept == SweptPull(rows, p, h)
  IN  /\ Serving /\ Cardinality(handoffs) < MaxHandlers /\ UNCHANGED <<head, moves, upsets>>
      /\ IF AtHead(rows, p, h) # {}
         THEN Commit(swept, AbortedMany(queue, stale), stale) /\ UNCHANGED handoffs
         ELSE \E n \in Jobs :
              /\ IsNextRow(n)
              /\ Commit([swept EXCEPT ![n] = NewRow(<<p>>, head)], queue, {})
              /\ handoffs' = handoffs \union {[job |-> n, stale |-> stale, created |-> TRUE, pins |-> <<>>]}

\* Mutant: a trigger leaves the runs of other layouts alone.
SupersededNone(l) == {}

\* staleOpenStackJobs: the stack's jobs over other member lists.
Superseded(l) ==
  {j \in Jobs : Exists(j) /\ IsStack(rows[j]) /\ rows[j].key = 0 /\ rows[j].over # l /\ ~Dead(rows[j])}

SameLayout(rs, l) == {j \in Jobs : rs[j].state # "absent" /\ rs[j].over = l /\ rs[j].key = 0}

\* Mutant: dead rows at the head keep their key.
RetiredNone(rs, l, h) == rs

\* The key of ended rows at the new row's head is moved to stack-retired:<id>.
RetiredKeys(rs, l, h) ==
  [j \in Jobs |-> IF j \in SameLayout(rs, l) /\ rs[j].head = h /\ ~Active(rs[j])
                  THEN [rs[j] EXCEPT !.key = j] ELSE rs[j]]

\* runStackEnqueue up to its first await: the branch chain resolved to l at
\* the current heads, older runs are superseded, a queued job is a duplicate.
Trigger(l) ==
  LET live  == {j \in SameLayout(rows, l) : rows[j].state = "running"}
      stale == Superseded(l) \union live
      rs    == RetiredKeys(Moved(rows, stale, "stale"), l, head[Top(l)])
      dups  == {j \in SameLayout(rs, l) : rs[j].state = "queued"}
      pins  == [i \in 1..Len(l) |-> head[l[i]]]
  IN  /\ Serving /\ Cardinality(handoffs) < MaxHandlers /\ UNCHANGED <<head, moves, upsets>>
      /\ IF dups # {}
         THEN \E j \in dups :
              /\ Commit(rs, queue, {})
              /\ handoffs' = handoffs \union {[job |-> j, stale |-> stale, created |-> FALSE, pins |-> pins]}
         ELSE \E n \in Jobs :
              /\ IsNextRow(n)
              /\ Commit([rs EXCEPT ![n] = NewRow(l, head)], queue, {})
              /\ handoffs' = handoffs \union {[job |-> n, stale |-> stale, created |-> TRUE, pins |-> pins]}

\* repinQueuedStackJob, for a duplicate that still waits.
Repinned(r, pins) ==
  IF r.state # "queued" THEN r
  ELSE [r EXCEPT !.head = pins[Len(pins)],
                 !.rail = [i \in DOMAIN @ |-> [pin |-> pins[i], state |-> "queued", job |-> 0]]]

\* The comments and the badge are written: re-pin or dispatchEnqueue.
DispatchStack(t) ==
  /\ Serving /\ UNCHANGED <<head, moves, upsets>>
  /\ handoffs' = handoffs \ {t}
  /\ IF t.created
     THEN Commit(rows, AbortedMany(Enqueued(queue, t.job), t.stale), t.stale)
     ELSE Commit([rows EXCEPT ![t.job] = Repinned(@, t.pins)], AbortedMany(queue, t.stale), t.stale)

\* cancelJobs for one waiting or running job.
CancelJob(j) ==
  /\ Serving /\ upsets < MaxUpsets /\ Active(rows[j])
  /\ upsets' = upsets + 1
  /\ Commit(Moved(rows, {j}, "cancelled"), AbortedMany(queue, {j}), {j})
  /\ UNCHANGED <<head, moves, handoffs>>

\* A push to a pull of the stack.
MovePull(p) ==
  /\ moves < MaxMoves /\ moves' = moves + 1
  /\ \E h \in Heads \ {head[p]} : head' = [head EXCEPT ![p] = h]
  /\ UNCHANGED <<rows, queue, pc, mem, aborted, handoffs, upsets>>

-----------------------------------------------------------------------------
(* Runs *)

\* What a run of a pull job leaves: the pipeline of ReviewService in one step.
PullEnds(j, signal) ==
  IF Dead(rows[j]) \/ signal THEN {"stale"} ELSE {"completed", "failed"}

ReviewPull(j) ==
  /\ StackAt(j, "review")
  /\ \E s \in PullEnds(j, j \in aborted) : Returns(j, Moved(rows, {j}, s))

Member(s)     == rows[s].over[mem[s].i]
MemberRow(s)  == rows[s].rail[mem[s].i]
IsLast(s)     == mem[s].i = Len(rows[s].over)

\* patchStackMember on the member the run is at.
Patched(rs, s, entry) == [rs EXCEPT ![s].rail[mem[s].i] = entry]
PatchedState(rs, s, state) == [rs EXCEPT ![s].rail[mem[s].i].state = state]

\* Phase 1, the answer of getChange: pin the member, go to the next one.
Pin(s) ==
  LET rs == Patched(rows, s, [MemberRow(s) EXCEPT !.pin = head[Member(s)]])
  IN  /\ StackAt(s, "pin")
      /\ \/ Unwinds(s, rows)
         \/ IsLast(s) /\ Goes(s, rs, "mode", AtFirst)
         \/ ~IsLast(s) /\ Stop(s) /\ Unwinds(s, rs)
         \/ ~IsLast(s) /\ ~Stop(s) /\ Goes(s, rs, "pin", [mem[s] EXCEPT !.i = @ + 1])

\* The end of the loop body of phase 2: the next member, or phase 3.
NextMember(s, rs, m) ==
  \/ ~IsLast(s) /\ Goes(s, rs, "mode", [m EXCEPT !.i = @ + 1, !.attempt = 0])
  \/ IsLast(s) /\ Stop(s) /\ Unwinds(s, rs)
  \/ IsLast(s) /\ ~Stop(s) /\ Goes(s, rs, "check", [m EXCEPT !.i = 1, !.attempt = 0])

\* Mutant: one attempt too many.
RetriesOnceMore(s, rs, m) ==
  \/ m.attempt <= MemberRetries /\ Stop(s) /\ Unwinds(s, rs)
  \/ m.attempt <= MemberRetries /\ ~Stop(s) /\ Goes(s, rs, "repin", [m EXCEPT !.attempt = @ + 1])
  \/ m.attempt > MemberRetries /\ NextMember(s, PatchedState(rs, s, "failed"), m)

\* An attempt that ended failed or stale: another one, or the member failed.
Retries(s, rs, m) ==
  \/ m.attempt < MemberRetries /\ Stop(s) /\ Unwinds(s, rs)
  \/ m.attempt < MemberRetries /\ ~Stop(s) /\ Goes(s, rs, "repin", [m EXCEPT !.attempt = @ + 1])
  \/ m.attempt >= MemberRetries /\ NextMember(s, PatchedState(rs, s, "failed"), m)

\* waitForJob returned for job j.
Awaited(s, rs, j, m) ==
  \/ rs[j].state = "completed" /\ Goes(s, rs, "verify", m)
  \/ rs[j].state = "cancelled" /\ NextMember(s, PatchedState(rs, s, "skipped"), m)
  \/ rs[j].state \in {"failed", "stale"} /\ Retries(s, rs, m)

\* Mutant: a job that waits in the queue is awaited like any other.
JoinedWaiting(s, rs, j, m) ==
  LET noted == [rs EXCEPT ![s].rail[m.i].job = j]
  IN  IF Terminal(rs[j]) THEN Awaited(s, noted, j, m) ELSE Goes(s, noted, "wait", m)

\* The member has a job at its pin already: a queued one covers it, others are
\* awaited.
Joined(s, rs, j, m) ==
  LET noted == [rs EXCEPT ![s].rail[m.i].job = j]
  IN  IF rs[j].state = "queued" THEN NextMember(s, noted, [m EXCEPT !.covered = @ \union {m.i}])
      ELSE IF Terminal(rs[j]) THEN Awaited(s, noted, j, m)
      ELSE Goes(s, noted, "wait", m)

\* An attempt at the member: enqueue at the pin, and run what it created.  The
\* jobs the sweep ends are not signalled here.
Attempt(s, rs, m) ==
  LET p     == Member(s)
      h     == rs[s].rail[m.i].pin
      swept == SweptPull(PatchedState(rs, s, "reviewing"), p, h)
      found == AtHead(swept, p, h)
  IN  \/ \E j \in found : Joined(s, swept, j, m)
      \/ /\ found = {}
         /\ \E n \in Jobs :
              /\ IsNextRow(n)
              /\ Goes(s, [swept EXCEPT ![n] = [NewRow(<<p>>, head) EXCEPT !.head = h, !.state = "running"],
                                       ![s].rail[m.i].job = n], "inline", m)
      \/ /\ found = {} /\ \A n \in Jobs : ~IsNextRow(n)      \* the bound: no more rows
         /\ Unwinds(s, PatchedState(rs, s, "reviewing"))

HasPrior(s) ==
  \E j \in Jobs : /\ rows[j].over = <<Member(s)>> /\ rows[j].state = "completed"
                  /\ rows[j].head # MemberRow(s).pin

\* A middle member of a run that is over its token cap, without a finished
\* review to reuse or an earlier one to verify.
SkippedForBudget(s) ==
  /\ mem[s].i # 1 /\ ~IsLast(s) /\ mem[s].overCap /\ ~HasPrior(s)
  /\ \A j \in AtHead(rows, Member(s), MemberRow(s).pin) : rows[j].state # "completed"

\* stackMemberReviewMode returned.
Mode(s) ==
  /\ StackAt(s, "mode")
  /\ IF SkippedForBudget(s) THEN NextMember(s, PatchedState(rows, s, "skipped"), mem[s])
     ELSE \/ Unwinds(s, rows)
          \/ ~Stop(s) /\ Attempt(s, rows, mem[s])

\* retiredMemberDedupKey: the same for two attempts of one number.
AsideKey(s, attempt) == s * (MemberRetries + 1) + attempt

\* A retry, after getChange: pin again; at an unchanged head the ended attempt
\* gives up the shared key.  A key that is taken fails the UPDATE and the run.
Repin(s) ==
  LET h    == head[Member(s)]
      last == MemberRow(s).job
      key  == AsideKey(s, mem[s].attempt)
      rs   == Patched(rows, s, [MemberRow(s) EXCEPT !.pin = h])
      retires == h = MemberRow(s).pin /\ ~Active(rows[last])
      taken   == \E j \in Jobs : rows[j].over = <<Member(s)>> /\ rows[j].head = rows[last].head
                                 /\ rows[j].key = key /\ j # last
  IN  /\ StackAt(s, "repin")
      /\ \/ Unwinds(s, rows)
         \/ ~retires /\ Attempt(s, rs, mem[s])
         \/ retires /\ ~taken /\ Attempt(s, [rs EXCEPT ![last].key = key], mem[s])
         \/ retires /\ taken /\ Unwinds(s, rs)

\* The inline run of a member ends; it obeys the stack's signal.
InlineEnds(s) ==
  LET j == MemberRow(s).job
  IN  /\ StackAt(s, "inline")
      /\ \E e \in PullEnds(j, s \in aborted) :
           LET rs == Moved(rows, {j}, e)
           IN  \E over \in IF TokenCap THEN BOOLEAN ELSE {FALSE} :
                 IF Stop(s) THEN Unwinds(s, rs)
                 ELSE Awaited(s, rs, j, [mem[s] EXCEPT !.overCap = @ \/ over])

\* The poll of waitForJob, when it has something to see.
Poll(s) ==
  LET j == MemberRow(s).job
  IN  /\ StackAt(s, "wait")
      /\ IF Stop(s) THEN Unwinds(s, rows) ELSE Terminal(rows[j]) /\ Awaited(s, rows, j, mem[s])

\* getChange after a completed review: it counts if the head is still there.
Verify(s) ==
  /\ StackAt(s, "verify")
  /\ \/ Unwinds(s, rows)
     \/ /\ head[Member(s)] = MemberRow(s).pin
        /\ NextMember(s, PatchedState(rows, s, "done"), mem[s])
     \/ head[Member(s)] # MemberRow(s).pin /\ Retries(s, rows, mem[s])

\* Phase 3, per member: a head that moved ends the run stale, and the rail is
\* left as it is.
Check(s) ==
  /\ StackAt(s, "check")
  /\ \/ Unwinds(s, rows)
     \/ head[Member(s)] # MemberRow(s).pin /\ Returns(s, [rows EXCEPT ![s] = SetState(@, "stale")])
     \/ head[Member(s)] = MemberRow(s).pin /\ Goes(s, rows, "diff", mem[s])

\* reconcileCoverage: the covered members whose job has ended.
Ended(s) == {i \in mem[s].covered : Terminal(rows[rows[s].rail[i].job])}

\* Mutant: coverage is not reconciled.
ReconciledNot(s) == rows

Reconciled(s) ==
  [rows EXCEPT ![s].rail = [i \in DOMAIN @ |->
     IF i \in Ended(s) THEN [@[i] EXCEPT !.state = Outcome(rows, rows[s].rail[i].job)] ELSE @[i]]]

\* Phase 5 up to the comment; nobody looks whether the run is stale.
Publishes(s) == Goes(s, Reconciled(s), "post", [mem[s] EXCEPT !.covered = @ \ Ended(s)])

\* Phase 3's getChangeDiff; after the last one phase 4, when members share
\* changed paths and the cap allows it.
Diff(s) ==
  /\ StackAt(s, "diff")
  /\ \/ Unwinds(s, rows)
     \/ ~IsLast(s) /\ Stop(s) /\ Unwinds(s, rows)
     \/ ~IsLast(s) /\ ~Stop(s) /\ Goes(s, rows, "check", [mem[s] EXCEPT !.i = @ + 1])
     \/ IsLast(s) /\ ~mem[s].overCap /\ Goes(s, rows, "clone", mem[s])
     \/ IsLast(s) /\ Publishes(s)

\* The checkout of the tip, then the cumulative model run, which the signal
\* kills.
Clone(s) ==
  /\ StackAt(s, "clone")
  /\ \/ Unwinds(s, rows)
     \/ ~Stop(s) /\ Goes(s, rows, "cumulate", mem[s])

Cumulate(s) ==
  /\ StackAt(s, "cumulate")
  /\ \/ Unwinds(s, rows)
     \/ s \notin aborted /\ Publishes(s)

Completes(s, rs) == Returns(s, [rs EXCEPT ![s] = SetState(@, "completed")])

\* The comments are written or refused; coverage that died meanwhile gets a
\* follow-up.
PostSummary(s) ==
  /\ StackAt(s, "post")
  /\ \/ Unwinds(s, rows)
     \/ IF \E i \in Ended(s) : rows[rows[s].rail[i].job].state # "completed"
        THEN Goes(s, Reconciled(s), "followup", [mem[s] EXCEPT !.covered = @ \ Ended(s)])
        ELSE Completes(s, Reconciled(s))

FollowUp(s) == StackAt(s, "followup") /\ (Unwinds(s, rows) \/ Completes(s, rows))

StackStep(j) ==
  \/ ReviewPull(j)
  \/ Pin(j) \/ Mode(j) \/ Repin(j) \/ InlineEnds(j) \/ Poll(j) \/ Verify(j)
  \/ Check(j) \/ Diff(j) \/ Clone(j) \/ Cumulate(j) \/ PostSummary(j) \/ FollowUp(j)

ReleaseSlot(j) ==
  /\ pc[j] = "returned"
  /\ Commit(rows, Finished(queue, j), {})
  /\ UNCHANGED <<head, moves, handoffs, upsets>>

-----------------------------------------------------------------------------
(* Process death and start *)

ProcessDies ==
  /\ Serving /\ upsets < MaxUpsets /\ upsets' = upsets + 1
  /\ queue' = Stopped /\ pc' = [j \in Jobs |-> "idle"] /\ mem' = [j \in Jobs |-> NoLocals]
  /\ aborted' = {} /\ handoffs' = {}
  /\ UNCHANGED <<head, moves, rows>>

\* Mutant: rows that were running are left as they are.
RestartQueued ==
  /\ ~queue.started
  /\ LET open == {j \in Jobs : rows[j].state = "queued"}
     IN  \E order \in SetToSeqs(open) :
           Commit(rows, Pumped([pending |-> order, active |-> {}, started |-> TRUE]), {})
  /\ UNCHANGED <<head, moves, handoffs, upsets>>

\* queue.start: whatever was active waits again, inline members included.
Restart ==
  /\ ~queue.started
  /\ LET open  == {j \in Jobs : Active(rows[j])}
         reset == [j \in Jobs |-> IF j \in open THEN [rows[j] EXCEPT !.state = "queued"] ELSE rows[j]]
     IN  \E order \in SetToSeqs(open) :
           Commit(reset, Pumped([pending |-> order, active |-> {}, started |-> TRUE]), {})
  /\ UNCHANGED <<head, moves, handoffs, upsets>>

StackInit ==
  /\ head \in [StackPulls -> {CHOOSE h \in Heads : TRUE}] /\ moves = 0
  /\ rows = [j \in Jobs |-> [NewRow(CHOOSE l \in Layouts : TRUE, head) EXCEPT !.state = "absent"]]
  /\ queue = Stopped /\ pc = [j \in Jobs |-> "idle"] /\ mem = [j \in Jobs |-> NoLocals]
  /\ aborted = {} /\ handoffs = {} /\ upsets = 0

StackNext ==
  \/ \E p \in Pushed : MovePull(p)
  \/ \E p \in Unmarked : PushDelivery(p)
  \/ \E l \in Layouts : Trigger(l)
  \/ \E t \in handoffs : DispatchStack(t)
  \/ \E j \in Jobs : CancelJob(j) \/ StackStep(j) \/ ReleaseSlot(j)
  \/ ProcessDies \/ Restart

StackSpec == StackInit /\ [][StackNext]_stackVars
=============================================================================

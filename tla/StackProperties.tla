--------------------------- MODULE StackProperties ---------------------------
(* What StackReview promises; README.md says which run checks which.         *)
EXTENDS StackReview

StackStates == {"absent", "queued", "running"} \union TerminalStates

StackTypeOK ==
  /\ head \in [StackPulls -> Heads] /\ moves \in 0..MaxMoves /\ upsets \in 0..MaxUpsets
  /\ QueueTypeOK
  /\ \A j \in Jobs :
       /\ rows[j].state \in StackStates /\ rows[j].head \in Heads /\ rows[j].key \in Nat
       /\ rows[j].over \in Layouts \union {<<p>> : p \in StackPulls}
       /\ \A i \in DOMAIN rows[j].rail :
            /\ rows[j].rail[i].pin \in Heads /\ rows[j].rail[i].job \in Jobs \union {0}
            /\ rows[j].rail[i].state \in {"queued", "reviewing", "done", "failed", "skipped"}
       /\ pc[j] \in StackAwaits \union {"idle", "returned", "review"}
       /\ mem[j].i \in 0..Len(rows[j].over) /\ mem[j].attempt \in 0..MemberRetries
  /\ aborted \subseteq queue.active
  /\ \A t \in handoffs : t.job \in Jobs /\ t.stale \subseteq Jobs

\* "never double-run" (README.md:613): whatever triggers, pushes, layouts and
\* restarts come between, at most one job of a stack waits or runs.
OneOpenStack ==
  \A i, j \in Jobs : IsStack(rows[i]) /\ IsStack(rows[j]) /\ Active(rows[i]) /\ Active(rows[j]) => i = j

\* The jobs UNIQUE constraint (db.ts:130): no insert, re-pin or retired key
\* may produce a second row of one identity, or the handler would throw.
UniqueRows ==
  \A i, j \in Jobs : Exists(i) /\ Exists(j) /\ i # j =>
    ~(/\ IsStack(rows[i]) = IsStack(rows[j]) /\ Top(rows[i].over) = Top(rows[j].over)
      /\ rows[i].head = rows[j].head /\ rows[i].key = rows[j].key
      /\ IsStack(rows[i]) /\ rows[i].key = 0 => rows[i].over = rows[j].over)

\* Where a run works on a job: a slot of the queue, or a stack that runs it as
\* a member.
RunsOf(j) ==
  {<<"slot", j>> : k \in {i \in {j} : pc[i] \in {"review"} \union StackAwaits}}
  \union {<<"inline", s>> : s \in {i \in Jobs : pc[i] = "inline" /\ MemberRow(i).job = j}}

\* A member runs inside its stack's slot although the queue knows its row as
\* any other: a row says "running" exactly while one run works on it, never two.
OneRunPerRow ==
  queue.started => \A j \in Jobs :
    /\ Cardinality(RunsOf(j)) <= 1
    /\ rows[j].state = "running" => RunsOf(j) # {}
    /\ rows[j].state \in {"queued", "completed", "failed"} => RunsOf(j) = {}

\* A summary is only started over members that are settled (runStackJob phases
\* 2 to 5): a member shown done was reviewed at the very head the summary
\* prints, and one still in review has a job that will answer for it.
SummaryIsSettled ==
  [][\A s \in Jobs : pc[s] # "post" /\ pc'[s] = "post" =>
       \A i \in DOMAIN rows'[s].rail :
         LET e == rows'[s].rail[i]
         IN  /\ e.state # "queued"
             /\ e.state = "done" => rows'[e.job].head = e.pin /\ rows'[e.job].state \in {"completed", "stale"}
             /\ e.state = "reviewing" => Active(rows'[e.job])]_stackVars

\* "Members the run never finished must not render QUEUED/REVIEWING forever"
\* (pipeline.ts:1069): once a stack job completed or failed and its run left,
\* every member is settled, or its job is still to answer for it.  (A stack that
\* went stale or was cancelled can leave one behind, and so can one that wrote a
\* follow-up: run v_followup.)
RailSettles ==
  \A s \in Jobs : rows[s].state \in {"completed", "failed"} /\ pc[s] \in {"idle", "returned"} =>
    \A i \in DOMAIN rows[s].rail :
      LET e == rows[s].rail[i]
      IN  e.state \in {"done", "failed", "skipped"} \/ (e.state = "reviewing" /\ Active(rows[e.job]))

\* Coverage of a member of s was seen to have died, so s wrote a follow-up.
FollowedUp(s) ==
  \E i \in DOMAIN rows[s].rail :
    LET e == rows[s].rail[i]
    IN  e.state = "skipped" /\ e.job # 0 /\ rows[e.job].state \in {"failed"} \union DeadStates

\* What the code does keep of that: only beside a follow-up, whose comment was
\* awaited with nobody to look again, is a member left to a job that is over.
RailAnswered ==
  \A s \in Jobs : rows[s].state \in {"completed", "failed"} /\ pc[s] \in {"idle", "returned"} =>
    \A i \in DOMAIN rows[s].rail :
      LET e == rows[s].rail[i]
      IN  \/ e.state \in {"done", "failed", "skipped"}
          \/ e.state = "reviewing" /\ Active(rows[e.job])
          \/ /\ e.state = "reviewing" /\ Terminal(rows[e.job])
             /\ rows[s].state = "completed" /\ FollowedUp(s)

\* "awaiting it would deadlock the run" (pipeline.ts:1335): a live stack run
\* never waits for a job that nobody runs, so it never waits for its own slot.
WaitsForRunning ==
  \A s \in Jobs : pc[s] = "wait" /\ ~Dead(rows[s]) =>
    Terminal(rows[MemberRow(s).job]) \/ RunsOf(MemberRow(s).job) # {}

\* The tables of stacks are sound: of their types, one row per identity and one
\* run per row, no run that waits for its own slot, no rail left unanswered.
RowsAndRail == StackTypeOK /\ UniqueRows /\ OneRunPerRow /\ WaitsForRunning /\ RailAnswered
=============================================================================

------------------------ MODULE ReviewService_proofs ------------------------
(***************************************************************************)
(* What holds of the review service for every number of pulls, heads, jobs *)
(* and slots: the one-way states, the pause switch, one current job.       *)
(***************************************************************************)
EXTENDS ReviewProperties, JobQueue_proofs

States == {"absent"} \union ActiveStates \union TerminalStates

RowsOK == rows \in [Jobs -> Rows]

\* How one write may change a row: it keeps its identity, a dead job its
\* state, and no row disappears.
Evolves(r, s) ==
  /\ s \in Rows
  /\ s.pull = r.pull /\ s.head = r.head /\ s.slot = r.slot
  /\ Dead(r) => s.state = r.state
  /\ r.state # "absent" => s.state # "absent"

-----------------------------------------------------------------------------
(* The operators on rows *)

LEMMA Reflexive == ASSUME NEW r \in Rows PROVE Evolves(r, r)
  BY DEF Evolves

LEMMA Transitive ==
  ASSUME NEW r, NEW s, NEW t, Evolves(r, s), Evolves(s, t)
  PROVE  Evolves(r, t)
  BY DEF Evolves, Dead

\* Writes that leave the state alone.
LEMMA FieldsEvolve ==
  ASSUME NEW r \in Rows, NEW f \in [Roles -> RunStates], NEW b \in BOOLEAN
  PROVE  /\ Evolves(r, [r EXCEPT !.runs = f])
         /\ Evolves(r, [r EXCEPT !.reviewed = b])
         /\ Evolves(r, [r EXCEPT !.paged = b])
         /\ Evolves(r, [r EXCEPT !.manual = b])
         /\ [r EXCEPT !.runs = f].state = r.state
         /\ [r EXCEPT !.reviewed = b].state = r.state
         /\ [r EXCEPT !.paged = b].state = r.state
         /\ [r EXCEPT !.manual = b].state = r.state
<1>1. /\ [r EXCEPT !.runs = f] \in Rows /\ [r EXCEPT !.reviewed = b] \in Rows
      /\ [r EXCEPT !.paged = b] \in Rows /\ [r EXCEPT !.manual = b] \in Rows
  BY DEF Rows
<1>2. Evolves(r, [r EXCEPT !.runs = f]) /\ [r EXCEPT !.runs = f].state = r.state
  BY <1>1 DEF Evolves, Rows
<1>3. Evolves(r, [r EXCEPT !.reviewed = b]) /\ [r EXCEPT !.reviewed = b].state = r.state
  BY <1>1 DEF Evolves, Rows
<1>4. Evolves(r, [r EXCEPT !.paged = b]) /\ [r EXCEPT !.paged = b].state = r.state
  BY <1>1 DEF Evolves, Rows
<1>5. Evolves(r, [r EXCEPT !.manual = b]) /\ [r EXCEPT !.manual = b].state = r.state
  BY <1>1 DEF Evolves, Rows
<1> QED
  BY <1>2, <1>3, <1>4, <1>5

LEMMA RunsTyped ==
  ASSUME NEW r \in Rows, NEW s \in RunStates
  PROVE  EndRuns(r, s) \in [Roles -> RunStates]
  BY DEF EndRuns, Rows

\* setJobState: the one-way rule, and otherwise the state it is asked for.
LEMMA SetStateEvolves ==
  ASSUME NEW r \in Rows, NEW s \in States \ {"absent"}
  PROVE  /\ Evolves(r, SetState(r, s))
         /\ SetState(r, s).state = IF Dead(r) THEN r.state ELSE s
<1>1. CASE Dead(r)
  BY <1>1, Reflexive DEF SetState
<1>2. CASE ~Dead(r)
  <2> DEFINE f == IF s \in DeadStates THEN EndRuns(r, s) ELSE r.runs
             n == IF s \in TerminalStates /\ ~Terminal(r) /\ r.lines < 2 THEN r.lines + 1 ELSE r.lines
             t == [r EXCEPT !.state = s, !.runs = f, !.lines = n]
  <2>1. SetState(r, s) = t
    BY <1>2 DEF SetState
  <2>2. f \in [Roles -> RunStates]
    BY RunsTyped DEF Rows, RunStates, DeadStates
  <2>3. n \in 0..2
    BY DEF Rows
  <2> HIDE DEF f, n
  <2>4. t \in Rows /\ t.state = s /\ t.pull = r.pull /\ t.head = r.head /\ t.slot = r.slot
    BY <2>2, <2>3 DEF Rows, States
  <2> HIDE DEF t
  <2> QED
    BY <1>2, <2>1, <2>4 DEF Evolves, States
<1> QED
  BY <1>1, <1>2

LEMMA EnsureRunsEvolves ==
  ASSUME NEW r \in Rows, NEW picked
  PROVE  Evolves(r, EnsureRuns(r, picked)) /\ EnsureRuns(r, picked).state = r.state
<1> DEFINE f == [k \in Roles |->
                   IF r.runs[k] = "none" /\ k \in picked
                   THEN IF Dead(r) THEN r.state ELSE "live"
                   ELSE r.runs[k]]
<1>1. f \in [Roles -> RunStates]
  BY DEF Rows, RunStates, Dead, DeadStates
<1>2. EnsureRuns(r, picked) = [r EXCEPT !.runs = f]
  BY DEF EnsureRuns
<1> HIDE DEF f
<1>3. TRUE \in BOOLEAN /\ Evolves(r, [r EXCEPT !.runs = f]) /\ [r EXCEPT !.runs = f].state = r.state
  BY <1>1, FieldsEvolve
<1> QED
  BY <1>2, <1>3

LEMMA ReviewingEvolves ==
  ASSUME NEW r \in Rows
  PROVE  /\ Evolves(r, Reviewing(r))
         /\ Reviewing(r).state = IF Dead(r) THEN r.state ELSE "reviewing"
<1> DEFINE f == [k \in Roles |-> IF r.runs[k] = "failed" THEN "live" ELSE r.runs[k]]
           s == [r EXCEPT !.runs = f]
<1>1. f \in [Roles -> RunStates]
  BY DEF Rows, RunStates
<1>2. Reviewing(r) = SetState(s, "reviewing")
  BY DEF Reviewing
<1> HIDE DEF f
<1>3. Evolves(r, s) /\ s.state = r.state
  BY <1>1, FieldsEvolve
<1> HIDE DEF s
<1>4. s \in Rows /\ (Dead(s) <=> Dead(r))
  BY <1>3 DEF Evolves, Dead
<1>5. "reviewing" \in States \ {"absent"}
  BY DEF States, ActiveStates, LiveStates
<1> QED
  BY <1>2, <1>3, <1>4, <1>5, SetStateEvolves, Transitive

LEMMA UnwoundEvolves ==
  ASSUME NEW r \in Rows, NEW signal \in BOOLEAN
  PROVE  /\ Evolves(r, Unwound(r, signal))
         /\ Unwound(r, signal).state \in {"stale", "failed", "cancelled"}
<1>1. {"stale", "failed"} \subseteq States \ {"absent"}
  BY DEF States, TerminalStates, DeadStates
<1>2. CASE Dead(r) \/ signal
  BY <1>1, <1>2, SetStateEvolves DEF Unwound, Dead, DeadStates
<1>3. CASE ~(Dead(r) \/ signal)
  <2> DEFINE s == [r EXCEPT !.runs = EndRuns(r, "failed")]
  <2>1. Evolves(r, s) /\ s.state = r.state
    BY RunsTyped, FieldsEvolve DEF RunStates
  <2>2. Unwound(r, signal) = SetState(s, "failed")
    BY <1>3 DEF Unwound
  <2> HIDE DEF s
  <2>3. s \in Rows /\ ~Dead(s)
    BY <1>3, <2>1 DEF Evolves, Dead
  <2> QED
    BY <1>1, <2>1, <2>2, <2>3, SetStateEvolves, Transitive
<1> QED
  BY <1>2, <1>3

\* The synchronous head of run(): what it claims it leaves dead, ended, or at
\* the checkout.  Under the pause switch nothing comes to life.
LEMMA EnteredEvolves ==
  ASSUME NEW r \in Rows
  PROVE  /\ Evolves(r, Entered(r).row)
         /\ Entered(r).at \in {"returned", "redispatch", "checkout"}
         /\ Entered(r).at = "checkout" => Entered(r).row.state \in LiveStates \union DeadStates
         /\ paused => Entered(r).row.state \notin LiveStates
<1>1. {"cancelled", "preparing", "failed"} \subseteq States \ {"absent"}
  BY DEF States, TerminalStates, DeadStates, ActiveStates, LiveStates
<1>2. CASE paused
  <2>1. CASE Active(r)
    BY <1>1, <1>2, <2>1, SetStateEvolves DEF Entered, LiveStates, Dead, DeadStates
  <2>2. CASE ~Active(r)
    BY <1>2, <2>2, Reflexive DEF Entered, Active, ActiveStates
  <2> QED
    BY <2>1, <2>2
<1>3. CASE ~paused /\ Dead(r)
  BY <1>3, Reflexive DEF Entered
<1>4. CASE ~paused /\ ~Dead(r) /\ r.state = "completed"
  BY <1>4, Reflexive DEF Entered
<1>5. CASE ~paused /\ ~Dead(r) /\ r.state # "completed" /\ r.pull \in allowed
  BY <1>1, <1>5, SetStateEvolves DEF Entered, LiveStates
<1>6. CASE ~paused /\ ~Dead(r) /\ r.state # "completed" /\ r.pull \notin allowed
  <2> DEFINE s == [r EXCEPT !.runs = EndRuns(r, "failed")]
  <2>1. Evolves(r, s)
    BY RunsTyped, FieldsEvolve DEF RunStates
  <2>2. Entered(r) = [row |-> SetState(s, "failed"), at |-> "returned"]
    BY <1>6 DEF Entered
  <2> HIDE DEF s
  <2> QED
    BY <1>1, <1>6, <2>1, <2>2, SetStateEvolves, Transitive DEF Evolves
<1> QED
  BY <1>2, <1>3, <1>4, <1>5, <1>6

-----------------------------------------------------------------------------
(* What a turn of the event loop does to a row *)

Working == Awaits \ {"redispatch"}

\* A run that works on a job finds its row live, or dead since.
RunsOfLiveJobs ==
  /\ pc \in [Jobs -> Awaits \union {"idle", "returned"}]
  /\ \A j \in Jobs : pc[j] \in Working => rows[j].state \in LiveStates \union DeadStates

\* A turn of the run of j: a legal write of its row, and where it stops.
Turn(j, r, a) ==
  /\ Goes(j, r, a)
  /\ Evolves(rows[j], r)
  /\ a \in Awaits \union {"returned"}
  /\ a \in Working => r.state \in LiveStates \union DeadStates
  /\ pc[j] = "redispatch" => r.state = rows[j].state

LEMMA UnwindsTurns ==
  ASSUME RowsOK, NEW j \in Jobs, NEW r, Evolves(rows[j], r), pc[j] # "redispatch", Unwinds(j, r)
  PROVE  \E t, a : Turn(j, t, a)
<1>1. (j \in aborted) \in BOOLEAN /\ r \in Rows
  BY DEF Evolves
<1>2. Evolves(rows[j], Unwound(r, j \in aborted))
  BY <1>1, UnwoundEvolves, Transitive
<1>3. "returned" \notin Working
  BY DEF Working, Awaits
<1>4. Turn(j, Unwound(r, j \in aborted), "returned")
  BY <1>2, <1>3 DEF Unwinds, Turn
<1> QED
  BY <1>4

\* Going on to the next stage of a job that is not dead.
LEMMA StageTurns ==
  ASSUME RowsOK, NEW j \in Jobs, NEW r, Evolves(rows[j], r), ~Dead(rows[j]), r.state = rows[j].state,
         pc[j] # "redispatch", NEW s \in LiveStates, NEW a \in Working, Goes(j, SetState(r, s), a)
  PROVE  \E t, b : Turn(j, t, b)
<1>1. s \in States \ {"absent"} /\ r \in Rows /\ ~Dead(r)
  BY DEF States, ActiveStates, LiveStates, Evolves, Dead
<1>2. Evolves(rows[j], SetState(r, s)) /\ SetState(r, s).state = s
  BY <1>1, SetStateEvolves, Transitive
<1>3. Turn(j, SetState(r, s), a)
  BY <1>2 DEF Turn, Working
<1> QED
  BY <1>3

LEMMA GoesTurns ==
  ASSUME NEW j \in Jobs, NEW r, NEW a \in Awaits \union {"returned"},
         Goes(j, r, a), Evolves(rows[j], r), pc[j] # "redispatch",
         a \in Working => r.state \in LiveStates \union DeadStates
  PROVE  \E t, b : Turn(j, t, b)
<1>1. Turn(j, r, a)
  BY DEF Turn
<1> QED
  BY <1>1

LEMMA AfterPublishTurns ==
  ASSUME RowsOK, RunsOfLiveJobs, NEW j \in Jobs, pc[j] \in Working,
         NEW posted \in BOOLEAN, AfterPublish(j, posted)
  PROVE  \E t, a : Turn(j, t, a)
<1> DEFINE r == IF posted THEN [rows[j] EXCEPT !.reviewed = TRUE] ELSE rows[j]
<1>1. rows[j] \in Rows /\ TRUE \in BOOLEAN
  BY DEF RowsOK
<1>2. Evolves(rows[j], [rows[j] EXCEPT !.reviewed = TRUE]) /\ [rows[j] EXCEPT !.reviewed = TRUE].state = rows[j].state
  <2>1. rows[j].runs \in [Roles -> RunStates]
    BY <1>1 DEF Rows
  <2> QED
    BY <1>1, <2>1, FieldsEvolve
<1>3. Evolves(rows[j], r) /\ r.state = rows[j].state
  BY <1>1, <1>2, Reflexive
<1>4. rows[j].state \in LiveStates \union DeadStates
  BY DEF RunsOfLiveJobs
<1>5. Unwinds(j, r) \/ Goes(j, r, "refresh")
  BY DEF AfterPublish
<1>6. "refresh" \in Awaits /\ pc[j] # "redispatch"
  BY DEF Awaits, Working
<1> HIDE DEF r
<1> QED
  BY <1>3, <1>4, <1>5, <1>6, UnwindsTurns, GoesTurns

LEMMA CompletesTurns ==
  ASSUME RowsOK, RunsOfLiveJobs, NEW j \in Jobs, pc[j] \in Working, Completes(j)
  PROVE  \E t, a : Turn(j, t, a)
<1>1. rows[j] \in Rows /\ Evolves(rows[j], rows[j])
  BY Reflexive DEF RowsOK
<1>2. rows[j].state \in LiveStates \union DeadStates
  BY DEF RunsOfLiveJobs
<1>3. /\ {"dispatch", "returned"} \subseteq Awaits \union {"returned"}
      /\ "returned" \notin Working /\ pc[j] # "redispatch"
  BY DEF Awaits, Working
<1>4. CASE Unwinds(j, rows[j])
  BY <1>1, <1>3, <1>4, UnwindsTurns
<1>5. CASE Goes(j, rows[j], "dispatch")
  BY <1>1, <1>2, <1>3, <1>5, GoesTurns
<1>6. CASE Goes(j, SetState(rows[j], "completed"), "returned")
  <2>1. Evolves(rows[j], SetState(rows[j], "completed"))
    BY <1>1, SetStateEvolves DEF States, TerminalStates
  <2> QED
    BY <1>3, <1>6, <2>1, GoesTurns
<1> QED
  BY <1>4, <1>5, <1>6 DEF Completes

LEMMA StepTurns ==
  ASSUME RowsOK, RunsOfLiveJobs, NEW j \in Jobs, Step(j)
  PROVE  pc[j] \in Awaits /\ \E r, a : Turn(j, r, a)
<1>1. rows[j] \in Rows /\ Evolves(rows[j], rows[j])
  BY Reflexive DEF RowsOK
<1>2. {"reconciling", "routing", "reviewing", "aggregating", "sniffing", "publishing"} \subseteq LiveStates
  BY DEF LiveStates
<1>3. Working = {"checkout", "reconcile", "route", "review", "aggregate", "sniff", "summaries",
                 "post", "repost", "refresh", "closing", "dispatch"} /\ Working \subseteq Awaits
  BY DEF Working, Awaits
<1>4. Stop(j) \/ ~Dead(rows[j])
  BY DEF Stop, IsStale
<1>5. pc[j] \in Working => rows[j].state \in LiveStates \union DeadStates
  BY DEF RunsOfLiveJobs
<1>6. rows[j].runs \in [Roles -> RunStates]
  BY <1>1 DEF Rows
<1>7. CASE Checkout(j)
  BY <1>1, <1>2, <1>3, <1>4, <1>7, UnwindsTurns, StageTurns DEF Checkout, At, Continues
<1>8. CASE Reconcile(j)
  <2>1. pc[j] = "reconcile"
    BY <1>8 DEF Reconcile, At
  <2>2. CASE Unwinds(j, rows[j])
    BY <1>1, <1>3, <2>1, <2>2, UnwindsTurns
  <2>3. CASE Continues(j, SetState(rows[j], "routing"), "route")
    BY <1>1, <1>2, <1>3, <1>4, <2>1, <2>3, StageTurns DEF Continues
  <2>4. ASSUME NEW r, r = IF NoRuns(rows[j]) THEN EnsureRuns(rows[j], Roles) ELSE rows[j],
               Continues(j, Reviewing(r), "review")
        PROVE  \E t, a : Turn(j, t, a)
    <3>1. Evolves(rows[j], r) /\ r.state = rows[j].state
      BY <1>1, <2>4, EnsureRunsEvolves
    <3>2. Evolves(rows[j], Reviewing(r)) /\ Reviewing(r).state = "reviewing"
      <4>1. r \in Rows /\ ~Dead(r)
        BY <1>4, <2>4, <3>1 DEF Continues, Evolves, Dead
      <4> QED
        BY <3>1, <4>1, ReviewingEvolves, Transitive
    <3> QED
      BY <1>2, <1>3, <2>1, <2>4, <3>2, GoesTurns DEF Continues
  <2> QED
    BY <1>3, <1>8, <2>1, <2>2, <2>3, <2>4 DEF Reconcile
<1>9. CASE Route(j)
  <2>1. PICK picked \in SUBSET Roles \ {{}} :
          IF Stop(j) THEN Unwinds(j, EnsureRuns(rows[j], picked))
          ELSE Goes(j, Reviewing(EnsureRuns(rows[j], picked)), "review")
    BY <1>9 DEF Route
  <2> DEFINE r == EnsureRuns(rows[j], picked)
  <2>2. Evolves(rows[j], r) /\ r.state = rows[j].state /\ r \in Rows
    BY <1>1, EnsureRunsEvolves DEF Evolves
  <2>3. pc[j] = "route"
    BY <1>9 DEF Route, At
  <2> HIDE DEF r
  <2>4. CASE Stop(j)
    BY <1>3, <2>1, <2>2, <2>3, <2>4, UnwindsTurns DEF r
  <2>5. CASE ~Stop(j)
    <3>1. Evolves(rows[j], Reviewing(r)) /\ Reviewing(r).state = "reviewing"
      BY <1>4, <2>2, <2>5, ReviewingEvolves, Transitive DEF Dead
    <3>2. Goes(j, Reviewing(r), "review")
      BY <2>1, <2>5 DEF r
    <3> QED
      BY <1>2, <1>3, <2>3, <3>1, <3>2, GoesTurns
  <2> QED
    BY <1>3, <2>3, <2>4, <2>5
<1>10. ASSUME NEW k \in Roles, ReviewerEnds(j, k)
       PROVE  pc[j] \in Awaits /\ \E r, a : Turn(j, r, a)
  <2>1. PICK outcome \in {"done", "failed"} : Goes(j, [rows[j] EXCEPT !.runs[k] = outcome], "review")
    BY <1>10 DEF ReviewerEnds
  <2> DEFINE f == [rows[j].runs EXCEPT ![k] = outcome]
             r == [rows[j] EXCEPT !.runs = f]
  <2>2. f \in [Roles -> RunStates]
    BY <1>6 DEF RunStates
  <2>3. Goes(j, r, "review")
    BY <2>1
  <2>4. pc[j] = "review"
    BY <1>10 DEF ReviewerEnds, At
  <2> HIDE DEF f
  <2>5. TRUE \in BOOLEAN /\ Evolves(rows[j], r) /\ r.state = rows[j].state
    BY <1>1, <2>2, FieldsEvolve
  <2> HIDE DEF r
  <2> QED
    BY <1>3, <1>5, <2>3, <2>4, <2>5, GoesTurns
<1>11. CASE Reviewed(j)
  <2>1. pc[j] = "review"
    BY <1>11 DEF Reviewed, At
  <2>2. Unwinds(j, rows[j]) \/ (~Stop(j) /\ Goes(j, SetState(rows[j], "aggregating"), "aggregate"))
    BY <1>11 DEF Reviewed
  <2> QED
    BY <1>1, <1>2, <1>3, <1>4, <2>1, <2>2, UnwindsTurns, StageTurns
<1>12. CASE Aggregate(j)
  BY <1>1, <1>2, <1>3, <1>4, <1>12, UnwindsTurns, StageTurns DEF Aggregate, At, Continues
<1>13. CASE Sniff(j)
  BY <1>1, <1>2, <1>3, <1>4, <1>13, UnwindsTurns, StageTurns DEF Sniff, At, Continues
<1>14. CASE Summaries(j)
  <2>1. pc[j] = "summaries" /\ pc[j] \in Working
    BY <1>3, <1>14 DEF Summaries, At
  <2>2. CASE Continues(j, rows[j], "post")
    BY <1>1, <1>3, <1>5, <2>1, <2>2, GoesTurns DEF Continues
  <2> QED
    BY <1>1, <1>3, <1>14, <2>1, <2>2, UnwindsTurns, AfterPublishTurns DEF Summaries
<1>15. CASE Post(j)
  <2>1. pc[j] = "post" /\ pc[j] \in Working
    BY <1>3, <1>15 DEF Post, At
  <2>2. CASE Goes(j, rows[j], "repost")
    BY <1>1, <1>3, <1>5, <2>1, <2>2, GoesTurns
  <2> QED
    BY <1>1, <1>3, <1>15, <2>1, <2>2, UnwindsTurns, AfterPublishTurns DEF Post
<1>16. CASE Repost(j)
  <2>1. pc[j] = "repost" /\ pc[j] \in Working
    BY <1>3, <1>16 DEF Repost, At
  <2> QED
    BY <1>1, <1>3, <1>16, <2>1, UnwindsTurns, AfterPublishTurns DEF Repost
<1>17. CASE Refresh(j)
  <2>1. pc[j] = "refresh" /\ pc[j] \in Working
    BY <1>3, <1>17 DEF Refresh, At
  <2>2. CASE Goes(j, rows[j], "closing")
    BY <1>1, <1>3, <1>5, <2>1, <2>2, GoesTurns
  <2> QED
    BY <1>3, <1>17, <2>1, <2>2, CompletesTurns DEF Refresh
<1>18. CASE Closing(j)
  BY <1>3, <1>18, CompletesTurns DEF Closing, At
<1>19. CASE ExternalDispatch(j)
  <2>1. PICK ok \in BOOLEAN : Goes(j, SetState([rows[j] EXCEPT !.paged = ok], "completed"), "returned")
    BY <1>19 DEF ExternalDispatch
  <2> DEFINE r == [rows[j] EXCEPT !.paged = ok]
  <2>2. Evolves(rows[j], r) /\ r \in Rows
    BY <1>1, <1>6, FieldsEvolve DEF Evolves
  <2>3. pc[j] = "dispatch"
    BY <1>19 DEF ExternalDispatch, At
  <2>4. "completed" \in States \ {"absent"}
    BY DEF States, TerminalStates
  <2> HIDE DEF r
  <2>5. Evolves(rows[j], SetState(r, "completed"))
    BY <2>2, <2>4, SetStateEvolves, Transitive
  <2>6. Goes(j, SetState(r, "completed"), "returned")
    BY <2>1 DEF r
  <2> QED
    BY <1>3, <2>3, <2>5, <2>6, GoesTurns
<1>20. CASE Redispatch(j)
  <2>1. PICK ok \in BOOLEAN : Goes(j, [rows[j] EXCEPT !.paged = ok], "returned")
    BY <1>20 DEF Redispatch
  <2>2. pc[j] = "redispatch" /\ "redispatch" \in Awaits /\ "returned" \notin Working
    BY <1>3, <1>20 DEF Redispatch, At, Awaits
  <2>3. Turn(j, [rows[j] EXCEPT !.paged = ok], "returned")
    BY <1>1, <1>6, <2>1, <2>2, FieldsEvolve DEF Turn
  <2> QED
    BY <2>2, <2>3
<1> QED
  BY <1>7, <1>8, <1>9, <1>10, <1>11, <1>12, <1>13, <1>14, <1>15, <1>16, <1>17, <1>18, <1>19, <1>20
     DEF Step

-----------------------------------------------------------------------------
(* What a commit does to the rows *)

\* A run that has not returned to idle occupies a slot of the queue.
Claimed == \A j \in Jobs : pc[j] # "idle" => j \in queue.active

\* The rows a turn may commit: a dead row keeps its state, none comes to life,
\* and a row that a run works on keeps its live state or dies.
Prepared(rs) ==
  /\ rs \in [Jobs -> Rows]
  /\ \A j \in Jobs :
       /\ Dead(rows[j]) => rs[j].state = rows[j].state
       /\ rs[j].state \in LiveStates => rs[j].state = rows[j].state
       /\ pc[j] \in Working => rs[j].state \in LiveStates \union DeadStates

LEMMA RowsPrepared == ASSUME RowsOK, RunsOfLiveJobs PROVE Prepared(rows)
  BY DEF Prepared, RowsOK, RunsOfLiveJobs

\* Stale sweeps and cancellations prepare, also on rows already prepared.
LEMMA MovedPrepared ==
  ASSUME NEW rs, Prepared(rs), NEW S, NEW s \in DeadStates
  PROVE  Prepared(Moved(rs, S, s))
<1> DEFINE ms == Moved(rs, S, s)
<1>1. s \in States \ {"absent"} /\ s \notin LiveStates
  BY DEF States, TerminalStates, DeadStates, LiveStates
<1>2. \A j \in Jobs : ms[j] = IF j \in S THEN SetState(rs[j], s) ELSE rs[j]
  BY DEF Moved
<1>3. \A j \in Jobs : rs[j] \in Rows
  BY DEF Prepared
<1>4. \A j \in Jobs : /\ ms[j] \in Rows
                      /\ ms[j].state = rs[j].state \/ (~Dead(rs[j]) /\ ms[j].state = s)
  BY <1>1, <1>2, <1>3, SetStateEvolves DEF Evolves
<1>5. ms \in [Jobs -> Rows]
  BY <1>4 DEF Moved
<1> HIDE DEF ms
<1>6. Prepared(ms)
  BY <1>1, <1>4, <1>5 DEF Prepared, Dead
<1> QED
  BY <1>6 DEF ms

LEMMA NewRowTyped ==
  ASSUME NEW p \in Pulls, NEW h \in Heads
  PROVE  /\ NewRow(p, h) \in Rows /\ NewRow(p, h).state = "queued"
         /\ NewRow(p, h).pull = p /\ NewRow(p, h).head = h /\ NewRow(p, h).slot = "shared"
<1> DEFINE f == [k \in Roles |-> IF RoutingMode = "fixed" THEN "live" ELSE "none"]
<1>1. f \in [Roles -> RunStates]
  BY DEF RunStates
<1>2. NewRow(p, h) = [state |-> "queued", pull |-> p, head |-> h, slot |-> "shared",
                      runs |-> f, retries |-> 0, lines |-> 0, reviewed |-> FALSE,
                      manual |-> FALSE, paged |-> FALSE]
  BY DEF NewRow
<1> HIDE DEF f
<1>3. 0 \in 0..MaxRetries /\ 0 \in 0..2
  BY ServiceAssumption
<1> QED
  BY <1>1, <1>2, <1>3 DEF Rows, ActiveStates

\* A new row takes the place of none that anybody works on.
LEMMA NewPrepared ==
  ASSUME RunsOfLiveJobs, NEW rs, Prepared(rs), NEW n \in Jobs, ~Exists(n), NEW p \in Pulls, NEW h \in Heads
  PROVE  Prepared([rs EXCEPT ![n] = NewRow(p, h)])
<1> DEFINE ns == [rs EXCEPT ![n] = NewRow(p, h)]
<1>1. NewRow(p, h) \in Rows /\ NewRow(p, h).state = "queued"
  BY NewRowTyped
<1>2. rows[n].state = "absent"
  BY DEF Exists
<1>3. ~Dead(rows[n]) /\ pc[n] \notin Working /\ "queued" \notin LiveStates
  BY <1>2 DEF Dead, DeadStates, LiveStates, RunsOfLiveJobs
<1>4. rs \in [Jobs -> Rows]
  BY DEF Prepared
<1>5. ns \in [Jobs -> Rows] /\ ns[n] = NewRow(p, h) /\ \A j \in Jobs \ {n} : ns[j] = rs[j]
  BY <1>1, <1>4
<1> HIDE DEF ns
<1>6. Prepared(ns)
  BY <1>1, <1>3, <1>5 DEF Prepared
<1> QED
  BY <1>6 DEF ns

\* Committing prepared rows: nothing dead revives, nothing comes to life under
\* the pause switch, and runs and rows agree again.
LEMMA CommitEffect ==
  ASSUME RunsOfLiveJobs, NEW rs, Prepared(rs), NEW q, NEW S, Commit(rs, q, S)
  PROVE  /\ RowsOK' /\ RunsOfLiveJobs' /\ Claimed'
         /\ \A j \in Jobs : Dead(rows[j]) => rows'[j].state = rows[j].state
         /\ \A j \in Jobs : paused /\ rows'[j].state \in LiveStates => rows'[j].state = rows[j].state
<1> DEFINE claimed == q.active \ queue.active
<1>1. \A j \in Jobs : rs[j] \in Rows
  BY DEF Prepared
<1>2. /\ rows' = [j \in Jobs |-> IF j \in claimed THEN Entered(rs[j]).row ELSE rs[j]]
      /\ pc' = [j \in Jobs |-> IF j \in claimed THEN Entered(rs[j]).at
                               ELSE IF j \in q.active THEN pc[j] ELSE "idle"]
      /\ queue' = q
  BY DEF Commit
<1>3. \A j \in Jobs :
        /\ Evolves(rs[j], Entered(rs[j]).row)
        /\ Entered(rs[j]).at \in {"returned", "redispatch", "checkout"}
        /\ Entered(rs[j]).at = "checkout" => Entered(rs[j]).row.state \in LiveStates \union DeadStates
        /\ paused => Entered(rs[j]).row.state \notin LiveStates
  BY <1>1, EnteredEvolves
<1>4. \A j \in Jobs :
        \/ /\ j \in q.active
           /\ rows'[j] = Entered(rs[j]).row /\ pc'[j] = Entered(rs[j]).at
        \/ /\ j \in q.active /\ rows'[j] = rs[j] /\ pc'[j] = pc[j]
        \/ /\ j \notin q.active /\ rows'[j] = rs[j] /\ pc'[j] = "idle"
  BY <1>2
<1>5. "idle" \notin Working /\ "returned" \notin Working /\ "redispatch" \notin Working
      /\ {"returned", "redispatch", "checkout", "idle"} \subseteq Awaits \union {"idle", "returned"}
  BY DEF Working, Awaits
<1>6. \A j \in Jobs : rows'[j] \in Rows
  BY <1>1, <1>3, <1>4 DEF Evolves
<1>7. RowsOK'
  BY <1>2, <1>6 DEF RowsOK
<1>8. Claimed'
  BY <1>2, <1>4 DEF Claimed
<1>9. \A j \in Jobs : pc'[j] \in Awaits \union {"idle", "returned"}
  BY <1>3, <1>4, <1>5 DEF RunsOfLiveJobs
<1>10. \A j \in Jobs : pc'[j] \in Working => rows'[j].state \in LiveStates \union DeadStates
  BY <1>3, <1>4, <1>5 DEF Prepared
<1>11. RunsOfLiveJobs'
  BY <1>2, <1>9, <1>10 DEF RunsOfLiveJobs
<1>12. \A j \in Jobs : Dead(rows[j]) => rows'[j].state = rows[j].state
  BY <1>3, <1>4 DEF Prepared, Evolves, Dead
<1>13. \A j \in Jobs : paused /\ rows'[j].state \in LiveStates => rows'[j].state = rows[j].state
  BY <1>3, <1>4 DEF Prepared
<1> QED
  BY <1>7, <1>8, <1>11, <1>12, <1>13

-----------------------------------------------------------------------------
(* Every step keeps the invariant, drives the queue by one of its operations, *)
(* revives nothing that is dead and, under the pause switch, nothing at all    *)

HandoffsOK == handoffs \subseteq [job : Jobs, stale : SUBSET Jobs]

ServiceInv == IInv /\ RowsOK /\ RunsOfLiveJobs /\ Claimed /\ HandoffsOK

Effect ==
  /\ RowsOK' /\ RunsOfLiveJobs' /\ Claimed' /\ HandoffsOK'
  /\ [QueueNext]_queue
  /\ \A j \in Jobs : Dead(rows[j]) => rows'[j].state = rows[j].state
  /\ PausedIsQuiet => PausedIsQuiet'

LEMMA CommitsEffect ==
  ASSUME ServiceInv, NEW rs, Prepared(rs), NEW q, NEW S, Commit(rs, q, S),
         [QueueNext]_queue, HandoffsOK', paused' = paused
  PROVE  Effect
<1>1. RunsOfLiveJobs
  BY DEF ServiceInv
<1>2. /\ RowsOK' /\ RunsOfLiveJobs' /\ Claimed'
      /\ \A j \in Jobs : Dead(rows[j]) => rows'[j].state = rows[j].state
      /\ \A j \in Jobs : paused /\ rows'[j].state \in LiveStates => rows'[j].state = rows[j].state
  BY <1>1, CommitEffect
<1>3. PausedIsQuiet => PausedIsQuiet'
  BY <1>2 DEF PausedIsQuiet
<1> QED
  BY <1>2, <1>3 DEF Effect

\* The rows after cancelling what is active, and the queue's part of it.
LEMMA CancelAllCommits ==
  ASSUME ServiceInv, NEW S \in SUBSET Jobs, CancelAll(S), queue.started
  PROVE  \E rs, hit : /\ Prepared(rs) /\ Commit(rs, AbortedMany(queue, hit), hit)
                      /\ hit = {j \in S : Active(rows[j])}
                      /\ rs = Moved(rows, hit, "cancelled")
                      /\ QueueNext
<1> DEFINE hit == {j \in S : Active(rows[j])}
<1>1. Prepared(Moved(rows, hit, "cancelled"))
  BY RowsPrepared, MovedPrepared DEF ServiceInv, DeadStates
<1>2. Commit(Moved(rows, hit, "cancelled"), AbortedMany(queue, hit), hit)
  BY DEF CancelAll
<1>3. AbortMany(hit) /\ hit \in SUBSET Jobs
  BY <1>2 DEF Commit, AbortMany
<1> QED
  BY <1>1, <1>2, <1>3 DEF QueueNext

LEMMA CancelAllEffect ==
  ASSUME ServiceInv, NEW S \in SUBSET Jobs, CancelAll(S), queue.started,
         UNCHANGED handoffs, paused' = paused
  PROVE  Effect
<1>1. PICK rs, hit : Prepared(rs) /\ Commit(rs, AbortedMany(queue, hit), hit) /\ QueueNext
  BY CancelAllCommits
<1>2. HandoffsOK'
  BY DEF ServiceInv, HandoffsOK
<1> QED
  BY <1>1, <1>2, CommitsEffect

\* store.enqueue, for rows that gave up slots at most.
LEMMA EnqueuePullEffect ==
  ASSUME ServiceInv, NEW rs, Prepared(rs), NEW p \in Pulls, NEW h \in Heads, queue.started,
         EnqueuePull(rs, p, h), paused' = paused
  PROVE  Effect
<1> DEFINE stale == Swept(rs, p, h)
           swept == Moved(rs, stale, "stale")
<1>1. Prepared(swept)
  BY MovedPrepared DEF DeadStates
<1>2. stale \in SUBSET Jobs
  BY DEF Swept, Holders, JobsOf
<1>3. CASE \E j \in Holders(rs, p) : rs[j].head = h
  <2>1. Commit(swept, AbortedMany(queue, stale), stale) /\ UNCHANGED handoffs
    BY <1>3 DEF EnqueuePull
  <2> HIDE DEF stale, swept
  <2>2. AbortMany(stale)
    BY <2>1 DEF Commit, AbortMany
  <2>3. QueueNext
    BY <1>2, <2>2 DEF QueueNext
  <2>4. HandoffsOK'
    BY <2>1 DEF ServiceInv, HandoffsOK
  <2> QED
    BY <1>1, <2>1, <2>3, <2>4, CommitsEffect
<1>4. CASE ~ \E j \in Holders(rs, p) : rs[j].head = h
  <2>1. PICK n \in Jobs :
          /\ IsNext(n)
          /\ Commit([swept EXCEPT ![n] = NewRow(p, h)], queue, {})
          /\ handoffs' = handoffs \union {[job |-> n, stale |-> stale]}
    BY <1>4 DEF EnqueuePull
  <2> HIDE DEF stale, swept
  <2>2. Prepared([swept EXCEPT ![n] = NewRow(p, h)])
    BY <1>1, <2>1, NewPrepared DEF ServiceInv, IsNext
  <2>3. HandoffsOK'
    BY <1>2, <2>1 DEF ServiceInv, HandoffsOK
  <2>4. queue' = queue
    BY <2>1 DEF Commit
  <2> QED
    BY <2>1, <2>2, <2>3, <2>4, CommitsEffect
<1> QED
  BY <1>3, <1>4

\* Handlers that give the queue one job and leave the hand-offs alone.
LEMMA EnqueueEffect ==
  ASSUME ServiceInv, NEW rs, Prepared(rs), NEW j \in Jobs, queue.started,
         Commit(rs, Enqueued(queue, j), {}), UNCHANGED handoffs, paused' = paused
  PROVE  Effect
<1>1. QueueNext
  BY DEF Commit, Enqueue, QueueNext
<1>2. HandoffsOK'
  BY DEF ServiceInv, HandoffsOK
<1> QED
  BY <1>1, <1>2, CommitsEffect

\* A retry within its bound writes a row, and only of the job's own slot.
LEMMA RetryTyped ==
  ASSUME NEW r \in Rows, r.retries < MaxRetries, NEW again
  PROVE  /\ Retried(r, again) \in Rows /\ Retried(r, again).state = "queued"
         /\ Retried(r, again).pull = r.pull /\ Retried(r, again).head = r.head
         /\ Retried(r, again).slot = r.slot
<1> DEFINE f == [k \in Roles |-> IF k \in again THEN "live" ELSE r.runs[k]]
           n == r.retries + 1
           s == [r EXCEPT !.state = "queued", !.retries = n, !.lines = 0, !.runs = f]
<1>1. f \in [Roles -> RunStates] /\ n \in 0..MaxRetries
  BY ServiceAssumption DEF Rows, RunStates
<1>2. Retried(r, again) = s
  BY DEF Retried
<1> HIDE DEF f, n
<1>3. 0 \in 0..2 /\ "queued" \in ActiveStates
  BY DEF ActiveStates
<1>4. [r EXCEPT !.state = "queued", !.retries = n] \in Rows
  BY <1>1, <1>3 DEF Rows
<1>5. s \in Rows
  BY <1>1, <1>3, <1>4 DEF Rows
<1>6. s.state = "queued" /\ s.pull = r.pull /\ s.head = r.head /\ s.slot = r.slot
  BY DEF Rows
<1> QED
  BY <1>2, <1>5, <1>6

LEMMA RequestsEffect == ServiceInv /\ Requests => Effect
<1> SUFFICES ASSUME ServiceInv, Requests PROVE Effect
  OBVIOUS
<1>0. RowsOK /\ RunsOfLiveJobs /\ Prepared(rows) /\ \A j \in Jobs : rows[j] \in Rows
  BY RowsPrepared DEF ServiceInv, RowsOK
<1>1. ASSUME NEW p \in Pulls, NEW h \in Heads, Push(p, h) PROVE Effect
  BY <1>0, <1>1, EnqueuePullEffect DEF Push, Serving
<1>2. ASSUME NEW p \in Pulls, NEW h \in Heads, ReReview(p, h) PROVE Effect
  <2> DEFINE occupant == {j \in Holders(rows, p) : rows[j].head = h}
             rekeyed  == [j \in Jobs |-> IF j \in occupant THEN [rows[j] EXCEPT !.slot = "aside"] ELSE rows[j]]
  <2>1. \A j \in Jobs : [rows[j] EXCEPT !.slot = "aside"] \in Rows /\ [rows[j] EXCEPT !.slot = "aside"].state = rows[j].state
    BY <1>0 DEF Rows
  <2>2. EnqueuePull(rekeyed, p, h) /\ queue.started /\ paused' = paused
    BY <1>2 DEF ReReview, Serving
  <2> HIDE DEF occupant
  <2>3. rekeyed \in [Jobs -> Rows] /\ \A j \in Jobs : rekeyed[j].state = rows[j].state
    BY <1>0, <2>1
  <2> HIDE DEF rekeyed
  <2>4. Prepared(rekeyed)
    BY <1>0, <2>3 DEF Prepared
  <2> QED
    BY <2>2, <2>4, EnqueuePullEffect
<1>3. ASSUME NEW p \in Pulls, Escalate(p) PROVE Effect
  <2>1. PICK j \in JobsOf(p) : Commit([rows EXCEPT ![j].manual = TRUE], Enqueued(queue, j), {})
    BY <1>3 DEF Escalate
  <2>2. j \in Jobs /\ queue.started /\ UNCHANGED handoffs /\ paused' = paused
    BY <1>3 DEF JobsOf, Escalate, Serving
  <2> DEFINE rs == [rows EXCEPT ![j].manual = TRUE]
  <2>3. [rows[j] EXCEPT !.manual = TRUE] \in Rows /\ [rows[j] EXCEPT !.manual = TRUE].state = rows[j].state
    BY <1>0, <2>2 DEF Rows
  <2>4. rs \in [Jobs -> Rows] /\ \A i \in Jobs : rs[i].state = rows[i].state
    BY <1>0, <2>2, <2>3 DEF RowsOK
  <2> HIDE DEF rs
  <2>5. Prepared(rs)
    BY <1>0, <2>4 DEF Prepared
  <2>6. Commit(rs, Enqueued(queue, j), {})
    BY <2>1 DEF rs
  <2> QED
    BY <2>2, <2>5, <2>6, EnqueueEffect
<1>4. ASSUME NEW p \in Pulls, Merge(p) PROVE Effect
  <2>1. JobsOf(p) \in SUBSET Jobs
    BY DEF JobsOf
  <2> QED
    BY <1>4, <2>1, CancelAllEffect DEF Merge, Serving
<1>5. ASSUME NEW j \in Jobs, Retry(j) PROVE Effect
  <2>1. PICK again : Commit([rows EXCEPT ![j] = Retried(rows[j], again)], Enqueued(queue, j), {})
    BY <1>5 DEF Retry
  <2> DEFINE r  == Retried(rows[j], again)
             rs == [rows EXCEPT ![j] = r]
  <2>2. rows[j].state \in {"completed", "failed"} /\ rows[j].retries < MaxRetries
    BY <1>5 DEF Retry
  <2>3. r \in Rows /\ r.state = "queued"
    BY <1>0, <2>2, RetryTyped
  <2>4. Commit(rs, Enqueued(queue, j), {})
    BY <1>0, <2>1 DEF RowsOK
  <2> HIDE DEF r
  <2>6. rs \in [Jobs -> Rows] /\ rs[j].state = "queued" /\ \A i \in Jobs \ {j} : rs[i] = rows[i]
    BY <1>0, <2>3 DEF RowsOK
  <2> HIDE DEF rs
  <2>7. Prepared(rs)
    BY <1>0, <2>2, <2>6 DEF Prepared, Dead, DeadStates, LiveStates, RunsOfLiveJobs
  <2> QED
    BY <1>5, <2>4, <2>7, EnqueueEffect DEF Retry, Serving
<1>6. ASSUME NEW j \in Jobs, Cancel(j) PROVE Effect
  BY <1>6, CancelAllEffect DEF Cancel, Serving
<1>7. CASE Pause
  <2>1. CancelAll(Jobs) /\ queue.started /\ UNCHANGED handoffs
    BY <1>7 DEF Pause, Serving
  <2>2. PICK rs, hit : /\ Prepared(rs) /\ Commit(rs, AbortedMany(queue, hit), hit)
                       /\ hit = {j \in Jobs : Active(rows[j])}
                       /\ rs = Moved(rows, hit, "cancelled")
                       /\ QueueNext
    BY <2>1, CancelAllCommits
  <2>3. /\ RowsOK' /\ RunsOfLiveJobs' /\ Claimed'
        /\ \A j \in Jobs : Dead(rows[j]) => rows'[j].state = rows[j].state
    BY <1>0, <2>2, CommitEffect
  <2>4. AbortedMany(queue, hit).active = queue.active
    BY <2>1, AbortedManySound DEF ServiceInv, IInv
  <2>5. \A j \in Jobs : rows'[j] = rs[j]
    BY <2>2, <2>4 DEF Commit
  <2>6. \A j \in Jobs : rs[j].state \notin LiveStates
    <3> SUFFICES ASSUME NEW j \in Jobs PROVE rs[j].state \notin LiveStates
      OBVIOUS
    <3>1. CASE Active(rows[j])
      <4>1. rs[j] = SetState(rows[j], "cancelled") /\ ~Dead(rows[j])
        BY <2>2, <3>1 DEF Moved, Dead, Active, DeadStates, ActiveStates, LiveStates
      <4>2. rs[j].state = "cancelled"
        BY <1>0, <4>1, SetStateEvolves DEF States, TerminalStates, DeadStates
      <4> QED
        BY <4>2 DEF LiveStates
    <3>2. CASE ~Active(rows[j])
      BY <2>2, <3>2 DEF Moved, Active, ActiveStates
    <3> QED
      BY <3>1, <3>2
  <2>7. PausedIsQuiet' /\ HandoffsOK'
    BY <2>1, <2>5, <2>6 DEF PausedIsQuiet, ServiceInv, HandoffsOK
  <2> QED
    BY <2>2, <2>3, <2>7 DEF Effect
<1>8. CASE Resume
  BY <1>8 DEF Resume, Effect, ServiceInv, RowsOK, RunsOfLiveJobs, Claimed, HandoffsOK, PausedIsQuiet
<1> QED
  BY <1>1, <1>2, <1>3, <1>4, <1>5, <1>6, <1>7, <1>8 DEF Requests

LEMMA DispatchEffect == ASSUME ServiceInv, NEW t \in handoffs, Dispatch(t) PROVE Effect
<1>1. t.job \in Jobs /\ t.stale \in SUBSET Jobs /\ t \in handoffs
  BY DEF ServiceInv, HandoffsOK
<1>2. HandOver(t.job, t.stale)
  BY DEF Dispatch, Commit, HandOver, Serving
<1>3. QueueNext
  BY <1>1, <1>2 DEF QueueNext
<1>4. HandoffsOK'
  BY DEF Dispatch, ServiceInv, HandoffsOK
<1>5. Prepared(rows)
  BY RowsPrepared DEF ServiceInv
<1> QED
  BY <1>3, <1>4, <1>5, CommitsEffect DEF Dispatch

LEMMA StepEffect == ASSUME ServiceInv, NEW j \in Jobs, Step(j) PROVE Effect
<1>1. RowsOK /\ RunsOfLiveJobs /\ Claimed /\ HandoffsOK
  BY DEF ServiceInv
<1>2. PICK r, a : Turn(j, r, a)
  BY <1>1, StepTurns
<1>3. pc[j] \in Awaits
  BY <1>1, StepTurns
<1>4. /\ rows' = [rows EXCEPT ![j] = r] /\ pc' = [pc EXCEPT ![j] = a]
      /\ UNCHANGED <<paused, queue, handoffs>>
  BY <1>2 DEF Turn, Goes
<1>5. /\ Evolves(rows[j], r) /\ a \in Awaits \union {"returned"}
      /\ a \in Working => r.state \in LiveStates \union DeadStates
      /\ pc[j] = "redispatch" => r.state = rows[j].state
  BY <1>2 DEF Turn
<1>6. /\ rows'[j] = r /\ pc'[j] = a
      /\ \A i \in Jobs \ {j} : rows'[i] = rows[i] /\ pc'[i] = pc[i]
  BY <1>1, <1>4 DEF RowsOK, RunsOfLiveJobs
<1>7. RowsOK'
  BY <1>1, <1>4, <1>5 DEF RowsOK, Evolves
<1>8. RunsOfLiveJobs'
  <2>1. pc' \in [Jobs -> Awaits \union {"idle", "returned"}]
    BY <1>1, <1>4, <1>5 DEF RunsOfLiveJobs
  <2>2. \A i \in Jobs : pc'[i] \in Working => rows'[i].state \in LiveStates \union DeadStates
    BY <1>1, <1>5, <1>6 DEF RunsOfLiveJobs
  <2> QED
    BY <2>1, <2>2 DEF RunsOfLiveJobs
<1>9. Claimed'
  <2>1. pc[j] # "idle"
    BY <1>3 DEF Awaits
  <2> QED
    BY <1>1, <1>4, <1>6, <2>1 DEF Claimed
<1>10. HandoffsOK'
  BY <1>1, <1>4 DEF HandoffsOK
<1>11. \A i \in Jobs : Dead(rows[i]) => rows'[i].state = rows[i].state
  BY <1>5, <1>6 DEF Evolves
<1>12. PausedIsQuiet => PausedIsQuiet'
  <2> SUFFICES ASSUME paused, \A i \in Jobs : rows[i].state \notin LiveStates
               PROVE  r.state \notin LiveStates
    BY <1>4, <1>6 DEF PausedIsQuiet
  <2>1. pc[j] = "redispatch" \/ Dead(rows[j])
    BY <1>1, <1>3 DEF RunsOfLiveJobs, Working, Dead
  <2> QED
    BY <1>5, <2>1 DEF Evolves
<1> QED
  BY <1>4, <1>7, <1>8, <1>9, <1>10, <1>11, <1>12 DEF Effect

LEMMA ReleaseEffect == ASSUME ServiceInv, NEW j \in Jobs, Release(j) PROVE Effect
<1>1. j \in queue.active
  BY DEF ServiceInv, Claimed, Release
<1>2. Finish(j)
  BY <1>1 DEF Release, Commit, Finish
<1>3. QueueNext
  BY <1>2 DEF QueueNext
<1>4. HandoffsOK' /\ Prepared(rows) /\ paused' = paused
  BY RowsPrepared DEF Release, ServiceInv, HandoffsOK
<1> QED
  BY <1>3, <1>4, CommitsEffect DEF Release

LEMMA CrashEffect == ASSUME ServiceInv, Crash PROVE Effect
<1>1. /\ rows' = rows /\ paused' = paused /\ queue' = Stopped /\ queue.started
      /\ pc' = [j \in Jobs |-> "idle"] /\ handoffs' = {}
  BY DEF Crash, Serving, durable
<1>2. "idle" \notin Working
  BY DEF Working, Awaits
<1>3. RowsOK' /\ RunsOfLiveJobs' /\ Claimed' /\ HandoffsOK'
  BY <1>1, <1>2 DEF ServiceInv, RowsOK, RunsOfLiveJobs, Claimed, HandoffsOK
<1>4. QueueNext
  BY <1>1 DEF Die, QueueNext
<1> QED
  BY <1>1, <1>3, <1>4 DEF Effect, PausedIsQuiet

LEMMA BootEffect == ASSUME ServiceInv, Boot PROVE Effect
<1> DEFINE interrupted == {j \in Jobs : Active(rows[j])}
           reset == [j \in Jobs |-> IF j \in interrupted THEN [rows[j] EXCEPT !.state = "queued"] ELSE rows[j]]
<1>1. PICK order \in SetToSeqs(interrupted) :
        Commit(reset, Pumped([pending |-> order, active |-> {}, started |-> TRUE]), {})
  BY DEF Boot
<1>2. ~queue.started /\ UNCHANGED handoffs /\ paused' = paused
  BY DEF Boot
<1>3. \A j \in Jobs : pc[j] \notin Working
  BY <1>2 DEF ServiceInv, IInv, Stopped, Claimed, Working, Awaits
<1>4. \A j \in Jobs : rows[j] \in Rows
  BY DEF ServiceInv, RowsOK
<1>5. \A j \in Jobs : [rows[j] EXCEPT !.state = "queued"] \in Rows /\ [rows[j] EXCEPT !.state = "queued"].state = "queued"
  BY <1>4 DEF Rows, ActiveStates
<1>6. Prepared(reset)
  <2>1. reset \in [Jobs -> Rows]
    BY <1>4, <1>5
  <2>2. \A j \in Jobs : IF Active(rows[j]) THEN reset[j].state = "queued" ELSE reset[j] = rows[j]
    BY <1>5
  <2> HIDE DEF reset
  <2> QED
    BY <1>3, <2>1, <2>2 DEF Prepared, Dead, DeadStates, LiveStates, Active, ActiveStates
<1>7. Starts
  <2>1. Start(order)
    BY <1>1, <1>2 DEF Commit, Start
  <2>2. interrupted \in SUBSET Jobs
    OBVIOUS
  <2> QED
    BY <2>1, <2>2 DEF Starts
<1>8. QueueNext /\ HandoffsOK'
  BY <1>2, <1>7 DEF QueueNext, ServiceInv, HandoffsOK
<1> HIDE DEF reset
<1> QED
  BY <1>1, <1>2, <1>6, <1>8, CommitsEffect

LEMMA NextEffect == ServiceInv /\ [Next]_vars => Effect /\ ServiceInv'
<1> SUFFICES ASSUME ServiceInv, [Next]_vars PROVE Effect /\ ServiceInv'
  OBVIOUS
<1>1. Effect
  <2>1. CASE Requests
    BY <2>1, RequestsEffect
  <2>2. ASSUME NEW t \in handoffs, Dispatch(t) PROVE Effect
    BY <2>2, DispatchEffect
  <2>3. ASSUME NEW j \in Jobs, Step(j) PROVE Effect
    BY <2>3, StepEffect
  <2>4. ASSUME NEW j \in Jobs, Release(j) PROVE Effect
    BY <2>4, ReleaseEffect
  <2>5. CASE Crash
    BY <2>5, CrashEffect
  <2>6. CASE Boot
    BY <2>6, BootEffect
  <2>7. CASE UNCHANGED vars
    BY <2>7 DEF vars, Effect, ServiceInv, RowsOK, RunsOfLiveJobs, Claimed, HandoffsOK, PausedIsQuiet
  <2> QED
    BY <2>1, <2>2, <2>3, <2>4, <2>5, <2>6, <2>7 DEF Next
<1>2. IInv'
  BY <1>1, NextPreserves DEF Effect, ServiceInv
<1> QED
  BY <1>1, <1>2 DEF Effect, ServiceInv

LEMMA InitOK == Init => ServiceInv /\ PausedIsQuiet
<1> SUFFICES ASSUME Init PROVE ServiceInv /\ PausedIsQuiet
  OBVIOUS
<1> DEFINE p == CHOOSE p \in Pulls : TRUE
           h == CHOOSE h \in Heads : TRUE
           r == [NewRow(p, h) EXCEPT !.state = "absent"]
<1>1. p \in Pulls /\ h \in Heads
  BY ServiceAssumption
<1>2. rows = [j \in Jobs |-> r] /\ pc = [j \in Jobs |-> "idle"] /\ handoffs = {} /\ queue = Stopped /\ paused = FALSE
  BY DEF Init
<1> HIDE DEF p, h
<1>3. r \in Rows /\ r.state = "absent"
  BY <1>1, NewRowTyped DEF Rows
<1> HIDE DEF r
<1>4. "idle" \notin Working /\ "absent" \notin LiveStates
  BY DEF Working, Awaits, LiveStates
<1>5. IInv
  BY <1>2, InitEstablishes DEF QueueInit
<1> QED
  BY <1>2, <1>3, <1>4, <1>5 DEF ServiceInv, RowsOK, RunsOfLiveJobs, Claimed, HandoffsOK, PausedIsQuiet

-----------------------------------------------------------------------------
(* Theorems *)

\* Rows, queue entries, hand-offs and runs are what their types say, and a run
\* works on a job that is live, or that died under it.
THEOREM ServiceInvariant == SafeSpec => []ServiceInv
  BY InitOK, NextEffect, PTL DEF SafeSpec

\* Refinement: whatever the handlers, the pipeline and the process do, the
\* queue inside the service takes only steps of JobQueue.  So what is proved
\* of JobQueue holds of it.
THEOREM QueueImplemented == SafeSpec => UsesQueue
<1>1. Init => QueueInit
  BY DEF Init, QueueInit
<1>2. ServiceInv /\ [Next]_vars => [QueueNext]_queue
  BY NextEffect DEF Effect
<1> QED
  BY <1>1, <1>2, ServiceInvariant, PTL DEF SafeSpec, UsesQueue, QueueSafeSpec

COROLLARY ServiceQueueSafe == SafeSpec => []QueueInv
  BY QueueImplemented, QueueSafe, PTL DEF UsesQueue

\* stale and cancelled are one-way (store.ts:1552), through every handler,
\* every turn of the pipeline and every restart.
THEOREM OneWay == SafeSpec => DeadStaysDead
<1>1. ServiceInv /\ [Next]_vars => [\A j \in Jobs : Dead(rows[j]) => rows'[j].state = rows[j].state]_vars
  BY NextEffect DEF Effect
<1> QED
  BY <1>1, ServiceInvariant, PTL DEF SafeSpec, DeadStaysDead

\* While the pause switch is on no job is live: what ran was cancelled with
\* the switch, and what is claimed later is cancelled at the claim.
THEOREM PauseHolds == SafeSpec => []PausedIsQuiet
<1>1. ServiceInv /\ PausedIsQuiet /\ [Next]_vars => PausedIsQuiet'
  BY NextEffect DEF Effect
<1> QED
  BY <1>1, InitOK, ServiceInvariant, PTL DEF SafeSpec

-----------------------------------------------------------------------------
(* One current job per pull *)

\* OneCurrentJob, of any table of rows.
Cur(rs) ==
  \A i, j \in Jobs :
    /\ i # j /\ rs[i].state # "absent" /\ rs[j].state # "absent"
    /\ rs[i].pull = rs[j].pull
    /\ rs[i].slot = "shared" /\ rs[j].slot = "shared"
    => Dead(rs[i]) \/ Dead(rs[j])

\* Nobody will work on a row that does not exist.
Known == /\ \A j \in Entries(queue) : Exists(j)
         /\ \A t \in handoffs : Exists(t.job)

IdentityInv == Known /\ Cur(rows)

\* Tables that differ in nothing that gives a job the shared slot.
Keeps(rs, ss) ==
  \A j \in Jobs :
    /\ rs[j].state = "absent" <=> ss[j].state = "absent"
    /\ ss[j].pull = rs[j].pull /\ ss[j].head = rs[j].head
    /\ ss[j].slot = "shared" => rs[j].slot = "shared"
    /\ Dead(rs[j]) => Dead(ss[j])

LEMMA KeepsCur == ASSUME NEW rs, NEW ss, Cur(rs), Keeps(rs, ss) PROVE Cur(ss)
  BY DEF Cur, Keeps

LEMMA KeepsTransitive ==
  ASSUME NEW rs, NEW ss, NEW ts, Keeps(rs, ss), Keeps(ss, ts) PROVE Keeps(rs, ts)
  BY DEF Keeps

\* A sweep or cancellation of jobs that exist.
LEMMA MovedKeeps ==
  ASSUME NEW rs \in [Jobs -> Rows], NEW S, NEW s \in DeadStates,
         \A j \in S \intersect Jobs : rs[j].state # "absent"
  PROVE  /\ Keeps(rs, Moved(rs, S, s))
         /\ Moved(rs, S, s) \in [Jobs -> Rows]
         /\ \A j \in S \intersect Jobs : Dead(Moved(rs, S, s)[j])
<1> DEFINE ms == Moved(rs, S, s)
<1>1. s \in States \ {"absent"}
  BY DEF States, TerminalStates, DeadStates
<1>2. \A j \in Jobs : ms[j] = IF j \in S THEN SetState(rs[j], s) ELSE rs[j]
  BY DEF Moved
<1>3. \A j \in Jobs : /\ Evolves(rs[j], SetState(rs[j], s))
                      /\ SetState(rs[j], s).state = IF Dead(rs[j]) THEN rs[j].state ELSE s
  BY <1>1, SetStateEvolves
<1>4. ms \in [Jobs -> Rows]
  BY <1>3 DEF Moved, Evolves
<1> HIDE DEF ms
<1>5. Keeps(rs, ms)
  BY <1>1, <1>2, <1>3 DEF Keeps, Evolves, Dead
<1>6. \A j \in S \intersect Jobs : Dead(ms[j])
  BY <1>1, <1>2, <1>3 DEF Dead
<1> QED
  BY <1>4, <1>5, <1>6 DEF ms

\* A commit changes no table in what it says of slots, as long as what it
\* claims exists.
LEMMA CommitIdentity ==
  ASSUME NEW rs \in [Jobs -> Rows], Cur(rs), NEW q, NEW S, Commit(rs, q, S), q.active \subseteq Jobs,
         \A j \in Entries(q) : j \in Jobs /\ rs[j].state # "absent",
         \A t \in handoffs' : t.job \in Jobs /\ rs[t.job].state # "absent"
  PROVE  IdentityInv'
<1> DEFINE claimed == q.active \ queue.active
<1>1. /\ rows' = [j \in Jobs |-> IF j \in claimed THEN Entered(rs[j]).row ELSE rs[j]]
      /\ queue' = q
  BY DEF Commit
<1>2. \A j \in Jobs : rs[j] \in Rows /\ Evolves(rs[j], Entered(rs[j]).row)
  BY EnteredEvolves
<1>3. \A j \in Jobs : \/ rows'[j] = rs[j]
                      \/ rows'[j] = Entered(rs[j]).row /\ j \in Entries(q)
  BY <1>1 DEF Entries
<1>4. Keeps(rs, rows')
  BY <1>2, <1>3 DEF Keeps, Evolves, Dead
<1>5. Cur(rows')
  BY <1>4, KeepsCur
<1>6. \A j \in Jobs : rs[j].state # "absent" => rows'[j].state # "absent"
  BY <1>4 DEF Keeps
<1>7. Known'
  BY <1>1, <1>6 DEF Known, Exists
<1> QED
  BY <1>5, <1>7 DEF IdentityInv

\* Most steps commit rows that keep every slot, and a queue that knows no job
\* it did not know but existing ones.
LEMMA KeepIdentity ==
  ASSUME ServiceInv, IdentityInv, NEW rs \in [Jobs -> Rows], Keeps(rows, rs),
         NEW q, NEW S, Commit(rs, q, S), Sound(q),
         Entries(q) \subseteq Entries(queue) \union {j \in Jobs : Exists(j)},
         handoffs' \subseteq handoffs
  PROVE  IdentityInv'
<1>1. Cur(rs)
  BY KeepsCur DEF IdentityInv
<1>2. q.active \subseteq Jobs /\ Entries(q) \subseteq Jobs
  <2>1. q.pending \in Seq(Jobs) /\ q.active \subseteq Jobs
    BY DEF Sound, Queues
  <2>2. ToSet(q.pending) \subseteq Jobs
    BY <2>1 DEF ToSet
  <2> QED
    BY <2>1, <2>2 DEF Entries
<1>3. \A j \in Jobs : Exists(j) => rs[j].state # "absent"
  BY DEF Keeps, Exists
<1>4. \A t \in handoffs : t.job \in Jobs /\ Exists(t.job)
  BY DEF ServiceInv, HandoffsOK, IdentityInv, Known
<1> QED
  BY <1>1, <1>2, <1>3, <1>4, CommitIdentity DEF IdentityInv, Known

LEMMA CancelAllIdentity ==
  ASSUME ServiceInv, IdentityInv, NEW S \in SUBSET Jobs, CancelAll(S), queue.started, UNCHANGED handoffs
  PROVE  IdentityInv'
<1> DEFINE hit == {j \in S : Active(rows[j])}
<1>1. Commit(Moved(rows, hit, "cancelled"), AbortedMany(queue, hit), hit)
  BY DEF CancelAll
<1>2. \A j \in hit : rows[j].state # "absent"
  BY DEF Active, ActiveStates, LiveStates
<1> HIDE DEF hit
<1>3. Keeps(rows, Moved(rows, hit, "cancelled")) /\ Moved(rows, hit, "cancelled") \in [Jobs -> Rows]
  BY <1>2, MovedKeeps DEF ServiceInv, RowsOK, DeadStates
<1>4. Sound(queue) /\ Busy(queue)
  BY DEF ServiceInv, IInv
<1>5. Sound(AbortedMany(queue, hit)) /\ Entries(AbortedMany(queue, hit)) \subseteq Entries(queue)
  BY <1>4, AbortedManySound DEF Entries
<1> QED
  BY <1>1, <1>3, <1>5, KeepIdentity

\* store.enqueue: the dedup lets a new row in only where the sweep has killed
\* every other holder of the slot.
LEMMA EnqueuePullIdentity ==
  ASSUME ServiceInv, IdentityInv, NEW rs \in [Jobs -> Rows], Keeps(rows, rs),
         NEW p \in Pulls, NEW h \in Heads, queue.started, EnqueuePull(rs, p, h)
  PROVE  IdentityInv'
<1> DEFINE stale == Swept(rs, p, h)
           swept == Moved(rs, stale, "stale")
<1>1. stale \subseteq Jobs /\ \A j \in stale : Exists(j) /\ rs[j].state # "absent"
  BY DEF Swept, Holders, JobsOf, Exists, Keeps
<1>2. /\ Keeps(rs, swept) /\ swept \in [Jobs -> Rows] /\ \A j \in stale : Dead(swept[j])
  <2> HIDE DEF stale
  <2> QED
    BY <1>1, MovedKeeps DEF DeadStates
<1>3. Keeps(rows, swept)
  BY <1>2, KeepsTransitive
<1>4. Sound(queue) /\ Busy(queue) /\ queue.active \subseteq Jobs
  BY DEF ServiceInv, IInv, Sound, Queues
<1>5. CASE \E j \in Holders(rs, p) : rs[j].head = h
  <2>1. Commit(swept, AbortedMany(queue, stale), stale) /\ UNCHANGED handoffs
    BY <1>5 DEF EnqueuePull
  <2> HIDE DEF stale, swept
  <2>2. Sound(AbortedMany(queue, stale)) /\ Entries(AbortedMany(queue, stale)) \subseteq Entries(queue)
    BY <1>4, AbortedManySound DEF Entries
  <2> QED
    BY <1>2, <1>3, <2>1, <2>2, KeepIdentity
<1>6. CASE ~ \E j \in Holders(rs, p) : rs[j].head = h
  <2>1. PICK n \in Jobs :
          /\ IsNext(n)
          /\ Commit([swept EXCEPT ![n] = NewRow(p, h)], queue, {})
          /\ handoffs' = handoffs \union {[job |-> n, stale |-> stale]}
    BY <1>6 DEF EnqueuePull
  <2> DEFINE ns == [swept EXCEPT ![n] = NewRow(p, h)]
  <2>2. \A j \in Jobs : Exists(j) /\ rows[j].pull = p /\ rs[j].slot = "shared" => j \in stale \/ Dead(rs[j])
    BY <1>6 DEF Swept, Holders, JobsOf
  <2>3. \A j \in Jobs : swept[j].state # "absent" /\ swept[j].pull = p /\ swept[j].slot = "shared" => Dead(swept[j])
    <3> SUFFICES ASSUME NEW j \in Jobs, swept[j].state # "absent", swept[j].pull = p, swept[j].slot = "shared"
                 PROVE  Dead(swept[j])
      OBVIOUS
    <3> HIDE DEF stale, swept
    <3>1. Exists(j) /\ rows[j].pull = p /\ rs[j].slot = "shared"
      BY <1>2, <1>3 DEF Keeps, Exists
    <3> QED
      BY <1>2, <2>2, <3>1 DEF Keeps
  <2> HIDE DEF stale, swept
  <2>4. NewRow(p, h) \in Rows /\ NewRow(p, h).state = "queued" /\ NewRow(p, h).pull = p
    BY NewRowTyped
  <2>5. ns \in [Jobs -> Rows] /\ ns[n] = NewRow(p, h) /\ \A j \in Jobs \ {n} : ns[j] = swept[j]
    BY <1>2, <2>4
  <2> HIDE DEF ns
  <2>6. Cur(swept)
    BY <1>3, KeepsCur DEF IdentityInv
  <2>7. Cur(ns)
    BY <2>3, <2>4, <2>5, <2>6 DEF Cur
  <2>8. \A j \in Jobs : Exists(j) => ns[j].state # "absent"
    BY <1>3, <2>4, <2>5 DEF Keeps, Exists
  <2>9. Commit(ns, queue, {})
    BY <2>1 DEF ns
  <2>10. \A j \in Entries(queue) : j \in Jobs /\ ns[j].state # "absent"
    <3>1. Entries(queue) \subseteq Jobs
      <4>1. queue.pending \in Seq(Jobs)
        BY <1>4 DEF Sound, Queues
      <4> QED
        BY <1>4, <4>1 DEF Entries, ToSet
    <3> QED
      BY <2>8, <3>1 DEF IdentityInv, Known
  <2>11. \A t \in handoffs' : t.job \in Jobs /\ ns[t.job].state # "absent"
    BY <2>1, <2>4, <2>5, <2>8 DEF ServiceInv, HandoffsOK, IdentityInv, Known
  <2> QED
    BY <1>4, <2>5, <2>7, <2>9, <2>10, <2>11, CommitIdentity
<1> QED
  BY <1>5, <1>6

\* Rows that keep their slots, and one existing job given to the queue.
LEMMA EnqueueIdentity ==
  ASSUME ServiceInv, IdentityInv, NEW rs \in [Jobs -> Rows], Keeps(rows, rs), NEW j \in Jobs, Exists(j),
         queue.started, NEW q, q = Enqueued(queue, j) \/ \E T : q = AbortedMany(Enqueued(queue, j), T),
         NEW S, Commit(rs, q, S), handoffs' \subseteq handoffs
  PROVE  IdentityInv'
<1> DEFINE e == Enqueued(queue, j)
<1>1. Sound(queue) /\ Busy(queue)
  BY DEF ServiceInv, IInv
<1>2. Sound(e) /\ Busy(e) /\ Entries(e) \subseteq Entries(queue) \union {j}
  BY <1>1, EnqueuedSound, OperationEntries
<1> HIDE DEF e
<1>3. \A T : Sound(AbortedMany(e, T)) /\ Entries(AbortedMany(e, T)) \subseteq Entries(e)
  BY <1>2, AbortedManySound DEF Entries
<1>4. q = e \/ \E T : q = AbortedMany(e, T)
  BY DEF e
<1>5. Sound(q) /\ Entries(q) \subseteq Entries(queue) \union {j}
  BY <1>2, <1>3, <1>4
<1> QED
  BY <1>5, KeepIdentity

LEMMA StepIdentity == ASSUME ServiceInv, IdentityInv, NEW j \in Jobs, Step(j) PROVE IdentityInv'
<1>1. RowsOK /\ RunsOfLiveJobs /\ Claimed
  BY DEF ServiceInv
<1>2. PICK r, a : Turn(j, r, a)
  BY <1>1, StepTurns
<1>3. rows[j].state # "absent"
  <2>1. pc[j] # "idle"
    BY <1>1, StepTurns DEF Awaits
  <2> QED
    BY <1>1, <2>1 DEF Claimed, IdentityInv, Known, Entries, Exists
<1>4. rows' = [rows EXCEPT ![j] = r] /\ UNCHANGED <<queue, handoffs>> /\ Evolves(rows[j], r)
  BY <1>2 DEF Turn, Goes
<1>5. rows'[j] = r /\ \A i \in Jobs \ {j} : rows'[i] = rows[i]
  BY <1>1, <1>4 DEF RowsOK
<1>6. Keeps(rows, rows')
  BY <1>3, <1>4, <1>5 DEF Keeps, Evolves, Dead
<1>7. Cur(rows')
  BY <1>6, KeepsCur DEF IdentityInv
<1>8. Known'
  <2>1. \A i \in Jobs : Exists(i) => Exists(i)'
    BY <1>6 DEF Keeps, Exists
  <2>2. Entries(queue) \subseteq Jobs
    <3>1. queue.pending \in Seq(Jobs) /\ queue.active \subseteq Jobs
      BY DEF ServiceInv, IInv, Sound, Queues
    <3> QED
      BY <3>1 DEF Entries, ToSet
  <2> QED
    BY <1>4, <2>1, <2>2 DEF Known, ServiceInv, HandoffsOK, IdentityInv
<1> QED
  BY <1>7, <1>8 DEF IdentityInv

LEMMA RequestsIdentity == ServiceInv /\ IdentityInv /\ Requests => IdentityInv'
<1> SUFFICES ASSUME ServiceInv, IdentityInv, Requests PROVE IdentityInv'
  OBVIOUS
<1>0. rows \in [Jobs -> Rows] /\ Keeps(rows, rows) /\ \A j \in Jobs : rows[j] \in Rows
  BY DEF ServiceInv, RowsOK, Keeps
<1>1. ASSUME NEW p \in Pulls, NEW h \in Heads, Push(p, h) PROVE IdentityInv'
  BY <1>0, <1>1, EnqueuePullIdentity DEF Push, Serving
<1>2. ASSUME NEW p \in Pulls, NEW h \in Heads, ReReview(p, h) PROVE IdentityInv'
  <2> DEFINE occupant == {j \in Holders(rows, p) : rows[j].head = h}
             rekeyed  == [j \in Jobs |-> IF j \in occupant THEN [rows[j] EXCEPT !.slot = "aside"] ELSE rows[j]]
  <2>1. \A j \in Jobs :
          LET r == [rows[j] EXCEPT !.slot = "aside"]
          IN  /\ r \in Rows /\ r.state = rows[j].state /\ r.pull = rows[j].pull
              /\ r.head = rows[j].head /\ r.slot = "aside"
    BY <1>0 DEF Rows
  <2>2. EnqueuePull(rekeyed, p, h) /\ queue.started
    BY <1>2 DEF ReReview, Serving
  <2> HIDE DEF occupant
  <2>3. /\ rekeyed \in [Jobs -> Rows]
        /\ \A j \in Jobs : /\ rekeyed[j].state = rows[j].state /\ rekeyed[j].pull = rows[j].pull
                           /\ rekeyed[j].head = rows[j].head
                           /\ rekeyed[j].slot = "shared" => rows[j].slot = "shared"
    BY <1>0, <2>1
  <2> HIDE DEF rekeyed
  <2>4. Keeps(rows, rekeyed)
    BY <2>3 DEF Keeps, Dead
  <2> QED
    BY <2>2, <2>3, <2>4, EnqueuePullIdentity
<1>3. ASSUME NEW p \in Pulls, Escalate(p) PROVE IdentityInv'
  <2>1. PICK j \in JobsOf(p) : Commit([rows EXCEPT ![j].manual = TRUE], Enqueued(queue, j), {})
    BY <1>3 DEF Escalate
  <2>2. j \in Jobs /\ Exists(j) /\ queue.started /\ UNCHANGED handoffs
    BY <1>3 DEF JobsOf, Escalate, Serving
  <2> DEFINE r  == [rows[j] EXCEPT !.manual = TRUE]
             rs == [rows EXCEPT ![j] = r]
  <2>3. r \in Rows /\ r.state = rows[j].state /\ r.pull = rows[j].pull /\ r.head = rows[j].head /\ r.slot = rows[j].slot
    BY <1>0, <2>2 DEF Rows
  <2>4. Commit(rs, Enqueued(queue, j), {})
    BY <1>0, <2>1
  <2> HIDE DEF r
  <2>5. rs \in [Jobs -> Rows] /\ rs[j] = r /\ \A i \in Jobs \ {j} : rs[i] = rows[i]
    BY <1>0, <2>2, <2>3
  <2> HIDE DEF rs
  <2>6. Keeps(rows, rs)
    BY <2>3, <2>5 DEF Keeps, Dead
  <2> QED
    BY <2>2, <2>4, <2>5, <2>6, EnqueueIdentity
<1>4. ASSUME NEW p \in Pulls, Merge(p) PROVE IdentityInv'
  <2>1. JobsOf(p) \in SUBSET Jobs
    BY DEF JobsOf
  <2> QED
    BY <1>4, <2>1, CancelAllIdentity DEF Merge, Serving
<1>5. ASSUME NEW j \in Jobs, Retry(j) PROVE IdentityInv'
  <2>1. PICK again : Commit([rows EXCEPT ![j] = Retried(rows[j], again)], Enqueued(queue, j), {})
    BY <1>5 DEF Retry
  <2> DEFINE r  == Retried(rows[j], again)
             rs == [rows EXCEPT ![j] = r]
  <2>2. rows[j].state \in {"completed", "failed"} /\ queue.started /\ UNCHANGED handoffs
    BY <1>5 DEF Retry, Serving
  <2>3. Commit(rs, Enqueued(queue, j), {})
    BY <1>0, <2>1
  <2>4. r \in Rows /\ r.state = "queued" /\ r.pull = rows[j].pull /\ r.head = rows[j].head /\ r.slot = rows[j].slot
    BY <1>0, <1>5, RetryTyped DEF Retry
  <2> HIDE DEF r
  <2>5. rs \in [Jobs -> Rows] /\ rs[j] = r /\ \A i \in Jobs \ {j} : rs[i] = rows[i]
    BY <1>0, <2>4
  <2> HIDE DEF rs
  <2>6. Keeps(rows, rs) /\ Exists(j)
    BY <2>2, <2>4, <2>5 DEF Keeps, Dead, DeadStates, Exists
  <2> QED
    BY <2>2, <2>3, <2>5, <2>6, EnqueueIdentity
<1>6. ASSUME NEW j \in Jobs, Cancel(j) PROVE IdentityInv'
  BY <1>6, CancelAllIdentity DEF Cancel, Serving
<1>7. CASE Pause
  BY <1>7, CancelAllIdentity DEF Pause, Serving
<1>8. CASE Resume
  BY <1>8 DEF Resume, IdentityInv, Known, Exists
<1> QED
  BY <1>1, <1>2, <1>3, <1>4, <1>5, <1>6, <1>7, <1>8 DEF Requests

LEMMA NextIdentity == ServiceInv /\ IdentityInv /\ [Next]_vars => IdentityInv'
<1> SUFFICES ASSUME ServiceInv, IdentityInv, [Next]_vars PROVE IdentityInv'
  OBVIOUS
<1>0. /\ rows \in [Jobs -> Rows] /\ Keeps(rows, rows) /\ \A j \in Jobs : rows[j] \in Rows
      /\ Sound(queue)
  BY DEF ServiceInv, RowsOK, Keeps, IInv
<1>1. CASE Requests
  BY <1>1, RequestsIdentity
<1>2. ASSUME NEW t \in handoffs, Dispatch(t) PROVE IdentityInv'
  <2>1. t.job \in Jobs /\ Exists(t.job) /\ queue.started /\ handoffs' \subseteq handoffs
    BY <1>2 DEF ServiceInv, HandoffsOK, IdentityInv, Known, Dispatch, Serving
  <2>2. Commit(rows, AbortedMany(Enqueued(queue, t.job), t.stale), t.stale)
    BY <1>2 DEF Dispatch
  <2> QED
    BY <1>0, <2>1, <2>2, EnqueueIdentity
<1>3. ASSUME NEW j \in Jobs, Step(j) PROVE IdentityInv'
  BY <1>3, StepIdentity
<1>4. ASSUME NEW j \in Jobs, Release(j) PROVE IdentityInv'
  <2>1. j \in queue.active
    BY <1>4 DEF ServiceInv, Claimed, Release
  <2>2. queue.started /\ Busy(queue)
    BY <2>1 DEF ServiceInv, IInv, Stopped
  <2>3. Sound(Finished(queue, j)) /\ Entries(Finished(queue, j)) \subseteq Entries(queue)
    <3>1. Sound(Finished(queue, j))
      BY <1>0, <2>1, FinishedSound
    <3>2. Entries(Finished(queue, j)) = Entries(queue) \ {j}
      BY <1>0, <2>1, <2>2, OperationEntries
    <3> QED
      BY <3>1, <3>2
  <2>4. Commit(rows, Finished(queue, j), {}) /\ handoffs' \subseteq handoffs
    BY <1>4 DEF Release
  <2> QED
    BY <1>0, <2>3, <2>4, KeepIdentity
<1>5. CASE Crash
  <2>1. rows' = rows /\ queue' = Stopped /\ handoffs' = {}
    BY <1>5 DEF Crash, durable
  <2>2. Entries(Stopped) = {}
    BY DEF Entries, Stopped, ToSet
  <2> QED
    BY <2>1, <2>2 DEF IdentityInv, Known
<1>6. CASE Boot
  <2> DEFINE interrupted == {j \in Jobs : Active(rows[j])}
             reset == [j \in Jobs |-> IF j \in interrupted THEN [rows[j] EXCEPT !.state = "queued"] ELSE rows[j]]
  <2>1. PICK order \in SetToSeqs(interrupted) :
          Commit(reset, Pumped([pending |-> order, active |-> {}, started |-> TRUE]), {})
    BY <1>6 DEF Boot
  <2> DEFINE loaded == [pending |-> order, active |-> {}, started |-> TRUE]
  <2>2. \A j \in Jobs :
          LET r == [rows[j] EXCEPT !.state = "queued"]
          IN  /\ r \in Rows /\ r.state = "queued" /\ r.pull = rows[j].pull
              /\ r.head = rows[j].head /\ r.slot = rows[j].slot
    BY <1>0 DEF Rows, ActiveStates
  <2>3. \A j \in interrupted : rows[j].state # "absent" /\ ~Dead(rows[j])
    BY DEF Active, ActiveStates, LiveStates, Dead, DeadStates
  <2>4. interrupted \in SUBSET Jobs
    OBVIOUS
  <2>5. \A j \in interrupted : Exists(j)
    BY <2>3 DEF Exists
  <2>6. handoffs' \subseteq handoffs
    BY <1>6 DEF Boot
  <2> HIDE DEF interrupted
  <2>7. reset \in [Jobs -> Rows] /\ Keeps(rows, reset)
    BY <1>0, <2>2, <2>3 DEF Keeps, Dead
  <2>8. Sound(loaded) /\ ToSet(order) \subseteq interrupted
    BY <2>4, LoadedSound
  <2>9. Sound(Pumped(loaded)) /\ Entries(Pumped(loaded)) \subseteq Entries(loaded)
    BY <2>8, PumpedSound, PumpedEntries
  <2>10. Entries(loaded) \subseteq {j \in Jobs : Exists(j)}
    BY <2>4, <2>5, <2>8 DEF Entries
  <2> HIDE DEF reset, loaded
  <2>11. Commit(reset, Pumped(loaded), {})
    BY <2>1 DEF reset, loaded
  <2> QED
    BY <2>6, <2>7, <2>9, <2>10, <2>11, KeepIdentity
<1>7. CASE UNCHANGED vars
  BY <1>7 DEF vars, IdentityInv, Known, Exists
<1> QED
  BY <1>1, <1>2, <1>3, <1>4, <1>5, <1>6, <1>7 DEF Next

\* At most one job of a pull's shared slot is not dead, whatever order heads
\* are delivered in, with re-reviews, retries, crashes and restarts between.
THEOREM OneCurrent == SafeSpec => []OneCurrentJob
<1>1. Init => IdentityInv
  <2> SUFFICES ASSUME Init PROVE IdentityInv
    OBVIOUS
  <2>1. queue = Stopped /\ handoffs = {}
    BY DEF Init
  <2>2. Entries(Stopped) = {}
    BY DEF Entries, Stopped, ToSet
  <2>3. \A j \in Jobs : rows[j].state = "absent"
    BY DEF Init, NewRow
  <2> QED
    BY <2>1, <2>2, <2>3 DEF IdentityInv, Known, Cur
<1>2. IdentityInv => OneCurrentJob
  BY DEF IdentityInv, Cur, OneCurrentJob, Exists
<1> QED
  BY <1>1, <1>2, NextIdentity, ServiceInvariant, PTL DEF SafeSpec
=============================================================================

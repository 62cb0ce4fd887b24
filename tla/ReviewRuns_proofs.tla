------------------------- MODULE ReviewRuns_proofs -------------------------
(***************************************************************************)
(* What holds of the review service for every number of pulls, heads, jobs *)
(* and slots, of runs and what they leave behind: rows agree with runs,    *)
(* attempts end whole, merged pulls are quiet, a head gets one review.     *)
(***************************************************************************)
EXTENDS ReviewService_proofs

-----------------------------------------------------------------------------
(* A row and the place of its run *)

\* The stages after the reviewers.
Past == {"aggregate", "sniff", "summaries", "post", "repost", "refresh", "closing", "dispatch"}

Quiet(r) == LiveRuns(r) = {}

\* Ended jobs and jobs past their reviewers have no reviewer at work.
Fits(r, a) == Terminal(r) \/ a \in Past => Quiet(r)

\* One summary line per attempt that ended.
Told(r) == r.lines = IF Terminal(r) THEN 1 ELSE 0

\* Without the escalate command: no page is asked for, and what returns has ended.
Neat(r, a) ==
  /\ Told(r) /\ ~r.manual /\ a # "redispatch"
  /\ a = "returned" => Terminal(r)

\* Waiting for its turn, or dead while it waited.
Due(r) == r.state = "queued" \/ Dead(r)

LEMMA StateSets ==
  /\ DeadStates = {"stale", "cancelled"}
  /\ TerminalStates = {"completed", "failed", "stale", "cancelled"}
  /\ LiveStates = {"preparing", "reconciling", "routing", "reviewing", "aggregating", "sniffing", "publishing"}
  /\ ActiveStates = LiveStates \union {"queued"}
  /\ States = {"absent"} \union ActiveStates \union TerminalStates
  BY DEF DeadStates, TerminalStates, LiveStates, ActiveStates, States

LEMMA RowFields ==
  ASSUME NEW r \in Rows
  PROVE  /\ r.state \in States /\ r.pull \in Pulls /\ r.head \in Heads /\ r.slot \in {"shared", "aside"}
         /\ r.runs \in [Roles -> RunStates] /\ r.retries \in 0..MaxRetries /\ r.lines \in 0..2
         /\ r.reviewed \in BOOLEAN /\ r.manual \in BOOLEAN /\ r.paged \in BOOLEAN
  BY DEF Rows, States

\* Rows that differ in their state, reviewers and lines at most.
Akin(r, t) ==
  /\ t \in Rows
  /\ t.pull = r.pull /\ t.head = r.head /\ t.slot = r.slot /\ t.retries = r.retries
  /\ t.reviewed = r.reviewed /\ t.manual = r.manual /\ t.paged = r.paged

\* setJobState of a job that is not dead, field by field.
LEMMA SetStateFields ==
  ASSUME NEW r \in Rows, NEW s \in States \ {"absent"}, ~Dead(r)
  PROVE  /\ Akin(r, SetState(r, s))
         /\ SetState(r, s).state = s
         /\ SetState(r, s).runs = IF s \in DeadStates THEN EndRuns(r, s) ELSE r.runs
         /\ SetState(r, s).lines = IF s \in TerminalStates /\ ~Terminal(r) /\ r.lines < 2
                                   THEN r.lines + 1 ELSE r.lines
<1> DEFINE f == IF s \in DeadStates THEN EndRuns(r, s) ELSE r.runs
           n == IF s \in TerminalStates /\ ~Terminal(r) /\ r.lines < 2 THEN r.lines + 1 ELSE r.lines
           t == [r EXCEPT !.state = s, !.runs = f, !.lines = n]
<1>1. SetState(r, s) = t
  BY DEF SetState
<1>2. f \in [Roles -> RunStates]
  BY RunsTyped DEF Rows, RunStates, DeadStates
<1>3. n \in 0..2
  BY DEF Rows
<1> HIDE DEF f, n
<1>4. /\ t \in Rows /\ t.state = s /\ t.runs = f /\ t.lines = n
      /\ t.pull = r.pull /\ t.head = r.head /\ t.slot = r.slot /\ t.retries = r.retries
      /\ t.reviewed = r.reviewed /\ t.manual = r.manual /\ t.paged = r.paged
  BY <1>2, <1>3 DEF Rows, States
<1> HIDE DEF t
<1> QED
  BY <1>1, <1>4 DEF f, n, Akin

LEMMA SetDead == ASSUME NEW r, Dead(r), NEW s PROVE SetState(r, s) = r
  BY DEF SetState

\* A write of the reviewer runs alone.
LEMMA RunsWritten ==
  ASSUME NEW r \in Rows, NEW f \in [Roles -> RunStates]
  PROVE  LET t == [r EXCEPT !.runs = f]
         IN  Akin(r, t) /\ t.state = r.state /\ t.runs = f /\ t.lines = r.lines
  BY DEF Rows, Akin

LEMMA EndedQuiet ==
  ASSUME NEW r \in Rows, NEW t, NEW s, s # "live", t.runs = EndRuns(r, s)
  PROVE  Quiet(t)
  BY DEF Quiet, LiveRuns, EndRuns

LEMMA QuietRuns ==
  ASSUME NEW r, NEW t, t.runs = r.runs
  PROVE  Quiet(t) <=> Quiet(r)
  BY DEF Quiet, LiveRuns

\* The catch block's failure, and the refusal at the claim: the reviewers that
\* had not finished fail with the job.
LEMMA FailedFields ==
  ASSUME NEW r \in Rows, ~Dead(r)
  PROVE  LET t == SetState([r EXCEPT !.runs = EndRuns(r, "failed")], "failed")
         IN  /\ Akin(r, t) /\ t.state = "failed" /\ Quiet(t)
             /\ t.lines = IF ~Terminal(r) /\ r.lines < 2 THEN r.lines + 1 ELSE r.lines
<1> DEFINE f == EndRuns(r, "failed")
           e == [r EXCEPT !.runs = f]
<1>1. f \in [Roles -> RunStates]
  BY RunsTyped DEF RunStates
<1>2. Quiet(e)
  <2>1. e.runs = f
    BY <1>1, RunsWritten
  <2> QED
    BY <2>1, EndedQuiet
<1> HIDE DEF f
<1>3. Akin(r, e) /\ e.state = r.state /\ e.lines = r.lines
  BY <1>1, RunsWritten
<1> HIDE DEF e
<1>4. e \in Rows /\ ~Dead(e) /\ (Terminal(e) <=> Terminal(r))
  BY <1>3 DEF Akin, Dead, Terminal
<1>5. "failed" \in States \ {"absent"} /\ "failed" \notin DeadStates /\ "failed" \in TerminalStates
  BY StateSets
<1> DEFINE t == SetState(e, "failed")
<1>6. /\ Akin(e, t) /\ t.state = "failed" /\ t.runs = e.runs
      /\ t.lines = IF ~Terminal(e) /\ e.lines < 2 THEN e.lines + 1 ELSE e.lines
  BY <1>4, <1>5, SetStateFields
<1> HIDE DEF t
<1>7. Quiet(t) /\ Akin(r, t)
  BY <1>2, <1>3, <1>6, QuietRuns DEF Akin
<1>8. t.lines = IF ~Terminal(r) /\ r.lines < 2 THEN r.lines + 1 ELSE r.lines
  BY <1>3, <1>4, <1>6
<1> QED
  BY <1>6, <1>7, <1>8 DEF t, e, f

\* Entering a dead state: reviewers are retired with the job.
LEMMA DiedFields ==
  ASSUME NEW r \in Rows, ~Dead(r), NEW s \in DeadStates
  PROVE  /\ Akin(r, SetState(r, s)) /\ SetState(r, s).state = s /\ Quiet(SetState(r, s))
         /\ SetState(r, s).lines = IF ~Terminal(r) /\ r.lines < 2 THEN r.lines + 1 ELSE r.lines
<1>1. s \in States \ {"absent"} /\ s \in TerminalStates /\ s # "live"
  BY StateSets
<1>2. /\ Akin(r, SetState(r, s)) /\ SetState(r, s).state = s
      /\ SetState(r, s).runs = EndRuns(r, s)
      /\ SetState(r, s).lines = IF ~Terminal(r) /\ r.lines < 2 THEN r.lines + 1 ELSE r.lines
  BY <1>1, SetStateFields
<1> QED
  BY <1>1, <1>2, EndedQuiet

\* Told survives the end of a job that was not over.
LEMMA ToldEnds ==
  ASSUME NEW r \in Rows, NEW t, Terminal(t),
         t.lines = IF ~Terminal(r) /\ r.lines < 2 THEN r.lines + 1 ELSE r.lines,
         Told(r)
  PROVE  Told(t)
  BY RowFields DEF Told

-----------------------------------------------------------------------------
(* The claim: the synchronous head of run() *)

\* What a claim leaves of a row r, t, and where its run is then, a.
Claimable(r, t, a) ==
  /\ t \in Rows /\ t.reviewed = r.reviewed /\ t.manual = r.manual /\ t.state # "queued"
  /\ a \in {"returned", "redispatch", "checkout"}
  /\ (Terminal(r) => Quiet(r)) => Fits(t, a)
  /\ Told(r) /\ ~r.manual /\ Due(r) => Neat(t, a)
  /\ a = "checkout" => t.state = "preparing" /\ ~paused
  /\ t.state \in LiveStates => a = "checkout" \/ r.state \in LiveStates
  /\ a = "redispatch" => r.state = "completed" /\ r.reviewed /\ t = r
  /\ Due(r) /\ Active(t) => Active(r)

LEMMA EnteredFields == ASSUME NEW r \in Rows PROVE Claimable(r, Entered(r).row, Entered(r).at)
<1>0. {"returned", "redispatch", "checkout"} \intersect Past = {}
  BY DEF Past
<1>1. CASE paused /\ Active(r)
  <2>1. ~Dead(r) /\ ~Terminal(r) /\ "cancelled" \in DeadStates
    BY <1>1, StateSets DEF Active, Dead, Terminal
  <2> DEFINE t == SetState(r, "cancelled")
  <2>2. Entered(r) = [row |-> t, at |-> "returned"]
    BY <1>1 DEF Entered
  <2>3. /\ Akin(r, t) /\ t.state = "cancelled" /\ Quiet(t)
        /\ t.lines = IF ~Terminal(r) /\ r.lines < 2 THEN r.lines + 1 ELSE r.lines
    BY <2>1, DiedFields
  <2> HIDE DEF t
  <2>4. Terminal(t) /\ ~Active(t) /\ t.state \notin LiveStates
    BY <2>3, StateSets DEF Terminal, Active
  <2>5. Told(r) => Told(t)
    BY <2>3, <2>4, ToldEnds
  <2> QED
    BY <2>2, <2>3, <2>4, <2>5 DEF Claimable, Akin, Fits, Neat
<1>2. CASE (paused /\ ~Active(r)) \/ (~paused /\ Dead(r))
  <2>1. Entered(r) = [row |-> r, at |-> "returned"]
    BY <1>2 DEF Entered
  <2>2. ~Active(r) /\ r.state # "queued" /\ r.state \notin LiveStates
    BY <1>2, StateSets DEF Active, Dead
  <2>3. Due(r) => Terminal(r)
    BY <2>2, StateSets DEF Due, Dead, Terminal
  <2> QED
    BY <1>0, <2>1, <2>2, <2>3 DEF Claimable, Fits, Neat
<1>3. CASE ~paused /\ ~Dead(r) /\ r.state = "completed"
  <2>1. /\ Entered(r).row = r
        /\ Entered(r).at = IF OwesPage(r) THEN "redispatch" ELSE "returned"
    BY <1>3 DEF Entered
  <2>2. OwesPage(r) => r.manual /\ r.reviewed
    BY DEF OwesPage, MayPage
  <2>3. ~Active(r) /\ Terminal(r) /\ r.state # "queued" /\ r.state \notin LiveStates
    BY <1>3, StateSets DEF Active, Terminal
  <2> QED
    BY <1>0, <1>3, <2>1, <2>2, <2>3 DEF Claimable, Fits, Neat
<1>4. CASE ~paused /\ ~Dead(r) /\ r.state # "completed" /\ r.pull \in allowed
  <2> DEFINE t == SetState(r, "preparing")
  <2>1. Entered(r) = [row |-> t, at |-> "checkout"]
    BY <1>4 DEF Entered
  <2>2. "preparing" \in States \ {"absent"} /\ "preparing" \notin DeadStates /\ "preparing" \notin TerminalStates
    BY StateSets
  <2>3. Akin(r, t) /\ t.state = "preparing" /\ t.runs = r.runs /\ t.lines = r.lines
    BY <1>4, <2>2, SetStateFields
  <2> HIDE DEF t
  <2>4. ~Terminal(t) /\ (Due(r) => Active(r) /\ ~Terminal(r))
    BY <1>4, <2>3, StateSets DEF Terminal, Due, Active, Dead
  <2>5. Told(r) /\ Due(r) => Told(t)
    BY <2>3, <2>4 DEF Told
  <2> QED
    BY <1>0, <1>4, <2>1, <2>3, <2>4, <2>5 DEF Claimable, Akin, Fits, Neat
<1>5. CASE ~paused /\ ~Dead(r) /\ r.state # "completed" /\ r.pull \notin allowed
  <2> DEFINE t == SetState([r EXCEPT !.runs = EndRuns(r, "failed")], "failed")
  <2>1. Entered(r) = [row |-> t, at |-> "returned"]
    BY <1>5 DEF Entered
  <2>2. /\ Akin(r, t) /\ t.state = "failed" /\ Quiet(t)
        /\ t.lines = IF ~Terminal(r) /\ r.lines < 2 THEN r.lines + 1 ELSE r.lines
    BY <1>5, FailedFields
  <2> HIDE DEF t
  <2>3. Terminal(t) /\ ~Active(t) /\ t.state \notin LiveStates
    BY <2>2, StateSets DEF Terminal, Active
  <2>4. Told(r) => Told(t)
    BY <2>2, <2>3, ToldEnds
  <2> QED
    BY <2>1, <2>2, <2>3, <2>4 DEF Claimable, Akin, Fits, Neat
<1> QED
  BY <1>1, <1>2, <1>3, <1>4, <1>5

-----------------------------------------------------------------------------
(* A turn of a run: from row r at b to row t at a *)

Leg(r, b, signal, t, a) ==
  /\ b \in Awaits /\ a \in (Awaits \ {"checkout", "redispatch"}) \union {"returned"}
  /\ t.manual = r.manual
  /\ Fits(r, b) => Fits(t, a)
  /\ Neat(r, b) => Neat(t, a)
  /\ a = "returned" /\ (b = "redispatch" => r.state \notin LiveStates) => t.state \notin LiveStates
  /\ Dead(t) /\ ~Dead(r) => signal /\ a = "returned"
  /\ Active(t) => Active(r)
  /\ a \in {"post", "repost", "closing", "dispatch"} => t = r
  /\ a = "dispatch" => ~Dead(r) /\ r.reviewed

\* A row a run works on, and what it may have added before it looks at it again.
Worked(r) == r \in Rows /\ r.state \in LiveStates \union DeadStates

Alike(r, e) ==
  /\ e \in Rows /\ e.state = r.state /\ e.lines = r.lines /\ e.manual = r.manual
  /\ Quiet(r) /\ Dead(r) => Quiet(e)

LEMMA UnwoundLeg ==
  ASSUME NEW r, Worked(r), NEW e, Alike(r, e), NEW b \in Working, NEW signal \in BOOLEAN
  PROVE  Leg(r, b, signal, Unwound(e, signal), "returned")
<1>1. /\ b \in Awaits /\ b # "redispatch" /\ "returned" \notin Past /\ "returned" \notin Awaits
      /\ "returned" \notin {"post", "repost", "closing", "dispatch"}
  BY DEF Working, Awaits, Past
<1>2. CASE Dead(e)
  <2>1. Unwound(e, signal) = e /\ Dead(r) /\ Terminal(r) /\ Terminal(e) /\ ~Active(e) /\ e.state \notin LiveStates
    BY <1>2, SetDead, StateSets DEF Unwound, Alike, Dead, Terminal, Active
  <2> QED
    BY <1>1, <2>1 DEF Leg, Alike, Fits, Neat, Told
<1>3. CASE ~Dead(e)
  <2> DEFINE t == Unwound(e, signal)
  <2>1. /\ Akin(e, t) /\ Quiet(t)
        /\ t.lines = IF ~Terminal(e) /\ e.lines < 2 THEN e.lines + 1 ELSE e.lines
        /\ t.state = IF signal THEN "stale" ELSE "failed"
    <3>1. CASE signal
      BY <1>3, <3>1, DiedFields, StateSets DEF Unwound, Alike
    <3>2. CASE ~signal
      BY <1>3, <3>2, FailedFields DEF Unwound, Alike
    <3> QED
      BY <3>1, <3>2
  <2> HIDE DEF t
  <2>2. Terminal(t) /\ ~Active(t) /\ t.state \notin LiveStates /\ (Dead(t) => signal)
    BY <2>1, StateSets DEF Terminal, Active, Dead
  <2>3. Told(r) => Told(t)
    <3>1. Told(r) => Told(e)
      BY DEF Told, Alike, Terminal
    <3> QED
      BY <2>1, <2>2, <3>1, ToldEnds DEF Alike
  <2> QED
    BY <1>1, <2>1, <2>2, <2>3 DEF Leg, Alike, Akin, Fits, Neat, t
<1> QED
  BY <1>2, <1>3

\* On to the next stage of a job that is not dead.
LEMMA StageLeg ==
  ASSUME NEW r, Worked(r), ~Dead(r), NEW e, Alike(r, e), NEW b \in Working, NEW signal,
         NEW s \in LiveStates, NEW a \in Working \ {"checkout", "post", "repost", "closing", "dispatch"},
         a \in Past => (Fits(r, b) => Quiet(e))
  PROVE  Leg(r, b, signal, SetState(e, s), a)
<1> DEFINE t == SetState(e, s)
<1>1. /\ b \in Awaits /\ b # "redispatch" /\ a \in Awaits \ {"checkout", "redispatch"} /\ a # "returned"
  BY DEF Working, Awaits
<1>2. ~Dead(e) /\ s \in States \ {"absent"} /\ s \notin DeadStates /\ s \notin TerminalStates /\ e \in Rows
  BY StateSets DEF Alike, Dead
<1>3. Akin(e, t) /\ t.state = s /\ t.runs = e.runs /\ t.lines = e.lines
  BY <1>2, SetStateFields
<1> HIDE DEF t
<1>4. ~Terminal(t) /\ ~Dead(t) /\ Active(r) /\ ~Terminal(r) /\ (Quiet(t) <=> Quiet(e))
  BY <1>2, <1>3, QuietRuns, StateSets DEF Terminal, Dead, Active, Worked
<1>5. Told(r) => Told(t)
  BY <1>3, <1>4 DEF Told, Alike
<1> QED
  BY <1>1, <1>3, <1>4, <1>5 DEF Leg, Alike, Akin, Fits, Neat, t

\* The row keeps its state, and a run past its reviewers is not there sooner.
LEMMA StayLeg ==
  ASSUME NEW r, Worked(r), NEW e, Alike(r, e), NEW b \in Working, NEW signal,
         NEW a \in Working \ {"checkout"},
         a \in Past => b \in Past /\ (Quiet(r) => Quiet(e)),
         a \in {"post", "repost", "closing", "dispatch"} => e = r,
         a = "dispatch" => ~Dead(r) /\ r.reviewed
  PROVE  Leg(r, b, signal, e, a)
<1>1. /\ b \in Awaits /\ a \in Awaits \ {"checkout", "redispatch"} /\ a # "returned"
  BY DEF Working, Awaits
<1>2. /\ Dead(e) <=> Dead(r)
      /\ Active(e) <=> Active(r)
      /\ Terminal(e) <=> Terminal(r)
      /\ Terminal(r) => Dead(r)
      /\ Told(r) => Told(e)
  BY StateSets DEF Alike, Dead, Active, Terminal, Worked, Told
<1> QED
  BY <1>1, <1>2 DEF Leg, Fits, Neat, Alike

LEMMA CompleteLeg ==
  ASSUME NEW r, Worked(r), NEW e, Alike(r, e), Quiet(r) => Quiet(e), NEW b \in Past, NEW signal
  PROVE  Leg(r, b, signal, SetState(e, "completed"), "returned")
<1> DEFINE t == SetState(e, "completed")
<1>1. /\ b \in Awaits /\ b # "redispatch" /\ "returned" \notin Awaits
      /\ "returned" \notin {"post", "repost", "closing", "dispatch"} /\ "returned" \notin Past
  BY DEF Past, Awaits
<1>2. CASE Dead(e)
  <2>1. t = e /\ Dead(r) /\ Terminal(r) /\ Terminal(e) /\ ~Active(e) /\ e.state \notin LiveStates
    BY <1>2, SetDead, StateSets DEF Alike, Dead, Terminal, Active
  <2> HIDE DEF t
  <2> QED
    BY <1>1, <2>1 DEF Leg, Alike, Fits, Neat, Told, t
<1>3. CASE ~Dead(e)
  <2>1. "completed" \in States \ {"absent"} /\ "completed" \notin DeadStates /\ "completed" \in TerminalStates
    BY StateSets
  <2>2. /\ Akin(e, t) /\ t.state = "completed" /\ t.runs = e.runs
        /\ t.lines = IF ~Terminal(e) /\ e.lines < 2 THEN e.lines + 1 ELSE e.lines
    BY <1>3, <2>1, SetStateFields DEF Alike
  <2> HIDE DEF t
  <2>3. Terminal(t) /\ ~Active(t) /\ ~Dead(t) /\ t.state \notin LiveStates /\ (Quiet(t) <=> Quiet(e))
    BY <2>2, QuietRuns, StateSets DEF Terminal, Active, Dead
  <2>4. Told(r) => Told(t)
    <3>1. Told(r) => Told(e)
      BY DEF Told, Alike, Terminal
    <3> QED
      BY <2>2, <2>3, <3>1, ToldEnds DEF Alike
  <2> QED
    BY <1>1, <2>2, <2>3, <2>4 DEF Leg, Alike, Akin, Fits, Neat, t
<1> QED
  BY <1>2, <1>3

\* What the pipeline writes into a row before it looks whether the job lives.
LEMMA AlikeWrites ==
  ASSUME NEW r, Worked(r)
  PROVE  /\ Alike(r, r)
         /\ Alike(r, [r EXCEPT !.reviewed = TRUE])
         /\ Quiet(r) => Quiet([r EXCEPT !.reviewed = TRUE])
         /\ \A b \in BOOLEAN : /\ Alike(r, [r EXCEPT !.paged = b])
                               /\ Quiet(r) => Quiet([r EXCEPT !.paged = b])
         /\ \A S : Alike(r, EnsureRuns(r, S))
         /\ ~Dead(r) => \A f \in [Roles -> RunStates] : Alike(r, [r EXCEPT !.runs = f])
<1>0. r \in Rows
  BY DEF Worked
<1>1. LET e == [r EXCEPT !.reviewed = TRUE]
      IN  e \in Rows /\ e.state = r.state /\ e.lines = r.lines /\ e.manual = r.manual /\ e.runs = r.runs
  BY <1>0 DEF Rows
<1>2. \A b \in BOOLEAN :
        LET e == [r EXCEPT !.paged = b]
        IN  e \in Rows /\ e.state = r.state /\ e.lines = r.lines /\ e.manual = r.manual /\ e.runs = r.runs
  BY <1>0 DEF Rows
<1>3. ASSUME NEW S PROVE Alike(r, EnsureRuns(r, S))
  <2> DEFINE f == [k \in Roles |-> IF r.runs[k] = "none" /\ k \in S
                                   THEN IF Dead(r) THEN r.state ELSE "live"
                                   ELSE r.runs[k]]
             e == [r EXCEPT !.runs = f]
  <2>1. f \in [Roles -> RunStates] /\ EnsureRuns(r, S) = e
    BY <1>0 DEF Rows, RunStates, Dead, EnsureRuns
  <2>2. Quiet(r) /\ Dead(r) => \A k \in Roles : f[k] # "live"
    BY DEF Quiet, LiveRuns, Dead, DeadStates
  <2> HIDE DEF f
  <2>3. Akin(r, e) /\ e.state = r.state /\ e.runs = f /\ e.lines = r.lines
    BY <1>0, <2>1, RunsWritten
  <2> HIDE DEF e
  <2>4. Quiet(r) /\ Dead(r) => Quiet(e)
    BY <2>2, <2>3 DEF Quiet, LiveRuns
  <2> QED
    BY <2>1, <2>3, <2>4 DEF Alike, Akin
<1>4. ASSUME ~Dead(r), NEW f \in [Roles -> RunStates] PROVE Alike(r, [r EXCEPT !.runs = f])
  BY <1>0, <1>4, RunsWritten DEF Alike, Akin
<1>5. Alike(r, r)
  BY <1>0 DEF Alike
<1>6. Alike(r, [r EXCEPT !.reviewed = TRUE]) /\ (Quiet(r) => Quiet([r EXCEPT !.reviewed = TRUE]))
  BY <1>1, QuietRuns DEF Alike
<1>7. \A b \in BOOLEAN : Alike(r, [r EXCEPT !.paged = b]) /\ (Quiet(r) => Quiet([r EXCEPT !.paged = b]))
  BY <1>2, QuietRuns DEF Alike
<1> QED
  BY <1>3, <1>4, <1>5, <1>6, <1>7

\* A turn of the run of j, as it left the table.
Ran(j) ==
  /\ Leg(rows[j], pc[j], j \in aborted, rows'[j], pc'[j])
  /\ \A i \in Jobs \ {j} : rows'[i] = rows[i] /\ pc'[i] = pc[i]
  /\ UNCHANGED <<merged, paused, queue, aborted, handoffs, allowed, crashes>>

LEMMA GoesRan ==
  ASSUME RowsOK, RunsOfLiveJobs, NEW j \in Jobs, NEW t, NEW a, Goes(j, t, a),
         Leg(rows[j], pc[j], j \in aborted, t, a)
  PROVE  Ran(j)
<1>1. /\ rows' = [rows EXCEPT ![j] = t] /\ pc' = [pc EXCEPT ![j] = a]
      /\ UNCHANGED <<merged, paused, queue, aborted, handoffs, allowed, crashes>>
  BY DEF Goes
<1>2. rows'[j] = t /\ pc'[j] = a /\ \A i \in Jobs \ {j} : rows'[i] = rows[i] /\ pc'[i] = pc[i]
  BY <1>1 DEF RowsOK, RunsOfLiveJobs
<1> QED
  BY <1>1, <1>2 DEF Ran

LEMMA UnwindsRan ==
  ASSUME RowsOK, RunsOfLiveJobs, NEW j \in Jobs, pc[j] \in Working, NEW e, Alike(rows[j], e), Unwinds(j, e)
  PROVE  Ran(j)
<1>1. Worked(rows[j]) /\ (j \in aborted) \in BOOLEAN
  BY DEF RowsOK, RunsOfLiveJobs, Worked
<1>2. Leg(rows[j], pc[j], j \in aborted, Unwound(e, j \in aborted), "returned")
  BY <1>1, UnwoundLeg
<1> QED
  BY <1>2, GoesRan DEF Unwinds

LEMMA StageRan ==
  ASSUME RowsOK, RunsOfLiveJobs, NEW j \in Jobs, pc[j] \in Working, ~Dead(rows[j]), NEW e, Alike(rows[j], e),
         NEW s \in LiveStates, NEW a \in Working \ {"checkout", "post", "repost", "closing", "dispatch"},
         a \in Past => (Fits(rows[j], pc[j]) => Quiet(e)), Goes(j, SetState(e, s), a)
  PROVE  Ran(j)
<1>1. Worked(rows[j])
  BY DEF RowsOK, RunsOfLiveJobs, Worked
<1>2. Leg(rows[j], pc[j], j \in aborted, SetState(e, s), a)
  BY <1>1, StageLeg
<1> QED
  BY <1>2, GoesRan

LEMMA StayRan ==
  ASSUME RowsOK, RunsOfLiveJobs, NEW j \in Jobs, pc[j] \in Working, NEW e, Alike(rows[j], e),
         NEW a \in Working \ {"checkout"},
         a \in Past => pc[j] \in Past /\ (Quiet(rows[j]) => Quiet(e)),
         a \in {"post", "repost", "closing", "dispatch"} => e = rows[j],
         a = "dispatch" => ~Dead(rows[j]) /\ rows[j].reviewed, Goes(j, e, a)
  PROVE  Ran(j)
<1>1. Worked(rows[j])
  BY DEF RowsOK, RunsOfLiveJobs, Worked
<1>2. Leg(rows[j], pc[j], j \in aborted, e, a)
  BY <1>1, StayLeg
<1> QED
  BY <1>2, GoesRan

LEMMA CompleteRan ==
  ASSUME RowsOK, RunsOfLiveJobs, NEW j \in Jobs, pc[j] \in Past, NEW e, Alike(rows[j], e),
         Quiet(rows[j]) => Quiet(e), Goes(j, SetState(e, "completed"), "returned")
  PROVE  Ran(j)
<1>0. pc[j] \in Working
  BY DEF Past, Working, Awaits
<1>1. Worked(rows[j])
  BY <1>0 DEF RowsOK, RunsOfLiveJobs, Worked
<1>2. Leg(rows[j], pc[j], j \in aborted, SetState(e, "completed"), "returned")
  BY <1>1, CompleteLeg
<1> QED
  BY <1>2, GoesRan

LEMMA AfterPublishRan ==
  ASSUME RowsOK, RunsOfLiveJobs, NEW j \in Jobs, pc[j] \in Past, NEW posted \in BOOLEAN, AfterPublish(j, posted)
  PROVE  Ran(j)
<1> DEFINE r == IF posted THEN [rows[j] EXCEPT !.reviewed = TRUE] ELSE rows[j]
<1>0. pc[j] \in Working /\ "refresh" \in Working \ {"checkout"}
      /\ "refresh" \notin {"post", "repost", "closing", "dispatch"}
  BY DEF Past, Working, Awaits
<1>1. Worked(rows[j])
  BY <1>0 DEF RowsOK, RunsOfLiveJobs, Worked
<1>2. Alike(rows[j], r) /\ (Quiet(rows[j]) => Quiet(r))
  BY <1>1, AlikeWrites
<1>3. Unwinds(j, r) \/ Goes(j, r, "refresh")
  BY DEF AfterPublish
<1> HIDE DEF r
<1> QED
  BY <1>0, <1>2, <1>3, UnwindsRan, StayRan

LEMMA CompletesRan ==
  ASSUME RowsOK, RunsOfLiveJobs, NEW j \in Jobs, pc[j] \in Past, Completes(j)
  PROVE  Ran(j)
<1>0. pc[j] \in Working /\ "dispatch" \in Working \ {"checkout"}
  BY DEF Past, Working, Awaits
<1>1. Worked(rows[j])
  BY <1>0 DEF RowsOK, RunsOfLiveJobs, Worked
<1>2. Alike(rows[j], rows[j])
  BY <1>1, AlikeWrites
<1>3. CASE Unwinds(j, rows[j])
  BY <1>0, <1>2, <1>3, UnwindsRan
<1>4. CASE ~Stop(j) /\ MayPage(rows[j]) /\ Goes(j, rows[j], "dispatch")
  <2>1. ~Dead(rows[j]) /\ rows[j].reviewed
    BY <1>4 DEF Stop, IsStale, MayPage
  <2> QED
    BY <1>0, <1>2, <1>4, <2>1, StayRan
<1>5. CASE Goes(j, SetState(rows[j], "completed"), "returned")
  BY <1>2, <1>5, CompleteRan
<1> QED
  BY <1>3, <1>4, <1>5 DEF Completes

LEMMA StepRan == ASSUME ServiceInv, NEW j \in Jobs, Step(j) PROVE Ran(j)
<1>0. RowsOK /\ RunsOfLiveJobs
  BY DEF ServiceInv
<1>1. pc[j] \in Working => /\ Worked(rows[j]) /\ Alike(rows[j], rows[j])
                           /\ \A S : Alike(rows[j], EnsureRuns(rows[j], S))
  BY <1>0, AlikeWrites DEF RowsOK, RunsOfLiveJobs, Worked
<1>2. {"reconciling", "routing", "reviewing", "aggregating", "sniffing", "publishing"} \subseteq LiveStates
  BY DEF LiveStates
<1>3. /\ Working = {"checkout", "reconcile", "route", "review"} \union Past
      /\ Past = {"aggregate", "sniff", "summaries", "post", "repost", "refresh", "closing", "dispatch"}
  BY DEF Working, Awaits, Past
<1>4. Stop(j) \/ ~Dead(rows[j])
  BY DEF Stop, IsStale
<1>5. ASSUME NEW e, Alike(rows[j], e), pc[j] \in Working, ~Stop(j), Goes(j, Reviewing(e), "review") PROVE Ran(j)
  <2> DEFINE f == [k \in Roles |-> IF e.runs[k] = "failed" THEN "live" ELSE e.runs[k]]
             s == [e EXCEPT !.runs = f]
  <2>1. e \in Rows /\ f \in [Roles -> RunStates]
    BY <1>5 DEF Alike, Rows, RunStates
  <2>2. Reviewing(e) = SetState(s, "reviewing")
    BY DEF Reviewing
  <2> HIDE DEF f
  <2>3. Akin(e, s) /\ s.state = e.state /\ s.lines = e.lines
    BY <2>1, RunsWritten
  <2> HIDE DEF s
  <2>4. ~Dead(rows[j]) /\ Alike(rows[j], s)
    BY <1>4, <1>5, <2>3 DEF Alike, Akin
  <2>5. Goes(j, SetState(s, "reviewing"), "review")
    BY <1>5, <2>2
  <2>6. "review" \notin Past /\ "review" \in Working \ {"checkout", "post", "repost", "closing", "dispatch"}
    BY <1>3
  <2> QED
    BY <1>0, <1>2, <1>5, <2>4, <2>5, <2>6, StageRan
<1>6. ASSUME NEW s \in LiveStates, NEW a \in Working \ {"checkout", "post", "repost", "closing", "dispatch"},
             a \in Past => pc[j] \in Past \/ Quiet(rows[j]),
             pc[j] \in Working, ~Stop(j), Goes(j, SetState(rows[j], s), a)
      PROVE  Ran(j)
  <2>1. a \in Past => (Fits(rows[j], pc[j]) => Quiet(rows[j]))
    BY <1>6 DEF Fits
  <2> QED
    BY <1>0, <1>1, <1>4, <1>6, <2>1, StageRan
<1>7. CASE Checkout(j)
  <2>1. pc[j] = "checkout"
    BY <1>7 DEF Checkout, At
  <2> QED
    BY <1>0, <1>1, <1>2, <1>3, <1>6, <1>7, <2>1, UnwindsRan DEF Checkout, Continues
<1>8. CASE Reconcile(j)
  <2>1. pc[j] = "reconcile"
    BY <1>8 DEF Reconcile, At
  <2>2. CASE Unwinds(j, rows[j])
    BY <1>0, <1>1, <1>3, <2>1, <2>2, UnwindsRan
  <2>3. CASE Continues(j, SetState(rows[j], "routing"), "route")
    BY <1>2, <1>3, <1>6, <2>1, <2>3 DEF Continues
  <2>4. ASSUME NEW r, r = IF NoRuns(rows[j]) THEN EnsureRuns(rows[j], Roles) ELSE rows[j],
               Continues(j, Reviewing(r), "review")
        PROVE  Ran(j)
    <3>1. Alike(rows[j], r)
      BY <1>1, <1>3, <2>1, <2>4
    <3> QED
      BY <1>3, <1>5, <2>1, <2>4, <3>1 DEF Continues
  <2> QED
    BY <1>8, <2>2, <2>3, <2>4 DEF Reconcile
<1>9. CASE Route(j)
  <2>1. PICK picked \in SUBSET Roles \ {{}} :
          IF Stop(j) THEN Unwinds(j, EnsureRuns(rows[j], picked))
          ELSE Goes(j, Reviewing(EnsureRuns(rows[j], picked)), "review")
    BY <1>9 DEF Route
  <2>2. pc[j] = "route" /\ pc[j] \in Working
    BY <1>3, <1>9 DEF Route, At
  <2>3. Alike(rows[j], EnsureRuns(rows[j], picked))
    BY <1>1, <2>2
  <2> QED
    BY <1>0, <1>5, <2>1, <2>2, <2>3, UnwindsRan
<1>10. ASSUME NEW k \in Roles, ReviewerEnds(j, k) PROVE Ran(j)
  <2>1. PICK outcome \in {"done", "failed"} : Goes(j, [rows[j] EXCEPT !.runs[k] = outcome], "review")
    BY <1>10 DEF ReviewerEnds
  <2> DEFINE f == [rows[j].runs EXCEPT ![k] = outcome]
             e == [rows[j] EXCEPT !.runs = f]
  <2>2. pc[j] = "review" /\ pc[j] \in Working /\ rows[j].runs[k] = "live" /\ rows[j] \in Rows
    BY <1>0, <1>3, <1>10 DEF ReviewerEnds, At, RowsOK
  <2>3. f \in [Roles -> RunStates]
    BY <2>2, RowFields DEF RunStates
  <2>4. Goes(j, e, "review")
    BY <2>1
  <2> HIDE DEF f
  <2>5. Akin(rows[j], e) /\ e.state = rows[j].state /\ e.lines = rows[j].lines
    BY <2>2, <2>3, RunsWritten
  <2> HIDE DEF e
  <2>6. ~Quiet(rows[j])
    BY <2>2 DEF Quiet, LiveRuns
  <2>7. Alike(rows[j], e)
    BY <2>5, <2>6 DEF Alike, Akin
  <2>8. "review" \in Working \ {"checkout"} /\ "review" \notin Past
    BY <1>3
  <2> QED
    BY <1>0, <1>3, <2>2, <2>4, <2>7, <2>8, StayRan
<1>11. CASE Reviewed(j)
  <2>1. pc[j] = "review" /\ Quiet(rows[j])
    BY <1>11 DEF Reviewed, At, Quiet
  <2>2. Unwinds(j, rows[j]) \/ (~Stop(j) /\ Goes(j, SetState(rows[j], "aggregating"), "aggregate"))
    BY <1>11 DEF Reviewed
  <2> QED
    BY <1>0, <1>1, <1>2, <1>3, <1>6, <2>1, <2>2, UnwindsRan
<1>12. CASE Aggregate(j)
  <2>1. pc[j] = "aggregate"
    BY <1>12 DEF Aggregate, At
  <2> QED
    BY <1>0, <1>1, <1>2, <1>3, <1>6, <1>12, <2>1, UnwindsRan DEF Aggregate, Continues
<1>13. CASE Sniff(j)
  <2>1. pc[j] = "sniff"
    BY <1>13 DEF Sniff, At
  <2> QED
    BY <1>0, <1>1, <1>2, <1>3, <1>6, <1>13, <2>1, UnwindsRan DEF Sniff, Continues
<1>14. ASSUME pc[j] \in Past, NEW a \in {"post", "repost", "closing"}, Goes(j, rows[j], a) PROVE Ran(j)
  BY <1>0, <1>1, <1>3, <1>14, StayRan
<1>15. CASE Summaries(j)
  <2>1. pc[j] = "summaries"
    BY <1>15 DEF Summaries, At
  <2> QED
    BY <1>0, <1>1, <1>3, <1>14, <1>15, <2>1, UnwindsRan, AfterPublishRan DEF Summaries, Continues
<1>16. CASE Post(j)
  <2>1. pc[j] = "post"
    BY <1>16 DEF Post, At
  <2> QED
    BY <1>0, <1>1, <1>3, <1>14, <1>16, <2>1, UnwindsRan, AfterPublishRan DEF Post
<1>17. CASE Repost(j)
  <2>1. pc[j] = "repost"
    BY <1>17 DEF Repost, At
  <2> QED
    BY <1>0, <1>1, <1>3, <1>17, <2>1, UnwindsRan, AfterPublishRan DEF Repost
<1>18. CASE Refresh(j)
  <2>1. pc[j] = "refresh"
    BY <1>18 DEF Refresh, At
  <2> QED
    BY <1>0, <1>3, <1>14, <1>18, <2>1, CompletesRan DEF Refresh
<1>19. CASE Closing(j)
  <2>1. pc[j] = "closing"
    BY <1>19 DEF Closing, At
  <2> QED
    BY <1>0, <1>3, <1>19, <2>1, CompletesRan DEF Closing
<1>20. CASE ExternalDispatch(j)
  <2>1. PICK ok \in BOOLEAN : Goes(j, SetState([rows[j] EXCEPT !.paged = ok], "completed"), "returned")
    BY <1>20 DEF ExternalDispatch
  <2>2. pc[j] = "dispatch" /\ pc[j] \in Past
    BY <1>3, <1>20 DEF ExternalDispatch, At
  <2>3. /\ Alike(rows[j], [rows[j] EXCEPT !.paged = ok])
        /\ Quiet(rows[j]) => Quiet([rows[j] EXCEPT !.paged = ok])
    BY <1>1, <1>3, <2>2, AlikeWrites
  <2> QED
    BY <1>0, <2>1, <2>2, <2>3, CompleteRan
<1>21. CASE Redispatch(j)
  <2>1. PICK ok \in BOOLEAN : Goes(j, [rows[j] EXCEPT !.paged = ok], "returned")
    BY <1>21 DEF Redispatch
  <2> DEFINE t == [rows[j] EXCEPT !.paged = ok]
  <2>2. pc[j] = "redispatch" /\ rows[j] \in Rows
    BY <1>0, <1>21 DEF Redispatch, At, RowsOK
  <2>3. t \in Rows /\ t.state = rows[j].state /\ t.runs = rows[j].runs /\ t.manual = rows[j].manual
    BY <2>2 DEF Rows
  <2> HIDE DEF t
  <2>4. /\ "redispatch" \in Awaits /\ "returned" \notin Past
        /\ "returned" \notin {"post", "repost", "closing", "dispatch"}
    BY DEF Awaits, Past
  <2>5. Quiet(t) <=> Quiet(rows[j])
    BY <2>3, QuietRuns
  <2>6. Leg(rows[j], pc[j], j \in aborted, t, "returned")
    BY <2>2, <2>3, <2>4, <2>5 DEF Leg, Fits, Neat, Terminal, Dead, Active
  <2> QED
    BY <1>0, <2>1, <2>6, GoesRan DEF t
<1> QED
  BY <1>7, <1>8, <1>9, <1>10, <1>11, <1>12, <1>13, <1>15, <1>16, <1>17, <1>18, <1>19, <1>20, <1>21 DEF Step

-----------------------------------------------------------------------------
(* Publication: how a turn comes to post, and what it adds to the forge *)

Posting == {"post", "repost"}

Published(j) ==
  /\ pc'[j] = "post" => pc[j] = "summaries" /\ ~Stop(j) /\ reviews[Target(j)] = 0 /\ reviews' = reviews
  /\ pc'[j] = "repost" => pc[j] = "post"
  /\ \/ reviews' = reviews
     \/ pc[j] \in Posting /\ PostsOne(j) /\ (pc'[j] \in Posting => "lost" \in Features)

LEMMA GoesTo ==
  ASSUME RunsOfLiveJobs, NEW j \in Jobs
  PROVE  /\ \A t, a : Goes(j, t, a) => pc'[j] = a
         /\ \A t : Unwinds(j, t) => pc'[j] = "returned"
         /\ \A posted : AfterPublish(j, posted) => pc'[j] \in {"returned", "refresh"}
         /\ Completes(j) => pc'[j] \in {"returned", "dispatch"}
<1>1. \A t, a : Goes(j, t, a) => pc'[j] = a
  BY DEF Goes, RunsOfLiveJobs
<1>2. \A t : Unwinds(j, t) => pc'[j] = "returned"
  BY <1>1 DEF Unwinds
<1>3. \A posted : AfterPublish(j, posted) => pc'[j] \in {"returned", "refresh"}
  BY <1>1, <1>2 DEF AfterPublish
<1>4. Completes(j) => pc'[j] \in {"returned", "dispatch"}
  BY <1>1, <1>2 DEF Completes
<1> QED
  BY <1>1, <1>2, <1>3, <1>4

LEMMA StepPublished == ASSUME ServiceInv, NEW j \in Jobs, Step(j) PROVE Published(j)
<1>0. RunsOfLiveJobs
  BY DEF ServiceInv
<1>1. CASE Summaries(j)
  <2>1. pc[j] = "summaries" /\ reviews' = reviews
    BY <1>1 DEF Summaries, At
  <2>2. \/ pc'[j] \in {"returned", "refresh"}
        \/ reviews[Target(j)] = 0 /\ Continues(j, rows[j], "post")
    BY <1>0, <1>1, GoesTo DEF Summaries
  <2>3. Continues(j, rows[j], "post") => ~Stop(j) /\ pc'[j] = "post"
    BY <1>0, GoesTo DEF Continues
  <2> QED
    BY <2>1, <2>2, <2>3 DEF Published, Posting
<1>2. CASE Post(j)
  <2>1. pc[j] = "post"
    BY <1>2 DEF Post, At
  <2>2. \/ reviews' = reviews /\ pc'[j] \in {"returned", "repost"}
        \/ PostsOne(j) /\ pc'[j] \in {"returned", "refresh"}
        \/ PostsOne(j) /\ pc'[j] \in {"returned", "repost"} /\ "lost" \in Features
    BY <1>0, <1>2, GoesTo DEF Post
  <2> QED
    BY <2>1, <2>2 DEF Published, Posting
<1>3. CASE Repost(j)
  <2>1. pc[j] = "repost"
    BY <1>3 DEF Repost, At
  <2>2. \/ reviews' = reviews /\ pc'[j] = "returned"
        \/ PostsOne(j) /\ pc'[j] \in {"returned", "refresh"}
    BY <1>0, <1>3, GoesTo DEF Repost
  <2> QED
    BY <2>1, <2>2 DEF Published, Posting
<1>4. ASSUME reviews' = reviews, pc'[j] \notin Posting PROVE Published(j)
  BY <1>4 DEF Published, Posting
<1>5. CASE Checkout(j) \/ Reconcile(j) \/ Route(j)
  <2>1. pc'[j] \in {"returned", "reconcile", "review", "route"} /\ reviews' = reviews
    <3>1. CASE Checkout(j)
      BY <1>0, <3>1, GoesTo DEF Checkout, Continues
    <3>2. CASE Reconcile(j)
      BY <1>0, <3>2, GoesTo DEF Reconcile, Continues
    <3>3. CASE Route(j)
      BY <1>0, <3>3, GoesTo DEF Route
    <3> QED
      BY <1>5, <3>1, <3>2, <3>3
  <2> QED
    BY <1>4, <2>1 DEF Posting
<1>6. ASSUME NEW k \in Roles, ReviewerEnds(j, k) PROVE Published(j)
  BY <1>0, <1>4, <1>6, GoesTo DEF ReviewerEnds, Posting
<1>7. CASE Reviewed(j)
  BY <1>0, <1>4, <1>7, GoesTo DEF Reviewed, Posting
<1>8. CASE Aggregate(j) \/ Sniff(j)
  <2>1. pc'[j] \in {"returned", "sniff", "summaries"} /\ reviews' = reviews
    BY <1>0, <1>8, GoesTo DEF Aggregate, Sniff, Continues
  <2> QED
    BY <1>4, <2>1 DEF Posting
<1>9. CASE Refresh(j) \/ Closing(j)
  <2>1. pc'[j] \in {"returned", "dispatch", "closing"} /\ reviews' = reviews
    BY <1>0, <1>9, GoesTo DEF Refresh, Closing
  <2> QED
    BY <1>4, <2>1 DEF Posting
<1>10. CASE ExternalDispatch(j) \/ Redispatch(j)
  <2>1. pc'[j] = "returned" /\ reviews' = reviews
    BY <1>0, <1>10, GoesTo DEF ExternalDispatch, Redispatch
  <2> QED
    BY <1>4, <2>1 DEF Posting
<1> QED
  BY <1>1, <1>2, <1>3, <1>5, <1>6, <1>7, <1>8, <1>9, <1>10 DEF Step

-----------------------------------------------------------------------------
(* What a handler may write into a row *)

Written(r, s) ==
  /\ s \in Rows
  /\ r.state # "absent" => s.pull = r.pull /\ s.head = r.head /\ s.state # "absent"
  /\ r.state # "absent" /\ s.slot = "shared" => r.slot = "shared"
  /\ s.slot = "aside" => r.slot = "aside" \/ ("rereview" \in Features /\ Terminal(s))
  /\ Dead(r) => s.state = r.state
  /\ (Terminal(r) => Quiet(r)) => (Terminal(s) => Quiet(s))
  /\ r.state \in LiveStates \union DeadStates /\ Quiet(r) => Quiet(s)
  /\ "escalate" \notin Features /\ Told(r) /\ ~r.manual => Told(s) /\ ~s.manual
  /\ Due(r) => Due(s)
  /\ s.state \in LiveStates => r.state = s.state
  /\ s.state = "completed" => r.state = "completed" /\ s.reviewed = r.reviewed
  /\ Active(s) => Active(r) \/ "retry" \in Features \/ (r.state = "absent" /\ s.pull \notin merged)

LEMMA UnwrittenWritten == ASSUME NEW r \in Rows PROVE Written(r, r)
  BY RowFields DEF Written

\* A stale sweep or a cancellation.
LEMMA StopWritten ==
  ASSUME NEW r \in Rows, ~Dead(r), r.state # "absent", NEW d \in DeadStates
  PROVE  Written(r, SetState(r, d))
<1> DEFINE s == SetState(r, d)
<1>1. /\ Akin(r, s) /\ s.state = d /\ Quiet(s)
      /\ s.lines = IF ~Terminal(r) /\ r.lines < 2 THEN r.lines + 1 ELSE r.lines
  BY DiedFields
<1> HIDE DEF s
<1>2. Terminal(s) /\ Dead(s) /\ ~Active(s) /\ s.state \notin LiveStates
      /\ s.state \notin {"absent", "completed"}
  BY <1>1, StateSets DEF Terminal, Dead, Active
<1>3. Told(r) => Told(s)
  BY <1>1, <1>2, ToldEnds
<1>4. Written(r, s)
  BY <1>1, <1>2, <1>3 DEF Written, Akin, Due
<1> QED
  BY <1>4 DEF s

\* A terminal job gives up the slot.
LEMMA RekeyWritten ==
  ASSUME NEW r \in Rows, Terminal(r), "rereview" \in Features
  PROVE  Written(r, [r EXCEPT !.slot = "aside"])
<1> DEFINE s == [r EXCEPT !.slot = "aside"]
<1>1. /\ s \in Rows /\ s.state = r.state /\ s.pull = r.pull /\ s.head = r.head /\ s.slot = "aside"
      /\ s.runs = r.runs /\ s.lines = r.lines /\ s.manual = r.manual /\ s.reviewed = r.reviewed
  BY DEF Rows
<1> HIDE DEF s
<1>2. Quiet(s) <=> Quiet(r)
  BY <1>1, QuietRuns
<1>3. Written(r, s)
  BY <1>1, <1>2 DEF Written, Terminal, Dead, Active, Told, Due
<1> QED
  BY <1>3 DEF s

\* The escalation request.
LEMMA ManualWritten ==
  ASSUME NEW r \in Rows, "escalate" \in Features
  PROVE  Written(r, [r EXCEPT !.manual = TRUE])
<1> DEFINE s == [r EXCEPT !.manual = TRUE]
<1>1. /\ s \in Rows /\ s.state = r.state /\ s.pull = r.pull /\ s.head = r.head /\ s.slot = r.slot
      /\ s.runs = r.runs /\ s.reviewed = r.reviewed
  BY DEF Rows
<1> HIDE DEF s
<1>2. Quiet(s) <=> Quiet(r)
  BY <1>1, QuietRuns
<1>3. Written(r, s)
  BY <1>1, <1>2 DEF Written, Terminal, Dead, Active, Due
<1> QED
  BY <1>3 DEF s

LEMMA RetryWritten ==
  ASSUME NEW r \in Rows, r.state \in {"completed", "failed"}, r.retries < MaxRetries, NEW again,
         "retry" \in Features
  PROVE  Written(r, Retried(r, again)) /\ Due(Retried(r, again))
<1> DEFINE s == Retried(r, again)
<1>1. /\ s \in Rows /\ s.state = "queued" /\ s.pull = r.pull /\ s.head = r.head /\ s.slot = r.slot
  BY RetryTyped
<1>2. s.lines = 0 /\ s.manual = r.manual
  BY DEF Retried, Rows
<1> HIDE DEF s
<1>3. ~Terminal(s) /\ ~Dead(r) /\ ~Dead(s) /\ s.state \notin LiveStates /\ r.state \notin LiveStates
      /\ r.state # "absent" /\ r.state # "queued"
  BY <1>1, StateSets DEF Terminal, Dead
<1>4. Written(r, s)
  BY <1>1, <1>2, <1>3, StateSets DEF Written, Told, Due, Dead
<1> QED
  BY <1>1, <1>4 DEF s, Due

\* resetInterrupted.
LEMMA ResetWritten ==
  ASSUME NEW r \in Rows, Active(r)
  PROVE  Written(r, [r EXCEPT !.state = "queued"]) /\ [r EXCEPT !.state = "queued"].state = "queued"
<1> DEFINE s == [r EXCEPT !.state = "queued"]
<1>1. /\ s \in Rows /\ s.state = "queued" /\ s.pull = r.pull /\ s.head = r.head /\ s.slot = r.slot
      /\ s.runs = r.runs /\ s.lines = r.lines /\ s.manual = r.manual
  BY DEF Rows, ActiveStates
<1> HIDE DEF s
<1>2. Quiet(s) <=> Quiet(r)
  BY <1>1, QuietRuns
<1>3. ~Terminal(s) /\ ~Dead(r) /\ ~Dead(s) /\ ~Terminal(r) /\ s.state \notin LiveStates /\ r.state # "absent"
  BY <1>1, StateSets DEF Terminal, Dead, Active
<1>4. Written(r, s)
  BY <1>1, <1>2, <1>3, StateSets DEF Written, Told, Due
<1> QED
  BY <1>1, <1>4 DEF s

LEMMA NewWritten ==
  ASSUME NEW r \in Rows, r.state = "absent", NEW p \in Pulls, p \notin merged, NEW h \in Heads
  PROVE  Written(r, NewRow(p, h))
<1> DEFINE s == NewRow(p, h)
<1>1. /\ s \in Rows /\ s.state = "queued" /\ s.pull = p /\ s.head = h /\ s.slot = "shared"
  BY NewRowTyped
<1>2. s.lines = 0 /\ s.manual = FALSE
  BY DEF NewRow
<1> HIDE DEF s
<1>3. ~Terminal(s) /\ ~Dead(r) /\ ~Dead(s) /\ s.state \notin LiveStates /\ r.state \notin LiveStates
  BY <1>1, StateSets DEF Terminal, Dead
<1>4. Written(r, s)
  BY <1>1, <1>2, <1>3, StateSets DEF Written, Told, Due, Dead
<1> QED
  BY <1>4 DEF s

-----------------------------------------------------------------------------
(* The handlers, the queue's dispatches and releases, and the start, as one:  *)
(* a table rs is written, a queue q committed, the jobs of S are signalled    *)

\* What the queue gains and loses.
Feeds(rs, q) ==
  /\ Sound(q) /\ q.started
  /\ \A j \in queue.active \ q.active : pc[j] = "returned" /\ j \notin Entries(q)
  /\ \A j \in Entries(queue) \ Entries(q) : pc[j] = "returned" \/ Dead(rs[j])
  /\ \A j \in Entries(q) \ Entries(queue) :
       \/ Due(rs[j]) /\ (queue.started => ~Due(rows[j]))
       \/ "escalate" \in Features /\ rs[j].state # "absent"
       \/ \E t \in handoffs \ handoffs' : t.job = j
  /\ \A j \in Jobs : rs[j].state = "queued" =>
       \/ j \in Entries(q)
       \/ \E t \in handoffs' : t.job = j
       \/ queue.started /\ rows[j].state = "queued"

\* Who is told of the jobs that died.
Tells(rs, S) ==
  /\ \A j \in Jobs : Dead(rs[j]) => Dead(rows[j]) \/ j \in S \/ \E t \in handoffs' : j \in t.stale
  /\ \A j \in S : j \in Jobs /\ Dead(rs[j])
  /\ \A t \in handoffs \ handoffs' : t.stale \subseteq S

\* The webhook handlers that begin and end their wait for the badge.
HandsOver(rs, q) ==
  /\ \A t \in handoffs \ handoffs' : t.job \in Entries(q) \/ Dead(rs[t.job])
  /\ \A t, u \in handoffs' \ handoffs : t = u
  /\ \A t \in handoffs' \ handoffs :
       /\ rows[t.job].state = "absent" /\ rs[t.job].state = "queued" /\ t.job \notin Entries(q)
       /\ \A i \in t.stale : Dead(rs[i])

\* A new row takes the slot of its pull from rows that died, at another head,
\* and nothing else happens.
Creates(rs, q) ==
  \A n \in Jobs : rows[n].state = "absent" /\ rs[n].state # "absent" =>
    /\ q.active = queue.active /\ ~Dead(rs[n]) /\ rs[n].slot = "shared"
    /\ \A i \in Jobs \ {n} :
         /\ rs[i].state = "absent" <=> rows[i].state = "absent"
         /\ rs[i].state # "absent" /\ rs[i].pull = rs[n].pull /\ rs[i].slot = "shared"
              => Dead(rs[i]) /\ rs[i].head # rs[n].head
         /\ rs[i].pull # rs[n].pull => rs[i] = rows[i]

Handled(rs, q, S) ==
  /\ Commit(rs, q, S) /\ reviews' = reviews
  /\ rs \in [Jobs -> Rows]
  /\ \A j \in Jobs : /\ Written(rows[j], rs[j])
                     /\ pc[j] = "returned" => rs[j] = rows[j]
                     /\ rs[j].state \in LiveStates => queue.started
                     /\ Active(rs[j]) => rs[j].pull \notin merged' \ merged
  /\ Feeds(rs, q) /\ Tells(rs, S) /\ HandsOver(rs, q) /\ Creates(rs, q)

\* Who waits for the badge knows that the jobs it superseded are dead.
StaleAreDead == \A t \in handoffs : \A i \in t.stale : Dead(rows[i])

LEMMA QueueFacts ==
  ASSUME ServiceInv
  PROVE  /\ Sound(queue) /\ Entries(queue) \subseteq Jobs /\ queue.active \subseteq Jobs
         /\ queue.started => Busy(queue)
         /\ ~queue.started => Entries(queue) = {} /\ queue.active = {}
         /\ rows \in [Jobs -> Rows] /\ \A j \in Jobs : rows[j] \in Rows /\ Written(rows[j], rows[j])
<1>1. Sound(queue) /\ (IF queue.started THEN Busy(queue) ELSE queue = Stopped)
  BY DEF ServiceInv, IInv
<1>2. queue.pending \in Seq(Jobs) /\ queue.active \subseteq Jobs
  BY <1>1 DEF Sound, Queues
<1>3. Entries(queue) \subseteq Jobs
  BY <1>2 DEF Entries, ToSet
<1>4. Entries(Stopped) = {} /\ Stopped.active = {}
  BY DEF Entries, Stopped, ToSet
<1> QED
  BY <1>1, <1>2, <1>3, <1>4, UnwrittenWritten DEF ServiceInv, RowsOK

\* Cancellations: what is dropped from the queue and signalled is dead.
LEMMA CancelAllHandled ==
  ASSUME ServiceInv, Serving, NEW S \in SUBSET Jobs, CancelAll(S), UNCHANGED <<handoffs, reviews>>,
         \A j \in Jobs \ S : Active(rows[j]) => rows[j].pull \notin merged' \ merged
  PROVE  \E rs, q, T : Handled(rs, q, T)
<1> DEFINE hit == {j \in S : Active(rows[j])}
           rs == Moved(rows, hit, "cancelled")
           q == AbortedMany(queue, hit)
<1>1. Commit(rs, q, hit)
  BY DEF CancelAll
<1>2. queue.started /\ \A j \in Jobs : pc[j] # "returned"
  BY DEF Serving, Idle
<1>3. hit \subseteq Jobs /\ \A j \in hit : ~Dead(rows[j]) /\ rows[j].state # "absent"
  BY StateSets DEF Active, Dead
<1>3a. \A j \in Jobs \ hit : Active(rows[j]) => j \notin S
  OBVIOUS
<1> HIDE DEF hit
<1>4. \A j \in Jobs : rs[j] = IF j \in hit THEN SetState(rows[j], "cancelled") ELSE rows[j]
  BY DEF Moved
<1>5. \A j \in Jobs : rows[j] \in Rows /\ Written(rows[j], rows[j])
  BY QueueFacts
<1>6. \A j \in hit : /\ Written(rows[j], SetState(rows[j], "cancelled"))
                     /\ SetState(rows[j], "cancelled").state = "cancelled"
  BY <1>3, <1>5, StopWritten, DiedFields, StateSets
<1>7. rs \in [Jobs -> Rows]
  <2>1. \A j \in Jobs : rs[j] \in Rows
    BY <1>4, <1>5, <1>6 DEF Written
  <2> QED
    BY <2>1 DEF Moved
<1> HIDE DEF rs
<1>8. \A j \in Jobs : Written(rows[j], rs[j])
  BY <1>4, <1>5, <1>6
<1>9. \A j \in hit : Dead(rs[j]) /\ rs[j].state # "queued" /\ ~Active(rs[j])
  BY <1>3, <1>4, <1>6, StateSets DEF Dead, Active
<1>10. \A j \in Jobs : Active(rs[j]) => rs[j].pull \notin merged' \ merged
  BY <1>3a, <1>4, <1>9
<1>11. /\ Sound(q) /\ q.started /\ q.active = queue.active /\ Entries(q) \subseteq Entries(queue)
       /\ Entries(queue) \ hit \subseteq Entries(q)
  BY <1>2, QueueFacts, AbortedManySound DEF Entries
<1>12. Feeds(rs, q)
  BY <1>2, <1>4, <1>9, <1>11 DEF Feeds
<1>13. Tells(rs, hit) /\ HandsOver(rs, q) /\ Creates(rs, q)
  BY <1>3, <1>4, <1>9 DEF Tells, HandsOver, Creates
<1> QED
  BY <1>1, <1>2, <1>7, <1>8, <1>10, <1>12, <1>13 DEF Handled

\* Handlers that write one row and enqueue its job.
LEMMA EnqueueHandled ==
  ASSUME ServiceInv, Serving, NEW j \in Jobs, NEW r, Written(rows[j], r), r.state \notin DeadStates \ {rows[j].state},
         rows[j].state # "absent", (Due(r) /\ ~Due(rows[j])) \/ "escalate" \in Features,
         Commit([rows EXCEPT ![j] = r], Enqueued(queue, j), {}), UNCHANGED <<merged, handoffs, reviews>>
  PROVE  \E rs, q, T : Handled(rs, q, T)
<1> DEFINE rs == [rows EXCEPT ![j] = r]
           q == Enqueued(queue, j)
<1>1. queue.started /\ \A i \in Jobs : pc[i] # "returned"
  BY DEF Serving, Idle
<1>2. r \in Rows
  BY DEF Written
<1>3. rs \in [Jobs -> Rows] /\ rs[j] = r /\ \A i \in Jobs \ {j} : rs[i] = rows[i]
  BY <1>2, QueueFacts
<1>4. Commit(rs, q, {})
  OBVIOUS
<1> HIDE DEF rs
<1>5. \A i \in Jobs : Written(rows[i], rs[i])
  BY <1>3, QueueFacts
<1>6. Sound(queue) /\ Busy(queue)
  BY <1>1, QueueFacts
<1>7. Sound(q) /\ q.started /\ Entries(q) = Entries(queue) \union {j} /\ queue.active \subseteq q.active
  BY <1>1, <1>6, EnqueuedSound, OperationEntries
<1> HIDE DEF q
<1>8. Feeds(rs, q)
  <2>1. rs[j].state # "absent"
    BY <1>5 DEF Written
  <2> QED
    BY <1>1, <1>3, <1>7, <2>1 DEF Feeds
<1>9. Tells(rs, {}) /\ HandsOver(rs, q) /\ Creates(rs, q)
  BY <1>3 DEF Tells, HandsOver, Creates, Dead
<1> QED
  BY <1>1, <1>3, <1>4, <1>5, <1>8, <1>9 DEF Handled

\* store.enqueue, for rows that gave up slots at most.
LEMMA EnqueuePullHandled ==
  ASSUME ServiceInv, Known, Serving, NEW p \in Pulls, NEW h \in Heads, p \notin merged, NEW rs \in [Jobs -> Rows],
         \A j \in Jobs : /\ Written(rows[j], rs[j]) /\ rs[j].state = rows[j].state
                         /\ rs[j].slot = "shared" => rs[j] = rows[j]
                         /\ rs[j] = rows[j] \/ (rows[j].pull = p /\ Exists(j)),
         EnqueuePull(rs, p, h), UNCHANGED <<merged, reviews>>
  PROVE  \E ss, q, T : Handled(ss, q, T)
<1> DEFINE stale == Swept(rs, p, h)
           swept == Moved(rs, stale, "stale")
<1>1. queue.started /\ \A j \in Jobs : pc[j] # "returned"
  BY DEF Serving, Idle
<1>2. stale \in SUBSET Jobs /\ \A j \in stale : rs[j] = rows[j] /\ rows[j].state # "absent" /\ ~Dead(rows[j])
                                                 /\ rows[j].pull = p
  BY DEF Swept, Holders, JobsOf, Exists
<1>3. \A j \in Jobs : swept[j] = IF j \in stale THEN SetState(rows[j], "stale") ELSE rs[j]
  BY <1>2 DEF Moved
<1>4. (\E j \in Holders(rs, p) : rs[j].head = h)
        => Commit(swept, AbortedMany(queue, stale), stale) /\ UNCHANGED handoffs
  BY DEF EnqueuePull
<1>5. ~(\E j \in Holders(rs, p) : rs[j].head = h)
        => \E n \in Jobs : /\ IsNext(n)
                           /\ Commit([swept EXCEPT ![n] = NewRow(p, h)], queue, {})
                           /\ handoffs' = handoffs \union {[job |-> n, stale |-> stale]}
  BY DEF EnqueuePull
<1>5a. \A j \in stale : rs[j].head # h
  BY DEF Swept
<1>5b. \A j \in Jobs \ stale : Exists(j) /\ rows[j].pull = p /\ rs[j].slot = "shared" => Dead(rs[j]) \/ rs[j].head = h
  BY DEF Swept, Holders, JobsOf
<1>6. DOMAIN swept = Jobs /\ swept = [j \in Jobs |-> swept[j]]
  BY DEF Moved
<1> HIDE DEF stale, swept
<1>7. \A j \in Jobs : rows[j] \in Rows
  BY QueueFacts
<1>8. \A j \in stale : /\ Written(rows[j], SetState(rows[j], "stale"))
                       /\ SetState(rows[j], "stale").state = "stale"
  BY <1>2, <1>7, StopWritten, DiedFields, StateSets
<1>9. swept \in [Jobs -> Rows] /\ \A j \in Jobs : Written(rows[j], swept[j])
  BY <1>3, <1>6, <1>8 DEF Written
<1>10. \A j \in stale : Dead(swept[j]) /\ swept[j].state # "queued"
  BY <1>2, <1>3, <1>8, StateSets DEF Dead
<1>11. \A j \in Jobs \ stale : swept[j].state = rows[j].state
  BY <1>3
<1>12. Sound(queue) /\ Busy(queue) /\ Entries(queue) \subseteq Jobs
  BY <1>1, QueueFacts
<1>13. CASE \E j \in Holders(rs, p) : rs[j].head = h
  <2> DEFINE q == AbortedMany(queue, stale)
  <2>1. Commit(swept, q, stale) /\ UNCHANGED handoffs
    BY <1>4, <1>13
  <2>2. /\ Sound(q) /\ q.started /\ q.active = queue.active /\ Entries(q) \subseteq Entries(queue)
        /\ Entries(queue) \ stale \subseteq Entries(q)
    BY <1>1, <1>12, AbortedManySound DEF Entries
  <2> HIDE DEF q
  <2>3. Feeds(swept, q)
    BY <1>1, <1>10, <1>11, <2>2 DEF Feeds
  <2>4. Tells(swept, stale) /\ HandsOver(swept, q) /\ Creates(swept, q)
    BY <1>2, <1>10, <1>11, <2>1 DEF Tells, HandsOver, Creates, Dead
  <2> QED
    BY <1>1, <1>9, <2>1, <2>3, <2>4 DEF Handled
<1>14. CASE ~ \E j \in Holders(rs, p) : rs[j].head = h
  <2>1. PICK n \in Jobs : /\ IsNext(n)
                          /\ Commit([swept EXCEPT ![n] = NewRow(p, h)], queue, {})
                          /\ handoffs' = handoffs \union {[job |-> n, stale |-> stale]}
    BY <1>5, <1>14
  <2> DEFINE ns == [swept EXCEPT ![n] = NewRow(p, h)]
             t == [job |-> n, stale |-> stale]
  <2>2. rows[n].state = "absent" /\ n \notin Entries(queue) /\ n \notin stale
    BY <1>2, <2>1 DEF IsNext, Exists, Known
  <2>3. Written(rows[n], NewRow(p, h)) /\ NewRow(p, h).state = "queued" /\ NewRow(p, h) \in Rows
    BY <1>7, <2>2, NewWritten, NewRowTyped
  <2>4. ns \in [Jobs -> Rows] /\ ns[n] = NewRow(p, h) /\ \A j \in Jobs \ {n} : ns[j] = swept[j]
    BY <1>9, <2>3
  <2>5. Commit(ns, queue, {})
    BY <2>1
  <2> HIDE DEF ns
  <2>6. \A j \in Jobs : Written(rows[j], ns[j])
    BY <1>9, <2>3, <2>4
  <2>7. t.job = n /\ t.stale = stale /\ handoffs' = handoffs \union {t}
    BY <2>1
  <2> HIDE DEF t
  <2>8. \A j \in stale : Dead(ns[j])
    BY <1>2, <1>10, <2>2, <2>4
  <2>9. ~Dead(ns[n]) /\ ns[n].state = "queued"
    BY <2>3, <2>4, StateSets DEF Dead
  <2>10. Feeds(ns, queue)
    <3>1. \A j \in Jobs : ns[j].state = "queued" =>
            (\E u \in handoffs' : u.job = j) \/ (queue.started /\ rows[j].state = "queued")
      BY <1>1, <1>10, <1>11, <2>4, <2>7
    <3> QED
      BY <1>1, <1>12, <3>1 DEF Feeds
  <2>11. Tells(ns, {})
    <3>1. \A j \in Jobs : Dead(ns[j]) => Dead(rows[j]) \/ \E u \in handoffs' : j \in u.stale
      BY <1>11, <2>4, <2>7, <2>9 DEF Dead
    <3> QED
      BY <2>7, <3>1 DEF Tells
  <2>12. HandsOver(ns, queue)
    BY <2>2, <2>7, <2>8, <2>9 DEF HandsOver
  <2>13. Creates(ns, queue)
    <3> SUFFICES ASSUME NEW i \in Jobs \ {n}
                 PROVE  /\ ns[i].state = "absent" <=> rows[i].state = "absent"
                        /\ ns[i].state # "absent" /\ ns[i].pull = p /\ ns[i].slot = "shared"
                             => Dead(ns[i]) /\ ns[i].head # h
                        /\ ns[i].pull # p => ns[i] = rows[i]
      <4>1. /\ ns[n].pull = p /\ ns[n].head = h /\ ns[n].slot = "shared" /\ ~Dead(ns[n])
        BY <2>4, <2>9, NewRowTyped
      <4>2. \A m \in Jobs : rows[m].state = "absent" /\ ns[m].state # "absent" => m = n
        BY <1>2, <1>10, <1>11, <2>4 DEF Dead
      <4> QED
        BY <4>1, <4>2 DEF Creates
    <3>1. ns[i] = swept[i] /\ Written(rows[i], ns[i])
      BY <2>4, <2>6
    <3>2. CASE i \in stale
      <4>1. ns[i].state = "stale" /\ ns[i].pull = p /\ ns[i].head = rows[i].head /\ rows[i].head # h
            /\ rows[i].state # "absent"
        BY <1>2, <1>3, <1>5a, <1>8, <3>1, <3>2 DEF Written
      <4> QED
        BY <4>1, StateSets DEF Dead
    <3>3. CASE i \notin stale
      <4>1. ns[i] = rs[i] /\ rs[i].state = rows[i].state /\ Written(rows[i], rs[i])
        BY <1>3, <3>1, <3>3
      <4>2. Exists(i) /\ rows[i].pull = p /\ rs[i].slot = "shared" => Dead(rs[i]) /\ rs[i].head # h
        BY <1>5b, <1>14, <3>3 DEF Holders, JobsOf
      <4>3. Exists(i) => rs[i].pull = rows[i].pull
        BY <4>1 DEF Written, Exists
      <4> QED
        BY <4>1, <4>2, <4>3 DEF Exists
    <3> QED
      BY <3>2, <3>3
  <2> QED
    BY <1>1, <2>4, <2>5, <2>6, <2>10, <2>11, <2>12, <2>13 DEF Handled
<1> QED
  BY <1>13, <1>14

LEMMA DispatchHandled ==
  ASSUME ServiceInv, StaleAreDead, NEW t \in handoffs, Dispatch(t)
  PROVE  \E rs, q, T : Handled(rs, q, T)
<1> DEFINE e == Enqueued(queue, t.job)
           q == AbortedMany(e, t.stale)
<1>1. /\ queue.started /\ (\A j \in Jobs : pc[j] # "returned") /\ handoffs' = handoffs \ {t}
      /\ Commit(rows, q, t.stale) /\ UNCHANGED <<merged, reviews>>
  BY DEF Dispatch, Serving, Idle
<1>2. t.job \in Jobs /\ t.stale \in SUBSET Jobs /\ \A i \in t.stale : Dead(rows[i])
  BY DEF ServiceInv, HandoffsOK, StaleAreDead
<1>3. Sound(queue) /\ Busy(queue) /\ rows \in [Jobs -> Rows] /\ \A j \in Jobs : Written(rows[j], rows[j])
  BY <1>1, QueueFacts
<1>4. /\ Sound(e) /\ Busy(e) /\ e.started /\ Entries(e) = Entries(queue) \union {t.job}
      /\ queue.active \subseteq e.active
  BY <1>1, <1>2, <1>3, EnqueuedSound, OperationEntries
<1> HIDE DEF e
<1>5. /\ Sound(q) /\ q.started /\ q.active = e.active
      /\ Entries(q) \subseteq Entries(e) /\ Entries(e) \ t.stale \subseteq Entries(q)
  BY <1>2, <1>4, AbortedManySound, OperationEntries
<1> HIDE DEF q
<1>6. Feeds(rows, q)
  <2>1. \A j \in Entries(q) \ Entries(queue) : \E u \in handoffs \ handoffs' : u.job = j
    BY <1>1, <1>4, <1>5
  <2>2. \A j \in Entries(queue) \ Entries(q) : Dead(rows[j])
    BY <1>2, <1>4, <1>5
  <2> QED
    BY <1>1, <1>4, <1>5, <2>1, <2>2 DEF Feeds
<1>7. Tells(rows, t.stale)
  BY <1>1, <1>2 DEF Tells
<1>8. HandsOver(rows, q)
  BY <1>1, <1>2, <1>4, <1>5 DEF HandsOver
<1>9. Creates(rows, q)
  BY DEF Creates
<1> QED
  BY <1>1, <1>3, <1>6, <1>7, <1>8, <1>9 DEF Handled

LEMMA ReleaseHandled ==
  ASSUME ServiceInv, NEW j \in Jobs, Release(j)
  PROVE  \E rs, q, T : Handled(rs, q, T)
<1> DEFINE q == Finished(queue, j)
<1>1. pc[j] = "returned" /\ Commit(rows, q, {}) /\ UNCHANGED <<merged, reviews, handoffs>>
  BY DEF Release
<1>2. j \in queue.active
  BY <1>1 DEF ServiceInv, Claimed
<1>3. /\ Sound(queue) /\ queue.started /\ Busy(queue)
      /\ rows \in [Jobs -> Rows] /\ \A i \in Jobs : Written(rows[i], rows[i])
  BY <1>2, QueueFacts
<1>4. /\ Sound(q) /\ q.started /\ Entries(q) = Entries(queue) \ {j}
      /\ queue.active \ {j} \subseteq q.active
  BY <1>2, <1>3, FinishedSound, OperationEntries
<1> HIDE DEF q
<1>5. Feeds(rows, q)
  BY <1>1, <1>3, <1>4 DEF Feeds
<1>6. Tells(rows, {}) /\ HandsOver(rows, q) /\ Creates(rows, q)
  BY <1>1 DEF Tells, HandsOver, Creates
<1> QED
  BY <1>1, <1>3, <1>5, <1>6 DEF Handled

LEMMA BootHandled ==
  ASSUME ServiceInv, Boot
  PROVE  \E rs, q, T : Handled(rs, q, T)
<1> DEFINE interrupted == {j \in Jobs : Active(rows[j])}
           reset == [j \in Jobs |-> IF j \in interrupted THEN [rows[j] EXCEPT !.state = "queued"] ELSE rows[j]]
<1>1. PICK order \in SetToSeqs(interrupted) :
        Commit(reset, Pumped([pending |-> order, active |-> {}, started |-> TRUE]), {})
  BY DEF Boot
<1> DEFINE loaded == [pending |-> order, active |-> {}, started |-> TRUE]
           q == Pumped(loaded)
<1>2. ~queue.started /\ UNCHANGED <<merged, reviews, handoffs>>
  BY DEF Boot
<1>3. /\ queue.active = {} /\ Entries(queue) = {} /\ \A j \in Jobs : rows[j] \in Rows /\ Written(rows[j], rows[j])
  BY <1>2, QueueFacts
<1>4. \A j \in Jobs : pc[j] = "idle"
  BY <1>3 DEF ServiceInv, Claimed
<1>5. Sound(loaded) /\ ToSet(order) = interrupted
  BY LoadedSound
<1>6. Entries(loaded) = interrupted /\ loaded.started
  BY <1>5 DEF Entries
<1> HIDE DEF loaded
<1>7. Sound(q) /\ q.started /\ Entries(q) = interrupted
  BY <1>5, <1>6, PumpedSound, PumpedEntries
<1> HIDE DEF q
<1>8. \A j \in Jobs : IF Active(rows[j]) THEN j \in interrupted /\ reset[j] = [rows[j] EXCEPT !.state = "queued"]
                                         ELSE j \notin interrupted /\ reset[j] = rows[j]
  OBVIOUS
<1>9. \A j \in Jobs : Active(rows[j]) => /\ Written(rows[j], [rows[j] EXCEPT !.state = "queued"])
                                        /\ [rows[j] EXCEPT !.state = "queued"].state = "queued"
  BY <1>3, ResetWritten
<1>10. \A j \in Jobs : Written(rows[j], reset[j]) /\ reset[j] \in Rows
  BY <1>3, <1>8, <1>9 DEF Written
<1>11. reset \in [Jobs -> Rows]
  BY <1>10
<1>12. Commit(reset, q, {})
  BY <1>1 DEF q, loaded
<1> HIDE DEF reset
<1>13. interrupted \subseteq Jobs
  OBVIOUS
<1> HIDE DEF interrupted
<1>14. \A j \in Jobs : IF j \in interrupted THEN reset[j].state = "queued" ELSE reset[j] = rows[j] /\ ~Active(rows[j])
  BY <1>8, <1>9
<1>15. \A j \in Jobs : reset[j].state \notin LiveStates /\ (reset[j].state = "queued" => j \in interrupted)
                       /\ (Dead(reset[j]) => Dead(rows[j])) /\ (j \in interrupted => Due(reset[j]))
  BY <1>14, StateSets DEF Active, Dead, Due
<1>16. Feeds(reset, q)
  BY <1>2, <1>3, <1>7, <1>13, <1>15 DEF Feeds
<1>17. Tells(reset, {}) /\ HandsOver(reset, q) /\ Creates(reset, q)
  <2>1. \A j \in Jobs : rows[j].state = "absent" => reset[j].state = "absent"
    BY <1>8, <1>14, StateSets DEF Active
  <2> QED
    BY <1>2, <1>15, <2>1 DEF Tells, HandsOver, Creates
<1> QED
  BY <1>2, <1>4, <1>10, <1>11, <1>12, <1>15, <1>16, <1>17 DEF Handled

LEMMA RequestsHandled ==
  ASSUME ServiceInv, Known, Requests
  PROVE  Resume \/ \E rs, q, T : Handled(rs, q, T)
<1>0. /\ rows \in [Jobs -> Rows]
      /\ \A j \in Jobs : rows[j] \in Rows /\ Written(rows[j], rows[j])
  BY QueueFacts
<1>1. ASSUME NEW p \in Pulls, NEW h \in Heads, Push(p, h) PROVE \E rs, q, T : Handled(rs, q, T)
  BY <1>0, <1>1, EnqueuePullHandled DEF Push
<1>2. ASSUME NEW p \in Pulls, NEW h \in Heads, ReReview(p, h) PROVE \E rs, q, T : Handled(rs, q, T)
  <2> DEFINE occupant == {j \in Holders(rows, p) : rows[j].head = h}
             rekeyed  == [j \in Jobs |-> IF j \in occupant THEN [rows[j] EXCEPT !.slot = "aside"] ELSE rows[j]]
  <2>1. /\ Serving /\ p \notin merged /\ EnqueuePull(rekeyed, p, h) /\ UNCHANGED <<merged, reviews>>
        /\ "rereview" \in Features /\ \A j \in occupant : Terminal(rows[j])
    BY <1>2 DEF ReReview
  <2> HIDE DEF occupant
  <2>2. \A j \in Jobs : rekeyed[j] = IF j \in occupant THEN [rows[j] EXCEPT !.slot = "aside"] ELSE rows[j]
    OBVIOUS
  <2>3. \A j \in Jobs : LET r == [rows[j] EXCEPT !.slot = "aside"]
                        IN  r.state = rows[j].state /\ r.slot = "aside"
    BY <1>0 DEF Rows
  <2>4. \A j \in Jobs : j \in occupant => Written(rows[j], [rows[j] EXCEPT !.slot = "aside"])
    BY <1>0, <2>1, RekeyWritten
  <2>5. \A j \in Jobs : /\ Written(rows[j], rekeyed[j]) /\ rekeyed[j].state = rows[j].state
                        /\ rekeyed[j].slot = "shared" => rekeyed[j] = rows[j]
                        /\ rekeyed[j] = rows[j] \/ (rows[j].pull = p /\ Exists(j))
    <3>1. \A j \in Jobs : j \in occupant => rows[j].pull = p /\ Exists(j)
      BY DEF occupant, Holders, JobsOf
    <3> QED
      BY <1>0, <2>2, <2>3, <2>4, <3>1
  <2>6. rekeyed \in [Jobs -> Rows]
    <3>1. \A j \in Jobs : rekeyed[j] \in Rows
      BY <2>5 DEF Written
    <3> QED
      BY <3>1
  <2> HIDE DEF rekeyed
  <2> QED
    BY <2>1, <2>5, <2>6, EnqueuePullHandled
<1>3. ASSUME NEW p \in Pulls, Escalate(p) PROVE \E rs, q, T : Handled(rs, q, T)
  <2>1. PICK j \in JobsOf(p) : Commit([rows EXCEPT ![j].manual = TRUE], Enqueued(queue, j), {})
    BY <1>3 DEF Escalate
  <2>2. j \in Jobs /\ Serving /\ UNCHANGED <<merged, handoffs, reviews>> /\ "escalate" \in Features
        /\ rows[j].state # "absent"
    BY <1>3 DEF JobsOf, Escalate, Exists
  <2> DEFINE r == [rows[j] EXCEPT !.manual = TRUE]
  <2>3. Written(rows[j], r)
    BY <1>0, <2>2, ManualWritten
  <2>4. r.state = rows[j].state
    BY <1>0, <2>2 DEF Rows
  <2>5. Commit([rows EXCEPT ![j] = r], Enqueued(queue, j), {})
    BY <1>0, <2>1
  <2> HIDE DEF r
  <2> QED
    BY <2>2, <2>3, <2>4, <2>5, EnqueueHandled
<1>4. ASSUME NEW p \in Pulls, Merge(p) PROVE \E rs, q, T : Handled(rs, q, T)
  <2>1. JobsOf(p) \in SUBSET Jobs
    BY DEF JobsOf
  <2>2. /\ Serving /\ CancelAll(JobsOf(p)) /\ UNCHANGED <<handoffs, reviews>>
        /\ merged' = merged \union {p}
    BY <1>4 DEF Merge
  <2>3. \A j \in Jobs \ JobsOf(p) : Active(rows[j]) => rows[j].pull # p
    BY StateSets DEF JobsOf, Exists, Active
  <2> QED
    BY <2>1, <2>2, <2>3, CancelAllHandled
<1>5. ASSUME NEW j \in Jobs, Retry(j) PROVE \E rs, q, T : Handled(rs, q, T)
  <2>1. PICK again : Commit([rows EXCEPT ![j] = Retried(rows[j], again)], Enqueued(queue, j), {})
    BY <1>5 DEF Retry
  <2>2. /\ rows[j].state \in {"completed", "failed"} /\ rows[j].retries < MaxRetries /\ "retry" \in Features
        /\ Serving /\ UNCHANGED <<merged, handoffs, reviews>>
    BY <1>5 DEF Retry
  <2> DEFINE r == Retried(rows[j], again)
  <2>3. Written(rows[j], r) /\ Due(r)
    BY <1>0, <2>2, RetryWritten
  <2>4. r.state = "queued"
    BY <1>0, <2>2, RetryTyped
  <2>5. Commit([rows EXCEPT ![j] = r], Enqueued(queue, j), {})
    BY <1>0, <2>1
  <2> HIDE DEF r
  <2>6. ~Due(rows[j]) /\ rows[j].state # "absent" /\ r.state \notin DeadStates
    BY <2>2, <2>4, StateSets DEF Due, Dead
  <2> QED
    BY <2>2, <2>3, <2>5, <2>6, EnqueueHandled
<1>6. ASSUME NEW j \in Jobs, Cancel(j) PROVE \E rs, q, T : Handled(rs, q, T)
  <2>1. Serving /\ CancelAll({j}) /\ UNCHANGED <<merged, handoffs, reviews>>
    BY <1>6 DEF Cancel
  <2> QED
    BY <2>1, CancelAllHandled
<1>7. ASSUME Pause PROVE \E rs, q, T : Handled(rs, q, T)
  <2>1. Serving /\ CancelAll(Jobs) /\ UNCHANGED <<merged, handoffs, reviews>>
    BY <1>7 DEF Pause
  <2> QED
    BY <2>1, CancelAllHandled
<1> QED
  BY <1>1, <1>2, <1>3, <1>4, <1>5, <1>6, <1>7 DEF Requests

-----------------------------------------------------------------------------
(* Where a handled turn leaves the row and the run of a job *)

Enters(rs, q, j) ==
  /\ j \in q.active /\ j \notin queue.active /\ pc[j] = "idle"
  /\ Claimable(rs[j], rows'[j], pc'[j]) /\ Evolves(rs[j], rows'[j])
  /\ pc'[j] \in {"returned", "redispatch", "checkout"}

Remains(rs, q, j) ==
  /\ j \in q.active /\ j \in queue.active
  /\ rows'[j] = rs[j] /\ pc'[j] = pc[j]

Absents(rs, q, j) ==
  /\ j \notin q.active
  /\ rows'[j] = rs[j] /\ pc'[j] = "idle" /\ pc[j] \in {"idle", "returned"}

LEMMA HandledRows ==
  ASSUME ServiceInv, NEW rs, NEW q, NEW S, Handled(rs, q, S)
  PROVE  /\ queue' = q /\ aborted' = (aborted \union S) \intersect q.active
         /\ \A j \in Jobs : /\ Enters(rs, q, j) \/ Remains(rs, q, j) \/ Absents(rs, q, j)
                            /\ Dead(rs[j]) => Dead(rows'[j])
<1> DEFINE claimed == q.active \ queue.active
<1>1. /\ queue' = q /\ aborted' = (aborted \union S) \intersect q.active
      /\ rows' = [j \in Jobs |-> IF j \in claimed THEN Entered(rs[j]).row ELSE rs[j]]
      /\ pc' = [j \in Jobs |-> IF j \in claimed THEN Entered(rs[j]).at
                               ELSE IF j \in q.active THEN pc[j] ELSE "idle"]
  BY DEF Handled, Commit
<1>2. \A j \in Jobs : rs[j] \in Rows /\ Claimable(rs[j], Entered(rs[j]).row, Entered(rs[j]).at)
                      /\ Evolves(rs[j], Entered(rs[j]).row)
                      /\ Entered(rs[j]).at \in {"returned", "redispatch", "checkout"}
  BY EnteredFields, EnteredEvolves DEF Handled
<1>3. \A j \in Jobs : /\ j \notin queue.active => pc[j] = "idle"
                      /\ j \in queue.active \ q.active => pc[j] = "returned"
  BY DEF ServiceInv, Claimed, Handled, Feeds
<1>4. ASSUME NEW j \in Jobs
      PROVE  /\ Enters(rs, q, j) \/ Remains(rs, q, j) \/ Absents(rs, q, j)
             /\ Dead(rs[j]) => Dead(rows'[j])
  <2>1. CASE j \in claimed
    <3>1. rows'[j] = Entered(rs[j]).row /\ pc'[j] = Entered(rs[j]).at
      BY <1>1, <2>1
    <3> QED
      BY <1>2, <1>3, <2>1, <3>1 DEF Enters, Evolves, Dead
  <2>2. CASE j \notin claimed
    <3>1. rows'[j] = rs[j] /\ pc'[j] = IF j \in q.active THEN pc[j] ELSE "idle"
      BY <1>1, <2>2
    <3> QED
      BY <1>3, <2>2, <3>1 DEF Remains, Absents
  <2> QED
    BY <2>1, <2>2
<1> QED
  BY <1>1, <1>4

\* Every step, as one of five.
LEMMA NextCases ==
  ASSUME ServiceInv, IdentityInv, StaleAreDead, [Next]_vars
  PROVE  \/ \E rs, q, S : Handled(rs, q, S)
         \/ \E j \in Jobs : Step(j) /\ Ran(j) /\ Published(j)
         \/ Crash \/ Resume \/ UNCHANGED vars
<1>1. CASE Requests
  BY <1>1, RequestsHandled DEF IdentityInv
<1>2. CASE \E t \in handoffs : Dispatch(t)
  BY <1>2, DispatchHandled
<1>3. ASSUME NEW j \in Jobs, Step(j) PROVE Ran(j) /\ Published(j)
  BY <1>3, StepRan, StepPublished
<1>4. CASE \E j \in Jobs : Release(j)
  BY <1>4, ReleaseHandled
<1>5. CASE Boot
  BY <1>5, BootHandled
<1> QED
  BY <1>1, <1>2, <1>3, <1>4, <1>5 DEF Next

-----------------------------------------------------------------------------
(* Rows, runs and signals agree, whatever is switched on *)

\* A job has a slot exactly while it runs, and runs while its row says so.
LiveHasRun ==
  /\ \A j \in queue.active : pc[j] # "idle"
  /\ queue.started => \A j \in Jobs : rows[j].state \in LiveStates => pc[j] \in Working

\* Only dead jobs are signalled, and every run of a dead job is, or will be by
\* the handler that awaits the badge.
Signals ==
  /\ \A j \in aborted : j \in queue.active /\ Dead(rows[j])
  /\ \A j \in Jobs : Dead(rows[j]) /\ pc[j] \in Awaits =>
       j \in aborted \/ \E t \in handoffs : j \in t.stale

AllFit == \A j \in Jobs : Fits(rows[j], pc[j])

RunsInv == StaleAreDead /\ LiveHasRun /\ Signals /\ AllFit

LEMMA HandledRuns ==
  ASSUME ServiceInv, RunsInv, HandoffsOK', NEW rs, NEW q, NEW S, Handled(rs, q, S)
  PROVE  RunsInv'
<1>1. /\ queue' = q /\ aborted' = (aborted \union S) \intersect q.active
      /\ \A j \in Jobs : /\ Enters(rs, q, j) \/ Remains(rs, q, j) \/ Absents(rs, q, j)
                         /\ Dead(rs[j]) => Dead(rows'[j])
  BY HandledRows
<1>2. \A j \in Jobs : Written(rows[j], rs[j]) /\ (rs[j].state \in LiveStates => queue.started)
  BY DEF Handled
<1>3. Tells(rs, S) /\ HandsOver(rs, q) /\ q.active \subseteq Jobs
  BY DEF Handled, Feeds, Sound, Queues
<1>4. /\ "idle" \notin Past /\ "idle" \notin Working /\ "idle" \notin Awaits
      /\ "returned" \notin Working /\ "checkout" \in Working
      /\ Past \subseteq Working /\ Working \subseteq Awaits
  BY DEF Past, Working, Awaits
<1>5. \A j \in Jobs : Dead(rows[j]) => Dead(rs[j]) /\ Dead(rows'[j])
  BY <1>1, <1>2 DEF Written, Dead
<1>6. StaleAreDead'
  <2> SUFFICES ASSUME NEW t \in handoffs', NEW i \in t.stale PROVE Dead(rows'[i])
    BY DEF StaleAreDead, Dead
  <2>1. i \in Jobs
    BY DEF HandoffsOK
  <2>2. Dead(rows[i]) \/ Dead(rs[i])
    BY <1>3 DEF RunsInv, StaleAreDead, HandsOver
  <2> QED
    BY <1>1, <1>5, <2>1, <2>2
<1>7. \A j \in Jobs : Fits(rows[j], pc[j]) /\ (pc[j] \in Working => rows[j].state \in LiveStates \union DeadStates)
  BY DEF RunsInv, AllFit, ServiceInv, RunsOfLiveJobs
<1>8. AllFit'
  <2> SUFFICES ASSUME NEW j \in Jobs PROVE Fits(rows'[j], pc'[j])
    BY DEF AllFit
  <2>1. Terminal(rs[j]) => Quiet(rs[j])
    BY <1>2, <1>7 DEF Written, Fits
  <2>2. CASE Enters(rs, q, j)
    BY <2>1, <2>2 DEF Enters, Claimable
  <2>3. CASE Remains(rs, q, j)
    <3>1. pc[j] \in Past => Quiet(rs[j])
      BY <1>2, <1>4, <1>7 DEF Written, Fits
    <3> QED
      BY <2>1, <2>3, <3>1 DEF Remains, Fits
  <2>4. CASE Absents(rs, q, j)
    BY <1>4, <2>1, <2>4 DEF Absents, Fits
  <2> QED
    BY <1>1, <2>2, <2>3, <2>4
<1>9. LiveHasRun'
  <2>1. \A j \in Jobs : rs[j].state \in LiveStates => pc[j] \in Working
    BY <1>2 DEF Written, RunsInv, LiveHasRun
  <2>2. ASSUME NEW j \in Jobs PROVE /\ j \in q.active => pc'[j] # "idle"
                                    /\ rows'[j].state \in LiveStates => pc'[j] \in Working
    <3>1. CASE Enters(rs, q, j)
      BY <1>4, <2>1, <3>1 DEF Enters, Claimable
    <3>2. CASE Remains(rs, q, j)
      BY <2>1, <3>2 DEF Remains, RunsInv, LiveHasRun
    <3>3. CASE Absents(rs, q, j)
      BY <1>4, <2>1, <3>3 DEF Absents
    <3> QED
      BY <1>1, <3>1, <3>2, <3>3
  <2> QED
    BY <1>1, <1>3, <2>2 DEF LiveHasRun
<1>10. Signals'
  <2>1. \A j \in aborted : Dead(rows[j]) /\ j \in Jobs
    BY QueueFacts DEF RunsInv, Signals
  <2>2. \A j \in S : Dead(rs[j]) /\ j \in Jobs
    BY <1>3 DEF Tells
  <2>3. \A j \in aborted' : j \in queue'.active /\ Dead(rows'[j])
    BY <1>1, <1>5, <2>1, <2>2
  <2>4. ASSUME NEW j \in Jobs, Dead(rows'[j]), pc'[j] \in Awaits
        PROVE  j \in aborted' \/ \E t \in handoffs' : j \in t.stale
    <3>1. CASE Enters(rs, q, j)
      <4>1. pc'[j] \in {"redispatch", "checkout"}
        BY <2>4, <3>1 DEF Enters, Awaits
      <4>2. rows'[j].state \in {"completed", "preparing"}
        BY <3>1, <4>1 DEF Enters, Claimable
      <4> QED
        BY <2>4, <4>2, StateSets DEF Dead
    <3>2. CASE Remains(rs, q, j)
      <4>1. Dead(rs[j]) /\ pc[j] \in Awaits /\ j \in q.active
        BY <2>4, <3>2 DEF Remains
      <4>2. Dead(rows[j]) \/ j \in S \/ \E t \in handoffs' : j \in t.stale
        BY <1>3, <4>1 DEF Tells
      <4>3. Dead(rows[j]) => j \in aborted \/ \E t \in handoffs : j \in t.stale
        BY <4>1 DEF RunsInv, Signals
      <4>4. \A t \in handoffs : t \in handoffs' \/ t.stale \subseteq S
        BY <1>3 DEF Tells
      <4> QED
        BY <1>1, <4>1, <4>2, <4>3, <4>4
    <3>3. CASE Absents(rs, q, j)
      BY <1>4, <2>4, <3>3 DEF Absents
    <3> QED
      BY <1>1, <3>1, <3>2, <3>3
  <2> QED
    BY <2>3, <2>4 DEF Signals, Dead
<1> QED
  BY <1>6, <1>8, <1>9, <1>10 DEF RunsInv

LEMMA StepRuns ==
  ASSUME ServiceInv, RunsInv, NEW j \in Jobs, Ran(j), \A i \in Jobs : Dead(rows[i]) => Dead(rows'[i])
  PROVE  RunsInv'
<1>1. /\ Leg(rows[j], pc[j], j \in aborted, rows'[j], pc'[j])
      /\ \A i \in Jobs \ {j} : rows'[i] = rows[i] /\ pc'[i] = pc[i]
      /\ UNCHANGED <<queue, aborted, handoffs>>
  BY DEF Ran
<1>2. Fits(rows[j], pc[j])
  BY DEF RunsInv, AllFit
<1>3. /\ "idle" \notin Awaits /\ "returned" \notin Awaits /\ "redispatch" \notin Working
      /\ Working = Awaits \ {"redispatch"}
  BY DEF Working, Awaits
<1>4. AllFit'
  BY <1>1, <1>2 DEF RunsInv, AllFit, Leg
<1>5. queue.started
  <2>1. j \in queue.active
    BY <1>1, <1>3 DEF Leg, ServiceInv, Claimed
  <2> QED
    BY <2>1, QueueFacts
<1>6. rows'[j].state \in LiveStates => pc'[j] \in Working
  <2>1. pc[j] = "redispatch" => rows[j].state \notin LiveStates
    BY <1>3, <1>5 DEF RunsInv, LiveHasRun
  <2> QED
    BY <1>1, <1>3, <2>1 DEF Leg
<1>7. LiveHasRun'
  <2>1. \A i \in queue.active : i \in Jobs /\ pc'[i] # "idle"
    BY <1>1, <1>3, QueueFacts DEF RunsInv, LiveHasRun, Leg
  <2> QED
    BY <1>1, <1>6, <2>1 DEF RunsInv, LiveHasRun
<1>8. StaleAreDead'
  BY <1>1 DEF RunsInv, StaleAreDead, ServiceInv, HandoffsOK, Dead
<1>9. Signals'
  <2>1. \A i \in aborted : i \in queue.active /\ Dead(rows'[i])
    BY QueueFacts DEF RunsInv, Signals
  <2>2. Dead(rows'[j]) /\ pc'[j] \in Awaits => Dead(rows[j]) /\ pc[j] \in Awaits
    BY <1>1, <1>3 DEF Leg
  <2>3. \A i \in Jobs : Dead(rows'[i]) /\ pc'[i] \in Awaits => Dead(rows[i]) /\ pc[i] \in Awaits
    BY <1>1, <2>2
  <2> QED
    BY <1>1, <2>1, <2>3 DEF RunsInv, Signals, Dead
<1> QED
  BY <1>4, <1>7, <1>8, <1>9 DEF RunsInv

LEMMA NextRuns == ServiceInv /\ IdentityInv /\ RunsInv /\ [Next]_vars => RunsInv'
<1> SUFFICES ASSUME ServiceInv, IdentityInv, RunsInv, [Next]_vars PROVE RunsInv'
  OBVIOUS
<1>1. HandoffsOK' /\ \A i \in Jobs : Dead(rows[i]) => Dead(rows'[i])
  BY NextEffect DEF Effect, Dead
<1>2. ASSUME NEW rs, NEW q, NEW S, Handled(rs, q, S) PROVE RunsInv'
  BY <1>1, <1>2, HandledRuns
<1>3. ASSUME NEW j \in Jobs, Ran(j) PROVE RunsInv'
  BY <1>1, <1>3, StepRuns
<1>4. CASE Crash
  <2>1. /\ rows' = rows /\ queue' = Stopped /\ pc' = [i \in Jobs |-> "idle"]
        /\ aborted' = {} /\ handoffs' = {}
    BY <1>4 DEF Crash, durable
  <2>2. "idle" \notin Past /\ "idle" \notin Awaits /\ Stopped.active = {} /\ ~Stopped.started
    BY DEF Past, Awaits, Stopped
  <2>3. AllFit'
    BY <2>1, <2>2 DEF RunsInv, AllFit, Fits
  <2> QED
    BY <2>1, <2>2, <2>3 DEF RunsInv, LiveHasRun, Signals, StaleAreDead
<1>5. CASE Resume \/ UNCHANGED vars
  <2>1. UNCHANGED <<rows, queue, pc, aborted, handoffs>>
    BY <1>5 DEF Resume, vars
  <2> QED
    BY <2>1 DEF RunsInv, LiveHasRun, Signals, StaleAreDead, AllFit, Dead
<1> QED
  BY <1>2, <1>3, <1>4, <1>5, NextCases DEF RunsInv

LEMMA InitRuns == Init => RunsInv /\ IdentityInv
<1> SUFFICES ASSUME Init PROVE RunsInv /\ IdentityInv
  OBVIOUS
<1>1. /\ queue = Stopped /\ handoffs = {} /\ aborted = {} /\ pc = [j \in Jobs |-> "idle"]
      /\ \A j \in Jobs : rows[j].state = "absent"
  BY DEF Init, NewRow
<1>2. /\ "idle" \notin Past /\ "idle" \notin Awaits /\ Stopped.active = {} /\ ~Stopped.started
      /\ Entries(Stopped) = {}
  BY DEF Past, Awaits, Stopped, Entries, ToSet
<1>3. \A j \in Jobs : ~Terminal(rows[j]) /\ ~Dead(rows[j])
  BY <1>1, StateSets DEF Terminal, Dead
<1>4. RunsInv
  BY <1>1, <1>2, <1>3 DEF RunsInv, LiveHasRun, Signals, StaleAreDead, AllFit, Fits
<1> QED
  BY <1>1, <1>2, <1>4 DEF IdentityInv, Known, Cur

\* The variables no other invariant speaks of are of their types.
Shapes ==
  /\ merged \subseteq Pulls /\ paused \in BOOLEAN
  /\ reviews \in [Pulls \X Heads -> Nat]
  /\ allowed \in Allowlists /\ crashes \in 0..MaxCrashes

LEMMA TargetTyped == ASSUME ServiceInv, NEW j \in Jobs PROVE Target(j) \in Pulls \X Heads
  BY RowFields DEF ServiceInv, RowsOK, Target

\* What the requests, dispatches, releases and starts leave alone, or add.
LEMMA TurnShapes ==
  ASSUME Shapes,
         \/ Requests \/ (\E t \in handoffs : Dispatch(t)) \/ (\E j \in Jobs : Release(j)) \/ Boot
  PROVE  Shapes' /\ allowed' = allowed
<1>1. ASSUME NEW p \in Pulls, NEW h \in Heads, Push(p, h) \/ ReReview(p, h)
      PROVE  UNCHANGED <<merged, paused, reviews, allowed, crashes>>
  BY <1>1 DEF Push, ReReview
<1>2. ASSUME NEW p \in Pulls, Escalate(p) PROVE UNCHANGED <<merged, paused, reviews, allowed, crashes>>
  BY <1>2 DEF Escalate
<1>3. ASSUME NEW p \in Pulls, Merge(p)
      PROVE  merged' = merged \union {p} /\ UNCHANGED <<paused, reviews, allowed, crashes>>
  BY <1>3 DEF Merge
<1>4. ASSUME NEW j \in Jobs, Retry(j) \/ Cancel(j) PROVE UNCHANGED <<merged, paused, reviews, allowed, crashes>>
  BY <1>4 DEF Retry, Cancel
<1>5. ASSUME Pause \/ Resume PROVE paused' \in BOOLEAN /\ UNCHANGED <<merged, reviews, allowed, crashes>>
  BY <1>5 DEF Pause, Resume
<1>6. ASSUME NEW t \in handoffs, Dispatch(t) PROVE UNCHANGED <<merged, paused, reviews, allowed, crashes>>
  BY <1>6 DEF Dispatch
<1>7. ASSUME NEW j \in Jobs, Release(j) PROVE UNCHANGED <<merged, paused, reviews, allowed, crashes>>
  BY <1>7 DEF Release
<1>8. ASSUME Boot PROVE UNCHANGED <<merged, paused, reviews, allowed, crashes>>
  BY <1>8 DEF Boot
<1>9. \/ UNCHANGED <<merged, paused, reviews, allowed, crashes>>
      \/ \E p \in Pulls : merged' = merged \union {p} /\ UNCHANGED <<paused, reviews, allowed, crashes>>
      \/ paused' \in BOOLEAN /\ UNCHANGED <<merged, reviews, allowed, crashes>>
  BY <1>1, <1>2, <1>3, <1>4, <1>5, <1>6, <1>7, <1>8 DEF Requests
<1> QED
  BY <1>9 DEF Shapes

\* What a crash leaves on the forge: what was there, and what was on its way.
LEMMA CrashReviews ==
  ASSUME ServiceInv, Shapes, Crash
  PROVE  \E landed \in SUBSET {j \in Jobs : pc[j] \in Posting} :
           /\ reviews' = [t \in Pulls \X Heads |-> reviews[t] + Cardinality({j \in landed : Target(j) = t})]
           /\ \A t \in Pulls \X Heads : /\ IsFiniteSet({j \in landed : Target(j) = t})
                                        /\ Cardinality({j \in landed : Target(j) = t}) \in Nat
<1>1. PICK landed \in SUBSET {j \in Jobs : pc[j] \in Posting} :
        reviews' = [t \in Pulls \X Heads |-> reviews[t] + Cardinality({j \in landed : Target(j) = t})]
  BY DEF Crash, Posting
<1>2. \A t \in Pulls \X Heads : /\ IsFiniteSet({j \in landed : Target(j) = t})
                                /\ Cardinality({j \in landed : Target(j) = t}) \in Nat
  <2> SUFFICES ASSUME NEW t \in Pulls \X Heads
               PROVE  /\ IsFiniteSet({j \in landed : Target(j) = t})
                      /\ Cardinality({j \in landed : Target(j) = t}) \in Nat
    OBVIOUS
  <2>1. {j \in landed : Target(j) = t} \subseteq Jobs
    OBVIOUS
  <2> QED
    BY <2>1, QueueAssumption, FS_Subset, FS_CardinalityType
<1> QED
  BY <1>1, <1>2

LEMMA NextShapes == ServiceInv /\ Shapes /\ [Next]_vars => Shapes'
<1> SUFFICES ASSUME ServiceInv, Shapes, [Next]_vars PROVE Shapes'
  OBVIOUS
<1>1. ASSUME NEW j \in Jobs, Step(j) PROVE Shapes'
  <2>1. UNCHANGED <<merged, paused, allowed, crashes>>
    BY <1>1, StepRan DEF Ran
  <2>2. reviews' = reviews \/ reviews' = [reviews EXCEPT ![Target(j)] = reviews[Target(j)] + 1]
    BY <1>1, StepPublished DEF Published, PostsOne
  <2>3. reviews' \in [Pulls \X Heads -> Nat]
    BY <2>2, TargetTyped DEF Shapes
  <2> QED
    BY <2>1, <2>3 DEF Shapes
<1>2. CASE Crash
  <2>1. merged' = merged /\ paused' = paused /\ allowed' \in Allowlists /\ crashes' = crashes + 1 /\ crashes < MaxCrashes
    BY <1>2 DEF Crash, durable
  <2>2. reviews' \in [Pulls \X Heads -> Nat]
    <3>1. PICK landed \in SUBSET {j \in Jobs : pc[j] \in Posting} :
            /\ reviews' = [t \in Pulls \X Heads |-> reviews[t] + Cardinality({j \in landed : Target(j) = t})]
            /\ \A t \in Pulls \X Heads : Cardinality({j \in landed : Target(j) = t}) \in Nat
      BY <1>2, CrashReviews
    <3> DEFINE extra(t) == Cardinality({j \in landed : Target(j) = t})
    <3>2. \A t \in Pulls \X Heads : extra(t) \in Nat /\ reviews[t] \in Nat
      BY <3>1 DEF Shapes
    <3>3. reviews' = [t \in Pulls \X Heads |-> reviews[t] + extra(t)]
      BY <3>1
    <3> HIDE DEF extra
    <3>4. \A t \in Pulls \X Heads : reviews[t] + extra(t) \in Nat
      BY <3>2
    <3> QED
      BY <3>3, <3>4
  <2> QED
    BY <2>1, <2>2, ServiceAssumption DEF Shapes
<1>3. CASE UNCHANGED vars
  BY <1>3 DEF vars, Shapes
<1> QED
  BY <1>1, <1>2, <1>3, TurnShapes DEF Next

\* Everything above, as one inductive invariant.
BaseInv == ServiceInv /\ IdentityInv /\ RunsInv /\ Shapes

LEMMA BaseInvariant == SafeSpec => []BaseInv
<1>1. Init => Shapes
  <2> SUFFICES ASSUME Init PROVE Shapes
    OBVIOUS
  <2>1. merged = {} /\ paused = FALSE /\ allowed \in Allowlists /\ crashes = 0
    BY DEF Init
  <2>2. reviews = [t \in Pulls \X Heads |-> 0]
    BY DEF Init
  <2>3. reviews \in [Pulls \X Heads -> Nat]
    BY <2>2
  <2>4. paused \in BOOLEAN
    BY <2>1
  <2> QED
    BY <2>1, <2>3, <2>4, ServiceAssumption DEF Shapes
<1>2. Init => BaseInv
  BY <1>1, InitOK, InitRuns DEF BaseInv
<1>3. BaseInv /\ [Next]_vars => BaseInv'
  BY NextEffect, NextIdentity, NextRuns, NextShapes DEF BaseInv
<1> QED
  BY <1>2, <1>3, PTL DEF SafeSpec

\* Rows, queue and runs agree at every await, through crashes and restarts: a
\* job has a slot exactly while it runs and runs exactly while its row says so
\* (jobs/queue.ts, jobs/pipeline.ts); and every variable is of its type.
THEOREM RowsAgree == SafeSpec => []RowsMatch
<1>1. BaseInv => RowsMatch
  <2> SUFFICES ASSUME BaseInv PROVE RowsMatch
    OBVIOUS
  <2>1. /\ Sound(queue) /\ rows \in [Jobs -> Rows] /\ queue.active \subseteq Jobs
    BY QueueFacts DEF BaseInv
  <2>2. RunsOfLiveJobs /\ Claimed /\ HandoffsOK /\ LiveHasRun /\ Signals /\ Shapes
    BY DEF BaseInv, ServiceInv, RunsInv
  <2>3. TypeOK
    <3>1. QueueTypeOK
      BY <2>1 DEF Sound, QueueTypeOK
    <3>2. aborted \subseteq queue.active
      BY <2>2 DEF Signals
    <3> QED
      BY <2>1, <2>2, <3>1, <3>2 DEF TypeOK, RunsOfLiveJobs, HandoffsOK, Shapes
  <2>4. RowMatchesRun
    BY <2>2 DEF RowMatchesRun, LiveHasRun, RunsOfLiveJobs, Claimed, Working
  <2> QED
    BY <2>3, <2>4 DEF RowsMatch
<1> QED
  BY <1>1, BaseInvariant, PTL

\* A run whose job died has been signalled or will be by the handler that
\* awaits the badge, and no run is signalled whose job lives (queue.abortMany
\* and its callers).
THEOREM StopsArrive == SafeSpec => []StopsReachRuns
<1>1. BaseInv => StopsReachRuns
  BY QueueFacts DEF BaseInv, RunsInv, Signals, StopsReachRuns
<1> QED
  BY <1>1, BaseInvariant, PTL

\* A job that ended has no reviewer queued or running, not even one that
\* routing adds after its death (setJobState, ensureReviewerRuns, runJob).
THEOREM ReviewersEnd == SafeSpec => []EndedRunsEnded
<1>1. BaseInv => EndedRunsEnded
  BY DEF BaseInv, RunsInv, AllFit, Fits, Quiet, EndedRunsEnded
<1> QED
  BY <1>1, BaseInvariant, PTL

\* External pages fire only for a job that has a review and is neither
\* cancelled nor superseded (runJob's last stale check, jobHasPendingDispatch).
THEOREM PagesAreWanted == SafeSpec => PagesOnlyLive
<1> DEFINE A == \A j \in Jobs : pc[j] # pc'[j] /\ pc'[j] \in {"dispatch", "redispatch"} =>
                  rows[j].reviewed /\ ~Dead(rows[j])
<1>1. BaseInv /\ [Next]_vars => [A]_vars
  <2> SUFFICES ASSUME BaseInv, [Next]_vars PROVE A \/ UNCHANGED vars
    OBVIOUS
  <2>0. ServiceInv /\ IdentityInv /\ StaleAreDead
    BY DEF BaseInv, RunsInv
  <2>1. ASSUME NEW rs, NEW q, NEW S, Handled(rs, q, S) PROVE A
    <3> SUFFICES ASSUME NEW j \in Jobs, pc[j] # pc'[j], pc'[j] \in {"dispatch", "redispatch"}
                 PROVE  rows[j].reviewed /\ ~Dead(rows[j])
      OBVIOUS
    <3>1. Enters(rs, q, j)
      BY <2>0, <2>1, HandledRows DEF Remains, Absents
    <3>2. rs[j].state = "completed" /\ rs[j].reviewed
      BY <3>1 DEF Enters, Claimable
    <3>3. rows[j].state = "completed" /\ rows[j].reviewed
      BY <2>1, <3>2 DEF Handled, Written
    <3> QED
      BY <3>3, StateSets DEF Dead
  <2>2. ASSUME NEW j \in Jobs, Ran(j) PROVE A
    <3> HIDE DEF A
    <3>1. \A i \in Jobs \ {j} : pc'[i] = pc[i]
      BY <2>2 DEF Ran
    <3>2. pc'[j] \in {"dispatch", "redispatch"} => rows[j].reviewed /\ ~Dead(rows[j])
      BY <2>2 DEF Ran, Leg
    <3> QED
      BY <3>1, <3>2 DEF A
  <2>3. CASE Crash
    BY <2>3 DEF Crash
  <2>4. CASE Resume
    BY <2>4 DEF Resume
  <2> HIDE DEF A
  <2> QED
    BY <2>0, <2>1, <2>2, <2>3, <2>4, NextCases
<1>2. [A]_vars => [\A j \in Jobs : pc[j] # pc'[j] /\ pc'[j] \in {"dispatch", "redispatch"} =>
                     rows[j].reviewed /\ ~Dead(rows[j])]_vars
  OBVIOUS
<1> QED
  BY <1>1, BaseInvariant, PTL DEF SafeSpec, PagesOnlyLive

-----------------------------------------------------------------------------
(* Attempts are whole, as long as nobody escalates: an escalation of a queued *)
(* job gives it a second way into the queue                                   *)

AllNeat == \A j \in Jobs : Neat(rows[j], pc[j])

PendingDue == \A j \in Jobs \intersect ToSet(queue.pending) : Due(rows[j])

\* The jobs whose handlers await the badge wait with them, each with one.
HandoffsDue ==
  /\ handoffs # {} => queue.started
  /\ \A t \in handoffs : Due(rows[t.job]) /\ t.job \notin Entries(queue)
  /\ \A t, u \in handoffs : t.job = u.job => t = u

AttemptsInv == AllNeat /\ PendingDue /\ HandoffsDue /\ QueuedIsOwned

LEMMA HandledAttempts ==
  ASSUME ServiceInv, RunsInv, AttemptsInv, "escalate" \notin Features, RunsOfLiveJobs', HandoffsOK',
         NEW rs, NEW q, NEW S, Handled(rs, q, S)
  PROVE  /\ AttemptsInv'
         /\ \A j \in Jobs : Enters(rs, q, j) => Due(rs[j])
<1>1. /\ queue' = q
      /\ \A j \in Jobs : Enters(rs, q, j) \/ Remains(rs, q, j) \/ Absents(rs, q, j)
  BY HandledRows
<1>2. \A j \in Jobs : Written(rows[j], rs[j]) /\ (pc[j] = "returned" => rs[j] = rows[j])
  BY DEF Handled
<1>3. Feeds(rs, q) /\ HandsOver(rs, q)
  BY DEF Handled
<1>4. /\ ToSet(q.pending) \intersect q.active = {} /\ Entries(q) = ToSet(q.pending) \union q.active
      /\ ToSet(queue.pending) \intersect queue.active = {}
      /\ Entries(queue) = ToSet(queue.pending) \union queue.active
      /\ Entries(queue) \subseteq Jobs
  BY <1>3, QueueFacts DEF Feeds, Sound, Entries
<1>5. \A j \in Jobs : Neat(rows[j], pc[j]) /\ (Due(rows[j]) => Due(rs[j]))
  BY <1>2 DEF AttemptsInv, AllNeat, Written
<1>6. \A j \in Jobs : Told(rs[j]) /\ ~rs[j].manual
  BY <1>2, <1>5 DEF Written, Neat
<1>7. \A j \in Jobs : Terminal(rows[j]) \/ Dead(rows[j]) => rows[j].state # "queued"
  BY StateSets DEF Terminal, Dead
<1>8. \A t \in handoffs : t.job \in Jobs
  BY DEF ServiceInv, HandoffsOK
<1>9. ASSUME NEW j \in Jobs, j \in Entries(q), j \notin queue.active PROVE Due(rs[j])
  <2>1. j \in Entries(queue) => Due(rows[j])
    BY <1>4, <1>9 DEF AttemptsInv, PendingDue
  <2>2. j \notin Entries(queue) => Due(rs[j]) \/ Due(rows[j])
    BY <1>3, <1>9 DEF Feeds, AttemptsInv, HandoffsDue
  <2> QED
    BY <1>5, <2>1, <2>2
<1>10. \A j \in Jobs : Enters(rs, q, j) => Due(rs[j])
  BY <1>4, <1>9 DEF Enters
<1>11. AllNeat'
  <2> SUFFICES ASSUME NEW j \in Jobs PROVE Neat(rows'[j], pc'[j])
    BY DEF AllNeat
  <2>1. CASE Enters(rs, q, j)
    BY <1>6, <1>10, <2>1 DEF Enters, Claimable
  <2>2. CASE Remains(rs, q, j)
    BY <1>2, <1>5, <1>6, <2>2 DEF Remains, Neat
  <2>3. CASE Absents(rs, q, j)
    BY <1>6, <2>3 DEF Absents, Neat
  <2> QED
    BY <1>1, <2>1, <2>2, <2>3
<1>12. \A j \in Jobs : j \notin q.active => rows'[j] = rs[j]
  BY <1>1 DEF Enters, Remains, Absents
<1>13. PendingDue'
  <2> SUFFICES ASSUME NEW j \in Jobs, j \in ToSet(q.pending) PROVE Due(rows'[j])
    BY <1>1 DEF PendingDue, Due, Dead
  <2>1. j \in Entries(q) /\ j \notin q.active
    BY <1>4
  <2>2. j \notin queue.active
    BY <1>3, <2>1 DEF Feeds
  <2> QED
    BY <1>9, <1>12, <2>1, <2>2
<1>14. HandoffsDue'
  <2>1. ASSUME NEW t \in handoffs', t \in handoffs
        PROVE  t.job \in Jobs /\ t.job \notin Entries(q) /\ Due(rs[t.job]) /\ rows[t.job].state # "absent"
    <3>1. t.job \in Jobs /\ Due(rows[t.job]) /\ t.job \notin Entries(queue) /\ queue.started
      BY <1>8, <2>1 DEF AttemptsInv, HandoffsDue
    <3>2. \A u \in handoffs \ handoffs' : u.job # t.job
      BY <2>1 DEF AttemptsInv, HandoffsDue
    <3>3. t.job \notin Entries(q)
      BY <1>3, <3>1, <3>2 DEF Feeds
    <3> QED
      BY <1>5, <3>1, <3>3, StateSets DEF Due, Dead
  <2>2. ASSUME NEW t \in handoffs', t \notin handoffs
        PROVE  t.job \in Jobs /\ t.job \notin Entries(q) /\ Due(rs[t.job]) /\ rows[t.job].state = "absent"
    BY <1>3, <2>2 DEF HandsOver, Due, HandoffsOK
  <2>3. \A t \in handoffs' : Due(rows'[t.job]) /\ t.job \notin Entries(q)
    BY <1>4, <1>12, <2>1, <2>2
  <2>4. \A t, u \in handoffs' : t.job = u.job => t = u
    <3> SUFFICES ASSUME NEW t \in handoffs', NEW u \in handoffs', t.job = u.job PROVE t = u
      OBVIOUS
    <3>1. CASE t \in handoffs /\ u \in handoffs
      BY <3>1 DEF AttemptsInv, HandoffsDue
    <3>2. CASE t \notin handoffs /\ u \notin handoffs
      BY <1>3, <3>2 DEF HandsOver
    <3> QED
      BY <2>1, <2>2, <3>1, <3>2
  <2>5. q.started
    BY <1>3 DEF Feeds
  <2> QED
    BY <1>1, <2>3, <2>4, <2>5 DEF HandoffsDue, Due, Dead
<1>15. QueuedIsOwned'
  <2> SUFFICES ASSUME NEW j \in Jobs, rows'[j].state = "queued"
               PROVE  j \in ToSet(q.pending) \/ \E t \in handoffs' : t.job = j
    BY <1>1 DEF QueuedIsOwned
  <2>1. CASE Enters(rs, q, j)
    BY <2>1 DEF Enters, Claimable
  <2>2. CASE Remains(rs, q, j)
    <3>1. pc[j] # "idle" /\ pc[j] # "redispatch"
      BY <1>5, <2>2 DEF Remains, RunsInv, LiveHasRun, Neat
    <3>2. CASE pc[j] = "returned"
      BY <1>2, <1>5, <1>7, <2>2, <3>2 DEF Remains, Neat
    <3>3. CASE pc[j] \in Working
      BY <2>2, <3>3, StateSets DEF Remains, RunsOfLiveJobs
    <3> QED
      BY <3>1, <3>2, <3>3 DEF ServiceInv, RunsOfLiveJobs, Working
  <2>3. CASE Absents(rs, q, j)
    <3>1. rs[j].state = "queued" /\ j \notin q.active /\ ~Dead(rs[j])
      BY <2>3, StateSets DEF Absents, Dead
    <3>2. CASE queue.started /\ rows[j].state = "queued"
      <4>1. pc[j] # "returned"
        BY <1>5, <1>7, <3>2 DEF Neat
      <4>2. j \in Entries(queue) => j \in Entries(q)
        BY <1>3, <3>1, <4>1 DEF Feeds
      <4>3. j \in ToSet(queue.pending) \/ \E t \in handoffs : t.job = j
        BY <3>2 DEF AttemptsInv, QueuedIsOwned
      <4>4. \A t \in handoffs : t.job = j => t \in handoffs' \/ j \in Entries(q)
        BY <1>3, <3>1 DEF HandsOver
      <4> QED
        BY <1>4, <3>1, <4>2, <4>3, <4>4
    <3> QED
      BY <1>3, <1>4, <3>1, <3>2 DEF Feeds
  <2> QED
    BY <1>1, <2>1, <2>2, <2>3
<1> QED
  BY <1>10, <1>11, <1>13, <1>14, <1>15 DEF AttemptsInv

LEMMA StepAttempts ==
  ASSUME ServiceInv, RunsInv, AttemptsInv, NEW j \in Jobs, Ran(j), RunsOfLiveJobs'
  PROVE  AttemptsInv'
<1>1. /\ Leg(rows[j], pc[j], j \in aborted, rows'[j], pc'[j])
      /\ \A i \in Jobs \ {j} : rows'[i] = rows[i] /\ pc'[i] = pc[i]
      /\ UNCHANGED <<queue, handoffs>>
  BY DEF Ran
<1>2. Neat(rows'[j], pc'[j])
  BY <1>1 DEF AttemptsInv, AllNeat, Leg
<1>3. AllNeat'
  BY <1>1, <1>2 DEF AttemptsInv, AllNeat
<1>4. j \in queue.active
  BY <1>1 DEF Leg, Awaits, ServiceInv, Claimed
<1>5. j \notin ToSet(queue.pending) /\ j \in Entries(queue)
  BY <1>4, QueueFacts DEF Sound, Entries
<1>6. PendingDue'
  BY <1>1, <1>5 DEF AttemptsInv, PendingDue, Due, Dead
<1>7. HandoffsDue'
  <2>1. \A t \in handoffs : t.job \in Jobs /\ t.job # j
    BY <1>5 DEF AttemptsInv, HandoffsDue, ServiceInv, HandoffsOK
  <2> QED
    BY <1>1, <2>1 DEF AttemptsInv, HandoffsDue, Due, Dead
<1>8. rows'[j].state # "queued"
  <2>1. pc'[j] \in Working \union {"returned"}
    BY <1>1 DEF Leg, Working
  <2> QED
    BY <1>2, <2>1, StateSets DEF Neat, Terminal, RunsOfLiveJobs
<1>9. QueuedIsOwned'
  BY <1>1, <1>8 DEF AttemptsInv, QueuedIsOwned
<1> QED
  BY <1>3, <1>6, <1>7, <1>9 DEF AttemptsInv

LEMMA NextAttempts ==
  ASSUME "escalate" \notin Features
  PROVE  BaseInv /\ AttemptsInv /\ [Next]_vars => AttemptsInv'
<1> SUFFICES ASSUME BaseInv, AttemptsInv, [Next]_vars PROVE AttemptsInv'
  OBVIOUS
<1>1. ServiceInv /\ IdentityInv /\ RunsInv /\ StaleAreDead
  BY DEF BaseInv, RunsInv
<1>2. RunsOfLiveJobs' /\ HandoffsOK'
  BY <1>1, NextEffect DEF Effect
<1>3. ASSUME NEW rs, NEW q, NEW S, Handled(rs, q, S) PROVE AttemptsInv'
  BY <1>1, <1>2, <1>3, HandledAttempts
<1>4. ASSUME NEW j \in Jobs, Ran(j) PROVE AttemptsInv'
  BY <1>1, <1>2, <1>4, StepAttempts
<1>5. CASE Crash
  <2>1. rows' = rows /\ queue' = Stopped /\ pc' = [i \in Jobs |-> "idle"] /\ handoffs' = {}
    BY <1>5 DEF Crash, durable
  <2>2. ToSet(Stopped.pending) = {} /\ ~Stopped.started
    BY DEF Stopped, ToSet
  <2>3. AllNeat'
    BY <2>1 DEF AttemptsInv, AllNeat, Neat
  <2> QED
    BY <2>1, <2>2, <2>3 DEF AttemptsInv, PendingDue, HandoffsDue, QueuedIsOwned
<1>6. CASE Resume \/ UNCHANGED vars
  <2>1. UNCHANGED <<rows, queue, pc, handoffs>>
    BY <1>6 DEF Resume, vars
  <2> QED
    BY <2>1 DEF AttemptsInv, AllNeat, PendingDue, HandoffsDue, QueuedIsOwned, Due, Dead
<1> QED
  BY <1>1, <1>3, <1>4, <1>5, <1>6, NextCases

LEMMA InitAttempts == Init => AttemptsInv
<1> SUFFICES ASSUME Init PROVE AttemptsInv
  OBVIOUS
<1> DEFINE p == CHOOSE p \in Pulls : TRUE
           h == CHOOSE h \in Heads : TRUE
           r == [NewRow(p, h) EXCEPT !.state = "absent"]
<1>1. /\ rows = [j \in Jobs |-> r] /\ queue = Stopped /\ handoffs = {} /\ pc = [j \in Jobs |-> "idle"]
  BY DEF Init
<1> HIDE DEF p, h
<1>2. r.state = "absent" /\ r.lines = 0 /\ r.manual = FALSE
  BY DEF NewRow
<1> HIDE DEF r
<1>3. ToSet(Stopped.pending) = {} /\ ~Stopped.started
  BY DEF Stopped, ToSet
<1>4. Neat(r, "idle")
  BY <1>2, StateSets DEF Neat, Told, Terminal
<1> QED
  BY <1>1, <1>3, <1>4 DEF AttemptsInv, AllNeat, PendingDue, HandoffsDue, QueuedIsOwned

\* Where nobody escalates, a queued job always has someone who will start it,
\* an ended one leaves no reviewer behind, and each attempt is told of exactly
\* once ("one line per attempt", README.md:329), through crashes and retries.
THEOREM AttemptsEndWhole ==
  ASSUME "escalate" \notin Features
  PROVE  SafeSpec => []AttemptsAreWhole
<1>1. AttemptsInv => QueuedIsOwned /\ OneLinePerAttempt
  BY DEF AttemptsInv, AllNeat, Neat, Told, OneLinePerAttempt
<1>2. BaseInv /\ AttemptsInv /\ [Next]_vars => AttemptsInv'
  BY NextAttempts
<1>3. BaseInv => EndedRunsEnded
  BY DEF BaseInv, RunsInv, AllFit, Fits, Quiet, EndedRunsEnded
<1>4. BaseInv /\ AttemptsInv => AttemptsAreWhole
  BY <1>1, <1>3 DEF AttemptsAreWhole
<1> QED
  BY <1>2, <1>4, InitAttempts, BaseInvariant, PTL DEF SafeSpec

-----------------------------------------------------------------------------
(* Merged pulls, and jobs that gave up their slot *)

LEMMA StepEvolves == ASSUME ServiceInv, NEW j \in Jobs, Step(j) PROVE Evolves(rows[j], rows'[j])
<1>1. RowsOK /\ RunsOfLiveJobs
  BY DEF ServiceInv
<1>2. PICK r, a : Turn(j, r, a)
  BY <1>1, StepTurns
<1>3. rows' = [rows EXCEPT ![j] = r] /\ Evolves(rows[j], r)
  BY <1>2 DEF Turn, Goes
<1>4. rows'[j] = r
  BY <1>1, <1>3 DEF RowsOK
<1> QED
  BY <1>3, <1>4

\* What no handled turn changes in a row it has written.
LEMMA HandledIdentity ==
  ASSUME ServiceInv, NEW rs, NEW q, NEW S, Handled(rs, q, S)
  PROVE  \A j \in Jobs : /\ rows'[j].pull = rs[j].pull /\ rows'[j].head = rs[j].head
                         /\ rows'[j].slot = rs[j].slot /\ rows'[j] \in Rows
                         /\ rows'[j].state = "absent" => rs[j].state = "absent"
<1>1. \A j \in Jobs : Enters(rs, q, j) \/ Remains(rs, q, j) \/ Absents(rs, q, j)
  BY HandledRows
<1>2. \A j \in Jobs : rs[j] \in Rows
  BY DEF Handled
<1> QED
  BY <1>1, <1>2 DEF Enters, Remains, Absents, Evolves

\* No slot is given to a row that does not exist.
LEMMA AbsentStays ==
  ASSUME ServiceInv, Known, NEW rs, NEW q, NEW S, Handled(rs, q, S), NEW j \in Jobs, rs[j].state = "absent"
  PROVE  rows'[j].state = "absent"
<1>1. Enters(rs, q, j) \/ Remains(rs, q, j) \/ Absents(rs, q, j)
  BY HandledRows
<1>2. CASE Enters(rs, q, j)
  <2>1. rows[j].state = "absent"
    BY DEF Handled, Written
  <2>2. j \in Entries(q) /\ j \notin Entries(queue) /\ \A t \in handoffs : t.job # j
    BY <1>2, <2>1 DEF Enters, Entries, Known, Exists
  <2>3. ~Due(rs[j])
    BY StateSets DEF Due, Dead
  <2> QED
    BY <2>2, <2>3 DEF Handled, Feeds
<1> QED
  BY <1>1, <1>2 DEF Remains, Absents

\* Without retries and escalations a job that is over stays over, so what is
\* active was so, or is new and of a pull that is not merged.
LEMMA HandledActive ==
  ASSUME "retry" \notin Features, "escalate" \notin Features,
         ServiceInv, RunsInv, AttemptsInv, RunsOfLiveJobs', HandoffsOK',
         NEW rs, NEW q, NEW S, Handled(rs, q, S), NEW j \in Jobs, Active(rows'[j])
  PROVE  /\ \/ Active(rows[j]) /\ rows'[j].pull = rows[j].pull
            \/ rows[j].state = "absent" /\ rows'[j].pull \notin merged
         /\ rows'[j].pull \notin merged' \ merged
<1>1. Enters(rs, q, j) \/ Remains(rs, q, j) \/ Absents(rs, q, j)
  BY HandledRows
<1>2. Enters(rs, q, j) => Due(rs[j])
  BY HandledAttempts
<1>3. Active(rs[j])
  BY <1>1, <1>2 DEF Enters, Claimable, Remains, Absents
<1>4. rows'[j].pull = rs[j].pull
  BY HandledIdentity
<1>5. Written(rows[j], rs[j]) /\ rs[j].pull \notin merged' \ merged
  BY <1>3 DEF Handled
<1>6. Active(rows[j]) => rows[j].state # "absent"
  BY StateSets DEF Active
<1> QED
  BY <1>3, <1>4, <1>5, <1>6 DEF Written

LEMMA NextMerged ==
  ASSUME "retry" \notin Features, "escalate" \notin Features
  PROVE  BaseInv /\ AttemptsInv /\ MergedIsQuiet /\ [Next]_vars => MergedIsQuiet'
<1> SUFFICES ASSUME BaseInv, AttemptsInv, MergedIsQuiet, [Next]_vars, NEW j \in Jobs, Active(rows'[j])
             PROVE  rows'[j].pull \notin merged'
  BY DEF MergedIsQuiet, Active
<1>1. ServiceInv /\ IdentityInv /\ RunsInv /\ StaleAreDead /\ RunsOfLiveJobs' /\ HandoffsOK'
  BY NextEffect DEF BaseInv, RunsInv, Effect
<1>2. ASSUME NEW rs, NEW q, NEW S, Handled(rs, q, S) PROVE rows'[j].pull \notin merged'
  <2>1. /\ \/ Active(rows[j]) /\ rows'[j].pull = rows[j].pull
           \/ rows[j].state = "absent" /\ rows'[j].pull \notin merged
        /\ rows'[j].pull \notin merged' \ merged
    BY <1>1, <1>2, HandledActive
  <2> QED
    BY <2>1 DEF MergedIsQuiet
<1>3. ASSUME NEW i \in Jobs, Step(i), Ran(i) PROVE rows'[j].pull \notin merged'
  <2>1. merged' = merged /\ Evolves(rows[i], rows'[i]) /\ (Active(rows'[i]) => Active(rows[i]))
        /\ \A k \in Jobs \ {i} : rows'[k] = rows[k]
    BY <1>1, <1>3, StepEvolves DEF Ran, Leg
  <2>2. Active(rows[j]) /\ rows'[j].pull = rows[j].pull
    BY <2>1 DEF Evolves
  <2> QED
    BY <2>1, <2>2 DEF MergedIsQuiet
<1>4. CASE Crash \/ Resume \/ UNCHANGED vars
  <2>1. rows' = rows /\ merged' = merged
    BY <1>4 DEF Crash, durable, Resume, vars
  <2> QED
    BY <2>1 DEF MergedIsQuiet
<1> QED
  BY <1>1, <1>2, <1>3, <1>4, NextCases

LEMMA AttemptsInvariant == ASSUME "escalate" \notin Features PROVE SafeSpec => []AttemptsInv
<1>1. BaseInv /\ AttemptsInv /\ [Next]_vars => AttemptsInv'
  BY NextAttempts
<1> QED
  BY <1>1, InitAttempts, BaseInvariant, PTL DEF SafeSpec

LEMMA InitAbsent == Init => \A j \in Jobs : rows[j].state = "absent" /\ rows[j].slot = "shared"
<1> SUFFICES ASSUME Init PROVE \A j \in Jobs : rows[j].state = "absent" /\ rows[j].slot = "shared"
  OBVIOUS
<1> DEFINE p == CHOOSE p \in Pulls : TRUE
           h == CHOOSE h \in Heads : TRUE
           r == [NewRow(p, h) EXCEPT !.state = "absent"]
<1>1. rows = [j \in Jobs |-> r]
  BY DEF Init
<1> HIDE DEF p, h
<1>2. r.state = "absent" /\ r.slot = "shared"
  BY DEF NewRow
<1> HIDE DEF r
<1> QED
  BY <1>1, <1>2

NoneMerged == merged = {}

\* Without the closed event no merge is recorded.
LEMMA NoMerges == ASSUME "merge" \notin Features PROVE SafeSpec => []NoneMerged
<1>1. BaseInv /\ NoneMerged /\ [Next]_vars => NoneMerged'
  <2> SUFFICES ASSUME BaseInv, [Next]_vars PROVE merged' = merged
    BY DEF NoneMerged
  <2>1. ASSUME NEW j \in Jobs, Step(j) PROVE merged' = merged
    BY <2>1, StepRan DEF BaseInv, RunsInv, Ran
  <2>2. CASE Requests
    BY <2>2 DEF Requests, Push, ReReview, Escalate, Merge, Retry, Cancel, Pause, Resume
  <2> QED
    BY <2>1, <2>2 DEF Next, vars, Dispatch, Release, Crash, durable, Boot
<1>2. Init => NoneMerged
  BY DEF Init, NoneMerged
<1> QED
  BY <1>1, <1>2, BaseInvariant, PTL DEF SafeSpec

\* "once the merge is recorded, Maomao never starts a review for one"
\* (README.md:565): where no button and no command re-runs an ended job, a
\* merged pull has no job waiting or running, whatever was on its way.
THEOREM MergesHold ==
  ASSUME "merge" \notin Features \/ ("retry" \notin Features /\ "escalate" \notin Features)
  PROVE  SafeSpec => []MergedIsQuiet
<1>1. CASE "retry" \notin Features /\ "escalate" \notin Features
  <2>1. BaseInv /\ AttemptsInv /\ MergedIsQuiet /\ [Next]_vars => MergedIsQuiet'
    BY <1>1, NextMerged
  <2>2. Init => MergedIsQuiet
    BY InitAbsent, StateSets DEF MergedIsQuiet, Active
  <2>3. SafeSpec => []AttemptsInv
    BY <1>1, AttemptsInvariant
  <2> QED
    BY <2>1, <2>2, <2>3, BaseInvariant, PTL DEF SafeSpec
<1>2. CASE "merge" \notin Features
  <2>1. NoneMerged => MergedIsQuiet
    BY DEF MergedIsQuiet, NoneMerged
  <2>2. SafeSpec => []NoneMerged
    BY <1>2, NoMerges
  <2> QED
    BY <2>1, <2>2, PTL
<1> QED
  BY <1>1, <1>2

NoneAside == \A j \in Jobs : rows[j].slot = "shared"

AsideEnded == \A j \in Jobs : rows[j].slot = "aside" => Terminal(rows[j])

LEMMA NextNoneAside ==
  ASSUME "rereview" \notin Features
  PROVE  BaseInv /\ NoneAside /\ [Next]_vars => NoneAside'
<1> SUFFICES ASSUME BaseInv, NoneAside, [Next]_vars, NEW j \in Jobs PROVE rows'[j].slot = "shared"
  BY DEF NoneAside
<1>1. ServiceInv /\ IdentityInv /\ StaleAreDead
  BY DEF BaseInv, RunsInv
<1>2. ASSUME NEW rs, NEW q, NEW S, Handled(rs, q, S) PROVE rows'[j].slot = "shared"
  <2>1. rows'[j].slot = rs[j].slot /\ rs[j] \in Rows /\ Written(rows[j], rs[j])
    BY <1>1, <1>2, HandledIdentity DEF Handled
  <2>2. rs[j].slot \in {"shared", "aside"}
    BY <2>1, RowFields
  <2> QED
    BY <2>1, <2>2 DEF Written, NoneAside
<1>3. ASSUME NEW i \in Jobs, Step(i), Ran(i) PROVE rows'[j].slot = "shared"
  BY <1>1, <1>3, StepEvolves DEF Ran, Evolves, NoneAside
<1>4. CASE Crash \/ Resume \/ UNCHANGED vars
  BY <1>4 DEF Crash, durable, Resume, vars, NoneAside
<1> QED
  BY <1>1, <1>2, <1>3, <1>4, NextCases

LEMMA NextAsideEnded ==
  ASSUME "retry" \notin Features, "escalate" \notin Features
  PROVE  BaseInv /\ AttemptsInv /\ AsideEnded /\ [Next]_vars => AsideEnded'
<1> SUFFICES ASSUME BaseInv, AttemptsInv, AsideEnded, [Next]_vars, NEW j \in Jobs, rows'[j].slot = "aside"
             PROVE  Terminal(rows'[j])
  BY DEF AsideEnded, Terminal
<1>1. ServiceInv /\ IdentityInv /\ RunsInv /\ StaleAreDead /\ RunsOfLiveJobs' /\ HandoffsOK'
  BY NextEffect DEF BaseInv, RunsInv, Effect
<1>2. \A r \in Rows : r.state # "absent" /\ ~Active(r) => Terminal(r)
  BY StateSets, RowFields DEF Active, Terminal
<1>3. ASSUME NEW i \in Jobs, rows[i].slot = "aside" PROVE Terminal(rows[i]) /\ ~Active(rows[i]) /\ rows[i].state # "absent"
  BY <1>3, StateSets DEF AsideEnded, Terminal, Active
<1>4. ASSUME NEW rs, NEW q, NEW S, Handled(rs, q, S) PROVE Terminal(rows'[j])
  <2>1. /\ rows'[j] \in Rows /\ rs[j].slot = "aside" /\ Written(rows[j], rs[j])
        /\ rows'[j].state = "absent" => rs[j].state = "absent"
    BY <1>1, <1>4, HandledIdentity DEF Handled
  <2>2. Active(rows'[j]) => Active(rows[j]) \/ rows[j].state = "absent"
    BY <1>1, <1>4, HandledActive
  <2>3. CASE rows[j].slot = "aside"
    <3>1. rs[j].state # "absent" /\ ~Active(rows'[j])
      BY <1>3, <2>1, <2>2, <2>3 DEF Written
    <3> QED
      BY <1>2, <2>1, <3>1
  <2>4. CASE Terminal(rs[j])
    <3>1. Enters(rs, q, j) \/ Remains(rs, q, j) \/ Absents(rs, q, j)
      BY <1>1, <1>4, HandledRows
    <3>2. CASE Enters(rs, q, j)
      <4>1. Due(rs[j])
        BY <1>1, <1>4, <3>2, HandledAttempts
      <4>2. ~Active(rs[j]) /\ rs[j].state # "absent"
        BY <2>4, StateSets DEF Terminal, Active
      <4>3. ~Active(rows'[j])
        BY <3>2, <4>1, <4>2 DEF Enters, Claimable
      <4> QED
        BY <1>2, <2>1, <4>2, <4>3
    <3> QED
      BY <2>4, <3>1, <3>2 DEF Remains, Absents
  <2> QED
    BY <2>1, <2>3, <2>4 DEF Written
<1>5. ASSUME NEW i \in Jobs, Step(i), Ran(i) PROVE Terminal(rows'[j])
  <2>1. Evolves(rows[i], rows'[i]) /\ (Active(rows'[i]) => Active(rows[i]))
        /\ \A k \in Jobs \ {i} : rows'[k] = rows[k]
    BY <1>1, <1>5, StepEvolves DEF Ran, Leg
  <2>2. rows[j].slot = "aside" /\ (j = i => ~Active(rows'[j]) /\ rows'[j].state # "absent" /\ rows'[j] \in Rows)
    BY <1>3, <2>1 DEF Evolves
  <2> QED
    BY <1>2, <1>3, <2>1, <2>2
<1>6. CASE Crash \/ Resume \/ UNCHANGED vars
  BY <1>3, <1>6 DEF Crash, durable, Resume, vars
<1> QED
  BY <1>1, <1>4, <1>5, <1>6, NextCases

LEMMA NoneAsideInvariant == ASSUME "rereview" \notin Features PROVE SafeSpec => []NoneAside
<1>1. BaseInv /\ NoneAside /\ [Next]_vars => NoneAside'
  BY NextNoneAside
<1>2. Init => NoneAside
  BY InitAbsent DEF NoneAside
<1> QED
  BY <1>1, <1>2, BaseInvariant, PTL DEF SafeSpec

LEMMA AsideInvariant ==
  ASSUME "rereview" \notin Features \/ ("retry" \notin Features /\ "escalate" \notin Features)
  PROVE  SafeSpec => []AsideEnded
<1>1. CASE "rereview" \notin Features
  <2>1. NoneAside => AsideEnded
    BY DEF NoneAside, AsideEnded
  <2> QED
    BY <1>1, <2>1, NoneAsideInvariant, PTL
<1>2. CASE "retry" \notin Features /\ "escalate" \notin Features
  <2>1. BaseInv /\ AttemptsInv /\ AsideEnded /\ [Next]_vars => AsideEnded'
    BY <1>2, NextAsideEnded
  <2>2. Init => AsideEnded
    BY InitAbsent DEF AsideEnded
  <2> QED
    BY <1>2, <2>1, <2>2, AttemptsInvariant, BaseInvariant, PTL DEF SafeSpec
<1> QED
  BY <1>1, <1>2

\* "Every job is unique on (repository, PR number, head SHA)" (README.md:39):
\* no two jobs wait for, or work on, the same head, as long as a job that gave
\* its slot to a re-review is not run again.
THEOREM OneJobEach ==
  ASSUME "rereview" \notin Features \/ ("retry" \notin Features /\ "escalate" \notin Features)
  PROVE  SafeSpec => []OneJobPerHead
<1>1. BaseInv /\ AsideEnded => OneJobPerHead
  <2> SUFFICES ASSUME BaseInv, AsideEnded, NEW i \in Jobs, NEW j \in Jobs, i # j,
                      Active(rows[i]), Active(rows[j]), Target(i) = Target(j)
               PROVE  FALSE
    BY DEF OneJobPerHead
  <2>1. rows[i].pull = rows[j].pull
    BY DEF Target
  <2>2. \A k \in Jobs : Active(rows[k]) => /\ rows[k].slot = "shared" /\ rows[k].state # "absent"
                                          /\ ~Dead(rows[k])
    BY RowFields, StateSets DEF BaseInv, ServiceInv, RowsOK, AsideEnded, Active, Terminal, Dead
  <2> QED
    BY <2>1, <2>2 DEF BaseInv, IdentityInv, Cur
<1> QED
  BY <1>1, AsideInvariant, BaseInvariant, PTL

\* A review is decided only for a job that is alive, not paused, not merged,
\* and at the head its pull is at (throwIfStale before the POST, the sweep of
\* store.enqueue), where ended jobs of merged pulls are not run again.
THEOREM PostsCurrent ==
  ASSUME "merge" \notin Features \/ ("retry" \notin Features /\ "escalate" \notin Features)
  PROVE  SafeSpec => PostsOnlyCurrent
<1> DEFINE A == \A j \in Jobs : pc[j] # "post" /\ pc'[j] = "post" =>
                  /\ ~Dead(rows[j]) /\ ~paused
                  /\ rows[j].pull \notin merged
                  /\ \A i \in Holders(rows, rows[j].pull) :
                       rows[i].head # rows[j].head => Dead(rows[i]) \/ rows[j].slot = "aside"
<1>1. BaseInv /\ PausedIsQuiet /\ MergedIsQuiet /\ [Next]_vars => [A]_vars
  <2> SUFFICES ASSUME BaseInv, PausedIsQuiet, MergedIsQuiet, [Next]_vars PROVE A \/ UNCHANGED vars
    OBVIOUS
  <2>0. ServiceInv /\ IdentityInv /\ StaleAreDead
    BY DEF BaseInv, RunsInv
  <2> SUFFICES ASSUME ~ UNCHANGED vars, NEW j \in Jobs, pc[j] # "post", pc'[j] = "post"
               PROVE  /\ ~Dead(rows[j]) /\ ~paused
                      /\ rows[j].pull \notin merged
                      /\ \A i \in Holders(rows, rows[j].pull) :
                           rows[i].head # rows[j].head => Dead(rows[i]) \/ rows[j].slot = "aside"
    OBVIOUS
  <2>1. \A rs, q, S : ~Handled(rs, q, S)
    BY <2>0, HandledRows DEF Enters, Remains, Absents
  <2>2. ~Crash /\ ~Resume
    BY DEF Crash, Resume
  <2>3. PICK i \in Jobs : Ran(i) /\ Published(i)
    BY <2>0, <2>1, <2>2, NextCases
  <2>4. i = j /\ pc[j] = "summaries" /\ ~Dead(rows[j])
    BY <2>3 DEF Ran, Published, Stop, IsStale
  <2>5. rows[j].state \in LiveStates
    BY <2>0, <2>4 DEF ServiceInv, RunsOfLiveJobs, Working, Awaits, Dead
  <2>6. Active(rows[j]) /\ rows[j].state # "absent"
    BY <2>5, StateSets DEF Active
  <2>7. ASSUME NEW k \in Holders(rows, rows[j].pull), rows[k].head # rows[j].head
        PROVE  Dead(rows[k]) \/ rows[j].slot = "aside"
    <3>1. k \in Jobs /\ k # j /\ rows[k].state # "absent" /\ rows[k].pull = rows[j].pull /\ rows[k].slot = "shared"
      BY <2>7 DEF Holders, JobsOf, Exists
    <3>2. rows[j].slot \in {"shared", "aside"}
      BY RowFields DEF BaseInv, ServiceInv, RowsOK
    <3> QED
      BY <2>4, <2>6, <3>1, <3>2 DEF BaseInv, IdentityInv, Cur
  <2> QED
    BY <2>4, <2>5, <2>6, <2>7 DEF PausedIsQuiet, MergedIsQuiet
<1> QED
  BY <1>1, MergesHold, PauseHolds, BaseInvariant, PTL DEF SafeSpec, PostsOnlyCurrent

-----------------------------------------------------------------------------
(* One review per head, as long as the forge's replies are not lost and no   *)
(* re-review runs beside the job it replaces                                 *)

\* No two jobs of one head, and all of them in the shared slot.
DistinctHeads ==
  /\ NoneAside
  /\ \A i, j \in Jobs : i # j /\ Exists(i) /\ Exists(j) => Target(i) # Target(j)

\* A head whose review is being posted has none.
Once ==
  /\ OneReviewPerHead
  /\ \A j \in Jobs : pc[j] \in Posting => reviews[Target(j)] = 0

\* No two runs work on one head: there is one slot, or one job.
Apart == \A i, j \in Jobs : i # j /\ pc[i] \in Working /\ pc[j] \in Working => Target(i) # Target(j)

LEMMA WorkingExists ==
  ASSUME ServiceInv, NEW j \in Jobs, pc[j] \in Working
  PROVE  rows[j].state # "absent" /\ j \in queue.active
<1>1. "idle" \notin Working
  BY DEF Working, Awaits
<1> QED
  BY <1>1, StateSets DEF ServiceInv, RunsOfLiveJobs, Claimed

LEMMA NextDistinct ==
  ASSUME "rereview" \notin Features
  PROVE  BaseInv /\ DistinctHeads /\ [Next]_vars => DistinctHeads'
<1> SUFFICES ASSUME BaseInv, DistinctHeads, [Next]_vars PROVE DistinctHeads'
  OBVIOUS
<1>0. ServiceInv /\ IdentityInv /\ StaleAreDead
  BY DEF BaseInv, RunsInv
<1>1. NoneAside'
  BY NextNoneAside DEF DistinctHeads
<1>2. ASSUME NEW rs, NEW q, NEW S, Handled(rs, q, S) PROVE DistinctHeads'
  <2> SUFFICES ASSUME NEW i \in Jobs, NEW j \in Jobs, i # j, Exists(i)', Exists(j)',
                      rows'[i].pull = rows'[j].pull, rows'[i].head = rows'[j].head
               PROVE  FALSE
    BY <1>1 DEF DistinctHeads, Target
  <2>1. \A k \in Jobs : /\ rows'[k].pull = rs[k].pull /\ rows'[k].head = rs[k].head
                        /\ rows'[k].slot = rs[k].slot
    BY <1>0, <1>2, HandledIdentity
  <2>2. \A k \in Jobs : rs[k].state = "absent" => rows'[k].state = "absent"
    BY <1>0, <1>2, AbsentStays DEF IdentityInv
  <2>3. rs[i].state # "absent" /\ rs[j].state # "absent" /\ rs[i].slot = "shared" /\ rs[j].slot = "shared"
        /\ rs[i].pull = rs[j].pull /\ rs[i].head = rs[j].head
    BY <1>1, <2>1, <2>2 DEF Exists, NoneAside
  <2>4. CASE rows[i].state = "absent" \/ rows[j].state = "absent"
    BY <1>2, <2>3, <2>4 DEF Handled, Creates
  <2>5. CASE rows[i].state # "absent" /\ rows[j].state # "absent"
    <3>1. /\ rs[i].pull = rows[i].pull /\ rs[i].head = rows[i].head
          /\ rs[j].pull = rows[j].pull /\ rs[j].head = rows[j].head
      BY <1>2, <2>5 DEF Handled, Written
    <3> QED
      BY <2>3, <2>5, <3>1 DEF DistinctHeads, Target, Exists
  <2> QED
    BY <2>4, <2>5
<1>3. ASSUME NEW k \in Jobs, Step(k), Ran(k) PROVE DistinctHeads'
  <2>1. /\ Evolves(rows[k], rows'[k]) /\ \A i \in Jobs \ {k} : rows'[i] = rows[i]
    BY <1>0, <1>3, StepEvolves DEF Ran
  <2>2. rows[k].state # "absent"
    <3>1. k \in queue.active
      BY <1>0, <1>3 DEF Ran, Leg, Awaits, ServiceInv, Claimed
    <3> QED
      BY <3>1 DEF BaseInv, IdentityInv, Known, Entries, Exists
  <2>3. \A i \in Jobs : rows'[i].pull = rows[i].pull /\ rows'[i].head = rows[i].head
                        /\ (Exists(i)' => Exists(i))
    BY <2>1, <2>2 DEF Evolves, Exists
  <2> QED
    BY <1>1, <2>3 DEF DistinctHeads, Target
<1>4. CASE Crash \/ Resume \/ UNCHANGED vars
  <2>1. rows' = rows
    BY <1>4 DEF Crash, durable, Resume, vars
  <2> QED
    BY <1>1, <2>1 DEF DistinctHeads, Target, Exists
<1> QED
  BY <1>0, <1>2, <1>3, <1>4, NextCases

LEMMA ApartInvariant ==
  ASSUME Concurrency = 1 \/ "rereview" \notin Features
  PROVE  SafeSpec => []Apart
<1>1. CASE "rereview" \notin Features
  <2>1. BaseInv /\ DistinctHeads /\ [Next]_vars => DistinctHeads'
    BY <1>1, NextDistinct
  <2>2. Init => DistinctHeads
    BY InitAbsent DEF DistinctHeads, NoneAside, Exists
  <2>3. BaseInv /\ DistinctHeads => Apart
    BY WorkingExists DEF BaseInv, DistinctHeads, Apart, Exists
  <2> QED
    BY <2>1, <2>2, <2>3, BaseInvariant, PTL DEF SafeSpec
<1>2. CASE Concurrency = 1
  <2>1. BaseInv => Apart
    <3> SUFFICES ASSUME BaseInv, NEW i \in Jobs, NEW j \in Jobs, i # j, pc[i] \in Working, pc[j] \in Working
                 PROVE  FALSE
      BY DEF Apart
    <3>1. i \in queue.active /\ j \in queue.active
      BY WorkingExists DEF BaseInv
    <3>2. queue.active \subseteq Jobs /\ Cardinality(queue.active) <= 1
      BY <1>2, QueueFacts DEF BaseInv, Sound
    <3>3. IsFiniteSet(queue.active) /\ IsFiniteSet({})
      BY <3>2, QueueAssumption, FS_Subset, FS_EmptySet
    <3>4. Cardinality({i}) = 1 /\ IsFiniteSet({i})
      BY FS_Singleton
    <3>5. Cardinality({i} \union {j}) = 2
      <4>1. j \notin {i}
        OBVIOUS
      <4>2. Cardinality({i} \union {j}) = Cardinality({i}) + 1
        BY <3>4, <4>1, FS_AddElement
      <4> QED
        BY <3>4, <4>2
    <3>6. {i} \union {j} \subseteq queue.active
      BY <3>1
    <3>7. Cardinality({i} \union {j}) <= Cardinality(queue.active)
      BY <3>3, <3>6, FS_Subset
    <3>8. Cardinality(queue.active) \in Nat
      BY <3>3, FS_CardinalityType
    <3> QED
      BY <3>2, <3>5, <3>7, <3>8
  <2> QED
    BY <2>1, BaseInvariant, PTL
<1> QED
  BY <1>1, <1>2

\* What the process dies with on its way to a head: at most one review.
LEMMA LandedOnce ==
  ASSUME ServiceInv, Apart, NEW landed \in SUBSET {j \in Jobs : pc[j] \in Posting}, NEW t
  PROVE  LET on == {j \in landed : Target(j) = t}
         IN  IF on = {} THEN Cardinality(on) = 0
             ELSE Cardinality(on) = 1 /\ \E j \in Jobs : pc[j] \in Posting /\ Target(j) = t /\ on = {j}
<1> DEFINE on == {j \in landed : Target(j) = t}
<1>1. CASE on = {}
  BY <1>1, FS_EmptySet
<1>2. ASSUME NEW j \in on PROVE Cardinality(on) = 1 /\ j \in Jobs /\ pc[j] \in Posting /\ Target(j) = t /\ on = {j}
  <2>1. Posting \subseteq Working
    BY DEF Posting, Working, Awaits
  <2>2. \A i \in on : i = j
    BY <1>2, <2>1 DEF Apart
  <2>3. on = {j}
    BY <1>2, <2>2
  <2>4. j \in Jobs /\ pc[j] \in Posting /\ Target(j) = t
    BY <1>2
  <2> HIDE DEF on
  <2> QED
    BY <2>3, <2>4, FS_Singleton
<1> QED
  BY <1>1, <1>2

\* What a posting run posts for does not change under it.
LEMMA HandledPosting ==
  ASSUME ServiceInv, NEW rs, NEW q, NEW S, Handled(rs, q, S), NEW j \in Jobs
  PROVE  /\ pc'[j] \in Posting <=> pc[j] \in Posting
         /\ pc[j] \in Posting => rows'[j].pull = rows[j].pull /\ rows'[j].head = rows[j].head
<1>1. Enters(rs, q, j) \/ Remains(rs, q, j) \/ Absents(rs, q, j)
  BY HandledRows
<1>2. pc'[j] \in Posting <=> pc[j] \in Posting
  BY <1>1 DEF Enters, Remains, Absents, Posting
<1>3. ASSUME pc[j] \in Posting PROVE rows'[j].pull = rows[j].pull /\ rows'[j].head = rows[j].head
  <2>1. rows[j].state # "absent"
    BY <1>3, WorkingExists DEF Posting, Working, Awaits
  <2>2. rs[j].pull = rows[j].pull /\ rs[j].head = rows[j].head
    BY <2>1 DEF Handled, Written
  <2> QED
    BY <2>2, HandledIdentity
<1> QED
  BY <1>2, <1>3

LEMMA NextOnce ==
  ASSUME "lost" \notin Features
  PROVE  BaseInv /\ Apart /\ Once /\ [Next]_vars => Once'
<1> SUFFICES ASSUME BaseInv, Apart, Once, [Next]_vars PROVE Once'
  OBVIOUS
<1>0. ServiceInv /\ IdentityInv /\ StaleAreDead /\ reviews \in [Pulls \X Heads -> Nat]
  BY DEF BaseInv, RunsInv, Shapes
<1>1. \A t \in Pulls \X Heads : reviews[t] \in Nat /\ reviews[t] <= 1
  BY <1>0 DEF Once, OneReviewPerHead
<1>2. ASSUME NEW rs, NEW q, NEW S, Handled(rs, q, S) PROVE Once'
  <2>1. reviews' = reviews
    BY <1>2 DEF Handled
  <2>2. \A j \in Jobs : pc'[j] \in Posting => pc[j] \in Posting /\ Target(j)' = Target(j)
    BY <1>0, <1>2, HandledPosting DEF Target
  <2> QED
    BY <2>1, <2>2 DEF Once, OneReviewPerHead
<1>3. ASSUME NEW j \in Jobs, Step(j), Ran(j), Published(j) PROVE Once'
  <2>1. \A i \in Jobs : Target(i)' = Target(i)
    BY <1>0, <1>3, StepEvolves DEF Ran, Evolves, Target
  <2>2. \A i \in Jobs \ {j} : pc'[i] = pc[i]
    BY <1>3 DEF Ran
  <2>3. Target(j) \in Pulls \X Heads
    BY <1>0, TargetTyped
  <2>4. CASE reviews' = reviews
    <3>1. pc'[j] \in Posting => reviews[Target(j)] = 0
      BY <1>3 DEF Published, Posting, Once
    <3> QED
      BY <2>1, <2>2, <2>4, <3>1 DEF Once, OneReviewPerHead
  <2>5. CASE pc[j] \in Posting /\ PostsOne(j) /\ pc'[j] \notin Posting
    <3>1. reviews' = [reviews EXCEPT ![Target(j)] = reviews[Target(j)] + 1]
      BY <2>5 DEF PostsOne
    <3>2. reviews[Target(j)] = 0
      BY <2>5 DEF Once
    <3>3. reviews'[Target(j)] = 1 /\ \A t \in (Pulls \X Heads) \ {Target(j)} : reviews'[t] = reviews[t]
      BY <1>0, <2>3, <3>1, <3>2
    <3>4. \A i \in Jobs \ {j} : pc[i] \in Posting => Target(i) # Target(j) /\ Target(i) \in Pulls \X Heads
      BY <1>0, <2>5, TargetTyped DEF Apart, Posting, Working, Awaits
    <3>5. OneReviewPerHead'
      BY <1>1, <3>3 DEF OneReviewPerHead
    <3>6. \A i \in Jobs : pc'[i] \in Posting => reviews'[Target(i)] = 0
      BY <2>2, <2>5, <3>3, <3>4 DEF Once
    <3> QED
      BY <2>1, <3>5, <3>6 DEF Once
  <2> QED
    BY <1>3, <2>4, <2>5 DEF Published
<1>4. CASE Crash
  <2>1. PICK landed \in SUBSET {j \in Jobs : pc[j] \in Posting} :
          reviews' = [t \in Pulls \X Heads |-> reviews[t] + Cardinality({j \in landed : Target(j) = t})]
    BY <1>0, <1>4, CrashReviews DEF BaseInv
  <2>2. ASSUME NEW t \in Pulls \X Heads PROVE reviews'[t] <= 1
    <3> DEFINE on == {j \in landed : Target(j) = t}
    <3>1. reviews'[t] = reviews[t] + Cardinality(on)
      BY <2>1
    <3>2. IF on = {} THEN Cardinality(on) = 0
          ELSE Cardinality(on) = 1 /\ \E j \in Jobs : pc[j] \in Posting /\ Target(j) = t
      BY <1>0, LandedOnce
    <3> HIDE DEF on
    <3>3. on # {} => reviews[t] = 0
      BY <3>2 DEF Once
    <3> QED
      BY <1>1, <3>1, <3>2, <3>3
  <2>3. \A j \in Jobs : pc'[j] \notin Posting
    BY <1>4 DEF Crash, Posting
  <2> QED
    BY <2>2, <2>3 DEF Once, OneReviewPerHead
<1>5. CASE Resume \/ UNCHANGED vars
  <2>1. UNCHANGED <<rows, reviews, pc>>
    BY <1>5 DEF Resume, vars
  <2> QED
    BY <2>1 DEF Once, OneReviewPerHead, Target
<1> QED
  BY <1>0, <1>2, <1>3, <1>4, <1>5, NextCases

LEMMA OnceInvariant ==
  ASSUME "lost" \notin Features, Concurrency = 1 \/ "rereview" \notin Features
  PROVE  SafeSpec => [](Apart /\ Once)
<1>1. BaseInv /\ Apart /\ Once /\ [Next]_vars => Once'
  BY NextOnce
<1>2. Init => Once
  <2> SUFFICES ASSUME Init PROVE Once
    OBVIOUS
  <2>1. reviews = [t \in Pulls \X Heads |-> 0] /\ \A j \in Jobs : pc[j] \notin Posting
    BY DEF Init, Posting
  <2> QED
    BY <2>1 DEF Once, OneReviewPerHead
<1> QED
  BY <1>1, <1>2, ApartInvariant, BaseInvariant, PTL DEF SafeSpec

\* "Maomao [...] posts one conservative review" (README.md:5): no head gets
\* two, through crashes between the POST and its record, cancellations and
\* re-runs, while the forge's replies arrive and a re-review does not run
\* beside the job it replaces.
THEOREM OneReviewEach ==
  ASSUME "lost" \notin Features, Concurrency = 1 \/ "rereview" \notin Features
  PROVE  SafeSpec => []OneReviewPerHead
  BY OnceInvariant, PTL DEF Once

-----------------------------------------------------------------------------
(* The service implements ReviewContract *)

\* The refinement mapping, part by part.
Holds(r, p) == r.state # "absent" /\ r.pull = p /\ r.slot = "shared" /\ ~Dead(r)
HeadsOf(rs, p) == {rs[j].head : j \in {i \in Jobs : Holds(rs[i], p)}}
Current  == [p \in Pulls |-> {rows[j].head : j \in {i \in Holders(rows, p) : ~Dead(rows[i])}}]
Inflight == {Target(j) : j \in {i \in Jobs : pc[i] \in {"post", "repost"}}}
Posted   == {t \in Pulls \X Heads : reviews[t] > 0}

LEMMA CurrentIs ==
  /\ Current = [p \in Pulls |-> HeadsOf(rows, p)]
  /\ Current' = [p \in Pulls |-> HeadsOf(rows', p)]
  BY DEF Current, HeadsOf, Holds, Holders, JobsOf, Exists, Dead

\* A pull has one current head at most.
LEMMA OneHead ==
  ASSUME Cur(rows), NEW p
  PROVE  \A g, h \in HeadsOf(rows, p) : g = h
  BY DEF HeadsOf, Holds, Cur

LEMMA HandledContract ==
  ASSUME BaseInv, NEW rs, NEW q, NEW S, Handled(rs, q, S)
  PROVE  /\ Inflight' = Inflight /\ Posted' = Posted
         /\ \/ \E p \in Pulls, h \in Heads : Current' = [Current EXCEPT ![p] = {h}]
            \/ \E W \in SUBSET Pulls : Current' = [p \in Pulls |-> IF p \in W THEN {} ELSE Current[p]]
<1>0. ServiceInv /\ Known /\ Cur(rows)
  BY DEF BaseInv, IdentityInv
<1>1. Posted' = Posted
  BY DEF Handled, Posted
<1>2. Inflight' = Inflight
  <2>1. \A j \in Jobs : /\ pc'[j] \in {"post", "repost"} <=> pc[j] \in {"post", "repost"}
                        /\ pc[j] \in {"post", "repost"} => Target(j)' = Target(j)
    BY <1>0, HandledPosting DEF Posting, Target
  <2> QED
    BY <2>1 DEF Inflight
<1>3. \A j \in Jobs : /\ Written(rows[j], rs[j]) /\ rs[j] \in Rows
                      /\ rows'[j].pull = rs[j].pull /\ rows'[j].head = rs[j].head /\ rows'[j].slot = rs[j].slot
                      /\ rs[j].state = "absent" => rows'[j].state = "absent"
                      /\ rows'[j].state = "absent" => rs[j].state = "absent"
                      /\ Dead(rs[j]) => Dead(rows'[j])
                      /\ Dead(rows[j]) => Dead(rows'[j])
  BY <1>0, HandledIdentity, HandledRows, AbsentStays DEF Handled, Written, Dead
<1>4. CASE \E n \in Jobs : rows[n].state = "absent" /\ rs[n].state # "absent"
  <2>1. PICK n \in Jobs : rows[n].state = "absent" /\ rs[n].state # "absent"
    BY <1>4
  <2> DEFINE p == rs[n].pull
             h == rs[n].head
  <2>2. p \in Pulls /\ h \in Heads
    BY <1>3, RowFields
  <2>3. /\ q.active = queue.active /\ ~Dead(rs[n]) /\ rs[n].slot = "shared"
        /\ \A i \in Jobs \ {n} :
             /\ rs[i].state # "absent" /\ rs[i].pull = p /\ rs[i].slot = "shared" => Dead(rs[i])
             /\ rs[i].pull # p => rs[i] = rows[i]
    BY <2>1 DEF Handled, Creates
  <2>4. \A i \in Jobs : rows'[i] = rs[i]
    BY <1>0, <2>3, HandledRows DEF Enters, Remains, Absents
  <2>5. HeadsOf(rows', p) = {h}
    <3>1. \A i \in Jobs : Holds(rs[i], p) <=> i = n
      BY <2>1, <2>3 DEF Holds
    <3> QED
      BY <2>4, <3>1 DEF HeadsOf
  <2>6. ASSUME NEW o \in Pulls \ {p} PROVE HeadsOf(rows', o) = HeadsOf(rows, o)
    <3>1. \A i \in Jobs : /\ Holds(rs[i], o) <=> Holds(rows[i], o)
                          /\ Holds(rows[i], o) => rs[i] = rows[i]
      BY <1>3, <2>1, <2>3, <2>6 DEF Holds, Written
    <3> QED
      BY <2>4, <3>1 DEF HeadsOf
  <2> HIDE DEF p, h
  <2>7. Current' = [Current EXCEPT ![p] = {h}]
    BY <2>2, <2>5, <2>6, CurrentIs
  <2> QED
    BY <1>1, <1>2, <2>2, <2>7
<1>5. CASE \A n \in Jobs : rows[n].state = "absent" => rs[n].state = "absent"
  <2>1. \A j \in Jobs, p \in Pulls : Holds(rows'[j], p) => Holds(rows[j], p) /\ rows'[j].head = rows[j].head
    BY <1>3, <1>5 DEF Holds, Written
  <2>2. \A p \in Pulls : HeadsOf(rows', p) \subseteq HeadsOf(rows, p)
    BY <2>1 DEF HeadsOf
  <2>3. \A p \in Pulls : HeadsOf(rows', p) = {} \/ HeadsOf(rows', p) = HeadsOf(rows, p)
    BY <1>0, <2>2, OneHead
  <2> DEFINE W == {p \in Pulls : HeadsOf(rows', p) = {}}
  <2>4. \A p \in Pulls : HeadsOf(rows', p) = IF p \in W THEN {} ELSE HeadsOf(rows, p)
    BY <2>3
  <2>5. W \in SUBSET Pulls
    OBVIOUS
  <2> HIDE DEF W
  <2>6. Current' = [p \in Pulls |-> IF p \in W THEN {} ELSE Current[p]]
    BY <2>4, CurrentIs
  <2> QED
    BY <1>1, <1>2, <2>5, <2>6
<1> QED
  BY <1>4, <1>5

\* A turn of a run never moves the current head: it only stops a job that is
\* dead already.
LEMMA StepCurrent ==
  ASSUME BaseInv, NEW j \in Jobs, Step(j), Ran(j)
  PROVE  Current' = Current /\ \A i \in Jobs : Target(i)' = Target(i)
<1>1. /\ Evolves(rows[j], rows'[j]) /\ \A i \in Jobs \ {j} : rows'[i] = rows[i]
  BY StepEvolves DEF BaseInv, Ran
<1>2. rows[j].state # "absent"
  <2>1. j \in queue.active
    BY DEF Ran, Leg, Awaits, BaseInv, ServiceInv, Claimed
  <2> QED
    BY <2>1 DEF BaseInv, IdentityInv, Known, Entries, Exists
<1>3. Dead(rows'[j]) => Dead(rows[j])
  BY DEF Ran, Leg, BaseInv, RunsInv, Signals
<1>4. \A i \in Jobs, p \in Pulls : Holds(rows'[i], p) <=> Holds(rows[i], p)
  BY <1>1, <1>2, <1>3 DEF Holds, Evolves, Dead
<1>5. \A i \in Jobs : rows'[i].head = rows[i].head /\ rows'[i].pull = rows[i].pull
  BY <1>1 DEF Evolves
<1>6. \A p \in Pulls : HeadsOf(rows', p) = HeadsOf(rows, p)
  BY <1>4, <1>5 DEF HeadsOf
<1> QED
  BY <1>5, <1>6, CurrentIs DEF Target

LEMMA StepContract ==
  ASSUME BaseInv, Apart, Once, AsideEnded, "lost" \notin Features,
         NEW j \in Jobs, Step(j), Ran(j), Published(j)
  PROVE  /\ Current' = Current
         /\ LET t == Target(j)
            IN  /\ t \in Pulls \X Heads
                /\ \/ Inflight' = Inflight /\ Posted' = Posted
                   \/ /\ t[2] \in Current[t[1]] /\ t \notin Posted \union Inflight
                      /\ Inflight' = Inflight \union {t} /\ Posted' = Posted
                   \/ /\ t \in Inflight /\ Inflight' = Inflight \ {t}
                      /\ Posted' = Posted \/ Posted' = Posted \union {t}
<1> DEFINE t == Target(j)
<1>1. Current' = Current /\ \A i \in Jobs : Target(i)' = Target(i)
  BY StepCurrent
<1>2. \A i \in Jobs \ {j} : pc'[i] = pc[i]
  BY DEF Ran
<1>3. t \in Pulls \X Heads /\ t = <<rows[j].pull, rows[j].head>>
  BY TargetTyped DEF BaseInv, Target
<1>4. Inflight = {Target(i) : i \in {k \in Jobs : pc[k] \in Posting}}
      /\ Inflight' = {Target(i) : i \in {k \in Jobs : pc'[k] \in Posting}}
  BY <1>1 DEF Inflight, Posting
<1>5. pc[j] \in Working => \A i \in Jobs \ {j} : pc[i] \in Posting => Target(i) # t
  BY DEF Apart, Posting, Working, Awaits
<1>6. reviews' = reviews => Posted' = Posted
  BY DEF Posted
<1> HIDE DEF t
<1>7. CASE pc[j] \in Posting <=> pc'[j] \in Posting
  <2>1. Inflight' = Inflight
    BY <1>2, <1>4, <1>7
  <2>2. reviews' = reviews
    BY <1>7 DEF Published
  <2> QED
    BY <1>1, <1>3, <1>6, <2>1, <2>2 DEF t
<1>8. CASE pc[j] \notin Posting /\ pc'[j] \in Posting
  <2>1. pc[j] = "summaries" /\ ~Dead(rows[j]) /\ reviews[t] = 0 /\ reviews' = reviews
    BY <1>8 DEF Published, Posting, Stop, IsStale, t
  <2>2. pc[j] \in Working
    BY <2>1 DEF Working, Awaits
  <2>3. rows[j].state \in LiveStates /\ rows[j] \in Rows
    BY <2>1, <2>2 DEF BaseInv, ServiceInv, RunsOfLiveJobs, RowsOK, Dead
  <2>4. rows[j].slot = "shared" /\ rows[j].state # "absent"
    BY <2>3, RowFields, StateSets DEF AsideEnded, Terminal
  <2>5. Holds(rows[j], rows[j].pull) /\ rows[j].pull \in Pulls
    BY <2>1, <2>3, <2>4, RowFields DEF Holds
  <2>6. t[2] \in Current[t[1]]
    <3>1. rows[j].head \in HeadsOf(rows, rows[j].pull)
      BY <2>5 DEF HeadsOf
    <3> QED
      BY <1>3, <2>5, <3>1, CurrentIs
  <2>7. t \notin Inflight
    BY <1>4, <1>5, <1>8, <2>2
  <2>8. t \notin Posted
    BY <2>1 DEF Posted
  <2>9. Inflight' = Inflight \union {t}
    BY <1>2, <1>4, <1>8 DEF t
  <2> QED
    BY <1>1, <1>3, <1>6, <2>1, <2>6, <2>7, <2>8, <2>9 DEF t
<1>9. CASE pc[j] \in Posting /\ pc'[j] \notin Posting
  <2>1. pc[j] \in Working
    BY <1>9 DEF Posting, Working, Awaits
  <2>2. t \in Inflight
    BY <1>4, <1>9 DEF t
  <2>3. Inflight' = Inflight \ {t}
    BY <1>2, <1>4, <1>5, <1>9, <2>1 DEF t
  <2>4. Posted' = Posted \/ Posted' = Posted \union {t}
    <3>1. CASE reviews' = reviews
      BY <1>6, <3>1
    <3>2. CASE PostsOne(j)
      <4>1. reviews' = [reviews EXCEPT ![t] = reviews[t] + 1] /\ reviews \in [Pulls \X Heads -> Nat]
        BY <3>2 DEF PostsOne, t, BaseInv, Shapes
      <4>2. reviews'[t] > 0 /\ \A u \in (Pulls \X Heads) \ {t} : reviews'[u] = reviews[u]
        BY <1>3, <4>1
      <4>3. Posted' = Posted \union {t}
        BY <1>3, <4>2 DEF Posted
      <4> QED
        BY <4>3
    <3> QED
      BY <3>1, <3>2 DEF Published
  <2> QED
    BY <1>1, <1>3, <2>2, <2>3, <2>4 DEF t
<1> QED
  BY <1>7, <1>8, <1>9

LEMMA CrashContract ==
  ASSUME BaseInv, Apart, Crash
  PROVE  /\ Current' = Current /\ Inflight' = {}
         /\ \E landed \in SUBSET Inflight : Posted' = Posted \union landed
<1>1. PICK posts \in SUBSET {j \in Jobs : pc[j] \in Posting} :
        /\ reviews' = [t \in Pulls \X Heads |-> reviews[t] + Cardinality({j \in posts : Target(j) = t})]
        /\ \A t \in Pulls \X Heads : Cardinality({j \in posts : Target(j) = t}) \in Nat
  BY CrashReviews DEF BaseInv
<1> DEFINE landed == {Target(j) : j \in posts}
           extra(t) == Cardinality({j \in posts : Target(j) = t})
<1>2. landed \in SUBSET Inflight
  BY DEF Inflight, Posting
<1>3. \A t \in Pulls \X Heads : extra(t) \in Nat /\ (extra(t) > 0 <=> t \in landed)
  <2> SUFFICES ASSUME NEW t \in Pulls \X Heads PROVE extra(t) \in Nat /\ (extra(t) > 0 <=> t \in landed)
    OBVIOUS
  <2> DEFINE on == {j \in posts : Target(j) = t}
  <2>1. IF on = {} THEN Cardinality(on) = 0 ELSE Cardinality(on) = 1
    BY LandedOnce DEF BaseInv
  <2>2. on # {} <=> t \in landed
    OBVIOUS
  <2>3. extra(t) = Cardinality(on) /\ extra(t) \in Nat
    BY <1>1
  <2> HIDE DEF on, landed, extra
  <2> QED
    BY <2>1, <2>2, <2>3
<1>4. landed \subseteq Pulls \X Heads
  BY TargetTyped DEF BaseInv
<1>5. reviews' = [t \in Pulls \X Heads |-> reviews[t] + extra(t)] /\ \A t \in Pulls \X Heads : reviews[t] \in Nat
  BY <1>1 DEF BaseInv, Shapes
<1> HIDE DEF landed, extra
<1>6. Posted' = Posted \union landed
  <2>1. \A t \in Pulls \X Heads : reviews'[t] > 0 <=> reviews[t] > 0 \/ t \in landed
    BY <1>3, <1>5
  <2> QED
    BY <1>4, <2>1 DEF Posted
<1>7. rows' = rows /\ \A j \in Jobs : pc'[j] = "idle"
  BY DEF Crash, durable
<1>8. Inflight' = {}
  BY <1>7 DEF Inflight
<1>9. Current' = Current
  BY <1>7, CurrentIs
<1> QED
  BY <1>2, <1>6, <1>8, <1>9

LEMMA NextContract ==
  ASSUME "lost" \notin Features
  PROVE  BaseInv /\ Apart /\ Once /\ AsideEnded /\ [Next]_vars
           => [Contract!Next]_<<Current, Inflight, Posted>>
<1> SUFFICES ASSUME BaseInv, Apart, Once, AsideEnded, [Next]_vars
             PROVE  Contract!Next \/ UNCHANGED <<Current, Inflight, Posted>>
  OBVIOUS
<1>0. ServiceInv /\ IdentityInv /\ StaleAreDead
  BY DEF BaseInv, RunsInv
<1>1. ASSUME NEW rs, NEW q, NEW S, Handled(rs, q, S) PROVE Contract!Next
  <2>1. Inflight' = Inflight /\ Posted' = Posted
    BY <1>1, HandledContract
  <2>2. ASSUME NEW p \in Pulls, NEW h \in Heads, Current' = [Current EXCEPT ![p] = {h}] PROVE Contract!Next
    <3>1. Contract!Adopt(p, h)
      BY <2>1, <2>2 DEF Contract!Adopt, Current, Inflight, Posted
    <3> QED
      BY <3>1 DEF Contract!Next
  <2>3. ASSUME NEW W \in SUBSET Pulls, Current' = [p \in Pulls |-> IF p \in W THEN {} ELSE Current[p]]
        PROVE  Contract!Next
    <3>1. Contract!Withdraw(W)
      BY <2>1, <2>3 DEF Contract!Withdraw, Current, Inflight, Posted
    <3> QED
      BY <3>1 DEF Contract!Next
  <2> QED
    BY <1>1, <2>2, <2>3, HandledContract
<1>2. ASSUME NEW j \in Jobs, Step(j), Ran(j), Published(j)
      PROVE  Contract!Next \/ UNCHANGED <<Current, Inflight, Posted>>
  <2>1. PICK t \in Pulls \X Heads :
          /\ Current' = Current
          /\ \/ Inflight' = Inflight /\ Posted' = Posted
             \/ /\ t[2] \in Current[t[1]] /\ t \notin Posted \union Inflight
                /\ Inflight' = Inflight \union {t} /\ Posted' = Posted
             \/ /\ t \in Inflight /\ Inflight' = Inflight \ {t}
                /\ Posted' = Posted \/ Posted' = Posted \union {t}
    BY <1>2, StepContract
  <2>2. CASE Inflight' = Inflight /\ Posted' = Posted
    BY <2>1, <2>2
  <2>3. CASE /\ t[2] \in Current[t[1]] /\ t \notin Posted \union Inflight
             /\ Inflight' = Inflight \union {t} /\ Posted' = Posted
    <3>1. t[1] \in Pulls /\ t[2] \in Heads /\ t = <<t[1], t[2]>>
      BY <2>1
    <3>2. Contract!Decide(t[1], t[2])
      BY <2>1, <2>3, <3>1 DEF Contract!Decide, Current, Inflight, Posted
    <3> QED
      BY <3>1, <3>2 DEF Contract!Next
  <2>4. CASE t \in Inflight /\ Inflight' = Inflight \ {t} /\ Posted' = Posted
    <3>1. Contract!Lose(t)
      BY <2>1, <2>4 DEF Contract!Lose, Current, Inflight, Posted
    <3> QED
      BY <2>4, <3>1 DEF Contract!Next, Inflight
  <2>5. CASE t \in Inflight /\ Inflight' = Inflight \ {t} /\ Posted' = Posted \union {t}
    <3>1. Contract!Land(t)
      BY <2>1, <2>5 DEF Contract!Land, Current, Inflight, Posted
    <3> QED
      BY <2>5, <3>1 DEF Contract!Next, Inflight
  <2> QED
    BY <2>1, <2>2, <2>3, <2>4, <2>5
<1>3. CASE Crash
  <2>1. PICK landed \in SUBSET Inflight :
          Current' = Current /\ Inflight' = {} /\ Posted' = Posted \union landed
    BY <1>3, CrashContract
  <2>2. Contract!Crash(landed)
    BY <2>1 DEF Contract!Crash, Current, Inflight, Posted
  <2> QED
    BY <2>1, <2>2 DEF Contract!Next, Inflight
<1>4. CASE Resume \/ UNCHANGED vars
  <2>1. rows' = rows /\ pc' = pc /\ reviews' = reviews
    BY <1>4 DEF Resume, vars
  <2>2. \A j \in Jobs : Target(j)' = Target(j)
    BY <2>1 DEF Target
  <2>3. Current' = Current
    BY <2>1, CurrentIs
  <2>4. Inflight' = Inflight
    BY <2>1, <2>2 DEF Inflight
  <2>5. Posted' = Posted
    BY <2>1 DEF Posted
  <2> QED
    BY <2>3, <2>4, <2>5
<1> QED
  BY <1>0, <1>1, <1>2, <1>3, <1>4, NextCases

\* The service implements the contract it owes the readers of a pull request:
\* one current head, a review decided for it alone and once, and landing or
\* lost, under pushes, cancellations, pauses, merges and crashes. The features
\* left out are those the code breaks the promise with: a reply that never
\* comes, and a job run again after it gave its place away.
THEOREM ContractImplemented ==
  ASSUME "lost" \notin Features, Concurrency = 1 \/ "rereview" \notin Features,
         "rereview" \notin Features \/ ("retry" \notin Features /\ "escalate" \notin Features)
  PROVE  SafeSpec => ImplementsContract
<1>1. Init => Contract!Init
  <2> SUFFICES ASSUME Init PROVE Contract!Init
    OBVIOUS
  <2>1. \A p \in Pulls : HeadsOf(rows, p) = {}
    BY InitAbsent DEF HeadsOf, Holds
  <2>2. Current = [p \in Pulls |-> {}]
    BY <2>1, CurrentIs
  <2>3. Inflight = {} /\ Posted = {}
    BY DEF Init, Inflight, Posted
  <2> QED
    BY <2>2, <2>3 DEF Contract!Init, Current, Inflight, Posted
<1>2. BaseInv /\ Apart /\ Once /\ AsideEnded /\ [Next]_vars
        => [Contract!Next]_<<Current, Inflight, Posted>>
  BY NextContract
<1> QED
  BY <1>1, <1>2, BaseInvariant, OnceInvariant, AsideInvariant, PTL
     DEF SafeSpec, ImplementsContract, Contract!Spec, Current, Inflight, Posted
=============================================================================

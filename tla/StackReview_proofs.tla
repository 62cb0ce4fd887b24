-------------------------- MODULE StackReview_proofs --------------------------
(***************************************************************************)
(* Stacks, for every set of layouts, pulls and heads, every number of rows,  *)
(* slots, handlers, retries, pushes, cancellations and deaths.               *)
(*                                                                         *)
(* First: at most one job of a stack waits or runs.  Every turn rewrites     *)
(* rows as Follows says: a row keeps what it is over, what is active kept    *)
(* its state and its key, and what ends was at work or is dead.  So an       *)
(* active stack row never comes back to life nor leaves the key under which  *)
(* a trigger finds it, and the trigger is the only one to make a new one.    *)
(*                                                                         *)
(* Then what the rows say: DeepInv.  Every turn makes them evolve (Evolves): *)
(* nobody but a run writes its rail or ends its job, save that the end of a  *)
(* job settles the members that waited for it and a sweep makes rows stale.  *)
(* So a turn leaves the runs it does not belong to as they were (Rest), and  *)
(* each step is left to say what it makes of its own run (RunFine).          *)
(***************************************************************************)
EXTENDS StackProperties, JobQueue_proofs

Fields   == {"state", "over", "head", "key", "rail"}
Locals   == {"i", "attempt", "covered", "overCap"}

\* A row, and an entry of its rail: the jobs of members are pull jobs.
IsPull(rs, j)  == j \in Jobs /\ rs[j].state # "absent" /\ ~IsStack(rs[j])
EntryOk(rs, e) == DOMAIN e = {"pin", "state", "job"} /\ (e.job = 0 \/ IsPull(rs, e.job))

RowOk(rs, j) ==
  /\ DOMAIN rs[j] = Fields /\ Len(rs[j].over) \in Nat
  /\ IsStack(rs[j]) => DOMAIN rs[j].rail = 1..Len(rs[j].over)
  /\ \A i \in DOMAIN rs[j].rail : EntryOk(rs, rs[j].rail[i])

RowsOk(rs) == DOMAIN rs = Jobs /\ \A j \in Jobs : RowOk(rs, j)

\* One open stack, on the key a trigger looks up.
Running(rs, j) == IsStack(rs[j]) /\ Active(rs[j])
OpenOk(rs) ==
  /\ \A i, j \in Jobs : Running(rs, i) /\ Running(rs, j) => i = j
  /\ \A j \in Jobs : Running(rs, j) => rs[j].key = 0

\* A job that waits for a slot or is on its way to the queue.
WaitOk(rs, j) ==
  j \in Jobs /\ rs[j].state # "absent" /\ (IsStack(rs[j]) => rs[j].state \in {"queued"} \union DeadStates)

Brought(hs) == {t \in hs : t.created}

HandsOk(rs, q, hs) ==
  /\ \A t \in hs : t.created \in BOOLEAN /\ t.job \in Jobs /\ rs[t.job].state # "absent"
  /\ \A t \in Brought(hs) : t.job \notin Entries(q) /\ WaitOk(rs, t.job)
  /\ \A t, u \in Brought(hs) : t.job = u.job => t = u

QueueOk(q) == Sound(q) /\ (IF q.started THEN Busy(q) ELSE q = Stopped)

\* A run holds a slot; one that awaits as a stack's is at one of its members.
LocalsOk(rs, j, m) == DOMAIN m = Locals /\ m.i \in 1..Len(rs[j].over)
RunOk(rs, q, at, m, j) ==
  /\ at # "idle" => j \in q.active
  /\ at \in StackAwaits => IsStack(rs[j]) /\ LocalsOk(rs, j, m)
  /\ at = "review" => ~IsStack(rs[j])

KnownOk(rs, q) ==
  /\ \A j \in ToSet(q.pending) : WaitOk(rs, j)
  /\ \A j \in q.active : rs[j].state # "absent"

StackInv ==
  /\ QueueOk(queue) /\ RowsOk(rows) /\ OpenOk(rows)
  /\ KnownOk(rows, queue) /\ HandsOk(rows, queue, handoffs)
  /\ DOMAIN pc = Jobs /\ DOMAIN mem = Jobs
  /\ \A j \in Jobs : RunOk(rows, queue, pc[j], mem[j], j)
  /\ ~queue.started => handoffs = {}

-----------------------------------------------------------------------------
(* What a turn may make of the rows *)

\* Row r may take the place of row j of rs; the jobs of F are at work.
Keeps(F, rs, j, r) ==
  /\ DOMAIN r = Fields /\ r.over = rs[j].over
  /\ r.state = rs[j].state \/ (/\ rs[j].state # "absent" /\ r.state \in TerminalStates
                               /\ ~IsStack(r) \/ j \in F \/ r.state \in DeadStates)
  /\ r.state \in {"queued", "running"} => r.key = rs[j].key
  /\ DOMAIN r.rail = DOMAIN rs[j].rail /\ \A i \in DOMAIN r.rail : EntryOk(rs, r.rail[i])

Follows(F, a, b) ==
  /\ RowsOk(b)
  /\ \A j \in Jobs : a[j].state # "absent" =>
       /\ b[j].over = a[j].over
       /\ b[j].state = a[j].state \/ (/\ b[j].state \in TerminalStates
                                      /\ ~IsStack(b[j]) \/ j \in F \/ b[j].state \in DeadStates)
       /\ b[j].state \in {"queued", "running"} => b[j].key = a[j].key
  /\ \A j \in Jobs : a[j].state = "absent" => b[j].state = "absent" \/ ~IsStack(b[j])

\* The names of the states differ.
LEMMA StateFacts ==
  /\ "absent" \notin TerminalStates /\ "queued" \notin TerminalStates /\ "running" \notin TerminalStates
  /\ DeadStates \subseteq TerminalStates
BY DEF TerminalStates, DeadStates

LEMMA KeepsFollow ==
  ASSUME NEW F, NEW a, NEW b, RowsOk(a), DOMAIN b = Jobs, \A j \in Jobs : Keeps(F, a, j, b[j])
  PROVE  Follows(F, a, b)
<1>1. \A j \in Jobs : b[j].over = a[j].over /\ (IsStack(b[j]) <=> IsStack(a[j]))
                      /\ (b[j].state = "absent" <=> a[j].state = "absent")
  BY StateFacts DEF Keeps, IsStack
<1>2. ASSUME NEW e, EntryOk(a, e) PROVE EntryOk(b, e)
  BY <1>1, <1>2 DEF EntryOk, IsPull
<1>3. ASSUME NEW j \in Jobs PROVE RowOk(b, j)
  <2>1. RowOk(a, j) /\ Keeps(F, a, j, b[j])
    BY DEF RowsOk
  <2>2. \A i \in DOMAIN b[j].rail : EntryOk(b, b[j].rail[i])
    BY <1>2, <2>1 DEF Keeps
  <2> QED
    BY <1>1, <2>1, <2>2 DEF RowOk, Keeps
<1> QED
  BY <1>1, <1>3 DEF Follows, RowsOk, Keeps

LEMMA FollowsSelf ==
  ASSUME NEW F, NEW a, RowsOk(a)
  PROVE  Follows(F, a, a)
BY DEF Follows

LEMMA FollowsOn ==
  ASSUME NEW F, NEW a, NEW b, NEW c, Follows(F, a, b), Follows(F, b, c)
  PROVE  Follows(F, a, c)
<1>1. ASSUME NEW j \in Jobs, a[j].state # "absent"
      PROVE  /\ c[j].over = a[j].over
             /\ c[j].state = a[j].state \/ (/\ c[j].state \in TerminalStates
                                            /\ ~IsStack(c[j]) \/ j \in F \/ c[j].state \in DeadStates)
             /\ c[j].state \in {"queued", "running"} => c[j].key = a[j].key
  BY <1>1, StateFacts DEF Follows, IsStack
<1>2. ASSUME NEW j \in Jobs, a[j].state = "absent" PROVE c[j].state = "absent" \/ ~IsStack(c[j])
  BY <1>2, StateFacts DEF Follows, IsStack
<1> QED
  BY <1>1, <1>2 DEF Follows

\* What follows sound rows is sound.
LEMMA FollowsSound ==
  ASSUME NEW F, NEW a, NEW b, Follows(F, a, b), OpenOk(a)
  PROVE  /\ RowsOk(b) /\ OpenOk(b)
         /\ \A j \in Jobs \ F : WaitOk(a, j) => WaitOk(b, j)
         /\ \A j \in Jobs : a[j].state # "absent" => b[j].state # "absent" /\ b[j].over = a[j].over
<1>1. \A j \in Jobs : Running(b, j) => Running(a, j) /\ b[j].key = a[j].key
  BY StateFacts DEF Follows, Running, Active, IsStack
<1>2. OpenOk(b)
  BY <1>1 DEF OpenOk
<1>3. \A j \in Jobs \ F : WaitOk(a, j) => WaitOk(b, j)
  BY StateFacts DEF Follows, WaitOk, IsStack
<1> QED
  BY <1>2, <1>3, StateFacts DEF Follows

-----------------------------------------------------------------------------
(* The writes *)

LEMMA KeepsSelf ==
  ASSUME NEW F, NEW a, RowsOk(a), NEW j \in Jobs
  PROVE  Keeps(F, a, j, a[j])
BY DEF Keeps, RowsOk, RowOk

\* setJobState and what is written with it, in one row.
LEMMA StateKeeps ==
  ASSUME NEW F, NEW a, RowsOk(a), NEW j \in Jobs, NEW st \in TerminalStates, a[j].state # "absent",
         ~IsStack(a[j]) \/ j \in F \/ st \in DeadStates
  PROVE  /\ Keeps(F, a, j, SetState(a[j], st))
         /\ SetState(a[j], st).state \in TerminalStates /\ SetState(a[j], st).state # "absent"
<1>1. DOMAIN a[j] = Fields
  BY DEF RowsOk, RowOk
<1>2. DOMAIN [a[j] EXCEPT !.state = st] = Fields /\ [a[j] EXCEPT !.state = st].state = st
      /\ [a[j] EXCEPT !.state = st].over = a[j].over /\ [a[j] EXCEPT !.state = st].rail = a[j].rail
  BY <1>1 DEF Fields
<1>3. \A i \in DOMAIN a[j].rail : EntryOk(a, a[j].rail[i])
  BY DEF RowsOk, RowOk
<1>4. CASE Dead(a[j])
  BY <1>4, KeepsSelf, StateFacts DEF SetState, Dead
<1>5. CASE ~Dead(a[j])
  BY <1>2, <1>3, <1>5, StateFacts DEF SetState, Keeps, IsStack
<1> QED
  BY <1>4, <1>5

\* A write of the rail alone.
LEMMA RailKeeps ==
  ASSUME NEW F, NEW a, RowsOk(a), NEW j \in Jobs, NEW l, DOMAIN l = DOMAIN a[j].rail,
         \A i \in DOMAIN l : EntryOk(a, l[i])
  PROVE  Keeps(F, a, j, [a[j] EXCEPT !.rail = l])
<1>1. DOMAIN a[j] = Fields
  BY DEF RowsOk, RowOk
<1>2. /\ DOMAIN [a[j] EXCEPT !.rail = l] = Fields /\ [a[j] EXCEPT !.rail = l].rail = l
      /\ [a[j] EXCEPT !.rail = l].state = a[j].state /\ [a[j] EXCEPT !.rail = l].over = a[j].over
      /\ [a[j] EXCEPT !.rail = l].key = a[j].key
  BY <1>1 DEF Fields
<1> QED
  BY <1>2 DEF Keeps

\* Another state of an entry names the same job.
LEMMA EntryKeeps ==
  ASSUME NEW rs, NEW e, EntryOk(rs, e), NEW x
  PROVE  EntryOk(rs, [e EXCEPT !.state = x]) /\ EntryOk(rs, [e EXCEPT !.pin = x])
<1>1. /\ DOMAIN [e EXCEPT !.state = x] = {"pin", "state", "job"} /\ [e EXCEPT !.state = x].job = e.job
      /\ DOMAIN [e EXCEPT !.pin = x] = {"pin", "state", "job"} /\ [e EXCEPT !.pin = x].job = e.job
  BY DEF EntryOk
<1> QED
  BY <1>1 DEF EntryOk

\* One row is replaced.
LEMMA RowReplaced ==
  ASSUME NEW F, NEW a, RowsOk(a), NEW k, NEW r, k \in Jobs => Keeps(F, a, k, r)
  PROVE  Follows(F, a, [a EXCEPT ![k] = r])
<1> DEFINE b == [a EXCEPT ![k] = r]
<1>1. DOMAIN b = Jobs /\ \A j \in Jobs : b[j] = IF j = k THEN r ELSE a[j]
  BY DEF RowsOk
<1>2. \A j \in Jobs : Keeps(F, a, j, b[j])
  BY <1>1, KeepsSelf
<1> HIDE DEF b
<1>3. Follows(F, a, b)
  BY <1>1, <1>2, KeepsFollow
<1> QED
  BY <1>3 DEF b

\* resolveStackMemberCoverage changes states of entries only.
LEMMA ResolvedFollows ==
  ASSUME NEW F, NEW a, RowsOk(a), NEW ended
  PROVE  Follows(F, a, Resolved(a, ended))
<1> DEFINE settled(e) == IF e.state = "reviewing" /\ e.job \in ended THEN [e EXCEPT !.state = Outcome(a, e.job)] ELSE e
           l(j) == [i \in DOMAIN a[j].rail |-> settled(a[j].rail[i])]
           b == Resolved(a, ended)
<1>1. DOMAIN b = Jobs /\ \A j \in Jobs : b[j] = IF Terminal(a[j]) THEN [a[j] EXCEPT !.rail = l(j)] ELSE a[j]
  BY DEF Resolved
<1>2. ASSUME NEW j \in Jobs PROVE Keeps(F, a, j, b[j])
  <2>1. \A i \in DOMAIN a[j].rail : EntryOk(a, a[j].rail[i])
    BY DEF RowsOk, RowOk
  <2>2. \A i \in DOMAIN a[j].rail : EntryOk(a, settled(a[j].rail[i]))
    BY <2>1, EntryKeeps
  <2>3. DOMAIN l(j) = DOMAIN a[j].rail /\ \A i \in DOMAIN l(j) : EntryOk(a, l(j)[i])
    BY <2>2
  <2> HIDE DEF l, b
  <2>4. Keeps(F, a, j, [a[j] EXCEPT !.rail = l(j)])
    BY <2>3, RailKeeps
  <2> QED
    BY <1>1, <2>4, KeepsSelf
<1> HIDE DEF b
<1>3. Follows(F, a, b)
  BY <1>1, <1>2, KeepsFollow
<1> QED
  BY <1>3 DEF b

\* Jobs that are at work or not stacks end, others die, and what waited for
\* them is told.
LEMMA MovedFollows ==
  ASSUME NEW F, NEW a, RowsOk(a), NEW S, NEW st \in TerminalStates,
         \A j \in S \intersect Jobs : a[j].state # "absent" /\ (~IsStack(a[j]) \/ j \in F \/ st \in DeadStates)
  PROVE  /\ Follows(F, a, Moved(a, S, st))
         /\ \A j \in S \intersect Jobs : Moved(a, S, st)[j].state \in TerminalStates
         /\ \A j \in Jobs : Moved(a, S, st)[j].key = a[j].key
<1> DEFINE b == [j \in Jobs |-> IF j \in S THEN SetState(a[j], st) ELSE a[j]]
<1>1. \A j \in Jobs : Keeps(F, a, j, b[j])
  BY StateKeeps, KeepsSelf
<1>2. Follows(F, a, b)
  BY <1>1, KeepsFollow
<1>3. \A j \in S \intersect Jobs : b[j].state \in TerminalStates
  BY StateKeeps
<1>4. \A j \in Jobs : DOMAIN a[j] = Fields
  BY DEF RowsOk, RowOk
<1>5. \A j \in Jobs : b[j].key = a[j].key
  BY <1>4 DEF SetState, Fields
<1>6. \A j \in Jobs : DOMAIN b[j] = Fields
  BY <1>1 DEF Keeps
<1> HIDE DEF b
<1>7. Moved(a, S, st) = Resolved(b, S)
  BY DEF Moved, b
<1>8. \A j \in Jobs : Resolved(b, S)[j].state = b[j].state /\ Resolved(b, S)[j].key = b[j].key
  BY <1>6 DEF Resolved, Fields
<1>9. Follows(F, a, Resolved(b, S))
  <2>1. RowsOk(b)
    BY <1>2 DEF Follows
  <2>2. Follows(F, b, Resolved(b, S))
    BY <2>1, ResolvedFollows
  <2> QED
    BY <1>2, <2>2, FollowsOn
<1> QED
  BY <1>3, <1>5, <1>7, <1>8, <1>9

\* Other jobs keep their state.
LEMMA OthersStay ==
  ASSUME NEW a, RowsOk(a), NEW S, NEW st, NEW j \in Jobs \ S
  PROVE  Moved(a, S, st)[j].state = a[j].state
<1> DEFINE b == [i \in Jobs |-> IF i \in S THEN SetState(a[i], st) ELSE a[i]]
<1>1. b[j] = a[j] /\ DOMAIN b[j] = Fields
  BY DEF RowsOk, RowOk
<1> HIDE DEF b
<1>2. Resolved(b, S)[j].state = b[j].state
  BY <1>1 DEF Resolved, Fields
<1> QED
  BY <1>1, <1>2 DEF Moved, b

\* skipUnreachedStackMembers changes states of entries only.
LEMMA SkippedKeeps ==
  ASSUME NEW F, NEW a, RowsOk(a), NEW s \in Jobs
  PROVE  /\ Keeps(F, a, s, SkipUnreached(a, s)[s]) /\ SkipUnreached(a, s)[s].state = a[s].state
         /\ Follows(F, a, SkipUnreached(a, s))
<1> DEFINE left(e) == IF e.state = "queued" \/ (e.state = "reviewing" /\ e.job = 0) THEN "skipped"
                      ELSE IF e.state = "reviewing" /\ Terminal(a[e.job]) THEN Outcome(a, e.job)
                      ELSE e.state
           l == [i \in DOMAIN a[s].rail |-> [a[s].rail[i] EXCEPT !.state = left(a[s].rail[i])]]
<1>1. SkipUnreached(a, s) = [a EXCEPT ![s] = [a[s] EXCEPT !.rail = l]]
  BY DEF SkipUnreached
<1>2. \A i \in DOMAIN a[s].rail : EntryOk(a, a[s].rail[i])
  BY DEF RowsOk, RowOk
<1>3. DOMAIN l = DOMAIN a[s].rail /\ \A i \in DOMAIN l : EntryOk(a, l[i])
  BY <1>2, EntryKeeps
<1> HIDE DEF l
<1>4. Keeps(F, a, s, [a[s] EXCEPT !.rail = l]) /\ [a[s] EXCEPT !.rail = l].state = a[s].state
  BY <1>3, RailKeeps DEF RowsOk, RowOk, Fields
<1>5. SkipUnreached(a, s)[s] = [a[s] EXCEPT !.rail = l]
  BY <1>1 DEF RowsOk
<1>6. Follows(F, a, [a EXCEPT ![s] = [a[s] EXCEPT !.rail = l]])
  BY <1>4, RowReplaced
<1> QED
  BY <1>1, <1>4, <1>5, <1>6

\* An entry of a rail is replaced.
LEMMA EntryReplaced ==
  ASSUME NEW F, NEW a, RowsOk(a), NEW s \in Jobs, NEW k, NEW e, k \in DOMAIN a[s].rail => EntryOk(a, e)
  PROVE  Follows(F, a, [a EXCEPT ![s].rail[k] = e])
<1> DEFINE l == [a[s].rail EXCEPT ![k] = e]
<1>1. [a EXCEPT ![s].rail[k] = e] = [a EXCEPT ![s] = [a[s] EXCEPT !.rail = l]]
  OBVIOUS
<1>2. DOMAIN l = DOMAIN a[s].rail /\ \A i \in DOMAIN l : EntryOk(a, l[i])
  BY DEF RowsOk, RowOk
<1> HIDE DEF l
<1> QED
  BY <1>1, <1>2, RailKeeps, RowReplaced

-----------------------------------------------------------------------------
(* A turn *)

\* run() up to its first await: a stack that is claimed was queued or is dead.
LEMMA EnteredOk ==
  ASSUME NEW rs, RowsOk(rs), OpenOk(rs), NEW claimed, \A j \in claimed : WaitOk(rs, j)
  PROVE  LET b == EnteredAll(rs, claimed)
         IN  /\ RowsOk(b) /\ OpenOk(b)
             /\ \A j \in Jobs : b[j].over = rs[j].over /\ (b[j].state = "absent" <=> rs[j].state = "absent")
             /\ \A j \in Jobs \ claimed : b[j] = rs[j]
<1> DEFINE b == EnteredAll(rs, claimed)
<1>1. DOMAIN b = Jobs
  BY DEF EnteredAll
<1>2. ASSUME NEW j \in Jobs
      PROVE  /\ DOMAIN b[j] = Fields /\ b[j].over = rs[j].over /\ b[j].key = rs[j].key
             /\ b[j].state = "absent" <=> rs[j].state = "absent"
             /\ DOMAIN b[j].rail = DOMAIN rs[j].rail /\ \A i \in DOMAIN b[j].rail : EntryOk(rs, b[j].rail[i])
             /\ Running(b, j) => Running(rs, j)
             /\ j \notin claimed => b[j] = rs[j]
  <2>1. RowOk(rs, j)
    BY DEF RowsOk
  <2>2. CASE j \notin claimed \/ rs[j].state = "completed"
    <3>1. b[j] = rs[j]
      BY <2>2 DEF EnteredAll
    <3> HIDE DEF b
    <3> QED
      BY <2>1, <3>1 DEF RowOk, Running
  <2>3. CASE j \in claimed /\ rs[j].state # "completed" /\ Dead(rs[j])
    <3>1. b[j] = SkipUnreached(rs, j)[j]
      BY <2>3 DEF EnteredAll
    <3>2. Keeps({}, rs, j, b[j]) /\ b[j].state = rs[j].state
      BY <3>1, SkippedKeeps
    <3>3. b[j].key = rs[j].key
      BY <2>1, <3>1 DEF SkipUnreached, RowsOk, RowOk, Fields
    <3> HIDE DEF b
    <3> QED
      BY <2>3, <3>2, <3>3 DEF Keeps, Running, IsStack, Active
  <2>4. CASE j \in claimed /\ rs[j].state # "completed" /\ ~Dead(rs[j])
    <3>1. b[j] = [rs[j] EXCEPT !.state = "running"]
      BY <2>4 DEF EnteredAll, SetState
    <3>2. /\ DOMAIN b[j] = Fields /\ b[j].over = rs[j].over /\ b[j].key = rs[j].key /\ b[j].rail = rs[j].rail
          /\ b[j].state = "running"
      BY <2>1, <3>1 DEF RowOk, Fields
    <3> HIDE DEF b
    <3> QED
      BY <2>1, <2>4, <3>2 DEF RowOk, Running, IsStack, Active, WaitOk, Dead
  <2> QED
    BY <2>2, <2>3, <2>4
<1> HIDE DEF b
<1>3. \A e : EntryOk(rs, e) => EntryOk(b, e)
  BY <1>2 DEF EntryOk, IsPull, IsStack
<1>4. ASSUME NEW j \in Jobs PROVE RowOk(b, j)
  <2>1. RowOk(rs, j) /\ b[j].over = rs[j].over /\ DOMAIN b[j].rail = DOMAIN rs[j].rail /\ DOMAIN b[j] = Fields
    BY <1>2 DEF RowsOk
  <2>2. \A i \in DOMAIN b[j].rail : EntryOk(b, b[j].rail[i])
    BY <1>2, <1>3
  <2> QED
    BY <2>1, <2>2 DEF RowOk, IsStack
<1>5. RowsOk(b) /\ OpenOk(b)
  BY <1>1, <1>2, <1>4 DEF RowsOk, OpenOk
<1> QED
  BY <1>2, <1>5 DEF b

\* What a turn makes of the queue: only the jobs of E come in.
Advances(q, E) ==
  /\ Sound(q) /\ Busy(q) /\ q.started
  /\ ToSet(q.pending) \subseteq ToSet(queue.pending) \union E
  /\ q.active \ queue.active \subseteq ToSet(queue.pending) \union E

\* A turn over sound rows is sound.
LEMMA TurnKeeps ==
  ASSUME StackInv, NEW rs, RowsOk(rs), OpenOk(rs), NEW q, NEW E, Advances(q, E), NEW stopped, NEW moved,
         Turn(rs, q, stopped, moved), HandsOk(rs, q, handoffs'),
         \A j \in ToSet(queue.pending) \union E : WaitOk(rs, j),
         \A j \in queue.active : rs[j].state # "absent" /\ rs[j].over = rows[j].over,
         \A j \in DOMAIN moved : /\ moved[j].at \in StackAwaits \union {"returned"}
                                 /\ moved[j].at \in StackAwaits => IsStack(rs[j]) /\ LocalsOk(rs, j, moved[j].mem)
  PROVE  StackInv'
<1> DEFINE claimed == q.active \ queue.active
           b == EnteredAll(rs, claimed)
<1>1. /\ queue' = q /\ rows' = b /\ QueueOk(q)
      /\ q.active \subseteq Jobs /\ queue.active \subseteq Jobs /\ ToSet(q.pending) \intersect q.active = {}
  BY DEF Turn, Advances, QueueOk, StackInv, Sound, Queues
<1>2. \A j \in claimed : WaitOk(rs, j)
  BY DEF Advances
<1>3. /\ RowsOk(b) /\ OpenOk(b)
      /\ \A j \in Jobs : b[j].over = rs[j].over /\ (b[j].state = "absent" <=> rs[j].state = "absent")
      /\ \A j \in Jobs \ claimed : b[j] = rs[j]
  BY <1>2, EnteredOk
<1> HIDE DEF b
<1>4. \A j \in ToSet(q.pending) : WaitOk(rs, j) /\ j \notin claimed
  BY <1>1 DEF Advances
<1>5. \A j \in ToSet(q.pending) : WaitOk(b, j)
  BY <1>3, <1>4 DEF WaitOk
<1>6. \A j \in q.active : b[j].state # "absent"
  BY <1>1, <1>2, <1>3 DEF WaitOk
<1>7. HandsOk(b, q, handoffs')
  <2>1. \A t \in Brought(handoffs') : t.job \in Jobs \ claimed
    BY DEF HandsOk, Entries, Brought
  <2>2. \A t \in Brought(handoffs') : WaitOk(b, t.job)
    BY <1>3, <2>1 DEF HandsOk, WaitOk
  <2> QED
    BY <1>3, <2>2 DEF HandsOk
<1>8. /\ DOMAIN pc' = Jobs /\ DOMAIN mem' = Jobs
  BY DEF Turn
<1>9. ASSUME NEW j \in Jobs PROVE RunOk(b, q, pc'[j], mem'[j], j)
  <2>1. b[j].over = rs[j].over /\ RowOk(b, j)
    BY <1>3 DEF RowsOk
  <2>2. CASE j \in claimed
    <3>1. pc'[j] = EnteredAt(rs[j]) /\ (pc'[j] = "pin" => mem'[j] = AtFirst)
      BY <2>2 DEF Turn
    <3>2. "pin" \in StackAwaits /\ "review" \notin StackAwaits /\ "returned" \notin StackAwaits
      BY DEF StackAwaits
    <3>3. DOMAIN AtFirst = Locals /\ AtFirst.i = 1
      BY DEF AtFirst, NoLocals, Locals
    <3>4. IsStack(b[j]) => 1 \in 1..Len(b[j].over)
      BY <2>1 DEF IsStack, RowOk
    <3> QED
      BY <2>1, <2>2, <3>1, <3>2, <3>3, <3>4 DEF EnteredAt, RunOk, LocalsOk, IsStack
  <2>3. CASE j \notin claimed /\ j \notin q.active
    <3>1. pc'[j] = "idle"
      BY <2>3 DEF Turn
    <3> QED
      BY <3>1 DEF RunOk, StackAwaits
  <2>4. CASE j \notin claimed /\ j \in q.active /\ j \in DOMAIN moved
    <3>1. pc'[j] = moved[j].at /\ mem'[j] = moved[j].mem
      BY <2>4 DEF Turn
    <3>2. "review" \notin StackAwaits
      BY DEF StackAwaits
    <3> QED
      BY <2>1, <2>4, <3>1, <3>2 DEF RunOk, LocalsOk, IsStack
  <2>5. CASE j \notin claimed /\ j \in q.active /\ j \notin DOMAIN moved
    <3>1. pc'[j] = pc[j] /\ mem'[j] = mem[j]
      BY <2>5 DEF Turn
    <3>2. RunOk(rows, queue, pc[j], mem[j], j) /\ rs[j].over = rows[j].over
      BY <2>5 DEF StackInv
    <3> QED
      BY <2>1, <2>5, <3>1, <3>2 DEF RunOk, LocalsOk, IsStack
  <2> QED
    BY <2>2, <2>3, <2>4, <2>5
<1> QED
  BY <1>1, <1>3, <1>5, <1>6, <1>7, <1>8, <1>9 DEF StackInv, KnownOk, Advances

-----------------------------------------------------------------------------
(* The queue under a turn *)

\* A queue that runs advances by nothing, by aborts, or by a release.
LEMMA QueueTurns ==
  ASSUME QueueOk(queue), queue.started, NEW S
  PROVE  /\ Advances(queue, {}) /\ Entries(queue) \subseteq Entries(queue)
         /\ Advances(AbortedMany(queue, S), {}) /\ Entries(AbortedMany(queue, S)) \subseteq Entries(queue)
         /\ \A j \in queue.active : Advances(Finished(queue, j), {})
                                    /\ Entries(Finished(queue, j)) \subseteq Entries(queue)
<1>1. Sound(queue) /\ Busy(queue)
  BY DEF QueueOk
<1>2. Advances(queue, {})
  BY <1>1 DEF Advances
<1>3. /\ Advances(AbortedMany(queue, S), {})
      /\ Entries(AbortedMany(queue, S)) \subseteq Entries(queue)
  BY <1>1, AbortedManySound DEF Advances, Entries
<1>4. ASSUME NEW j \in queue.active
      PROVE  Advances(Finished(queue, j), {}) /\ Entries(Finished(queue, j)) \subseteq Entries(queue)
  <2> DEFINE less == [queue EXCEPT !.active = @ \ {j}]
             q    == Finished(queue, j)
  <2>1. /\ Sound(less) /\ less.pending = queue.pending /\ q = Pumped(less)
        /\ Sound(q) /\ Busy(q) /\ q.started = queue.started
    BY <1>1, FinishedSound DEF Finished
  <2>2. less.active = queue.active \ {j}
    BY <1>1, Updated DEF Sound
  <2> HIDE DEF less, q
  <2>3. Entries(q) \subseteq ToSet(queue.pending) \union (queue.active \ {j}) /\ queue.active \ {j} \subseteq q.active
    BY <2>1, <2>2, PumpedEntries, PumpedSound DEF Entries
  <2>4. ToSet(q.pending) \intersect q.active = {}
    BY <2>1 DEF Sound
  <2>5. ToSet(q.pending) \subseteq ToSet(queue.pending) /\ q.active \ queue.active \subseteq ToSet(queue.pending)
        /\ Entries(q) \subseteq Entries(queue)
    BY <2>3, <2>4 DEF Entries
  <2> QED
    BY <2>1, <2>5 DEF Advances, q
<1> QED
  BY <1>2, <1>3, <1>4

\* dispatchEnqueue brings in one job.
LEMMA QueueTakes ==
  ASSUME QueueOk(queue), queue.started, NEW j \in Jobs, NEW S
  PROVE  LET q == AbortedMany(Enqueued(queue, j), S)
         IN  Advances(q, {j}) /\ Entries(q) \subseteq Entries(queue) \union {j}
<1> DEFINE e == Enqueued(queue, j)
           q == AbortedMany(e, S)
<1>1. Sound(queue) /\ Busy(queue)
  BY DEF QueueOk
<1>2. Sound(e) /\ Busy(e) /\ e.started /\ Entries(e) \subseteq Entries(queue) \union {j}
  BY <1>1, EnqueuedSound, OperationEntries
<1>3. queue.active \subseteq e.active
  <2> DEFINE longer == [queue EXCEPT !.pending = Append(@, j)]
  <2>1. CASE j \in ToSet(queue.pending) \union queue.active
    BY <2>1 DEF Enqueued
  <2>2. CASE j \notin ToSet(queue.pending) \union queue.active
    <3>1. e = Pumped(longer)
      BY <2>2 DEF Enqueued
    <3>2. Sound(longer) /\ longer.active = queue.active
      BY <1>1, <2>2, LongerSound, Updated DEF Sound
    <3> HIDE DEF longer
    <3> QED
      BY <3>1, <3>2, PumpedSound
  <2> QED
    BY <2>1, <2>2
<1> HIDE DEF e
<1>4. /\ Sound(q) /\ Busy(q) /\ q.started /\ q.active = e.active /\ ToSet(q.pending) \subseteq ToSet(e.pending)
  BY <1>2, AbortedManySound
<1>5. ToSet(e.pending) \intersect e.active = {}
  BY <1>2 DEF Sound
<1> HIDE DEF q
<1>6. Advances(q, {j}) /\ Entries(q) \subseteq Entries(queue) \union {j}
  BY <1>2, <1>3, <1>4, <1>5 DEF Advances, Entries
<1> QED
  BY <1>6 DEF q, e

-----------------------------------------------------------------------------
(* A step of a run *)

\* A run of s that moves on over rows that follow; s alone may end otherwise.
LEMMA GoesKeeps ==
  ASSUME StackInv, NEW s \in queue.active, NEW rs, Follows({s}, rows, rs), NEW at, NEW m, Goes(s, rs, at, m),
         at \in StackAwaits \union {"returned"}, at \in StackAwaits => IsStack(rows[s]) /\ LocalsOk(rows, s, m)
  PROVE  StackInv'
<1> DEFINE moved == [k \in {s} |-> [at |-> at, mem |-> m]]
<1>1. s \in Jobs /\ queue.active \subseteq Jobs /\ ToSet(queue.pending) \intersect queue.active = {} /\ queue.started
  BY DEF StackInv, QueueOk, Sound, Queues, Stopped
<1>2. /\ RowsOk(rs) /\ OpenOk(rs) /\ \A j \in Jobs \ {s} : WaitOk(rows, j) => WaitOk(rs, j)
      /\ \A j \in Jobs : rows[j].state # "absent" => rs[j].state # "absent" /\ rs[j].over = rows[j].over
  BY FollowsSound DEF StackInv
<1>3. Turn(rs, queue, {}, moved) /\ handoffs' = handoffs
  BY DEF Goes
<1>4. Advances(queue, {})
  BY <1>1, QueueTurns DEF StackInv
<1>5. HandsOk(rs, queue, handoffs)
  <2>1. HandsOk(rows, queue, handoffs)
    BY DEF StackInv
  <2>2. \A t \in Brought(handoffs) : t.job \in Jobs \ {s}
    BY <2>1 DEF HandsOk, Entries, Brought
  <2> QED
    BY <1>2, <2>1, <2>2 DEF HandsOk
<1>6. \A j \in ToSet(queue.pending) \union {} : WaitOk(rs, j)
  BY <1>1, <1>2 DEF StackInv, KnownOk, WaitOk
<1>7. \A j \in queue.active : rs[j].state # "absent" /\ rs[j].over = rows[j].over
  BY <1>1, <1>2 DEF StackInv, KnownOk
<1>8. \A j \in DOMAIN moved : /\ moved[j].at \in StackAwaits \union {"returned"}
                              /\ moved[j].at \in StackAwaits => IsStack(rs[j]) /\ LocalsOk(rs, j, moved[j].mem)
  BY <1>7 DEF IsStack, LocalsOk
<1> HIDE DEF moved
<1> QED
  BY <1>2, <1>3, <1>4, <1>5, <1>6, <1>7, <1>8, TurnKeeps

\* The catch block, over rows that follow.
LEMMA UnwindsKeeps ==
  ASSUME StackInv, NEW s \in queue.active, NEW rs, Follows({s}, rows, rs), Unwinds(s, rs)
  PROVE  StackInv'
<1> DEFINE left == SkipUnreached(rs, s)
           end  == IF Dead(left[s]) \/ s \in aborted THEN "stale" ELSE "failed"
           last == [left EXCEPT ![s] = SetState(@, end)]
<1>1. s \in Jobs /\ rows[s].state # "absent"
  BY DEF StackInv, KnownOk, QueueOk, Sound, Queues
<1>2. RowsOk(rs) /\ rs[s].state # "absent"
  BY <1>1, FollowsSound DEF StackInv
<1>3. Follows({s}, rs, left) /\ left[s].state # "absent" /\ RowsOk(left)
  BY <1>1, <1>2, SkippedKeeps DEF Follows
<1>4. end \in TerminalStates
  BY DEF TerminalStates, DeadStates
<1>5. Returns(s, last)
  BY DEF Unwinds
<1> HIDE DEF left, end
<1>6. Keeps({s}, left, s, SetState(left[s], end))
  BY <1>1, <1>3, <1>4, StateKeeps
<1>7. Follows({s}, left, last)
  BY <1>1, <1>3, <1>6, RowReplaced
<1> HIDE DEF last
<1>8. Follows({s}, rows, last)
  BY <1>3, <1>7, FollowsOn
<1> QED
  BY <1>5, <1>8, GoesKeeps DEF Returns, StackAwaits

-----------------------------------------------------------------------------
(* The stages of a stack run *)

\* A stack run s at one of its members, over rows rs with locals m.
AtMember(s, rs, m) ==
  /\ s \in Jobs /\ pc[s] \in StackAwaits
  /\ Follows({s}, rows, rs) /\ DOMAIN m = Locals /\ m.i = mem[s].i

LEMMA AtFacts ==
  ASSUME StackInv, NEW s \in Jobs, pc[s] \in StackAwaits
  PROVE  /\ s \in queue.active /\ rows[s].state # "absent"
         /\ IsStack(rows[s]) /\ LocalsOk(rows, s, mem[s]) /\ Len(rows[s].over) \in Nat
         /\ AtMember(s, rows, mem[s])
<1>1. RunOk(rows, queue, pc[s], mem[s], s) /\ "idle" \notin StackAwaits
  BY DEF StackInv, StackAwaits
<1>2. s \in queue.active /\ IsStack(rows[s]) /\ LocalsOk(rows, s, mem[s])
  BY <1>1 DEF RunOk
<1>3. rows[s].state # "absent" /\ RowsOk(rows)
  BY <1>2 DEF StackInv, KnownOk
<1> QED
  BY <1>2, <1>3, FollowsSelf DEF AtMember, LocalsOk, RowsOk, RowOk

\* At a member, what goes on at the same member, or unwinds, is sound.
LEMMA GoesOn ==
  ASSUME StackInv, NEW s, NEW rs, NEW m, AtMember(s, rs, m)
  PROVE  /\ \A at \in StackAwaits : Goes(s, rs, at, m) => StackInv'
         /\ Returns(s, rs) => StackInv'
         /\ Unwinds(s, rs) => StackInv'
<1>1. s \in queue.active /\ IsStack(rows[s]) /\ LocalsOk(rows, s, m)
  BY AtFacts DEF AtMember, LocalsOk
<1> QED
  BY <1>1, GoesKeeps, UnwindsKeeps DEF AtMember, Returns, StackAwaits

\* So is what goes to the first member, or to the next.
LEMMA GoesToMember ==
  ASSUME StackInv, NEW s, NEW rs, NEW m, AtMember(s, rs, m), NEW at \in StackAwaits, NEW n,
         DOMAIN n = Locals, n.i = 1 \/ (n.i = m.i + 1 /\ ~IsLast(s)), Goes(s, rs, at, n)
  PROVE  StackInv'
<1>1. /\ s \in queue.active /\ IsStack(rows[s]) /\ LocalsOk(rows, s, m) /\ Len(rows[s].over) \in Nat
      /\ m.i = mem[s].i
  BY AtFacts DEF AtMember, LocalsOk
<1>2. n.i \in 1..Len(rows[s].over)
  BY <1>1 DEF LocalsOk, IsLast, IsStack
<1> QED
  BY <1>1, <1>2, GoesKeeps DEF AtMember, LocalsOk

\* patchStackMember and the note of a member's job.
LEMMA PatchedAt ==
  ASSUME NEW s, NEW rs, NEW m, AtMember(s, rs, m), StackInv
  PROVE  /\ \A x : AtMember(s, PatchedState(rs, s, x), m)
         /\ \A j : IsPull(rs, j) => AtMember(s, [rs EXCEPT ![s].rail[m.i].job = j], m)
         /\ \A e : EntryOk(rs, e) => AtMember(s, Patched(rs, s, e), m)
<1>1. s \in Jobs /\ Follows({s}, rows, rs) /\ RowsOk(rs) /\ RowOk(rs, s)
  BY DEF AtMember, Follows, RowsOk
<1>2. ASSUME NEW x PROVE Follows({s}, rows, PatchedState(rs, s, x))
  <2> DEFINE e == [rs[s].rail[mem[s].i] EXCEPT !.state = x]
  <2>1. mem[s].i \in DOMAIN rs[s].rail => EntryOk(rs, e)
    BY <1>1, EntryKeeps DEF RowOk
  <2>2. PatchedState(rs, s, x) = [rs EXCEPT ![s].rail[mem[s].i] = e]
    BY DEF PatchedState
  <2> HIDE DEF e
  <2>3. Follows({s}, rs, [rs EXCEPT ![s].rail[mem[s].i] = e])
    BY <1>1, <2>1, EntryReplaced
  <2> QED
    BY <1>1, <2>2, <2>3, FollowsOn
<1>3. ASSUME NEW j, IsPull(rs, j) PROVE Follows({s}, rows, [rs EXCEPT ![s].rail[m.i].job = j])
  <2> DEFINE e == [rs[s].rail[m.i] EXCEPT !.job = j]
  <2>1. m.i \in DOMAIN rs[s].rail => EntryOk(rs, rs[s].rail[m.i])
    BY <1>1 DEF RowOk
  <2>2. m.i \in DOMAIN rs[s].rail => EntryOk(rs, e)
    BY <1>3, <2>1 DEF EntryOk
  <2>3. [rs EXCEPT ![s].rail[m.i].job = j] = [rs EXCEPT ![s].rail[m.i] = e]
    OBVIOUS
  <2> HIDE DEF e
  <2>4. Follows({s}, rs, [rs EXCEPT ![s].rail[m.i] = e])
    BY <1>1, <2>2, EntryReplaced
  <2> QED
    BY <1>1, <2>3, <2>4, FollowsOn
<1>4. ASSUME NEW e, EntryOk(rs, e) PROVE Follows({s}, rows, Patched(rs, s, e))
  <2>1. Follows({s}, rs, [rs EXCEPT ![s].rail[mem[s].i] = e])
    BY <1>1, <1>4, EntryReplaced
  <2> QED
    BY <1>1, <2>1, FollowsOn DEF Patched
<1> QED
  BY <1>2, <1>3, <1>4 DEF AtMember

LEMMA NextMemberKeeps ==
  ASSUME StackInv, NEW s, NEW rs, NEW m, AtMember(s, rs, m), NextMember(s, rs, m)
  PROVE  StackInv'
<1> DEFINE n1 == [m EXCEPT !.i = @ + 1, !.attempt = 0]
           n2 == [m EXCEPT !.i = 1, !.attempt = 0]
<1>1. DOMAIN n1 = Locals /\ n1.i = m.i + 1 /\ DOMAIN n2 = Locals /\ n2.i = 1
  BY DEF AtMember, Locals
<1>2. "mode" \in StackAwaits /\ "check" \in StackAwaits
  BY DEF StackAwaits
<1>3. \/ ~IsLast(s) /\ Goes(s, rs, "mode", n1)
      \/ Unwinds(s, rs)
      \/ Goes(s, rs, "check", n2)
  BY DEF NextMember
<1> HIDE DEF n1, n2
<1>4. CASE ~IsLast(s) /\ Goes(s, rs, "mode", n1)
  BY <1>1, <1>2, <1>4, GoesToMember
<1>5. CASE Unwinds(s, rs)
  BY <1>5, GoesOn
<1>6. CASE Goes(s, rs, "check", n2)
  BY <1>1, <1>2, <1>6, GoesToMember
<1> QED
  BY <1>3, <1>4, <1>5, <1>6

LEMMA RetriesKeeps ==
  ASSUME StackInv, NEW s, NEW rs, NEW m, AtMember(s, rs, m), Retries(s, rs, m)
  PROVE  StackInv'
<1> DEFINE n == [m EXCEPT !.attempt = @ + 1]
<1>1. AtMember(s, rs, n) /\ "repin" \in StackAwaits
  BY DEF AtMember, Locals, StackAwaits
<1>2. Unwinds(s, rs) \/ Goes(s, rs, "repin", n) \/ NextMember(s, PatchedState(rs, s, "failed"), m)
  BY DEF Retries
<1> HIDE DEF n
<1>3. CASE Unwinds(s, rs)
  BY <1>3, GoesOn
<1>4. CASE Goes(s, rs, "repin", n)
  BY <1>1, <1>4, GoesOn
<1>5. CASE NextMember(s, PatchedState(rs, s, "failed"), m)
  BY <1>5, PatchedAt, NextMemberKeeps
<1> QED
  BY <1>2, <1>3, <1>4, <1>5

LEMMA AwaitedKeeps ==
  ASSUME StackInv, NEW s, NEW rs, NEW m, AtMember(s, rs, m), NEW j, Awaited(s, rs, j, m)
  PROVE  StackInv'
<1>1. CASE Goes(s, rs, "verify", m)
  BY <1>1, GoesOn DEF StackAwaits
<1>2. CASE NextMember(s, PatchedState(rs, s, "skipped"), m)
  BY <1>2, PatchedAt, NextMemberKeeps
<1>3. CASE Retries(s, rs, m)
  BY <1>3, RetriesKeeps
<1> QED
  BY <1>1, <1>2, <1>3 DEF Awaited

LEMMA JoinedKeeps ==
  ASSUME StackInv, NEW s, NEW rs, NEW m, AtMember(s, rs, m), NEW j, IsPull(rs, j), Joined(s, rs, j, m)
  PROVE  StackInv'
<1> DEFINE noted == [rs EXCEPT ![s].rail[m.i].job = j]
           n == [m EXCEPT !.covered = @ \union {m.i}]
<1>1. AtMember(s, noted, m) /\ AtMember(s, noted, n)
  <2>1. AtMember(s, noted, m)
    BY PatchedAt
  <2> HIDE DEF noted
  <2> QED
    BY <2>1 DEF AtMember, Locals
<1>2. NextMember(s, noted, n) \/ Awaited(s, noted, j, m) \/ Goes(s, noted, "wait", m)
  BY DEF Joined
<1> HIDE DEF noted, n
<1>3. CASE NextMember(s, noted, n)
  BY <1>1, <1>3, NextMemberKeeps
<1>4. CASE Awaited(s, noted, j, m)
  BY <1>1, <1>4, AwaitedKeeps
<1>5. CASE Goes(s, noted, "wait", m)
  BY <1>1, <1>5, GoesOn DEF StackAwaits
<1> QED
  BY <1>2, <1>3, <1>4, <1>5

-----------------------------------------------------------------------------
(* New rows of pulls *)

\* A free id takes the row of a pull.
LEMMA PullAdded ==
  ASSUME NEW F, NEW a, NEW b, Follows(F, a, b), NEW n \in Jobs, a[n].state = "absent",
         NEW r, DOMAIN r = Fields, NEW p, r.over = <<p>>, r.rail = <<>>, r.state # "absent"
  PROVE  /\ Follows(F, a, [b EXCEPT ![n] = r])
         /\ IsPull([b EXCEPT ![n] = r], n)
<1> DEFINE c == [b EXCEPT ![n] = r]
<1>1. DOMAIN c = Jobs /\ \A j \in Jobs : c[j] = IF j = n THEN r ELSE b[j]
  BY DEF Follows, RowsOk
<1>2. Len(r.over) = 1 /\ DOMAIN r.rail = {} /\ ~IsStack(r)
  BY DEF IsStack
<1> HIDE DEF c
<1>3. \A e : EntryOk(b, e) => EntryOk(c, e)
  BY <1>1, <1>2 DEF EntryOk, IsPull
<1>4. ASSUME NEW j \in Jobs PROVE RowOk(c, j)
  <2>1. CASE j = n
    BY <1>1, <1>2, <2>1 DEF RowOk
  <2>2. CASE j # n
    <3>1. RowOk(b, j) /\ c[j] = b[j]
      BY <1>1, <2>2 DEF Follows, RowsOk
    <3> QED
      BY <1>3, <3>1 DEF RowOk
  <2> QED
    BY <2>1, <2>2
<1>5. RowsOk(c)
  BY <1>1, <1>4 DEF RowsOk
<1>6. Follows(F, a, c)
  BY <1>1, <1>2, <1>5 DEF Follows
<1>7. IsPull(c, n)
  BY <1>1, <1>2 DEF IsPull
<1> QED
  BY <1>6, <1>7 DEF c

LEMMA PullRow ==
  ASSUME NEW p, NEW at, NEW h
  PROVE  /\ DOMAIN NewRow(<<p>>, at) = Fields /\ NewRow(<<p>>, at).over = <<p>>
         /\ NewRow(<<p>>, at).rail = <<>> /\ NewRow(<<p>>, at).state = "queued"
         /\ LET r == [NewRow(<<p>>, at) EXCEPT !.head = h, !.state = "running"]
            IN  DOMAIN r = Fields /\ r.over = <<p>> /\ r.rail = <<>> /\ r.state = "running"
<1>1. Len(<<p>>) = 1
  OBVIOUS
<1>2. NewRow(<<p>>, at) = [state |-> "queued", over |-> <<p>>, head |-> at[Top(<<p>>)], key |-> 0, rail |-> <<>>]
  BY <1>1 DEF NewRow
<1> QED
  BY <1>2 DEF Fields

\* What enqueue finds on a pull's shared key is a pull's.
LEMMA HolderIsPull ==
  ASSUME NEW rs, NEW p, NEW j \in Holders(rs, p)
  PROVE  IsPull(rs, j)
<1>1. j \in Jobs /\ rs[j].state # "absent" /\ rs[j].over = <<p>>
  BY DEF Holders
<1>2. Len(rs[j].over) = 1
  BY <1>1
<1> QED
  BY <1>1, <1>2 DEF IsPull, IsStack

\* The stale sweep of a pull's heads touches pulls only.
LEMMA SweptFollows ==
  ASSUME NEW F, NEW a, RowsOk(a), NEW p, NEW h
  PROVE  Follows(F, a, SweptPull(a, p, h))
<1> DEFINE S == OtherHeads(a, p, h)
<1>2. \A j \in S \intersect Jobs : a[j].state # "absent" /\ ~IsStack(a[j])
  <2>1. \A j \in S : j \in Holders(a, p)
    BY DEF OtherHeads
  <2> QED
    BY <2>1, HolderIsPull DEF IsPull
<1>3. "stale" \in TerminalStates
  BY DEF TerminalStates, DeadStates
<1> HIDE DEF S
<1>4. Follows(F, a, Moved(a, S, "stale"))
  BY <1>2, <1>3, MovedFollows
<1> QED
  BY <1>4 DEF SweptPull, S

LEMMA AttemptKeeps ==
  ASSUME StackInv, NEW s, NEW rs, NEW m, AtMember(s, rs, m), Attempt(s, rs, m)
  PROVE  StackInv'
<1> DEFINE p     == Member(s)
           h     == rs[s].rail[m.i].pin
           begun == PatchedState(rs, s, "reviewing")
           swept == SweptPull(begun, p, h)
           found == AtHead(swept, p, h)
<1>1. AtMember(s, begun, m)
  BY PatchedAt
<1> HIDE DEF begun
<1>2. AtMember(s, swept, m)
  <2>1. RowsOk(begun)
    BY <1>1 DEF AtMember, Follows
  <2>2. Follows({s}, begun, swept)
    BY <2>1, SweptFollows
  <2> HIDE DEF swept
  <2>3. Follows({s}, rows, swept)
    BY <1>1, <2>2, FollowsOn DEF AtMember
  <2> QED
    BY <1>1, <2>3 DEF AtMember
<1>3. CASE \E j \in found : Joined(s, swept, j, m)
  <2>1. PICK j \in found : Joined(s, swept, j, m)
    BY <1>3
  <2>2. IsPull(swept, j)
    <3>1. j \in Holders(swept, p)
      BY <2>1 DEF AtHead
    <3> HIDE DEF swept
    <3> QED
      BY <3>1, HolderIsPull
  <2> HIDE DEF swept, found
  <2> QED
    BY <1>2, <2>1, <2>2, JoinedKeeps
<1>4. CASE \E n \in Jobs :
             /\ IsNextRow(n)
             /\ Goes(s, [swept EXCEPT ![n] = [NewRow(<<p>>, head) EXCEPT !.head = h, !.state = "running"],
                                      ![s].rail[m.i].job = n], "inline", m)
  <2> DEFINE r == [NewRow(<<p>>, head) EXCEPT !.head = h, !.state = "running"]
             added(n) == [swept EXCEPT ![n] = r]
  <2>1. PICK n \in Jobs : /\ IsNextRow(n)
                          /\ Goes(s, [swept EXCEPT ![n] = r, ![s].rail[m.i].job = n], "inline", m)
    BY <1>4
  <2>2. DOMAIN r = Fields /\ r.over = <<p>> /\ r.rail = <<>> /\ r.state # "absent"
    BY PullRow
  <2>3. rows[n].state = "absent"
    BY <2>1 DEF IsNextRow, Exists
  <2>4. [swept EXCEPT ![n] = r, ![s].rail[m.i].job = n] = [added(n) EXCEPT ![s].rail[m.i].job = n]
    OBVIOUS
  <2> HIDE DEF r, swept, p
  <2>5. Follows({s}, rows, added(n)) /\ IsPull(added(n), n)
    BY <1>2, <2>2, <2>3, PullAdded DEF AtMember
  <2>6. AtMember(s, added(n), m)
    BY <1>2, <2>5 DEF AtMember
  <2> HIDE DEF added
  <2>7. AtMember(s, [added(n) EXCEPT ![s].rail[m.i].job = n], m)
    BY <2>5, <2>6, PatchedAt
  <2>8. "inline" \in StackAwaits
    BY DEF StackAwaits
  <2> QED
    BY <2>1, <2>4, <2>7, <2>8, GoesOn
<1>5. CASE Unwinds(s, begun)
  BY <1>1, <1>5, GoesOn
<1> QED
  BY <1>3, <1>4, <1>5 DEF Attempt, begun

-----------------------------------------------------------------------------
(* The steps of a run *)

\* A key is moved aside, of a row that neither waits nor runs.
LEMMA KeyKeeps ==
  ASSUME NEW F, NEW a, RowsOk(a), NEW j \in Jobs, ~Active(a[j]), NEW k
  PROVE  Keeps(F, a, j, [a[j] EXCEPT !.key = k]) /\ [a[j] EXCEPT !.key = k].state = a[j].state
<1>1. DOMAIN a[j] = Fields /\ \A i \in DOMAIN a[j].rail : EntryOk(a, a[j].rail[i])
  BY DEF RowsOk, RowOk
<1>2. /\ DOMAIN [a[j] EXCEPT !.key = k] = Fields /\ [a[j] EXCEPT !.key = k].rail = a[j].rail
      /\ [a[j] EXCEPT !.key = k].state = a[j].state /\ [a[j] EXCEPT !.key = k].over = a[j].over
  BY <1>1 DEF Fields
<1> QED
  BY <1>1, <1>2 DEF Keeps, Active

\* The last write of a run.
LEMMA EndsKeeps ==
  ASSUME StackInv, NEW s, NEW rs, NEW m, AtMember(s, rs, m), NEW st \in TerminalStates,
         Returns(s, [rs EXCEPT ![s] = SetState(@, st)])
  PROVE  StackInv'
<1> DEFINE last == [rs EXCEPT ![s] = SetState(@, st)]
<1>1. s \in Jobs /\ RowsOk(rs) /\ Follows({s}, rows, rs) /\ rs[s].state # "absent"
  <2>1. s \in Jobs /\ pc[s] \in StackAwaits /\ Follows({s}, rows, rs)
    BY DEF AtMember
  <2>2. rows[s].state # "absent"
    BY <2>1, AtFacts
  <2> QED
    BY <2>1, <2>2, FollowsSound DEF StackInv
<1>2. Keeps({s}, rs, s, SetState(rs[s], st))
  BY <1>1, StateKeeps
<1>3. Follows({s}, rs, last)
  BY <1>1, <1>2, RowReplaced
<1> HIDE DEF last
<1>4. Follows({s}, rows, last)
  BY <1>1, <1>3, FollowsOn
<1>5. AtMember(s, last, m)
  BY <1>4 DEF AtMember
<1> QED
  BY <1>5, GoesOn DEF last

\* The entry of the member a run is at.
LEMMA MemberEntry ==
  ASSUME StackInv, NEW s \in Jobs, pc[s] \in StackAwaits
  PROVE  EntryOk(rows, MemberRow(s)) /\ mem[s].i \in DOMAIN rows[s].rail
<1>1. IsStack(rows[s]) /\ mem[s].i \in 1..Len(rows[s].over) /\ RowOk(rows, s)
  BY AtFacts DEF LocalsOk, StackInv, RowsOk
<1> QED
  BY <1>1 DEF RowOk, MemberRow

LEMMA PullEndsTerminal ==
  ASSUME NEW j, NEW signal, NEW e \in PullEnds(j, signal)
  PROVE  e \in TerminalStates
BY DEF PullEnds, TerminalStates, DeadStates

LEMMA NoJobZero == 0 \notin Jobs
<1>1. Cardinality(Jobs) \in Nat
  BY QueueAssumption, FS_CardinalityType
<1>2. 0 \notin 1..Cardinality(Jobs)
  BY <1>1
<1> QED
  BY <1>2, StackAssumption

LEMMA ReviewPullKeeps ==
  ASSUME StackInv, NEW j \in Jobs, ReviewPull(j)
  PROVE  StackInv'
<1>1. j \in queue.active /\ ~IsStack(rows[j]) /\ rows[j].state # "absent" /\ RowsOk(rows)
  BY DEF ReviewPull, StackAt, StackInv, RunOk, KnownOk
<1>2. PICK e \in PullEnds(j, j \in aborted) : Returns(j, Moved(rows, {j}, e))
  BY DEF ReviewPull
<1>3. e \in TerminalStates
  BY <1>2, PullEndsTerminal
<1>4. Follows({j}, rows, Moved(rows, {j}, e))
  BY <1>1, <1>3, MovedFollows
<1> QED
  BY <1>1, <1>2, <1>4, GoesKeeps DEF Returns, StackAwaits

LEMMA PinKeeps ==
  ASSUME StackInv, NEW s \in Jobs, Pin(s)
  PROVE  StackInv'
<1> DEFINE e  == [MemberRow(s) EXCEPT !.pin = head[Member(s)]]
           rs == Patched(rows, s, e)
           n  == [mem[s] EXCEPT !.i = @ + 1]
<1>1. pc[s] \in StackAwaits /\ {"pin", "mode"} \subseteq StackAwaits
  BY DEF Pin, StackAt, StackAwaits
<1>2. AtMember(s, rows, mem[s])
  BY <1>1, AtFacts
<1>3. EntryOk(rows, e)
  BY <1>1, MemberEntry, EntryKeeps
<1> HIDE DEF e
<1>4. AtMember(s, rs, mem[s])
  BY <1>2, <1>3, PatchedAt
<1>5. DOMAIN n = Locals /\ n.i = mem[s].i + 1 /\ DOMAIN AtFirst = Locals /\ AtFirst.i = 1
  BY <1>2 DEF AtMember, Locals, AtFirst, NoLocals
<1>6. \/ Unwinds(s, rows) \/ Unwinds(s, rs)
      \/ Goes(s, rs, "mode", AtFirst)
      \/ ~IsLast(s) /\ Goes(s, rs, "pin", n)
  BY DEF Pin, e
<1> HIDE DEF rs, n
<1>7. CASE Unwinds(s, rows) \/ Unwinds(s, rs)
  BY <1>2, <1>4, <1>7, GoesOn
<1>8. CASE Goes(s, rs, "mode", AtFirst)
  BY <1>1, <1>4, <1>5, <1>8, GoesToMember
<1>9. CASE ~IsLast(s) /\ Goes(s, rs, "pin", n)
  BY <1>1, <1>4, <1>5, <1>9, GoesToMember
<1> QED
  BY <1>6, <1>7, <1>8, <1>9

LEMMA ModeKeeps ==
  ASSUME StackInv, NEW s \in Jobs, Mode(s)
  PROVE  StackInv'
<1>1. AtMember(s, rows, mem[s])
  BY AtFacts DEF Mode, StackAt, StackAwaits
<1>2. CASE NextMember(s, PatchedState(rows, s, "skipped"), mem[s])
  BY <1>1, <1>2, PatchedAt, NextMemberKeeps
<1>3. CASE Unwinds(s, rows)
  BY <1>1, <1>3, GoesOn
<1>4. CASE Attempt(s, rows, mem[s])
  BY <1>1, <1>4, AttemptKeeps
<1> QED
  BY <1>2, <1>3, <1>4 DEF Mode

LEMMA RepinKeeps ==
  ASSUME StackInv, NEW s \in Jobs, Repin(s)
  PROVE  StackInv'
<1> DEFINE e    == [MemberRow(s) EXCEPT !.pin = head[Member(s)]]
           last == MemberRow(s).job
           key  == AsideKey(s, mem[s].attempt)
           rs   == Patched(rows, s, e)
           rk   == [rs EXCEPT ![last].key = key]
<1>1. pc[s] \in StackAwaits
  BY DEF Repin, StackAt, StackAwaits
<1>2. AtMember(s, rows, mem[s])
  BY <1>1, AtFacts
<1>3. EntryOk(rows, e)
  BY <1>1, MemberEntry, EntryKeeps
<1>4. AtMember(s, rs, mem[s])
  <2> HIDE DEF e
  <2> QED
    BY <1>2, <1>3, PatchedAt
<1>5. \/ Unwinds(s, rows) \/ Unwinds(s, rs)
      \/ Attempt(s, rs, mem[s])
      \/ ~Active(rows[last]) /\ Attempt(s, rk, mem[s])
  BY DEF Repin
<1>6. ASSUME ~Active(rows[last]) PROVE AtMember(s, rk, mem[s])
  <2>1. \A j \in Jobs : rs[j].state = rows[j].state
    BY <1>2 DEF Patched, AtMember, Follows, RowsOk, RowOk, Fields
  <2>2. RowsOk(rs) /\ Follows({s}, rows, rs)
    BY <1>4 DEF AtMember, Follows
  <2> HIDE DEF rs
  <2>3. last \in Jobs => Keeps({s}, rs, last, [rs[last] EXCEPT !.key = key])
    BY <1>6, <2>1, <2>2, KeyKeeps DEF Active
  <2>4. rk = [rs EXCEPT ![last] = [rs[last] EXCEPT !.key = key]]
    OBVIOUS
  <2> HIDE DEF rk, last, key
  <2>5. Follows({s}, rs, rk)
    BY <2>2, <2>3, <2>4, RowReplaced
  <2>6. Follows({s}, rows, rk)
    BY <2>2, <2>5, FollowsOn
  <2> QED
    BY <1>4, <2>6 DEF AtMember
<1> HIDE DEF rs, rk, last
<1>7. CASE Unwinds(s, rows) \/ Unwinds(s, rs)
  BY <1>2, <1>4, <1>7, GoesOn
<1>8. CASE Attempt(s, rs, mem[s])
  BY <1>4, <1>8, AttemptKeeps
<1>9. CASE ~Active(rows[last]) /\ Attempt(s, rk, mem[s])
  BY <1>6, <1>9, AttemptKeeps
<1> QED
  BY <1>5, <1>7, <1>8, <1>9

LEMMA InlineEndsKeeps ==
  ASSUME StackInv, NEW s \in Jobs, InlineEnds(s)
  PROVE  StackInv'
<1> DEFINE j == MemberRow(s).job
<1>1. pc[s] \in StackAwaits
  BY DEF InlineEnds, StackAt, StackAwaits
<1>2. AtMember(s, rows, mem[s])
  BY <1>1, AtFacts
<1>3. EntryOk(rows, MemberRow(s))
  BY <1>1, MemberEntry
<1>4. PICK e \in PullEnds(j, s \in aborted) : \E over \in IF TokenCap THEN BOOLEAN ELSE {FALSE} :
        \/ Unwinds(s, Moved(rows, {j}, e))
        \/ Awaited(s, Moved(rows, {j}, e), j, [mem[s] EXCEPT !.overCap = @ \/ over])
  BY DEF InlineEnds
<1> DEFINE rs == Moved(rows, {j}, e)
<1>5. PICK over : \/ Unwinds(s, rs)
                  \/ Awaited(s, rs, j, [mem[s] EXCEPT !.overCap = @ \/ over])
  BY <1>4
<1> DEFINE m == [mem[s] EXCEPT !.overCap = @ \/ over]
<1>6. e \in TerminalStates
  BY <1>4, PullEndsTerminal
<1>7. \A k \in {j} \intersect Jobs : rows[k].state # "absent" /\ ~IsStack(rows[k])
  BY <1>3, NoJobZero DEF EntryOk, IsPull
<1>8. Follows({s}, rows, rs)
  <2> HIDE DEF j
  <2>1. RowsOk(rows)
    BY DEF StackInv
  <2> QED
    BY <1>6, <1>7, <2>1, MovedFollows
<1> HIDE DEF rs, j
<1>9. AtMember(s, rs, mem[s]) /\ AtMember(s, rs, m)
  BY <1>2, <1>8 DEF AtMember, Locals
<1> HIDE DEF m
<1>10. CASE Unwinds(s, rs)
  BY <1>9, <1>10, GoesOn
<1>11. CASE Awaited(s, rs, j, m)
  BY <1>9, <1>11, AwaitedKeeps
<1> QED
  BY <1>5, <1>10, <1>11 DEF m

LEMMA PollKeeps ==
  ASSUME StackInv, NEW s \in Jobs, Poll(s)
  PROVE  StackInv'
<1>1. AtMember(s, rows, mem[s])
  BY AtFacts DEF Poll, StackAt, StackAwaits
<1>2. CASE Unwinds(s, rows)
  BY <1>1, <1>2, GoesOn
<1>3. CASE Awaited(s, rows, MemberRow(s).job, mem[s])
  BY <1>1, <1>3, AwaitedKeeps
<1> QED
  BY <1>2, <1>3 DEF Poll

LEMMA VerifyKeeps ==
  ASSUME StackInv, NEW s \in Jobs, Verify(s)
  PROVE  StackInv'
<1>1. AtMember(s, rows, mem[s])
  BY AtFacts DEF Verify, StackAt, StackAwaits
<1>2. CASE Unwinds(s, rows)
  BY <1>1, <1>2, GoesOn
<1>3. CASE NextMember(s, PatchedState(rows, s, "done"), mem[s])
  BY <1>1, <1>3, PatchedAt, NextMemberKeeps
<1>4. CASE Retries(s, rows, mem[s])
  BY <1>1, <1>4, RetriesKeeps
<1> QED
  BY <1>2, <1>3, <1>4 DEF Verify

LEMMA CheckKeeps ==
  ASSUME StackInv, NEW s \in Jobs, Check(s)
  PROVE  StackInv'
<1>1. AtMember(s, rows, mem[s])
  BY AtFacts DEF Check, StackAt, StackAwaits
<1>2. CASE Unwinds(s, rows)
  BY <1>1, <1>2, GoesOn
<1>3. CASE Returns(s, [rows EXCEPT ![s] = SetState(@, "stale")])
  BY <1>1, <1>3, EndsKeeps DEF TerminalStates, DeadStates
<1>4. CASE Goes(s, rows, "diff", mem[s])
  BY <1>1, <1>4, GoesOn DEF StackAwaits
<1> QED
  BY <1>2, <1>3, <1>4 DEF Check

\* reconcileCoverage changes states of entries only.
LEMMA ReconciledAt ==
  ASSUME StackInv, NEW s \in Jobs, pc[s] \in StackAwaits
  PROVE  /\ AtMember(s, Reconciled(s), mem[s])
         /\ AtMember(s, Reconciled(s), [mem[s] EXCEPT !.covered = @ \ Ended(s)])
<1> DEFINE l == [i \in DOMAIN rows[s].rail |->
                   IF i \in Ended(s)
                   THEN [rows[s].rail[i] EXCEPT !.state = Outcome(rows, rows[s].rail[i].job)] ELSE rows[s].rail[i]]
<1>1. AtMember(s, rows, mem[s]) /\ RowsOk(rows)
  BY AtFacts DEF StackInv
<1>2. \A i \in DOMAIN rows[s].rail : EntryOk(rows, rows[s].rail[i])
  BY <1>1 DEF RowsOk, RowOk
<1>3. DOMAIN l = DOMAIN rows[s].rail /\ \A i \in DOMAIN l : EntryOk(rows, l[i])
  BY <1>2, EntryKeeps
<1>4. Reconciled(s) = [rows EXCEPT ![s] = [rows[s] EXCEPT !.rail = l]]
  BY DEF Reconciled
<1> HIDE DEF l
<1>5. Follows({s}, rows, Reconciled(s))
  <2>1. Keeps({s}, rows, s, [rows[s] EXCEPT !.rail = l])
    BY <1>1, <1>3, RailKeeps
  <2>2. Follows({s}, rows, [rows EXCEPT ![s] = [rows[s] EXCEPT !.rail = l]])
    BY <1>1, <2>1, RowReplaced
  <2> QED
    BY <1>4, <2>2
<1> QED
  BY <1>1, <1>5 DEF AtMember, Locals

LEMMA PublishesKeeps ==
  ASSUME StackInv, NEW s \in Jobs, pc[s] \in StackAwaits, Publishes(s)
  PROVE  StackInv'
<1> DEFINE n == [mem[s] EXCEPT !.covered = @ \ Ended(s)]
<1>1. AtMember(s, Reconciled(s), n) /\ Goes(s, Reconciled(s), "post", n)
  BY ReconciledAt DEF Publishes
<1> HIDE DEF n
<1> QED
  BY <1>1, GoesOn DEF StackAwaits

LEMMA DiffKeeps ==
  ASSUME StackInv, NEW s \in Jobs, Diff(s)
  PROVE  StackInv'
<1> DEFINE n == [mem[s] EXCEPT !.i = @ + 1]
<1>1. pc[s] \in StackAwaits /\ {"check", "clone"} \subseteq StackAwaits
  BY DEF Diff, StackAt, StackAwaits
<1>2. AtMember(s, rows, mem[s])
  BY <1>1, AtFacts
<1>3. DOMAIN n = Locals /\ n.i = mem[s].i + 1
  BY <1>2 DEF AtMember, Locals
<1>4. \/ Unwinds(s, rows) \/ Publishes(s)
      \/ ~IsLast(s) /\ Goes(s, rows, "check", n)
      \/ Goes(s, rows, "clone", mem[s])
  BY DEF Diff
<1> HIDE DEF n
<1>5. CASE Unwinds(s, rows)
  BY <1>2, <1>5, GoesOn
<1>6. CASE Publishes(s)
  BY <1>1, <1>6, PublishesKeeps
<1>7. CASE ~IsLast(s) /\ Goes(s, rows, "check", n)
  BY <1>1, <1>2, <1>3, <1>7, GoesToMember
<1>8. CASE Goes(s, rows, "clone", mem[s])
  BY <1>1, <1>2, <1>8, GoesOn
<1> QED
  BY <1>4, <1>5, <1>6, <1>7, <1>8

LEMMA CloneKeeps ==
  ASSUME StackInv, NEW s \in Jobs, Clone(s)
  PROVE  StackInv'
<1>1. AtMember(s, rows, mem[s])
  BY AtFacts DEF Clone, StackAt, StackAwaits
<1>2. Unwinds(s, rows) \/ Goes(s, rows, "cumulate", mem[s])
  BY DEF Clone
<1> QED
  BY <1>1, <1>2, GoesOn DEF StackAwaits

LEMMA CumulateKeeps ==
  ASSUME StackInv, NEW s \in Jobs, Cumulate(s)
  PROVE  StackInv'
<1>1. pc[s] \in StackAwaits
  BY DEF Cumulate, StackAt, StackAwaits
<1>2. CASE Unwinds(s, rows)
  BY <1>1, <1>2, AtFacts, GoesOn
<1>3. CASE Publishes(s)
  BY <1>1, <1>3, PublishesKeeps
<1> QED
  BY <1>2, <1>3 DEF Cumulate

LEMMA PostSummaryKeeps ==
  ASSUME StackInv, NEW s \in Jobs, PostSummary(s)
  PROVE  StackInv'
<1> DEFINE n == [mem[s] EXCEPT !.covered = @ \ Ended(s)]
<1>1. pc[s] \in StackAwaits
  BY DEF PostSummary, StackAt, StackAwaits
<1>2. AtMember(s, rows, mem[s]) /\ AtMember(s, Reconciled(s), mem[s]) /\ AtMember(s, Reconciled(s), n)
  BY <1>1, AtFacts, ReconciledAt
<1>3. Unwinds(s, rows) \/ Goes(s, Reconciled(s), "followup", n) \/ Completes(s, Reconciled(s))
  BY DEF PostSummary
<1> HIDE DEF n
<1>4. CASE Unwinds(s, rows)
  BY <1>2, <1>4, GoesOn
<1>5. CASE Goes(s, Reconciled(s), "followup", n)
  BY <1>2, <1>5, GoesOn DEF StackAwaits
<1>6. CASE Completes(s, Reconciled(s))
  BY <1>2, <1>6, EndsKeeps DEF Completes, TerminalStates
<1> QED
  BY <1>3, <1>4, <1>5, <1>6

LEMMA FollowUpKeeps ==
  ASSUME StackInv, NEW s \in Jobs, FollowUp(s)
  PROVE  StackInv'
<1>1. AtMember(s, rows, mem[s])
  BY AtFacts DEF FollowUp, StackAt, StackAwaits
<1>2. CASE Unwinds(s, rows)
  BY <1>1, <1>2, GoesOn
<1>3. CASE Completes(s, rows)
  BY <1>1, <1>3, EndsKeeps DEF Completes, TerminalStates
<1> QED
  BY <1>2, <1>3 DEF FollowUp

LEMMA StackStepKeeps ==
  ASSUME StackInv, NEW j \in Jobs, StackStep(j)
  PROVE  StackInv'
BY ReviewPullKeeps, PinKeeps, ModeKeeps, RepinKeeps, InlineEndsKeeps, PollKeeps, VerifyKeeps, CheckKeeps,
   DiffKeeps, CloneKeeps, CumulateKeeps, PostSummaryKeeps, FollowUpKeeps DEF StackStep

-----------------------------------------------------------------------------
(* The handlers *)

\* What is in memory or underway when a handler runs.
LEMMA HandlerFacts ==
  ASSUME StackInv
  PROVE  /\ RowsOk(rows) /\ OpenOk(rows) /\ HandsOk(rows, queue, handoffs)
         /\ \A j \in Entries(queue) : j \in Jobs /\ rows[j].state # "absent"
         /\ \A j \in queue.active : j \in Jobs /\ rows[j].state # "absent"
         /\ \A j \in ToSet(queue.pending) : WaitOk(rows, j)
         /\ DOMAIN <<>> = {}
BY DEF StackInv, KnownOk, WaitOk, Entries, QueueOk, Sound, Queues, Stopped

\* Handoffs go on waiting over rows that follow and a queue that takes in
\* none of their jobs.
LEMMA HandsKeep ==
  ASSUME StackInv, NEW rs, Follows({}, rows, rs), NEW q, NEW hs \in SUBSET handoffs,
         \A t \in Brought(hs) : t.job \notin Entries(q)
  PROVE  HandsOk(rs, q, hs)
<1>1. HandsOk(rows, queue, handoffs) /\ OpenOk(rows)
  BY HandlerFacts
<1>2. /\ \A j \in Jobs \ {} : WaitOk(rows, j) => WaitOk(rs, j)
      /\ \A j \in Jobs : rows[j].state # "absent" => rs[j].state # "absent"
  BY <1>1, FollowsSound
<1>3. Brought(hs) \subseteq Brought(handoffs) /\ \A t \in Brought(hs) : t \in hs
  BY DEF Brought
<1>4. \A t \in hs : t.created \in BOOLEAN /\ t.job \in Jobs /\ rs[t.job].state # "absent"
  BY <1>1, <1>2 DEF HandsOk
<1>5. \A t \in Brought(hs) : WaitOk(rs, t.job)
  <2>1. \A t \in Brought(hs) : t.job \in Jobs /\ WaitOk(rows, t.job)
    BY <1>1, <1>3, <1>4 DEF HandsOk
  <2> QED
    BY <1>2, <2>1
<1>6. \A t, u \in Brought(hs) : t.job = u.job => t = u
  BY <1>1, <1>3 DEF HandsOk
<1> QED
  BY <1>4, <1>5, <1>6 DEF HandsOk

\* A turn that starts in a handler, over rows that follow.
LEMMA CommitKeeps ==
  ASSUME StackInv, NEW rs, Follows({}, rows, rs), NEW q, NEW E, Advances(q, E), NEW stopped,
         \A j \in E : WaitOk(rs, j), Commit(rs, q, stopped), HandsOk(rs, q, handoffs')
  PROVE  StackInv'
<1>1. /\ RowsOk(rs) /\ OpenOk(rs)
      /\ \A j \in Jobs \ {} : WaitOk(rows, j) => WaitOk(rs, j)
      /\ \A j \in Jobs : rows[j].state # "absent" => rs[j].state # "absent" /\ rs[j].over = rows[j].over
  BY HandlerFacts, FollowsSound
<1>2. \A j \in ToSet(queue.pending) \union E : WaitOk(rs, j)
  <2>1. \A j \in ToSet(queue.pending) : j \in Jobs /\ WaitOk(rows, j)
    BY HandlerFacts DEF WaitOk
  <2> QED
    BY <1>1, <2>1
<1>3. \A j \in queue.active : rs[j].state # "absent" /\ rs[j].over = rows[j].over
  BY <1>1, HandlerFacts
<1>4. Turn(rs, q, stopped, <<>>) /\ DOMAIN <<>> = {}
  BY HandlerFacts DEF Commit
<1> QED
  BY <1>1, <1>2, <1>3, <1>4, TurnKeeps

\* A new handoff joins those that wait: of a row that is there, or of a new
\* row whose id nothing knows.
LEMMA HandoffAdded ==
  ASSUME StackInv, NEW rs, NEW q, HandsOk(rs, q, handoffs), NEW t, t.job \in Jobs, rs[t.job].state # "absent",
         \/ t.created = FALSE
         \/ /\ t.created = TRUE /\ WaitOk(rs, t.job) /\ t.job \notin Entries(q)
            /\ \A u \in Brought(handoffs) : u.job # t.job
  PROVE  HandsOk(rs, q, handoffs \union {t})
<1> DEFINE hs == handoffs \union {t}
<1>1. CASE t.created = FALSE
  <2>1. Brought(hs) = Brought(handoffs)
    BY <1>1 DEF Brought
  <2> QED
    BY <1>1, <2>1 DEF HandsOk
<1>2. CASE t.created = TRUE
  <2>1. Brought(hs) = Brought(handoffs) \union {t}
    BY <1>2 DEF Brought
  <2>2. WaitOk(rs, t.job) /\ t.job \notin Entries(q) /\ \A u \in Brought(handoffs) : u.job # t.job
    BY <1>2
  <2> QED
    BY <1>2, <2>1, <2>2 DEF HandsOk
<1> QED
  BY <1>1, <1>2

LEMMA CancelJobKeeps ==
  ASSUME StackInv, NEW j \in Jobs, CancelJob(j)
  PROVE  StackInv'
<1> DEFINE rs == Moved(rows, {j}, "cancelled")
           q  == AbortedMany(queue, {j})
<1>1. RowsOk(rows) /\ rows[j].state # "absent" /\ queue.started
  BY HandlerFacts DEF CancelJob, Active, Serving
<1>2. "cancelled" \in TerminalStates /\ "cancelled" \in DeadStates
  BY DEF TerminalStates, DeadStates
<1>3. Follows({}, rows, rs)
  BY <1>1, <1>2, MovedFollows
<1>4. Advances(q, {}) /\ Entries(q) \subseteq Entries(queue)
  BY <1>1, QueueTurns DEF StackInv
<1>5. Commit(rs, q, {j}) /\ handoffs' = handoffs
  BY DEF CancelJob
<1> HIDE DEF rs, q
<1>6. HandsOk(rs, q, handoffs')
  <2>1. \A t \in Brought(handoffs) : t.job \notin Entries(queue)
    BY HandlerFacts DEF HandsOk
  <2> QED
    BY <1>3, <1>4, <1>5, <2>1, HandsKeep
<1> QED
  BY <1>3, <1>4, <1>5, <1>6, CommitKeeps

LEMMA ReleaseSlotKeeps ==
  ASSUME StackInv, NEW j \in Jobs, ReleaseSlot(j)
  PROVE  StackInv'
<1> DEFINE q  == Finished(queue, j)
<1>1. j \in queue.active /\ queue.started /\ QueueOk(queue)
  BY DEF ReleaseSlot, StackInv, RunOk, QueueOk, Stopped
<1>2. Advances(q, {}) /\ Entries(q) \subseteq Entries(queue)
  BY <1>1, QueueTurns
<1>3. Commit(rows, q, {}) /\ handoffs' = handoffs
  BY DEF ReleaseSlot
<1>4. Follows({}, rows, rows)
  BY HandlerFacts, FollowsSelf
<1> HIDE DEF q
<1>5. HandsOk(rows, q, handoffs')
  <2>1. \A t \in Brought(handoffs) : t.job \notin Entries(queue)
    BY HandlerFacts DEF HandsOk
  <2> QED
    BY <1>2, <1>3, <1>4, <2>1, HandsKeep
<1> QED
  BY <1>2, <1>3, <1>4, <1>5, CommitKeeps

LEMMA PushDeliveryKeeps ==
  ASSUME StackInv, NEW p, PushDelivery(p)
  PROVE  StackInv'
<1> DEFINE h     == head[p]
           stale == OtherHeads(rows, p, h)
           swept == SweptPull(rows, p, h)
           q     == AbortedMany(queue, stale)
           r     == NewRow(<<p>>, head)
           t(n)  == [job |-> n, stale |-> stale, created |-> TRUE, pins |-> <<>>]
<1>1. queue.started /\ QueueOk(queue)
  BY DEF PushDelivery, Serving, StackInv
<1>2. Follows({}, rows, swept)
  BY HandlerFacts, SweptFollows
<1>3. /\ Advances(q, {}) /\ Entries(q) \subseteq Entries(queue) /\ Advances(queue, {})
  BY <1>1, QueueTurns
<1>4. \A u \in Brought(handoffs) : u.job \notin Entries(queue)
  BY HandlerFacts DEF HandsOk
<1>5. \/ Commit(swept, q, stale) /\ handoffs' = handoffs
      \/ \E n \in Jobs : /\ IsNextRow(n) /\ Commit([swept EXCEPT ![n] = r], queue, {})
                         /\ handoffs' = handoffs \union {t(n)}
  BY DEF PushDelivery
<1> HIDE DEF swept, q, stale
<1>6. CASE Commit(swept, q, stale) /\ handoffs' = handoffs
  <2>1. HandsOk(swept, q, handoffs')
    BY <1>2, <1>3, <1>4, <1>6, HandsKeep
  <2> QED
    BY <1>2, <1>3, <1>6, <2>1, CommitKeeps
<1>7. CASE \E n \in Jobs : /\ IsNextRow(n) /\ Commit([swept EXCEPT ![n] = r], queue, {})
                           /\ handoffs' = handoffs \union {t(n)}
  <2>1. PICK n \in Jobs : /\ IsNextRow(n) /\ Commit([swept EXCEPT ![n] = r], queue, {})
                          /\ handoffs' = handoffs \union {t(n)}
    BY <1>7
  <2> DEFINE c == [swept EXCEPT ![n] = r]
  <2>2. rows[n].state = "absent"
    BY <2>1 DEF IsNextRow, Exists
  <2>3. DOMAIN r = Fields /\ r.over = <<p>> /\ r.rail = <<>> /\ r.state # "absent"
    BY PullRow
  <2>4. t(n).job = n /\ t(n).created = TRUE
    OBVIOUS
  <2> HIDE DEF r
  <2>5. Follows({}, rows, c) /\ IsPull(c, n)
    BY <1>2, <2>2, <2>3, PullAdded
  <2> HIDE DEF c, t
  <2>6. WaitOk(c, n) /\ c[n].state # "absent"
    BY <2>5 DEF IsPull, WaitOk
  <2>7. HandsOk(c, queue, handoffs)
    BY <1>4, <2>5, HandsKeep
  <2>8. n \notin Entries(queue) /\ \A u \in Brought(handoffs) : u.job # n
    BY <2>2, HandlerFacts DEF HandsOk, Brought
  <2>9. HandsOk(c, queue, handoffs \union {t(n)})
    BY <2>4, <2>6, <2>7, <2>8, HandoffAdded
  <2> QED
    BY <1>3, <2>1, <2>5, <2>9, CommitKeeps DEF c
<1> QED
  BY <1>5, <1>6, <1>7

LEMMA DispatchStackKeeps ==
  ASSUME StackInv, NEW t \in handoffs, DispatchStack(t)
  PROVE  StackInv'
<1> DEFINE j == t.job
           r == Repinned(rows[j], t.pins)
           hs == handoffs \ {t}
<1>1. /\ queue.started /\ QueueOk(queue) /\ RowsOk(rows) /\ j \in Jobs /\ rows[j].state # "absent"
      /\ t.created \in BOOLEAN /\ handoffs' = hs
  BY HandlerFacts DEF DispatchStack, Serving, StackInv, HandsOk
<1>2. /\ \A u \in Brought(handoffs) : u.job \notin Entries(queue) /\ WaitOk(rows, u.job)
      /\ \A u, v \in Brought(handoffs) : u.job = v.job => u = v
      /\ Brought(hs) \subseteq Brought(handoffs) \ {t} /\ (t.created => t \in Brought(handoffs))
  BY HandlerFacts DEF HandsOk, Brought
<1>3. CASE t.created
  <2> DEFINE q == AbortedMany(Enqueued(queue, j), t.stale)
  <2>1. Advances(q, {j}) /\ Entries(q) \subseteq Entries(queue) \union {j}
    BY <1>1, QueueTakes
  <2>2. Commit(rows, q, t.stale)
    BY <1>3 DEF DispatchStack
  <2>3. Follows({}, rows, rows)
    BY <1>1, FollowsSelf
  <2> HIDE DEF q
  <2>4. \A u \in Brought(hs) : u.job \notin Entries(q)
    BY <1>2, <1>3, <2>1
  <2> HIDE DEF hs
  <2>5. HandsOk(rows, q, hs)
    BY <2>3, <2>4, HandsKeep DEF hs
  <2>6. WaitOk(rows, j)
    BY <1>2, <1>3
  <2> QED
    BY <1>1, <2>1, <2>2, <2>3, <2>5, <2>6, CommitKeeps
<1>4. CASE ~t.created
  <2> DEFINE q  == AbortedMany(queue, t.stale)
             rs == [rows EXCEPT ![j] = r]
  <2>1. Advances(q, {}) /\ Entries(q) \subseteq Entries(queue)
    BY <1>1, QueueTurns
  <2>2. Commit(rs, q, t.stale)
    BY <1>4 DEF DispatchStack
  <2>3. Keeps({}, rows, j, r)
    <3>1. CASE rows[j].state # "queued"
      BY <1>1, <3>1, KeepsSelf DEF Repinned
    <3>2. CASE rows[j].state = "queued"
      <4> DEFINE l == [i \in DOMAIN rows[j].rail |-> [pin |-> t.pins[i], state |-> "queued", job |-> 0]]
      <4>1. r = [rows[j] EXCEPT !.head = t.pins[Len(t.pins)], !.rail = l]
        BY <3>2 DEF Repinned
      <4>2. DOMAIN l = DOMAIN rows[j].rail /\ \A i \in DOMAIN l : EntryOk(rows, l[i])
        BY DEF EntryOk
      <4>3. DOMAIN rows[j] = Fields
        BY <1>1 DEF RowsOk, RowOk
      <4> HIDE DEF l
      <4>4. DOMAIN r = Fields /\ r.rail = l /\ r.state = rows[j].state /\ r.over = rows[j].over
            /\ r.key = rows[j].key
        BY <4>1, <4>3 DEF Fields
      <4> HIDE DEF r
      <4> QED
        BY <4>2, <4>4 DEF Keeps
    <3> QED
      BY <3>1, <3>2
  <2> HIDE DEF r
  <2>4. Follows({}, rows, rs)
    BY <1>1, <2>3, RowReplaced
  <2> HIDE DEF q, rs
  <2>5. \A u \in Brought(hs) : u.job \notin Entries(q)
    BY <1>2, <2>1
  <2> HIDE DEF hs
  <2>6. HandsOk(rs, q, hs)
    BY <2>4, <2>5, HandsKeep DEF hs
  <2> QED
    BY <1>1, <2>1, <2>2, <2>4, <2>6, CommitKeeps
<1> QED
  BY <1>1, <1>3, <1>4

\* The rows a trigger leaves before it makes its own: where no job of the
\* layout waits, no stack waits or runs.
LEMMA TriggerFollows ==
  ASSUME RowsOk(rows), OpenOk(rows), NEW l, NEW h
  PROVE  LET live  == {j \in SameLayout(rows, l) : rows[j].state = "running"}
             ended == Superseded(l) \union live
             rs    == RetiredKeys(Moved(rows, ended, "stale"), l, h)
             dups  == {j \in SameLayout(rs, l) : rs[j].state = "queued"}
         IN  /\ Follows({}, rows, rs)
             /\ dups = {} => \A j \in Jobs : ~Running(rs, j)
             /\ \A j \in Jobs : rows[j].state = "absent" => rs[j].state = "absent"
<1> DEFINE live  == {j \in SameLayout(rows, l) : rows[j].state = "running"}
           ended == Superseded(l) \union live
           a     == Moved(rows, ended, "stale")
           rs    == RetiredKeys(a, l, h)
           dups  == {j \in SameLayout(rs, l) : rs[j].state = "queued"}
<1>1. \A j \in ended : j \in Jobs /\ rows[j].state # "absent"
  BY DEF Superseded, SameLayout, Exists
<1>2. "stale" \in TerminalStates /\ "stale" \in DeadStates
  BY DEF TerminalStates, DeadStates
<1>3. /\ Follows({}, rows, a) /\ RowsOk(a)
      /\ \A j \in ended : a[j].state \in TerminalStates
      /\ \A j \in Jobs \ ended : a[j].state = rows[j].state
  <2> HIDE DEF ended
  <2>0. \A j \in ended \intersect Jobs :
          rows[j].state # "absent" /\ (~IsStack(rows[j]) \/ j \in {} \/ "stale" \in DeadStates)
    BY <1>1, <1>2
  <2>1. Follows({}, rows, a)
    BY <1>2, <2>0, MovedFollows
  <2>2. \A j \in ended \intersect Jobs : a[j].state \in TerminalStates
    BY <1>2, <2>0, MovedFollows
  <2>3. \A j \in Jobs \ ended : a[j].state = rows[j].state
    BY OthersStay
  <2>4. RowsOk(a)
    BY <2>1 DEF Follows
  <2> QED
    BY <1>1, <2>1, <2>2, <2>3, <2>4
<1> HIDE DEF a
<1>4. /\ DOMAIN rs = Jobs
      /\ \A j \in Jobs : Keeps({}, a, j, rs[j]) /\ rs[j].state = a[j].state
  <2>1. DOMAIN rs = Jobs /\ \A j \in Jobs : \/ rs[j] = a[j]
                                            \/ ~Active(a[j]) /\ rs[j] = [a[j] EXCEPT !.key = j]
    BY DEF RetiredKeys
  <2> HIDE DEF rs
  <2>2. ASSUME NEW j \in Jobs PROVE Keeps({}, a, j, rs[j]) /\ rs[j].state = a[j].state
    <3>1. CASE rs[j] = a[j]
      BY <1>3, <3>1, KeepsSelf
    <3>2. CASE ~Active(a[j]) /\ rs[j] = [a[j] EXCEPT !.key = j]
      <4>0. RowsOk(a) /\ ~Active(a[j])
        BY <1>3, <3>2
      <4>1. Keeps({}, a, j, [a[j] EXCEPT !.key = j]) /\ [a[j] EXCEPT !.key = j].state = a[j].state
        BY <4>0, KeyKeeps
      <4> QED
        BY <3>2, <4>1
    <3> QED
      BY <2>1, <3>1, <3>2
  <2> QED
    BY <2>1, <2>2
<1> HIDE DEF rs
<1>5. Follows({}, a, rs)
  BY <1>3, <1>4, KeepsFollow
<1>6. Follows({}, rows, rs)
  BY <1>3, <1>5, FollowsOn
<1>7. ASSUME dups = {}, NEW j \in Jobs, Running(rs, j) PROVE FALSE
  <2>1. rs[j].state \in {"queued", "running"} /\ a[j].state = rs[j].state /\ rs[j].over = rows[j].over /\ IsStack(rows[j])
    <3>1. rs[j].state \in {"queued", "running"} /\ a[j].state = rs[j].state /\ IsStack(rs[j])
      BY <1>4, <1>7 DEF Running, Active
    <3>2. rs[j].over = a[j].over /\ (rows[j].state # "absent" => a[j].over = rows[j].over)
      BY <1>3, <1>4 DEF Keeps, Follows
    <3>3. rows[j].state # "absent"
      BY <1>1, <1>3, <3>1
    <3> QED
      BY <3>1, <3>2, <3>3 DEF IsStack
  <2>2. j \notin ended /\ rows[j].state = rs[j].state
    BY <1>3, <2>1, StateFacts
  <2>3. Running(rows, j) /\ rows[j].key = 0 /\ ~Dead(rows[j]) /\ rows[j].state # "absent"
    <3>1. Running(rows, j) /\ ~Dead(rows[j]) /\ rows[j].state # "absent"
      BY <2>1, <2>2 DEF Running, Active, Dead, DeadStates
    <3> QED
      BY <3>1 DEF OpenOk
  <2>4. rows[j].over = l
    BY <2>1, <2>2, <2>3 DEF Superseded, Exists
  <2>5. j \in SameLayout(rs, l)
    <3>1. rs[j].key = 0
      BY <1>6, <2>1, <2>3 DEF Follows
    <3> QED
      BY <2>1, <2>3, <2>4, <3>1, StateFacts DEF SameLayout
  <2>6. rs[j].state = "queued"
    <3>1. j \in SameLayout(rows, l)
      BY <2>3, <2>4 DEF SameLayout
    <3>2. rows[j].state # "running"
      BY <2>2, <3>1
    <3> QED
      BY <2>1, <2>2, <3>2
  <2> QED
    BY <1>7, <2>5, <2>6
<1>8. \A j \in Jobs : rows[j].state = "absent" => rs[j].state = "absent"
  BY <1>1, <1>3, <1>4
<1>9. Follows({}, rows, rs) /\ (dups = {} => \A j \in Jobs : ~Running(rs, j))
      /\ \A j \in Jobs : rows[j].state = "absent" => rs[j].state = "absent"
  BY <1>6, <1>7, <1>8
<1> QED
  BY <1>9 DEF rs, a

\* The row of a new stack.
LEMMA StackRow ==
  ASSUME NEW l \in Layouts, NEW at
  PROVE  LET r == NewRow(l, at)
         IN  /\ DOMAIN r = Fields /\ r.over = l /\ r.state = "queued" /\ r.key = 0
             /\ Len(l) \in Nat /\ Len(l) > 1 /\ DOMAIN r.rail = 1..Len(l)
             /\ \A i \in DOMAIN r.rail : DOMAIN r.rail[i] = {"pin", "state", "job"} /\ r.rail[i].job = 0
<1>1. Len(l) \in Nat /\ Len(l) > 1 /\ Len(l) # 1
  <2>1. l \in Seq(StackPulls) /\ Len(l) > 1
    BY StackAssumption
  <2> QED
    BY <2>1
<1> DEFINE rail == [i \in 1..Len(l) |-> [pin |-> at[l[i]], state |-> "queued", job |-> 0]]
<1>2. NewRow(l, at) = [state |-> "queued", over |-> l, head |-> at[Top(l)], key |-> 0, rail |-> rail]
  BY <1>1 DEF NewRow
<1>3. DOMAIN rail = 1..Len(l) /\ \A i \in DOMAIN rail : DOMAIN rail[i] = {"pin", "state", "job"} /\ rail[i].job = 0
  OBVIOUS
<1> HIDE DEF rail
<1>4. DOMAIN NewRow(l, at) = Fields /\ NewRow(l, at).over = l /\ NewRow(l, at).state = "queued"
      /\ NewRow(l, at).key = 0 /\ NewRow(l, at).rail = rail
  BY <1>2 DEF Fields
<1> QED
  BY <1>1, <1>3, <1>4

LEMMA TriggerKeeps ==
  ASSUME StackInv, NEW l \in Layouts, Trigger(l)
  PROVE  StackInv'
<1> DEFINE live  == {j \in SameLayout(rows, l) : rows[j].state = "running"}
           ended == Superseded(l) \union live
           rs    == RetiredKeys(Moved(rows, ended, "stale"), l, head[Top(l)])
           dups  == {j \in SameLayout(rs, l) : rs[j].state = "queued"}
           pins  == [i \in 1..Len(l) |-> head[l[i]]]
           r     == NewRow(l, head)
           t(j, x) == [job |-> j, stale |-> ended, created |-> x, pins |-> pins]
<1>1. queue.started /\ QueueOk(queue) /\ RowsOk(rows) /\ OpenOk(rows)
  BY DEF Trigger, Serving, StackInv
<1>2. /\ Follows({}, rows, rs)
      /\ dups = {} => \A j \in Jobs : ~Running(rs, j)
      /\ \A j \in Jobs : rows[j].state = "absent" => rs[j].state = "absent"
  BY <1>1, TriggerFollows
<1>3. \/ \E j \in dups : Commit(rs, queue, {}) /\ handoffs' = handoffs \union {t(j, FALSE)}
      \/ dups = {} /\ \E n \in Jobs : /\ IsNextRow(n) /\ Commit([rs EXCEPT ![n] = r], queue, {})
                                      /\ handoffs' = handoffs \union {t(n, TRUE)}
  <2>1. IF dups # {}
        THEN \E j \in dups : Commit(rs, queue, {}) /\ handoffs' = handoffs \union {t(j, FALSE)}
        ELSE \E n \in Jobs : /\ IsNextRow(n) /\ Commit([rs EXCEPT ![n] = r], queue, {})
                             /\ handoffs' = handoffs \union {t(n, TRUE)}
    BY DEF Trigger
  <2> HIDE DEF rs, dups, t, r
  <2> QED
    BY <2>1
<1>4. \A j, x : t(j, x).job = j /\ t(j, x).created = x
  OBVIOUS
<1>5. \A j \in dups : j \in Jobs /\ rs[j].state = "queued"
  BY DEF SameLayout
<1>6. /\ Advances(queue, {})
      /\ \A u \in Brought(handoffs) : u.job \notin Entries(queue)
  BY <1>1, QueueTurns, HandlerFacts DEF HandsOk
<1> HIDE DEF rs, dups, t, r
<1>7. HandsOk(rs, queue, handoffs)
  BY <1>2, <1>6, HandsKeep
<1>8. CASE \E j \in dups : Commit(rs, queue, {}) /\ handoffs' = handoffs \union {t(j, FALSE)}
  <2>1. PICK j \in dups : Commit(rs, queue, {}) /\ handoffs' = handoffs \union {t(j, FALSE)}
    BY <1>8
  <2>2. HandsOk(rs, queue, handoffs \union {t(j, FALSE)})
    BY <1>4, <1>5, <1>7, HandoffAdded
  <2>3. HandsOk(rs, queue, handoffs') /\ Commit(rs, queue, {}) /\ \A k \in {} : WaitOk(rs, k)
    BY <2>1, <2>2
  <2> QED
    BY <1>2, <1>6, <2>3, CommitKeeps
<1>9. CASE dups = {} /\ \E n \in Jobs : /\ IsNextRow(n) /\ Commit([rs EXCEPT ![n] = r], queue, {})
                                        /\ handoffs' = handoffs \union {t(n, TRUE)}
  <2>1. PICK n \in Jobs : /\ IsNextRow(n) /\ Commit([rs EXCEPT ![n] = r], queue, {})
                          /\ handoffs' = handoffs \union {t(n, TRUE)}
    BY <1>9
  <2> DEFINE c == [rs EXCEPT ![n] = r]
  <2>2. rows[n].state = "absent" /\ rs[n].state = "absent"
    BY <1>2, <2>1 DEF IsNextRow, Exists
  <2>3. /\ DOMAIN r = Fields /\ r.over = l /\ r.state = "queued" /\ r.key = 0
        /\ Len(l) \in Nat /\ Len(l) > 1 /\ DOMAIN r.rail = 1..Len(l)
        /\ \A i \in DOMAIN r.rail : DOMAIN r.rail[i] = {"pin", "state", "job"} /\ r.rail[i].job = 0
    BY StackRow DEF r
  <2>4. RowsOk(rs) /\ DOMAIN c = Jobs /\ \A j \in Jobs : c[j] = IF j = n THEN r ELSE rs[j]
    BY <1>2 DEF Follows, RowsOk
  <2>5. Commit(c, queue, {})
    BY <2>1
  <2> HIDE DEF c
  <2>6. \A e : EntryOk(rs, e) => EntryOk(c, e)
    BY <2>2, <2>4 DEF EntryOk, IsPull
  <2>7. ASSUME NEW j \in Jobs PROVE RowOk(c, j)
    <3>1. CASE j = n
      BY <2>3, <2>4, <3>1 DEF RowOk, EntryOk
    <3>2. CASE j # n
      <4>1. RowOk(rs, j) /\ c[j] = rs[j]
        BY <2>4, <3>2 DEF RowsOk
      <4> QED
        BY <2>6, <4>1 DEF RowOk
    <3> QED
      BY <3>1, <3>2
  <2>8. RowsOk(c)
    BY <2>4, <2>7 DEF RowsOk
  <2>9. OpenOk(c)
    <3>1. \A j \in Jobs : Running(c, j) => j = n
      BY <1>2, <1>9, <2>4 DEF Running
    <3>2. c[n].key = 0
      BY <2>3, <2>4
    <3> QED
      BY <3>1, <3>2 DEF OpenOk
  <2>10. WaitOk(c, n) /\ c[n].state # "absent"
    BY <2>3, <2>4 DEF WaitOk
  <2>11. n \notin Entries(queue) /\ \A u \in Brought(handoffs) : u.job # n
    BY <2>2, HandlerFacts DEF HandsOk, Brought
  <2>12. HandsOk(c, queue, handoffs)
    <3>1. \A u \in handoffs : u.job # n
      BY <2>2, HandlerFacts DEF HandsOk
    <3>2. \A u \in Brought(handoffs) : u \in handoffs
      BY DEF Brought
    <3>3. \A u \in handoffs : u.job \in Jobs /\ c[u.job] = rs[u.job]
      BY <1>7, <2>4, <3>1 DEF HandsOk
    <3> QED
      BY <1>7, <3>2, <3>3 DEF HandsOk, WaitOk
  <2>13. HandsOk(c, queue, handoffs')
    BY <1>4, <2>1, <2>10, <2>11, <2>12, HandoffAdded
  <2>14. /\ \A j \in Jobs : WaitOk(rows, j) => WaitOk(rs, j)
         /\ \A j \in Jobs : rows[j].state # "absent" => rs[j].state # "absent" /\ rs[j].over = rows[j].over
    BY <1>1, <1>2, FollowsSound
  <2>15. \A j \in ToSet(queue.pending) \union {} : WaitOk(c, j)
    <3>1. \A j \in ToSet(queue.pending) : j \in Jobs /\ WaitOk(rs, j) /\ j # n
      BY <2>2, <2>14, HandlerFacts DEF WaitOk
    <3> QED
      BY <2>4, <3>1 DEF WaitOk
  <2>16. \A j \in queue.active : c[j].state # "absent" /\ c[j].over = rows[j].over
    BY <2>2, <2>4, <2>14, HandlerFacts
  <2>17. Turn(c, queue, {}, <<>>) /\ DOMAIN <<>> = {}
    BY <2>5, HandlerFacts DEF Commit
  <2> QED
    BY <1>6, <2>8, <2>9, <2>13, <2>15, <2>16, <2>17, TurnKeeps
<1> QED
  BY <1>3, <1>8, <1>9

-----------------------------------------------------------------------------
(* Process death and start *)

LEMMA ProcessDiesKeeps ==
  ASSUME StackInv, ProcessDies
  PROVE  StackInv'
<1>1. /\ queue' = Stopped /\ rows' = rows /\ handoffs' = {}
      /\ pc' = [j \in Jobs |-> "idle"] /\ mem' = [j \in Jobs |-> NoLocals]
  BY DEF ProcessDies
<1>2. QueueOk(Stopped) /\ Stopped.active = {} /\ ToSet(Stopped.pending) = {} /\ ~Stopped.started
  BY SoundWhenStopped DEF QueueOk, Stopped, ToSet
<1>3. HandsOk(rows, Stopped, {}) /\ KnownOk(rows, Stopped)
  BY <1>2 DEF HandsOk, KnownOk, Brought
<1>4. \A j \in Jobs : RunOk(rows, Stopped, pc'[j], mem'[j], j)
  BY <1>1 DEF RunOk, StackAwaits
<1> QED
  BY <1>1, <1>2, <1>3, <1>4 DEF StackInv

LEMMA RestartKeeps ==
  ASSUME StackInv, Restart
  PROVE  StackInv'
<1> DEFINE open  == {j \in Jobs : Active(rows[j])}
           reset == [j \in Jobs |-> IF j \in open THEN [rows[j] EXCEPT !.state = "queued"] ELSE rows[j]]
<1>1. queue = Stopped /\ handoffs = {} /\ handoffs' = {} /\ ~queue.started
  BY DEF Restart, StackInv, QueueOk
<1>2. PICK order \in SetToSeqs(open) :
        Commit(reset, Pumped([pending |-> order, active |-> {}, started |-> TRUE]), {})
  BY DEF Restart
<1> DEFINE loaded == [pending |-> order, active |-> {}, started |-> TRUE]
           q      == Pumped(loaded)
<1>3. Sound(loaded) /\ ToSet(order) \subseteq open /\ loaded.started
  <2>1. open \in SUBSET Jobs
    OBVIOUS
  <2> HIDE DEF open
  <2> QED
    BY <1>2, <2>1, LoadedSound
<1>4. Entries(loaded) \subseteq open
  BY <1>3 DEF Entries
<1> HIDE DEF loaded
<1>5. Sound(q) /\ Busy(q) /\ q.started /\ Entries(q) \subseteq open
  BY <1>3, <1>4, PumpedSound, PumpedEntries
<1> HIDE DEF q
<1>6. Advances(q, open)
  BY <1>5 DEF Advances, Entries
<1>7. /\ RowsOk(rows) /\ OpenOk(rows) /\ queue.active = {} /\ ToSet(queue.pending) = {}
  BY <1>1 DEF StackInv, Stopped, ToSet
<1>8. ASSUME NEW j \in Jobs
      PROVE  /\ DOMAIN reset[j] = Fields /\ reset[j].over = rows[j].over /\ reset[j].key = rows[j].key
             /\ reset[j].rail = rows[j].rail /\ (reset[j].state = "absent" <=> rows[j].state = "absent")
             /\ Active(reset[j]) <=> Active(rows[j])
             /\ j \in open => reset[j].state = "queued"
  <2>1. DOMAIN rows[j] = Fields
    BY <1>7 DEF RowsOk, RowOk
  <2>2. CASE j \in open
    BY <2>1, <2>2 DEF Fields, Active
  <2>3. CASE j \notin open
    BY <2>1, <2>3
  <2> QED
    BY <2>2, <2>3
<1>9. DOMAIN reset = Jobs /\ open \subseteq Jobs
  OBVIOUS
<1>10. Turn(reset, q, {}, <<>>)
  BY <1>2 DEF Commit, q, loaded
<1> HIDE DEF reset, open
<1>11. \A e : EntryOk(rows, e) => EntryOk(reset, e)
  BY <1>8 DEF EntryOk, IsPull, IsStack
<1>12. ASSUME NEW j \in Jobs PROVE RowOk(reset, j)
  <2>1. RowOk(rows, j)
    BY <1>7 DEF RowsOk
  <2> QED
    BY <1>8, <1>11, <2>1 DEF RowOk, IsStack
<1>13. RowsOk(reset)
  BY <1>9, <1>12 DEF RowsOk
<1>14. OpenOk(reset)
  BY <1>7, <1>8 DEF OpenOk, Running, IsStack
<1>15. HandsOk(reset, q, handoffs')
  BY <1>1 DEF HandsOk, Brought
<1>16. \A j \in ToSet(queue.pending) \union open : WaitOk(reset, j)
  BY <1>7, <1>8, <1>9 DEF WaitOk
<1>17. DOMAIN <<>> = {}
  OBVIOUS
<1> QED
  BY <1>6, <1>7, <1>10, <1>13, <1>14, <1>15, <1>16, <1>17, TurnKeeps

-----------------------------------------------------------------------------
(* The theorems *)

LEMMA StackStarts ==
  ASSUME StackInit
  PROVE  StackInv
<1> DEFINE l == CHOOSE k \in Layouts : TRUE
           r == [NewRow(l, head) EXCEPT !.state = "absent"]
<1>1. l \in Layouts
  BY StackAssumption
<1> HIDE DEF l
<1>2. /\ DOMAIN r = Fields /\ r.over = l /\ r.state = "absent"
      /\ Len(l) \in Nat /\ DOMAIN r.rail = 1..Len(l)
      /\ \A i \in DOMAIN r.rail : DOMAIN r.rail[i] = {"pin", "state", "job"} /\ r.rail[i].job = 0
  BY <1>1, StackRow DEF Fields
<1>3. /\ DOMAIN rows = Jobs /\ \A j \in Jobs : rows[j] = r
      /\ queue = Stopped /\ handoffs = {}
      /\ pc = [j \in Jobs |-> "idle"] /\ mem = [j \in Jobs |-> NoLocals]
  BY DEF StackInit, l
<1> HIDE DEF r
<1>4. RowsOk(rows)
  BY <1>2, <1>3 DEF RowsOk, RowOk, EntryOk
<1>5. OpenOk(rows)
  BY <1>2, <1>3 DEF OpenOk, Running, Active
<1>6. QueueOk(Stopped) /\ Stopped.active = {} /\ ToSet(Stopped.pending) = {} /\ ~Stopped.started
  BY SoundWhenStopped DEF QueueOk, Stopped, ToSet
<1>7. HandsOk(rows, Stopped, {}) /\ KnownOk(rows, Stopped)
  BY <1>6 DEF HandsOk, KnownOk, Brought
<1>8. \A j \in Jobs : RunOk(rows, Stopped, pc[j], mem[j], j)
  BY <1>3 DEF RunOk, StackAwaits
<1> QED
  BY <1>3, <1>4, <1>5, <1>6, <1>7, <1>8 DEF StackInv

LEMMA StackNextKeeps ==
  ASSUME StackInv, [StackNext]_stackVars
  PROVE  StackInv'
<1>1. CASE UNCHANGED stackVars
  BY <1>1 DEF stackVars, StackInv, QueueOk, RowsOk, RowOk, EntryOk, IsPull, OpenOk, Running, KnownOk, WaitOk,
              HandsOk, Brought, RunOk, LocalsOk
<1>2. CASE \E p \in Pushed : MovePull(p)
  BY <1>2 DEF MovePull, StackInv
<1>3. CASE \E p \in Unmarked : PushDelivery(p)
  BY <1>3, PushDeliveryKeeps
<1>4. CASE \E l \in Layouts : Trigger(l)
  BY <1>4, TriggerKeeps
<1>5. CASE \E t \in handoffs : DispatchStack(t)
  BY <1>5, DispatchStackKeeps
<1>6. CASE \E j \in Jobs : CancelJob(j) \/ StackStep(j) \/ ReleaseSlot(j)
  BY <1>6, CancelJobKeeps, StackStepKeeps, ReleaseSlotKeeps
<1>7. CASE ProcessDies \/ Restart
  BY <1>7, ProcessDiesKeeps, RestartKeeps
<1> QED
  BY <1>1, <1>2, <1>3, <1>4, <1>5, <1>6, <1>7 DEF StackNext

\* Whatever triggers, pushes, cancellations and deaths come: a stack's run is
\* at one of its members, holds a slot of a sound queue, and what its rail
\* names are pull jobs (runStackJob, pipeline.ts; the stack half of store.ts).
THEOREM StackSound == StackSpec => []StackInv
<1>1. StackInit => StackInv
  BY StackStarts
<1>2. StackInv /\ [StackNext]_stackVars => StackInv'
  BY StackNextKeeps
<1> QED
  BY <1>1, <1>2, PTL DEF StackSpec

\* "never double-run" (README.md:613): at most one job of a stack waits or
\* runs, for every set of layouts and every number of rows and slots.
THEOREM OneOpenAlways == StackSpec => []OneOpenStack
<1>1. StackInv => OneOpenStack
  BY DEF StackInv, OpenOk, Running, OneOpenStack
<1> QED
  BY <1>1, StackSound, PTL

-----------------------------------------------------------------------------
(* What the rows say of the runs *)

\* Where a run has its job: `review`, or as a stack at a member or past them.
RailStates == {"queued", "reviewing", "done", "failed", "skipped"}
Work       == {"review"} \union StackAwaits
Stage2     == {"mode", "repin", "inline", "wait", "verify"}
Stage3     == {"check", "diff", "clone", "cumulate", "post", "followup"}

\* A row under a run, and one on its way to a slot: they can be swept meanwhile.
AtWork(r) == r.state \in {"running"} \union DeadStates
Waits(r)  == r.state \in {"queued"} \union DeadStates

\* An entry of a rail is at member p: its job, if it has one, is over p alone.
EntryFine(rs, e, p) ==
  /\ DOMAIN e = {"pin", "state", "job"} /\ e.pin \in Heads /\ e.state \in RailStates
  /\ e.job = 0 \/ (IsPull(rs, e.job) /\ rs[e.job].over = <<p>>)

\* A row is of its type; only a stack's own number sets its key aside, and its
\* rail has an entry for every member.
RowFine(rs, j) ==
  /\ rs[j].state \in StackStates /\ rs[j].head \in Heads /\ rs[j].key \in Nat
  /\ rs[j].over \in Layouts \union {<<p>> : p \in StackPulls}
  /\ IsStack(rs[j]) => rs[j].key \in {0, j}
  /\ \A i \in DOMAIN rs[j].rail : EntryFine(rs, rs[j].rail[i], rs[j].over[i])
  /\ rs[j].state # "absent" => DOMAIN rs[j].rail = (IF IsStack(rs[j]) THEN 1..Len(rs[j].over) ELSE {})

\* Two rows of one identity (the UNIQUE constraint of jobs).
SameRow(r, t) ==
  /\ IsStack(r) = IsStack(t) /\ Top(r.over) = Top(t.over) /\ r.head = t.head /\ r.key = t.key
  /\ IsStack(r) /\ r.key = 0 => r.over = t.over

Unique(rs) == \A i, j \in Jobs : rs[i].state # "absent" /\ rs[j].state # "absent" /\ i # j => ~SameRow(rs[i], rs[j])

Typed(rs) == \A j \in Jobs : RowFine(rs, j)

\* An entry that shows a review, one that shows coverage that died.
Reviewed(rs, e) == e.job \in Jobs /\ rs[e.job].head = e.pin /\ rs[e.job].state \in {"completed", "stale"}
DeadCover(rs, e) == e.state = "skipped" /\ e.job \in Jobs /\ rs[e.job].state \in {"failed"} \union DeadStates

\* A member the run is past: done means reviewed at its pin, and one still in
\* review is covered by a job at that pin.
Settled(rs, covered, e, k) ==
  /\ e.state \in {"done", "failed", "skipped"} \/ (e.state = "reviewing" /\ k \in covered)
  /\ e.state = "done" => Reviewed(rs, e)
  /\ k \in covered => e.job \in Jobs /\ rs[e.job].head = e.pin

\* The rail of a run that left it completed or failed.
RailFine(rs, s) ==
  \A i \in DOMAIN rs[s].rail :
    LET e == rs[s].rail[i]
    IN  \/ e.state \in {"done", "failed", "skipped"}
        \/ /\ e.state = "reviewing" /\ e.job \in Jobs
           /\ \/ Active(rs[e.job])
              \/ rs[s].state = "completed" /\ Terminal(rs[e.job]) /\ \E k \in DOMAIN rs[s].rail : DeadCover(rs, rs[s].rail[k])

\* The member the run is at, by the await it is in.
AtEntry(rs, x, e) ==
  /\ e.job \in Jobs /\ rs[e.job].head = e.pin
  /\ x = "inline" => AtWork(rs[e.job])
  /\ x = "wait" => rs[e.job].state \in {"running"} \union TerminalStates
  /\ x = "verify" => rs[e.job].state \in {"completed", "stale"}

\* What run s, which awaits at x with locals m, knows: its job is at work, the
\* members before its own are settled, and in phase 3 all of them are.
RunFine(rs, x, m, s) ==
  /\ x \in Work \union {"idle", "returned"}
  /\ x \in Work => AtWork(rs[s])
  /\ x \in StackAwaits => m.attempt \in 0..MemberRetries
  /\ x \notin StackAwaits => m = NoLocals
  /\ x \in {"inline", "wait", "verify", "repin"} => AtEntry(rs, x, rs[s].rail[m.i])
  /\ x \in Stage2 => m.covered \subseteq 1..(m.i - 1) /\ \A k \in 1..(m.i - 1) : Settled(rs, m.covered, rs[s].rail[k], k)
  /\ x \in Stage3 => m.covered \subseteq DOMAIN rs[s].rail
                     /\ \A k \in DOMAIN rs[s].rail : Settled(rs, m.covered, rs[s].rail[k], k)
  /\ x = "followup" => \E k \in DOMAIN rs[s].rail : DeadCover(rs, rs[s].rail[k])
  /\ x \notin Work /\ rs[s].state \in {"completed", "failed"} => RailFine(rs, s)

\* A stack runs job j inside its own slot; somebody works on job j.
Inline(rs, at, m, s, j) == at[s] = "inline" /\ rs[s].rail[m[s].i].job = j
Worked(rs, at, m, j) == at[j] \in Work \/ \E s \in Jobs : Inline(rs, at, m, s, j)

\* What one run works on, nobody else does, nor ever will: the queue does not
\* know the job and no handler brings it.
InlineOk(rs, q, at, m, hs) ==
  /\ \A s, j \in Jobs : Inline(rs, at, m, s, j) => j \notin Entries(q) /\ \A t \in Brought(hs) : t.job # j
  /\ \A s, z, j \in Jobs : Inline(rs, at, m, s, j) /\ Inline(rs, at, m, z, j) => s = z
  /\ q.started => \A j \in Jobs : rs[j].state = "running" => Worked(rs, at, m, j)

\* A trigger that found its stack waiting re-pins it at heads no other row of
\* the layout is at.
HandPins(rs, hs) ==
  \A t \in hs : ~t.created =>
    /\ t.job \in Jobs /\ IsStack(rs[t.job]) /\ Len(t.pins) = Len(rs[t.job].over)
    /\ \A i \in 1..Len(t.pins) : t.pins[i] \in Heads
    /\ rs[t.job].state = "queued" =>
         \A k \in Jobs \ {t.job} : ~(/\ rs[k].state # "absent" /\ rs[k].over = rs[t.job].over /\ rs[k].key = 0
                                     /\ rs[k].head = Top(t.pins))

Deep(rs, q, at, m, hs) ==
  /\ Typed(rs) /\ Unique(rs) /\ (\A s \in Jobs : RunFine(rs, at[s], m[s], s))
  /\ InlineOk(rs, q, at, m, hs)
  /\ (\A j \in ToSet(q.pending) : Waits(rs[j])) /\ (\A t \in Brought(hs) : Waits(rs[t.job]))
  /\ HandPins(rs, hs)

DeepInv == Deep(rows, queue, pc, mem, handoffs)

-----------------------------------------------------------------------------
(* How rows evolve *)

\* A row in state r may be in state t later; `ends` says that its run may end.
Moves(r, t, ends) ==
  \/ t = r
  \/ t = "stale" /\ r \in {"queued", "running", "completed", "failed"}
  \/ r \in {"queued", "running"} /\ (t = "cancelled" \/ (ends /\ t \in {"completed", "failed"}))

\* Nobody but its own run changes an entry, save that the end of the job that
\* covers it settles it.
EntryKept(b, e, f) ==
  /\ f.pin = e.pin /\ f.job = e.job
  /\ \/ f.state = e.state
     \/ e.state = "reviewing" /\ f.state = "skipped"
     \/ e.state = "reviewing" /\ f.state = "done" /\ e.job \in Jobs /\ b[e.job].state \in {"completed", "stale"}

Untold(a, b, j, i) ==
  LET e == a[j].rail[i]
  IN  Terminal(a[j]) /\ b[j].rail[i].state = "reviewing" /\ e.job \in Jobs /\ Active(a[e.job]) => Active(b[e.job])

RowEvolves(F, W, a, b, j) ==
  /\ b[j].over = a[j].over /\ b[j].head = a[j].head /\ Moves(a[j].state, b[j].state, j \in F)
  /\ b[j].key = a[j].key \/ (b[j].key \in Nat \ {0} /\ (IsStack(a[j]) => b[j].key = j))
  /\ DOMAIN b[j].rail = DOMAIN a[j].rail
  /\ \A i \in DOMAIN a[j].rail : EntryFine(b, b[j].rail[i], a[j].over[i])
  /\ j \notin W => \A i \in DOMAIN a[j].rail : EntryKept(b, a[j].rail[i], b[j].rail[i]) /\ Untold(a, b, j, i)

Evolves(F, W, a, b) == DOMAIN b = Jobs /\ \A j \in Jobs : RowEvolves(F, W, a, b, j)
KeysSame(a, b)      == \A j \in Jobs : b[j].key = a[j].key

LEMMA StateNames ==
  /\ TerminalStates = {"completed", "failed", "stale", "cancelled"}
  /\ DeadStates = {"stale", "cancelled"}
  /\ StackStates = {"absent", "queued", "running", "completed", "failed", "stale", "cancelled"}
BY DEF TerminalStates, DeadStates, StackStates

LEMMA MovesOn ==
  ASSUME NEW r, NEW t, NEW u, NEW e, Moves(r, t, e), Moves(t, u, e)
  PROVE  Moves(r, u, e)
BY DEF Moves

\* What the states of two rows tell of each other.
LEMMA RowMoves ==
  ASSUME NEW F, NEW W, NEW a, NEW b, Evolves(F, W, a, b), NEW j \in Jobs
  PROVE  /\ b[j].over = a[j].over /\ b[j].head = a[j].head /\ (IsStack(b[j]) <=> IsStack(a[j]))
         /\ b[j].state = "absent" <=> a[j].state = "absent"
         /\ Terminal(a[j]) => Terminal(b[j])
         /\ Dead(a[j]) => b[j].state = a[j].state
         /\ Active(b[j]) => b[j].state = a[j].state
         /\ b[j].state \in {"queued", "running"} => b[j].state = a[j].state
         /\ a[j].state \in StackStates => b[j].state \in StackStates
         /\ a[j].state \in {"completed", "stale"} => b[j].state \in {"completed", "stale"}
         /\ a[j].state \in {"failed"} \union DeadStates => b[j].state \in {"failed"} \union DeadStates
         /\ a[j].state \in {"running"} \union TerminalStates => b[j].state \in {"running"} \union TerminalStates
         /\ j \notin F /\ AtWork(a[j]) => AtWork(b[j])
         /\ j \notin F /\ Waits(a[j]) => Waits(b[j])
         /\ b[j].state \in {"completed", "failed"} => b[j].state = a[j].state \/ j \in F
<1>1. RowEvolves(F, W, a, b, j)
  BY DEF Evolves
<1>2. Moves(a[j].state, b[j].state, j \in F)
  BY <1>1 DEF RowEvolves
<1>3. b[j].over = a[j].over /\ b[j].head = a[j].head /\ (IsStack(b[j]) <=> IsStack(a[j]))
  BY <1>1 DEF RowEvolves, IsStack
<1> QED
  BY <1>2, <1>3, StateNames DEF Moves, Terminal, Dead, Active, AtWork, Waits

LEMMA EvolvesSelf ==
  ASSUME NEW F, NEW W, NEW a, RowsOk(a), Typed(a)
  PROVE  Evolves(F, W, a, a)
<1>1. ASSUME NEW j \in Jobs PROVE RowEvolves(F, W, a, a, j)
  <2>1. RowFine(a, j)
    BY DEF Typed
  <2> QED
    BY <2>1 DEF RowEvolves, RowFine, Moves, EntryKept, Untold
<1> QED
  BY <1>1 DEF Evolves, RowsOk

\* More runs may end, more rails may be written.
LEMMA EvolvesMore ==
  ASSUME NEW F, NEW W, NEW G, NEW V, F \subseteq G, W \subseteq V, NEW a, NEW b, Evolves(F, W, a, b)
  PROVE  Evolves(G, V, a, b)
<1>1. ASSUME NEW j \in Jobs PROVE RowEvolves(G, V, a, b, j)
  BY DEF Evolves, RowEvolves, Moves
<1> QED
  BY <1>1 DEF Evolves

LEMMA EvolvesOn ==
  ASSUME NEW F, NEW W, NEW a, NEW b, NEW c, Evolves(F, W, a, b), Evolves(F, W, b, c)
  PROVE  Evolves(F, W, a, c)
<1>1. ASSUME NEW j \in Jobs PROVE RowEvolves(F, W, a, c, j)
  <2>1. RowEvolves(F, W, a, b, j) /\ RowEvolves(F, W, b, c, j)
    BY DEF Evolves
  <2>2. Moves(a[j].state, c[j].state, j \in F)
    BY <2>1, MovesOn DEF RowEvolves
  <2>3. ASSUME NEW i \in DOMAIN a[j].rail, j \notin W
        PROVE  EntryKept(c, a[j].rail[i], c[j].rail[i]) /\ Untold(a, c, j, i)
    <3>1. EntryKept(b, a[j].rail[i], b[j].rail[i]) /\ Untold(a, b, j, i)
          /\ EntryKept(c, b[j].rail[i], c[j].rail[i]) /\ Untold(b, c, j, i)
      BY <2>1, <2>3 DEF RowEvolves
    <3>2. \A k \in Jobs : b[k].state \in {"completed", "stale"} => c[k].state \in {"completed", "stale"}
      BY RowMoves
    <3>3. EntryKept(c, a[j].rail[i], c[j].rail[i])
      BY <3>1, <3>2 DEF EntryKept
    <3>4. Terminal(a[j]) => Terminal(b[j])
      BY RowMoves
    <3>5. Untold(a, c, j, i)
      BY <3>1, <3>4 DEF Untold, EntryKept
    <3> QED
      BY <3>3, <3>5
  <2>4. IsStack(b[j]) = IsStack(a[j])
    BY <2>1 DEF RowEvolves, IsStack
  <2> HIDE DEF EntryKept, Untold, Moves
  <2> QED
    BY <2>1, <2>2, <2>3, <2>4 DEF RowEvolves
<1> QED
  BY <1>1 DEF Evolves

\* Rows keep their types, and an identity of their own while keys stay.
LEMMA TypedKept ==
  ASSUME NEW F, NEW W, NEW a, NEW b, Evolves(F, W, a, b), Typed(a)
  PROVE  Typed(b)
<1>1. ASSUME NEW j \in Jobs PROVE RowFine(b, j)
  <2>1. RowFine(a, j) /\ RowEvolves(F, W, a, b, j)
    BY DEF Typed, Evolves
  <2>2. /\ b[j].over = a[j].over /\ b[j].head = a[j].head /\ (IsStack(b[j]) <=> IsStack(a[j]))
        /\ b[j].state = "absent" <=> a[j].state = "absent"
        /\ a[j].state \in StackStates => b[j].state \in StackStates
    BY RowMoves
  <2>3. b[j].key \in Nat /\ (IsStack(a[j]) => b[j].key \in {0, j})
    BY <2>1 DEF RowFine, RowEvolves
  <2>4. \A i \in DOMAIN b[j].rail : EntryFine(b, b[j].rail[i], b[j].over[i])
    BY <2>1 DEF RowFine, RowEvolves
  <2>5. b[j].state # "absent" => DOMAIN b[j].rail = (IF IsStack(b[j]) THEN 1..Len(b[j].over) ELSE {})
    BY <2>1, <2>2 DEF RowFine, RowEvolves
  <2> QED
    BY <2>1, <2>2, <2>3, <2>4, <2>5 DEF RowFine
<1> QED
  BY <1>1 DEF Typed

LEMMA UniqueKept ==
  ASSUME NEW F, NEW W, NEW a, NEW b, Evolves(F, W, a, b), KeysSame(a, b), Unique(a)
  PROVE  Unique(b)
<1>1. \A i, j \in Jobs : SameRow(b[i], b[j]) => SameRow(a[i], a[j])
  <2> SUFFICES ASSUME NEW i \in Jobs, NEW j \in Jobs, SameRow(b[i], b[j]) PROVE SameRow(a[i], a[j])
    OBVIOUS
  <2>1. /\ b[i].over = a[i].over /\ b[i].head = a[i].head /\ b[i].key = a[i].key
        /\ b[j].over = a[j].over /\ b[j].head = a[j].head /\ b[j].key = a[j].key
    BY RowMoves DEF KeysSame
  <2> QED
    BY <2>1 DEF SameRow, IsStack
<1> QED
  BY <1>1, RowMoves DEF Unique

\* What the rail of another run showed, it goes on showing.
LEMMA SettledKept ==
  ASSUME NEW F, NEW W, NEW a, NEW b, Evolves(F, W, a, b), NEW s \in Jobs \ W, NEW i \in DOMAIN a[s].rail, NEW C,
         Settled(a, C, a[s].rail[i], i)
  PROVE  Settled(b, C, b[s].rail[i], i)
<1>1. EntryKept(b, a[s].rail[i], b[s].rail[i])
  BY DEF Evolves, RowEvolves
<1>2. \A k \in Jobs : b[k].head = a[k].head /\ (a[k].state \in {"completed", "stale"} => b[k].state \in {"completed", "stale"})
  BY RowMoves
<1>3. a[s].rail[i].state = "done" => b[s].rail[i].state = "done"
  BY <1>1 DEF EntryKept
<1>4. a[s].rail[i].state = "reviewing" => i \in C
  BY DEF Settled
<1>5. b[s].rail[i].state = "done" => Reviewed(b, b[s].rail[i])
  BY <1>1, <1>2, <1>4 DEF Settled, Reviewed, EntryKept
<1>6. b[s].rail[i].state \in {"done", "failed", "skipped"} \/ (b[s].rail[i].state = "reviewing" /\ i \in C)
  BY <1>1 DEF Settled, EntryKept
<1>7. i \in C => b[s].rail[i].job \in Jobs /\ b[b[s].rail[i].job].head = b[s].rail[i].pin
  BY <1>1, <1>2 DEF Settled, EntryKept
<1> QED
  BY <1>5, <1>6, <1>7 DEF Settled

LEMMA DeadCoverKept ==
  ASSUME NEW F, NEW W, NEW a, NEW b, Evolves(F, W, a, b), NEW s \in Jobs \ W, NEW i \in DOMAIN a[s].rail,
         DeadCover(a, a[s].rail[i])
  PROVE  DeadCover(b, b[s].rail[i])
<1>1. EntryKept(b, a[s].rail[i], b[s].rail[i])
  BY DEF Evolves, RowEvolves
<1>2. \A k \in Jobs : a[k].state \in {"failed"} \union DeadStates => b[k].state \in {"failed"} \union DeadStates
  BY RowMoves
<1> QED
  BY <1>1, <1>2 DEF DeadCover, EntryKept

LEMMA RailKept ==
  ASSUME NEW F, NEW W, NEW a, NEW b, Evolves(F, W, a, b), Typed(a), NEW s \in Jobs \ W,
         a[s].state \in {"completed", "failed"}, b[s].state = a[s].state, RailFine(a, s)
  PROVE  RailFine(b, s)
<1> SUFFICES ASSUME NEW i \in DOMAIN b[s].rail
             PROVE  LET e == b[s].rail[i]
                    IN  \/ e.state \in {"done", "failed", "skipped"}
                        \/ /\ e.state = "reviewing" /\ e.job \in Jobs
                           /\ \/ Active(b[e.job])
                              \/ b[s].state = "completed" /\ Terminal(b[e.job]) /\ \E k \in DOMAIN b[s].rail : DeadCover(b, b[s].rail[k])
  BY DEF RailFine
<1>1. DOMAIN b[s].rail = DOMAIN a[s].rail /\ EntryKept(b, a[s].rail[i], b[s].rail[i]) /\ Untold(a, b, s, i)
  BY DEF Evolves, RowEvolves
<1>2. Terminal(a[s])
  BY DEF Terminal, TerminalStates
<1>3. CASE a[s].rail[i].state \in {"done", "failed", "skipped"}
  BY <1>1, <1>3 DEF EntryKept
<1>4. CASE a[s].rail[i].state = "reviewing" /\ a[s].rail[i].job \in Jobs /\ Active(a[a[s].rail[i].job])
  BY <1>1, <1>2, <1>4 DEF EntryKept, Untold
<1>5. CASE /\ a[s].rail[i].state = "reviewing" /\ a[s].rail[i].job \in Jobs /\ Terminal(a[a[s].rail[i].job])
           /\ a[s].state = "completed" /\ \E k \in DOMAIN a[s].rail : DeadCover(a, a[s].rail[k])
  <2>1. Terminal(b[a[s].rail[i].job])
    BY <1>5, RowMoves
  <2>2. \E k \in DOMAIN b[s].rail : DeadCover(b, b[s].rail[k])
    BY <1>1, <1>5, DeadCoverKept
  <2> QED
    BY <1>1, <1>5, <2>1, <2>2 DEF EntryKept
<1> QED
  BY <1>1, <1>3, <1>4, <1>5 DEF RailFine

\* A run that neither writes nor ends stays fine.
LEMMA RunKept ==
  ASSUME NEW F, NEW W, NEW a, NEW b, Evolves(F, W, a, b), Typed(a), RowsOk(a), NEW s \in Jobs \ (W \union F), NEW x, NEW m,
         RunFine(a, x, m, s), x \in StackAwaits => IsStack(a[s]) /\ LocalsOk(a, s, m),
         x = "inline" => a[s].rail[m.i].job \notin F
  PROVE  RunFine(b, x, m, s)
<1>1. /\ AtWork(a[s]) => AtWork(b[s])
      /\ b[s].state \in {"completed", "failed"} => b[s].state = a[s].state
      /\ DOMAIN b[s].rail = DOMAIN a[s].rail
  <2>1. DOMAIN b[s].rail = DOMAIN a[s].rail
    BY DEF Evolves, RowEvolves
  <2> QED
    BY <2>1, RowMoves
<1>2. x \in StackAwaits => DOMAIN a[s].rail = 1..Len(a[s].over) /\ m.i \in DOMAIN a[s].rail
  BY DEF RowsOk, RowOk, LocalsOk
<1>3. x \in {"inline", "wait", "verify", "repin"} => AtEntry(b, x, b[s].rail[m.i])
  <2> SUFFICES ASSUME x \in {"inline", "wait", "verify", "repin"} PROVE AtEntry(b, x, b[s].rail[m.i])
    OBVIOUS
  <2>1. AtEntry(a, x, a[s].rail[m.i]) /\ m.i \in DOMAIN a[s].rail
    BY <1>2 DEF RunFine, StackAwaits
  <2>2. b[s].rail[m.i].job = a[s].rail[m.i].job /\ b[s].rail[m.i].pin = a[s].rail[m.i].pin
    BY <2>1 DEF Evolves, RowEvolves, EntryKept
  <2> DEFINE k == a[s].rail[m.i].job
  <2>3. k \in Jobs
    BY <2>1 DEF AtEntry
  <2> HIDE DEF k
  <2>4. /\ b[k].head = a[k].head
        /\ k \notin F /\ AtWork(a[k]) => AtWork(b[k])
        /\ a[k].state \in {"running"} \union TerminalStates => b[k].state \in {"running"} \union TerminalStates
        /\ a[k].state \in {"completed", "stale"} => b[k].state \in {"completed", "stale"}
    BY <2>3, RowMoves
  <2> QED
    BY <2>1, <2>2, <2>3, <2>4 DEF AtEntry, k
<1>4. x \in Stage2 => m.covered \subseteq 1..(m.i - 1) /\ \A k \in 1..(m.i - 1) : Settled(b, m.covered, b[s].rail[k], k)
  <2> SUFFICES ASSUME x \in Stage2 PROVE m.covered \subseteq 1..(m.i - 1) /\ \A k \in 1..(m.i - 1) : Settled(b, m.covered, b[s].rail[k], k)
    OBVIOUS
  <2>1. x \in StackAwaits
    BY DEF Stage2, StackAwaits
  <2>2. 1..(m.i - 1) \subseteq DOMAIN a[s].rail
    BY <1>2, <2>1 DEF LocalsOk
  <2> QED
    BY <2>2, SettledKept DEF RunFine
<1>5. x \in Stage3 => m.covered \subseteq DOMAIN b[s].rail
                      /\ \A k \in DOMAIN b[s].rail : Settled(b, m.covered, b[s].rail[k], k)
  BY <1>1, SettledKept DEF RunFine
<1>6. x = "followup" => \E k \in DOMAIN b[s].rail : DeadCover(b, b[s].rail[k])
  BY <1>1, DeadCoverKept DEF RunFine
<1>7. x \notin Work /\ b[s].state \in {"completed", "failed"} => RailFine(b, s)
  BY <1>1, RailKept DEF RunFine
<1> QED
  BY <1>1, <1>3, <1>4, <1>5, <1>6, <1>7 DEF RunFine

-----------------------------------------------------------------------------
(* The writes of rows evolve them *)

\* A job that an entry names is a pull job in any later table.
LEMMA EntryFineOn ==
  ASSUME NEW a, NEW b, NEW e, NEW p, EntryFine(a, e, p),
         \A j \in Jobs : b[j].over = a[j].over /\ (b[j].state = "absent" <=> a[j].state = "absent")
  PROVE  EntryFine(b, e, p)
BY DEF EntryFine, IsPull, IsStack

LEMMA RowWritten ==
  ASSUME NEW F, NEW W, NEW a, RowsOk(a), Typed(a), NEW k \in Jobs, NEW r,
         r.over = a[k].over, r.head = a[k].head, Moves(a[k].state, r.state, k \in F),
         r.key = a[k].key \/ (r.key \in Nat \ {0} /\ (IsStack(a[k]) => r.key = k)),
         DOMAIN r.rail = DOMAIN a[k].rail, \A i \in DOMAIN r.rail : EntryFine(a, r.rail[i], a[k].over[i]),
         IsStack(a[k]) \/ r.state = a[k].state, k \in W \/ r.rail = a[k].rail
  PROVE  Evolves(F, W, a, [a EXCEPT ![k] = r])
<1> DEFINE b == [a EXCEPT ![k] = r]
<1>1. DOMAIN b = Jobs /\ \A j \in Jobs : b[j] = IF j = k THEN r ELSE a[j]
  BY DEF RowsOk
<1> HIDE DEF b
<1>2. \A j \in Jobs : b[j].over = a[j].over /\ (b[j].state = "absent" <=> a[j].state = "absent")
  BY <1>1 DEF Moves
<1>3. ASSUME NEW j \in Jobs PROVE RowEvolves(F, W, a, b, j)
  <2>1. RowFine(a, j)
    BY DEF Typed
  <2>2. \A i \in DOMAIN b[j].rail : EntryFine(b, b[j].rail[i], a[j].over[i])
    <3> SUFFICES ASSUME NEW i \in DOMAIN b[j].rail PROVE EntryFine(a, b[j].rail[i], a[j].over[i])
      BY <1>2, EntryFineOn
    <3> QED
      BY <1>1, <2>1 DEF RowFine
  <2>3. j \notin W => b[j].rail = a[j].rail
    BY <1>1
  <2>4. \A i \in DOMAIN a[j].rail : a[j].rail[i].job \in Jobs => ~IsStack(a[a[j].rail[i].job])
    BY <2>1, NoJobZero DEF RowFine, EntryFine, IsPull
  <2>5. \A i \in DOMAIN a[j].rail : Untold(a, b, j, i)
    BY <1>1, <2>4 DEF Untold, Active
  <2>6. j \notin W => \A i \in DOMAIN a[j].rail : EntryKept(b, a[j].rail[i], b[j].rail[i])
    BY <2>3 DEF EntryKept
  <2>7. Moves(a[j].state, b[j].state, j \in F) /\ b[j].head = a[j].head
        /\ (b[j].key = a[j].key \/ (b[j].key \in Nat \ {0} /\ (IsStack(a[j]) => b[j].key = j)))
        /\ DOMAIN b[j].rail = DOMAIN a[j].rail
    BY <1>1 DEF Moves
  <2> HIDE DEF EntryKept, Untold, Moves
  <2> QED
    BY <1>2, <2>2, <2>5, <2>6, <2>7 DEF RowEvolves
<1> QED
  BY <1>1, <1>3 DEF Evolves, b

\* An entry with another state, or at another pin, is still an entry.
LEMMA EntrySet ==
  ASSUME NEW rs, NEW e, NEW p, EntryFine(rs, e, p)
  PROVE  /\ \A x \in RailStates :
              /\ EntryFine(rs, [e EXCEPT !.state = x], p) /\ [e EXCEPT !.state = x].state = x
              /\ [e EXCEPT !.state = x].pin = e.pin /\ [e EXCEPT !.state = x].job = e.job
         /\ \A h \in Heads :
              /\ EntryFine(rs, [e EXCEPT !.pin = h], p) /\ [e EXCEPT !.pin = h].pin = h
              /\ [e EXCEPT !.pin = h].state = e.state /\ [e EXCEPT !.pin = h].job = e.job
         /\ \A j \in Jobs : IsPull(rs, j) /\ rs[j].over = <<p>> =>
              /\ EntryFine(rs, [e EXCEPT !.job = j], p) /\ [e EXCEPT !.job = j].job = j
              /\ [e EXCEPT !.job = j].state = e.state /\ [e EXCEPT !.job = j].pin = e.pin
<1>1. DOMAIN e = {"pin", "state", "job"}
  BY DEF EntryFine
<1>2. ASSUME NEW x \in RailStates
      PROVE  /\ EntryFine(rs, [e EXCEPT !.state = x], p) /\ [e EXCEPT !.state = x].state = x
             /\ [e EXCEPT !.state = x].pin = e.pin /\ [e EXCEPT !.state = x].job = e.job
  BY <1>1 DEF EntryFine
<1>3. ASSUME NEW h \in Heads
      PROVE  /\ EntryFine(rs, [e EXCEPT !.pin = h], p) /\ [e EXCEPT !.pin = h].pin = h
             /\ [e EXCEPT !.pin = h].state = e.state /\ [e EXCEPT !.pin = h].job = e.job
  BY <1>1 DEF EntryFine
<1>4. ASSUME NEW j \in Jobs, IsPull(rs, j), rs[j].over = <<p>>
      PROVE  /\ EntryFine(rs, [e EXCEPT !.job = j], p) /\ [e EXCEPT !.job = j].job = j
             /\ [e EXCEPT !.job = j].state = e.state /\ [e EXCEPT !.job = j].pin = e.pin
  BY <1>1, <1>4 DEF EntryFine
<1> QED
  BY <1>2, <1>3, <1>4

\* The fields of a row after a write of one of them.
LEMMA RowSet ==
  ASSUME NEW r, DOMAIN r = Fields
  PROVE  /\ \A x : /\ [r EXCEPT !.state = x].state = x /\ [r EXCEPT !.state = x].over = r.over
                   /\ [r EXCEPT !.state = x].head = r.head /\ [r EXCEPT !.state = x].key = r.key
                   /\ [r EXCEPT !.state = x].rail = r.rail
         /\ \A x : /\ [r EXCEPT !.rail = x].rail = x /\ [r EXCEPT !.rail = x].over = r.over
                   /\ [r EXCEPT !.rail = x].head = r.head /\ [r EXCEPT !.rail = x].key = r.key
                   /\ [r EXCEPT !.rail = x].state = r.state
         /\ \A x : /\ [r EXCEPT !.key = x].key = x /\ [r EXCEPT !.key = x].over = r.over
                   /\ [r EXCEPT !.key = x].head = r.head /\ [r EXCEPT !.key = x].rail = r.rail
                   /\ [r EXCEPT !.key = x].state = r.state
BY DEF Fields

\* A write of a rail that belongs to W.
LEMMA RailWritten ==
  ASSUME NEW F, NEW W, NEW a, RowsOk(a), Typed(a), NEW s \in Jobs, s \in W, NEW l, DOMAIN l = DOMAIN a[s].rail,
         \A i \in DOMAIN l : EntryFine(a, l[i], a[s].over[i])
  PROVE  LET b == [a EXCEPT ![s] = [a[s] EXCEPT !.rail = l]]
         IN  /\ Evolves(F, W, a, b) /\ KeysSame(a, b) /\ b[s].rail = l /\ b[s].state = a[s].state
             /\ \A j \in Jobs \ {s} : b[j] = a[j]
             /\ RowsOk(b) /\ Follows({}, a, b)
<1> DEFINE r == [a[s] EXCEPT !.rail = l]
           b == [a EXCEPT ![s] = r]
<1>1. r.rail = l /\ r.over = a[s].over /\ r.head = a[s].head /\ r.key = a[s].key /\ r.state = a[s].state
  BY RowSet DEF RowsOk, RowOk
<1> HIDE DEF r
<1>2. b[s] = r /\ \A j \in Jobs \ {s} : b[j] = a[j]
  BY DEF RowsOk
<1>3. Evolves(F, W, a, b)
  BY <1>1, RowWritten DEF Moves
<1>4. \A i \in DOMAIN l : EntryOk(a, l[i])
  BY DEF EntryFine, EntryOk
<1>5. Keeps({}, a, s, [a[s] EXCEPT !.rail = l])
  BY <1>4, RailKeeps
<1>6. Follows({}, a, b)
  BY <1>5, RowReplaced DEF r
<1> HIDE DEF b
<1>7. KeysSame(a, b) /\ b[s].rail = l /\ b[s].state = a[s].state
  BY <1>1, <1>2 DEF KeysSame
<1>8. RowsOk(b)
  BY <1>6 DEF Follows
<1> QED
  BY <1>2, <1>3, <1>6, <1>7, <1>8 DEF b, r

LEMMA EvolvesRows ==
  ASSUME NEW F, NEW W, NEW a, NEW b, Evolves(F, W, a, b), RowsOk(a), \A j \in Jobs : DOMAIN b[j] = Fields
  PROVE  RowsOk(b)
<1>1. ASSUME NEW j \in Jobs PROVE RowOk(b, j)
  <2>1. RowOk(a, j) /\ RowEvolves(F, W, a, b, j)
    BY DEF RowsOk, Evolves
  <2>2. \A i \in DOMAIN b[j].rail : EntryOk(b, b[j].rail[i])
    BY <2>1 DEF RowEvolves, EntryFine, EntryOk
  <2> QED
    BY <2>1, <2>2 DEF RowOk, RowEvolves, IsStack
<1> QED
  BY <1>1 DEF RowsOk, Evolves

\* patchStackMember.
WithEntry(a, s, k, e) == [a EXCEPT ![s].rail[k] = e]
Writes(s, a, b)       == Evolves({}, {s}, a, b)

LEMMA EntryWritten ==
  ASSUME NEW a, RowsOk(a), Typed(a), NEW s \in Jobs, NEW k \in DOMAIN a[s].rail, NEW e,
         EntryFine(a, e, a[s].over[k])
  PROVE  LET b == WithEntry(a, s, k, e)
         IN  /\ Writes(s, a, b) /\ KeysSame(a, b) /\ b[s].state = a[s].state
             /\ b[s].rail[k] = e /\ DOMAIN b[s].rail = DOMAIN a[s].rail
             /\ \A i \in DOMAIN a[s].rail : i # k => b[s].rail[i] = a[s].rail[i]
             /\ \A j \in Jobs : j # s => b[j] = a[j]
             /\ RowsOk(b) /\ Follows({}, a, b)
<1> DEFINE l == [a[s].rail EXCEPT ![k] = e]
           b == [a EXCEPT ![s] = [a[s] EXCEPT !.rail = l]]
<1>1. WithEntry(a, s, k, e) = b
  BY DEF WithEntry
<1>2. /\ DOMAIN l = DOMAIN a[s].rail /\ l[k] = e
      /\ \A i \in DOMAIN a[s].rail \ {k} : l[i] = a[s].rail[i]
  OBVIOUS
<1> HIDE DEF l
<1>3. \A i \in DOMAIN l : EntryFine(a, l[i], a[s].over[i])
  BY <1>2 DEF Typed, RowFine
<1>4. /\ Evolves({}, {s}, a, b) /\ KeysSame(a, b) /\ b[s].rail = l /\ b[s].state = a[s].state
      /\ \A j \in Jobs \ {s} : b[j] = a[j]
      /\ RowsOk(b) /\ Follows({}, a, b)
  <2>1. s \in {s}
    OBVIOUS
  <2> QED
    BY <1>2, <1>3, <2>1, RailWritten
<1> HIDE DEF b
<1> QED
  BY <1>1, <1>2, <1>4 DEF Writes

\* skipUnreachedStackMembers leaves a rail that is settled, or that waits for
\* jobs that are active.
LEMMA SkippedEvolves ==
  ASSUME NEW F, NEW W, NEW a, RowsOk(a), Typed(a), NEW s \in Jobs, s \in W
  PROVE  LET b == SkipUnreached(a, s)
         IN  /\ Evolves(F, W, a, b) /\ KeysSame(a, b) /\ b[s].state = a[s].state /\ b[s].over = a[s].over
             /\ \A j \in Jobs \ {s} : b[j] = a[j]
             /\ RowsOk(b) /\ Follows({}, a, b)
             /\ \A i \in DOMAIN b[s].rail :
                  LET e == b[s].rail[i]
                  IN  e.state \in {"done", "failed", "skipped"}
                      \/ (e.state = "reviewing" /\ e.job \in Jobs /\ ~IsStack(b[e.job]) /\ Active(b[e.job]))
<1> DEFINE left(e) == IF e.state = "queued" \/ (e.state = "reviewing" /\ e.job = 0) THEN "skipped"
                      ELSE IF e.state = "reviewing" /\ Terminal(a[e.job]) THEN Outcome(a, e.job)
                      ELSE e.state
           l == [i \in DOMAIN a[s].rail |-> [a[s].rail[i] EXCEPT !.state = left(a[s].rail[i])]]
           b == [a EXCEPT ![s] = [a[s] EXCEPT !.rail = l]]
<1>1. SkipUnreached(a, s) = b
  BY DEF SkipUnreached
<1>2. ASSUME NEW i \in DOMAIN a[s].rail
      PROVE  LET e == a[s].rail[i]
             IN  /\ EntryFine(a, e, a[s].over[i])
                 /\ left(e) \in RailStates \ {"queued"}
                 /\ left(e) = "reviewing" => e.job \in Jobs /\ ~IsStack(a[e.job]) /\ Active(a[e.job])
  <2>1. EntryFine(a, a[s].rail[i], a[s].over[i])
    BY DEF Typed, RowFine
  <2>2. \A j \in Jobs : a[j].state \in StackStates
    BY DEF Typed, RowFine
  <2> QED
    BY <2>1, <2>2, StateNames DEF EntryFine, RailStates, Outcome, Terminal, Active, IsPull
<1> HIDE DEF left
<1>3. DOMAIN l = DOMAIN a[s].rail /\ \A i \in DOMAIN l : l[i] = [a[s].rail[i] EXCEPT !.state = left(a[s].rail[i])]
  OBVIOUS
<1> HIDE DEF l
<1>4. \A i \in DOMAIN l : /\ EntryFine(a, l[i], a[s].over[i])
                          /\ l[i].state = left(a[s].rail[i]) /\ l[i].job = a[s].rail[i].job
  <2> SUFFICES ASSUME NEW i \in DOMAIN a[s].rail
               PROVE  /\ EntryFine(a, l[i], a[s].over[i])
                      /\ l[i].state = left(a[s].rail[i]) /\ l[i].job = a[s].rail[i].job
    BY <1>3
  <2> DEFINE e == a[s].rail[i]
             x == left(e)
  <2>1. EntryFine(a, e, a[s].over[i]) /\ x \in RailStates /\ l[i] = [e EXCEPT !.state = x]
    BY <1>2, <1>3
  <2> HIDE DEF e, x
  <2>2. EntryFine(a, l[i], a[s].over[i]) /\ l[i].state = x /\ l[i].job = e.job
    BY <2>1, EntrySet
  <2> QED
    BY <2>2 DEF e, x
<1>5. /\ Evolves(F, W, a, b) /\ KeysSame(a, b) /\ b[s].rail = l /\ b[s].state = a[s].state
      /\ \A j \in Jobs \ {s} : b[j] = a[j]
      /\ RowsOk(b) /\ Follows({}, a, b)
  BY <1>3, <1>4, RailWritten
<1> HIDE DEF b
<1>6. \A j \in Jobs : b[j].over = a[j].over /\ (IsStack(b[j]) <=> IsStack(a[j]))
  BY <1>5, RowMoves
<1>7. \A j \in Jobs : b[j].state = a[j].state
  BY <1>5
<1>8. ASSUME NEW i \in DOMAIN l
      PROVE  l[i].state \in {"done", "failed", "skipped"}
             \/ (l[i].state = "reviewing" /\ l[i].job \in Jobs /\ ~IsStack(b[l[i].job]) /\ Active(b[l[i].job]))
  BY <1>2, <1>3, <1>4, <1>6, <1>7 DEF RailStates, Active
<1> QED
  BY <1>1, <1>5, <1>6, <1>8

\* setJobState of a stack by its own run.
LEMMA StateWritten ==
  ASSUME NEW F, NEW W, NEW a, RowsOk(a), Typed(a), NEW s \in Jobs, IsStack(a[s]), NEW st,
         Dead(a[s]) \/ Moves(a[s].state, st, s \in F)
  PROVE  LET b == [a EXCEPT ![s] = SetState(a[s], st)]
         IN  /\ Evolves(F, W, a, b) /\ KeysSame(a, b) /\ b[s].rail = a[s].rail
             /\ b[s].state = (IF Dead(a[s]) THEN a[s].state ELSE st)
             /\ \A j \in Jobs \ {s} : b[j] = a[j]
             /\ RowsOk(b)
<1> DEFINE r == SetState(a[s], st)
           b == [a EXCEPT ![s] = r]
<1>1. DOMAIN a[s] = Fields /\ RowFine(a, s)
  BY DEF RowsOk, RowOk, Typed
<1>2. /\ r.rail = a[s].rail /\ r.over = a[s].over /\ r.head = a[s].head /\ r.key = a[s].key
      /\ r.state = IF Dead(a[s]) THEN a[s].state ELSE st
      /\ DOMAIN r = Fields
  BY <1>1, RowSet DEF SetState, Fields
<1> HIDE DEF r
<1>3. b[s] = r /\ \A j \in Jobs \ {s} : b[j] = a[j]
  BY DEF RowsOk
<1>4. Moves(a[s].state, r.state, s \in F)
  BY <1>2 DEF Moves
<1>5. \A i \in DOMAIN r.rail : EntryFine(a, r.rail[i], a[s].over[i])
  BY <1>1, <1>2 DEF RowFine
<1>6. Evolves(F, W, a, b)
  BY <1>2, <1>4, <1>5, RowWritten
<1>7. \A j \in Jobs : DOMAIN b[j] = Fields
  BY <1>2, <1>3 DEF RowsOk, RowOk
<1> HIDE DEF b
<1>8. RowsOk(b)
  BY <1>6, <1>7, EvolvesRows
<1> QED
  BY <1>2, <1>3, <1>6, <1>8 DEF KeysSame, b, r

\* Jobs that end, and what waited for them.
MayEnd(F, a, S, st) == \A j \in S : Dead(a[j]) \/ Moves(a[j].state, st, j \in F)

Ending(F, W, a, S, st, c) ==
  /\ Evolves(F, W, a, c) /\ KeysSame(a, c) /\ RowsOk(c)
  /\ \A j \in Jobs : c[j].state = (IF j \in S /\ ~Dead(a[j]) THEN st ELSE a[j].state)
  /\ \A j \in Jobs : ~Terminal(c[j]) => c[j] = a[j]

LEMMA MovedEvolves ==
  ASSUME NEW F, NEW W, NEW a, RowsOk(a), Typed(a), NEW S \in SUBSET Jobs, NEW st \in TerminalStates, MayEnd(F, a, S, st)
  PROVE  Ending(F, W, a, S, st, Moved(a, S, st))
<1> DEFINE b == [j \in Jobs |-> IF j \in S THEN SetState(a[j], st) ELSE a[j]]
           settled(e) == IF e.state = "reviewing" /\ e.job \in S THEN [e EXCEPT !.state = Outcome(b, e.job)] ELSE e
           l(j) == [i \in DOMAIN b[j].rail |-> settled(b[j].rail[i])]
           c == [j \in Jobs |-> IF Terminal(b[j]) THEN [b[j] EXCEPT !.rail = l(j)] ELSE b[j]]
<1>1. Moved(a, S, st) = c
  BY DEF Moved, Resolved
<1>2. ASSUME NEW j \in Jobs
      PROVE  /\ b[j].rail = a[j].rail /\ b[j].over = a[j].over /\ b[j].head = a[j].head /\ b[j].key = a[j].key
             /\ b[j].state = (IF j \in S /\ ~Dead(a[j]) THEN st ELSE a[j].state)
             /\ DOMAIN b[j] = Fields
             /\ j \notin S => b[j] = a[j]
             /\ ~Terminal(b[j]) => b[j] = a[j]
  <2>1. DOMAIN a[j] = Fields
    BY DEF RowsOk, RowOk
  <2> QED
    BY <2>1, RowSet DEF SetState, Fields, Terminal
<1> HIDE DEF b
<1>3. \A j \in Jobs : /\ c[j].over = a[j].over /\ c[j].head = a[j].head /\ c[j].key = a[j].key
                      /\ c[j].state = b[j].state /\ DOMAIN c[j] = Fields
                      /\ c[j].rail = IF Terminal(b[j]) THEN l(j) ELSE a[j].rail
                      /\ ~Terminal(c[j]) => c[j] = a[j]
  BY <1>2, RowSet DEF Fields, Terminal
<1>4. \A j \in Jobs : Moves(a[j].state, b[j].state, j \in F)
  BY <1>2 DEF Moves, Dead, MayEnd
<1>5. \A j \in Jobs : c[j].over = a[j].over /\ (c[j].state = "absent" <=> a[j].state = "absent")
  BY <1>3, <1>4 DEF Moves
<1>6. ASSUME NEW j \in Jobs, NEW i \in DOMAIN a[j].rail
      PROVE  LET e == a[j].rail[i]
                 f == c[j].rail[i]
             IN  /\ EntryFine(c, f, a[j].over[i]) /\ EntryKept(c, e, f)
                 /\ Terminal(a[j]) /\ f.state = "reviewing" => e.job \notin S
  <2> DEFINE e == a[j].rail[i]
             f == c[j].rail[i]
  <2>1. EntryFine(a, e, a[j].over[i])
    BY DEF Typed, RowFine
  <2>2. f = IF Terminal(b[j]) THEN settled(e) ELSE e
    BY <1>2, <1>3
  <2>3. Terminal(a[j]) => Terminal(b[j])
    BY <1>2, StateNames DEF Terminal
  <2>4. e.job \in Jobs \/ e.job = 0
    BY <2>1 DEF EntryFine, IsPull
  <2>5. Outcome(b, e.job) \in {"done", "skipped"} /\ (Outcome(b, e.job) = "done" => b[e.job].state = "completed")
    BY DEF Outcome
  <2> HIDE DEF c
  <2>6. EntryFine(c, e, a[j].over[i])
    BY <1>5, <2>1, EntryFineOn
  <2> DEFINE x == Outcome(b, e.job)
             g == [e EXCEPT !.state = x]
  <2> HIDE DEF e, f, x
  <2>7. EntryFine(c, g, a[j].over[i]) /\ g.state = x /\ g.pin = e.pin /\ g.job = e.job
    <3>1. x \in RailStates
      BY <2>5 DEF x, RailStates
    <3> QED
      BY <2>6, <3>1, EntrySet
  <2>8. f = IF Terminal(b[j]) /\ e.state = "reviewing" /\ e.job \in S THEN g ELSE e
    BY <2>2 DEF x
  <2> HIDE DEF g
  <2>9. EntryFine(c, f, a[j].over[i])
    BY <2>6, <2>7, <2>8
  <2>10. EntryKept(c, e, f)
    <3>1. e.job \in S /\ e.state = "reviewing" /\ x = "done" => e.job \in Jobs /\ c[e.job].state = "completed"
      <4>1. x = "done" => b[e.job].state = "completed"
        BY <2>5 DEF x
      <4> QED
        BY <1>3, <4>1
    <3>2. x \in {"done", "skipped"}
      BY <2>5 DEF x
    <3> QED
      BY <2>7, <2>8, <3>1, <3>2 DEF EntryKept
  <2>11. Terminal(a[j]) /\ f.state = "reviewing" => e.job \notin S
    BY <2>3, <2>5, <2>7, <2>8 DEF x
  <2> QED
    BY <2>9, <2>10, <2>11 DEF e, f
<1> HIDE DEF c
<1>7. ASSUME NEW j \in Jobs PROVE RowEvolves(F, W, a, c, j)
  <2>1. \A i \in DOMAIN a[j].rail : Untold(a, c, j, i)
    <3> SUFFICES ASSUME NEW i \in DOMAIN a[j].rail, Terminal(a[j]), c[j].rail[i].state = "reviewing",
                        a[j].rail[i].job \in Jobs
                 PROVE  c[a[j].rail[i].job].state = a[a[j].rail[i].job].state
      BY DEF Untold, Active
    <3>1. a[j].rail[i].job \notin S
      BY <1>6
    <3> QED
      BY <1>2, <1>3, <3>1
  <2>2. DOMAIN c[j].rail = DOMAIN a[j].rail
    BY <1>2, <1>3
  <2> QED
    BY <1>3, <1>4, <1>6, <2>1, <2>2 DEF RowEvolves
<1>8. Evolves(F, W, a, c)
  BY <1>7 DEF Evolves, c
<1>9. RowsOk(c)
  BY <1>3, <1>8, EvolvesRows
<1> QED
  BY <1>1, <1>2, <1>3, <1>8, <1>9 DEF KeysSame, Ending

-----------------------------------------------------------------------------
(* What a turn of run s leaves of everybody else *)

LEMMA PinsKept ==
  ASSUME NEW F, NEW W, NEW a, NEW b, Evolves(F, W, a, b), NEW hs, HandPins(a, hs)
  PROVE  HandPins(b, hs)
<1> SUFFICES ASSUME NEW t \in hs, ~t.created
             PROVE  /\ t.job \in Jobs /\ IsStack(b[t.job]) /\ Len(t.pins) = Len(b[t.job].over)
                    /\ \A i \in 1..Len(t.pins) : t.pins[i] \in Heads
                    /\ b[t.job].state = "queued" =>
                         \A k \in Jobs \ {t.job} : ~(/\ b[k].state # "absent" /\ b[k].over = b[t.job].over /\ b[k].key = 0
                                                     /\ b[k].head = Top(t.pins))
  BY DEF HandPins
<1>1. t.job \in Jobs /\ b[t.job].over = a[t.job].over /\ (IsStack(b[t.job]) <=> IsStack(a[t.job]))
      /\ (b[t.job].state = "queued" => a[t.job].state = "queued")
  BY RowMoves DEF HandPins
<1>2. \A k \in Jobs : /\ b[k].over = a[k].over /\ b[k].head = a[k].head
                      /\ b[k].state = "absent" <=> a[k].state = "absent"
  BY RowMoves
<1>3. \A k \in Jobs : b[k].key = 0 => a[k].key = 0
  BY DEF Evolves, RowEvolves
<1> QED
  BY <1>1, <1>2, <1>3 DEF HandPins

Waiting == ToSet(queue.pending) \union {t.job : t \in Brought(handoffs)}

\* Everybody but s, over the rows rs of a turn; the rows of N are new.
Rest(s, N, rs) ==
  /\ RowsOk(rs) /\ Typed(rs) /\ Unique(rs) /\ HandPins(rs, handoffs)
  /\ \A z \in Jobs \ {s} : /\ RunFine(rs, pc[z], mem[z], z)
                           /\ pc[z] \in StackAwaits => IsStack(rs[z]) /\ LocalsOk(rs, z, mem[z])
                           /\ \A j \in Jobs : Inline(rs, pc, mem, z, j) <=> Inline(rows, pc, mem, z, j)
  /\ \A j \in Jobs : rows[j].state # "absent" => /\ rs[j].state # "absent" /\ rs[j].over = rows[j].over
  /\ \A j \in Jobs \ N : rs[j].state = "running" => rows[j].state = "running"
  /\ \A j \in Waiting : Waits(rs[j])

\* The run's own rows: itself and the job it runs inline.
Own(s) == {s} \union {j \in Jobs : s \in Jobs /\ Inline(rows, pc, mem, s, j)}

\* A job that is run inline has no run of its own, nor a rail.
LEMMA InlineJob ==
  ASSUME StackInv, DeepInv, NEW s \in Jobs, NEW j \in Jobs, Inline(rows, pc, mem, s, j)
  PROVE  /\ pc[j] = "idle" /\ j \notin Entries(queue) /\ (\A t \in Brought(handoffs) : t.job # j) /\ j # s
         /\ ~IsStack(rows[j]) /\ AtWork(rows[j]) /\ rows[j].over = <<Member(s)>>
         /\ \A z \in Jobs : Inline(rows, pc, mem, z, j) => z = s
<1>1. j \notin Entries(queue) /\ \A t \in Brought(handoffs) : t.job # j
  BY DEF DeepInv, Deep, InlineOk
<1>2. pc[j] = "idle"
  BY <1>1 DEF StackInv, RunOk, Entries
<1>3. pc[s] = "inline" /\ mem[s].i \in DOMAIN rows[s].rail /\ rows[s].rail[mem[s].i].job = j
  <2>1. pc[s] = "inline" /\ rows[s].rail[mem[s].i].job = j
    BY DEF Inline
  <2>2. pc[s] \in StackAwaits
    BY <2>1 DEF StackAwaits
  <2> QED
    BY <2>1, <2>2, MemberEntry
<1>4. EntryFine(rows, rows[s].rail[mem[s].i], rows[s].over[mem[s].i])
  BY <1>3 DEF DeepInv, Deep, Typed, RowFine
<1>5. ~IsStack(rows[j]) /\ rows[j].over = <<Member(s)>>
  BY <1>3, <1>4, NoJobZero DEF EntryFine, IsPull, Member
<1>6. RunFine(rows, pc[s], mem[s], s)
  BY DEF DeepInv, Deep
<1>7. AtWork(rows[j])
  BY <1>3, <1>6 DEF RunFine, AtEntry
<1>8. \A z \in Jobs : Inline(rows, pc, mem, z, j) => z = s
  BY DEF DeepInv, Deep, InlineOk
<1> QED
  BY <1>1, <1>2, <1>3, <1>5, <1>7, <1>8

LEMMA WaitingJobs ==
  ASSUME StackInv, NEW j \in Waiting
  PROVE  j \in Jobs /\ j \notin queue.active /\ pc[j] = "idle" /\ WaitOk(rows, j)
<1>1. Waiting \subseteq Jobs /\ Waiting \intersect queue.active = {}
  <2>1. Sound(queue)
    BY DEF StackInv, QueueOk
  <2>2. ToSet(queue.pending) \subseteq Jobs /\ ToSet(queue.pending) \intersect queue.active = {}
    BY <2>1 DEF Sound, StackInv, KnownOk, WaitOk
  <2>3. \A t \in Brought(handoffs) : t.job \in Jobs /\ t.job \notin Entries(queue)
    BY DEF StackInv, HandsOk, WaitOk
  <2> QED
    BY <2>2, <2>3 DEF Entries, Waiting
<1>2. pc[j] = "idle"
  BY <1>1 DEF StackInv, RunOk
<1>3. WaitOk(rows, j)
  BY DEF StackInv, KnownOk, HandsOk, Waiting
<1> QED
  BY <1>1, <1>2, <1>3

LEMMA RestBegins ==
  ASSUME StackInv, DeepInv, NEW s
  PROVE  Rest(s, {}, rows)
<1>1. \A z \in Jobs : pc[z] \in StackAwaits => IsStack(rows[z]) /\ LocalsOk(rows, z, mem[z])
  BY DEF StackInv, RunOk
<1> QED
  BY <1>1 DEF Rest, DeepInv, Deep, StackInv, Waiting

\* Tables with the same rows.
LEMMA SameEvolves ==
  ASSUME NEW a, NEW b, RowsOk(a), Typed(a), Unique(a), DOMAIN b = Jobs, \A j \in Jobs : b[j] = a[j]
  PROVE  Evolves({}, {}, a, b) /\ RowsOk(b) /\ Unique(b)
<1>1. \A e, p : EntryFine(a, e, p) => EntryFine(b, e, p)
  BY EntryFineOn
<1>2. ASSUME NEW j \in Jobs PROVE RowEvolves({}, {}, a, b, j)
  <2>1. RowFine(a, j) /\ b[j] = a[j]
    BY DEF Typed
  <2>2. \A i \in DOMAIN a[j].rail : Untold(a, b, j, i) /\ EntryKept(b, a[j].rail[i], b[j].rail[i])
    BY <2>1 DEF Untold, EntryKept
  <2> QED
    BY <1>1, <2>1, <2>2 DEF RowFine, RowEvolves, Moves
<1>3. Evolves({}, {}, a, b)
  BY <1>2 DEF Evolves
<1>4. RowsOk(b)
  BY <1>3, EvolvesRows DEF RowsOk, RowOk
<1> QED
  BY <1>3, <1>4 DEF Unique

LEMMA RestEvolves ==
  ASSUME StackInv, DeepInv, NEW s, NEW N, NEW a, Rest(s, N, a), NEW F, F \subseteq Own(s), NEW b,
         Evolves(F, {s}, a, b), RowsOk(b), Unique(b), F = {} \/ pc[s] # "idle"
  PROVE  Rest(s, N, b)
<1>1. Typed(b) /\ HandPins(b, handoffs)
  BY TypedKept, PinsKept DEF Rest
<1>2. ASSUME NEW z \in Jobs \ {s}
      PROVE  /\ RunFine(b, pc[z], mem[z], z)
             /\ pc[z] \in StackAwaits => IsStack(b[z]) /\ LocalsOk(b, z, mem[z])
             /\ \A j \in Jobs : Inline(b, pc, mem, z, j) <=> Inline(rows, pc, mem, z, j)
  <2>1. /\ RunFine(a, pc[z], mem[z], z)
        /\ pc[z] \in StackAwaits => IsStack(a[z]) /\ LocalsOk(a, z, mem[z])
        /\ \A j \in Jobs : Inline(a, pc, mem, z, j) <=> Inline(rows, pc, mem, z, j)
        /\ RowsOk(a) /\ Typed(a)
    BY DEF Rest
  <2>2. pc[z] \in StackAwaits => IsStack(b[z]) /\ LocalsOk(b, z, mem[z])
    BY <2>1, RowMoves DEF LocalsOk
  <2>3. ASSUME pc[z] = "inline" PROVE b[z].rail[mem[z].i].job = a[z].rail[mem[z].i].job
    <3>1. pc[z] \in StackAwaits
      BY <2>3 DEF StackAwaits
    <3>2. mem[z].i \in DOMAIN a[z].rail
      BY <2>1, <3>1 DEF LocalsOk, RowsOk, RowOk
    <3> QED
      BY <3>2 DEF Evolves, RowEvolves, EntryKept
  <2>4. \A j \in Jobs : Inline(b, pc, mem, z, j) <=> Inline(rows, pc, mem, z, j)
    BY <2>1, <2>3 DEF Inline
  <2>5. CASE z \notin F
    <3>1. pc[z] = "inline" => a[z].rail[mem[z].i].job \notin F
      <4> SUFFICES ASSUME pc[z] = "inline", a[z].rail[mem[z].i].job \in F PROVE FALSE
        OBVIOUS
      <4> DEFINE j == a[z].rail[mem[z].i].job
      <4>1. j \in Jobs
        BY <2>1 DEF RunFine, AtEntry
      <4>2. Inline(rows, pc, mem, z, j)
        BY <2>1, <4>1 DEF Inline
      <4> HIDE DEF j
      <4>3. j # s
        BY <4>1, <4>2, InlineJob
      <4>4. s \in Jobs /\ Inline(rows, pc, mem, s, j)
        BY <4>3 DEF Own, j
      <4> QED
        BY <4>1, <4>2, <4>4, InlineJob
    <3> QED
      BY <2>1, <2>2, <2>4, <2>5, <3>1, RunKept
  <2>6. CASE z \in F
    <3>1. s \in Jobs /\ Inline(rows, pc, mem, s, z)
      BY <2>6 DEF Own
    <3>2. pc[z] = "idle" /\ ~IsStack(rows[z]) /\ rows[z].over = <<Member(s)>>
      BY <3>1, InlineJob
    <3>3. b[z].over = rows[z].over /\ b[z].state # "absent"
      <4>1. rows[z].state # "absent"
        BY <3>1, InlineJob, StateNames DEF AtWork
      <4> QED
        BY <4>1, RowMoves DEF Rest
    <3>4. DOMAIN b[z].rail = {}
      BY <1>1, <3>2, <3>3 DEF Typed, RowFine, IsStack
    <3>5. RunFine(b, pc[z], mem[z], z)
      BY <2>1, <3>2, <3>4 DEF RunFine, RailFine, StackAwaits, Work, Stage2, Stage3
    <3> QED
      BY <2>2, <2>4, <3>5
  <2> QED
    BY <2>5, <2>6
<1>3. ASSUME NEW j \in Jobs, rows[j].state # "absent"
      PROVE  b[j].state # "absent" /\ b[j].over = rows[j].over
  BY <1>3, RowMoves DEF Rest
<1>4. ASSUME NEW j \in Jobs \ N, b[j].state = "running" PROVE rows[j].state = "running"
  BY <1>4, RowMoves DEF Rest
<1>5. ASSUME NEW j \in Waiting PROVE Waits(b[j])
  <2>1. j \in Jobs /\ j \notin F
    <3>1. j \in Jobs /\ pc[j] = "idle"
      BY WaitingJobs
    <3>2. s \in Jobs => ~Inline(rows, pc, mem, s, j)
      BY <3>1, InlineJob DEF Waiting, Entries
    <3> QED
      BY <3>1, <3>2 DEF Own
  <2> QED
    BY <2>1, RowMoves DEF Rest
<1> QED
  BY <1>1, <1>2, <1>3, <1>4, <1>5 DEF Rest

\* A run whose row, and whose members' rows, are as they were.
LEMMA RunSame ==
  ASSUME NEW a, NEW b, NEW z \in Jobs, RowOk(a, z), b[z] = a[z],
         \A i \in DOMAIN a[z].rail : a[z].rail[i].job \in Jobs => b[a[z].rail[i].job] = a[a[z].rail[i].job],
         NEW x, NEW m, RunFine(a, x, m, z), x \in StackAwaits => IsStack(a[z]) /\ LocalsOk(a, z, m)
  PROVE  RunFine(b, x, m, z)
<1>1. x \in StackAwaits => m.i \in DOMAIN a[z].rail /\ 1..(m.i - 1) \subseteq DOMAIN a[z].rail
  BY DEF LocalsOk, RowOk
<1>2. x \in {"inline", "wait", "verify", "repin"} => AtEntry(b, x, b[z].rail[m.i])
  BY <1>1 DEF RunFine, AtEntry, AtWork, StackAwaits
<1>3. ASSUME NEW k \in DOMAIN a[z].rail
      PROVE  /\ Settled(a, m.covered, a[z].rail[k], k) => Settled(b, m.covered, b[z].rail[k], k)
             /\ DeadCover(a, a[z].rail[k]) => DeadCover(b, b[z].rail[k])
  BY DEF Settled, Reviewed, DeadCover
<1>4. RailFine(a, z) => RailFine(b, z)
  <2>1. (\E k \in DOMAIN a[z].rail : DeadCover(a, a[z].rail[k])) => \E k \in DOMAIN b[z].rail : DeadCover(b, b[z].rail[k])
    BY <1>3
  <2>2. \A i \in DOMAIN a[z].rail : a[z].rail[i].job \in Jobs =>
          /\ Active(a[a[z].rail[i].job]) => Active(b[a[z].rail[i].job])
          /\ Terminal(a[a[z].rail[i].job]) => Terminal(b[a[z].rail[i].job])
    OBVIOUS
  <2> HIDE DEF Active, Terminal, DeadCover
  <2> QED
    BY <2>1, <2>2 DEF RailFine
<1>5. x \in Stage2 => x \in StackAwaits
  BY DEF Stage2, StackAwaits
<1> QED
  BY <1>1, <1>2, <1>3, <1>4, <1>5 DEF RunFine, AtWork

\* A row is added under a free id.
NewFine(r) ==
  /\ DOMAIN r = Fields /\ r.state \in {"queued", "running"} /\ r.head \in Heads /\ r.key = 0
  /\ r.over \in Layouts \union {<<p>> : p \in StackPulls} /\ Len(r.over) \in Nat
  /\ DOMAIN r.rail = (IF IsStack(r) THEN 1..Len(r.over) ELSE {})
  /\ \A i \in DOMAIN r.rail : DOMAIN r.rail[i] = {"pin", "state", "job"} /\ r.rail[i].pin \in Heads
                               /\ r.rail[i].state \in RailStates /\ r.rail[i].job = 0

\* Row n of b is r, the others are those of a.
Grown(a, b, n, r) == DOMAIN b = Jobs /\ b[n] = r /\ \A j \in Jobs : j # n => b[j] = a[j]

LEMMA RestGrown ==
  ASSUME StackInv, DeepInv, NEW s, NEW a, Rest(s, {}, a), NEW n \in Jobs, n # s, a[n].state = "absent", rows[n].state = "absent",
         NEW r, NewFine(r), NEW b, Grown(a, b, n, r), Unique(b), HandPins(b, handoffs)
  PROVE  /\ Rest(s, {n}, b) /\ \A e, p : EntryFine(a, e, p) => EntryFine(b, e, p) /\ e.job # n
<1>1. DOMAIN b = Jobs /\ b[n] = r /\ (\A j \in Jobs \ {n} : b[j] = a[j]) /\ r.state \in {"queued", "running"}
  BY DEF Grown, NewFine
<1>2. \A e, p : EntryFine(a, e, p) => EntryFine(b, e, p) /\ e.job # n
  BY <1>1, NoJobZero DEF EntryFine, IsPull
<1>3. ASSUME NEW j \in Jobs PROVE RowFine(b, j)
  <2>1. CASE j = n
    BY <1>1, <2>1 DEF NewFine, RowFine, StackStates, EntryFine
  <2>2. CASE j # n
    <3>1. RowFine(a, j) /\ b[j] = a[j]
      BY <1>1, <2>2 DEF Rest, Typed
    <3> QED
      BY <1>2, <3>1 DEF RowFine
  <2> QED
    BY <2>1, <2>2
<1>4. ASSUME NEW j \in Jobs PROVE RowOk(b, j)
  <2>1. \A i \in DOMAIN b[j].rail : EntryOk(b, b[j].rail[i])
    BY <1>3 DEF RowFine, EntryFine, EntryOk
  <2>2. DOMAIN b[j] = Fields /\ Len(b[j].over) \in Nat /\ (IsStack(b[j]) => DOMAIN b[j].rail = 1..Len(b[j].over))
    BY <1>1 DEF NewFine, Rest, RowsOk, RowOk
  <2> QED
    BY <2>1, <2>2 DEF RowOk
<1>5. RowsOk(b) /\ Typed(b)
  BY <1>1, <1>3, <1>4 DEF RowsOk, Typed
<1>6. pc[n] = "idle"
  BY DEF StackInv, RunOk, KnownOk
<1>7. ASSUME NEW z \in Jobs \ {s}
      PROVE  /\ RunFine(b, pc[z], mem[z], z)
             /\ pc[z] \in StackAwaits => IsStack(b[z]) /\ LocalsOk(b, z, mem[z])
             /\ \A j \in Jobs : Inline(b, pc, mem, z, j) <=> Inline(rows, pc, mem, z, j)
  <2>1. /\ RunFine(a, pc[z], mem[z], z)
        /\ pc[z] \in StackAwaits => IsStack(a[z]) /\ LocalsOk(a, z, mem[z])
        /\ \A j \in Jobs : Inline(a, pc, mem, z, j) <=> Inline(rows, pc, mem, z, j)
    BY DEF Rest
  <2>2. CASE z = n
    BY <1>1, <1>6, <2>1, <2>2 DEF RunFine, Work, StackAwaits, Stage2, Stage3, Inline
  <2>3. CASE z # n
    <3>1. b[z] = a[z]
      BY <1>1, <2>3
    <3>2. \A i \in DOMAIN a[z].rail : a[z].rail[i].job \in Jobs => b[a[z].rail[i].job] = a[a[z].rail[i].job]
      BY <1>1, <1>2 DEF Rest, Typed, RowFine
    <3>8. RunFine(b, pc[z], mem[z], z)
      <4>1. RowOk(a, z)
        BY DEF Rest, RowsOk
      <4> QED
        BY <2>1, <3>1, <3>2, <4>1, RunSame
    <3>9. \A j \in Jobs : Inline(b, pc, mem, z, j) <=> Inline(rows, pc, mem, z, j)
      BY <2>1, <3>1 DEF Inline
    <3> QED
      BY <2>1, <3>1, <3>8, <3>9 DEF LocalsOk
  <2> QED
    BY <2>2, <2>3
<1>8. \A j \in Jobs : rows[j].state # "absent" => b[j].state # "absent" /\ b[j].over = rows[j].over
  BY <1>1 DEF Rest
<1>9. \A j \in Jobs \ {n} : b[j].state = "running" => rows[j].state = "running"
  BY <1>1 DEF Rest
<1>10. \A j \in Waiting : Waits(b[j])
  BY <1>1, WaitingJobs DEF Rest, WaitOk
<1> QED
  BY <1>1, <1>2, <1>5, <1>7, <1>8, <1>9, <1>10 DEF Rest

-----------------------------------------------------------------------------
(* The end of a turn *)

\* Run s goes on, or returns, over the rows rs.
LEMMA GoesDeep ==
  ASSUME StackInv, DeepInv, StackInv', NEW s \in queue.active, NEW N, NEW rs, Rest(s, N, rs),
         NEW at, NEW m, Goes(s, rs, at, m), RunFine(rs, at, m, s), rs[s].state = "running" => at \in Work,
         \A n \in N : n \in Jobs /\ rows[n].state = "absent" /\ at = "inline" /\ rs[s].rail[m.i].job = n,
         at = "inline" => rs[s].rail[m.i].job \in N,
         \A j \in Jobs : Inline(rows, pc, mem, s, j) => rs[j].state # "running"
  PROVE  DeepInv'
<1> DEFINE b == EnteredAll(rs, {})
<1>1. s \in Jobs /\ queue.active \subseteq Jobs
  BY DEF StackInv, QueueOk, Sound, Queues
<1>2. /\ queue' = queue /\ rows' = b /\ handoffs' = handoffs
      /\ \A j \in Jobs : pc'[j] = (IF j = s THEN at ELSE pc[j]) /\ mem'[j] = (IF j = s THEN m ELSE mem[j])
  <2>1. Turn(rs, queue, {}, [k \in {s} |-> [at |-> at, mem |-> m]]) /\ handoffs' = handoffs
    BY DEF Goes
  <2>3. \A j \in Jobs \ queue.active : pc[j] = "idle" /\ mem[j] = NoLocals
    <3>1. \A j \in Jobs \ queue.active : pc[j] = "idle"
      BY DEF StackInv, RunOk
    <3>2. \A j \in Jobs : pc[j] = "idle" => mem[j] = NoLocals
      BY DEF DeepInv, Deep, RunFine, StackAwaits
    <3> QED
      BY <3>1, <3>2
  <2> QED
    BY <1>1, <2>1, <2>3 DEF Turn
<1> DEFINE same == DOMAIN b = Jobs /\ \A j \in Jobs : b[j] = rs[j]
<1>3. same
  BY DEF EnteredAll
<1> HIDE DEF b
<1>4. Evolves({}, {}, rs, b) /\ RowsOk(b) /\ Unique(b)
  BY <1>3, SameEvolves DEF Rest
<1>5. Rest(s, N, b)
  <2>1. Evolves({}, {s}, rs, b)
    BY <1>4, EvolvesMore
  <2> QED
    BY <1>4, <2>1, RestEvolves
<1>6. RunFine(b, at, m, s)
  <2>1. at \in StackAwaits => IsStack(b[s]) /\ LocalsOk(b, s, m)
    BY <1>1, <1>2 DEF StackInv, RunOk
  <2>2. at \in StackAwaits => IsStack(rs[s]) /\ LocalsOk(rs, s, m)
    BY <1>1, <1>3, <2>1 DEF LocalsOk
  <2> QED
    BY <1>1, <1>4, <2>2, RunKept DEF Rest
<1>7. \A z, j \in Jobs : Inline(b, pc', mem', z, j) <=>
        IF z = s THEN at = "inline" /\ j \in N ELSE Inline(rows, pc, mem, z, j)
  <2>1. ASSUME NEW z \in Jobs \ {s}, NEW j \in Jobs PROVE Inline(b, pc', mem', z, j) <=> Inline(rows, pc, mem, z, j)
    <3>1. Inline(b, pc', mem', z, j) <=> Inline(b, pc, mem, z, j)
      BY <1>2 DEF Inline
    <3> QED
      BY <1>5, <3>1 DEF Rest
  <2>2. ASSUME NEW j \in Jobs PROVE Inline(b, pc', mem', s, j) <=> at = "inline" /\ j \in N
    BY <1>1, <1>2, <1>3 DEF Inline
  <2> QED
    BY <2>1, <2>2
<1>8. \A j \in N : j \notin Entries(queue) /\ (\A t \in Brought(handoffs) : t.job # j)
                   /\ \A z \in Jobs : ~Inline(rows, pc, mem, z, j)
  <2> SUFFICES ASSUME NEW j \in N
               PROVE  j \notin Entries(queue) /\ (\A t \in Brought(handoffs) : t.job # j)
                      /\ \A z \in Jobs : ~Inline(rows, pc, mem, z, j)
    OBVIOUS
  <2>1. j \in Jobs /\ rows[j].state = "absent"
    OBVIOUS
  <2>2. j \notin Waiting
    BY <2>1, WaitingJobs DEF WaitOk
  <2>3. j \notin queue.active
    BY <2>1 DEF StackInv, KnownOk
  <2>4. \A z \in Jobs : ~Inline(rows, pc, mem, z, j)
    BY <2>1, InlineJob, StateNames DEF AtWork
  <2> QED
    BY <2>2, <2>3, <2>4 DEF Waiting, Entries
<1>9. \A z, j \in Jobs : Inline(b, pc', mem', z, j) => j \notin Entries(queue) /\ \A t \in Brought(handoffs) : t.job # j
  BY <1>7, <1>8, InlineJob
<1>10. \A y, z, j \in Jobs : Inline(b, pc', mem', y, j) /\ Inline(b, pc', mem', z, j) => y = z
  BY <1>7, <1>8, InlineJob
<1>11. ASSUME queue.started, NEW j \in Jobs, b[j].state = "running" PROVE Worked(b, pc', mem', j)
  <2>1. CASE j \in N
    BY <1>1, <1>7, <2>1 DEF Worked
  <2>2. CASE j \notin N
    <3>1. Worked(rows, pc, mem, j)
      BY <1>5, <1>11, <2>2 DEF Rest, DeepInv, Deep, InlineOk
    <3>2. CASE pc[j] \in Work
      BY <1>2, <1>3, <1>11, <3>2 DEF Worked
    <3>3. CASE \E z \in Jobs : Inline(rows, pc, mem, z, j)
      BY <1>3, <1>7, <1>11, <3>3 DEF Worked
    <3> QED
      BY <3>1, <3>2, <3>3 DEF Worked
  <2> QED
    BY <2>1, <2>2
<1>12. InlineOk(b, queue, pc', mem', handoffs)
  BY <1>9, <1>10, <1>11 DEF InlineOk
<1>13. \A z \in Jobs : RunFine(b, pc'[z], mem'[z], z)
  BY <1>2, <1>5, <1>6 DEF Rest
<1>14. Deep(b, queue, pc', mem', handoffs)
  BY <1>5, <1>12, <1>13 DEF Deep, Rest, Waiting
<1> QED
  BY <1>2, <1>14 DEF DeepInv

\* What the claims of a turn make of the rows.
LEMMA EnteredRows ==
  ASSUME NEW rs, RowsOk(rs), Typed(rs), Unique(rs), NEW C \in SUBSET Jobs, \A j \in C : Waits(rs[j])
  PROVE  LET b == EnteredAll(rs, C)
         IN  /\ Typed(b) /\ Unique(b)
             /\ \A j \in Jobs \ C : b[j] = rs[j]
             /\ \A j \in Jobs : /\ b[j].over = rs[j].over /\ b[j].head = rs[j].head /\ b[j].key = rs[j].key
                                /\ b[j].state = (IF j \in C /\ rs[j].state = "queued" THEN "running" ELSE rs[j].state)
                                /\ DOMAIN b[j].rail = DOMAIN rs[j].rail
<1> DEFINE b == EnteredAll(rs, C)
<1>1. ASSUME NEW j \in Jobs
      PROVE  /\ b[j].over = rs[j].over /\ b[j].head = rs[j].head /\ b[j].key = rs[j].key
             /\ b[j].state = (IF j \in C /\ rs[j].state = "queued" THEN "running" ELSE rs[j].state)
             /\ DOMAIN b[j].rail = DOMAIN rs[j].rail
             /\ \A i \in DOMAIN rs[j].rail : EntryFine(rs, b[j].rail[i], rs[j].over[i])
             /\ j \notin C => b[j] = rs[j]
  <2>1. RowFine(rs, j) /\ DOMAIN rs[j] = Fields
    BY DEF Typed, RowsOk, RowOk
  <2>2. CASE j \notin C
    <3>1. b[j] = rs[j]
      BY <2>2 DEF EnteredAll
    <3> HIDE DEF b
    <3> QED
      BY <2>1, <2>2, <3>1 DEF RowFine
  <2>3. CASE j \in C /\ rs[j].state = "queued"
    <3>1. b[j] = [rs[j] EXCEPT !.state = "running"]
      BY <2>3, StateNames DEF EnteredAll, SetState, Dead
    <3>2. /\ b[j].over = rs[j].over /\ b[j].head = rs[j].head /\ b[j].key = rs[j].key /\ b[j].rail = rs[j].rail
          /\ b[j].state = "running"
      BY <2>1, <3>1, RowSet DEF Fields
    <3> HIDE DEF b
    <3> QED
      BY <2>1, <2>3, <3>2 DEF RowFine
  <2>4. CASE j \in C /\ rs[j].state # "queued"
    <3> DEFINE c == SkipUnreached(rs, j)
    <3>1. b[j] = c[j]
      BY <2>4, StateNames DEF EnteredAll, Waits, Dead
    <3>2. Evolves({}, {j}, rs, c) /\ KeysSame(rs, c) /\ c[j].state = rs[j].state
          /\ \A i \in Jobs \ {j} : c[i] = rs[i]
      BY SkippedEvolves
    <3> HIDE DEF b, c
    <3>3. \A i \in Jobs : rs[i].over = c[i].over /\ (rs[i].state = "absent" <=> c[i].state = "absent")
      BY <3>2, RowMoves
    <3>4. RowEvolves({}, {j}, rs, c, j) /\ c[j].key = rs[j].key
      BY <3>2 DEF Evolves, KeysSame
    <3>5. \A i \in DOMAIN rs[j].rail : EntryFine(rs, c[j].rail[i], rs[j].over[i])
      BY <3>3, <3>4, EntryFineOn DEF RowEvolves
    <3> QED
      BY <2>4, <3>1, <3>2, <3>4, <3>5 DEF RowEvolves
  <2> QED
    BY <2>2, <2>3, <2>4
<1> HIDE DEF b
<1>2. \A j \in Jobs : b[j].over = rs[j].over /\ (b[j].state = "absent" <=> rs[j].state = "absent")
  BY <1>1
<1>3. ASSUME NEW j \in Jobs PROVE RowFine(b, j)
  <2>1. RowFine(rs, j)
    BY DEF Typed
  <2>2. \A i \in DOMAIN b[j].rail : EntryFine(b, b[j].rail[i], b[j].over[i])
    BY <1>1, <1>2, EntryFineOn
  <2>3. b[j].state \in StackStates /\ (IsStack(b[j]) <=> IsStack(rs[j]))
    BY <1>1, <2>1 DEF RowFine, StackStates, IsStack
  <2>4. /\ b[j].head \in Heads /\ b[j].key \in Nat /\ b[j].over \in Layouts \union {<<p>> : p \in StackPulls}
        /\ IsStack(b[j]) => b[j].key \in {0, j}
    BY <1>1, <2>1, <2>3 DEF RowFine
  <2>5. b[j].state # "absent" => DOMAIN b[j].rail = (IF IsStack(b[j]) THEN 1..Len(b[j].over) ELSE {})
    BY <1>1, <1>2, <2>1, <2>3 DEF RowFine
  <2> QED
    BY <2>2, <2>3, <2>4, <2>5 DEF RowFine
<1>4. Unique(b)
  <2>1. \A i, j \in Jobs : SameRow(b[i], b[j]) => SameRow(rs[i], rs[j])
    <3> SUFFICES ASSUME NEW i \in Jobs, NEW j \in Jobs, SameRow(b[i], b[j]) PROVE SameRow(rs[i], rs[j])
      OBVIOUS
    <3>1. /\ b[i].over = rs[i].over /\ b[i].head = rs[i].head /\ b[i].key = rs[i].key
          /\ b[j].over = rs[j].over /\ b[j].head = rs[j].head /\ b[j].key = rs[j].key
      BY <1>1
    <3> QED
      BY <3>1 DEF SameRow, IsStack
  <2> QED
    BY <1>2, <2>1 DEF Unique
<1> QED
  BY <1>1, <1>3, <1>4 DEF Typed, b

\* A run that the claims leave alone.
LEMMA RunEntered ==
  ASSUME NEW a, NEW b, Typed(a), RowsOk(a), NEW z \in Jobs, b[z] = a[z], NEW x, NEW m, RunFine(a, x, m, z),
         x \in StackAwaits => IsStack(a[z]) /\ LocalsOk(a, z, m),
         \A j \in Jobs : b[j].head = a[j].head /\ (b[j].state = a[j].state \/ (a[j].state = "queued" /\ b[j].state = "running"))
  PROVE  RunFine(b, x, m, z)
<1>1. x \in StackAwaits => m.i \in DOMAIN a[z].rail /\ 1..(m.i - 1) \subseteq DOMAIN a[z].rail
  BY DEF LocalsOk, RowsOk, RowOk
<1>2. x \in {"inline", "wait", "verify", "repin"} => AtEntry(b, x, b[z].rail[m.i])
  <2> SUFFICES ASSUME x \in {"inline", "wait", "verify", "repin"} PROVE AtEntry(b, x, a[z].rail[m.i])
    OBVIOUS
  <2>1. AtEntry(a, x, a[z].rail[m.i])
    BY DEF RunFine
  <2> DEFINE k == a[z].rail[m.i].job
  <2>2. k \in Jobs
    BY <2>1 DEF AtEntry
  <2> HIDE DEF k
  <2>3. b[k].head = a[k].head /\ (b[k].state = a[k].state \/ (a[k].state = "queued" /\ b[k].state = "running"))
    BY <2>2
  <2> QED
    BY <2>1, <2>2, <2>3 DEF AtEntry, AtWork, k
<1>3. ASSUME NEW k \in DOMAIN a[z].rail
      PROVE  /\ Settled(a, m.covered, a[z].rail[k], k) => Settled(b, m.covered, b[z].rail[k], k)
             /\ DeadCover(a, a[z].rail[k]) => DeadCover(b, b[z].rail[k])
  BY StateNames DEF Settled, Reviewed, DeadCover
<1>4. RailFine(a, z) => RailFine(b, z)
  <2>1. (\E k \in DOMAIN a[z].rail : DeadCover(a, a[z].rail[k])) => \E k \in DOMAIN b[z].rail : DeadCover(b, b[z].rail[k])
    BY <1>3
  <2>2. \A i \in DOMAIN a[z].rail : a[z].rail[i].job \in Jobs =>
          /\ Active(a[a[z].rail[i].job]) => Active(b[a[z].rail[i].job])
          /\ Terminal(a[a[z].rail[i].job]) => Terminal(b[a[z].rail[i].job])
    BY StateNames DEF Active, Terminal
  <2> HIDE DEF Active, Terminal, DeadCover
  <2> QED
    BY <2>1, <2>2 DEF RailFine
<1>5. x \in Stage2 => x \in StackAwaits
  BY DEF Stage2, StackAwaits
<1> QED
  BY <1>1, <1>2, <1>3, <1>4, <1>5 DEF RunFine, AtWork

\* A turn that belongs to no run: jobs that waited may be claimed, and a run
\* that returned may give up its slot.
LEMMA CommitDeep ==
  ASSUME StackInv, DeepInv, StackInv', NEW N, NEW rs, Rest(0, N, rs), NEW q, NEW stopped, Commit(rs, q, stopped),
         queue.started, NEW E, Advances(q, E), E \subseteq Waiting,
         \A z \in queue.active \ q.active : pc[z] \notin Work,
         \A n \in N : n \in Jobs /\ rows[n].state = "absent" /\ rs[n].state = "queued",
         HandPins(rs, handoffs'), \A t \in Brought(handoffs') : t.job \in Waiting \union N
  PROVE  DeepInv'
<1> DEFINE C == q.active \ queue.active
           b == EnteredAll(rs, C)
<1>1. /\ queue' = q /\ rows' = b
      /\ \A j \in Jobs : /\ pc'[j] = (IF j \in C THEN EnteredAt(rs[j]) ELSE IF j \notin q.active THEN "idle" ELSE pc[j])
                         /\ mem'[j] = (IF j \in C /\ EnteredAt(rs[j]) = "pin" THEN AtFirst
                                       ELSE IF j \notin q.active \/ j \in C THEN NoLocals ELSE mem[j])
  BY DEF Commit, Turn
<1>2. q.active \subseteq Jobs /\ ToSet(q.pending) \intersect q.active = {}
  BY <1>1 DEF StackInv, QueueOk, Sound, Queues
<1>3. C \subseteq Waiting /\ C \in SUBSET Jobs /\ ToSet(q.pending) \subseteq Waiting
      /\ Entries(q) \subseteq queue.active \union Waiting
  BY <1>2 DEF Entries, Advances, Waiting
<1>4. \A j \in Waiting : Waits(rs[j])
  BY DEF Rest
<1> HIDE DEF C
<1>5. \A j \in C : Waits(rs[j]) /\ pc[j] = "idle"
  BY <1>3, <1>4, WaitingJobs
<1>6. /\ Typed(b) /\ Unique(b)
      /\ \A j \in Jobs \ C : b[j] = rs[j]
      /\ \A j \in Jobs : /\ b[j].over = rs[j].over /\ b[j].head = rs[j].head /\ b[j].key = rs[j].key
                         /\ b[j].state = (IF j \in C /\ rs[j].state = "queued" THEN "running" ELSE rs[j].state)
                         /\ DOMAIN b[j].rail = DOMAIN rs[j].rail
  BY <1>3, <1>5, EnteredRows DEF Rest
<1> HIDE DEF b
<1>7. /\ \A j \in Jobs \ queue.active : pc[j] = "idle"
      /\ \A j \in Jobs : pc[j] \notin StackAwaits => mem[j] = NoLocals
  BY DEF StackInv, RunOk, DeepInv, Deep, RunFine
<1>8. \A z \in Jobs \ C : /\ pc'[z] = pc[z] \/ (pc[z] \notin Work /\ pc'[z] = "idle")
                          /\ mem'[z] = mem[z]
  BY <1>1, <1>7 DEF Work, StackAwaits
<1>9. ASSUME NEW z \in Jobs PROVE RunFine(b, pc'[z], mem'[z], z)
  <2>1. CASE z \in C
    <3>1. pc'[z] = EnteredAt(rs[z]) /\ mem'[z] = (IF EnteredAt(rs[z]) = "pin" THEN AtFirst ELSE NoLocals)
      BY <1>1, <2>1
    <3>2. Waits(rs[z]) /\ b[z].state = (IF rs[z].state = "queued" THEN "running" ELSE rs[z].state)
      BY <1>5, <1>6, <2>1
    <3>3. AtFirst.attempt = 0 /\ 0 \in 0..MemberRetries
      BY StackAssumption DEF AtFirst, NoLocals
    <3>4. CASE rs[z].state = "queued"
      <4>1. EnteredAt(rs[z]) \in {"pin", "review"} /\ AtWork(b[z])
        BY <3>2, <3>4, StateNames DEF EnteredAt, AtWork, Dead
      <4> QED
        BY <3>1, <3>3, <4>1 DEF RunFine, Work, StackAwaits, Stage2, Stage3
    <3>5. CASE rs[z].state # "queued"
      <4>1. EnteredAt(rs[z]) = "returned" /\ b[z].state \in DeadStates
        BY <3>2, <3>5 DEF EnteredAt, Waits, Dead
      <4> QED
        BY <3>1, <4>1, StateNames DEF RunFine, Work, StackAwaits, Stage2, Stage3
    <3> QED
      BY <3>4, <3>5
  <2>2. CASE z \notin C
    <3>1. z \in Jobs \ {0}
      BY NoJobZero
    <3>2. RunFine(rs, pc[z], mem[z], z) /\ (pc[z] \in StackAwaits => IsStack(rs[z]) /\ LocalsOk(rs, z, mem[z]))
      BY <3>1 DEF Rest
    <3>3. RunFine(b, pc[z], mem[z], z)
      BY <1>6, <2>2, <3>2, RunEntered DEF Rest
    <3>4. pc[z] \notin Work /\ pc'[z] = "idle" => RunFine(b, pc'[z], mem[z], z)
      BY <3>3 DEF RunFine, Work, StackAwaits, Stage2, Stage3
    <3> QED
      BY <1>8, <2>2, <3>3, <3>4
  <2> QED
    BY <2>1, <2>2
<1>10. \A z, j \in Jobs : Inline(b, pc', mem', z, j) <=> Inline(rows, pc, mem, z, j)
  <2> SUFFICES ASSUME NEW z \in Jobs, NEW j \in Jobs PROVE Inline(b, pc', mem', z, j) <=> Inline(rows, pc, mem, z, j)
    OBVIOUS
  <2>1. Inline(rs, pc, mem, z, j) <=> Inline(rows, pc, mem, z, j)
    BY NoJobZero DEF Rest
  <2>2. "inline" \in Work
    BY DEF Work, StackAwaits
  <2>3. CASE z \in C
    <3>1. pc[z] # "inline" /\ pc'[z] # "inline"
      BY <1>1, <1>5, <2>3 DEF EnteredAt
    <3> QED
      BY <2>1, <3>1 DEF Inline
  <2>4. CASE z \notin C
    <3>1. b[z] = rs[z] /\ mem'[z] = mem[z] /\ (pc'[z] = "inline" <=> pc[z] = "inline")
      BY <1>6, <1>8, <2>2, <2>4
    <3> QED
      BY <2>1, <3>1 DEF Inline
  <2> QED
    BY <2>3, <2>4
<1>11. \A z, j \in Jobs : Inline(b, pc', mem', z, j) => j \notin Entries(q) /\ \A t \in Brought(handoffs') : t.job # j
  <2> SUFFICES ASSUME NEW z \in Jobs, NEW j \in Jobs, Inline(rows, pc, mem, z, j)
               PROVE  j \notin Entries(q) /\ \A t \in Brought(handoffs') : t.job # j
    BY <1>10
  <2>1. j \notin Entries(queue) /\ (\A t \in Brought(handoffs) : t.job # j) /\ AtWork(rows[j])
    BY InlineJob
  <2>2. j \notin queue.active \union Waiting
    BY <2>1 DEF Entries, Waiting
  <2>3. j \notin N
    BY <2>1, StateNames DEF AtWork
  <2> QED
    BY <1>3, <2>2, <2>3
<1>12. ASSUME NEW j \in Jobs, b[j].state = "running" PROVE Worked(b, pc', mem', j)
  <2>1. CASE j \in C /\ rs[j].state = "queued"
    <3>1. pc'[j] \in {"pin", "review"}
      BY <1>1, <2>1, StateNames DEF EnteredAt, Dead
    <3> QED
      BY <3>1 DEF Worked, Work, StackAwaits
  <2>2. CASE ~(j \in C /\ rs[j].state = "queued")
    <3>1. rs[j].state = "running" /\ j \notin N
      BY <1>6, <1>12, <2>2
    <3>2. j \notin C
      BY <1>5, <3>1, StateNames DEF Waits
    <3>3. Worked(rows, pc, mem, j)
      BY <3>1 DEF Rest, DeepInv, Deep, InlineOk
    <3>4. CASE pc[j] \in Work
      BY <1>8, <3>2, <3>4 DEF Worked
    <3>5. CASE \E z \in Jobs : Inline(rows, pc, mem, z, j)
      BY <1>10, <3>5 DEF Worked
    <3> QED
      BY <3>3, <3>4, <3>5 DEF Worked
  <2> QED
    BY <2>1, <2>2
<1>13. InlineOk(b, q, pc', mem', handoffs')
  <2>1. \A s, z, j \in Jobs : Inline(rows, pc, mem, s, j) /\ Inline(rows, pc, mem, z, j) => s = z
    BY DEF DeepInv, Deep, InlineOk
  <2> QED
    BY <1>10, <1>11, <1>12, <2>1 DEF InlineOk
<1>14. \A j \in ToSet(q.pending) : Waits(b[j])
  <2> SUFFICES ASSUME NEW j \in ToSet(q.pending) PROVE Waits(b[j])
    OBVIOUS
  <2>1. j \notin q.active /\ j \notin C
    BY <1>2 DEF C
  <2>2. j \in Jobs /\ Waits(rs[j])
    BY <1>3, <1>4, WaitingJobs
  <2> QED
    BY <1>6, <2>1, <2>2
<1>15. \A t \in Brought(handoffs') : Waits(b[t.job])
  <2> SUFFICES ASSUME NEW t \in Brought(handoffs') PROVE Waits(b[t.job])
    OBVIOUS
  <2>1. t.job \in Jobs /\ t.job \notin Entries(q)
    BY <1>1 DEF StackInv, HandsOk, WaitOk
  <2>2. t.job \notin C /\ Waits(rs[t.job])
    BY <1>4, <2>1 DEF C, Entries, Waits
  <2> QED
    BY <1>6, <2>1, <2>2
<1>16. HandPins(b, handoffs')
  <2> SUFFICES ASSUME NEW t \in handoffs', ~t.created
               PROVE  /\ t.job \in Jobs /\ IsStack(b[t.job]) /\ Len(t.pins) = Len(b[t.job].over)
                      /\ \A i \in 1..Len(t.pins) : t.pins[i] \in Heads
                      /\ b[t.job].state = "queued" =>
                           \A k \in Jobs \ {t.job} : ~(/\ b[k].state # "absent" /\ b[k].over = b[t.job].over /\ b[k].key = 0
                                                       /\ b[k].head = Top(t.pins))
    BY DEF HandPins
  <2>1. t.job \in Jobs
    BY DEF HandPins
  <2>2. b[t.job].over = rs[t.job].over /\ (b[t.job].state = "queued" => rs[t.job].state = "queued")
    BY <1>6, <2>1
  <2>3. \A k \in Jobs : b[k].over = rs[k].over /\ b[k].key = rs[k].key /\ b[k].head = rs[k].head
                         /\ (b[k].state # "absent" => rs[k].state # "absent")
    BY <1>6
  <2> QED
    BY <2>1, <2>2, <2>3 DEF HandPins, IsStack
<1>17. Deep(b, q, pc', mem', handoffs')
  BY <1>6, <1>9, <1>13, <1>14, <1>15, <1>16 DEF Deep
<1> QED
  BY <1>1, <1>17 DEF DeepInv

-----------------------------------------------------------------------------
(* What a run carries through its turns *)

\* Run s takes a turn over rows rs, which it may write on; its inline job, if
\* it has one, has ended.
OnRun(s, rs) ==
  /\ s \in queue.active /\ pc[s] \in StackAwaits /\ Rest(s, {}, rs) /\ AtWork(rs[s])
  /\ \A j \in Jobs : Inline(rows, pc, mem, s, j) => rs[j].state # "running"

\* A rail that a run may end over in state st.
RailEnds(rs, s, st) ==
  \A i \in DOMAIN rs[s].rail :
    LET e == rs[s].rail[i]
    IN  \/ e.state \in {"done", "failed", "skipped"}
        \/ /\ e.state = "reviewing" /\ e.job \in Jobs
           /\ \/ Active(rs[e.job])
              \/ st = "completed" /\ Terminal(rs[e.job]) /\ \E k \in DOMAIN rs[s].rail : DeadCover(rs, rs[s].rail[k])

LEMMA OnRunFacts ==
  ASSUME StackInv, DeepInv, NEW s, NEW rs, OnRun(s, rs)
  PROVE  /\ s \in Jobs /\ pc[s] # "idle" /\ RowsOk(rs) /\ Typed(rs) /\ Unique(rs) /\ RowOk(rs, s) /\ RowFine(rs, s)
         /\ IsStack(rs[s]) /\ rs[s].over = rows[s].over /\ DOMAIN rs[s].rail = 1..Len(rows[s].over)
         /\ Len(rows[s].over) \in Nat
         /\ mem[s].i \in 1..Len(rows[s].over) /\ rs[s].state # "absent"
         /\ \A i \in DOMAIN rs[s].rail : EntryFine(rs, rs[s].rail[i], rows[s].over[i]) /\ rs[s].rail[i].job # s
<1>1. s \in Jobs /\ queue.active \subseteq Jobs
  BY DEF OnRun, StackInv, QueueOk, Sound, Queues
<1>2. IsStack(rows[s]) /\ rows[s].state # "absent" /\ mem[s].i \in 1..Len(rows[s].over) /\ Len(rows[s].over) \in Nat
  BY <1>1, AtFacts DEF OnRun, LocalsOk
<1>3. RowsOk(rs) /\ Typed(rs) /\ Unique(rs) /\ RowOk(rs, s) /\ RowFine(rs, s)
  BY <1>1 DEF OnRun, Rest, RowsOk, Typed
<1>4. rs[s].over = rows[s].over /\ rs[s].state # "absent"
  BY <1>1, <1>2 DEF OnRun, Rest
<1>5. IsStack(rs[s])
  BY <1>2, <1>4 DEF IsStack
<1>6. ASSUME NEW i \in DOMAIN rs[s].rail PROVE EntryFine(rs, rs[s].rail[i], rows[s].over[i]) /\ rs[s].rail[i].job # s
  <2>1. EntryFine(rs, rs[s].rail[i], rows[s].over[i])
    BY <1>3, <1>4 DEF RowFine
  <2> QED
    BY <1>1, <1>5, <2>1, NoJobZero DEF EntryFine, IsPull
<1>7. pc[s] # "idle"
  BY DEF OnRun, StackAwaits
<1> QED
  BY <1>1, <1>2, <1>3, <1>4, <1>5, <1>6, <1>7 DEF RowOk

\* The turn goes on over what a write leaves.
LEMMA OnRunOn ==
  ASSUME StackInv, DeepInv, NEW s, NEW a, OnRun(s, a), NEW F, F \subseteq Own(s), NEW b,
         Evolves(F, {s}, a, b), RowsOk(b), Unique(b), AtWork(b[s])
  PROVE  OnRun(s, b)
<1>1. s \in Jobs /\ pc[s] # "idle"
  BY OnRunFacts
<1>2. Rest(s, {}, b)
  BY <1>1, RestEvolves DEF OnRun
<1>3. \A j \in Jobs : b[j].state = "running" => a[j].state = "running"
  BY RowMoves
<1> QED
  BY <1>2, <1>3 DEF OnRun

\* The last write of a run.
LEMMA EndDeep ==
  ASSUME StackInv, DeepInv, StackInv', NEW s, NEW rs, OnRun(s, rs), NEW st \in {"completed", "failed", "stale"},
         st = "stale" \/ Dead(rs[s]) \/ RailEnds(rs, s, st), Returns(s, [rs EXCEPT ![s] = SetState(@, st)])
  PROVE  DeepInv'
<1> DEFINE b == [rs EXCEPT ![s] = SetState(rs[s], st)]
<1>1. /\ s \in Jobs /\ pc[s] # "idle" /\ RowsOk(rs) /\ Typed(rs) /\ Unique(rs) /\ IsStack(rs[s]) /\ rs[s].state # "absent"
      /\ \A i \in DOMAIN rs[s].rail : rs[s].rail[i].job # s
  BY OnRunFacts
<1>2. Dead(rs[s]) \/ Moves(rs[s].state, st, s \in {s})
  BY DEF OnRun, AtWork, Dead, Moves
<1>3. /\ Evolves({s}, {s}, rs, b) /\ KeysSame(rs, b) /\ b[s].rail = rs[s].rail
      /\ b[s].state = (IF Dead(rs[s]) THEN rs[s].state ELSE st)
      /\ \A j \in Jobs \ {s} : b[j] = rs[j]
      /\ RowsOk(b)
  BY <1>1, <1>2, StateWritten
<1>4. Goes(s, b, "returned", NoLocals)
  BY DEF Returns
<1> HIDE DEF b
<1>5. Unique(b) /\ Rest(s, {}, b)
  <2>1. Unique(b)
    BY <1>1, <1>3, UniqueKept
  <2>2. {s} \subseteq Own(s)
    BY DEF Own
  <2> QED
    BY <1>1, <1>3, <2>1, <2>2, RestEvolves DEF OnRun
<1>6. b[s].state \in {"completed", "failed"} => RailFine(b, s)
  <2> SUFFICES ASSUME b[s].state \in {"completed", "failed"}, NEW i \in DOMAIN b[s].rail
               PROVE  LET e == b[s].rail[i]
                      IN  \/ e.state \in {"done", "failed", "skipped"}
                          \/ /\ e.state = "reviewing" /\ e.job \in Jobs
                             /\ \/ Active(b[e.job])
                                \/ b[s].state = "completed" /\ Terminal(b[e.job]) /\ \E k \in DOMAIN b[s].rail : DeadCover(b, b[s].rail[k])
    BY DEF RailFine
  <2>1. b[s].state = st /\ RailEnds(rs, s, st)
    BY <1>3, StateNames DEF Dead
  <2>2. \A k \in DOMAIN rs[s].rail : DeadCover(rs, rs[s].rail[k]) => DeadCover(b, b[s].rail[k])
    BY <1>1, <1>3 DEF DeadCover
  <2>3. rs[s].rail[i].job \in Jobs => b[rs[s].rail[i].job] = rs[rs[s].rail[i].job]
    BY <1>1, <1>3
  <2> QED
    BY <1>3, <2>1, <2>2, <2>3 DEF RailEnds
<1>7. RunFine(b, "returned", NoLocals, s)
  BY <1>6 DEF RunFine, Work, StackAwaits, Stage2, Stage3
<1>8. b[s].state # "running"
  BY <1>3, StateNames DEF OnRun, AtWork, Dead
<1>9. \A j \in Jobs : Inline(rows, pc, mem, s, j) => b[j].state # "running"
  BY <1>3, <1>8 DEF OnRun
<1> QED
  BY <1>4, <1>5, <1>7, <1>8, <1>9, GoesDeep DEF OnRun

LEMMA UnwindDeep ==
  ASSUME StackInv, DeepInv, StackInv', NEW s, NEW rs, OnRun(s, rs), Unwinds(s, rs)
  PROVE  DeepInv'
<1> DEFINE left == SkipUnreached(rs, s)
           end  == IF Dead(left[s]) \/ s \in aborted THEN "stale" ELSE "failed"
<1>1. s \in Jobs /\ RowsOk(rs) /\ Typed(rs) /\ Unique(rs)
  BY OnRunFacts
<1>2. /\ Evolves({}, {s}, rs, left) /\ KeysSame(rs, left) /\ left[s].state = rs[s].state /\ RowsOk(left)
      /\ \A i \in DOMAIN left[s].rail :
           LET e == left[s].rail[i]
           IN  e.state \in {"done", "failed", "skipped"}
               \/ (e.state = "reviewing" /\ e.job \in Jobs /\ ~IsStack(left[e.job]) /\ Active(left[e.job]))
  BY <1>1, SkippedEvolves
<1>3. Returns(s, [left EXCEPT ![s] = SetState(@, end)])
  BY DEF Unwinds
<1> HIDE DEF left
<1>4. Unique(left) /\ AtWork(left[s])
  BY <1>1, <1>2, UniqueKept DEF OnRun, AtWork
<1>5. OnRun(s, left)
  <2>1. {} \subseteq Own(s)
    OBVIOUS
  <2> QED
    BY <1>2, <1>4, <2>1, OnRunOn
<1>6. end \in {"completed", "failed", "stale"} /\ RailEnds(left, s, end)
  BY <1>2 DEF RailEnds
<1> HIDE DEF end
<1> QED
  BY <1>3, <1>5, <1>6, EndDeep

\* A run at its member, the members before it behind it.
Past(rs, s, m, n) == m.covered \subseteq 1..n /\ \A k \in 1..n : Settled(rs, m.covered, rs[s].rail[k], k)

At(s, rs, m) ==
  /\ OnRun(s, rs) /\ DOMAIN m = Locals /\ m.i = mem[s].i /\ m.attempt \in 0..MemberRetries
  /\ Past(rs, s, m, m.i - 1)

LEMMA SettledOn ==
  ASSUME NEW F, NEW W, NEW a, NEW b, Evolves(F, W, a, b), NEW C, NEW e, NEW k, Settled(a, C, e, k)
  PROVE  Settled(b, C, e, k)
<1>1. \A j \in Jobs : b[j].head = a[j].head /\ (a[j].state \in {"completed", "stale"} => b[j].state \in {"completed", "stale"})
  BY RowMoves
<1> QED
  BY <1>1 DEF Settled, Reviewed

LEMMA PastOn ==
  ASSUME NEW F, NEW W, NEW a, NEW b, Evolves(F, W, a, b), NEW s, NEW m, NEW n, Past(a, s, m, n),
         \A k \in 1..n : b[s].rail[k] = a[s].rail[k]
  PROVE  Past(b, s, m, n)
<1> SUFFICES ASSUME NEW k \in 1..n PROVE Settled(b, m.covered, b[s].rail[k], k)
  BY DEF Past
<1>1. Settled(a, m.covered, a[s].rail[k], k) /\ b[s].rail[k] = a[s].rail[k]
  BY DEF Past
<1> QED
  BY <1>1, SettledOn

LEMMA AtOn ==
  ASSUME StackInv, DeepInv, NEW s, NEW a, NEW m, At(s, a, m), NEW F, F \subseteq Own(s), NEW b,
         Evolves(F, {s}, a, b), RowsOk(b), Unique(b), AtWork(b[s]), \A k \in 1..(m.i - 1) : b[s].rail[k] = a[s].rail[k]
  PROVE  At(s, b, m)
BY OnRunOn, PastOn DEF At

LEMMA GoOn ==
  ASSUME StackInv, DeepInv, StackInv', NEW s, NEW rs, OnRun(s, rs), NEW at \in StackAwaits \ {"inline"}, NEW m,
         Goes(s, rs, at, m), RunFine(rs, at, m, s)
  PROVE  DeepInv'
<1>1. at \in Work /\ at # "inline"
  BY DEF Work
<1> QED
  BY <1>1, GoesDeep DEF OnRun

\* The entry of the member a run is at is written.
LEMMA MemberWritten ==
  ASSUME StackInv, DeepInv, NEW s, NEW a, OnRun(s, a), NEW e, EntryFine(a, e, Member(s))
  PROVE  LET b == WithEntry(a, s, mem[s].i, e)
         IN  /\ OnRun(s, b) /\ (\A m : At(s, a, m) => At(s, b, m))
             /\ b[s].rail[mem[s].i] = e /\ b[s].state = a[s].state
             /\ (\A j \in Jobs : j # s => b[j] = a[j])
             /\ \A i \in DOMAIN a[s].rail : i # mem[s].i => b[s].rail[i] = a[s].rail[i]
<1> DEFINE k == mem[s].i
           b == WithEntry(a, s, k, e)
<1>1. /\ s \in Jobs /\ RowsOk(a) /\ Typed(a) /\ Unique(a) /\ a[s].over = rows[s].over /\ k \in DOMAIN a[s].rail
      /\ DOMAIN a[s].rail = 1..Len(rows[s].over) /\ k \in Nat
  BY OnRunFacts
<1>2. EntryFine(a, e, a[s].over[k]) /\ s \in {s}
  BY <1>1 DEF Member
<1> HIDE DEF k
<1>3. /\ Writes(s, a, b) /\ KeysSame(a, b) /\ b[s].state = a[s].state
      /\ b[s].rail[k] = e /\ DOMAIN b[s].rail = DOMAIN a[s].rail
      /\ \A i \in DOMAIN a[s].rail : i # k => b[s].rail[i] = a[s].rail[i]
      /\ \A j \in Jobs : j # s => b[j] = a[j]
      /\ RowsOk(b)
  BY ONLY <1>1, <1>2, EntryWritten
<1> HIDE DEF b
<1>7. Evolves({}, {s}, a, b)
  BY <1>3 DEF Writes
<1>4. Unique(b) /\ AtWork(b[s]) /\ {} \subseteq Own(s)
  BY <1>1, <1>3, <1>7, UniqueKept DEF OnRun, AtWork
<1>5. OnRun(s, b)
  BY <1>3, <1>4, <1>7, OnRunOn
<1>6. ASSUME NEW m, At(s, a, m) PROVE At(s, b, m)
  <2>1. m.i = k
    BY <1>6 DEF At, k
  <2>2. \A i \in 1..(m.i - 1) : b[s].rail[i] = a[s].rail[i]
    BY <1>1, <1>3, <2>1
  <2> QED
    BY <1>3, <1>4, <1>6, <1>7, <2>2, AtOn
<1> QED
  BY <1>3, <1>5, <1>6 DEF b, k

LEMMA NextMemberDeep ==
  ASSUME StackInv, DeepInv, StackInv', NEW s, NEW rs, OnRun(s, rs), NEW m, DOMAIN m = Locals, m.i = mem[s].i,
         Past(rs, s, m, m.i), NextMember(s, rs, m)
  PROVE  DeepInv'
<1> DEFINE n1 == [m EXCEPT !.i = @ + 1, !.attempt = 0]
           n2 == [m EXCEPT !.i = 1, !.attempt = 0]
<1>1. /\ n1.i = m.i + 1 /\ n1.attempt = 0 /\ n1.covered = m.covered
      /\ n2.i = 1 /\ n2.attempt = 0 /\ n2.covered = m.covered
  BY DEF Locals
<1>2. \/ ~IsLast(s) /\ Goes(s, rs, "mode", n1)
      \/ Unwinds(s, rs)
      \/ IsLast(s) /\ Goes(s, rs, "check", n2)
  BY DEF NextMember
<1> HIDE DEF n1, n2
<1>3. /\ DOMAIN rs[s].rail = 1..Len(rows[s].over) /\ mem[s].i \in Nat
  BY OnRunFacts
<1>4. 0 \in 0..MemberRetries /\ AtWork(rs[s])
  BY StackAssumption DEF OnRun
<1>5. CASE ~IsLast(s) /\ Goes(s, rs, "mode", n1)
  <2>1. n1.i - 1 = m.i
    BY <1>1, <1>3
  <2>2. RunFine(rs, "mode", n1, s)
    BY <1>1, <1>4, <2>1 DEF RunFine, Past, Work, StackAwaits, Stage2, Stage3
  <2> QED
    BY <1>5, <2>2, GoOn DEF StackAwaits
<1>6. CASE Unwinds(s, rs)
  BY <1>6, UnwindDeep
<1>7. CASE IsLast(s) /\ Goes(s, rs, "check", n2)
  <2>1. DOMAIN rs[s].rail = 1..m.i
    BY <1>3, <1>7 DEF IsLast
  <2>2. RunFine(rs, "check", n2, s)
    BY <1>1, <1>4, <2>1 DEF RunFine, Past, Work, StackAwaits, Stage2, Stage3
  <2> QED
    BY <1>7, <2>2, GoOn DEF StackAwaits
<1> QED
  BY <1>2, <1>5, <1>6, <1>7

\* What a write on the member's entry leaves alone.
Noted(s, a, b) ==
  /\ OnRun(s, b) /\ \A m : At(s, a, m) => At(s, b, m)
  /\ b[s].state = a[s].state /\ \A j \in Jobs : j # s => b[j] = a[j]
  /\ \A i \in DOMAIN a[s].rail : i # mem[s].i => b[s].rail[i] = a[s].rail[i]

\* The job of a member is noted on its entry.
NoteJob(a, s, i, j) == [a EXCEPT ![s].rail[i].job = j]

LEMMA MemberSet ==
  ASSUME StackInv, DeepInv, NEW s, NEW a, OnRun(s, a)
  PROVE  /\ \A x \in RailStates :
              /\ Noted(s, a, PatchedState(a, s, x))
              /\ PatchedState(a, s, x)[s].rail[mem[s].i].state = x
              /\ PatchedState(a, s, x)[s].rail[mem[s].i].job = a[s].rail[mem[s].i].job
              /\ PatchedState(a, s, x)[s].rail[mem[s].i].pin = a[s].rail[mem[s].i].pin
         /\ \A j \in Jobs : IsPull(a, j) /\ a[j].over = <<Member(s)>> =>
              /\ Noted(s, a, NoteJob(a, s, mem[s].i, j))
              /\ NoteJob(a, s, mem[s].i, j)[s].rail[mem[s].i].job = j
              /\ NoteJob(a, s, mem[s].i, j)[s].rail[mem[s].i].state = a[s].rail[mem[s].i].state
              /\ NoteJob(a, s, mem[s].i, j)[s].rail[mem[s].i].pin = a[s].rail[mem[s].i].pin
<1> DEFINE k == mem[s].i
           f == a[s].rail[k]
<1>1. EntryFine(a, f, Member(s))
  BY OnRunFacts DEF Member
<1>2. ASSUME NEW x \in RailStates
      PROVE  /\ Noted(s, a, PatchedState(a, s, x)) /\ PatchedState(a, s, x)[s].rail[k].state = x
             /\ PatchedState(a, s, x)[s].rail[k].job = f.job /\ PatchedState(a, s, x)[s].rail[k].pin = f.pin
  <2> DEFINE e == [f EXCEPT !.state = x]
  <2>1. PatchedState(a, s, x) = WithEntry(a, s, k, e)
    BY DEF PatchedState, WithEntry
  <2>2. EntryFine(a, e, Member(s)) /\ e.state = x /\ e.pin = f.pin /\ e.job = f.job
    BY <1>1, EntrySet
  <2> HIDE DEF e, f
  <2> QED
    BY <2>1, <2>2, MemberWritten DEF Noted
<1>3. ASSUME NEW j \in Jobs, IsPull(a, j), a[j].over = <<Member(s)>>
      PROVE  LET b == NoteJob(a, s, k, j)
             IN  Noted(s, a, b) /\ b[s].rail[k].job = j /\ b[s].rail[k].state = f.state /\ b[s].rail[k].pin = f.pin
  <2> DEFINE e == [f EXCEPT !.job = j]
  <2>1. NoteJob(a, s, k, j) = WithEntry(a, s, k, e)
    BY DEF WithEntry, NoteJob
  <2>2. EntryFine(a, e, Member(s)) /\ e.job = j /\ e.pin = f.pin /\ e.state = f.state
    BY <1>1, <1>3, EntrySet
  <2> HIDE DEF e, f
  <2> QED
    BY <2>1, <2>2, MemberWritten DEF Noted
<1> QED
  BY <1>2, <1>3 DEF k, f

\* The run is done with a member.
LEMMA PastNext ==
  ASSUME NEW rs, NEW s, NEW m, NEW i \in Nat \ {0}, Past(rs, s, m, i - 1),
         rs[s].rail[i].state \in {"failed", "skipped"} \/ (rs[s].rail[i].state = "done" /\ Reviewed(rs, rs[s].rail[i]))
  PROVE  Past(rs, s, m, i)
<1>1. i \notin m.covered /\ m.covered \subseteq 1..i
  BY DEF Past
<1>2. \A k \in 1..i : k = i \/ k \in 1..(i - 1)
  OBVIOUS
<1>3. Settled(rs, m.covered, rs[s].rail[i], i)
  BY <1>1 DEF Settled
<1> QED
  BY <1>1, <1>2, <1>3 DEF Past

LEMMA LeavesDeep ==
  ASSUME StackInv, DeepInv, StackInv', NEW s, NEW rs, NEW m, At(s, rs, m), NEW x \in {"failed", "skipped"},
         NextMember(s, PatchedState(rs, s, x), m)
  PROVE  DeepInv'
<1> DEFINE b == PatchedState(rs, s, x)
<1>1. OnRun(s, rs) /\ x \in RailStates
  BY DEF At, RailStates
<1>2. Noted(s, rs, b) /\ b[s].rail[mem[s].i].state = x
  BY <1>1, MemberSet
<1>3. mem[s].i \in Nat \ {0}
  BY <1>1, OnRunFacts
<1> HIDE DEF b
<1>4. At(s, b, m) /\ OnRun(s, b) /\ m.i = mem[s].i
  BY <1>2 DEF Noted, At
<1>5. Past(b, s, m, m.i)
  BY <1>2, <1>3, <1>4, PastNext DEF At
<1> QED
  BY <1>4, <1>5, NextMemberDeep DEF At, b

LEMMA RetriesDeep ==
  ASSUME StackInv, DeepInv, StackInv', NEW s, NEW rs, NEW m, At(s, rs, m), AtEntry(rs, "repin", rs[s].rail[m.i]),
         Retries(s, rs, m)
  PROVE  DeepInv'
<1> DEFINE n == [m EXCEPT !.attempt = @ + 1]
<1>1. n.i = m.i /\ n.attempt = m.attempt + 1 /\ n.covered = m.covered
  BY DEF At, Locals
<1>2. Unwinds(s, rs) \/ (m.attempt < MemberRetries /\ Goes(s, rs, "repin", n)) \/ NextMember(s, PatchedState(rs, s, "failed"), m)
  BY DEF Retries
<1> HIDE DEF n
<1>3. CASE Unwinds(s, rs)
  BY <1>3, UnwindDeep DEF At
<1>4. CASE m.attempt < MemberRetries /\ Goes(s, rs, "repin", n)
  <2>1. n.attempt \in 0..MemberRetries
    BY <1>1, <1>4, StackAssumption DEF At
  <2>2. RunFine(rs, "repin", n, s)
    BY <1>1, <2>1 DEF At, OnRun, Past, RunFine, Work, StackAwaits, Stage2, Stage3
  <2> QED
    BY <1>4, <2>2, GoOn DEF At, StackAwaits
<1>5. CASE NextMember(s, PatchedState(rs, s, "failed"), m)
  BY <1>5, LeavesDeep
<1> QED
  BY <1>2, <1>3, <1>4, <1>5

LEMMA AwaitedDeep ==
  ASSUME StackInv, DeepInv, StackInv', NEW s, NEW rs, NEW m, At(s, rs, m), NEW j, j = rs[s].rail[m.i].job,
         AtEntry(rs, "repin", rs[s].rail[m.i]), Awaited(s, rs, j, m)
  PROVE  DeepInv'
<1>1. CASE rs[j].state = "completed" /\ Goes(s, rs, "verify", m)
  <2>1. RunFine(rs, "verify", m, s)
    BY <1>1 DEF At, OnRun, Past, RunFine, AtEntry, Work, StackAwaits, Stage2, Stage3
  <2> QED
    BY <1>1, <2>1, GoOn DEF At, StackAwaits
<1>2. CASE NextMember(s, PatchedState(rs, s, "skipped"), m)
  BY <1>2, LeavesDeep
<1>3. CASE Retries(s, rs, m)
  BY <1>3, RetriesDeep
<1> QED
  BY <1>1, <1>2, <1>3 DEF Awaited

LEMMA JoinedDeep ==
  ASSUME StackInv, DeepInv, StackInv', NEW s, NEW rs, NEW m, At(s, rs, m), NEW j \in Jobs, IsPull(rs, j),
         rs[j].over = <<Member(s)>>, rs[j].head = rs[s].rail[m.i].pin, rs[s].rail[m.i].state \in {"reviewing", "skipped"},
         Joined(s, rs, j, m)
  PROVE  DeepInv'
<1> DEFINE b == NoteJob(rs, s, m.i, j)
           n == [m EXCEPT !.covered = @ \union {m.i}]
<1>1. OnRun(s, rs) /\ m.i = mem[s].i
  BY DEF At
<1>2. /\ Noted(s, rs, b) /\ b[s].rail[m.i].job = j /\ b[s].rail[m.i].state \in {"reviewing", "skipped"}
      /\ b[s].rail[m.i].pin = rs[s].rail[m.i].pin
  <2> DEFINE k == mem[s].i
  <2>1. /\ Noted(s, rs, NoteJob(rs, s, k, j)) /\ NoteJob(rs, s, k, j)[s].rail[k].job = j
        /\ NoteJob(rs, s, k, j)[s].rail[k].state = rs[s].rail[k].state
        /\ NoteJob(rs, s, k, j)[s].rail[k].pin = rs[s].rail[k].pin
    BY <1>1, MemberSet
  <2> QED
    BY <1>1, <2>1
<1>3. n.covered = m.covered \union {m.i} /\ n.i = m.i /\ DOMAIN n = Locals
  BY DEF At, Locals
<1>4. \/ rs[j].state = "queued" /\ NextMember(s, b, n)
      \/ Terminal(rs[j]) /\ Awaited(s, b, j, m)
      \/ rs[j].state # "queued" /\ ~Terminal(rs[j]) /\ Goes(s, b, "wait", m)
  BY DEF Joined, NoteJob
<1> HIDE DEF b, n
<1>5. At(s, b, m) /\ OnRun(s, b)
  BY <1>2 DEF Noted
<1>6. j # s /\ b[j] = rs[j] /\ mem[s].i \in Nat \ {0} /\ rs[j].state \in StackStates
  <2>1. j # s /\ mem[s].i \in Nat \ {0} /\ Typed(rs)
    BY <1>1, OnRunFacts DEF IsPull
  <2> QED
    BY <1>2, <2>1 DEF Noted, Typed, RowFine
<1>7. AtEntry(b, "repin", b[s].rail[m.i])
  BY <1>2, <1>6 DEF AtEntry
<1>8. CASE rs[j].state = "queued" /\ NextMember(s, b, n)
  <2>1. Past(b, s, m, m.i - 1)
    BY <1>5 DEF At
  <2>2. \A k \in 1..m.i : k = m.i \/ k \in 1..(m.i - 1)
    BY <1>1, <1>6
  <2>3. n.covered \subseteq 1..m.i
    BY <1>1, <1>3, <1>6, <2>1 DEF Past
  <2>4. Settled(b, n.covered, b[s].rail[m.i], m.i)
    BY <1>2, <1>3, <1>6 DEF Settled
  <2>5. \A k \in 1..(m.i - 1) : Settled(b, n.covered, b[s].rail[k], k)
    <3> SUFFICES ASSUME NEW k \in 1..(m.i - 1) PROVE Settled(b, n.covered, b[s].rail[k], k)
      OBVIOUS
    <3>1. Settled(b, m.covered, b[s].rail[k], k) /\ k # m.i
      BY <1>1, <1>6, <2>1 DEF Past
    <3> QED
      BY <1>3, <3>1 DEF Settled
  <2>6. Past(b, s, n, n.i)
    BY <1>3, <2>2, <2>3, <2>4, <2>5 DEF Past
  <2> QED
    BY <1>1, <1>3, <1>5, <1>8, <2>6, NextMemberDeep
<1>9. CASE Awaited(s, b, j, m)
  BY <1>2, <1>5, <1>7, <1>9, AwaitedDeep
<1>10. CASE rs[j].state # "queued" /\ ~Terminal(rs[j]) /\ Goes(s, b, "wait", m)
  <2>1. rs[j].state = "running"
    BY <1>6, <1>10, StateNames DEF Terminal, IsPull
  <2>2. RunFine(b, "wait", m, s)
    BY <1>2, <1>5, <1>6, <1>7, <2>1 DEF At, OnRun, Past, RunFine, AtEntry, Work, StackAwaits, Stage2, Stage3
  <2> QED
    BY <1>5, <1>10, <2>2, GoOn DEF StackAwaits
<1> QED
  BY <1>4, <1>8, <1>9, <1>10

LEMMA MemberIsPull ==
  ASSUME StackInv, DeepInv, NEW s \in Jobs, pc[s] \in StackAwaits
  PROVE  Member(s) \in StackPulls /\ rows[s].over \in Layouts
<1>1. IsStack(rows[s]) /\ mem[s].i \in 1..Len(rows[s].over)
  BY AtFacts DEF LocalsOk
<1>2. rows[s].over \in Layouts \union {<<p>> : p \in StackPulls}
  BY DEF DeepInv, Deep, Typed, RowFine
<1>4. rows[s].over \in Layouts
  <2> SUFFICES ASSUME rows[s].over \notin Layouts PROVE FALSE
    OBVIOUS
  <2>1. PICK p \in StackPulls : rows[s].over = <<p>>
    BY <1>2
  <2>2. Len(rows[s].over) = 1
    BY <2>1
  <2> QED
    BY <1>1, <2>2 DEF IsStack
<1>5. rows[s].over \in Seq(StackPulls)
  BY <1>4, StackAssumption
<1>6. Member(s) = rows[s].over[mem[s].i] /\ mem[s].i \in DOMAIN rows[s].over
  BY <1>1, <1>5 DEF Member
<1> QED
  BY <1>4, <1>5, <1>6

\* Rows that evolved by nobody's writing.
LEMMA AtKept ==
  ASSUME StackInv, DeepInv, NEW s, NEW a, NEW m, At(s, a, m), NEW b, Evolves({}, {}, a, b), RowsOk(b), Unique(b)
  PROVE  At(s, b, m)
<1>1. OnRun(s, a) /\ s \in Jobs /\ m.i \in Nat /\ DOMAIN a[s].rail = 1..Len(rows[s].over) /\ m.i \in 1..Len(rows[s].over)
      /\ Len(rows[s].over) \in Nat
  <2>1. OnRun(s, a) /\ m.i = mem[s].i
    BY DEF At
  <2> QED
    BY <2>1, OnRunFacts
<1>2. AtWork(b[s])
  BY <1>1, RowMoves DEF OnRun
<1>3. Evolves({}, {s}, a, b)
  <2>1. {} \subseteq {s}
    OBVIOUS
  <2> QED
    BY <2>1, EvolvesMore
<1>4. OnRun(s, b)
  <2>1. {} \subseteq Own(s)
    OBVIOUS
  <2> QED
    BY <1>1, <1>2, <1>3, <2>1, OnRunOn
<1>5. ASSUME NEW k \in 1..(m.i - 1) PROVE Settled(b, m.covered, b[s].rail[k], k)
  <2>1. Settled(a, m.covered, a[s].rail[k], k)
    BY DEF At, Past
  <2>2. k \in DOMAIN a[s].rail
    BY <1>1
  <2>3. s \in Jobs \ {}
    BY <1>1
  <2> QED
    BY <2>1, <2>2, <2>3, SettledKept
<1> QED
  BY <1>4, <1>5 DEF At, Past

\* The sweep of a pull's heads.
LEMMA SweptEvolves ==
  ASSUME NEW a, RowsOk(a), Typed(a), NEW p, NEW h
  PROVE  LET c == SweptPull(a, p, h)
         IN  /\ Evolves({}, {}, a, c) /\ KeysSame(a, c) /\ RowsOk(c)
             /\ \A j \in Jobs : ~Terminal(c[j]) => c[j] = a[j]
             /\ \A s \in Jobs : \A i \in DOMAIN a[s].rail :
                  a[s].rail[i].state = "reviewing" => c[s].rail[i].state \in {"reviewing", "skipped"}
<1> DEFINE S == OtherHeads(a, p, h)
           c == SweptPull(a, p, h)
           mid == [j \in Jobs |-> IF j \in S THEN SetState(a[j], "stale") ELSE a[j]]
<1>1. S \in SUBSET Jobs /\ \A j \in S : a[j].state # "absent" /\ ~Dead(a[j])
  BY DEF OtherHeads, Holders
<1>2. \A j \in S : Dead(a[j]) \/ Moves(a[j].state, "stale", j \in {})
  <2> SUFFICES ASSUME NEW j \in S PROVE Moves(a[j].state, "stale", j \in {})
    OBVIOUS
  <2>1. a[j].state \in StackStates /\ a[j].state # "absent" /\ ~Dead(a[j])
    BY <1>1 DEF Typed, RowFine
  <2> QED
    BY <2>1, StateNames DEF Dead, Moves
<1>3. "stale" \in TerminalStates
  BY StateNames
<1>4. c = Moved(a, S, "stale") /\ c = Resolved(mid, S)
  BY DEF SweptPull, Moved
<1>5. \A j \in S : mid[j].state \in DeadStates
  <2> SUFFICES ASSUME NEW j \in S PROVE mid[j].state \in DeadStates
    OBVIOUS
  <2>1. mid[j] = SetState(a[j], "stale") /\ DOMAIN a[j] = Fields
    BY <1>1 DEF RowsOk, RowOk
  <2> QED
    BY <2>1, StateNames DEF SetState, Dead, Fields
<1>6. \A s \in Jobs : mid[s].rail = a[s].rail
  <2> SUFFICES ASSUME NEW s \in Jobs PROVE mid[s].rail = a[s].rail
    OBVIOUS
  <2>1. DOMAIN a[s] = Fields
    BY DEF RowsOk, RowOk
  <2> QED
    BY <2>1, RowSet DEF SetState
<1> HIDE DEF S, c, mid
<1>7. /\ Evolves({}, {}, a, c) /\ KeysSame(a, c) /\ RowsOk(c)
      /\ \A j \in Jobs : ~Terminal(c[j]) => c[j] = a[j]
  <2>1. MayEnd({}, a, S, "stale")
    BY <1>2 DEF MayEnd
  <2>2. Ending({}, {}, a, S, "stale", c)
    BY <1>1, <1>3, <1>4, <2>1, MovedEvolves
  <2> QED
    BY <2>2 DEF Ending
<1>8. ASSUME NEW s \in Jobs, NEW i \in DOMAIN a[s].rail, a[s].rail[i].state = "reviewing"
      PROVE  c[s].rail[i].state \in {"reviewing", "skipped"}
  <2>1. mid[s].rail = a[s].rail /\ DOMAIN a[s].rail[i] = {"pin", "state", "job"} /\ DOMAIN mid[s] = Fields
    <3>1. DOMAIN a[s].rail[i] = {"pin", "state", "job"} /\ DOMAIN a[s] = Fields
      BY DEF RowsOk, RowOk, EntryOk
    <3>2. DOMAIN mid[s] = Fields
      BY <3>1 DEF mid, SetState
    <3> QED
      BY <1>6, <3>1, <3>2
  <2>2. CASE ~Terminal(mid[s])
    <3>1. c[s] = mid[s]
      BY <1>4, <2>2 DEF Resolved
    <3> QED
      BY <1>8, <2>1, <3>1
  <2>3. CASE Terminal(mid[s])
    <3> DEFINE e == a[s].rail[i]
    <3>1. c[s].rail[i] = IF e.state = "reviewing" /\ e.job \in S THEN [e EXCEPT !.state = Outcome(mid, e.job)] ELSE e
      BY <1>4, <2>1, <2>3 DEF Resolved, Fields
    <3>2. e.job \in S => Outcome(mid, e.job) = "skipped"
      BY <1>5, StateNames DEF Outcome
    <3>3. \A x : [e EXCEPT !.state = x].state = x
      BY <2>1
    <3> HIDE DEF e
    <3> QED
      BY <1>8, <3>1, <3>2, <3>3 DEF e
  <2> QED
    BY <2>2, <2>3
<1> QED
  BY <1>7, <1>8 DEF c

\* A pull row at an identity nobody holds.
LEMMA PullUnique ==
  ASSUME NEW a, Typed(a), RowsOk(a), Unique(a), NEW n \in Jobs, NEW p, NEW h, AtHead(a, p, h) = {},
         NEW r, r.over = <<p>>, r.head = h, r.key = 0, NEW b, Grown(a, b, n, r)
  PROVE  Unique(b)
<1>1. Len(<<p>>) = 1 /\ Top(<<p>>) = p /\ ~IsStack(r)
  BY DEF Top, IsStack
<1>2. ASSUME NEW j \in Jobs \ {n}, a[j].state # "absent" PROVE ~SameRow(r, a[j]) /\ ~SameRow(a[j], r)
  <2> SUFFICES ASSUME ~IsStack(a[j]), Top(a[j].over) = p, a[j].head = h, a[j].key = 0 PROVE FALSE
    BY <1>1 DEF SameRow
  <2>1. a[j].over \in Layouts \union {<<q>> : q \in StackPulls}
    BY DEF Typed, RowFine
  <2>2. a[j].over \notin Layouts
    BY StackAssumption DEF IsStack
  <2>3. PICK q \in StackPulls : a[j].over = <<q>>
    BY <2>1, <2>2
  <2>4. Top(<<q>>) = q
    BY DEF Top
  <2>5. j \in AtHead(a, p, h)
    BY <1>2, <2>3, <2>4 DEF AtHead, Holders
  <2> QED
    BY <2>5
<1> SUFFICES ASSUME NEW i \in Jobs, NEW j \in Jobs, b[i].state # "absent", b[j].state # "absent", i # j
             PROVE  ~SameRow(b[i], b[j])
  BY DEF Unique
<1>6. b[n] = r /\ \A k \in Jobs \ {n} : b[k] = a[k]
  BY DEF Grown
<1>3. CASE i = n
  BY <1>2, <1>3, <1>6
<1>4. CASE j = n
  BY <1>2, <1>4, <1>6
<1>5. CASE i # n /\ j # n
  BY <1>5, <1>6 DEF Unique
<1> QED
  BY <1>3, <1>4, <1>5

\* A new pull row is in no handoff's way.
LEMMA PullPins ==
  ASSUME NEW a, NEW hs, HandPins(a, hs), NEW n \in Jobs, a[n].state = "absent", NEW r, Len(r.over) = 1,
         \A t \in hs : t.job \in Jobs => a[t.job].state # "absent",
         NEW b, Grown(a, b, n, r)
  PROVE  HandPins(b, hs)
<1> SUFFICES ASSUME NEW t \in hs, ~t.created
             PROVE  /\ t.job \in Jobs /\ IsStack(b[t.job]) /\ Len(t.pins) = Len(b[t.job].over)
                    /\ \A i \in 1..Len(t.pins) : t.pins[i] \in Heads
                    /\ b[t.job].state = "queued" =>
                         \A k \in Jobs \ {t.job} : ~(/\ b[k].state # "absent" /\ b[k].over = b[t.job].over /\ b[k].key = 0
                                                     /\ b[k].head = Top(t.pins))
  BY DEF HandPins
<1>1. /\ t.job \in Jobs /\ IsStack(a[t.job]) /\ Len(t.pins) = Len(a[t.job].over)
      /\ \A i \in 1..Len(t.pins) : t.pins[i] \in Heads
      /\ a[t.job].state = "queued" =>
           \A k \in Jobs \ {t.job} : ~(/\ a[k].state # "absent" /\ a[k].over = a[t.job].over /\ a[k].key = 0
                                       /\ a[k].head = Top(t.pins))
  BY DEF HandPins
<1>2. b[t.job] = a[t.job] /\ b[n].over # b[t.job].over
  BY <1>1 DEF IsStack, Grown
<1> QED
  BY <1>1, <1>2 DEF Grown

LEMMA AttemptDeep ==
  ASSUME StackInv, DeepInv, StackInv', NEW s, NEW rs, NEW m, At(s, rs, m), pc[s] # "inline",
         \A n \in Jobs : rows[n].state = "absent" => rs[n].state = "absent", Attempt(s, rs, m)
  PROVE  DeepInv'
<1> DEFINE p     == Member(s)
           h     == rs[s].rail[m.i].pin
           begun == PatchedState(rs, s, "reviewing")
           swept == SweptPull(begun, p, h)
<1>1. OnRun(s, rs) /\ "reviewing" \in RailStates /\ m.i = mem[s].i
  BY DEF At, RailStates
<1>2. /\ Noted(s, rs, begun) /\ begun[s].rail[m.i].state = "reviewing" /\ begun[s].rail[m.i].pin = h
  BY <1>1, MemberSet
<1>3. p \in StackPulls /\ s \in Jobs /\ m.i \in DOMAIN rs[s].rail /\ EntryFine(rs, rs[s].rail[m.i], p)
  BY <1>1, OnRunFacts, MemberIsPull DEF OnRun, Member
<1>4. h \in Heads
  BY <1>3 DEF EntryFine
<1> HIDE DEF begun, p, h
<1>5. At(s, begun, m) /\ OnRun(s, begun)
  BY <1>2 DEF Noted
<1>6. RowsOk(begun) /\ Typed(begun) /\ Unique(begun) /\ m.i \in DOMAIN begun[s].rail
  BY <1>1, <1>5, OnRunFacts
<1>7. /\ Evolves({}, {}, begun, swept) /\ KeysSame(begun, swept) /\ RowsOk(swept)
      /\ swept[s].rail[m.i].state \in {"reviewing", "skipped"}
  BY <1>2, <1>3, <1>6, SweptEvolves
<1> HIDE DEF swept
<1>8. Unique(swept) /\ Typed(swept)
  BY <1>6, <1>7, UniqueKept, TypedKept
<1>9. At(s, swept, m) /\ OnRun(s, swept)
  BY <1>5, <1>7, <1>8, AtKept DEF At
<1>10. swept[s].rail[m.i].pin = h
  <2>1. RowEvolves({}, {}, begun, swept, s)
    BY <1>3, <1>7 DEF Evolves
  <2> QED
    BY <1>2, <1>6, <2>1 DEF RowEvolves, EntryKept
<1>11. CASE \E j \in AtHead(swept, p, h) : Joined(s, swept, j, m)
  <2>1. PICK j \in AtHead(swept, p, h) : Joined(s, swept, j, m)
    BY <1>11
  <2>2. j \in Jobs /\ swept[j].over = <<p>> /\ swept[j].head = h /\ j \in Holders(swept, p)
    BY DEF AtHead, Holders
  <2>3. IsPull(swept, j)
    BY <2>2, HolderIsPull
  <2> QED
    BY <1>7, <1>9, <1>10, <2>1, <2>2, <2>3, JoinedDeep DEF p
<1>12. CASE Unwinds(s, begun)
  BY <1>5, <1>12, UnwindDeep
<1>13. CASE /\ AtHead(swept, p, h) = {}
            /\ \E n \in Jobs :
                 /\ IsNextRow(n)
                 /\ Goes(s, [swept EXCEPT ![n] = [NewRow(<<p>>, head) EXCEPT !.head = h, !.state = "running"],
                                          ![s].rail[m.i].job = n], "inline", m)
  <2> DEFINE r == [NewRow(<<p>>, head) EXCEPT !.head = h, !.state = "running"]
  <2>1. PICK n \in Jobs : /\ IsNextRow(n)
                          /\ Goes(s, [swept EXCEPT ![n] = r, ![s].rail[m.i].job = n], "inline", m)
    BY <1>13
  <2> DEFINE added == [swept EXCEPT ![n] = r]
             noted == NoteJob(added, s, m.i, n)
  <2>2. [swept EXCEPT ![n] = r, ![s].rail[m.i].job = n] = noted
    BY DEF NoteJob
  <2>3. /\ DOMAIN r = Fields /\ r.over = <<p>> /\ r.rail = <<>> /\ r.state = "running" /\ r.head = h /\ r.key = 0
        /\ Len(r.over) = 1 /\ ~IsStack(r)
    <3>1. Len(<<p>>) = 1
      OBVIOUS
    <3>2. NewRow(<<p>>, head) = [state |-> "queued", over |-> <<p>>, head |-> head[Top(<<p>>)], key |-> 0, rail |-> <<>>]
      BY <3>1 DEF NewRow
    <3>3. /\ DOMAIN r = Fields /\ r.over = <<p>> /\ r.rail = <<>> /\ r.state = "running" /\ r.head = h /\ r.key = 0
      BY <3>2 DEF Fields
    <3> HIDE DEF r
    <3> QED
      BY <3>1, <3>3 DEF IsStack
  <2>4. Grown(swept, added, n, r) /\ added[n] = r
    BY <1>7 DEF RowsOk, Grown
  <2> HIDE DEF r
  <2>5. rows[n].state = "absent" /\ swept[n].state = "absent" /\ n # s
    <3>1. rows[n].state = "absent"
      BY <2>1 DEF IsNextRow, Exists
    <3>2. rs[n].state = "absent" /\ n # s
      BY <1>1, <3>1, OnRunFacts
    <3>3. begun[n].state = "absent"
      BY <1>2, <3>2 DEF Noted
    <3> QED
      BY <1>7, <3>1, <3>2, <3>3, RowMoves
  <2>6. Unique(added)
    <3> HIDE DEF added
    <3> QED
      BY <1>7, <1>8, <1>13, <2>3, <2>4, PullUnique
  <2>7. HandPins(added, handoffs)
    <3>1. Rest(s, {}, swept)
      BY <1>9 DEF OnRun
    <3>2. \A t \in handoffs : t.job \in Jobs => swept[t.job].state # "absent"
      BY <3>1 DEF Rest, StackInv, HandsOk
    <3>3. HandPins(swept, handoffs)
      BY <3>1 DEF Rest
    <3> HIDE DEF added
    <3> QED
      BY <2>3, <2>4, <2>5, <3>2, <3>3, PullPins
  <2>8. Rest(s, {n}, added) /\ \A e, x : EntryFine(swept, e, x) => EntryFine(added, e, x) /\ e.job # n
    <3>1. Rest(s, {}, swept)
      BY <1>9 DEF OnRun
    <3>2. r.over \in Layouts \union {<<x>> : x \in StackPulls} /\ DOMAIN r.rail = {}
      BY <1>3, <2>3
    <3>3. NewFine(r)
      BY <1>4, <2>3, <3>2 DEF NewFine
    <3> HIDE DEF added
    <3> QED
      BY <2>4, <2>5, <2>6, <2>7, <3>1, <3>3, RestGrown
  <2> HIDE DEF added
  <2>9. RowsOk(added) /\ Typed(added) /\ added[s] = swept[s] /\ m.i \in DOMAIN added[s].rail
        /\ EntryFine(added, added[s].rail[m.i], p) /\ swept[s].rail[m.i].job # n /\ added[s].over = rows[s].over
    <3>1. added[s] = swept[s]
      BY <1>3, <2>4, <2>5 DEF Grown
    <3>2. m.i \in DOMAIN swept[s].rail /\ EntryFine(swept, swept[s].rail[m.i], p) /\ swept[s].over = rows[s].over
      BY <1>1, <1>9, OnRunFacts DEF p, Member
    <3> QED
      BY <2>8, <3>1, <3>2 DEF Rest
  <2> DEFINE f == added[s].rail[m.i]
             e == [f EXCEPT !.job = n]
  <2>10. noted = WithEntry(added, s, m.i, e)
    BY DEF NoteJob, WithEntry
  <2>11. EntryFine(added, e, p) /\ e.job = n /\ e.pin = h
    <3>1. IsPull(added, n) /\ added[n].over = <<p>>
      BY <2>3, <2>4 DEF IsPull
    <3> HIDE DEF f
    <3>2. EntryFine(added, e, p) /\ e.job = n /\ e.pin = f.pin
      BY <2>9, <3>1, EntrySet DEF f
    <3> QED
      BY <1>10, <2>9, <3>2 DEF f
  <2> HIDE DEF e, f
  <2>12. /\ Writes(s, added, noted) /\ KeysSame(added, noted) /\ noted[s].state = added[s].state /\ noted[s].rail[m.i] = e
         /\ DOMAIN noted[s].rail = DOMAIN added[s].rail
         /\ \A i \in DOMAIN added[s].rail : i # m.i => noted[s].rail[i] = added[s].rail[i]
         /\ \A j \in Jobs : j # s => noted[j] = added[j]
         /\ RowsOk(noted)
    <3>1. EntryFine(added, e, added[s].over[m.i])
      BY <1>1, <2>9, <2>11 DEF p, Member
    <3> HIDE DEF noted
    <3> QED
      BY <1>3, <2>9, <2>10, <3>1, EntryWritten
  <2> HIDE DEF noted
  <2>13. Rest(s, {n}, noted)
    <3>1. Evolves({}, {s}, added, noted)
      BY <2>12 DEF Writes
    <3>2. Unique(noted)
      BY <2>6, <2>12, <3>1, UniqueKept
    <3>3. {} \subseteq Own(s)
      OBVIOUS
    <3> QED
      BY <2>8, <2>12, <3>1, <3>2, <3>3, RestEvolves
  <2>14. RunFine(noted, "inline", m, s)
    <3>1. AtWork(noted[s]) /\ noted[n] = r
      BY <1>9, <2>4, <2>5, <2>9, <2>12 DEF OnRun, AtWork
    <3>2. AtEntry(noted, "inline", noted[s].rail[m.i])
      BY <2>3, <2>11, <2>12, <3>1 DEF AtEntry, AtWork
    <3>3. ASSUME NEW k \in 1..(m.i - 1) PROVE Settled(noted, m.covered, noted[s].rail[k], k)
      <4>1. k \in DOMAIN swept[s].rail /\ k # m.i
        <5>1. DOMAIN swept[s].rail = 1..Len(rows[s].over) /\ m.i \in 1..Len(rows[s].over) /\ Len(rows[s].over) \in Nat
          BY <1>1, <1>9, OnRunFacts
        <5> QED
          BY <5>1
      <4>2. Settled(swept, m.covered, swept[s].rail[k], k)
        BY <1>9 DEF At, Past
      <4>3. noted[s].rail[k] = swept[s].rail[k]
        BY <2>9, <2>12, <4>1
      <4>4. swept[s].rail[k].job # n
        <5>1. EntryFine(swept, swept[s].rail[k], rows[s].over[k])
          BY <1>9, <4>1, OnRunFacts
        <5> QED
          BY <2>8, <5>1
      <4>5. swept[s].rail[k].job # s
        BY <1>9, <4>1, OnRunFacts
      <4>6. swept[s].rail[k].job \in Jobs => noted[swept[s].rail[k].job] = swept[swept[s].rail[k].job]
        BY <2>4, <2>12, <4>4, <4>5 DEF Grown
      <4> QED
        BY <4>2, <4>3, <4>6 DEF Settled, Reviewed
    <3> QED
      BY <1>9, <3>1, <3>2, <3>3 DEF RunFine, At, Past, Work, StackAwaits, Stage2, Stage3
  <2>15. \A j \in Jobs : ~Inline(rows, pc, mem, s, j)
    BY DEF Inline
  <2>16. noted[s].rail[m.i].job = n /\ "inline" \in Work /\ s \in queue.active
    BY <1>9, <2>11, <2>12 DEF Work, StackAwaits, OnRun
  <2>17. Goes(s, noted, "inline", m)
    BY <2>1, <2>2
  <2> QED
    BY <2>5, <2>13, <2>14, <2>15, <2>16, <2>17, GoesDeep
<1> QED
  BY <1>11, <1>12, <1>13 DEF Attempt, begun, swept, p, h

-----------------------------------------------------------------------------
(* The steps of a run, again *)

HeadsOk == head \in [StackPulls -> Heads]

LEMMA RunBegins ==
  ASSUME StackInv, DeepInv, NEW s \in Jobs, pc[s] \in StackAwaits
  PROVE  /\ Rest(s, {}, rows) /\ AtWork(rows[s]) /\ s \in queue.active /\ DOMAIN mem[s] = Locals
         /\ RunFine(rows, pc[s], mem[s], s) /\ mem[s].attempt \in 0..MemberRetries
         /\ pc[s] # "inline" => OnRun(s, rows) /\ (pc[s] \in Stage2 => At(s, rows, mem[s]))
<1>1. Rest(s, {}, rows) /\ s \in queue.active /\ DOMAIN mem[s] = Locals
  BY RestBegins, AtFacts DEF LocalsOk
<1>2. RunFine(rows, pc[s], mem[s], s)
  BY DEF DeepInv, Deep
<1>3. AtWork(rows[s]) /\ mem[s].attempt \in 0..MemberRetries
  BY <1>2 DEF RunFine, Work
<1>4. pc[s] # "inline" => OnRun(s, rows)
  BY <1>1, <1>3 DEF OnRun, Inline
<1>5. pc[s] # "inline" /\ pc[s] \in Stage2 => At(s, rows, mem[s])
  BY <1>1, <1>2, <1>3, <1>4 DEF At, Past, RunFine
<1> QED
  BY <1>1, <1>2, <1>3, <1>4, <1>5

LEMMA ReviewPullDeep ==
  ASSUME StackInv, DeepInv, StackInv', NEW j \in Jobs, ReviewPull(j)
  PROVE  DeepInv'
<1>1. PICK e \in PullEnds(j, j \in aborted) : Returns(j, Moved(rows, {j}, e))
  BY DEF ReviewPull
<1>2. pc[j] = "review" /\ j \in queue.active /\ ~IsStack(rows[j]) /\ rows[j].state # "absent"
  BY DEF ReviewPull, StackAt, StackInv, RunOk, KnownOk
<1> DEFINE rs == Moved(rows, {j}, e)
           S == {j}
           W == {}
<1>3. Rest(j, {}, rows) /\ RowsOk(rows) /\ Typed(rows) /\ Unique(rows) /\ AtWork(rows[j])
  <2>1. RunFine(rows, pc[j], mem[j], j)
    BY DEF DeepInv, Deep
  <2> QED
    BY <1>2, <2>1, RestBegins DEF Rest, RunFine, Work
<1>4. e \in {"stale", "completed", "failed"} /\ e \in TerminalStates
  BY StateNames DEF PullEnds
<1>5. MayEnd(S, rows, S, e)
  BY <1>3, <1>4 DEF MayEnd, AtWork, Dead, Moves
<1>6. S \in SUBSET Jobs /\ j \in S
  OBVIOUS
<1> HIDE DEF S, W
<1>7. Ending(S, W, rows, S, e, Moved(rows, S, e))
  BY <1>3, <1>4, <1>5, <1>6, MovedEvolves
<1>8. Evolves(S, W, rows, rs) /\ KeysSame(rows, rs) /\ RowsOk(rs)
      /\ rs[j].state = (IF ~Dead(rows[j]) THEN e ELSE rows[j].state)
  BY <1>6, <1>7 DEF Ending, S
<1> HIDE DEF rs
<1>9. Evolves(S, {j}, rows, rs)
  BY <1>8, EvolvesMore DEF W
<1>10. Unique(rs)
  BY <1>3, <1>8, UniqueKept
<1>11. Rest(j, {}, rs)
  <2>1. S \subseteq Own(j)
    BY DEF Own, S
  <2>2. pc[j] # "idle"
    BY <1>2
  <2> QED
    BY <1>3, <1>8, <1>9, <1>10, <2>1, <2>2, RestEvolves
<1>12. rs[j].state # "running"
  BY <1>3, <1>4, <1>8, StateNames DEF AtWork, Dead
<1>13. RailFine(rs, j)
  <2>1. RowFine(rows, j)
    BY <1>3 DEF Typed
  <2>2. DOMAIN rows[j].rail = {}
    BY <1>2, <2>1 DEF RowFine
  <2>3. DOMAIN rs[j].rail = {}
    BY <1>8, <2>2 DEF Evolves, RowEvolves
  <2> QED
    BY <2>3 DEF RailFine
<1>14. RunFine(rs, "returned", NoLocals, j)
  BY <1>13 DEF RunFine, Work, StackAwaits, Stage2, Stage3
<1>15. \A k \in Jobs : ~Inline(rows, pc, mem, j, k)
  BY <1>2 DEF Inline
<1>16. Goes(j, rs, "returned", NoLocals)
  BY <1>1 DEF Returns, rs
<1> QED
  BY <1>2, <1>11, <1>12, <1>14, <1>15, <1>16, GoesDeep

LEMMA PinDeep ==
  ASSUME StackInv, DeepInv, StackInv', HeadsOk, NEW s \in Jobs, Pin(s)
  PROVE  DeepInv'
<1> DEFINE e  == [MemberRow(s) EXCEPT !.pin = head[Member(s)]]
           rs == Patched(rows, s, e)
           n  == [mem[s] EXCEPT !.i = @ + 1]
<1>1. pc[s] = "pin" /\ pc[s] \in StackAwaits /\ {"pin", "mode"} \subseteq StackAwaits \ {"inline"}
  BY DEF Pin, StackAt, StackAwaits
<1>2. OnRun(s, rows) /\ mem[s].attempt \in 0..MemberRetries /\ DOMAIN mem[s] = Locals
  BY <1>1, RunBegins
<1>3. EntryFine(rows, MemberRow(s), Member(s))
  BY <1>2, OnRunFacts DEF MemberRow, Member
<1>4. head[Member(s)] \in Heads
  BY <1>1, MemberIsPull DEF HeadsOk
<1>5. EntryFine(rows, e, Member(s))
  BY <1>3, <1>4, EntrySet
<1>6. n.attempt = mem[s].attempt
  BY <1>2 DEF Locals
<1>7. rs = WithEntry(rows, s, mem[s].i, e)
  BY DEF Patched, WithEntry
<1>8. \/ Unwinds(s, rows) \/ Unwinds(s, rs)
      \/ Goes(s, rs, "mode", AtFirst)
      \/ Goes(s, rs, "pin", n)
  BY DEF Pin
<1> HIDE DEF e, rs, n
<1>9. OnRun(s, rs)
  BY <1>2, <1>5, <1>7, MemberWritten
<1>10. CASE Unwinds(s, rows)
  BY <1>2, <1>10, UnwindDeep
<1>11. CASE Unwinds(s, rs)
  BY <1>9, <1>11, UnwindDeep
<1>12. CASE Goes(s, rs, "mode", AtFirst)
  <2>1. AtFirst.i = 1 /\ AtFirst.attempt = 0 /\ AtFirst.covered = {} /\ 0 \in 0..MemberRetries
    BY StackAssumption DEF AtFirst, NoLocals
  <2>2. RunFine(rs, "mode", AtFirst, s)
    BY <1>1, <1>9, <2>1 DEF OnRun, RunFine, Work, StackAwaits, Stage2, Stage3
  <2> QED
    BY <1>1, <1>9, <1>12, <2>2, GoOn
<1>13. CASE Goes(s, rs, "pin", n)
  <2>1. RunFine(rs, "pin", n, s)
    BY <1>1, <1>2, <1>6, <1>9 DEF OnRun, RunFine, Work, StackAwaits, Stage2, Stage3
  <2> QED
    BY <1>1, <1>9, <1>13, <2>1, GoOn
<1> QED
  BY <1>8, <1>10, <1>11, <1>12, <1>13

LEMMA ModeDeep ==
  ASSUME StackInv, DeepInv, StackInv', NEW s \in Jobs, Mode(s)
  PROVE  DeepInv'
<1>1. pc[s] \in StackAwaits /\ pc[s] \in Stage2 /\ pc[s] # "inline"
  BY DEF Mode, StackAt, StackAwaits, Stage2
<1>2. At(s, rows, mem[s]) /\ OnRun(s, rows)
  BY <1>1, RunBegins
<1>3. CASE NextMember(s, PatchedState(rows, s, "skipped"), mem[s])
  BY <1>2, <1>3, LeavesDeep
<1>4. CASE Unwinds(s, rows)
  BY <1>2, <1>4, UnwindDeep
<1>5. CASE Attempt(s, rows, mem[s])
  BY <1>1, <1>2, <1>5, AttemptDeep
<1> QED
  BY <1>3, <1>4, <1>5 DEF Mode

LEMMA PollDeep ==
  ASSUME StackInv, DeepInv, StackInv', NEW s \in Jobs, Poll(s)
  PROVE  DeepInv'
<1>1. pc[s] = "wait" /\ pc[s] \in StackAwaits /\ pc[s] \in Stage2 /\ pc[s] # "inline"
  BY DEF Poll, StackAt, StackAwaits, Stage2
<1>2. At(s, rows, mem[s]) /\ OnRun(s, rows) /\ RunFine(rows, pc[s], mem[s], s)
  BY <1>1, RunBegins
<1>3. AtEntry(rows, "repin", rows[s].rail[mem[s].i])
  BY <1>1, <1>2 DEF RunFine, AtEntry
<1>4. CASE Unwinds(s, rows)
  BY <1>2, <1>4, UnwindDeep
<1>5. CASE Awaited(s, rows, MemberRow(s).job, mem[s])
  BY <1>2, <1>3, <1>5, AwaitedDeep DEF MemberRow
<1> QED
  BY <1>4, <1>5 DEF Poll

LEMMA VerifyDeep ==
  ASSUME StackInv, DeepInv, StackInv', NEW s \in Jobs, Verify(s)
  PROVE  DeepInv'
<1> DEFINE b == PatchedState(rows, s, "done")
           k == mem[s].i
<1>1. pc[s] = "verify" /\ pc[s] \in StackAwaits /\ pc[s] \in Stage2 /\ pc[s] # "inline" /\ "done" \in RailStates
  BY DEF Verify, StackAt, StackAwaits, Stage2, RailStates
<1>2. At(s, rows, mem[s]) /\ OnRun(s, rows) /\ RunFine(rows, pc[s], mem[s], s)
  BY <1>1, RunBegins
<1>3. AtEntry(rows, "verify", rows[s].rail[k])
  BY <1>1, <1>2 DEF RunFine
<1>4. CASE Unwinds(s, rows)
  BY <1>2, <1>4, UnwindDeep
<1>5. CASE Retries(s, rows, mem[s])
  BY <1>2, <1>3, <1>5, RetriesDeep DEF AtEntry
<1>6. CASE NextMember(s, b, mem[s])
  <2>1. /\ Noted(s, rows, b) /\ b[s].rail[k].state = "done"
        /\ b[s].rail[k].job = rows[s].rail[k].job /\ b[s].rail[k].pin = rows[s].rail[k].pin
    BY <1>1, <1>2, MemberSet
  <2>2. k \in Nat \ {0} /\ rows[s].rail[k].job # s
    BY <1>2, OnRunFacts
  <2> HIDE DEF b
  <2>3. At(s, b, mem[s]) /\ OnRun(s, b)
    BY <1>2, <2>1 DEF Noted
  <2>4. Reviewed(b, b[s].rail[k])
    BY <1>3, <2>1, <2>2 DEF AtEntry, Reviewed, Noted
  <2>5. Past(b, s, mem[s], k)
    BY <2>1, <2>2, <2>3, <2>4, PastNext DEF At
  <2> QED
    BY <1>6, <2>3, <2>5, NextMemberDeep DEF At
<1> QED
  BY <1>4, <1>5, <1>6 DEF Verify

LEMMA AsideKeyFine ==
  ASSUME NEW s \in Jobs, NEW a \in 0..MemberRetries
  PROVE  AsideKey(s, a) \in Nat \ {0}
<1>1. Cardinality(Jobs) \in Nat
  BY QueueAssumption, FS_CardinalityType
<1>2. s \in Nat /\ s >= 1
  BY <1>1, StackAssumption
<1>3. MemberRetries + 1 \in Nat /\ MemberRetries + 1 >= 1 /\ a \in Nat
  BY StackAssumption
<1>4. \A x, y \in Nat : x >= 1 /\ y >= 1 => x * y \in Nat /\ x * y >= 1
  OBVIOUS
<1>5. s * (MemberRetries + 1) \in Nat /\ s * (MemberRetries + 1) >= 1
  BY <1>2, <1>3, <1>4
<1> QED
  BY <1>3, <1>5 DEF AsideKey

\* The key of an ended attempt is moved aside.
Aside(a, last, key) == [a EXCEPT ![last].key = key]
Free(a, last, key)  == \A j \in Jobs : a[j].over = a[last].over /\ a[j].head = a[last].head /\ a[j].key = key => j = last
Calm(a, b)          == Evolves({}, {}, a, b) /\ RowsOk(b) /\ Unique(b)

LEMMA KeyAside ==
  ASSUME NEW a, RowsOk(a), Typed(a), Unique(a), NEW last \in Jobs, IsPull(a, last),
         NEW key, key \in Nat, key # 0, Free(a, last, key)
  PROVE  LET b == Aside(a, last, key)
         IN  Calm(a, b) /\ \A j \in Jobs : j # last => b[j] = a[j]
<1> DEFINE r == [a[last] EXCEPT !.key = key]
           b == [a EXCEPT ![last] = r]
<1>1. b = Aside(a, last, key)
  BY DEF Aside
<1>2. /\ r.over = a[last].over /\ r.head = a[last].head /\ r.state = a[last].state /\ r.rail = a[last].rail /\ r.key = key
      /\ DOMAIN r = Fields
  <2>1. DOMAIN a[last] = Fields
    BY DEF RowsOk, RowOk
  <2> QED
    BY <2>1, RowSet
<1>3. b[last] = r /\ DOMAIN b = Jobs /\ \A j \in Jobs : j # last => b[j] = a[j]
  BY DEF RowsOk
<1> HIDE DEF r
<1>4. \A i \in DOMAIN r.rail : EntryFine(a, r.rail[i], a[last].over[i])
  BY <1>2 DEF Typed, RowFine
<1>5. ~IsStack(a[last])
  BY DEF IsPull
<1> DEFINE F == {}
<1>6. Evolves(F, F, a, b)
  <2>1. Moves(a[last].state, r.state, last \in F)
    BY <1>2 DEF Moves
  <2>2. DOMAIN r.rail = DOMAIN a[last].rail
    BY <1>2
  <2> HIDE DEF F
  <2> QED
    BY <1>2, <1>4, <1>5, <2>1, <2>2, RowWritten
<1> HIDE DEF b
<1>7. RowsOk(b)
  <2>1. \A j \in Jobs : DOMAIN b[j] = Fields
    BY <1>2, <1>3 DEF RowsOk, RowOk
  <2> QED
    BY <1>6, <2>1, EvolvesRows
<1>8. ASSUME NEW j \in Jobs, j # last, a[j].state # "absent" PROVE ~SameRow(r, a[j]) /\ ~SameRow(a[j], r)
  <2> SUFFICES ASSUME ~IsStack(a[j]), Top(a[j].over) = Top(a[last].over), a[j].head = a[last].head, a[j].key = key PROVE FALSE
    BY <1>2, <1>5 DEF SameRow, IsStack
  <2>1. ASSUME NEW k \in Jobs, ~IsStack(a[k]) PROVE a[k].over = <<Top(a[k].over)>>
    <3>1. a[k].over \in Layouts \union {<<q>> : q \in StackPulls}
      BY DEF Typed, RowFine
    <3>2. a[k].over \notin Layouts
      BY <2>1, StackAssumption DEF IsStack
    <3>3. PICK q \in StackPulls : a[k].over = <<q>>
      BY <3>1, <3>2
    <3>4. Top(<<q>>) = q
      BY DEF Top
    <3> QED
      BY <3>3, <3>4
  <2>2. a[j].over = a[last].over
    <3>1. a[j].over = <<Top(a[j].over)>> /\ a[last].over = <<Top(a[last].over)>>
      BY <1>5, <2>1
    <3> QED
      BY <3>1
  <2> QED
    BY <1>8, <2>2 DEF Free
<1>9. Unique(b)
  <2> SUFFICES ASSUME NEW i \in Jobs, NEW j \in Jobs, b[i].state # "absent", b[j].state # "absent", i # j
               PROVE  ~SameRow(b[i], b[j])
    BY DEF Unique
  <2>1. CASE i = last
    BY <1>3, <1>8, <2>1
  <2>2. CASE j = last
    BY <1>3, <1>8, <2>2
  <2>3. CASE i # last /\ j # last
    BY <1>3, <2>3 DEF Unique
  <2> QED
    BY <2>1, <2>2, <2>3
<1> QED
  BY <1>1, <1>3, <1>6, <1>7, <1>9 DEF Calm

LEMMA RepinDeep ==
  ASSUME StackInv, DeepInv, StackInv', HeadsOk, NEW s \in Jobs, Repin(s)
  PROVE  DeepInv'
<1> DEFINE e    == [MemberRow(s) EXCEPT !.pin = head[Member(s)]]
           last == MemberRow(s).job
           key  == AsideKey(s, mem[s].attempt)
           rs   == Patched(rows, s, e)
           rk   == Aside(rs, last, key)
           p    == Member(s)
<1>1. pc[s] = "repin" /\ pc[s] \in StackAwaits /\ pc[s] \in Stage2 /\ pc[s] # "inline"
  BY DEF Repin, StackAt, StackAwaits, Stage2
<1>2. At(s, rows, mem[s]) /\ OnRun(s, rows) /\ RunFine(rows, pc[s], mem[s], s) /\ mem[s].attempt \in 0..MemberRetries
  BY <1>1, RunBegins
<1>3. EntryFine(rows, MemberRow(s), p) /\ last # s /\ mem[s].i \in DOMAIN rows[s].rail
  BY <1>2, OnRunFacts DEF MemberRow, Member
<1>4. head[p] \in Heads
  BY <1>1, MemberIsPull DEF HeadsOk
<1>5. EntryFine(rows, e, p)
  BY <1>3, <1>4, EntrySet
<1>6. last \in Jobs /\ IsPull(rows, last) /\ rows[last].over = <<p>>
  <2>1. last \in Jobs
    BY <1>1, <1>2 DEF RunFine, AtEntry, MemberRow
  <2> QED
    BY <1>3, <2>1, NoJobZero DEF EntryFine
<1>7. rs = WithEntry(rows, s, mem[s].i, e)
  BY DEF Patched, WithEntry
<1>8. \/ Unwinds(s, rows) \/ Unwinds(s, rs)
      \/ Attempt(s, rs, mem[s])
      \/ /\ \A j \in Jobs : rows[j].over = <<p>> /\ rows[j].head = rows[last].head /\ rows[j].key = key => j = last
         /\ Attempt(s, rk, mem[s])
  BY DEF Repin, Aside
<1> HIDE DEF e, rs, last, p, key
<1>9. At(s, rs, mem[s]) /\ OnRun(s, rs) /\ rs[s].state = rows[s].state /\ \A j \in Jobs : j # s => rs[j] = rows[j]
  BY <1>2, <1>5, <1>7, MemberWritten DEF p
<1>10. \A n \in Jobs : rows[n].state = "absent" => rs[n].state = "absent"
  BY <1>9
<1>11. CASE Unwinds(s, rows)
  BY <1>2, <1>11, UnwindDeep
<1>12. CASE Unwinds(s, rs)
  BY <1>9, <1>12, UnwindDeep
<1>13. CASE Attempt(s, rs, mem[s])
  BY <1>1, <1>9, <1>10, <1>13, AttemptDeep
<1>14. CASE /\ \A j \in Jobs : rows[j].over = <<p>> /\ rows[j].head = rows[last].head /\ rows[j].key = key => j = last
            /\ Attempt(s, rk, mem[s])
  <2>1. key \in Nat /\ key # 0
    BY <1>2, AsideKeyFine DEF key
  <2>2. RowsOk(rs) /\ Typed(rs) /\ Unique(rs) /\ rs[last] = rows[last] /\ rs[s].over = rows[s].over /\ IsStack(rs[s])
    BY <1>3, <1>6, <1>9, OnRunFacts
  <2>3. IsPull(rs, last) /\ rs[last].over = <<p>>
    BY <1>6, <2>2 DEF IsPull
  <2>4. Free(rs, last, key)
    <3>1. rs[s].over # <<p>>
      BY <2>2, <2>3 DEF IsPull, IsStack
    <3> QED
      BY <1>9, <1>14, <2>2, <2>3, <3>1 DEF Free
  <2>5. Calm(rs, rk) /\ \A j \in Jobs : j # last => rk[j] = rs[j]
    BY <1>6, <2>1, <2>2, <2>3, <2>4, KeyAside
  <2> HIDE DEF rk
  <2>6. At(s, rk, mem[s])
    BY <1>9, <2>5, AtKept DEF Calm
  <2>7. \A n \in Jobs : rows[n].state = "absent" => rk[n].state = "absent"
    BY <1>6, <1>10, <2>5 DEF IsPull
  <2> QED
    BY <1>1, <1>14, <2>6, <2>7, AttemptDeep
<1> QED
  BY <1>8, <1>11, <1>12, <1>13, <1>14

LEMMA InlineEndsDeep ==
  ASSUME StackInv, DeepInv, StackInv', NEW s \in Jobs, InlineEnds(s)
  PROVE  DeepInv'
<1> DEFINE j == MemberRow(s).job
<1>1. pc[s] = "inline" /\ pc[s] \in StackAwaits /\ pc[s] \in Stage2
  BY DEF InlineEnds, StackAt, StackAwaits, Stage2
<1>2. PICK e \in PullEnds(j, s \in aborted) : \E over \in IF TokenCap THEN BOOLEAN ELSE {FALSE} :
        \/ Unwinds(s, Moved(rows, {j}, e))
        \/ Awaited(s, Moved(rows, {j}, e), j, [mem[s] EXCEPT !.overCap = @ \/ over])
  BY DEF InlineEnds
<1> DEFINE rs == Moved(rows, {j}, e)
           S  == {j}
           W  == {}
<1>3. PICK over : \/ Unwinds(s, rs)
                  \/ Awaited(s, rs, j, [mem[s] EXCEPT !.overCap = @ \/ over])
  BY <1>2
<1> DEFINE m == [mem[s] EXCEPT !.overCap = @ \/ over]
<1>4. /\ Rest(s, {}, rows) /\ AtWork(rows[s]) /\ s \in queue.active /\ DOMAIN mem[s] = Locals
      /\ RunFine(rows, pc[s], mem[s], s) /\ mem[s].attempt \in 0..MemberRetries
  BY <1>1, RunBegins
<1>5. DOMAIN m = Locals /\ m.i = mem[s].i /\ m.covered = mem[s].covered /\ m.attempt = mem[s].attempt
  BY <1>4 DEF Locals
<1>6. RowsOk(rows) /\ Typed(rows) /\ Unique(rows) /\ AtEntry(rows, "inline", MemberRow(s))
  BY <1>1, <1>4 DEF Rest, RunFine, MemberRow
<1>7. /\ j \in Jobs /\ Inline(rows, pc, mem, s, j) /\ AtWork(rows[j]) /\ j # s
      /\ \A k \in Jobs : Inline(rows, pc, mem, s, k) => k = j
  <2>1. j \in Jobs /\ Inline(rows, pc, mem, s, j)
    BY <1>1, <1>6 DEF AtEntry, Inline, MemberRow
  <2> QED
    BY <2>1, InlineJob DEF Inline, MemberRow
<1>8. e \in {"stale", "completed", "failed"} /\ e \in TerminalStates
  BY StateNames DEF PullEnds
<1>9. DOMAIN rows[s].rail = 1..Len(rows[s].over) /\ mem[s].i \in 1..Len(rows[s].over) /\ Len(rows[s].over) \in Nat
      /\ IsStack(rows[s]) /\ LocalsOk(rows, s, mem[s])
  BY <1>1, <1>6, AtFacts DEF RowsOk, RowOk, LocalsOk
<1> HIDE DEF j, m
<1>10. MayEnd(S, rows, S, e)
  BY <1>7, <1>8 DEF MayEnd, AtWork, Dead, Moves
<1>11. S \in SUBSET Jobs /\ j \in S /\ S \subseteq Own(s) /\ s \notin S
  BY <1>7 DEF Own
<1> HIDE DEF S, W
<1>12. Ending(S, W, rows, S, e, Moved(rows, S, e))
  BY <1>6, <1>8, <1>10, <1>11, MovedEvolves
<1>13. Evolves(S, W, rows, rs) /\ KeysSame(rows, rs) /\ RowsOk(rs)
       /\ rs[j].state = (IF ~Dead(rows[j]) THEN e ELSE rows[j].state)
  BY <1>7, <1>11, <1>12 DEF Ending, S
<1> HIDE DEF rs
<1>14. Unique(rs) /\ AtWork(rs[s])
  BY <1>4, <1>6, <1>11, <1>13, UniqueKept, RowMoves
<1>15. Rest(s, {}, rs)
  <2>1. Evolves(S, {s}, rows, rs)
    BY <1>13, EvolvesMore DEF W
  <2>2. pc[s] # "idle"
    BY <1>1
  <2> QED
    BY <1>4, <1>11, <1>13, <1>14, <2>1, <2>2, RestEvolves
<1>16. OnRun(s, rs)
  <2>1. rs[j].state # "running"
    BY <1>7, <1>8, <1>13, StateNames DEF AtWork, Dead
  <2> QED
    BY <1>1, <1>4, <1>7, <1>14, <1>15, <2>1 DEF OnRun
<1>17. \A i \in DOMAIN rows[s].rail : EntryKept(rs, rows[s].rail[i], rs[s].rail[i])
  BY <1>13 DEF Evolves, RowEvolves, W
<1>18. At(s, rs, m)
  <2>1. ASSUME NEW k \in 1..(m.i - 1) PROVE Settled(rs, m.covered, rs[s].rail[k], k)
    <3>1. Settled(rows, mem[s].covered, rows[s].rail[k], k)
      BY <1>1, <1>4, <1>5 DEF RunFine
    <3>2. k \in DOMAIN rows[s].rail /\ s \in Jobs \ W
      BY <1>5, <1>9 DEF W
    <3> QED
      BY <1>5, <1>13, <3>1, <3>2, SettledKept
  <2>2. m.covered \subseteq 1..(m.i - 1)
    BY <1>1, <1>4, <1>5 DEF RunFine
  <2> QED
    BY <1>4, <1>5, <1>16, <2>1, <2>2 DEF At, Past
<1>19. AtEntry(rs, "repin", rs[s].rail[m.i]) /\ rs[s].rail[m.i].job = j
  <2>1. rs[s].rail[m.i].job = j /\ rs[s].rail[m.i].pin = MemberRow(s).pin
    BY <1>5, <1>9, <1>17 DEF EntryKept, MemberRow, j
  <2>2. rs[j].head = rows[j].head
    BY <1>7, <1>13, RowMoves
  <2> QED
    BY <1>6, <1>7, <2>1, <2>2 DEF AtEntry, j
<1>20. CASE Unwinds(s, rs)
  BY <1>16, <1>20, UnwindDeep
<1>21. CASE Awaited(s, rs, j, m)
  BY <1>18, <1>19, <1>21, AwaitedDeep
<1> QED
  BY <1>3, <1>20, <1>21 DEF m

\* A rail is written by its own run.
WithRail(a, s, l) == [a EXCEPT ![s] = [a[s] EXCEPT !.rail = l]]

LEMMA RailSet ==
  ASSUME NEW a, RowsOk(a), Typed(a), NEW s \in Jobs, NEW l, DOMAIN l = DOMAIN a[s].rail,
         \A i \in DOMAIN l : EntryFine(a, l[i], a[s].over[i])
  PROVE  LET b == WithRail(a, s, l)
         IN  /\ Writes(s, a, b) /\ KeysSame(a, b) /\ b[s].rail = l /\ b[s].state = a[s].state
             /\ (\A j \in Jobs : j # s => b[j] = a[j]) /\ RowsOk(b)
<1> DEFINE b == [a EXCEPT ![s] = [a[s] EXCEPT !.rail = l]]
<1>1. WithRail(a, s, l) = b
  BY DEF WithRail
<1>2. /\ Evolves({}, {s}, a, b) /\ KeysSame(a, b) /\ b[s].rail = l /\ b[s].state = a[s].state
      /\ \A j \in Jobs \ {s} : b[j] = a[j]
      /\ RowsOk(b) /\ Follows({}, a, b)
  <2>1. s \in {s}
    OBVIOUS
  <2> QED
    BY <2>1, RailWritten
<1> HIDE DEF b
<1> QED
  BY <1>1, <1>2 DEF Writes

\* reconcileCoverage, on a run that is past its members.
LEMMA ReconciledFine ==
  ASSUME StackInv, DeepInv, NEW s \in Jobs, pc[s] \in Stage3, pc[s] # "inline"
  PROVE  LET b == Reconciled(s)
             c == mem[s].covered \ Ended(s)
         IN  /\ OnRun(s, b) /\ c \subseteq DOMAIN b[s].rail
             /\ \A k \in DOMAIN b[s].rail : Settled(b, c, b[s].rail[k], k)
             /\ \A k \in DOMAIN b[s].rail : b[s].rail[k].state = "reviewing" =>
                  b[s].rail[k].job \in Jobs /\ Active(b[b[s].rail[k].job])
             /\ \A k \in Ended(s) : rows[rows[s].rail[k].job].state # "completed" =>
                  k \in DOMAIN b[s].rail /\ DeadCover(b, b[s].rail[k])
<1> DEFINE C == mem[s].covered
           E == Ended(s)
           b == Reconciled(s)
           x(i) == Outcome(rows, rows[s].rail[i].job)
           l == [i \in DOMAIN rows[s].rail |-> IF i \in E THEN [rows[s].rail[i] EXCEPT !.state = x(i)] ELSE rows[s].rail[i]]
<1>1. pc[s] \in StackAwaits
  BY DEF Stage3, StackAwaits
<1>2. /\ OnRun(s, rows) /\ RunFine(rows, pc[s], mem[s], s)
  BY <1>1, RunBegins
<1>3. /\ RowsOk(rows) /\ Typed(rows) /\ Unique(rows) /\ AtWork(rows[s])
      /\ \A i \in DOMAIN rows[s].rail : EntryFine(rows, rows[s].rail[i], rows[s].over[i]) /\ rows[s].rail[i].job # s
  BY <1>2, OnRunFacts DEF OnRun
<1>4. C \subseteq DOMAIN rows[s].rail /\ \A k \in DOMAIN rows[s].rail : Settled(rows, C, rows[s].rail[k], k)
  BY <1>2 DEF RunFine
<1>5. E = {i \in C : Terminal(rows[rows[s].rail[i].job])} /\ E \subseteq C
  BY DEF Ended
<1>6. b = WithRail(rows, s, l)
  BY DEF Reconciled, WithRail
<1>7. ASSUME NEW i \in DOMAIN rows[s].rail
      PROVE  /\ EntryFine(rows, l[i], rows[s].over[i]) /\ l[i].job = rows[s].rail[i].job /\ l[i].pin = rows[s].rail[i].pin
             /\ i \in E => l[i].state = x(i)
             /\ i \notin E => l[i] = rows[s].rail[i]
  <2> DEFINE e == rows[s].rail[i]
             y == x(i)
  <2>1. EntryFine(rows, e, rows[s].over[i])
    BY <1>3
  <2>2. y \in RailStates
    BY DEF Outcome, RailStates
  <2>3. l[i] = IF i \in E THEN [e EXCEPT !.state = y] ELSE e
    OBVIOUS
  <2> HIDE DEF e, y, l, E
  <2>4. EntryFine(rows, [e EXCEPT !.state = y], rows[s].over[i]) /\ [e EXCEPT !.state = y].state = y
        /\ [e EXCEPT !.state = y].pin = e.pin /\ [e EXCEPT !.state = y].job = e.job
    BY <2>1, <2>2, EntrySet
  <2> QED
    BY <2>1, <2>3, <2>4 DEF e, y
<1>8. DOMAIN l = DOMAIN rows[s].rail
  OBVIOUS
<1> HIDE DEF l, C, E
<1>9. /\ Writes(s, rows, b) /\ KeysSame(rows, b) /\ b[s].rail = l /\ b[s].state = rows[s].state
      /\ (\A j \in Jobs : j # s => b[j] = rows[j]) /\ RowsOk(b)
  <2>1. \A i \in DOMAIN l : EntryFine(rows, l[i], rows[s].over[i])
    BY <1>7, <1>8
  <2> HIDE DEF b
  <2> QED
    BY <1>3, <1>6, <1>8, <2>1, RailSet
<1> HIDE DEF b
<1>10. OnRun(s, b)
  <2>1. Unique(b) /\ AtWork(b[s]) /\ {} \subseteq Own(s)
    BY <1>3, <1>9, UniqueKept DEF AtWork, Writes
  <2> QED
    BY <1>2, <1>9, <2>1, OnRunOn DEF Writes
<1>11. ASSUME NEW k \in DOMAIN rows[s].rail
       PROVE  /\ Settled(b, C \ E, b[s].rail[k], k)
              /\ b[s].rail[k].state = "reviewing" => b[s].rail[k].job \in Jobs /\ Active(b[b[s].rail[k].job])
              /\ k \in E /\ rows[rows[s].rail[k].job].state # "completed" => DeadCover(b, b[s].rail[k])
  <2> DEFINE e == rows[s].rail[k]
             f == b[s].rail[k]
  <2>1. f.job = e.job /\ f.pin = e.pin /\ (k \in E => f.state = x(k)) /\ (k \notin E => f = e)
    BY <1>7, <1>9
  <2>2. Settled(rows, C, e, k)
    BY <1>4
  <2>3. e.job \in Jobs => b[e.job] = rows[e.job]
    BY <1>3, <1>9
  <2>4. e.job \in Jobs => rows[e.job].state \in StackStates /\ rows[e.job].state # "absent"
    BY <1>3, NoJobZero DEF Typed, RowFine, EntryFine, IsPull
  <2>5. CASE k \in E
    <3>1. e.job \in Jobs /\ rows[e.job].head = e.pin /\ Terminal(rows[e.job])
      BY <1>5, <2>2, <2>5 DEF Settled
    <3>2. f.state = IF rows[e.job].state = "completed" THEN "done" ELSE "skipped"
      BY <2>1, <2>5 DEF Outcome
    <3>3. f.state = "done" => Reviewed(b, f)
      BY <2>1, <2>3, <3>1, <3>2 DEF Reviewed
    <3>4. rows[e.job].state # "completed" => DeadCover(b, f)
      BY <2>1, <2>3, <3>1, <3>2, StateNames DEF DeadCover, Terminal
    <3> HIDE DEF e, f
    <3> QED
      BY <2>5, <3>2, <3>3, <3>4 DEF Settled, e, f
  <2>6. CASE k \notin E
    <3>1. f = e
      BY <2>1, <2>6
    <3>2. Reviewed(rows, e) => Reviewed(b, e)
      BY <2>3 DEF Reviewed
    <3>3. k \in C => k \in C \ E
      BY <2>6
    <3>4. k \in C \ E => e.job \in Jobs /\ b[e.job].head = e.pin
      BY <2>2, <2>3 DEF Settled
    <3>5. Settled(b, C \ E, e, k)
      BY <2>2, <3>2, <3>3, <3>4 DEF Settled
    <3>6. e.state = "reviewing" => e.job \in Jobs /\ Active(b[e.job])
      <4> SUFFICES ASSUME e.state = "reviewing" PROVE e.job \in Jobs /\ Active(b[e.job])
        OBVIOUS
      <4>1. k \in C /\ e.job \in Jobs
        BY <2>2 DEF Settled
      <4>2. ~Terminal(rows[e.job])
        BY <1>5, <2>6, <4>1
      <4> QED
        BY <2>3, <2>4, <4>1, <4>2, StateNames DEF Terminal, Active
    <3> HIDE DEF e, f
    <3> QED
      BY <2>6, <3>1, <3>5, <3>6 DEF e, f
  <2> QED
    BY <2>5, <2>6
<1>12. C \ E \subseteq DOMAIN b[s].rail /\ DOMAIN b[s].rail = DOMAIN rows[s].rail /\ E \subseteq DOMAIN rows[s].rail
  BY <1>4, <1>5, <1>8, <1>9
<1> QED
  BY <1>10, <1>11, <1>12 DEF b, C, E

\* Phases 3 to 5 go on over rows that hold no member half done.
LEMMA StageOn ==
  ASSUME StackInv, DeepInv, StackInv', NEW s, OnRun(s, rows), RunFine(rows, pc[s], mem[s], s), pc[s] \in Stage3,
         NEW at \in {"check", "diff", "clone", "cumulate", "post"}, NEW m, m.covered = mem[s].covered, m.attempt = mem[s].attempt,
         Goes(s, rows, at, m)
  PROVE  DeepInv'
<1>1. at \in StackAwaits \ {"inline"} /\ at \in Work /\ at \in Stage3
      /\ at \notin Stage2 \union {"inline", "wait", "verify", "repin", "followup"}
      /\ pc[s] \in StackAwaits /\ pc[s] \in Work
  BY DEF StackAwaits, Stage2, Stage3, Work
<1>2. RunFine(rows, at, m, s)
  BY <1>1 DEF RunFine
<1> QED
  BY <1>1, <1>2, GoOn

LEMMA LaterRun ==
  ASSUME StackInv, DeepInv, NEW s \in Jobs, pc[s] \in Stage3
  PROVE  /\ pc[s] # "inline" /\ pc[s] \in StackAwaits /\ OnRun(s, rows) /\ RunFine(rows, pc[s], mem[s], s)
         /\ DOMAIN mem[s] = Locals
<1>1. pc[s] # "inline" /\ pc[s] \in StackAwaits
  BY DEF Stage3, StackAwaits
<1> QED
  BY <1>1, RunBegins

LEMMA CheckDeep ==
  ASSUME StackInv, DeepInv, StackInv', NEW s \in Jobs, Check(s)
  PROVE  DeepInv'
<1>1. pc[s] \in Stage3
  BY DEF Check, StackAt, Stage3
<1>2. OnRun(s, rows) /\ RunFine(rows, pc[s], mem[s], s)
  BY <1>1, LaterRun
<1>3. CASE Unwinds(s, rows)
  BY <1>2, <1>3, UnwindDeep
<1>4. CASE Returns(s, [rows EXCEPT ![s] = SetState(@, "stale")])
  BY <1>2, <1>4, EndDeep
<1>5. CASE Goes(s, rows, "diff", mem[s])
  BY <1>1, <1>2, <1>5, StageOn
<1> QED
  BY <1>3, <1>4, <1>5 DEF Check

\* The run goes on after reconcileCoverage.
LEMMA ReconciledOn ==
  ASSUME StackInv, DeepInv, StackInv', NEW s \in Jobs, pc[s] \in Stage3, NEW at \in {"post", "followup"},
         at = "followup" => \E i \in Ended(s) : rows[rows[s].rail[i].job].state # "completed",
         Goes(s, Reconciled(s), at, [mem[s] EXCEPT !.covered = @ \ Ended(s)])
  PROVE  DeepInv'
<1> DEFINE b == Reconciled(s)
           c == mem[s].covered \ Ended(s)
           m == [mem[s] EXCEPT !.covered = @ \ Ended(s)]
<1>1. /\ pc[s] # "inline" /\ pc[s] \in StackAwaits /\ OnRun(s, rows) /\ RunFine(rows, pc[s], mem[s], s)
      /\ DOMAIN mem[s] = Locals
  BY LaterRun
<1>2. /\ OnRun(s, b) /\ c \subseteq DOMAIN b[s].rail
      /\ \A k \in DOMAIN b[s].rail : Settled(b, c, b[s].rail[k], k)
      /\ \A k \in Ended(s) : rows[rows[s].rail[k].job].state # "completed" =>
           k \in DOMAIN b[s].rail /\ DeadCover(b, b[s].rail[k])
  BY <1>1, ReconciledFine
<1>3. m.covered = c /\ m.attempt = mem[s].attempt
  BY <1>1 DEF Locals
<1>4. Goes(s, b, at, m)
  OBVIOUS
<1> HIDE DEF b, c, m
<1>5. at \in StackAwaits \ {"inline"} /\ at \in Work /\ at \in Stage3
      /\ at \notin Stage2 \union {"inline", "wait", "verify", "repin"}
  BY DEF StackAwaits, Stage2, Stage3, Work
<1>6. RunFine(b, at, m, s)
  <2>1. AtWork(b[s]) /\ m.attempt \in 0..MemberRetries
    BY <1>1, <1>2, <1>3 DEF OnRun, RunFine
  <2>2. at = "followup" => \E k \in DOMAIN b[s].rail : DeadCover(b, b[s].rail[k])
    BY <1>2
  <2> QED
    BY <1>2, <1>3, <1>5, <2>1, <2>2 DEF RunFine
<1> QED
  BY <1>2, <1>4, <1>5, <1>6, GoOn

LEMMA DiffDeep ==
  ASSUME StackInv, DeepInv, StackInv', NEW s \in Jobs, Diff(s)
  PROVE  DeepInv'
<1> DEFINE n == [mem[s] EXCEPT !.i = @ + 1]
<1>1. pc[s] \in Stage3
  BY DEF Diff, StackAt, Stage3
<1>2. OnRun(s, rows) /\ RunFine(rows, pc[s], mem[s], s) /\ DOMAIN mem[s] = Locals
  BY <1>1, LaterRun
<1>3. n.covered = mem[s].covered /\ n.attempt = mem[s].attempt
  BY <1>2 DEF Locals
<1>4. \/ Unwinds(s, rows) \/ Goes(s, rows, "check", n) \/ Goes(s, rows, "clone", mem[s])
      \/ Goes(s, Reconciled(s), "post", [mem[s] EXCEPT !.covered = @ \ Ended(s)])
  BY DEF Diff, Publishes
<1> HIDE DEF n
<1>5. CASE Unwinds(s, rows)
  BY <1>2, <1>5, UnwindDeep
<1>6. CASE Goes(s, rows, "check", n)
  BY <1>1, <1>2, <1>3, <1>6, StageOn
<1>7. CASE Goes(s, rows, "clone", mem[s])
  BY <1>1, <1>2, <1>7, StageOn
<1>8. CASE Goes(s, Reconciled(s), "post", [mem[s] EXCEPT !.covered = @ \ Ended(s)])
  BY <1>1, <1>8, ReconciledOn
<1> QED
  BY <1>4, <1>5, <1>6, <1>7, <1>8

LEMMA CloneDeep ==
  ASSUME StackInv, DeepInv, StackInv', NEW s \in Jobs, Clone(s)
  PROVE  DeepInv'
<1>1. pc[s] \in Stage3
  BY DEF Clone, StackAt, Stage3
<1>2. OnRun(s, rows) /\ RunFine(rows, pc[s], mem[s], s)
  BY <1>1, LaterRun
<1>3. CASE Unwinds(s, rows)
  BY <1>2, <1>3, UnwindDeep
<1>4. CASE Goes(s, rows, "cumulate", mem[s])
  BY <1>1, <1>2, <1>4, StageOn
<1> QED
  BY <1>3, <1>4 DEF Clone

LEMMA CumulateDeep ==
  ASSUME StackInv, DeepInv, StackInv', NEW s \in Jobs, Cumulate(s)
  PROVE  DeepInv'
<1>1. pc[s] \in Stage3
  BY DEF Cumulate, StackAt, Stage3
<1>2. OnRun(s, rows)
  BY <1>1, LaterRun
<1>3. CASE Unwinds(s, rows)
  BY <1>2, <1>3, UnwindDeep
<1>4. CASE Goes(s, Reconciled(s), "post", [mem[s] EXCEPT !.covered = @ \ Ended(s)])
  BY <1>1, <1>4, ReconciledOn
<1> QED
  BY <1>3, <1>4 DEF Cumulate, Publishes

LEMMA PostSummaryDeep ==
  ASSUME StackInv, DeepInv, StackInv', NEW s \in Jobs, PostSummary(s)
  PROVE  DeepInv'
<1> DEFINE b == Reconciled(s)
           c == mem[s].covered \ Ended(s)
<1>1. pc[s] \in Stage3
  BY DEF PostSummary, StackAt, Stage3
<1>2. OnRun(s, rows) /\ pc[s] # "inline"
  BY <1>1, LaterRun
<1>3. CASE Unwinds(s, rows)
  BY <1>2, <1>3, UnwindDeep
<1>4. CASE /\ \E i \in Ended(s) : rows[rows[s].rail[i].job].state # "completed"
           /\ Goes(s, Reconciled(s), "followup", [mem[s] EXCEPT !.covered = @ \ Ended(s)])
  BY <1>1, <1>4, ReconciledOn
<1>5. CASE Completes(s, Reconciled(s))
  <2>1. /\ OnRun(s, b)
        /\ \A k \in DOMAIN b[s].rail : Settled(b, c, b[s].rail[k], k)
        /\ \A k \in DOMAIN b[s].rail : b[s].rail[k].state = "reviewing" => b[s].rail[k].job \in Jobs /\ Active(b[b[s].rail[k].job])
    BY <1>1, <1>2, ReconciledFine
  <2>2. Returns(s, [b EXCEPT ![s] = SetState(@, "completed")])
    BY <1>5 DEF Completes
  <2> HIDE DEF b, c
  <2>3. RailEnds(b, s, "completed")
    BY <2>1 DEF RailEnds, Settled
  <2> QED
    BY <2>1, <2>2, <2>3, EndDeep
<1> QED
  BY <1>3, <1>4, <1>5 DEF PostSummary

LEMMA FollowUpDeep ==
  ASSUME StackInv, DeepInv, StackInv', NEW s \in Jobs, FollowUp(s)
  PROVE  DeepInv'
<1>1. pc[s] \in Stage3 /\ pc[s] = "followup"
  BY DEF FollowUp, StackAt, Stage3
<1>2. OnRun(s, rows) /\ RunFine(rows, pc[s], mem[s], s)
  BY <1>1, LaterRun
<1>3. CASE Unwinds(s, rows)
  BY <1>2, <1>3, UnwindDeep
<1>4. CASE Completes(s, rows)
  <2>1. /\ \A k \in DOMAIN rows[s].rail : Settled(rows, mem[s].covered, rows[s].rail[k], k)
        /\ \E k \in DOMAIN rows[s].rail : DeadCover(rows, rows[s].rail[k])
    BY <1>1, <1>2 DEF RunFine
  <2>2. \A k \in DOMAIN rows[s].rail : rows[s].rail[k].job \in Jobs =>
          Active(rows[rows[s].rail[k].job]) \/ Terminal(rows[rows[s].rail[k].job])
    <3>1. \A k \in DOMAIN rows[s].rail : EntryFine(rows, rows[s].rail[k], rows[s].over[k])
      BY <1>2, OnRunFacts
    <3>2. \A j \in Jobs : rows[j].state # "absent" => Active(rows[j]) \/ Terminal(rows[j])
      <4>1. \A j \in Jobs : rows[j].state \in StackStates
        BY <1>2, OnRunFacts DEF Typed, RowFine
      <4> QED
        BY <4>1, StateNames DEF Active, Terminal
    <3> QED
      BY <3>1, <3>2, NoJobZero DEF EntryFine, IsPull
  <2>3. RailEnds(rows, s, "completed")
    BY <2>1, <2>2 DEF RailEnds, Settled
  <2> QED
    BY <1>2, <1>4, <2>3, EndDeep DEF Completes
<1> QED
  BY <1>3, <1>4 DEF FollowUp

LEMMA StackStepDeep ==
  ASSUME StackInv, DeepInv, StackInv', HeadsOk, NEW j \in Jobs, StackStep(j)
  PROVE  DeepInv'
BY ReviewPullDeep, PinDeep, ModeDeep, RepinDeep, InlineEndsDeep, PollDeep, VerifyDeep, CheckDeep, DiffDeep, CloneDeep,
   CumulateDeep, PostSummaryDeep, FollowUpDeep DEF StackStep

-----------------------------------------------------------------------------
(* The handlers, again *)

\* A turn of a handler, before it writes and after rows evolved.
LEMMA HandlerBegins ==
  ASSUME StackInv, DeepInv
  PROVE  /\ Rest(0, {}, rows) /\ RowsOk(rows) /\ Typed(rows) /\ Unique(rows) /\ HandPins(rows, handoffs)
         /\ OpenOk(rows) /\ QueueOk(queue)
BY RestBegins DEF Rest, DeepInv, Deep, StackInv

LEMMA HandlerOn ==
  ASSUME StackInv, DeepInv, NEW a, Rest(0, {}, a), NEW b, Evolves({}, {}, a, b), RowsOk(b), Unique(b)
  PROVE  Rest(0, {}, b) /\ HandPins(b, handoffs)
<1>1. Evolves({}, {0}, a, b)
  BY EvolvesMore
<1>2. {} \subseteq Own(0)
  OBVIOUS
<1>3. Rest(0, {}, b)
  BY <1>1, <1>2, RestEvolves
<1> QED
  BY <1>3 DEF Rest

\* No turn of a handler takes a slot from a run, but for its release.
LEMMA SlotsStay ==
  ASSUME QueueOk(queue), queue.started, NEW S
  PROVE  /\ AbortedMany(queue, S).active = queue.active
         /\ \A j \in Jobs : queue.active \subseteq AbortedMany(Enqueued(queue, j), S).active
         /\ \A j \in queue.active : queue.active \ {j} \subseteq Finished(queue, j).active
<1>1. Sound(queue) /\ Busy(queue)
  BY DEF QueueOk
<1>2. AbortedMany(queue, S).active = queue.active
  BY <1>1, AbortedManySound
<1>3. ASSUME NEW j \in Jobs PROVE queue.active \subseteq AbortedMany(Enqueued(queue, j), S).active
  <2> DEFINE e == Enqueued(queue, j)
             longer == [queue EXCEPT !.pending = Append(@, j)]
  <2>1. CASE j \in ToSet(queue.pending) \union queue.active
    BY <1>2, <2>1 DEF Enqueued
  <2>2. CASE j \notin ToSet(queue.pending) \union queue.active
    <3>1. e = Pumped(longer)
      BY <2>2 DEF Enqueued
    <3>2. Sound(longer) /\ longer.active = queue.active
      BY <1>1, <2>2, LongerSound, Updated DEF Sound
    <3>3. Sound(e) /\ Busy(e)
      BY <1>1, EnqueuedSound
    <3> HIDE DEF longer
    <3>4. queue.active \subseteq e.active
      BY <3>1, <3>2, PumpedSound
    <3> HIDE DEF e
    <3>5. AbortedMany(e, S).active = e.active
      BY <3>3, AbortedManySound
    <3> QED
      BY <3>4, <3>5 DEF e
  <2> QED
    BY <2>1, <2>2
<1>4. ASSUME NEW j \in queue.active PROVE queue.active \ {j} \subseteq Finished(queue, j).active
  <2> DEFINE less == [queue EXCEPT !.active = @ \ {j}]
  <2>1. Sound(less) /\ Finished(queue, j) = Pumped(less)
    BY <1>1, FinishedSound DEF Finished
  <2>2. less.active = queue.active \ {j}
    BY <1>1, Updated DEF Sound
  <2> HIDE DEF less
  <2> QED
    BY <2>1, <2>2, PumpedSound
<1> QED
  BY <1>2, <1>3, <1>4

LEMMA CancelJobDeep ==
  ASSUME StackInv, DeepInv, StackInv', NEW j \in Jobs, CancelJob(j)
  PROVE  DeepInv'
<1> DEFINE S  == {j}
           F  == {}
           rs == Moved(rows, S, "cancelled")
           q  == AbortedMany(queue, S)
<1>1. Rest(0, F, rows) /\ RowsOk(rows) /\ Typed(rows) /\ Unique(rows) /\ QueueOk(queue) /\ queue.started
  BY HandlerBegins DEF CancelJob, Serving
<1>2. "cancelled" \in TerminalStates /\ S \in SUBSET Jobs
  BY StateNames
<1>3. MayEnd(F, rows, S, "cancelled")
  BY DEF MayEnd, CancelJob, Active, Moves
<1>4. Commit(rs, q, S) /\ handoffs' = handoffs
  BY DEF CancelJob
<1>5. Advances(q, F) /\ q.active = queue.active
  BY <1>1, QueueTurns, SlotsStay
<1>6. F \subseteq Waiting /\ (\A n \in F : n \in Jobs /\ rows[n].state = "absent" /\ rs[n].state = "queued")
      /\ (\A z \in queue.active \ q.active : pc[z] \notin Work)
  BY <1>5
<1>7. \A t \in Brought(handoffs) : t.job \in Waiting \union F
  BY DEF Waiting
<1> HIDE DEF S, F, q
<1>8. Ending(F, F, rows, S, "cancelled", rs)
  BY <1>1, <1>2, <1>3, MovedEvolves
<1> HIDE DEF rs
<1>9. Evolves(F, F, rows, rs) /\ RowsOk(rs) /\ Unique(rs)
  BY <1>1, <1>8, UniqueKept DEF Ending
<1>10. Rest(0, F, rs) /\ HandPins(rs, handoffs')
  BY <1>1, <1>4, <1>9, HandlerOn DEF F
<1> QED
  BY <1>1, <1>4, <1>5, <1>6, <1>7, <1>10, CommitDeep

LEMMA ReleaseSlotDeep ==
  ASSUME StackInv, DeepInv, StackInv', NEW j \in Jobs, ReleaseSlot(j)
  PROVE  DeepInv'
<1> DEFINE q == Finished(queue, j)
           F == {}
<1>1. j \in queue.active /\ queue.started /\ pc[j] = "returned"
  BY DEF ReleaseSlot, StackInv, RunOk, QueueOk, Stopped
<1>2. Rest(0, F, rows) /\ HandPins(rows, handoffs) /\ QueueOk(queue)
  BY HandlerBegins
<1>3. Commit(rows, q, F) /\ handoffs' = handoffs
  BY DEF ReleaseSlot
<1>4. Advances(q, F) /\ queue.active \ {j} \subseteq q.active
  BY <1>1, <1>2, QueueTurns, SlotsStay
<1>5. \A z \in queue.active \ q.active : pc[z] \notin Work
  BY <1>1, <1>4 DEF Work, StackAwaits
<1>6. F \subseteq Waiting /\ (\A n \in F : n \in Jobs /\ rows[n].state = "absent" /\ rows[n].state = "queued")
  OBVIOUS
<1>7. \A t \in Brought(handoffs) : t.job \in Waiting \union F
  BY DEF Waiting
<1> HIDE DEF q, F
<1> QED
  BY <1>1, <1>2, <1>3, <1>4, <1>5, <1>6, <1>7, CommitDeep

\* A delivery adds a row over a pull.
LEMMA PushDeliveryDeep ==
  ASSUME StackInv, DeepInv, StackInv', HeadsOk, NEW p \in StackPulls, PushDelivery(p)
  PROVE  DeepInv'
<1> DEFINE h     == head[p]
           stale == OtherHeads(rows, p, h)
           swept == SweptPull(rows, p, h)
           q     == AbortedMany(queue, stale)
           r     == NewRow(<<p>>, head)
           t(n)  == [job |-> n, stale |-> stale, created |-> TRUE, pins |-> <<>>]
           F     == {}
<1>1. /\ Rest(0, F, rows) /\ RowsOk(rows) /\ Typed(rows) /\ Unique(rows) /\ HandPins(rows, handoffs) /\ QueueOk(queue)
      /\ queue.started
  BY HandlerBegins DEF PushDelivery, Serving
<1>2. Evolves(F, F, rows, swept) /\ KeysSame(rows, swept) /\ RowsOk(swept)
  BY <1>1, SweptEvolves
<1>3. /\ Advances(q, F) /\ q.active = queue.active /\ Advances(queue, F)
  BY <1>1, QueueTurns, SlotsStay
<1>4. \/ Commit(swept, q, stale) /\ handoffs' = handoffs
      \/ AtHead(rows, p, h) = F
         /\ \E n \in Jobs : /\ IsNextRow(n) /\ Commit([swept EXCEPT ![n] = r], queue, F)
                            /\ handoffs' = handoffs \union {t(n)}
  BY DEF PushDelivery
<1>5. F \subseteq Waiting /\ (\A z \in queue.active \ q.active : pc[z] \notin Work)
      /\ \A z \in queue.active \ queue.active : pc[z] \notin Work
  BY <1>3
<1>6. \A n : t(n).job = n /\ t(n).created = TRUE
  OBVIOUS
<1>7. \A u \in Brought(handoffs) : u.job \in Waiting
  BY DEF Waiting
<1>8. h \in Heads
  BY DEF HeadsOk
<1> HIDE DEF swept, q, stale, t, h
<1>9. Unique(swept) /\ Typed(swept)
  BY <1>1, <1>2, UniqueKept, TypedKept
<1>10. Rest(0, F, swept) /\ HandPins(swept, handoffs)
  BY <1>1, <1>2, <1>9, HandlerOn DEF F
<1>11. CASE Commit(swept, q, stale) /\ handoffs' = handoffs
  <2>1. /\ \A n \in F : n \in Jobs /\ rows[n].state = "absent" /\ swept[n].state = "queued"
        /\ \A u \in Brought(handoffs') : u.job \in Waiting \union F
    BY <1>7, <1>11 DEF F
  <2> HIDE DEF F
  <2> QED
    BY <1>1, <1>3, <1>5, <1>10, <1>11, <2>1, CommitDeep
<1>12. CASE AtHead(rows, p, h) = F
            /\ \E n \in Jobs : /\ IsNextRow(n) /\ Commit([swept EXCEPT ![n] = r], queue, F)
                               /\ handoffs' = handoffs \union {t(n)}
  <2>1. PICK n \in Jobs : /\ IsNextRow(n) /\ Commit([swept EXCEPT ![n] = r], queue, F)
                          /\ handoffs' = handoffs \union {t(n)}
    BY <1>12
  <2> DEFINE c == [swept EXCEPT ![n] = r]
             N == {n}
  <2>2. rows[n].state = "absent" /\ swept[n].state = "absent" /\ n # 0
    <3>1. rows[n].state = "absent" /\ n # 0
      BY <2>1, NoJobZero DEF IsNextRow, Exists
    <3> QED
      BY <1>2, <3>1, RowMoves
  <2>3. /\ DOMAIN r = Fields /\ r.over = <<p>> /\ r.rail = <<>> /\ r.state = "queued" /\ r.head = h /\ r.key = 0
        /\ Len(r.over) = 1 /\ ~IsStack(r)
    <3>1. Len(<<p>>) = 1 /\ Top(<<p>>) = p
      BY DEF Top
    <3>2. r = [state |-> "queued", over |-> <<p>>, head |-> head[Top(<<p>>)], key |-> 0, rail |-> <<>>]
      BY <3>1 DEF NewRow
    <3>3. /\ DOMAIN r = Fields /\ r.over = <<p>> /\ r.rail = <<>> /\ r.state = "queued" /\ r.head = h /\ r.key = 0
      BY <3>1, <3>2 DEF Fields, h
    <3> HIDE DEF r
    <3> QED
      BY <3>1, <3>3 DEF IsStack
  <2>4. Grown(swept, c, n, r) /\ c[n] = r
    BY <1>2 DEF RowsOk, Grown
  <2>5. Commit(c, queue, F)
    BY <2>1
  <2> HIDE DEF r, c, F
  <2>6. AtHead(swept, p, h) = {}
    <3>1. \A j \in Jobs : j \in AtHead(swept, p, h) => j \in AtHead(rows, p, h)
      <4>1. \A j \in Jobs : /\ swept[j].over = rows[j].over /\ swept[j].head = rows[j].head /\ swept[j].key = rows[j].key
                            /\ (swept[j].state = "absent" <=> rows[j].state = "absent")
        BY <1>2, RowMoves DEF KeysSame
      <4> QED
        BY <4>1 DEF AtHead, Holders
    <3>2. \A j \in AtHead(swept, p, h) : j \in Jobs
      BY DEF AtHead, Holders
    <3> QED
      BY <1>12, <3>1, <3>2 DEF F
  <2>7. Unique(c)
    BY <1>2, <1>9, <2>3, <2>4, <2>6, PullUnique
  <2>8. HandPins(c, handoffs)
    <3>1. \A u \in handoffs : u.job \in Jobs => swept[u.job].state # "absent"
      BY <1>10 DEF Rest, StackInv, HandsOk
    <3> QED
      BY <1>10, <2>2, <2>3, <2>4, <3>1, PullPins
  <2>9. NewFine(r)
    BY <1>8, <2>3 DEF NewFine
  <2>10. Rest(0, N, c)
    <3>1. Rest(0, {}, swept)
      BY <1>10 DEF F
    <3> QED
      BY <2>2, <2>4, <2>7, <2>8, <2>9, <3>1, RestGrown
  <2>11. HandPins(c, handoffs')
    <3>1. \A u \in handoffs' : ~u.created => u \in handoffs
      BY <1>6, <2>1
    <3> QED
      BY <2>8, <3>1 DEF HandPins
  <2>12. \A u \in Brought(handoffs') : u.job \in Waiting \union N
    BY <1>6, <1>7, <2>1 DEF Brought
  <2>13. \A k \in N : k \in Jobs /\ rows[k].state = "absent" /\ c[k].state = "queued"
    BY <2>2, <2>3, <2>4
  <2> HIDE DEF N
  <2> QED
    BY <1>1, <1>3, <1>5, <2>5, <2>10, <2>11, <2>12, <2>13, CommitDeep
<1> QED
  BY <1>4, <1>11, <1>12

\* A queued stack row is pinned again, at heads no other row of its layout has.
LEMMA RepinnedRest ==
  ASSUME StackInv, DeepInv, NEW t \in handoffs, ~t.created
  PROVE  LET b == [rows EXCEPT ![t.job] = Repinned(@, t.pins)]
         IN  Rest(0, {}, b) /\ HandPins(b, handoffs)
<1> DEFINE j    == t.job
           a    == rows
           r    == Repinned(rows[j], t.pins)
           rail == [i \in DOMAIN rows[j].rail |-> [pin |-> t.pins[i], state |-> "queued", job |-> 0]]
           b    == [rows EXCEPT ![j] = r]
           top  == Top(t.pins)
<1>1. /\ Rest(0, {}, rows) /\ RowsOk(rows) /\ Typed(rows) /\ Unique(rows) /\ HandPins(rows, handoffs) /\ OpenOk(rows)
  BY HandlerBegins
<1>2. /\ j \in Jobs /\ IsStack(rows[j]) /\ Len(t.pins) = Len(rows[j].over)
      /\ \A i \in 1..Len(t.pins) : t.pins[i] \in Heads
      /\ rows[j].state = "queued" =>
           \A k \in Jobs \ {j} : ~(rows[k].state # "absent" /\ rows[k].over = rows[j].over /\ rows[k].key = 0 /\ rows[k].head = top)
  BY <1>1 DEF HandPins
<1>3. CASE rows[j].state # "queued"
  <2>1. DOMAIN b = Jobs /\ \A k \in Jobs : b[k] = rows[k]
    BY <1>1, <1>3 DEF Repinned, RowsOk
  <2> HIDE DEF b
  <2>2. Evolves({}, {}, rows, b) /\ RowsOk(b) /\ Unique(b)
    BY <1>1, <2>1, SameEvolves
  <2>3. Rest(0, {}, b) /\ HandPins(b, handoffs)
    BY <1>1, <2>2, HandlerOn
  <2> QED
    BY <2>3 DEF b, r, j
<1>4. CASE rows[j].state = "queued"
  <2>1. RowFine(rows, j) /\ RowOk(rows, j)
    BY <1>1, <1>2 DEF Typed, RowsOk
  <2>2. r = [rows[j] EXCEPT !.head = t.pins[Len(t.pins)], !.rail = rail]
    BY <1>4 DEF Repinned
  <2>3. DOMAIN rail = 1..Len(rows[j].over) /\ Len(rows[j].over) \in Nat /\ Len(rows[j].over) > 1
        /\ \A i \in DOMAIN rail : DOMAIN rail[i] = {"pin", "state", "job"} /\ rail[i].pin \in Heads
                                  /\ rail[i].state = "queued" /\ rail[i].job = 0
    <3>1. DOMAIN rows[j].rail = 1..Len(rows[j].over) /\ Len(rows[j].over) \in Nat /\ Len(rows[j].over) > 1
      BY <1>2, <2>1 DEF RowOk, IsStack
    <3> QED
      BY <1>2, <3>1
  <2> HIDE DEF rail
  <2>4. /\ DOMAIN r = Fields /\ r.state = "queued" /\ r.over = rows[j].over /\ r.key = rows[j].key
        /\ r.head = top /\ r.rail = rail
    <3>1. DOMAIN rows[j] = Fields
      BY <2>1 DEF RowOk
    <3> QED
      BY <1>4, <2>2, <3>1 DEF Fields, Top
  <2>5. top \in Heads
    <3>1. Len(t.pins) \in 1..Len(t.pins)
      BY <1>2, <2>3
    <3> QED
      BY <1>2, <3>1 DEF Top
  <2>6. DOMAIN b = Jobs /\ b[j] = r /\ \A k \in Jobs : k # j => b[k] = rows[k]
    BY <1>1, <1>2 DEF RowsOk
  <2> HIDE DEF r, b, j
  <2>7. \A k \in Jobs : /\ b[k].over = rows[k].over /\ b[k].state = rows[k].state /\ b[k].key = rows[k].key
    BY <1>4, <2>4, <2>6
  <2>8. ASSUME NEW k \in Jobs PROVE RowFine(b, k) /\ RowOk(b, k)
    <3>1. \A e, p : EntryFine(rows, e, p) => EntryFine(b, e, p)
      BY <2>7, EntryFineOn
    <3>2. \A e : EntryOk(rows, e) => EntryOk(b, e)
      BY <2>7 DEF EntryOk, IsPull, IsStack
    <3>3. CASE k = j
      <4>1. \A i \in DOMAIN b[k].rail : EntryFine(b, b[k].rail[i], b[k].over[i])
        BY <2>3, <2>4, <2>6, <3>3 DEF EntryFine, RailStates
      <4>2. \A i \in DOMAIN b[k].rail : EntryOk(b, b[k].rail[i])
        BY <4>1 DEF EntryFine, EntryOk
      <4>3. RowFine(b, k)
        BY <1>2, <2>1, <2>3, <2>4, <2>5, <2>6, <3>3, <4>1 DEF RowFine, IsStack, StackStates
      <4> QED
        BY <2>3, <2>4, <2>6, <3>3, <4>2, <4>3 DEF RowOk
    <3>4. CASE k # j
      <4>1. RowFine(rows, k) /\ RowOk(rows, k) /\ b[k] = rows[k]
        BY <1>1, <2>6, <3>4 DEF Typed, RowsOk
      <4> QED
        BY <3>1, <3>2, <4>1 DEF RowFine, RowOk
    <3> QED
      BY <3>3, <3>4
  <2>9. RowsOk(b) /\ Typed(b)
    BY <2>6, <2>8 DEF RowsOk, Typed
  <2>10. rows[j].key = 0 /\ \A i \in Jobs : IsStack(rows[i]) /\ rows[i].state = "queued" => i = j
    BY <1>1, <1>2, <1>4 DEF OpenOk, Running, Active, j
  <2>11. ASSUME NEW k \in Jobs, k # j, rows[k].state # "absent" PROVE ~SameRow(r, rows[k]) /\ ~SameRow(rows[k], r)
    BY <1>2, <1>4, <2>4, <2>10, <2>11 DEF SameRow, IsStack, j
  <2>12. Unique(b)
    <3> SUFFICES ASSUME NEW i \in Jobs, NEW k \in Jobs, b[i].state # "absent", b[k].state # "absent", i # k
                 PROVE  ~SameRow(b[i], b[k])
      BY DEF Unique
    <3>1. CASE i = j
      BY <2>6, <2>11, <3>1
    <3>2. CASE k = j
      BY <2>6, <2>11, <3>2
    <3>3. CASE i # j /\ k # j
      BY <1>1, <2>6, <3>3 DEF Unique
    <3> QED
      BY <3>1, <3>2, <3>3
  <2>13. HandPins(b, handoffs)
    <3> SUFFICES ASSUME NEW u \in handoffs, ~u.created
                 PROVE  /\ u.job \in Jobs /\ IsStack(b[u.job]) /\ Len(u.pins) = Len(b[u.job].over)
                        /\ \A i \in 1..Len(u.pins) : u.pins[i] \in Heads
                        /\ b[u.job].state = "queued" =>
                             \A k \in Jobs \ {u.job} : ~(/\ b[k].state # "absent" /\ b[k].over = b[u.job].over /\ b[k].key = 0
                                                         /\ b[k].head = Top(u.pins))
      BY DEF HandPins
    <3>1. /\ u.job \in Jobs /\ IsStack(rows[u.job]) /\ Len(u.pins) = Len(rows[u.job].over)
          /\ \A i \in 1..Len(u.pins) : u.pins[i] \in Heads
          /\ rows[u.job].state = "queued" =>
               \A k \in Jobs \ {u.job} : ~(/\ rows[k].state # "absent" /\ rows[k].over = rows[u.job].over /\ rows[k].key = 0
                                           /\ rows[k].head = Top(u.pins))
      BY <1>1 DEF HandPins
    <3>2. b[u.job].state = "queued" => u.job = j
      BY <2>7, <2>10, <3>1
    <3> QED
      BY <2>6, <2>7, <3>1, <3>2 DEF IsStack
  <2>14. \A z \in Jobs : \A i \in DOMAIN rows[z].rail : rows[z].rail[i].job \in Jobs => rows[z].rail[i].job # j
    BY <1>1, <1>2, NoJobZero DEF Typed, RowFine, EntryFine, IsPull, j
  <2>15. ASSUME NEW z \in Jobs \ {0}
         PROVE  /\ RunFine(b, pc[z], mem[z], z)
                /\ pc[z] \in StackAwaits => IsStack(b[z]) /\ LocalsOk(b, z, mem[z])
                /\ \A k \in Jobs : Inline(b, pc, mem, z, k) <=> Inline(rows, pc, mem, z, k)
    <3>1. /\ RunFine(rows, pc[z], mem[z], z) /\ RowOk(rows, z)
          /\ pc[z] \in StackAwaits => IsStack(rows[z]) /\ LocalsOk(rows, z, mem[z])
      BY <1>1 DEF Rest, RowsOk
    <3>2. CASE z = j
      <4>1. pc[z] \notin Work
        BY <1>4, <3>1, <3>2, StateNames DEF RunFine, AtWork, j
      <4>2. pc[z] # "inline" /\ pc[z] \notin StackAwaits /\ mem[z] = NoLocals /\ pc[z] \in {"idle", "returned"}
        BY <3>1, <4>1 DEF RunFine, Work, StackAwaits
      <4>3. RunFine(b, pc[z], mem[z], z)
        BY <2>4, <2>6, <3>2, <4>2 DEF RunFine, Work, StackAwaits, Stage2, Stage3
      <4> QED
        BY <4>2, <4>3 DEF Inline
    <3>3. CASE z # j
      <4>1. b[z] = rows[z]
        BY <2>6, <3>3
      <4>2. \A i \in DOMAIN rows[z].rail : rows[z].rail[i].job \in Jobs => b[rows[z].rail[i].job] = rows[rows[z].rail[i].job]
        BY <2>6, <2>14
      <4>3. RunFine(b, pc[z], mem[z], z)
        BY <3>1, <4>1, <4>2, RunSame
      <4> QED
        BY <3>1, <4>1, <4>3 DEF Inline, LocalsOk
    <3> QED
      BY <3>2, <3>3
  <2>16. \A k \in Waiting : Waits(b[k])
    <3>1. \A k \in Waiting : k \in Jobs /\ Waits(rows[k])
      BY <1>1, WaitingJobs DEF Rest
    <3> QED
      BY <2>7, <3>1 DEF Waits
  <2>17. Rest(0, {}, b)
    BY <2>7, <2>9, <2>12, <2>13, <2>15, <2>16 DEF Rest
  <2> QED
    BY <2>13, <2>17 DEF b, r, j
<1> QED
  BY <1>3, <1>4

LEMMA DispatchStackDeep ==
  ASSUME StackInv, DeepInv, StackInv', NEW t \in handoffs, DispatchStack(t)
  PROVE  DeepInv'
<1> DEFINE hs == handoffs \ {t}
           F  == {}
           j  == t.job
<1>1. /\ Rest(0, F, rows) /\ HandPins(rows, handoffs) /\ QueueOk(queue) /\ queue.started /\ j \in Jobs
      /\ handoffs' = hs
  BY HandlerBegins DEF DispatchStack, Serving, StackInv, HandsOk
<1>2. /\ \A u \in Brought(hs) : u.job \in Waiting \union F
      /\ t.created => j \in Waiting
      /\ \A n \in F : n \in Jobs /\ rows[n].state = "absent" /\ rows[n].state = "queued"
  BY DEF Brought, Waiting
<1>3. CASE t.created
  <2> DEFINE q == AbortedMany(Enqueued(queue, j), t.stale)
             E == {j}
  <2>1. Advances(q, E) /\ queue.active \subseteq q.active
    BY <1>1, QueueTakes, SlotsStay
  <2>2. Commit(rows, q, t.stale)
    BY <1>3 DEF DispatchStack
  <2>3. E \subseteq Waiting
    BY <1>2, <1>3
  <2>4. \A z \in queue.active \ q.active : pc[z] \notin Work
    BY <2>1
  <2>5. HandPins(rows, handoffs')
    BY <1>1 DEF HandPins
  <2> HIDE DEF q, E, F
  <2> QED
    BY <1>1, <1>2, <2>1, <2>2, <2>3, <2>4, <2>5, CommitDeep
<1>4. CASE ~t.created
  <2> DEFINE q == AbortedMany(queue, t.stale)
             b == [rows EXCEPT ![j] = Repinned(@, t.pins)]
  <2>1. Advances(q, F) /\ q.active = queue.active
    BY <1>1, QueueTurns, SlotsStay
  <2>2. Commit(b, q, t.stale)
    BY <1>4 DEF DispatchStack
  <2>3. F \subseteq Waiting /\ \A z \in queue.active \ q.active : pc[z] \notin Work
    BY <2>1
  <2>4. Rest(0, F, b) /\ HandPins(b, handoffs)
    BY <1>4, RepinnedRest
  <2> HIDE DEF b
  <2>5. HandPins(b, handoffs')
    BY <1>1, <2>4 DEF HandPins
  <2>6. /\ \A n \in F : n \in Jobs /\ rows[n].state = "absent" /\ b[n].state = "queued"
    OBVIOUS
  <2> HIDE DEF q, F
  <2> QED
    BY <1>1, <1>2, <2>1, <2>2, <2>3, <2>4, <2>5, <2>6, CommitDeep
<1>5. t.created \in BOOLEAN
  BY DEF StackInv, HandsOk
<1> QED
  BY <1>3, <1>4, <1>5

\* The rows a trigger leaves: of its layout, only a job that waits is at the
\* head it triggers for.
LEMMA TriggerRows ==
  ASSUME StackInv, DeepInv, NEW l \in Layouts, NEW h
  PROVE  LET ended == Superseded(l) \union {j \in SameLayout(rows, l) : rows[j].state = "running"}
             b     == RetiredKeys(Moved(rows, ended, "stale"), l, h)
         IN  /\ Calm(rows, b)
             /\ \A k \in SameLayout(b, l) : b[k].head = h => b[k].state = "queued"
<1> DEFINE F     == {}
           ended == Superseded(l) \union {j \in SameLayout(rows, l) : rows[j].state = "running"}
           a     == Moved(rows, ended, "stale")
           b     == RetiredKeys(a, l, h)
<1>1. RowsOk(rows) /\ Typed(rows) /\ Unique(rows)
  BY HandlerBegins
<1>2. ended \in SUBSET Jobs /\ "stale" \in TerminalStates
      /\ (\A j \in SameLayout(rows, l) : rows[j].state = "running" => j \in ended)
  BY StateNames DEF Superseded, SameLayout
<1>3. MayEnd(F, rows, ended, "stale")
  <2> SUFFICES ASSUME NEW j \in ended PROVE Dead(rows[j]) \/ Moves(rows[j].state, "stale", j \in F)
    BY DEF MayEnd
  <2>1. j \in Jobs /\ rows[j].state # "absent"
    BY DEF Superseded, SameLayout, Exists
  <2>2. rows[j].state \in StackStates
    BY <1>1, <2>1 DEF Typed, RowFine
  <2> QED
    BY <2>1, <2>2, StateNames DEF Dead, Moves
<1> HIDE DEF ended, F
<1>4. Ending(F, F, rows, ended, "stale", a)
  BY <1>1, <1>2, <1>3, MovedEvolves
<1> HIDE DEF a
<1>5. /\ Evolves(F, F, rows, a) /\ KeysSame(rows, a) /\ RowsOk(a)
      /\ \A j \in Jobs : a[j].state = (IF j \in ended /\ ~Dead(rows[j]) THEN "stale" ELSE rows[j].state)
  BY <1>4 DEF Ending
<1>6. Unique(a) /\ Typed(a)
  BY <1>1, <1>5, UniqueKept, TypedKept
<1>7. \A j \in SameLayout(a, l) : j \in Jobs /\ IsStack(a[j]) /\ a[j].key = 0 /\ a[j].state # "absent" /\ a[j].over = l
  BY StackAssumption DEF SameLayout, IsStack
<1>8. ASSUME NEW j \in Jobs
      PROVE  /\ b[j].over = a[j].over /\ b[j].head = a[j].head /\ b[j].state = a[j].state /\ b[j].rail = a[j].rail
             /\ DOMAIN b[j] = Fields
             /\ b[j].key = a[j].key \/ (b[j].key = j /\ IsStack(a[j]))
             /\ j \in SameLayout(a, l) /\ a[j].head = h /\ ~Active(a[j]) => b[j].key = j
  <2>1. DOMAIN a[j] = Fields
    BY <1>5 DEF RowsOk, RowOk
  <2>2. b[j] = IF j \in SameLayout(a, l) /\ a[j].head = h /\ ~Active(a[j]) THEN [a[j] EXCEPT !.key = j] ELSE a[j]
    BY DEF RetiredKeys
  <2> DEFINE r == [a[j] EXCEPT !.key = j]
  <2>3. /\ r.over = a[j].over /\ r.head = a[j].head /\ r.state = a[j].state /\ r.rail = a[j].rail /\ r.key = j
        /\ DOMAIN r = Fields
    BY <2>1, RowSet
  <2> HIDE DEF r, b
  <2> QED
    BY <1>7, <2>1, <2>2, <2>3 DEF r
<1>9. DOMAIN b = Jobs
  BY DEF RetiredKeys
<1> HIDE DEF b
<1>10. \A e, p : EntryFine(a, e, p) => EntryFine(b, e, p)
  BY <1>8, EntryFineOn
<1>11. ASSUME NEW j \in Jobs PROVE RowEvolves(F, F, a, b, j)
  <2>1. RowFine(a, j)
    BY <1>6 DEF Typed
  <2>2. b[j].key = a[j].key \/ (b[j].key \in Nat \ {0} /\ (IsStack(a[j]) => b[j].key = j))
    <3>1. j \in Nat \ {0}
      <4>1. Cardinality(Jobs) \in Nat
        BY QueueAssumption, FS_CardinalityType
      <4> QED
        BY <4>1, StackAssumption
    <3> QED
      BY <1>8, <3>1
  <2>3. \A i \in DOMAIN a[j].rail : Untold(a, b, j, i) /\ EntryKept(b, a[j].rail[i], b[j].rail[i])
    BY <1>8 DEF Untold, EntryKept, Active
  <2> QED
    BY <1>8, <1>10, <2>1, <2>2, <2>3 DEF RowFine, RowEvolves, Moves
<1>12. Evolves(F, F, a, b)
  BY <1>9, <1>11 DEF Evolves
<1>13. Evolves(F, F, rows, b)
  BY <1>5, <1>12, EvolvesOn
<1>14. RowsOk(b)
  BY <1>5, <1>8, <1>12, EvolvesRows
<1>15. Unique(b)
  <2> SUFFICES ASSUME NEW i \in Jobs, NEW j \in Jobs, b[i].state # "absent", b[j].state # "absent", i # j, SameRow(b[i], b[j])
               PROVE  FALSE
    BY DEF Unique
  <2>1. /\ b[i].over = a[i].over /\ b[i].head = a[i].head /\ b[i].state = a[i].state
        /\ b[j].over = a[j].over /\ b[j].head = a[j].head /\ b[j].state = a[j].state
    BY <1>8
  <2>2. CASE b[i].key = a[i].key /\ b[j].key = a[j].key
    <3>1. SameRow(a[i], a[j])
      BY <2>1, <2>2 DEF SameRow, IsStack
    <3> QED
      BY <1>6, <2>1, <3>1 DEF Unique
  <2>3. CASE b[i].key # a[i].key \/ b[j].key # a[j].key
    <3>1. IsStack(a[i]) /\ IsStack(a[j]) /\ b[i].key = b[j].key
      <4>1. IsStack(b[i]) = IsStack(b[j]) /\ b[i].key = b[j].key
        BY DEF SameRow
      <4>2. (IsStack(b[i]) <=> IsStack(a[i])) /\ (IsStack(b[j]) <=> IsStack(a[j]))
        BY <2>1 DEF IsStack
      <4> QED
        BY <1>8, <2>3, <4>1, <4>2
    <3>2. (a[i].key \in {0, i}) /\ (a[j].key \in {0, j})
      BY <1>6, <3>1 DEF Typed, RowFine
    <3>3. b[i].key \in {0, i} /\ b[j].key \in {0, j}
      BY <1>8, <3>2
    <3>4. b[i].key # 0 \/ b[j].key # 0
      BY <1>8, <2>3, NoJobZero
    <3> QED
      BY <3>1, <3>3, <3>4
  <2> QED
    BY <2>2, <2>3
<1>16. ASSUME NEW k \in SameLayout(b, l), b[k].head = h PROVE b[k].state = "queued"
  <2>1. k \in Jobs /\ b[k].over = l /\ b[k].key = 0 /\ b[k].state # "absent" /\ k # 0
    BY NoJobZero DEF SameLayout
  <2>2. a[k].over = l /\ a[k].head = h /\ a[k].state = b[k].state /\ a[k].key = 0
    BY <1>8, <1>16, <2>1
  <2>3. k \in SameLayout(a, l)
    BY <2>1, <2>2 DEF SameLayout
  <2>4. Active(a[k])
    BY <1>8, <2>1, <2>2, <2>3
  <2>5. a[k].state # "running"
    <3> SUFFICES ASSUME a[k].state = "running" PROVE FALSE
      OBVIOUS
    <3>1. (rows[k].state = "running" /\ k \notin ended) \/ Dead(rows[k])
      BY <1>5, <2>1
    <3>2. rows[k].over = l /\ rows[k].key = 0 /\ rows[k].state = "running"
      BY <1>5, <2>1, <2>2, RowMoves DEF KeysSame
    <3>3. k \in SameLayout(rows, l)
      BY <2>1, <3>2 DEF SameLayout
    <3> QED
      BY <1>2, <3>1, <3>2, <3>3, StateNames DEF Dead
  <2> QED
    BY <2>2, <2>4, <2>5 DEF Active
<1>17. Calm(rows, b)
  BY <1>13, <1>14, <1>15 DEF Calm, F
<1> QED
  BY <1>16, <1>17 DEF b, a, ended

\* A new stack's pins are heads, and so is what it is known by.
LEMMA StackRowHeads ==
  ASSUME NEW l \in Layouts, HeadsOk
  PROVE  LET pins == [i \in 1..Len(l) |-> head[l[i]]]
         IN  /\ NewFine(NewRow(l, head)) /\ NewRow(l, head).head = head[Top(l)]
             /\ Len(pins) = Len(l) /\ Top(pins) = head[Top(l)]
             /\ \A i \in 1..Len(pins) : pins[i] \in Heads
<1> DEFINE pins == [i \in 1..Len(l) |-> head[l[i]]]
           rail == [i \in 1..Len(l) |-> [pin |-> head[l[i]], state |-> "queued", job |-> 0]]
           r    == NewRow(l, head)
<1>1. l \in Seq(StackPulls) /\ Len(l) \in Nat /\ Len(l) > 1 /\ Len(l) # 1 /\ Len(l) \in 1..Len(l)
  <2>1. l \in Seq(StackPulls) /\ Len(l) > 1
    BY StackAssumption
  <2>2. Len(l) \in Nat
    BY <2>1
  <2>3. \A n \in Nat : n > 1 => n # 1 /\ n \in 1..n
    OBVIOUS
  <2> QED
    BY <2>1, <2>2, <2>3
<1>2. \A i \in 1..Len(l) : l[i] \in StackPulls /\ head[l[i]] \in Heads
  BY <1>1 DEF HeadsOk
<1>3. Len(pins) = Len(l) /\ Top(pins) = head[Top(l)] /\ \A i \in 1..Len(pins) : pins[i] \in Heads
  <2>1. pins \in Seq(Heads)
    BY <1>1, <1>2
  <2>2. Len(pins) = Len(l)
    BY <1>1
  <2> QED
    BY <1>1, <1>2, <2>2 DEF Top
<1>4. r = [state |-> "queued", over |-> l, head |-> head[Top(l)], key |-> 0, rail |-> rail]
  BY <1>1 DEF NewRow
<1>5. DOMAIN rail = 1..Len(l) /\ \A i \in DOMAIN rail : /\ DOMAIN rail[i] = {"pin", "state", "job"} /\ rail[i].pin \in Heads
                                                        /\ rail[i].state = "queued" /\ rail[i].job = 0
  BY <1>2
<1> HIDE DEF rail
<1>6. DOMAIN r = Fields /\ r.over = l /\ r.state = "queued" /\ r.key = 0 /\ r.head = head[Top(l)] /\ r.rail = rail
  BY <1>4 DEF Fields
<1>7. head[Top(l)] \in Heads
  BY <1>1, <1>2 DEF Top
<1> HIDE DEF r, pins
<1>8. NewFine(r)
  BY <1>1, <1>5, <1>6, <1>7 DEF NewFine, IsStack, RailStates
<1> QED
  BY <1>3, <1>6, <1>8 DEF r, pins

\* A stack row at an identity nobody holds, while no stack is open.
LEMMA StackUnique ==
  ASSUME NEW a, Unique(a), NEW l \in Layouts, NEW h, SameLayout(a, l) \intersect {j \in Jobs : a[j].head = h} = {},
         NEW n \in Jobs, NEW r, r.over = l, r.head = h, r.key = 0, NEW b, Grown(a, b, n, r)
  PROVE  Unique(b)
<1>1. IsStack(r)
  BY StackAssumption DEF IsStack
<1>2. ASSUME NEW j \in Jobs, j # n, a[j].state # "absent" PROVE ~SameRow(r, a[j]) /\ ~SameRow(a[j], r)
  <2> SUFFICES ASSUME IsStack(a[j]), a[j].over = l, a[j].head = h, a[j].key = 0 PROVE FALSE
    BY <1>1 DEF SameRow
  <2>1. j \in SameLayout(a, l)
    BY <1>2 DEF SameLayout
  <2> QED
    BY <2>1
<1> SUFFICES ASSUME NEW i \in Jobs, NEW j \in Jobs, b[i].state # "absent", b[j].state # "absent", i # j
             PROVE  ~SameRow(b[i], b[j])
  BY DEF Unique
<1>3. b[n] = r /\ \A k \in Jobs : k # n => b[k] = a[k]
  BY DEF Grown
<1>4. CASE i = n
  BY <1>2, <1>3, <1>4
<1>5. CASE j = n
  BY <1>2, <1>3, <1>5
<1>6. CASE i # n /\ j # n
  BY <1>3, <1>6 DEF Unique
<1> QED
  BY <1>4, <1>5, <1>6

LEMMA TriggerDeep ==
  ASSUME StackInv, DeepInv, StackInv', HeadsOk, NEW l \in Layouts, Trigger(l)
  PROVE  DeepInv'
<1> DEFINE F     == {}
           h     == head[Top(l)]
           ended == Superseded(l) \union {j \in SameLayout(rows, l) : rows[j].state = "running"}
           rs    == RetiredKeys(Moved(rows, ended, "stale"), l, h)
           dups  == {j \in SameLayout(rs, l) : rs[j].state = "queued"}
           pins  == [i \in 1..Len(l) |-> head[l[i]]]
           r     == NewRow(l, head)
           t(j, x) == [job |-> j, stale |-> ended, created |-> x, pins |-> pins]
<1>1. /\ Rest(0, F, rows) /\ RowsOk(rows) /\ Typed(rows) /\ Unique(rows) /\ HandPins(rows, handoffs) /\ QueueOk(queue)
      /\ OpenOk(rows) /\ queue.started
  BY HandlerBegins DEF Trigger, Serving
<1>2. /\ Follows({}, rows, rs)
      /\ dups = {} => \A j \in Jobs : ~Running(rs, j)
  BY <1>1, TriggerFollows
<1>3. Calm(rows, rs) /\ \A k \in SameLayout(rs, l) : rs[k].head = h => rs[k].state = "queued"
  BY TriggerRows
<1>4. \/ \E j \in dups : Commit(rs, queue, F) /\ handoffs' = handoffs \union {t(j, FALSE)}
      \/ dups = {} /\ \E n \in Jobs : /\ IsNextRow(n) /\ Commit([rs EXCEPT ![n] = r], queue, F)
                                      /\ handoffs' = handoffs \union {t(n, TRUE)}
  <2>1. IF dups # {}
        THEN \E j \in dups : Commit(rs, queue, F) /\ handoffs' = handoffs \union {t(j, FALSE)}
        ELSE \E n \in Jobs : /\ IsNextRow(n) /\ Commit([rs EXCEPT ![n] = r], queue, F)
                             /\ handoffs' = handoffs \union {t(n, TRUE)}
    BY DEF Trigger
  <2> HIDE DEF rs, dups, t, r
  <2> QED
    BY <2>1
<1>5. \A j, x : t(j, x).job = j /\ t(j, x).created = x /\ t(j, x).pins = pins
  OBVIOUS
<1>6. \A j \in dups : j \in Jobs /\ rs[j].state = "queued" /\ rs[j].over = l
  BY DEF SameLayout
<1>7. NewFine(r) /\ r.head = h /\ Len(pins) = Len(l) /\ Top(pins) = h /\ \A i \in 1..Len(pins) : pins[i] \in Heads
  BY StackRowHeads
<1>8. r.over = l /\ r.key = 0 /\ r.state = "queued" /\ Len(l) > 1
  BY StackRow
<1>9. Advances(queue, F)
  BY <1>1, QueueTurns
<1>10. F \subseteq Waiting /\ \A z \in queue.active \ queue.active : pc[z] \notin Work
  OBVIOUS
<1>11. \A u \in Brought(handoffs) : u.job \in Waiting
  BY DEF Waiting
<1> HIDE DEF rs, ended, t, r, pins, h
<1>12. Evolves(F, F, rows, rs) /\ RowsOk(rs) /\ Unique(rs) /\ OpenOk(rs)
  BY <1>1, <1>2, <1>3, FollowsSound DEF Calm
<1>13. Rest(0, F, rs) /\ HandPins(rs, handoffs)
  BY <1>1, <1>12, HandlerOn
<1>14. CASE \E j \in dups : Commit(rs, queue, F) /\ handoffs' = handoffs \union {t(j, FALSE)}
  <2>1. PICK j \in dups : Commit(rs, queue, F) /\ handoffs' = handoffs \union {t(j, FALSE)}
    BY <1>14
  <2>2. ASSUME NEW u \in handoffs', ~u.created
        PROVE  /\ u.job \in Jobs /\ IsStack(rs[u.job]) /\ Len(u.pins) = Len(rs[u.job].over)
               /\ \A i \in 1..Len(u.pins) : u.pins[i] \in Heads
               /\ rs[u.job].state = "queued" =>
                    \A k \in Jobs \ {u.job} : ~(/\ rs[k].state # "absent" /\ rs[k].over = rs[u.job].over /\ rs[k].key = 0
                                                /\ rs[k].head = Top(u.pins))
    <3>1. CASE u \in handoffs
      BY <1>13, <2>2, <3>1 DEF HandPins
    <3>2. CASE u = t(j, FALSE)
      <4>1. u.job = j /\ u.pins = pins
        BY <1>5, <3>2
      <4>2. j \in Jobs /\ rs[j].state = "queued" /\ rs[j].over = l /\ Running(rs, j)
        BY <1>6, <1>8 DEF Running, IsStack, Active
      <4>3. ASSUME NEW k \in Jobs, k # j, rs[k].state # "absent", rs[k].over = l, rs[k].key = 0, rs[k].head = h PROVE FALSE
        <5>1. rs[k].state = "queued"
          BY <1>3, <4>3 DEF SameLayout
        <5>2. Running(rs, k)
          BY <1>8, <4>3, <5>1 DEF Running, IsStack, Active
        <5> QED
          BY <1>12, <4>2, <4>3, <5>2 DEF OpenOk
      <4>4. IsStack(rs[j])
        BY <4>2 DEF Running
      <4> QED
        BY <1>7, <4>1, <4>2, <4>3, <4>4
    <3> QED
      BY <2>1, <3>1, <3>2
  <2>3. HandPins(rs, handoffs')
    BY <2>2 DEF HandPins
  <2>4. \A u \in Brought(handoffs') : u.job \in Waiting \union F
    BY <1>5, <1>11, <2>1 DEF Brought
  <2>5. \A n \in F : n \in Jobs /\ rows[n].state = "absent" /\ rs[n].state = "queued"
    OBVIOUS
  <2> HIDE DEF F, dups
  <2> QED
    BY <1>1, <1>9, <1>10, <1>13, <2>1, <2>3, <2>4, <2>5, CommitDeep
<1>15. CASE dups = {} /\ \E n \in Jobs : /\ IsNextRow(n) /\ Commit([rs EXCEPT ![n] = r], queue, F)
                                         /\ handoffs' = handoffs \union {t(n, TRUE)}
  <2>1. PICK n \in Jobs : /\ IsNextRow(n) /\ Commit([rs EXCEPT ![n] = r], queue, F)
                          /\ handoffs' = handoffs \union {t(n, TRUE)}
    BY <1>15
  <2> DEFINE c == [rs EXCEPT ![n] = r]
             N == {n}
  <2>2. rows[n].state = "absent" /\ rs[n].state = "absent" /\ n # 0
    <3>1. rows[n].state = "absent" /\ n # 0
      BY <2>1, NoJobZero DEF IsNextRow, Exists
    <3> QED
      BY <1>12, <3>1, RowMoves
  <2>3. Grown(rs, c, n, r) /\ c[n] = r
    BY <1>12 DEF RowsOk, Grown
  <2>4. Commit(c, queue, F)
    BY <2>1
  <2> HIDE DEF c
  <2>5. SameLayout(rs, l) \intersect {j \in Jobs : rs[j].head = h} = {}
    BY <1>3, <1>15
  <2>6. Unique(c)
    BY <1>7, <1>8, <1>12, <2>3, <2>5, StackUnique
  <2>7. \A u \in handoffs : u.job \in Jobs => rs[u.job].state # "absent"
    BY <1>13 DEF Rest, StackInv, HandsOk
  <2>8. ASSUME NEW u \in handoffs, ~u.created
        PROVE  /\ u.job \in Jobs /\ IsStack(c[u.job]) /\ Len(u.pins) = Len(c[u.job].over)
               /\ \A i \in 1..Len(u.pins) : u.pins[i] \in Heads
               /\ c[u.job].state # "queued"
    <3>1. /\ u.job \in Jobs /\ IsStack(rs[u.job]) /\ Len(u.pins) = Len(rs[u.job].over)
          /\ \A i \in 1..Len(u.pins) : u.pins[i] \in Heads
      BY <1>13, <2>8 DEF HandPins
    <3>2. u.job # n
      BY <2>2, <2>7, <3>1
    <3>3. c[u.job] = rs[u.job]
      BY <2>3, <3>1, <3>2 DEF Grown
    <3>4. ~Running(rs, u.job)
      BY <1>2, <1>15, <3>1
    <3> QED
      BY <3>1, <3>3, <3>4 DEF Running, Active
  <2>9. HandPins(c, handoffs)
    BY <2>8 DEF HandPins
  <2>10. Rest(0, N, c)
    <3>1. Rest(0, {}, rs)
      BY <1>13 DEF F
    <3> QED
      BY <1>7, <2>2, <2>3, <2>6, <2>9, <3>1, RestGrown
  <2>11. HandPins(c, handoffs')
    <3>1. \A u \in handoffs' : ~u.created => u \in handoffs
      BY <1>5, <2>1
    <3> QED
      BY <2>9, <3>1 DEF HandPins
  <2>12. \A u \in Brought(handoffs') : u.job \in Waiting \union N
    BY <1>5, <1>11, <2>1 DEF Brought
  <2>13. \A k \in N : k \in Jobs /\ rows[k].state = "absent" /\ c[k].state = "queued"
    BY <1>8, <2>2, <2>3
  <2> HIDE DEF N, F, dups
  <2> QED
    BY <1>1, <1>9, <1>10, <2>4, <2>10, <2>11, <2>12, <2>13, CommitDeep
<1> QED
  BY <1>4, <1>14, <1>15

-----------------------------------------------------------------------------
(* Pushes, process death and start *)

LEMMA MovePullDeep ==
  ASSUME DeepInv, NEW p, MovePull(p)
  PROVE  DeepInv'
BY DEF MovePull, DeepInv

\* Nothing is in a slot or on its way to one.
LEMMA ProcessDiesDeep ==
  ASSUME StackInv, DeepInv, ProcessDies
  PROVE  DeepInv'
<1>1. /\ queue' = Stopped /\ rows' = rows /\ handoffs' = {}
      /\ \A j \in Jobs : pc'[j] = "idle" /\ mem'[j] = NoLocals
  BY DEF ProcessDies
<1>2. Stopped.active = {} /\ ToSet(Stopped.pending) = {} /\ ~Stopped.started
  BY DEF Stopped, ToSet
<1>3. Typed(rows) /\ Unique(rows) /\ \A s \in Jobs : RunFine(rows, pc[s], mem[s], s)
  BY DEF DeepInv, Deep
<1>4. ASSUME NEW s \in Jobs PROVE RunFine(rows, pc'[s], mem'[s], s)
  <2>1. pc[s] \in Work => rows[s].state \notin {"completed", "failed"}
    BY <1>3, StateNames DEF RunFine, AtWork
  <2>2. rows[s].state \in {"completed", "failed"} => RailFine(rows, s)
    BY <1>3, <2>1 DEF RunFine
  <2> QED
    BY <1>1, <2>2 DEF RunFine, Work, StackAwaits, Stage2, Stage3
<1>5. \A s, j \in Jobs : ~Inline(rows, pc', mem', s, j)
  BY <1>1 DEF Inline
<1>6. InlineOk(rows, Stopped, pc', mem', {})
  BY <1>2, <1>5 DEF InlineOk
<1>7. HandPins(rows, {}) /\ Brought({}) = {}
  BY DEF HandPins, Brought
<1>8. Deep(rows, Stopped, pc', mem', {})
  BY <1>2, <1>3, <1>4, <1>6, <1>7 DEF Deep
<1> QED
  BY <1>1, <1>8 DEF DeepInv

\* Every job that was open waits again; the first ones are claimed.
LEMMA RestartDeep ==
  ASSUME StackInv, DeepInv, StackInv', Restart
  PROVE  DeepInv'
<1> DEFINE open  == {j \in Jobs : Active(rows[j])}
           reset == [j \in Jobs |-> IF j \in open THEN [rows[j] EXCEPT !.state = "queued"] ELSE rows[j]]
<1>1. queue = Stopped /\ handoffs = {} /\ handoffs' = {} /\ queue.active = {}
  BY DEF Restart, StackInv, QueueOk, Stopped
<1>2. PICK order \in SetToSeqs(open) :
        Commit(reset, Pumped([pending |-> order, active |-> {}, started |-> TRUE]), {})
  BY DEF Restart
<1> DEFINE loaded == [pending |-> order, active |-> {}, started |-> TRUE]
           q      == Pumped(loaded)
           C      == q.active
           b      == EnteredAll(reset, C)
<1>3. Sound(loaded) /\ ToSet(order) \subseteq open /\ Entries(loaded) \subseteq open
  <2>1. open \in SUBSET Jobs
    OBVIOUS
  <2> HIDE DEF open
  <2>2. Sound(loaded) /\ ToSet(order) \subseteq open
    BY <1>2, <2>1, LoadedSound
  <2> QED
    BY <2>2 DEF Entries
<1>4. C \subseteq open /\ ToSet(q.pending) \subseteq open /\ ToSet(q.pending) \intersect C = {}
  <2> HIDE DEF loaded
  <2>1. Sound(q) /\ Entries(q) \subseteq open
    BY <1>3, PumpedSound, PumpedEntries
  <2> QED
    BY <2>1 DEF Entries, Sound
<1>5. /\ queue' = q /\ rows' = b
      /\ \A j \in Jobs : /\ pc'[j] = (IF j \in C THEN EnteredAt(reset[j]) ELSE IF j \notin C THEN "idle" ELSE pc[j])
                         /\ mem'[j] = (IF j \in C /\ EnteredAt(reset[j]) = "pin" THEN AtFirst ELSE NoLocals)
  <2>1. q.active \ queue.active = C
    BY <1>1
  <2>2. Turn(reset, q, {}, <<>>)
    BY <1>2 DEF Commit, q, loaded
  <2> HIDE DEF q, reset
  <2> QED
    BY <2>1, <2>2 DEF Turn
<1> HIDE DEF q, C
<1>6. RowsOk(rows) /\ Typed(rows) /\ Unique(rows) /\ \A s \in Jobs : RunFine(rows, pc[s], mem[s], s)
  BY DEF StackInv, DeepInv, Deep
<1>7. ASSUME NEW j \in Jobs
      PROVE  /\ DOMAIN reset[j] = Fields /\ reset[j].over = rows[j].over /\ reset[j].key = rows[j].key
             /\ reset[j].rail = rows[j].rail /\ reset[j].head = rows[j].head
             /\ reset[j].state = IF j \in open THEN "queued" ELSE rows[j].state
             /\ reset[j].state # "running"
             /\ reset[j].state = "absent" <=> rows[j].state = "absent"
  <2>1. DOMAIN rows[j] = Fields
    BY <1>6 DEF RowsOk, RowOk
  <2>2. CASE j \in open
    BY <2>1, <2>2 DEF Fields, Active
  <2>3. CASE j \notin open
    BY <2>1, <2>3 DEF Active
  <2> QED
    BY <2>2, <2>3
<1>8. DOMAIN reset = Jobs /\ open \subseteq Jobs /\ \A j \in open : j \in Jobs /\ Active(rows[j])
  OBVIOUS
<1>9. \A j \in Jobs : Active(rows[j]) => j \in open
  OBVIOUS
<1> HIDE DEF reset, open, b
<1>10. /\ \A e : EntryOk(rows, e) => EntryOk(reset, e)
       /\ \A e, p : EntryFine(rows, e, p) => EntryFine(reset, e, p)
  BY <1>7 DEF EntryOk, EntryFine, IsPull, IsStack
<1>11. ASSUME NEW j \in Jobs PROVE RowOk(reset, j) /\ RowFine(reset, j)
  <2>1. RowOk(rows, j) /\ RowFine(rows, j)
    BY <1>6 DEF RowsOk, Typed
  <2>2. reset[j].state \in StackStates
    BY <1>7, <2>1, StateNames DEF RowFine
  <2> QED
    BY <1>7, <1>10, <2>1, <2>2 DEF RowOk, RowFine, IsStack
<1>12. RowsOk(reset) /\ Typed(reset)
  BY <1>8, <1>11 DEF RowsOk, Typed
<1>13. Unique(reset)
  <2>1. \A i, j \in Jobs : SameRow(reset[i], reset[j]) => SameRow(rows[i], rows[j])
    <3> SUFFICES ASSUME NEW i \in Jobs, NEW j \in Jobs, SameRow(reset[i], reset[j]) PROVE SameRow(rows[i], rows[j])
      OBVIOUS
    <3>1. /\ reset[i].over = rows[i].over /\ reset[i].head = rows[i].head /\ reset[i].key = rows[i].key
          /\ reset[j].over = rows[j].over /\ reset[j].head = rows[j].head /\ reset[j].key = rows[j].key
      BY <1>7
    <3> QED
      BY <3>1 DEF SameRow, IsStack
  <2> QED
    BY <1>6, <1>7, <2>1 DEF Unique
<1>14. C \in SUBSET Jobs /\ \A j \in C : reset[j].state = "queued" /\ Waits(reset[j])
  BY <1>4, <1>7, <1>8 DEF Waits
<1>15. /\ Typed(b) /\ Unique(b)
       /\ \A j \in Jobs \ C : b[j] = reset[j]
       /\ \A j \in Jobs : /\ b[j].over = reset[j].over /\ b[j].head = reset[j].head /\ b[j].key = reset[j].key
                          /\ b[j].state = (IF j \in C /\ reset[j].state = "queued" THEN "running" ELSE reset[j].state)
                          /\ DOMAIN b[j].rail = DOMAIN reset[j].rail
  BY <1>12, <1>13, <1>14, EnteredRows DEF b
<1>16. \A j \in C : EnteredAt(reset[j]) \in {"pin", "review"}
  BY <1>14, StateNames DEF EnteredAt, Dead
<1>17. ASSUME NEW z \in Jobs PROVE RunFine(b, pc'[z], mem'[z], z)
  <2>1. CASE z \in C
    <3>1. pc'[z] \in {"pin", "review"} /\ mem'[z] = (IF pc'[z] = "pin" THEN AtFirst ELSE NoLocals)
      BY <1>5, <1>16, <2>1
    <3>2. AtWork(b[z])
      BY <1>14, <1>15, <2>1 DEF AtWork
    <3>3. AtFirst.attempt = 0 /\ 0 \in 0..MemberRetries
      BY StackAssumption DEF AtFirst, NoLocals
    <3> QED
      BY <3>1, <3>2, <3>3 DEF RunFine, Work, StackAwaits, Stage2, Stage3
  <2>2. CASE z \notin C
    <3>1. pc'[z] = "idle" /\ mem'[z] = NoLocals /\ b[z] = reset[z]
      BY <1>5, <1>15, <2>2
    <3>2. b[z].rail = rows[z].rail /\ (b[z].state \in {"completed", "failed"} => b[z].state = rows[z].state)
      BY <1>7, <3>1
    <3>3. pc[z] = "idle"
      BY <1>1 DEF StackInv, RunOk
    <3>4. b[z].state \in {"completed", "failed"} => RailFine(rows, z)
      BY <1>6, <3>2, <3>3 DEF RunFine, Work, StackAwaits
    <3>5. \A j \in Jobs : /\ Active(rows[j]) => Active(b[j])
                          /\ ~Active(rows[j]) => b[j].state = rows[j].state
      <4> SUFFICES ASSUME NEW j \in Jobs
                   PROVE  /\ Active(rows[j]) => Active(b[j])
                          /\ ~Active(rows[j]) => b[j].state = rows[j].state
        OBVIOUS
      <4>1. CASE j \in open
        BY <1>7, <1>8, <1>15, <4>1 DEF Active
      <4>2. CASE j \notin open
        BY <1>7, <1>9, <1>15, <4>2, <1>4
      <4> QED
        BY <4>1, <4>2
    <3>6. ASSUME NEW k \in DOMAIN rows[z].rail, DeadCover(rows, rows[z].rail[k]) PROVE DeadCover(b, b[z].rail[k])
      BY <3>2, <3>5, <3>6, StateNames DEF DeadCover, Active
    <3>7. \A j \in Jobs : Terminal(rows[j]) => Terminal(b[j])
      BY <3>5, StateNames DEF Terminal, Active
    <3>8. RailFine(rows, z) /\ b[z].state \in {"completed", "failed"} => RailFine(b, z)
      <4> SUFFICES ASSUME RailFine(rows, z), b[z].state \in {"completed", "failed"}, NEW i \in DOMAIN b[z].rail
                   PROVE  LET e == b[z].rail[i]
                          IN  \/ e.state \in {"done", "failed", "skipped"}
                              \/ /\ e.state = "reviewing" /\ e.job \in Jobs
                                 /\ \/ Active(b[e.job])
                                    \/ b[z].state = "completed" /\ Terminal(b[e.job]) /\ \E k \in DOMAIN b[z].rail : DeadCover(b, b[z].rail[k])
        BY DEF RailFine
      <4>1. b[z].rail[i] = rows[z].rail[i] /\ i \in DOMAIN rows[z].rail
        BY <3>2
      <4>2. (\E k \in DOMAIN rows[z].rail : DeadCover(rows, rows[z].rail[k])) => \E k \in DOMAIN b[z].rail : DeadCover(b, b[z].rail[k])
        BY <3>2, <3>6
      <4> HIDE DEF Active, Terminal, DeadCover
      <4> QED
        BY <3>2, <3>5, <3>7, <4>1, <4>2 DEF RailFine
    <3> QED
      BY <3>1, <3>4, <3>8 DEF RunFine, Work, StackAwaits, Stage2, Stage3
  <2> QED
    BY <2>1, <2>2
<1>18. \A z, j \in Jobs : ~Inline(b, pc', mem', z, j)
  BY <1>5, <1>16 DEF Inline
<1>19. ASSUME NEW j \in Jobs, b[j].state = "running" PROVE Worked(b, pc', mem', j)
  <2>1. j \in C
    BY <1>7, <1>15, <1>19
  <2> QED
    BY <1>5, <1>16, <2>1 DEF Worked, Work, StackAwaits
<1>20. InlineOk(b, q, pc', mem', {})
  BY <1>18, <1>19 DEF InlineOk
<1>21. \A j \in ToSet(q.pending) : Waits(b[j])
  <2> SUFFICES ASSUME NEW j \in ToSet(q.pending) PROVE Waits(b[j])
    OBVIOUS
  <2>1. j \in Jobs /\ j \notin C /\ j \in open
    BY <1>4, <1>8
  <2>2. b[j].state = "queued"
    BY <1>7, <1>15, <2>1
  <2> QED
    BY <2>2 DEF Waits
<1>22. HandPins(b, {}) /\ Brought({}) = {}
  BY DEF HandPins, Brought
<1>23. Deep(b, q, pc', mem', {})
  BY <1>15, <1>17, <1>20, <1>21, <1>22 DEF Deep
<1> QED
  BY <1>1, <1>5, <1>23 DEF DeepInv

LEMMA HeadsStart ==
  ASSUME StackInit
  PROVE  HeadsOk
<1>1. (CHOOSE h \in Heads : TRUE) \in Heads
  BY StackAssumption
<1> QED
  BY <1>1 DEF StackInit, HeadsOk

LEMMA DeepStarts ==
  ASSUME StackInit
  PROVE  DeepInv
<1> DEFINE l  == CHOOSE k \in Layouts : TRUE
           r0 == NewRow(l, head)
           r  == [r0 EXCEPT !.state = "absent"]
<1>1. l \in Layouts
  BY StackAssumption
<1>2. HeadsOk
  BY HeadsStart
<1>3. /\ \A j \in Jobs : rows[j] = r /\ pc[j] = "idle" /\ mem[j] = NoLocals
      /\ queue = Stopped /\ handoffs = {}
  BY DEF StackInit
<1> HIDE DEF l
<1>4. NewFine(r0) /\ r0.over = l
  BY <1>1, <1>2, StackRowHeads, StackRow
<1> HIDE DEF r0
<1>5. /\ r.state = "absent" /\ r.head = r0.head /\ r.key = 0 /\ r.over = l /\ r.rail = r0.rail
  BY <1>4 DEF NewFine, Fields
<1>6. Stopped.active = {} /\ ToSet(Stopped.pending) = {} /\ ~Stopped.started
  BY DEF Stopped, ToSet
<1> HIDE DEF r
<1>7. ASSUME NEW j \in Jobs PROVE RowFine(rows, j)
  BY <1>1, <1>3, <1>4, <1>5 DEF RowFine, NewFine, StackStates, EntryFine
<1>8. Typed(rows) /\ Unique(rows)
  BY <1>3, <1>5, <1>7 DEF Typed, Unique
<1>9. \A s \in Jobs : RunFine(rows, pc[s], mem[s], s)
  BY <1>3, <1>5 DEF RunFine, Work, StackAwaits, Stage2, Stage3
<1>10. \A s, j \in Jobs : ~Inline(rows, pc, mem, s, j)
  BY <1>3 DEF Inline
<1>11. InlineOk(rows, queue, pc, mem, handoffs)
  BY <1>3, <1>6, <1>10 DEF InlineOk
<1>12. HandPins(rows, handoffs) /\ Brought(handoffs) = {}
  BY <1>3 DEF HandPins, Brought
<1> QED
  BY <1>3, <1>6, <1>8, <1>9, <1>11, <1>12 DEF DeepInv, Deep

-----------------------------------------------------------------------------
(* Where a step takes its run *)

Onward(j) == \E rs, at, m : Goes(j, rs, at, m) /\ at # "post"

LEMMA UnwindsOnward == \A j, rs : Unwinds(j, rs) => Onward(j)
BY DEF Unwinds, Returns, Onward

LEMMA NextMemberOnward == \A j, rs, m : NextMember(j, rs, m) => Onward(j)
BY UnwindsOnward DEF NextMember, Onward

LEMMA RetriesOnward == \A j, rs, m : Retries(j, rs, m) => Onward(j)
BY UnwindsOnward, NextMemberOnward DEF Retries, Onward

LEMMA AwaitedOnward == \A j, rs, k, m : Awaited(j, rs, k, m) => Onward(j)
BY RetriesOnward, NextMemberOnward DEF Awaited, Onward

LEMMA JoinedOnward == \A j, rs, k, m : Joined(j, rs, k, m) => Onward(j)
BY AwaitedOnward, NextMemberOnward DEF Joined, Onward

LEMMA AttemptOnward == \A j, rs, m : Attempt(j, rs, m) => Onward(j)
<1> SUFFICES ASSUME NEW j, NEW rs, NEW m, Attempt(j, rs, m) PROVE Onward(j)
  OBVIOUS
<1>1. \/ \E k, a : Joined(j, a, k, m)
      \/ \E a : Goes(j, a, "inline", m)
      \/ \E a : Unwinds(j, a)
  BY DEF Attempt
<1> QED
  BY <1>1, JoinedOnward, UnwindsOnward DEF Onward

\* A step that starts the summary is one that reconciles the coverage.
LEMMA StepOnward ==
  ASSUME NEW j \in Jobs, StackStep(j)
  PROVE  Onward(j) \/ (Publishes(j) /\ pc[j] \in Stage3)
<1>1. CASE ReviewPull(j)
  BY <1>1 DEF ReviewPull, Returns, Onward
<1>2. CASE Pin(j)
  <2>1. \/ \E a : Unwinds(j, a)
        \/ \E a, m : Goes(j, a, "mode", m) \/ Goes(j, a, "pin", m)
    BY <1>2 DEF Pin
  <2> QED
    BY <2>1, UnwindsOnward DEF Onward
<1>3. CASE Mode(j)
  BY <1>3, NextMemberOnward, UnwindsOnward, AttemptOnward DEF Mode
<1>4. CASE Repin(j)
  <2>1. \/ \E a : Unwinds(j, a)
        \/ \E a, m : Attempt(j, a, m)
    BY <1>4 DEF Repin
  <2> QED
    BY <2>1, UnwindsOnward, AttemptOnward
<1>5. CASE InlineEnds(j)
  <2>1. \/ \E a : Unwinds(j, a)
        \/ \E a, k, m : Awaited(j, a, k, m)
    BY <1>5 DEF InlineEnds
  <2> QED
    BY <2>1, UnwindsOnward, AwaitedOnward
<1>6. CASE Poll(j)
  BY <1>6, UnwindsOnward, AwaitedOnward DEF Poll
<1>7. CASE Verify(j)
  BY <1>7, UnwindsOnward, NextMemberOnward, RetriesOnward DEF Verify
<1>8. CASE Check(j)
  BY <1>8, UnwindsOnward DEF Check, Returns, Onward
<1>9. CASE Diff(j)
  <2>1. Unwinds(j, rows) \/ (\E m : Goes(j, rows, "check", m) \/ Goes(j, rows, "clone", m)) \/ Publishes(j)
    BY <1>9 DEF Diff
  <2> QED
    BY <1>9, <2>1, UnwindsOnward DEF Diff, StackAt, Stage3, Onward
<1>10. CASE Clone(j)
  BY <1>10, UnwindsOnward DEF Clone, Onward
<1>11. CASE Cumulate(j)
  BY <1>11, UnwindsOnward DEF Cumulate, StackAt, Stage3
<1>12. CASE PostSummary(j)
  <2>1. Unwinds(j, rows) \/ (\E a, m : Goes(j, a, "followup", m)) \/ (\E a : Completes(j, a))
    BY <1>12 DEF PostSummary
  <2>2. \A a : Completes(j, a) => Onward(j)
    BY DEF Completes, Returns, Onward
  <2>3. \A a, m : Goes(j, a, "followup", m) => Onward(j)
    BY DEF Onward
  <2> QED
    BY <2>1, <2>2, <2>3, UnwindsOnward
<1>13. CASE FollowUp(j)
  BY <1>13, UnwindsOnward DEF FollowUp, Completes, Returns, Onward
<1> QED
  BY <1>1, <1>2, <1>3, <1>4, <1>5, <1>6, <1>7, <1>8, <1>9, <1>10, <1>11, <1>12, <1>13 DEF StackStep

\* What every step of a run leaves alone.
LEMMA StepFrame ==
  ASSUME NEW j \in Jobs, StackStep(j)
  PROVE  \E rs, at, m : Goes(j, rs, at, m)
BY StepOnward DEF Onward, Publishes

-----------------------------------------------------------------------------
(* The invariant *)

\* The rest of the state is of its type.
FrameOk ==
  /\ HeadsOk /\ moves \in 0..MaxMoves /\ upsets \in 0..MaxUpsets
  /\ aborted \subseteq queue.active
  /\ \A t \in handoffs : t.stale \subseteq Jobs

SoundInv == StackInv /\ DeepInv /\ FrameOk

LEMMA StackNextDeep ==
  ASSUME SoundInv, StackInv', [StackNext]_stackVars
  PROVE  DeepInv'
<1>1. StackInv /\ DeepInv /\ HeadsOk
  BY DEF SoundInv, FrameOk
<1>2. CASE UNCHANGED stackVars
  BY <1>1, <1>2 DEF stackVars, DeepInv
<1>3. CASE \E p \in Pushed : MovePull(p)
  BY <1>1, <1>3, MovePullDeep
<1>4. CASE \E p \in Unmarked : PushDelivery(p)
  <2>1. Unmarked \subseteq StackPulls
    BY StackAssumption
  <2> QED
    BY <1>1, <1>4, <2>1, PushDeliveryDeep
<1>5. CASE \E l \in Layouts : Trigger(l)
  BY <1>1, <1>5, TriggerDeep
<1>6. CASE \E t \in handoffs : DispatchStack(t)
  BY <1>1, <1>6, DispatchStackDeep
<1>7. CASE \E j \in Jobs : CancelJob(j) \/ StackStep(j) \/ ReleaseSlot(j)
  BY <1>1, <1>7, CancelJobDeep, StackStepDeep, ReleaseSlotDeep
<1>8. CASE ProcessDies \/ Restart
  BY <1>1, <1>8, ProcessDiesDeep, RestartDeep
<1> QED
  BY <1>2, <1>3, <1>4, <1>5, <1>6, <1>7, <1>8 DEF StackNext

\* A turn leaves the signals of the runs that keep their slots.
LEMMA TurnSignals ==
  \A rs, q, stopped, moved : Turn(rs, q, stopped, moved) => aborted' \subseteq queue'.active
BY DEF Turn

LEMMA FrameKept ==
  ASSUME FrameOk, [StackNext]_stackVars
  PROVE  FrameOk'
<1>1. CASE UNCHANGED stackVars
  BY <1>1 DEF stackVars, FrameOk, HeadsOk
<1>2. ASSUME NEW p \in Pushed, MovePull(p) PROVE FrameOk'
  <2>1. p \in StackPulls
    BY StackAssumption
  <2>2. HeadsOk'
    BY <1>2, <2>1 DEF MovePull, FrameOk, HeadsOk
  <2>3. moves' \in 0..MaxMoves
    BY <1>2, StackAssumption DEF MovePull, FrameOk
  <2> QED
    BY <1>2, <2>2, <2>3 DEF MovePull, FrameOk
<1>3. ASSUME NEW p \in Unmarked, PushDelivery(p) PROVE FrameOk'
  <2>1. head' = head /\ moves' = moves /\ upsets' = upsets
    BY <1>3 DEF PushDelivery
  <2>2. aborted' \subseteq queue'.active
    <3>1. \E rs, q, stopped : Commit(rs, q, stopped)
      BY <1>3 DEF PushDelivery
    <3> QED
      BY <3>1, TurnSignals DEF Commit
  <2>3. \A t \in handoffs' : t.stale \subseteq Jobs
    <3>1. OtherHeads(rows, p, head[p]) \subseteq Jobs
      BY DEF OtherHeads, Holders
    <3>2. \/ handoffs' = handoffs
          \/ \E n \in Jobs : handoffs' = handoffs \union {[job |-> n, stale |-> OtherHeads(rows, p, head[p]), created |-> TRUE, pins |-> <<>>]}
      BY <1>3 DEF PushDelivery
    <3> QED
      BY <3>1, <3>2 DEF FrameOk
  <2> QED
    BY <2>1, <2>2, <2>3 DEF FrameOk, HeadsOk
<1>4. ASSUME NEW l \in Layouts, Trigger(l) PROVE FrameOk'
  <2> DEFINE stale == Superseded(l) \union {j \in SameLayout(rows, l) : rows[j].state = "running"}
  <2>1. head' = head /\ moves' = moves /\ upsets' = upsets
    BY <1>4 DEF Trigger
  <2>2. aborted' \subseteq queue'.active
    <3>1. \E rs, q, stopped : Commit(rs, q, stopped)
      BY <1>4 DEF Trigger
    <3> QED
      BY <3>1, TurnSignals DEF Commit
  <2>3. \A t \in handoffs' : t.stale \subseteq Jobs
    <3>1. stale \subseteq Jobs
      BY DEF Superseded, SameLayout
    <3>2. \E n, x, pins : handoffs' = handoffs \union {[job |-> n, stale |-> stale, created |-> x, pins |-> pins]}
      BY <1>4 DEF Trigger
    <3> HIDE DEF stale
    <3> QED
      BY <3>1, <3>2 DEF FrameOk
  <2> QED
    BY <2>1, <2>2, <2>3 DEF FrameOk, HeadsOk
<1>5. ASSUME NEW t \in handoffs, DispatchStack(t) PROVE FrameOk'
  <2>1. head' = head /\ moves' = moves /\ upsets' = upsets /\ handoffs' = handoffs \ {t}
    BY <1>5 DEF DispatchStack
  <2>2. aborted' \subseteq queue'.active
    <3>1. \E rs, q, stopped : Commit(rs, q, stopped)
      BY <1>5 DEF DispatchStack
    <3> QED
      BY <3>1, TurnSignals DEF Commit
  <2> QED
    BY <2>1, <2>2 DEF FrameOk, HeadsOk
<1>6. ASSUME NEW j \in Jobs, CancelJob(j) PROVE FrameOk'
  <2>1. head' = head /\ moves' = moves /\ upsets' \in 0..MaxUpsets /\ handoffs' = handoffs
    BY <1>6, StackAssumption DEF CancelJob, FrameOk
  <2>2. aborted' \subseteq queue'.active
    BY <1>6, TurnSignals DEF CancelJob, Commit
  <2> QED
    BY <2>1, <2>2 DEF FrameOk, HeadsOk
<1>7. ASSUME NEW j \in Jobs, StackStep(j) PROVE FrameOk'
  <2>1. PICK rs, at, m : Goes(j, rs, at, m)
    BY <1>7, StepFrame
  <2>2. aborted' \subseteq queue'.active
    BY <2>1, TurnSignals DEF Goes
  <2> QED
    BY <2>1, <2>2 DEF Goes, FrameOk, HeadsOk
<1>8. ASSUME NEW j \in Jobs, ReleaseSlot(j) PROVE FrameOk'
  <2>1. aborted' \subseteq queue'.active
    BY <1>8, TurnSignals DEF ReleaseSlot, Commit
  <2> QED
    BY <1>8, <2>1 DEF ReleaseSlot, FrameOk, HeadsOk
<1>9. ASSUME ProcessDies PROVE FrameOk'
  <2>1. upsets' \in 0..MaxUpsets
    BY <1>9, StackAssumption DEF ProcessDies, FrameOk
  <2> QED
    BY <1>9, <2>1 DEF ProcessDies, FrameOk, HeadsOk
<1>10. ASSUME Restart PROVE FrameOk'
  <2>1. aborted' \subseteq queue'.active
    BY <1>10, TurnSignals DEF Restart, Commit
  <2> QED
    BY <1>10, <2>1 DEF Restart, FrameOk, HeadsOk
<1> QED
  BY <1>1, <1>2, <1>3, <1>4, <1>5, <1>6, <1>7, <1>8, <1>9, <1>10 DEF StackNext

\* The rows of stacks in full: types, identities, what each run knows of its
\* members, and which rows may run.
THEOREM StackDeep == StackSpec => []SoundInv
<1>1. StackInit => SoundInv
  <2> SUFFICES ASSUME StackInit PROVE SoundInv
    OBVIOUS
  <2>1. FrameOk
    BY HeadsStart, StackAssumption DEF StackInit, FrameOk
  <2> QED
    BY <2>1, StackStarts, DeepStarts DEF SoundInv
<1>2. SoundInv /\ [StackNext]_stackVars => SoundInv'
  <2> SUFFICES ASSUME SoundInv, [StackNext]_stackVars PROVE SoundInv'
    OBVIOUS
  <2>1. StackInv'
    BY StackNextKeeps DEF SoundInv
  <2>2. DeepInv'
    BY <2>1, StackNextDeep
  <2>3. FrameOk'
    BY FrameKept DEF SoundInv
  <2> QED
    BY <2>1, <2>2, <2>3 DEF SoundInv
<1> QED
  BY <1>1, <1>2, PTL DEF StackSpec

LEMMA TypeMeaning ==
  ASSUME SoundInv
  PROVE  StackTypeOK
<1>1. /\ HeadsOk /\ moves \in 0..MaxMoves /\ upsets \in 0..MaxUpsets /\ aborted \subseteq queue.active
      /\ \A t \in handoffs : t.job \in Jobs /\ t.stale \subseteq Jobs
  BY DEF SoundInv, FrameOk, StackInv, HandsOk
<1>2. QueueTypeOK
  BY DEF SoundInv, StackInv, QueueOk, Sound, QueueTypeOK
<1>3. ASSUME NEW j \in Jobs
      PROVE  /\ rows[j].state \in StackStates /\ rows[j].head \in Heads /\ rows[j].key \in Nat
             /\ rows[j].over \in Layouts \union {<<p>> : p \in StackPulls}
             /\ \A i \in DOMAIN rows[j].rail :
                  /\ rows[j].rail[i].pin \in Heads /\ rows[j].rail[i].job \in Jobs \union {0}
                  /\ rows[j].rail[i].state \in {"queued", "reviewing", "done", "failed", "skipped"}
             /\ pc[j] \in StackAwaits \union {"idle", "returned", "review"}
             /\ mem[j].i \in 0..Len(rows[j].over) /\ mem[j].attempt \in 0..MemberRetries
  <2>1. RowFine(rows, j) /\ RunFine(rows, pc[j], mem[j], j)
    BY DEF SoundInv, DeepInv, Deep, Typed
  <2>2. RunOk(rows, queue, pc[j], mem[j], j) /\ Len(rows[j].over) \in Nat
    BY DEF SoundInv, StackInv, RowsOk, RowOk
  <2>3. NoLocals.i = 0 /\ NoLocals.attempt = 0 /\ MemberRetries \in Nat
    BY StackAssumption DEF NoLocals
  <2>4. mem[j].i \in 0..Len(rows[j].over) /\ mem[j].attempt \in 0..MemberRetries
    BY <2>1, <2>2, <2>3 DEF RunFine, RunOk, LocalsOk
  <2>5. pc[j] \in StackAwaits \union {"idle", "returned", "review"}
    BY <2>1 DEF RunFine, Work
  <2>6. \A i \in DOMAIN rows[j].rail :
          /\ rows[j].rail[i].pin \in Heads /\ rows[j].rail[i].job \in Jobs \union {0}
          /\ rows[j].rail[i].state \in {"queued", "reviewing", "done", "failed", "skipped"}
    BY <2>1 DEF RowFine, EntryFine, IsPull, RailStates
  <2> QED
    BY <2>1, <2>4, <2>5, <2>6 DEF RowFine
<1> QED
  BY <1>1, <1>2, <1>3 DEF StackTypeOK, HeadsOk

LEMMA RunsMeaning ==
  ASSUME SoundInv
  PROVE  OneRunPerRow /\ WaitsForRunning
<1>1. StackInv /\ DeepInv /\ InlineOk(rows, queue, pc, mem, handoffs)
  BY DEF SoundInv, DeepInv, Deep
<1>2. ASSUME NEW j \in Jobs
      PROVE  /\ \A x : x \in RunsOf(j) <=> \/ x = <<"slot", j>> /\ pc[j] \in Work
                                           \/ \E s \in Jobs : x = <<"inline", s>> /\ Inline(rows, pc, mem, s, j)
             /\ RunsOf(j) # {} <=> Worked(rows, pc, mem, j)
  <2>1. \A x : x \in RunsOf(j) <=> \/ x = <<"slot", j>> /\ pc[j] \in Work
                                   \/ \E s \in Jobs : x = <<"inline", s>> /\ Inline(rows, pc, mem, s, j)
    BY DEF RunsOf, Work, Inline, MemberRow
  <2> QED
    BY <2>1 DEF Worked
<1>3. ASSUME NEW j \in Jobs PROVE Cardinality(RunsOf(j)) <= 1
  <2>1. ASSUME NEW x \in RunsOf(j), NEW y \in RunsOf(j) PROVE x = y
    <3>1. pc[j] \in Work => \A s \in Jobs : ~Inline(rows, pc, mem, s, j)
      BY <1>1, InlineJob DEF Work, StackAwaits
    <3>2. \A s, z \in Jobs : Inline(rows, pc, mem, s, j) /\ Inline(rows, pc, mem, z, j) => s = z
      BY <1>1 DEF InlineOk
    <3> QED
      BY <1>2, <3>1, <3>2
  <2>2. CASE RunsOf(j) = {}
    BY <2>2, FS_EmptySet
  <2>3. CASE RunsOf(j) # {}
    <3>1. PICK x : x \in RunsOf(j)
      BY <2>3
    <3>2. RunsOf(j) = {x}
      BY <2>1, <3>1
    <3>3. Cardinality({x}) = 1
      BY FS_Singleton
    <3>4. Cardinality(RunsOf(j)) = 1
      BY <3>2, <3>3
    <3> HIDE DEF RunsOf
    <3> QED
      BY <3>4
  <2> QED
    BY <2>2, <2>3
<1>4. ASSUME NEW j \in Jobs, Worked(rows, pc, mem, j) PROVE AtWork(rows[j])
  <2>1. CASE pc[j] \in Work
    BY <1>1, <2>1 DEF DeepInv, Deep, RunFine
  <2>2. CASE \E s \in Jobs : Inline(rows, pc, mem, s, j)
    BY <1>1, <2>2, InlineJob
  <2> QED
    BY <1>4, <2>1, <2>2 DEF Worked
<1>5. OneRunPerRow
  <2> SUFFICES ASSUME queue.started, NEW j \in Jobs
               PROVE  /\ Cardinality(RunsOf(j)) <= 1
                      /\ rows[j].state = "running" => RunsOf(j) # {}
                      /\ rows[j].state \in {"queued", "completed", "failed"} => RunsOf(j) = {}
    BY DEF OneRunPerRow
  <2>1. rows[j].state = "running" => RunsOf(j) # {}
    BY <1>1, <1>2 DEF InlineOk
  <2>2. rows[j].state \in {"queued", "completed", "failed"} => RunsOf(j) = {}
    BY <1>2, <1>4, StateNames DEF AtWork
  <2> QED
    BY <1>3, <2>1, <2>2
<1>6. WaitsForRunning
  <2> SUFFICES ASSUME NEW s \in Jobs, pc[s] = "wait"
               PROVE  Terminal(rows[MemberRow(s).job]) \/ RunsOf(MemberRow(s).job) # {}
    BY DEF WaitsForRunning
  <2> DEFINE j == MemberRow(s).job
  <2>1. AtEntry(rows, "wait", MemberRow(s))
    BY <1>1 DEF DeepInv, Deep, RunFine, MemberRow
  <2>2. j \in Jobs /\ rows[j].state \in {"running"} \union TerminalStates
    BY <2>1 DEF AtEntry
  <2>3. queue.started
    <3>1. s \in queue.active
      BY <1>1 DEF StackInv, RunOk
    <3> QED
      BY <1>1, <3>1 DEF StackInv, QueueOk, Stopped
  <2> HIDE DEF j
  <2>4. rows[j].state = "running" => RunsOf(j) # {}
    BY <1>1, <1>2, <2>2, <2>3 DEF InlineOk
  <2>5. Terminal(rows[j]) \/ RunsOf(j) # {}
    BY <2>2, <2>4 DEF Terminal
  <2> QED
    BY <2>5 DEF j
<1> QED
  BY <1>5, <1>6

LEMMA RailMeaning ==
  ASSUME SoundInv
  PROVE  UniqueRows /\ RailAnswered
<1>1. Unique(rows) /\ \A s \in Jobs : RunFine(rows, pc[s], mem[s], s)
  BY DEF SoundInv, DeepInv, Deep
<1>2. UniqueRows
  <2> SUFFICES ASSUME NEW i \in Jobs, NEW j \in Jobs, Exists(i), Exists(j), i # j
               PROVE  ~(/\ IsStack(rows[i]) = IsStack(rows[j]) /\ Top(rows[i].over) = Top(rows[j].over)
                        /\ rows[i].head = rows[j].head /\ rows[i].key = rows[j].key
                        /\ IsStack(rows[i]) /\ rows[i].key = 0 => rows[i].over = rows[j].over)
    BY DEF UniqueRows
  <2>1. ~SameRow(rows[i], rows[j])
    BY <1>1 DEF Unique, Exists
  <2> QED
    BY <2>1 DEF SameRow
<1>3. RailAnswered
  <2> SUFFICES ASSUME NEW s \in Jobs, rows[s].state \in {"completed", "failed"}, pc[s] \in {"idle", "returned"},
                      NEW i \in DOMAIN rows[s].rail
               PROVE  LET e == rows[s].rail[i]
                      IN  \/ e.state \in {"done", "failed", "skipped"}
                          \/ e.state = "reviewing" /\ Active(rows[e.job])
                          \/ /\ e.state = "reviewing" /\ Terminal(rows[e.job])
                             /\ rows[s].state = "completed" /\ FollowedUp(s)
    BY DEF RailAnswered
  <2>1. RailFine(rows, s)
    BY <1>1 DEF RunFine, Work, StackAwaits
  <2>2. (\E k \in DOMAIN rows[s].rail : DeadCover(rows, rows[s].rail[k])) => FollowedUp(s)
    BY NoJobZero DEF DeadCover, FollowedUp
  <2> HIDE DEF FollowedUp, DeadCover, Active, Terminal
  <2> QED
    BY <2>1, <2>2 DEF RailFine
<1> QED
  BY <1>2, <1>3

\* Whatever triggers, deliveries, pushes, cancellations and deaths come, for
\* every set of layouts and every number of rows, slots and retries: the tables
\* of stacks are of their types, no two rows have one identity (db.ts:130), a
\* row says "running" exactly while one run works on it, a stack waits only for
\* a job somebody runs, and a rail it leaves behind is answered for
\* (runStackJob and runJob, pipeline.ts; enqueue and staleOpenStackJobs, store.ts).
THEOREM RowsAndRailAlways == StackSpec => []RowsAndRail
<1>1. SoundInv => RowsAndRail
  BY TypeMeaning, RunsMeaning, RailMeaning DEF RowsAndRail
<1> QED
  BY <1>1, StackDeep, PTL

\* Where a turn that belongs to no run, or to another, leaves a run.
LEMMA TurnPlaces ==
  ASSUME NEW rs, NEW q, NEW stopped, NEW moved, Turn(rs, q, stopped, moved), NEW s \in Jobs, s \notin DOMAIN moved,
         pc'[s] = "post"
  PROVE  pc[s] = "post"
BY DEF Turn, EnteredAt

LEMMA SummaryStep ==
  ASSUME SoundInv, [StackNext]_stackVars, NEW s \in Jobs, pc[s] # "post", pc'[s] = "post",
         NEW i \in DOMAIN rows'[s].rail
  PROVE  LET e == rows'[s].rail[i]
         IN  /\ e.state # "queued"
             /\ e.state = "done" => rows'[e.job].head = e.pin /\ rows'[e.job].state \in {"completed", "stale"}
             /\ e.state = "reviewing" => Active(rows'[e.job])
<1>1. Publishes(s) /\ pc[s] \in Stage3
  <2>1. \A rs, q, stopped : ~Commit(rs, q, stopped)
    <3>1. DOMAIN <<>> = {}
      OBVIOUS
    <3> QED
      BY <3>1, TurnPlaces DEF Commit
  <2>2. ASSUME NEW j \in Jobs, StackStep(j), NEW rs, NEW at, NEW m, Goes(j, rs, at, m) PROVE j = s /\ at = "post"
    <3> DEFINE moved == [k \in {j} |-> [at |-> at, mem |-> m]]
    <3>1. Turn(rs, queue, {}, moved) /\ DOMAIN moved = {j} /\ moved[j].at = at
      BY <2>2 DEF Goes
    <3> HIDE DEF moved
    <3>2. j = s
      BY <3>1, TurnPlaces
    <3>3. pc'[s] = at
      <4>1. pc'[s] = (IF s \notin queue.active THEN "idle" ELSE moved[s].at)
        BY <3>1, <3>2 DEF Turn
      <4> QED
        BY <3>1, <3>2, <4>1
    <3> QED
      BY <3>2, <3>3
  <2>3. ASSUME NEW j \in Jobs, StackStep(j) PROVE Publishes(s) /\ pc[s] \in Stage3
    <3>1. ~Onward(j)
      BY <2>2, <2>3 DEF Onward
    <3>2. Publishes(j) /\ pc[j] \in Stage3
      BY <2>3, <3>1, StepOnward
    <3>3. j = s
      BY <2>2, <2>3, <3>2 DEF Publishes
    <3> QED
      BY <3>2, <3>3
  <2>4. pc' # pc
    OBVIOUS
  <2>5. ~(UNCHANGED stackVars) /\ \A p : ~MovePull(p)
    BY <2>4 DEF stackVars, MovePull
  <2>6. ~ProcessDies
    BY DEF ProcessDies
  <2>7. /\ \A p : ~PushDelivery(p)
        /\ \A l : ~Trigger(l)
        /\ \A t : ~DispatchStack(t)
        /\ \A j : ~CancelJob(j) /\ ~ReleaseSlot(j)
        /\ ~Restart
    BY <2>1 DEF PushDelivery, Trigger, DispatchStack, CancelJob, ReleaseSlot, Restart
  <2> QED
    BY <2>3, <2>5, <2>6, <2>7 DEF StackNext
<1> DEFINE b == Reconciled(s)
           c == mem[s].covered \ Ended(s)
<1>2. /\ \A k \in DOMAIN b[s].rail : Settled(b, c, b[s].rail[k], k)
      /\ \A k \in DOMAIN b[s].rail : b[s].rail[k].state = "reviewing" => b[s].rail[k].job \in Jobs /\ Active(b[b[s].rail[k].job])
  <2>1. pc[s] # "inline"
    BY <1>1 DEF Stage3
  <2> QED
    BY <1>1, <2>1, ReconciledFine DEF SoundInv
<1>3. \A j \in Jobs : rows'[j] = b[j]
  <2>1. rows' = EnteredAll(b, queue.active \ queue.active)
    BY <1>1 DEF Publishes, Goes, Turn
  <2> HIDE DEF b
  <2> QED
    BY <2>1 DEF EnteredAll
<1> HIDE DEF b, c
<1>4. rows'[s].rail[i] = b[s].rail[i] /\ i \in DOMAIN b[s].rail
  BY <1>3
<1> HIDE DEF Active
<1> QED
  BY <1>2, <1>3, <1>4 DEF Settled, Reviewed

\* The summary is started over settled members only: one shown done was reviewed
\* at the head the summary prints, one still in review has a job that will
\* answer for it (phases 2 to 5 of runStackJob, pipeline.ts).
THEOREM SummaryAlwaysSettled == StackSpec => SummaryIsSettled
<1>1. SoundInv /\ [StackNext]_stackVars =>
        [\A s \in Jobs : pc[s] # "post" /\ pc'[s] = "post" =>
           \A i \in DOMAIN rows'[s].rail :
             LET e == rows'[s].rail[i]
             IN  /\ e.state # "queued"
                 /\ e.state = "done" => rows'[e.job].head = e.pin /\ rows'[e.job].state \in {"completed", "stale"}
                 /\ e.state = "reviewing" => Active(rows'[e.job])]_stackVars
  BY SummaryStep
<1> QED
  BY <1>1, StackDeep, PTL DEF StackSpec, SummaryIsSettled
=============================================================================

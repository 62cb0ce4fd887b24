------------------------------- MODULE Findings -------------------------------
(***************************************************************************)
(* The findings of one pull: the rows Maomao keeps (findings in              *)
(* jobs/store.ts), the review threads on the forge, and who writes both: the *)
(* review runs (reconciliation, publication and thread closing of            *)
(* jobs/pipeline.ts with findings/*.ts) and the people who answer in the     *)
(* threads.  A turn of the event loop is one step.                           *)
(***************************************************************************)
EXTENDS Naturals, Sequences, FiniteSetsExt

CONSTANTS Fingerprints,
          Protected,     \* findings isProtectedFinding spares from remarks
          MaxThreads,    \* bound: threads of one finding
          MaxRuns,       \* bound: review runs
          MaxTouches     \* bound: commands, remarks and clicks of people, and process deaths

ASSUME FindingsAssumption ==
  /\ IsFiniteSet(Fingerprints) /\ Protected \subseteq Fingerprints
  /\ MaxThreads \in Nat \ {0} /\ MaxRuns \in Nat /\ MaxTouches \in Nat

VARIABLES
  findings,   \* SQLite: the row of each fingerprint
  threads,    \* the forge: the threads of each fingerprint, oldest first
  remarks,    \* the forge: fingerprints a maintainer called rejected by design
  marked,     \* the forge: whether the head has a review with Maomao's marker
  pass,       \* memory: the run, and the snapshot it works from
  orders,     \* memory: command handlers that await the forge
  buried,     \* history: fingerprints whose last command is a dismissal
  runs,       \* runs so far (bound)
  touches     \* acts of people and deaths so far (bound)

findingVars == <<findings, threads, remarks, marked, pass, orders, buried, runs, touches>>

-----------------------------------------------------------------------------
(* Rows *)

Live       == {"open", "still_valid", "uncertain", "moved"}
Statuses   == Live \union {"resolved", "dismissed"}
NoFinding  == [status |-> "none", thread |-> 0]
Indices(f) == DOMAIN threads[f]
Listed(f)  == {i \in Indices(f) : threads[f][i] # "gone"}

\* upsertFinding of a caller that reopens nothing.
Upserted(r, status, t) ==
  IF r.status = "dismissed" /\ status # "dismissed" THEN r
  ELSE [status |-> status, thread |-> IF t = 0 THEN r.thread ELSE t]

Dismissed(r, t) == IF r.status = "dismissed" THEN r ELSE Upserted(r, "dismissed", t)
Reopened(r, t)  == IF r.status \in {"dismissed", "none"} THEN [status |-> "open", thread |-> t] ELSE r

-----------------------------------------------------------------------------
(* A review run *)

NotItem == [status |-> "none", thread |-> 0, already |-> FALSE]
NoPass  == [at |-> "idle", seen |-> [f \in Fingerprints |-> <<>>],
            over |-> {}, items |-> [f \in Fingerprints |-> NotItem],
            posted |-> {}, left |-> {}, failed |-> {}, touched |-> {}]
RunAt(a) == pass.at = a

\* The run throws (stale, aborted, an error) and its catch block ends it.
RunUnwinds == pass' = NoPass

\* A run at a new head, or at the same one again (re-review, retry, restart).
RunStarts ==
  /\ RunAt("idle") /\ runs < MaxRuns /\ runs' = runs + 1
  /\ pass' = [NoPass EXCEPT !.at = "threads"]
  /\ marked' \in {marked, FALSE}
  /\ UNCHANGED <<findings, threads, remarks, orders, buried, touches>>

\* reconcileAndRoute: listDiscussions has answered.
RunListsThreads ==
  /\ RunAt("threads")
  /\ \/ RunUnwinds
     \/ pass' = [pass EXCEPT !.at = "remarks",
                   !.seen = [f \in Fingerprints |-> [i \in Listed(f) |-> threads[f][i]]]]
  /\ UNCHANGED <<findings, threads, remarks, marked, orders, buried, runs, touches>>

\* collectPriorFindings and the part of classifyPriorFindings before the
\* verifier: the newest thread listed, else the row, says where a finding stands.
Classified(r, seen) ==
  LET unseen  == DOMAIN seen = {}
      t       == IF unseen THEN r.thread ELSE Max(DOMAIN seen)
      settled == IF unseen THEN r.status = "resolved" ELSE seen[t] = "closed"
  IN  IF r.status = "none" /\ unseen THEN NotItem
      ELSE IF r.status = "dismissed" THEN [status |-> "dismissed", thread |-> t, already |-> FALSE]
      ELSE IF settled THEN [status |-> "resolved", thread |-> t, already |-> TRUE]
      ELSE [status |-> "verify", thread |-> t, already |-> FALSE]

\* The comments have answered, or could not be loaded: standing remarks dismiss
\* (persistFingerprintOverrides), then the prior findings are collected.
RunReadsRemarks ==
  /\ RunAt("remarks")
  /\ \/ RunUnwinds /\ UNCHANGED findings
     \/ \E over \in {{}, remarks \ Protected} :
          LET rows == [f \in Fingerprints |->
                         IF f \in over THEN Dismissed(findings[f], findings[f].thread) ELSE findings[f]]
          IN  /\ findings' = rows
              /\ pass' = [pass EXCEPT !.at = "verifier", !.over = over,
                            !.items = [f \in Fingerprints |-> Classified(rows[f], pass.seen[f])]]
  /\ UNCHANGED <<threads, remarks, marked, orders, buried, runs, touches>>

\* runVerifier and acceptClassification: any answer, or "uncertain" for all.
Verdicts == {"resolved", "still_valid", "moved", "uncertain"}

RunVerifies ==
  /\ RunAt("verifier")
  /\ \/ RunUnwinds
     \/ \E v \in [{f \in Fingerprints : pass.items[f].status = "verify"} -> Verdicts] :
          pass' = [pass EXCEPT !.at = "summaries",
                     !.items = [f \in Fingerprints |->
                       IF f \in DOMAIN v THEN [@[f] EXCEPT !.status = v[f]] ELSE @[f]]]
  /\ UNCHANGED <<findings, threads, remarks, marked, orders, buried, runs, touches>>

\* findingsForPublish: what the aggregator found again, less what is dismissed
\* or has its thread already, and what moved.
Publishable(found) ==
  LET with(S) == {f \in Fingerprints : pass.items[f].status \in S}
  IN  (found \ with({"dismissed", "still_valid", "uncertain"})) \union with({"moved"})

\* persistClassifications; a dismissed item meets a dismissed row or buries it.
Persisted(f) ==
  LET item == pass.items[f]
  IN  IF item.status = "none" \/ (item.status = "dismissed" /\ findings[f].status = "dismissed")
      THEN findings[f] ELSE Upserted(findings[f], item.status, item.thread)

\* After publishReview: the classifications are written, the threads read again.
RunPersists(posted) ==
  /\ findings' = [f \in Fingerprints |-> Persisted(f)]
  /\ pass' = [pass EXCEPT !.at = "refresh", !.posted = posted]

\* publishReview up to its POST: a review of this head is taken as it is; the
\* remarks dismiss what they meet; an empty review need not be posted.
RunPublishes ==
  /\ RunAt("summaries")
  /\ \/ RunUnwinds /\ UNCHANGED findings
     \/ marked /\ RunPersists({})
     \/ ~marked /\ \E found \in SUBSET Fingerprints :
          LET all  == Publishable(found)
              hit  == all \intersect pass.over
              kept == all \ pass.over
              rows == [f \in Fingerprints |-> IF f \in hit THEN Dismissed(findings[f], 0) ELSE findings[f]]
          IN  /\ findings' = rows
              /\ pass' = [pass EXCEPT !.at = "post", !.posted = kept]
  /\ UNCHANGED <<threads, remarks, marked, orders, buried, runs, touches>>

\* The forge takes the review with the comments on S.
Appears(S) ==
  /\ \A f \in S : Len(threads[f]) < MaxThreads
  /\ threads' = [f \in Fingerprints |-> IF f \in S THEN Append(threads[f], "open") ELSE threads[f]]
  /\ marked' = TRUE

\* The POST is answered: taken with the comments that fit the diff, or none;
\* taken, and the run failed or went stale; or refused.
RunPosts ==
  /\ RunAt("post")
  /\ \/ \E S \in SUBSET pass.posted : Appears(S) /\ (RunPersists(S) \/ (RunUnwinds /\ UNCHANGED findings))
     \/ RunUnwinds /\ UNCHANGED <<findings, threads, marked>>
  /\ UNCHANGED <<remarks, orders, buried, runs, touches>>

\* Mutant: a moved finding's thread is closed whether or not it was republished.
ClosesUnposted(items, posted) ==
  {f \in Fingerprints : LET i == items[f] IN
     i.status \in {"resolved", "dismissed", "moved"} /\ ~i.already /\ i.thread # 0}

\* applyReconciliationThreads: the threads it means to close.
Closes(items, posted) ==
  {f \in Fingerprints : LET i == items[f] IN
     /\ i.status \in {"resolved", "dismissed", "moved"} /\ ~i.already /\ i.thread # 0
     /\ i.status = "moved" => f \in posted}

\* persistThreadsAsFindings: what its loop over the threads of f, oldest first,
\* leaves of the row.
Threaded(r, f, published) ==
  LET heard == {t \in Listed(f) : threads[f][t] = "open" \/ ~published}
      keeps == IF published THEN {"moved", "still_valid", "uncertain"} ELSE Live \union {"resolved"}
  IN  IF r.status = "dismissed" \/ heard = {} THEN r
      ELSE Upserted(r, IF \E t \in heard : threads[f][t] = "closed" THEN "resolved"
                       ELSE IF r.status \in keeps THEN r.status ELSE "open", Max(heard))

\* The closing loop with S left to close and F failed.  After its last answer
\* the rows of failed resolves are downgraded (setFindingStatus), whatever they
\* say by then, and the run completes.
ClosesOn(items, rows, S, F) ==
  IF S # {} THEN findings' = rows /\ pass' = [pass EXCEPT !.at = "close", !.items = items, !.left = S, !.failed = F]
  ELSE /\ pass' = NoPass
       /\ findings' = [f \in Fingerprints |->
            IF f \in F /\ items[f].status = "resolved" THEN [rows[f] EXCEPT !.status = "uncertain"] ELSE rows[f]]

\* The second listing has answered or failed; attachStoredThreadIds fills in
\* threads the snapshot lacks, and the closing begins.
RunRefreshes ==
  /\ RunAt("refresh")
  /\ \E heard \in BOOLEAN :
       LET rows  == IF heard THEN [f \in Fingerprints |-> Threaded(findings[f], f, f \in pass.posted)] ELSE findings
           items == [f \in Fingerprints |->
                      [pass.items[f] EXCEPT !.thread = IF @ = 0 THEN rows[f].thread ELSE @]]
       IN  ClosesOn(items, rows, Closes(items, pass.posted), {})
  /\ UNCHANGED <<threads, remarks, marked, orders, buried, runs, touches>>

\* resolveDiscussion of one item has answered: done, gone, or failed, the reply
\* of a resolve that was done being lost too.  Nobody looks at the job here.
RunCloses(f) ==
  LET t == pass.items[f].thread
  IN  /\ RunAt("close") /\ f \in pass.left
      /\ \E done, failed \in BOOLEAN :
           /\ done => threads[f][t] # "gone"
           /\ ~done => failed = (threads[f][t] # "gone")
           /\ threads' = IF done THEN [threads EXCEPT ![f][t] = "closed"] ELSE threads
           /\ ClosesOn(pass.items, findings, pass.left \ {f}, IF failed THEN pass.failed \union {f} ELSE pass.failed)
      /\ UNCHANGED <<remarks, marked, orders, buried, runs, touches>>

-----------------------------------------------------------------------------
(* People *)

Touched(f) == pass' = IF RunAt("idle") THEN pass ELSE [pass EXCEPT !.touched = @ \union {f}]
Acts(f)    == touches < MaxTouches /\ touches' = touches + 1 /\ Touched(f)

\* "@maomao ignore" or "reopen" in thread t: the row is written, then the
\* handler awaits the forge (handleReviewCommentWebhook).
Dismiss(f, t) ==
  /\ Acts(f) /\ t \in Listed(f)
  /\ findings' = [findings EXCEPT ![f] = Dismissed(@, t)]
  /\ orders' = orders \union {[finding |-> f, thread |-> t, state |-> "closed"]}
  /\ buried' = buried \union {f}
  /\ UNCHANGED <<threads, remarks, marked, runs>>

Reopen(f, t) ==
  /\ Acts(f) /\ t \in Listed(f)
  /\ findings' = [findings EXCEPT ![f] = Reopened(@, t)]
  /\ orders' = orders \union {[finding |-> f, thread |-> t, state |-> "open"]}
  /\ buried' = buried \ {f}
  /\ UNCHANGED <<threads, remarks, marked, runs>>

\* The forge has done what a handler asked, or refused; either way it answers 200.
OrderAnswered(o) ==
  /\ o \in orders /\ orders' = orders \ {o} /\ Touched(o.finding)
  /\ \/ threads[o.finding][o.thread] # "gone" /\ threads' = [threads EXCEPT ![o.finding][o.thread] = o.state]
     \/ UNCHANGED threads
  /\ UNCHANGED <<findings, remarks, marked, buried, runs, touches>>

\* A maintainer answers "by design" in a thread; a thread is closed, opened or
\* deleted by hand.
Remarks(f) ==
  /\ Acts(f) /\ Listed(f) # {} /\ f \notin remarks /\ remarks' = remarks \union {f}
  /\ UNCHANGED <<findings, threads, marked, orders, buried, runs>>

Clicks(f, t, s) ==
  /\ Acts(f) /\ t \in Listed(f) /\ threads[f][t] # s
  /\ threads' = [threads EXCEPT ![f][t] = s]
  /\ UNCHANGED <<findings, remarks, marked, orders, buried, runs>>

FindingsDie ==
  /\ touches < MaxTouches /\ touches' = touches + 1
  /\ ~RunAt("idle") \/ orders # {}
  /\ pass' = NoPass /\ orders' = {}
  /\ UNCHANGED <<findings, threads, remarks, marked, buried, runs>>

-----------------------------------------------------------------------------
FindingsInit ==
  /\ findings = [f \in Fingerprints |-> NoFinding]
  /\ threads = [f \in Fingerprints |-> <<>>]
  /\ remarks = {} /\ marked = FALSE /\ pass = NoPass /\ orders = {} /\ buried = {}
  /\ runs = 0 /\ touches = 0

FindingsNext ==
  \/ RunStarts \/ RunListsThreads \/ RunReadsRemarks \/ RunVerifies \/ RunPublishes \/ RunPosts \/ RunRefreshes
  \/ \E f \in Fingerprints :
       \/ RunCloses(f) \/ Remarks(f)
       \/ \E t \in 1..MaxThreads : Dismiss(f, t) \/ Reopen(f, t) \/ \E s \in {"open", "closed", "gone"} : Clicks(f, t, s)
  \/ \E o \in orders : OrderAnswered(o)
  \/ FindingsDie

FindingsSpec == FindingsInit /\ [][FindingsNext]_findingVars

-----------------------------------------------------------------------------
(* Properties *)

FindingsTypeOK ==
  /\ \A f \in Fingerprints :
       /\ findings[f].status \in Statuses \union {"none"} /\ findings[f].thread \in Indices(f) \union {0}
       /\ pass.items[f].status \in Verdicts \union {"none", "verify", "dismissed"}
       /\ pass.items[f].thread \in Indices(f) \union {0}
       /\ threads[f] \in Seq({"open", "closed", "gone"}) /\ Len(threads[f]) <= MaxThreads
  /\ remarks \subseteq Fingerprints /\ marked \in BOOLEAN
  /\ pass.left \union pass.failed \union pass.over \union pass.touched \subseteq Fingerprints
  /\ \A o \in orders : o.thread \in Indices(o.finding)

\* "Moved without a replacement comment" must leave the thread open (README.md:665):
\* when a run closes a thread nobody else touched, the finding is resolved or
\* dismissed in the row, or has another thread still open.
ClosesOnlySettled ==
  [][\A f \in pass.left \ (pass'.left \union pass.touched) : threads'[f] # threads[f] =>
       \/ findings[f].status \in {"resolved", "dismissed"}
       \/ \E i \in Indices(f) : threads'[f][i] = "open"]_findingVars

\* "The same fingerprint will not be re-reported on later SHAs of that PR unless
\* someone `@maomao reopen`s it" (README.md:680): a run posts no finding that was
\* dismissed before it began, nobody having said otherwise since.
NeverReportedAgain ==
  [][\A f \in buried \ pass.touched : Len(threads'[f]) = Len(threads[f])]_findingVars
=============================================================================

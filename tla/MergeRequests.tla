----------------------------- MODULE MergeRequests -----------------------------
(***************************************************************************)
(* The reviews of one GitLab merge request: the events its instance sends    *)
(* (gitlab/webhooks.ts), in any order and as often as it likes, the jobs     *)
(* they make, the run of a job from its diff and checkout (pipeline.ts,      *)
(* checkout.ts) to its review, which GitLabProvider publishes call by call   *)
(* (gitlab/provider.ts), through lost replies and deaths of the process.     *)
(***************************************************************************)
EXTENDS Integers, FiniteSets, Sequences

CONSTANTS MaxHeads,      \* bound: heads pushed
          Spots,         \* diff lines a finding may be on
          ReviewDrafts,  \* config.reviewDrafts
          PostEmptyReview, \* config.postEmptyReview
          AllowApprove,  \* allow_approve of the connection
          MaxEdits,      \* bound: other events of the request
          MaxRetakes,    \* bound: retries of the job
          MaxMishaps     \* bound: failed calls, lost replies, deaths

ASSUME MergeRequestAssumption ==
  /\ MaxHeads \in Nat \ {0} /\ IsFiniteSet(Spots) /\ {ReviewDrafts, PostEmptyReview, AllowApprove} \subseteq BOOLEAN
  /\ {MaxEdits, MaxRetakes, MaxMishaps} \subseteq Nat

Heads == 1..MaxHeads

VARIABLES
  request,  \* the instance: head, state and draft of the merge request
  events,   \* the instance: merge request events it may deliver
  answered, \* SQLite: the events whose delivery id is claimed
  mergedPull, \* SQLite: merged_pulls
  allPaused,  \* SQLite: global_pauses
  mrJobs,   \* SQLite: the job of each head
  run,      \* memory: the pipeline run
  posts,    \* the instance: Maomao's notes and discussions on the request
  edits, retakes, mishaps   \* bounds' counters

requestVars == <<request, events, answered, mergedPull, allPaused, mrJobs, run, posts, edits, retakes, mishaps>>

NoJob  == [state |-> "none", accepted |-> {}, event |-> "none"]
NoRun  == [at |-> "idle", head |-> 0, diffOf |-> 0, found |-> {}, todo |-> {}, accepted |-> {},
           unplaced |-> {}, warned |-> FALSE, own |-> FALSE]
Waits  == {"queued", "running"}
Over   == {"stale", "cancelled"}

Post(kind, h, spot, diffOf, event) ==
  [kind |-> kind, head |-> h, spot |-> spot, diffOf |-> diffOf, event |-> event]
Approval(h)    == Post("approval", h, 0, 0, "none")
SummariesOf(h) == {p \in posts : p.kind = "summary" /\ p.head = h}
InlineOf(h)    == {p.spot : p \in {q \in posts : q.kind = "inline" /\ q.head = h}}
ListedOf(h)    == {p.spot : p \in {q \in posts : q.kind = "listed" /\ q.head = h}}

-----------------------------------------------------------------------------
(* The instance *)

Event(action, moved) ==
  [action |-> action, head |-> request'.head, moved |-> moved, draft |-> request'.draft, n |-> Cardinality(events)]

Instance ==
  UNCHANGED <<answered, mergedPull, allPaused, mrJobs, run, posts, retakes, mishaps>>

\* A push, forced or not: a diff version of its own, and an update with oldrev.
Pushes ==
  /\ request.head < MaxHeads /\ request.state = "opened"
  /\ request' = [request EXCEPT !.head = @ + 1]
  /\ events' = events \cup {Event("update", TRUE)} /\ UNCHANGED edits /\ Instance

\* Edits of the title, the end of a draft, a close, a reopening, the merge.
Edits ==
  /\ edits < MaxEdits /\ edits' = edits + 1 /\ Instance
  /\ \/ request.state = "opened" /\ request' = [request EXCEPT !.draft = FALSE]
        /\ events' = events \cup {Event("update", FALSE)}
     \/ request.state = "opened" /\ request' = [request EXCEPT !.state = "closed"]
        /\ events' = events \cup {Event("close", FALSE)}
     \/ request.state = "closed" /\ request' = [request EXCEPT !.state = "opened"]
        /\ events' = events \cup {Event("reopen", FALSE)}
     \/ request.state = "opened" /\ request' = [request EXCEPT !.state = "merged"]
        /\ events' = events \cup {Event("merge", FALSE)}

-----------------------------------------------------------------------------
(* gitlab/webhooks.ts *)

Claims(e) == answered' = answered \cup {e}
Kept      == UNCHANGED <<request, events, posts, edits, retakes, mishaps>>

\* cancelJobsForPull and cancelJobsForType; the abort reaches the run by its row.
Cancelled == [h \in Heads |-> IF mrJobs[h].state \in Waits THEN [mrJobs[h] EXCEPT !.state = "cancelled"]
                              ELSE mrJobs[h]]

MarkPullMerged == mergedPull' = TRUE
HasMergedPull  == mergedPull

\* The marker first, then the jobs, then the claim.
DeliversMerge(e) ==
  /\ e.action = "merge"
  /\ MarkPullMerged /\ mrJobs' = Cancelled /\ Claims(e) /\ UNCHANGED <<allPaused, run>> /\ Kept

\* shouldHandleMergeRequest.
ShouldHandle(e) ==
  /\ e.action \in {"open", "reopen", "update"}
  /\ e.action = "update" => e.moved
  /\ ~e.draft \/ ReviewDrafts

\* Mutant: a head that is enqueued again is queued again.
EnqueuesAnew(h) ==
  [g \in Heads |->
     IF g # h /\ mrJobs[g].state \notin Over \cup {"none"} THEN [mrJobs[g] EXCEPT !.state = "stale"]
     ELSE IF g = h THEN [NoJob EXCEPT !.state = "queued"] ELSE mrJobs[g]]

\* store.enqueue for one head: the other heads' jobs go stale, whatever they
\* were, and a head that has a row keeps it.
Enqueued(h) ==
  [g \in Heads |->
     IF g # h /\ mrJobs[g].state \notin Over \cup {"none"} THEN [mrJobs[g] EXCEPT !.state = "stale"]
     ELSE IF g = h /\ mrJobs[g].state = "none" THEN [NoJob EXCEPT !.state = "queued"]
     ELSE mrJobs[g]]

\* Mutant: the merged marker is not asked.
DeliversLate(e) ==
  /\ ShouldHandle(e)
  /\ IF allPaused THEN UNCHANGED mrJobs ELSE mrJobs' = Enqueued(e.head)
  /\ Claims(e) /\ UNCHANGED <<mergedPull, allPaused, run>> /\ Kept

\* enqueueMergeRequestJob: a paused delivery is claimed, one of a merged
\* request only logged.
DeliversChange(e) ==
  /\ ShouldHandle(e)
  /\ IF allPaused THEN Claims(e) /\ UNCHANGED mrJobs
     ELSE IF HasMergedPull THEN UNCHANGED <<answered, mrJobs>>
     ELSE mrJobs' = Enqueued(e.head) /\ Claims(e)
  /\ UNCHANGED <<mergedPull, allPaused, run>> /\ Kept

\* handleGitLabWebhook of a delivery that is not yet claimed.  What is ignored
\* is logged and may come again.
Delivers == \E e \in events \ answered : DeliversMerge(e) \/ DeliversChange(e)

SetGlobalPause == ~allPaused /\ allPaused' = TRUE
EndGlobalPause == allPaused /\ allPaused' = FALSE

\* POST /pause/global and its end.
Switches ==
  /\ edits < MaxEdits /\ edits' = edits + 1
  /\ \/ SetGlobalPause /\ mrJobs' = Cancelled
     \/ EndGlobalPause /\ UNCHANGED mrJobs
  /\ UNCHANGED <<request, events, answered, mergedPull, run, posts, retakes, mishaps>>

-----------------------------------------------------------------------------
(* The run of a job *)

h0 == run.head
Wanted == mrJobs[h0].state \notin Over                     \* throwIfStale
RunOnly == UNCHANGED <<request, events, answered, mergedPull, allPaused, edits, retakes>>
Mishap  == mishaps < MaxMishaps /\ mishaps' = mishaps + 1

\* The claim of the queue; under the pause the job is cancelled instead.
RunStarts(h) ==
  /\ run.at = "idle" /\ mrJobs[h].state = "queued"
  /\ IF allPaused THEN mrJobs' = [mrJobs EXCEPT ![h].state = "cancelled"] /\ UNCHANGED run
     ELSE /\ mrJobs' = [mrJobs EXCEPT ![h].state = "running"]
          /\ run' = [NoRun EXCEPT !.at = "diff", !.head = h]
  /\ UNCHANGED <<posts, mishaps>> /\ RunOnly

\* The run ends in a state its row may refuse.
Ends(state, accepted, event) ==
  /\ run' = NoRun
  /\ mrJobs' = [mrJobs EXCEPT ![h0] = IF @.state \in Over THEN @
                ELSE [state |-> state, accepted |-> accepted, event |-> event]]

\* Any call of the run fails, or throwIfStale throws: the run unwinds.
RunFails ==
  /\ run.at \in {"diff", "checkout", "review", "list", "note"}
  /\ IF Wanted THEN Mishap ELSE UNCHANGED mishaps
  /\ Ends("failed", mrJobs[h0].accepted, mrJobs[h0].event) /\ UNCHANGED posts /\ RunOnly

\* getChangeDiff: the diff of the request as it now is.
FetchesDiff ==
  /\ run.at = "diff"
  /\ run' = [run EXCEPT !.at = "checkout", !.diffOf = request.head]
  /\ UNCHANGED <<mrJobs, posts, mishaps>> /\ RunOnly

\* checkout.prepare: the head ref, or the commit of the job itself.
ChecksOut ==
  /\ run.at = "checkout" /\ Wanted
  /\ run' = [run EXCEPT !.at = "review"]
  /\ UNCHANGED <<mrJobs, posts, mishaps>> /\ RunOnly

\* The specialists read the diff; the last look at the row is before the list
\* of summaries and the post.
Reviews(found) ==
  /\ run.at = "review" /\ Wanted
  /\ run' = [run EXCEPT !.at = "list", !.found = found]
  /\ UNCHANGED <<mrJobs, posts, mishaps>> /\ RunOnly

EventOf(found) == IF found = {} THEN "APPROVE" ELSE "COMMENT"

\* Mutant: no look at what is there.
PostsAtOnce ==
  /\ run.at = "list" /\ Wanted
  /\ run' = [run EXCEPT !.at = "note"] /\ UNCHANGED <<mrJobs, posts, mishaps>> /\ RunOnly

\* listSummaries: a review of this head is not posted again; a clean one only
\* where the configuration wants it.
Lists ==
  /\ run.at = "list" /\ Wanted
  /\ IF SummariesOf(h0) # {} \/ (run.found = {} /\ ~PostEmptyReview) THEN Ends("completed", {}, "COMMENT")
     ELSE run' = [run EXCEPT !.at = "note"] /\ UNCHANGED mrJobs
  /\ UNCHANGED <<posts, mishaps>> /\ RunOnly

Summary == Post("summary", h0, 0, run.diffOf, EventOf(run.found))

\* The note of the review.
PostsNote ==
  /\ run.at = "note"
  /\ posts' = posts \cup {[Summary EXCEPT !.spot = Cardinality(SummariesOf(h0))]}
  /\ run' = [run EXCEPT !.at = "inline", !.todo = run.found, !.own = TRUE]
  /\ UNCHANGED <<mrJobs, mishaps>> /\ RunOnly

\* The note is there and the call fails: the run fails.
LosesNoteReply ==
  /\ run.at = "note" /\ Mishap
  /\ posts' = posts \cup {[Summary EXCEPT !.spot = Cardinality(SummariesOf(h0))]}
  /\ Ends("failed", mrJobs[h0].accepted, mrJobs[h0].event) /\ RunOnly

\* postInlineDiscussion: at its line in the version of the job's head.
PostInline(s) == posts' = posts \cup {Post("inline", h0, s, run.diffOf, "none")}

\* One comment after the other.
PostsInline(s) ==
  /\ run.at = "inline" /\ s \in run.todo
  /\ \/ /\ PostInline(s)
        /\ run' = [run EXCEPT !.todo = @ \ {s}, !.accepted = @ \cup {s}] /\ UNCHANGED mishaps
     \/ /\ Mishap /\ UNCHANGED posts                 \* no such line, no such version, an error
        /\ run' = [run EXCEPT !.todo = @ \ {s}, !.unplaced = @ \cup {s}]
  /\ UNCHANGED mrJobs /\ RunOnly

\* Mutant: what could not be anchored is left out.
SkipsUnplaced ==
  /\ run.at = "inline" /\ run.todo = {}
  /\ run' = [run EXCEPT !.at = "approve"] /\ UNCHANGED <<mrJobs, posts, mishaps>> /\ RunOnly

\* The notes that list what could not be anchored, a failed one as a warning.
ListsUnplaced ==
  /\ run.at = "inline" /\ run.todo = {}
  /\ \/ /\ posts' = posts \cup {Post("listed", h0, s, run.diffOf, "none") : s \in run.unplaced}
        /\ run' = [run EXCEPT !.at = "approve"] /\ UNCHANGED mishaps
     \/ /\ run.unplaced # {} /\ Mishap /\ UNCHANGED posts
        /\ run' = [run EXCEPT !.at = "approve", !.warned = TRUE]
  /\ UNCHANGED mrJobs /\ RunOnly

\* The approval, where connection and verdict ask for it; a refused one is a
\* warning.
Approves ==
  /\ run.at = "approve" /\ run' = [run EXCEPT !.at = "record"]
  /\ IF AllowApprove /\ run.found = {}
     THEN \/ posts' = posts \cup {Approval(h0)} /\ UNCHANGED mishaps
          \/ Mishap /\ UNCHANGED posts
     ELSE UNCHANGED <<posts, mishaps>>
  /\ UNCHANGED mrJobs /\ RunOnly

\* The event and the fingerprints are written, and the run ends.
Records ==
  /\ run.at = "record"
  /\ Ends("completed", run.accepted, EventOf(run.found)) /\ UNCHANGED <<posts, mishaps>> /\ RunOnly

\* The retry button, for a job whose reviewers partly failed.
Retakes(h) ==
  /\ retakes < MaxRetakes /\ retakes' = retakes + 1
  /\ mrJobs[h].state \in {"completed", "failed"}
  /\ mrJobs' = [mrJobs EXCEPT ![h].state = "queued"]
  /\ UNCHANGED <<request, events, answered, mergedPull, allPaused, run, posts, edits, mishaps>>

\* The process dies and starts: an interrupted job is queued again.
Restarts ==
  /\ Mishap /\ run' = NoRun
  /\ mrJobs' = [h \in Heads |-> IF mrJobs[h].state = "running" THEN [mrJobs[h] EXCEPT !.state = "queued"]
                                ELSE mrJobs[h]]
  /\ UNCHANGED posts /\ RunOnly

-----------------------------------------------------------------------------
RequestInit ==
  /\ \E d \in BOOLEAN :
       /\ request = [head |-> 1, state |-> "opened", draft |-> d]
       /\ events = {[action |-> "open", head |-> 1, moved |-> FALSE, draft |-> d, n |-> 0]}
  /\ answered = {} /\ mergedPull = FALSE /\ allPaused = FALSE
  /\ mrJobs = [h \in Heads |-> NoJob] /\ run = NoRun /\ posts = {}
  /\ edits = 0 /\ retakes = 0 /\ mishaps = 0

RequestNext ==
  \/ Pushes \/ Edits \/ Delivers \/ Switches \/ Restarts
  \/ \E h \in Heads : RunStarts(h) \/ Retakes(h)
  \/ RunFails \/ FetchesDiff \/ ChecksOut \/ (\E found \in SUBSET Spots : Reviews(found))
  \/ Lists \/ PostsNote \/ LosesNoteReply \/ (\E s \in Spots : PostsInline(s))
  \/ ListsUnplaced \/ Approves \/ Records

RequestSpec == RequestInit /\ [][RequestNext]_requestVars

-----------------------------------------------------------------------------
(* Properties *)

\* Rows, run and posts have their types, and a run is of a job that is at work
\* or was ended under it.
RequestTypeOK ==
  /\ request.head \in Heads /\ request.state \in {"opened", "closed", "merged"}
  /\ answered \subseteq events /\ {mergedPull, allPaused} \subseteq BOOLEAN
  /\ \A h \in Heads :
       /\ mrJobs[h].state \in {"none", "queued", "running", "completed", "failed"} \cup Over
       /\ mrJobs[h].accepted \subseteq Spots /\ mrJobs[h].event \in {"none", "COMMENT", "APPROVE"}
  /\ run.at # "idle" => run.head \in Heads /\ mrJobs[h0].state \in {"running"} \cup Over
  /\ \A p \in posts : p.head \in Heads /\ p.diffOf \in {0} \cup Heads

\* Retries, restarts and lost replies included, a head is reviewed on the
\* request at most once.
OneNotePerHead == \A h \in Heads : Cardinality(SummariesOf(h)) <= 1

\* Once the merge was handled, no delivery of the request's earlier events, in
\* whatever order they come in, and no restart puts a job of it to work; only
\* the retry button does.
MergedStaysQuiet ==
  [][mergedPull /\ retakes' = retakes
       => \A h \in Heads : mrJobs'[h].state \in Waits => mrJobs[h].state \in Waits]_requestVars

\* A run that posted its summary itself loses no finding on the way: each is
\* anchored, listed in a note, or its loss is logged.
NothingDropped ==
  run.at = "approve" => run.warned \/ run.found \subseteq InlineOf(h0) \cup ListedOf(h0)

\* One note per head and every finding with it, though each call may fail or be
\* the last before a death (gitlab/provider.ts:192).
PublishesOnce == OneNotePerHead /\ NothingDropped

\* pipeline.ts:2597: "Fingerprints of what the forge actually accepted, not
\* what we intended": what a completed job takes as posted is on the request.
AcceptedIsRecorded ==
  \A h \in Heads : mrJobs[h].state = "completed" => mrJobs[h].accepted = InlineOf(h)

\* pipeline.ts:2588-2590: "Record the event only after the forge accepted the
\* review, so a recorded event always corresponds to a delivered one": an
\* approval is recorded where the instance has it, and nowhere else.
EventIsTheDelivered ==
  \A h \in Heads : mrJobs[h].state = "completed" =>
    (mrJobs[h].event = "APPROVE") = (Approval(h) \in posts)

\* ui/pages.ts:215: "Each job is anchored to an exact head SHA": what is posted
\* for a head was found in the diff of that head.
ReviewsItsOwnDiff == \A p \in posts : p.kind \in {"summary", "inline"} => p.diffOf = p.head
=============================================================================

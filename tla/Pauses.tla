------------------------------- MODULE Pauses -------------------------------
(* The timed pause of one repository (repo_pauses) beside the switch for the
   whole instance, and the reviews the two gate: those a pull_request delivery
   starts, those an operator asks for by URL, those of a stack's members.  Each
   review is of a pull of its own: what jobs of one pull do to each other is
   ReviewService's subject, what a stack does with its members StackReview's. *)
EXTENDS Naturals, Sequences, FiniteSets

CONSTANTS
  RepoReviews,        \* the jobs the repository may come to
  MaxPauses,      \* bound: rows of repo_pauses
  MaxPauseUpsets  \* bound: deaths, turns of the switch, retries

ASSUME PausesAssumption ==
  IsFiniteSet(RepoReviews) /\ {MaxPauses, MaxPauseUpsets} \subseteq Nat \ {0}

VARIABLES
  pauses,    \* SQLite: repo_pauses; "whole" (history) says the pending work was cancelled
  switchOn,  \* SQLite: an open row of global_pauses
  pausable,  \* SQLite: jobs of type pr_review
  asking,    \* forms that passed their first gates and await the forge
  handler,   \* how far POST /pause is past its awaits
  tab,       \* the row whose "End" an operator's page offers, 0 for none
  pauseUpsets

pauseVars == <<pauses, switchOn, pausable, asking, handler, tab, pauseUpsets>>

Kinds == {"none", "automatic", "manual", "member"}
NoReview == [kind |-> "none", state |-> "none", reason |-> "none"]
Pending(r) == r.state \in {"queued", "running"}
Standing(p) == p.ended = "no" /\ ~p.lapsed
ActivePause == \E i \in DOMAIN pauses : Standing(pauses[i])

\* The process runs one handler's synchronous stretch at a time.
Serves == handler = "none"
PauseUpset == pauseUpsets < MaxPauseUpsets /\ pauseUpsets' = pauseUpsets + 1

EnqueueReview(kind, state) ==
  \E r \in RepoReviews : /\ pausable[r] = NoReview
                     /\ pausable' = [pausable EXCEPT ![r] = [NoReview EXCEPT !.kind = kind, !.state = state]]

\* A pull_request delivery: the switch, then the repository's pause.
PullDelivered ==
  /\ Serves /\ ~switchOn /\ ~ActivePause
  /\ EnqueueReview("automatic", "queued")
  /\ UNCHANGED <<pauses, switchOn, asking, handler, tab, pauseUpsets>>

\* POST /reviews: the switch is read before the forge is asked for the pull,
\* the job is written after; the repository's pause is not asked.
AskForReview ==
  /\ Serves /\ ~switchOn /\ "review" \notin asking
  /\ asking' = asking \union {"review"}
  /\ UNCHANGED <<pauses, switchOn, pausable, handler, tab, pauseUpsets>>

ForgeAnswers ==
  /\ Serves /\ "review" \in asking /\ asking' = asking \ {"review"}
  /\ EnqueueReview("manual", "queued") \/ UNCHANGED pausable
  /\ UNCHANGED <<pauses, switchOn, handler, tab, pauseUpsets>>

\* A stack's run starts a member's review inline.  Under the switch the run is
\* cancelled, and a member it was about to start ends where it begins.
MemberEnqueued ==
  /\ Serves /\ ~switchOn
  /\ EnqueueReview("member", "running")
  /\ UNCHANGED <<pauses, switchOn, asking, handler, tab, pauseUpsets>>

\* The claim: under the switch the job is cancelled instead of run.
ClaimedReview(r) ==
  IF switchOn THEN [r EXCEPT !.state = "cancelled", !.reason = "reviews_paused"]
  ELSE [r EXCEPT !.state = "running"]

ClaimReview ==
  /\ Serves
  /\ \E r \in RepoReviews : /\ pausable[r].state = "queued"
                        /\ pausable' = [pausable EXCEPT ![r] = ClaimedReview(@)]
  /\ UNCHANGED <<pauses, switchOn, asking, handler, tab, pauseUpsets>>

ReviewEnds ==
  /\ Serves
  /\ \E r \in RepoReviews, s \in {"completed", "failed"} :
        pausable[r].state = "running" /\ pausable' = [pausable EXCEPT ![r].state = s]
  /\ UNCHANGED <<pauses, switchOn, asking, handler, tab, pauseUpsets>>

\* An operator's retry of a failed job is that operator's review.
RetryReview ==
  /\ Serves /\ PauseUpset
  /\ \E r \in RepoReviews :
        /\ pausable[r].state = "failed"
        /\ pausable' = [pausable EXCEPT ![r].kind = "manual", ![r].state = "queued"]
  /\ UNCHANGED <<pauses, switchOn, asking, handler, tab>>

CancelledFor(r, reason) == [r EXCEPT !.state = "cancelled", !.reason = reason]

\* Mutant: what already runs is left to its end.
CancelsQueued(reason) ==
  [r \in RepoReviews |-> IF pausable[r].state = "queued" THEN CancelledFor(pausable[r], reason) ELSE pausable[r]]

\* Every non-terminal job of type pr_review, whoever asked for it.
CancelReviews(reason) ==
  [r \in RepoReviews |-> IF Pending(pausable[r]) THEN CancelledFor(pausable[r], reason) ELSE pausable[r]]

\* POST /pause up to its awaits (the installation and the repository).
AskForPause ==
  /\ Serves /\ "pause" \notin asking /\ Len(pauses) < MaxPauses
  /\ asking' = asking \union {"pause"}
  /\ UNCHANGED <<pauses, switchOn, pausable, handler, tab, pauseUpsets>>

\* Mutant: a second pause of the repository leaves the first one open.
SupersedesNone == pauses

\* createPause's UPDATE ...
Superseded ==
  [i \in DOMAIN pauses |-> IF pauses[i].ended = "no" THEN [pauses[i] EXCEPT !.ended = "superseded"] ELSE pauses[i]]

SupersedePauses ==
  /\ Serves /\ "pause" \in asking /\ asking' = asking \ {"pause"}
  /\ \/ handler' = "superseded" /\ pauses' = Superseded
     \/ UNCHANGED <<handler, pauses>>  \* refused, or the forge failed
  /\ UNCHANGED <<switchOn, pausable, tab, pauseUpsets>>

\* ... its INSERT ...
InsertPause ==
  /\ handler = "superseded" /\ handler' = "inserted"
  /\ pauses' = Append(pauses, [ended |-> "no", lapsed |-> FALSE, whole |-> FALSE])
  /\ UNCHANGED <<switchOn, pausable, asking, tab, pauseUpsets>>

\* ... and the cancellation of what is pending.
CancelForPause ==
  /\ handler = "inserted" /\ handler' = "none"
  /\ pausable' = CancelReviews("repo_paused")
  /\ pauses' = [pauses EXCEPT ![Len(pauses)].whole = TRUE]
  /\ UNCHANGED <<switchOn, asking, tab, pauseUpsets>>

\* expires_at passes; nobody is told.
PauseLapses ==
  /\ Serves
  /\ \E i \in DOMAIN pauses : Standing(pauses[i]) /\ pauses' = [pauses EXCEPT ![i].lapsed = TRUE]
  /\ UNCHANGED <<switchOn, pausable, asking, handler, tab, pauseUpsets>>

\* GET /pause in an operator's tab.
PausePage ==
  /\ Serves /\ \E i \in DOMAIN pauses : Standing(pauses[i]) /\ tab' = i
  /\ UNCHANGED <<pauses, switchOn, pausable, asking, handler, pauseUpsets>>

\* Mutant: the row of the repository that is open now ends, whichever it is.
EndsTheOpenOne ==
  [i \in DOMAIN pauses |-> IF pauses[i].ended = "no" THEN [pauses[i] EXCEPT !.ended = "operator"] ELSE pauses[i]]

\* The tab may have gone stale: a lapsed row is still ended, an ended one is not.
EndPause == IF pauses[tab].ended = "no" THEN [pauses EXCEPT ![tab].ended = "operator"] ELSE pauses

PostEnd ==
  /\ Serves /\ tab # 0 /\ pauses' = EndPause /\ tab' = 0
  /\ UNCHANGED <<switchOn, pausable, asking, handler, pauseUpsets>>

\* POST /pause/global and /pause/global/end.
TurnSwitch ==
  /\ Serves /\ PauseUpset /\ switchOn' = ~switchOn
  /\ pausable' = IF switchOn THEN pausable ELSE CancelReviews("reviews_paused")
  /\ UNCHANGED <<pauses, asking, handler, tab>>

\* The process dies, between any two statements, and starts again.
PauseProcessDies ==
  /\ PauseUpset /\ handler' = "none" /\ asking' = {}
  /\ pausable' = [r \in RepoReviews |-> IF Pending(pausable[r]) THEN [pausable[r] EXCEPT !.state = "queued"]
                                    ELSE pausable[r]]
  /\ UNCHANGED <<pauses, switchOn, tab>>

PausesInit ==
  /\ pauses = <<>> /\ switchOn = FALSE /\ pausable = [r \in RepoReviews |-> NoReview]
  /\ asking = {} /\ handler = "none" /\ tab = 0 /\ pauseUpsets = 0

PausesNext ==
  \/ PullDelivered \/ AskForReview \/ ForgeAnswers \/ MemberEnqueued
  \/ ClaimReview \/ ReviewEnds \/ RetryReview
  \/ AskForPause \/ SupersedePauses \/ InsertPause \/ CancelForPause
  \/ PauseLapses \/ PausePage \/ PostEnd \/ TurnSwitch \/ PauseProcessDies

PausesSpec == PausesInit /\ [][PausesNext]_pauseVars

-----------------------------------------------------------------------------

\* The type of the state, with at most one open row: a second pause supersedes.
PausesTypeOK ==
  /\ pauses \in Seq([ended : {"no", "superseded", "operator"}, lapsed : BOOLEAN, whole : BOOLEAN])
  /\ Len(pauses) <= MaxPauses
  /\ Cardinality({i \in DOMAIN pauses : pauses[i].ended = "no"}) <= 1
  /\ switchOn \in BOOLEAN /\ asking \subseteq {"review", "pause"}
  /\ handler \in {"none", "superseded", "inserted"} /\ tab \in 0..MaxPauses
  /\ pausable \in [RepoReviews -> [kind : Kinds,
                               state : {"none", "queued", "running", "completed", "failed", "cancelled"},
                               reason : {"none", "repo_paused", "reviews_paused"}]]
  /\ pauseUpsets \in 0..MaxPauseUpsets

\* "pending automatic reviews must not start expensive reviewers after the pause
\* takes effect" (cancel.ts:101): under a pause that took effect whole nothing
\* automatic is pending, and under the switch nothing runs, though forms and
\* members come past gates they read before an await.
RepoPauseIsQuiet ==
  /\ (\E i \in DOMAIN pauses : Standing(pauses[i]) /\ pauses[i].whole)
        => \A r \in RepoReviews : pausable[r].kind = "automatic" => ~Pending(pausable[r])
  /\ switchOn => \A r \in RepoReviews : pausable[r].state # "running"

\* An "End" clicked on a stale page ends no pause but the one the page showed:
\* the extension a second operator made meanwhile stands.
ClickEndsWhatItShows ==
  [][\A i \in DOMAIN pauses :
        pauses[i].ended = "no" /\ pauses'[i].ended = "operator" => i = tab]_pauseVars

\* "Manual URL reviews, health scans, repo briefs, and stack commands are
\* unaffected: the pause gates *automatic* reviews only" (README.md:606): no
\* review that an operator or a stack asked for is cancelled for a pause.
AskedReviewsStand ==
  \A r \in RepoReviews : pausable[r].reason = "repo_paused" => pausable[r].kind = "automatic"

\* "visible on the page until it expires or an operator ends it early"
\* (README.md:604): a pause that was extended is not lost between the end of the
\* old row and the row that takes its place.
ExtensionKeepsThePause ==
  Serves => \A i \in DOMAIN pauses : pauses[i].ended = "superseded" => i < Len(pauses)
=============================================================================

------------------------------ MODULE Dispatches ------------------------------
(***************************************************************************)
(* Paging people about a poison alert: dispatchExternalEscalation of         *)
(* jobs/pipeline.ts over the escalation_dispatches rows of jobs/store.ts,    *)
(* with calls that fail or lose their reply, deaths of the process, and a    *)
(* second job at the same head (a re-review), whose pages share the rows.    *)
(***************************************************************************)
EXTENDS Naturals, FiniteSets, Sequences

CONSTANTS Targets,      \* config.poisonAlert.external.targets, in order
          Webhooks,     \* the targets that are webhooks; the others are comments
          Spaced,       \* comment targets whose key holds white space
          Policies,     \* the values config.poisonAlert.policy may have
          MaxPageUpsets \* bound: failed calls, commands, cancellations, deaths

TargetSet == {Targets[i] : i \in DOMAIN Targets}
Alerts    == {"standing", "cleared", "unknown"}    \* what the internal pass made of it
DispatchJobs == {1, 2}

ASSUME DispatchAssumption ==
  /\ Targets \in Seq(TargetSet)
  /\ Webhooks \union Spaced \subseteq TargetSet /\ Webhooks \intersect Spaced = {}
  /\ Cardinality(TargetSet) = Len(Targets) /\ MaxPageUpsets \in Nat

VARIABLES
  policy,     \* config.poisonAlert.policy
  alert,      \* the jobs' internal_escalation_* columns
  pageRows,   \* SQLite: escalation_dispatches, one row per target
  jobPage,    \* SQLite: jobs: state, manual_escalate_requested, external_dispatch_status
  sender,     \* memory: the target each job is sending to
  pages,      \* outside: what each target received
  overlapped, \* history: targets both jobs were sending to at once
  pageUpsets  \* failures and commands so far (bound)

dispatchVars == <<policy, alert, pageRows, jobPage, sender, pages, overlapped, pageUpsets>>

NoSender == [at |-> "idle", i |-> 0, errors |-> FALSE]
DeadJob(j) == jobPage[j].state = "dead"

\* shouldRunExternal, for a job routed to the poison-alert profile.
ShouldRunExternal(manual) ==
  CASE policy = "manual" -> manual
    [] policy = "internal_only" -> FALSE
    [] policy \in {"external_only", "internal_and_external"} -> TRUE
    [] policy = "internal_then_external" -> alert # "cleared"

\* Mutant: a row left at dispatching passes for sent.
ClaimableSent(row) == row.status \in {"none", "dispatch_failed"}

\* claimDispatch and the test after it: only a page that was sent is skipped.
Claimable(row) == row.status # "dispatched"

\* The loop over the targets from index i on, with the rows at prs: up to its
\* next call, or to its end.  A job that died stops at the next target, and
\* leaves its status as it is.
Loops(j, prs, i, errors) ==
  LET rest == {k \in i..Len(Targets) : Claimable(prs[Targets[k]])}
      k    == CHOOSE m \in rest : \A n \in rest : m <= n
      t    == Targets[k]
      mine(status) == [sender EXCEPT ![j] = status]
  IN  IF i <= Len(Targets) /\ DeadJob(j)
      THEN /\ pageRows' = prs /\ sender' = mine(NoSender) /\ UNCHANGED <<jobPage, overlapped>>
      ELSE IF rest = {}
      THEN /\ pageRows' = prs /\ sender' = mine(NoSender) /\ UNCHANGED overlapped
           /\ jobPage' = [jobPage EXCEPT ![j].status = IF errors THEN "dispatch_failed" ELSE "dispatched",
                                         ![j].state = IF @ = "dead" THEN @ ELSE "completed"]
      ELSE /\ pageRows' = [prs EXCEPT ![t] = [status |-> "dispatching", job |-> IF @.job = 0 THEN j ELSE @.job]]
           /\ sender' = mine([at |-> IF t \in Webhooks THEN "call" ELSE "list", i |-> k, errors |-> errors])
           /\ jobPage' = [jobPage EXCEPT ![j].status = "dispatching"]
           /\ overlapped' = overlapped \union
                {u \in {t} : \E o \in DispatchJobs \ {j} : sender[o].at \in {"list", "call"} /\ Targets[sender[o].i] = u}

Upset == pageUpsets < MaxPageUpsets /\ pageUpsets' = pageUpsets + 1

\* jobHasPendingDispatch.
PendingDispatch(j) ==
  \/ jobPage[j].status # "dispatched"
  \/ \E t \in TargetSet : pageRows[t].job = j /\ pageRows[t].status # "dispatched"

\* A run of the job comes to its pages: it has just published its review, or
\* the job is completed and asked for again.
RunDispatches(j) ==
  /\ sender[j].at = "queued" /\ UNCHANGED <<policy, alert, pages, pageUpsets>>
  /\ IF DeadJob(j) \/ (jobPage[j].state = "completed" /\ ~(jobPage[j].manual /\ PendingDispatch(j)))
        \/ ~ShouldRunExternal(jobPage[j].manual)
     THEN /\ sender' = [sender EXCEPT ![j] = NoSender]
          /\ jobPage' = [jobPage EXCEPT ![j].state = IF @ = "dead" THEN @ ELSE "completed"]
          /\ UNCHANGED <<pageRows, overlapped>>
     ELSE \/ Loops(j, pageRows, 1, FALSE)
          \/ /\ jobPage[j].state = "running"       \* nothing was published: no pages
             /\ jobPage' = [jobPage EXCEPT ![j].status = "dispatch_failed", ![j].state = "completed"]
             /\ sender' = [sender EXCEPT ![j] = NoSender]
             /\ UNCHANGED <<pageRows, overlapped>>

CurrentTarget(j) == Targets[sender[j].i]
RowIs(t, status) == [pageRows EXCEPT ![t].status = status]
Sent(j, prs)     == Loops(j, prs, sender[j].i + 1, sender[j].errors)
Fails(j)         == Loops(j, RowIs(CurrentTarget(j), "dispatch_failed"), sender[j].i + 1, TRUE)

\* listIssueComments has answered.  The marker names the target without its
\* white space, and is compared with the key that has it.
ListsComments(j) ==
  LET t == CurrentTarget(j)
  IN  /\ sender[j].at = "list" /\ UNCHANGED <<policy, alert, pages>>
      /\ \/ /\ UNCHANGED pageUpsets
            /\ IF pages[t] > 0 /\ t \notin Spaced THEN Sent(j, RowIs(t, "dispatched"))
               ELSE sender' = [sender EXCEPT ![j].at = "call"] /\ UNCHANGED <<pageRows, jobPage, overlapped>>
         \/ Upset /\ Fails(j)

\* createIssueComment or deliverSignedWebhook has answered, or its answer was
\* lost, or the call never arrived.
Calls(j) ==
  LET t == CurrentTarget(j)
  IN  /\ sender[j].at = "call" /\ UNCHANGED <<policy, alert>>
      /\ \/ pages' = [pages EXCEPT ![t] = @ + 1] /\ Sent(j, RowIs(t, "dispatched")) /\ UNCHANGED pageUpsets
         \/ pages' = [pages EXCEPT ![t] = @ + 1] /\ Fails(j) /\ Upset
         \/ UNCHANGED pages /\ Fails(j) /\ Upset

\* "@maomao escalate": remembered, and the job is given a run.
EscalateCommand(j) ==
  /\ Upset /\ jobPage[j].state \in {"running", "completed"} /\ ~jobPage[j].manual
  /\ jobPage' = [jobPage EXCEPT ![j].manual = TRUE]
  /\ sender' = IF sender[j].at = "idle" THEN [sender EXCEPT ![j].at = "queued"] ELSE sender
  /\ UNCHANGED <<policy, alert, pageRows, pages, overlapped>>

\* The job is cancelled or superseded; a re-review takes its slot at this head.
DispatchCancelled(j) ==
  /\ Upset /\ jobPage[j].state = "running"
  /\ jobPage' = [jobPage EXCEPT ![j].state = "dead"]
  /\ UNCHANGED <<policy, alert, pageRows, sender, pages, overlapped>>

DispatchRereview ==
  /\ jobPage[2].state = "absent" /\ jobPage[1].state \in {"dead", "completed"}
  /\ jobPage' = [jobPage EXCEPT ![2].state = "running"]
  /\ sender' = [sender EXCEPT ![2].at = "queued"]
  /\ UNCHANGED <<policy, alert, pageRows, pages, overlapped, pageUpsets>>

\* The process dies, a call in flight landing or not; a running job starts over.
DispatchDies ==
  /\ Upset /\ \E j \in DispatchJobs : sender[j].at # "idle"
  /\ sender' = [j \in DispatchJobs |->
                  IF jobPage[j].state = "running" THEN [NoSender EXCEPT !.at = "queued"] ELSE NoSender]
  /\ pages' \in {pages} \union
       {[pages EXCEPT ![CurrentTarget(j)] = @ + 1] : j \in {i \in DispatchJobs : sender[i].at = "call"}}
  /\ UNCHANGED <<policy, alert, pageRows, jobPage, overlapped>>

-----------------------------------------------------------------------------
DispatchesInit ==
  /\ policy \in Policies /\ alert \in Alerts
  /\ pageRows = [t \in TargetSet |-> [status |-> "none", job |-> 0]]
  /\ jobPage = [j \in DispatchJobs |-> [state |-> IF j = 1 THEN "running" ELSE "absent",
                                        manual |-> FALSE, status |-> "not_requested"]]
  /\ sender = [j \in DispatchJobs |-> [NoSender EXCEPT !.at = IF j = 1 THEN "queued" ELSE "idle"]]
  /\ pages = [t \in TargetSet |-> 0] /\ overlapped = {} /\ pageUpsets = 0

DispatchesNext ==
  \/ \E j \in DispatchJobs :
       RunDispatches(j) \/ ListsComments(j) \/ Calls(j) \/ EscalateCommand(j) \/ DispatchCancelled(j)
  \/ DispatchRereview \/ DispatchDies

DispatchesSpec == DispatchesInit /\ [][DispatchesNext]_dispatchVars

-----------------------------------------------------------------------------
(* Properties *)

DispatchesTypeOK ==
  /\ \A t \in TargetSet :
       /\ pageRows[t].status \in {"none", "dispatching", "dispatched", "dispatch_failed"}
       /\ pageRows[t].job \in DispatchJobs \union {0}
       /\ pages[t] \in Nat
  /\ \A j \in DispatchJobs :
       /\ jobPage[j].state \in {"absent", "running", "completed", "dead"}
       /\ jobPage[j].status \in {"not_requested", "dispatching", "dispatched", "dispatch_failed"}
       /\ sender[j].at \in {"idle", "queued", "list", "call"} /\ sender[j].i \in 0..Len(Targets)
  /\ overlapped \subseteq TargetSet

\* Whatever fails, dies or is asked for again, a job that says "dispatched" has
\* paged every target; and a comment is posted once, unless two jobs were at it
\* together or its key holds white space (claimDispatch, escalationMarker).
PagesOnce ==
  /\ \A j \in DispatchJobs : jobPage[j].status = "dispatched" => \A t \in TargetSet : pages[t] > 0
  /\ \A t \in TargetSet \ (Webhooks \union Spaced \union overlapped) : pages[t] <= 1
=============================================================================

------------------------------ MODULE ScanIssues ------------------------------
(***************************************************************************)
(* Health scans and the GitHub issues made from them: runScanJob of          *)
(* jobs/pipeline.ts with closeResolvedScanIssues, the operator's             *)
(* POST /scan/issues of server.ts, and the scan_issues claims of             *)
(* jobs/store.ts, with calls that fail or lose their reply and deaths of the *)
(* process.                                                                  *)
(***************************************************************************)
EXTENDS Integers, FiniteSets, Sequences

CONSTANTS Defects,        \* fingerprints of scan findings
          Worthy,         \* those above the publication bar (issueWorthiness)
          Operators,      \* submits of the issue form that may be in flight
          MaxScans,       \* bound: scans
          MaxSubmits,     \* bound: submits
          MaxScanUpsets   \* bound: failed calls, deaths and issues closed by hand

ASSUME ScanAssumption ==
  /\ IsFiniteSet(Defects) /\ Worthy \subseteq Defects /\ Operators # {}
  /\ MaxScans \in Nat /\ MaxSubmits \in Nat /\ MaxScanUpsets \in Nat

VARIABLES
  scanRows,   \* SQLite: findings of the repository (pull 0), with last_job_id
  claims,     \* SQLite: scan_issues: no row (-1), a claim (0), or an issue's number
  issues,     \* the forge: the issues with a finding's marker, in order
  scan,       \* memory: the scan that runs
  scanned,    \* SQLite: completed scans
  submits,    \* memory: the submits in flight
  scans, submitted, scanUpsets   \* so far (bounds)

scanVars == <<scanRows, claims, issues, scan, scanned, submits, scans, submitted, scanUpsets>>

NoScan   == [at |-> "idle", found |-> {}, items |-> [d \in Defects |-> "none"], left |-> {}, current |-> {}, failed |-> {}]
NoSubmit == [at |-> "idle", left |-> {}, current |-> {}]
ScanUpset == scanUpsets < MaxScanUpsets /\ scanUpsets' = scanUpsets + 1

-----------------------------------------------------------------------------
(* The scan job *)

ScanUnwinds == scan' = NoScan

ScanStarts ==
  /\ scan.at = "idle" /\ scans < MaxScans /\ scans' = scans + 1
  /\ scan' = [NoScan EXCEPT !.at = "review"]
  /\ UNCHANGED <<scanRows, claims, issues, scanned, submits, submitted, scanUpsets>>

\* The aggregator answered: what it found is open; a prior finding that is
\* resolved stays so, the others go to the verifier.
ScanAggregates ==
  /\ scan.at = "review"
  /\ \/ ScanUnwinds /\ UNCHANGED scanRows
     \/ \E found \in SUBSET Defects :
          LET rows == [d \in Defects |-> IF d \in found THEN [status |-> "open", job |-> scans] ELSE scanRows[d]]
          IN  /\ scanRows' = rows
              /\ scan' = [scan EXCEPT !.at = "verifier", !.found = found,
                            !.items = [d \in Defects |->
                              IF d \in found \/ rows[d].status = "none" THEN "none"
                              ELSE IF rows[d].status = "resolved" THEN "resolved" ELSE "verify"]]
  /\ UNCHANGED <<claims, issues, scanned, submits, scans, submitted, scanUpsets>>

\* The loop of closeResolvedScanIssues with S left and F failed: the next issue
\* is asked for; after the last, failed closes are downgraded and the scan ends.
ClosingGoesOn(S, F, rows) ==
  LET linked == {d \in S : claims[d] > 0}
  IN  IF linked # {}
      THEN /\ scanRows' = rows /\ UNCHANGED scanned
           /\ \E d \in linked :
                scan' = [scan EXCEPT !.at = "issue", !.left = S \ {d}, !.current = {d}, !.failed = F]
      ELSE /\ scan' = NoScan /\ scanned' = scanned \union {scans}
           /\ scanRows' = [d \in Defects |-> IF d \in F THEN [rows[d] EXCEPT !.status = "uncertain"] ELSE rows[d]]

\* The verifier answered: the classifications are written.
ScanVerifies ==
  /\ scan.at = "verifier"
  /\ \/ ScanUnwinds /\ UNCHANGED <<scanRows, scanned>>
     \/ \E v \in [{d \in Defects : scan.items[d] = "verify"} -> {"resolved", "still_valid", "uncertain"}] :
          LET item(d) == IF d \in DOMAIN v THEN v[d] ELSE scan.items[d]
              rows == [d \in Defects |->
                         IF item(d) = "none" THEN scanRows[d] ELSE [status |-> item(d), job |-> scans]]
          IN  ClosingGoesOn({d \in Defects : item(d) = "resolved"}, {}, rows)
  /\ UNCHANGED <<claims, issues, submits, scans, submitted, scanUpsets>>

\* getIssue answered: an open issue is to be closed, a closed one is skipped.
ScanReadsIssue ==
  /\ scan.at = "issue" /\ UNCHANGED <<claims, issues, submits, scans, submitted>>
  /\ \E d \in scan.current :
       \/ /\ UNCHANGED scanUpsets
          /\ IF issues[d][claims[d]] = "open"
             THEN scan' = [scan EXCEPT !.at = "closing"] /\ UNCHANGED <<scanRows, scanned>>
             ELSE ClosingGoesOn(scan.left, scan.failed, scanRows)
       \/ ScanUpset /\ ClosingGoesOn(scan.left, scan.failed \union {d}, scanRows)

\* closeIssue answered, or failed, having closed the issue or not.
ScanClosesIssue ==
  /\ scan.at = "closing" /\ UNCHANGED <<claims, submits, scans, submitted>>
  /\ \E d \in scan.current :
       LET gone == [issues EXCEPT ![d][claims[d]] = "closed"]
       IN  \/ issues' = gone /\ ClosingGoesOn(scan.left, scan.failed, scanRows) /\ UNCHANGED scanUpsets
           \/ issues' \in {issues, gone} /\ ClosingGoesOn(scan.left, scan.failed \union {d}, scanRows) /\ ScanUpset

-----------------------------------------------------------------------------
(* POST /scan/issues *)

\* The loop of submit s with S left, the claims being c: tracked findings are
\* skipped, the next other one is claimed and looked for on the forge.
SubmitGoesOn(s, c, S) ==
  LET free == {d \in S : c[d] = -1}
  IN  IF free = {} THEN claims' = c /\ submits' = [submits EXCEPT ![s] = NoSubmit]
      ELSE \E d \in free :
             /\ claims' = [c EXCEPT ![d] = 0]
             /\ submits' = [submits EXCEPT ![s] = [at |-> "list", left |-> S \ {d}, current |-> {d}]]

\* scanIssueSelection: open findings of one completed scan above the bar.
SubmitStarts(s, k) ==
  LET eligible == {d \in Worthy : scanRows[d].status = "open" /\ scanRows[d].job = k}
  IN  /\ submits[s].at = "idle" /\ k \in scanned /\ submitted < MaxSubmits /\ submitted' = submitted + 1
      /\ \E S \in SUBSET eligible \ {{}} : SubmitGoesOn(s, claims, S)
      /\ UNCHANGED <<scanRows, issues, scan, scanned, scans, scanUpsets>>

\* Mutant: a failed call leaves its claim behind.
SubmitFailsDirty(s, d) == SubmitGoesOn(s, claims, submits[s].left)

\* A call of the submit failed: the claim is released; the loop goes on, or
\* stops where the forge refused the write.
SubmitFails(s, d) ==
  LET released == IF claims[d] = 0 THEN [claims EXCEPT ![d] = -1] ELSE claims
  IN  \/ SubmitGoesOn(s, released, submits[s].left)
      \/ claims' = released /\ submits' = [submits EXCEPT ![s] = NoSubmit]

OpenIssues(d) == {i \in DOMAIN issues[d] : issues[d][i] = "open"}

\* listOpenIssuesByMarker answered: an open issue is linked, else one is created.
SubmitLists(s) ==
  /\ submits[s].at = "list" /\ UNCHANGED <<scanRows, issues, scan, scanned, scans, submitted>>
  /\ \E d \in submits[s].current :
       \/ /\ UNCHANGED scanUpsets
          /\ \/ \E i \in OpenIssues(d) : SubmitGoesOn(s, [claims EXCEPT ![d] = i], submits[s].left)
             \/ OpenIssues(d) = {} /\ submits' = [submits EXCEPT ![s].at = "create"] /\ UNCHANGED claims
       \/ ScanUpset /\ SubmitFails(s, d)

\* createIssue answered; or its reply was lost; or nothing was created.
SubmitCreates(s) ==
  /\ submits[s].at = "create" /\ UNCHANGED <<scanRows, scan, scanned, scans, submitted>>
  /\ \E d \in submits[s].current :
       LET grown == [issues EXCEPT ![d] = Append(@, "open")]
       IN  \/ /\ issues' = grown /\ UNCHANGED scanUpsets
              /\ SubmitGoesOn(s, [claims EXCEPT ![d] = Len(issues[d]) + 1], submits[s].left)
           \/ issues' \in {issues, grown} /\ SubmitFails(s, d) /\ ScanUpset

-----------------------------------------------------------------------------
IssueClosedByHand(d) ==
  /\ ScanUpset /\ \E i \in OpenIssues(d) : issues' = [issues EXCEPT ![d][i] = "closed"]
  /\ UNCHANGED <<scanRows, claims, scan, scanned, submits, scans, submitted>>

\* The process dies and boots: claims nobody works on any more are cleared
\* (clearOrphanedScanIssueClaims); a create in flight may have landed.
ScanServiceDies ==
  /\ ScanUpset /\ (scan.at # "idle" \/ \E s \in Operators : submits[s].at # "idle")
  /\ scan' = NoScan /\ submits' = [s \in Operators |-> NoSubmit]
  /\ claims' = [d \in Defects |-> IF claims[d] = 0 THEN -1 ELSE claims[d]]
  /\ issues' \in {issues} \union
       UNION {{[issues EXCEPT ![d] = Append(@, "open")] : d \in submits[s].current} :
              s \in {o \in Operators : submits[o].at = "create"}}
  /\ UNCHANGED <<scanRows, scanned, scans, submitted>>

ScanIssuesInit ==
  /\ scanRows = [d \in Defects |-> [status |-> "none", job |-> 0]]
  /\ claims = [d \in Defects |-> -1] /\ issues = [d \in Defects |-> <<>>]
  /\ scan = NoScan /\ scanned = {} /\ submits = [s \in Operators |-> NoSubmit]
  /\ scans = 0 /\ submitted = 0 /\ scanUpsets = 0

ScanIssuesNext ==
  \/ ScanStarts \/ ScanAggregates \/ ScanVerifies \/ ScanReadsIssue \/ ScanClosesIssue \/ ScanServiceDies
  \/ \E s \in Operators : SubmitLists(s) \/ SubmitCreates(s) \/ \E k \in 1..MaxScans : SubmitStarts(s, k)
  \/ \E d \in Defects : IssueClosedByHand(d)

ScanIssuesSpec == ScanIssuesInit /\ [][ScanIssuesNext]_scanVars

-----------------------------------------------------------------------------
(* Properties *)

ScanIssuesTypeOK ==
  \A d \in Defects :
    /\ scanRows[d].status \in {"none", "open", "still_valid", "uncertain", "resolved"} /\ scanRows[d].job \in 0..scans
    /\ claims[d] \in {-1} \union 0..Len(issues[d])
    /\ scan.at = "closing" /\ d \in scan.current => claims[d] > 0

\* "Deduplicate by stable fingerprint ... retries are idempotent" (README.md:590):
\* at most one open issue per finding, whatever fails, races or dies; and a
\* claim is held by a submit that is working on it, or the finding could never
\* be published again.
OneIssuePerFinding ==
  \A d \in Defects :
    /\ Cardinality(OpenIssues(d)) <= 1
    /\ claims[d] = 0 => \E s \in Operators : d \in submits[s].current
=============================================================================

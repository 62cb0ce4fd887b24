------------------------------- MODULE ModelCli -------------------------------
(***************************************************************************)
(* The runs of the model CLI that opencode/spawn.ts starts in one job's      *)
(* workspace: the version probe and the config pin they share, the child of  *)
(* each with its timer and its abort listener, and what opencode/parse.ts    *)
(* makes of the stream a child left, however it ended.                       *)
(***************************************************************************)
EXTENDS Integers, FiniteSets, FiniteSetsExt

CONSTANTS Calls,         \* calls of run()
          MaxSteps,      \* bound: steps a child takes; each costs 1
          MaxFinishes,   \* bound: finishes of steps a child writes, repetitions too
          MaxWipes       \* bound: times the checkout is made anew

ASSUME CliAssumption ==
  /\ MaxSteps \in Nat /\ MaxFinishes \in Nat /\ MaxWipes \in Nat

VARIABLES
  major,    \* memory: majorByBin: "none", "pending", or the answer
  pinning,  \* memory: the workspace's entry in configPinByDir: "none" or "writing"
  pinned,   \* disk: a pin was tried since the checkout was made
  wipes,    \* checkouts made anew (bound)
  calls,    \* each call: where it is, the CLI it runs, how it settled
  child,    \* the operating system: each call's child
  watched,  \* memory: each child's timer and abort listener: a subset of {"timer", "abort"}
  aborted,  \* calls whose signal has fired
  out,      \* how often each child has written the finish of each step, with its usage
  steps     \* the steps each child has begun; each wrote its start

cliVars == <<major, pinning, pinned, wipes, calls, child, watched, aborted, out, steps>>

NewCall == [at |-> "absent", v2 |-> FALSE, result |-> "none", usage |-> [cost |-> 0, complete |-> FALSE]]
At(c) == calls[c].at
Settled(c) == At(c) = "settled"
Settles(c, result) == IF Settled(c) THEN calls ELSE [calls EXCEPT ![c].at = "settled", ![c].result = result]

\* Mutant: a finish that is written again counts again.
CountsRepeats(c) == MapThenSumSet(LAMBDA n : out[c][n], 1..MaxSteps)

\* The finishes of a stream, by the id of their part.
StepsBilled(c) == Cardinality({n \in 1..MaxSteps : out[c][n] > 0})

\* parseOpenCodeOutput: complete if no start is without its finish.
Parsed(c) == [cost |-> StepsBilled(c), complete |-> StepsBilled(c) > 0 /\ steps[c] <= StepsBilled(c)]

\* The body of the promise: an abort that came before costs no child.
Spawned(cs) ==
  /\ calls' = [c \in Calls |-> IF c \notin cs THEN calls[c]
                               ELSE IF c \in aborted
                               THEN [calls[c] EXCEPT !.at = "settled", !.result = "rejected", !.v2 = (major' = "v2")]
                               ELSE [calls[c] EXCEPT !.at = "run", !.v2 = (major' = "v2")]]
  /\ LET born == cs \ aborted
     IN /\ child' = [c \in Calls |-> IF c \in born THEN "live" ELSE child[c]]
        /\ watched' = [c \in Calls |-> IF c \in born THEN {"timer", "abort"} ELSE watched[c]]

\* detectOpenCodeMajor has answered these calls: CLI 2 waits for the pin it
\* shares with whoever is waiting, CLI 1 spawns at once.
Detected(cs) ==
  IF major' = "v2"
  THEN /\ calls' = [c \in Calls |-> IF c \in cs THEN [calls[c] EXCEPT !.at = "pin"] ELSE calls[c]]
       /\ pinning' = IF pinning = "none" THEN "writing" ELSE pinning
       /\ UNCHANGED <<child, watched>>
  ELSE Spawned(cs) /\ UNCHANGED pinning

CallsRun(c) ==
  /\ At(c) = "absent"
  /\ IF major \in {"v1", "v2"}
     THEN UNCHANGED major /\ Detected({c})
     ELSE /\ major' = "pending" /\ calls' = [calls EXCEPT ![c].at = "probe"]
          /\ UNCHANGED <<pinning, child, watched>>
  /\ UNCHANGED <<pinned, wipes, aborted, out, steps>>

Probing == {c \in Calls : At(c) = "probe"}
Pinning == {c \in Calls : At(c) = "pin"}

\* --version answers, and is not asked again.
ProbeAnswers ==
  /\ major = "pending" /\ major' \in {"v1", "v2"} /\ Detected(Probing)
  /\ UNCHANGED <<pinned, wipes, aborted, out, steps>>

\* Mutant: giveUp evicts, and does not resolve.
EvictsOnly == UNCHANGED <<calls, pinning, child, watched>>

\* giveUp: the entry goes, and those who waited run as with CLI 1.
GivesUp == Detected(Probing)

\* The probe's child could not be spawned, or its 10 s are over.
ProbeFails ==
  /\ major = "pending" /\ major' = "none" /\ GivesUp
  /\ UNCHANGED <<pinned, wipes, aborted, out, steps>>

\* Mutant: the entry of a pin is never evicted.
Kept == "kept"

\* .finally: the next run in this workspace pins again.
Evicted == "none"

\* The pin settles, written or not ("the catch fails open"), and those who
\* waited spawn in the same turn.
PinSettles ==
  /\ Pinning # {} /\ pinned' = (pinned \/ pinning = "writing") /\ pinning' = Evicted
  /\ UNCHANGED major /\ Spawned(Pinning)
  /\ UNCHANGED <<wipes, aborted, out, steps>>

\* The child begins a step, or writes the finish of one with its usage, once or
\* again; a finish without usage adds nothing.  (After the call has settled
\* nobody reads.)
Begins(c) ==
  /\ child[c] = "live" /\ ~Settled(c) /\ steps[c] < MaxSteps
  /\ steps' = [steps EXCEPT ![c] = @ + 1]
  /\ UNCHANGED <<major, pinning, pinned, wipes, calls, child, watched, aborted, out>>

Finishes(c, n) ==
  /\ child[c] = "live" /\ ~Settled(c) /\ n <= steps[c]
  /\ MapThenSumSet(LAMBDA k : out[c][k], 1..MaxSteps) < MaxFinishes
  /\ out' = [out EXCEPT ![c][n] = @ + 1]
  /\ UNCHANGED <<major, pinning, pinned, wipes, calls, child, watched, aborted, steps>>

\* It ends, or could not be spawned; what holds its pipes may live on.
Exits(c) ==
  /\ child[c] = "live" /\ child' = [child EXCEPT ![c] = "exited"]
  /\ UNCHANGED <<major, pinning, pinned, wipes, calls, watched, aborted, out, steps>>

\* "close", or "error" of a child that never started.
Closes(c) ==
  /\ child[c] \in {"exited", "killed"} /\ child' = [child EXCEPT ![c] = "gone"]
  /\ watched' = [watched EXCEPT ![c] = {}]
  /\ \/ calls' = IF Settled(c) THEN calls
                 ELSE [Settles(c, "resolved") EXCEPT ![c].usage = Parsed(c)]
     \/ steps[c] = 0 /\ calls' = Settles(c, "rejected")
  /\ UNCHANGED <<major, pinning, pinned, wipes, aborted, out, steps>>

Killed(c) == IF child[c] = "live" THEN [child EXCEPT ![c] = "killed"] ELSE child

\* Mutant: the promise is rejected and the child runs on.
RejectsOnly(c) == child

\* child.kill("SIGKILL") of the timer.
Reaped(c) == Killed(c)

TimesOut(c) ==
  /\ "timer" \in watched[c] /\ watched' = [watched EXCEPT ![c] = @ \ {"timer"}]
  /\ child' = Reaped(c) /\ calls' = Settles(c, "rejected")
  /\ UNCHANGED <<major, pinning, pinned, wipes, aborted, out, steps>>

\* The job's controller fires: a child is killed, and its close settles the call.
Aborts(c) ==
  /\ c \notin aborted /\ aborted' = aborted \cup {c}
  /\ child' = IF "abort" \in watched[c] THEN Killed(c) ELSE child
  /\ watched' = [watched EXCEPT ![c] = @ \ {"abort"}]
  /\ UNCHANGED <<major, pinning, pinned, wipes, calls, out, steps>>

\* The next attempt's checkout wipes the workspace, pin and all; calls that a
\* failed attempt left behind may still run, but none waits for a pin.
Wipes ==
  /\ wipes < MaxWipes /\ wipes' = wipes + 1 /\ pinned /\ pinned' = FALSE /\ Pinning = {}
  /\ UNCHANGED <<major, pinning, calls, child, watched, aborted, out, steps>>

-----------------------------------------------------------------------------
CliInit ==
  /\ major = "none" /\ pinning = "none" /\ pinned = FALSE /\ wipes = 0
  /\ calls = [c \in Calls |-> NewCall] /\ child = [c \in Calls |-> "none"]
  /\ watched = [c \in Calls |-> {}] /\ aborted = {}
  /\ out = [c \in Calls |-> [n \in 1..MaxSteps |-> 0]] /\ steps = [c \in Calls |-> 0]

CliNext ==
  \/ ProbeAnswers \/ ProbeFails \/ PinSettles \/ Wipes
  \/ \E c \in Calls :
       CallsRun(c) \/ Begins(c) \/ (\E n \in 1..MaxSteps : Finishes(c, n)) \/ Exits(c) \/ Closes(c) \/ TimesOut(c) \/ Aborts(c)

\* The timers of the probe and of each child, and the file system, go on; no
\* child ever has to.
CliFairness ==
  /\ WF_cliVars(ProbeFails) /\ WF_cliVars(PinSettles) /\ \A c \in Calls : WF_cliVars(TimesOut(c))

CliSpec == CliInit /\ [][CliNext]_cliVars /\ CliFairness

-----------------------------------------------------------------------------
(* Properties *)

\* The type of the state; the shared pin has its entry while a call awaits it.
CliTypeOK ==
  /\ major \in {"none", "pending", "v1", "v2"} /\ pinned \in BOOLEAN
  /\ pinning \in {"none", "writing"} /\ (pinning = "writing" <=> Pinning # {})
  /\ \A c \in Calls : /\ At(c) \in {"absent", "probe", "pin", "run", "settled"}
                      /\ child[c] \in {"none", "live", "exited", "killed", "gone"}
                      /\ watched[c] \subseteq {"timer", "abort"} /\ steps[c] \in 0..MaxSteps

\* Nobody is left behind: a call that has settled has no child that runs, and
\* a call that has not keeps the timer that will end it, its child's stream
\* closed or not (spawn.ts:218-250).
NoOrphans ==
  \A c \in Calls : /\ Settled(c) => child[c] # "live"
                   /\ At(c) = "run" => "timer" \in watched[c]
                   /\ c \in aborted => child[c] # "live"

\* Tokens are money: of a stream cut off anywhere, with events written twice or
\* without their usage, no run books more than its steps have cost, and one
\* whose usage is called complete books every step it began (parse.ts:245-330).
UsageHonest ==
  \A c \in Calls :
    LET usage == calls[c].usage
    IN usage.cost <= steps[c] /\ (usage.complete => usage.cost = steps[c])

\* "checkout wipes and recreates the same deterministic workspace path on
\* retries, so the pin must re-run" (spawn.ts:35-36): no child of CLI 2 starts in
\* a checkout in which no pin was tried.
PinnedCheckout ==
  [][\A c \in Calls : child[c] = "none" /\ child'[c] # "none" /\ calls'[c].v2 => pinned']_cliVars

\* Every call settles, even if the CLI hangs, by the timers alone.
CallsSettle == \A c \in Calls : At(c) # "absent" ~> Settled(c)
=============================================================================

------------------------------ MODULE MCServices ------------------------------
(***************************************************************************)
(* What the process keeps in memory beside the reviews, for TLC: the job     *)
(* queue, the calls of the model CLI and its list of models, and the chains  *)
(* of telemetry.  They share no state, so a behaviour plays one of them, its *)
(* scene, and leaves the others as they begin.  README.md gives the reason   *)
(* for each bound.                                                           *)
(***************************************************************************)
EXTENDS JobQueue, ModelCli, ModelList, Telemetry

VARIABLE scene    \* the service that is played

ServiceScenes == {"queue", "cli", "models", "telemetry"}

\* A service's first states that differ are all taken in its own scene only.
ServicesInit ==
  /\ scene \in ServiceScenes
  /\ QueueInit /\ CliInit /\ ModelListInit /\ TelemetryInit
  /\ scene # "telemetry" => wired = {}

Plays(s) == scene = s /\ UNCHANGED scene

ServicesNext ==
  \/ /\ Plays("queue") /\ QueueNext
     /\ UNCHANGED <<cliVars, listVars, telemetryVars>>
  \/ /\ Plays("cli") /\ CliNext
     /\ UNCHANGED <<queue, listVars, telemetryVars>>
  \/ /\ Plays("models") /\ ModelListNext
     /\ UNCHANGED <<queue, cliVars, telemetryVars>>
  \/ /\ Plays("telemetry") /\ TelemetryNext
     /\ UNCHANGED <<queue, cliVars, listVars>>

ServicesSpec ==
  /\ ServicesInit
  /\ [][ServicesNext]_<<scene, queue, cliVars, listVars, telemetryVars>>
  /\ QueueFairness /\ CliFairness /\ TelemetryFairness

-----------------------------------------------------------------------------
(* Properties *)

\* The model CLI leaves nobody behind and books what a stream cost, and the
\* backlog of telemetry is what its counter says, on top of each one's types.
ServicesInv ==
  /\ scene \in ServiceScenes
  /\ CliTypeOK /\ ModelListTypeOK /\ TelemetryTypeOK
  /\ NoOrphans /\ UsageHonest /\ BacklogCounted

\* What was made or said before an await still holds when it is used: the pin
\* under the child that starts, the list of models that is newest.
NothingStaleIsUsed == PinnedCheckout /\ NewestList

\* A job leaves the queue, a call of the CLI settles, and once the job rests so
\* do the chains of telemetry, whatever hangs, by timers alone.
ServicesSettle == PendingLeaves /\ CallsSettle /\ Drains
=============================================================================

---------------------------- MODULE MCComponents ----------------------------
(***************************************************************************)
(* The components that keep tables of their own and share no state, for TLC: *)
(* a behaviour plays one of them, its scene, and leaves the others as they   *)
(* begin, so that what TLC explores is the sum of their state spaces and not *)
(* the product.  README.md gives the reason for each bound.                  *)
(***************************************************************************)
EXTENDS Findings, Dispatches, ScanIssues, Revisions, Panel, Chat, Intake, Prompts

CONSTANTS hook, comment,               \* targets of a page
          c1, m1, p1, p2, r1           \* subjects of deliveries

HookAndComment == <<hook, comment>>
OneReviewerRow == <<"security">>

\* A comment that comes under two deliveries, a pull that closed, two pushes,
\* and a review command.
SubjectOfDelivery ==
  [d \in 1..6 |-> CASE d <= 2 -> c1 [] d = 3 -> m1 [] d = 4 -> p1 [] d = 5 -> p2 [] d = 6 -> r1]
KindOfSubject ==
  [s \in {c1, m1, p1, p2, r1} |->
     CASE s = c1 -> "reply" [] s = m1 -> "closed" [] s = r1 -> "review" [] s \in {p1, p2} -> "push"]

Scenes == {"findings", "dispatches", "scans", "revisions", "panel", "chat", "intake", "prompts"}

VARIABLE scene    \* the component that is played

\* A component's first states that differ are all taken in its own scene only.
ComponentsInit ==
  /\ scene \in Scenes
  /\ FindingsInit /\ DispatchesInit /\ ScanIssuesInit /\ RevisionsInit
  /\ PanelInit /\ ChatInit /\ IntakeInit /\ PromptsInit
  /\ scene # "dispatches" => policy = "manual" /\ alert = "standing" /\ ~jobPage[1].manual
  /\ scene # "panel" => behavior = "degrade"

Plays(s) == scene = s /\ UNCHANGED scene

ComponentsNext ==
  \/ /\ Plays("findings") /\ FindingsNext
     /\ UNCHANGED <<dispatchVars, scanVars, revisionVars, panelVars, chatVars, intakeVars, promptVars>>
  \/ /\ Plays("dispatches") /\ DispatchesNext
     /\ UNCHANGED <<findingVars, scanVars, revisionVars, panelVars, chatVars, intakeVars, promptVars>>
  \/ /\ Plays("scans") /\ ScanIssuesNext
     /\ UNCHANGED <<findingVars, dispatchVars, revisionVars, panelVars, chatVars, intakeVars, promptVars>>
  \/ /\ Plays("revisions") /\ RevisionsNext
     /\ UNCHANGED <<findingVars, dispatchVars, scanVars, panelVars, chatVars, intakeVars, promptVars>>
  \/ /\ Plays("panel") /\ PanelNext
     /\ UNCHANGED <<findingVars, dispatchVars, scanVars, revisionVars, chatVars, intakeVars, promptVars>>
  \/ /\ Plays("chat") /\ ChatNext
     /\ UNCHANGED <<findingVars, dispatchVars, scanVars, revisionVars, panelVars, intakeVars, promptVars>>
  \/ /\ Plays("intake") /\ IntakeNext
     /\ UNCHANGED <<findingVars, dispatchVars, scanVars, revisionVars, panelVars, chatVars, promptVars>>
  \/ /\ Plays("prompts") /\ PromptsNext
     /\ UNCHANGED <<findingVars, dispatchVars, scanVars, revisionVars, panelVars, chatVars, intakeVars>>

ComponentsSpec ==
  ComponentsInit /\ [][ComponentsNext]_<<scene, findingVars, dispatchVars, scanVars, revisionVars,
                                          panelVars, chatVars, intakeVars, promptVars>>

\* Every table and every piece of memory of these components has its type.
ComponentsTypeOK ==
  /\ scene \in Scenes
  /\ FindingsTypeOK /\ DispatchesTypeOK /\ ScanIssuesTypeOK /\ RevisionsTypeOK
  /\ PanelTypeOK /\ ChatTypeOK /\ IntakeTypeOK /\ PromptsTypeOK
=============================================================================

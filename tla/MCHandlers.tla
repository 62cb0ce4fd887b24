------------------------------ MODULE MCHandlers ------------------------------
(***************************************************************************)
(* What handles a comment, an event, a form or a start of the process and    *)
(* keeps tables of its own, for TLC: stack commands (and, in a scene of its  *)
(* own, the walk down the branches over every layout), routing, merge        *)
(* requests, pauses, the editor of a profile, the settings of telemetry, and *)
(* the migration.  A behaviour plays one of them, its scene, and leaves the  *)
(* others as they begin.  README.md gives the reason for each bound.         *)
(***************************************************************************)
EXTENDS StackCommands, Routing, MergeRequests, Pauses, ProfileEditor, TelemetrySettings, Migration

\* A chain of two pulls; bodies with one marker, with two, with a malformed
\* one, and with none.
TwoBranches == <<"a", "b">>
ChainOfTwo  == {<<"main", "a">>}
SomeBodies  == {<<"start">>, <<"declare">>, <<"part", "end">>, <<"malformed", "part">>, <<"prose", "malformed">>}

\* Two of four pulls share a branch and the last is of a fork; any layout.
SharedBranch == <<"a", "b", "b", "c">>
AnyBases     == {b \in [1..4 -> ToSet(SharedBranch) \cup {Trunk}] : \A p \in 1..3 : b[p] # SharedBranch[p]}
Layouts == INSTANCE StackCommands WITH
  Pulls <- 1..4, HeadOf <- SharedBranch, Forked <- {4}, FirstBases <- AnyBases, Given <- {"start"},
  Bodies <- {}, Requests <- {1}, MaxCommands <- 1, MaxRebases <- 1

\* A job of the environment's roles, or one stamped with a definition of a
\* custom role whose alert level names its own answer.
EnvironmentRoles == <<"correctness", "security", "tests", "maintainer">>
OneDefinition ==
  {[reviewers |-> <<"security", "go", "tests">>,
    alerts    |-> [NoDefinition.alerts EXCEPT !["poison-alert"] = {"security", "go"}]]}
SomeAnswers ==
  {<<>>, <<"go">>, <<"foreign", "tests", "tests">>, <<"go", "maintainer", "tests", "security", "correctness">>}

VARIABLE scene    \* the handler that is played

HandlerScenes ==
  {"commands", "walk", "routing", "requests", "pauses", "editor", "settings", "migration"}

\* A handler's first states that differ are all taken in its own scene only.
HandlersInit ==
  /\ scene \in HandlerScenes
  /\ IF scene = "walk" THEN Layouts!StackCommandsInit ELSE StackCommandsInit
  /\ PausesInit /\ EditorInit
  /\ RequestInit   /\ (scene # "requests" => ~request.draft)
  /\ MigrationInit /\ (scene # "migration" => db = FileOf(0, FALSE))
  /\ SettingsInit  /\ (scene # "settings" => channel = "logs" /\ environment = [url |-> 0, base |-> 0, stream |-> 0, auth |-> {}])
  /\ RoutingInit
  /\ scene # "routing" => mode = "fixed" /\ diff = <<[path |-> "code", hunk |-> <<>>]>> /\ stamp = NoDefinition

Plays(s) == scene = s /\ UNCHANGED scene

\* The walk depends on the layout and the starts alone.
LayoutsMove ==
  \E p \in 1..4 : Layouts!Rebases(p) \/ \E s \in Stacks : Layouts!Start(1, s, p)

HandlersNext ==
  \/ /\ \/ Plays("commands") /\ StackCommandsNext
        \/ Plays("walk") /\ LayoutsMove
     /\ UNCHANGED <<routingVars, requestVars, pauseVars, editorVars, settingsVars, migrationVars>>
  \/ /\ Plays("routing") /\ RoutingNext
     /\ UNCHANGED <<commandVars, requestVars, pauseVars, editorVars, settingsVars, migrationVars>>
  \/ /\ Plays("requests") /\ RequestNext
     /\ UNCHANGED <<commandVars, routingVars, pauseVars, editorVars, settingsVars, migrationVars>>
  \/ /\ Plays("pauses") /\ PausesNext
     /\ UNCHANGED <<commandVars, routingVars, requestVars, editorVars, settingsVars, migrationVars>>
  \/ /\ Plays("editor") /\ EditorNext
     /\ UNCHANGED <<commandVars, routingVars, requestVars, pauseVars, settingsVars, migrationVars>>
  \/ /\ Plays("settings") /\ SettingsNext
     /\ UNCHANGED <<commandVars, routingVars, requestVars, pauseVars, editorVars, migrationVars>>
  \/ /\ Plays("migration") /\ MigrationNext
     /\ UNCHANGED <<commandVars, routingVars, requestVars, pauseVars, editorVars, settingsVars>>

HandlersSpec ==
  HandlersInit /\ [][HandlersNext]_<<scene, commandVars, routingVars, requestVars, pauseVars, editorVars,
                                     settingsVars, migrationVars>>

-----------------------------------------------------------------------------
(* Properties, each of the scene it is about *)

\* Every table and every piece of memory of these handlers has its type.
HandlersTypeOK ==
  /\ scene \in HandlerScenes
  /\ CASE scene = "commands"  -> StackCommandsTypeOK
       [] scene = "walk"      -> Layouts!StackCommandsTypeOK
       [] scene = "routing"   -> RoutingTypeOK
       [] scene = "requests"  -> RequestTypeOK
       [] scene = "pauses"    -> PausesTypeOK
       [] scene = "editor"    -> EditorTypeOK
       [] scene = "settings"  -> SettingsTypeOK
       [] scene = "migration" -> MigrationTypeOK

\* A stack is what its commands and branches say: positions are distinct, it
\* ran only when somebody asked, and the walk finds it over whatever branches.
StacksAsAsked ==
  /\ scene = "commands" => PositionsDistinct /\ RunsWereAsked
  /\ scene = "walk" => Layouts!WalkFindsTheStack

\* A risky diff is answered and the panel is the decision's, also after a
\* restart under another mode (select.ts:160, pipeline.ts:1899).
ReviewersAnswer == scene = "routing" => RiskIsAnswered /\ PanelAnswersDecision

\* What an operator's page shows is so: a form is the draft it was opened on and
\* saves what can be activated, the settings say what is sent.
PagesAreTrue ==
  /\ scene = "editor" => SavedIsSound /\ RoundTrip
  /\ scene = "settings" => PageSaysWhatIsSent

\* What an operator presses does what the page showed, however stale it is: an
\* "End" ends that pause, a flag names that row, a button loses no other row, a
\* preview is what the save will give.
PressesDoAsShown == ClickEndsWhatItShows /\ FlagsTheRow /\ ClicksKeepRows /\ PreviewIsWhatSaveGives
=============================================================================

------------------------------ MODULE Revisions ------------------------------
(***************************************************************************)
(* Review profiles: the revisions, custom roles and routes of                *)
(* config-revisions.ts, the operator's routes of server.ts that change them, *)
(* and the jobs of one repository, each stamped at its enqueue with the      *)
(* revision it runs on (jobs/enqueue.ts).                                    *)
(***************************************************************************)
EXTENDS Integers, FiniteSets, Sequences

CONSTANTS ProfileNames,   \* names a profile may have
          Default,        \* "default", the name that needs no route
          BuiltIn,        \* KNOWN_ROLE_IDS
          CustomRoles,    \* slugs operators may give a role of their own
          Patterns,       \* route patterns that match the repository, 1 the longest
          MaxRevisions,   \* bound: revisions ever created
          MaxEdits,       \* bound: edits of one draft
          MaxRevisionJobs \* bound: jobs

ASSUME RevisionAssumption ==
  /\ Default \in ProfileNames /\ BuiltIn \intersect CustomRoles = {}
  /\ Patterns \subseteq Nat
  /\ MaxRevisions \in Nat /\ MaxEdits \in Nat /\ MaxRevisionJobs \in Nat

VARIABLES
  revisions,  \* SQLite: profile_revisions by id; "gone" once deleted
  roles,      \* SQLite: custom_roles
  routes,     \* SQLite: profile_routes that match the repository, by pattern
  stamped     \* SQLite: jobs: state and profile_revision_id

revisionVars == <<revisions, roles, routes, stamped>>

RoleIds     == BuiltIn \union CustomRoles
Definitions == [name : ProfileNames, roles : SUBSET RoleIds]
Ids         == DOMAIN revisions
StampedJobs == DOMAIN stamped
Status(id)  == revisions[id].status
Ended       == {"completed", "failed"}

-----------------------------------------------------------------------------
(* Resolution *)

ActiveOf(name) == {id \in Ids : Status(id) = "active" /\ revisions[id].def.name = name}

\* resolveProfileForRepo: the longest route whose name has an active revision,
\* else the active default, else none (0).
ResolveProfile ==
  LET hits  == {i \in DOMAIN routes : ActiveOf(routes[i]) # {}}
      first == CHOOSE i \in hits : \A k \in hits : i <= k
      from  == IF hits = {} THEN ActiveOf(Default) ELSE ActiveOf(routes[first])
  IN  IF from = {} THEN 0 ELSE CHOOSE id \in from : TRUE

\* applyProfileToSpecs and profileDefinitionForJob: the roles of the stamped
\* revision; those of the environment when it has none, or is gone.
EffectiveRoles(j) ==
  LET r == stamped[j].rev
  IN  IF r = 0 \/ Status(r) = "gone" \/ revisions[r].def.roles = {} THEN {"environment"}
      ELSE revisions[r].def.roles

-----------------------------------------------------------------------------
(* Revisions *)

KnownRoles     == BuiltIn \union roles
Storable(def)  == def.roles \subseteq KnownRoles              \* unknownRoleIssues
Runnable(def)  == def.roles # {} /\ def.roles \subseteq KnownRoles  \* validateProfileDefinition

Draft(def) == [status |-> "draft", def |-> def, seq |-> 0]

\* createDraft: of the form or the editor, of an import, or of the seed of the
\* environment's own profile at boot (seedDefaultProfileRevision).
CreateDraft(def) ==
  /\ Len(revisions) < MaxRevisions /\ Storable(def)
  /\ revisions' = Append(revisions, Draft(def))
  /\ UNCHANGED <<roles, routes, stamped>>

\* "Edit" of a revision that is no draft, and "Duplicate" under a fresh name.
ForkRevision(id) ==
  /\ Status(id) # "gone"
  /\ \/ Status(id) # "draft" /\ CreateDraft(revisions[id].def)
     \/ \E name \in ProfileNames \ {revisions[i].def.name : i \in {k \in Ids : Status(k) # "gone"}} :
          CreateDraft([revisions[id].def EXCEPT !.name = name])

\* Mutant: an update spares only what is active.
UpdateInactive(id, def, expected) ==
  /\ Status(id) \in {"draft", "retired"} /\ revisions[id].seq = expected /\ Storable(def)
  /\ revisions' = [revisions EXCEPT ![id].def = def, ![id].seq = @ + 1]
  /\ UNCHANGED <<roles, routes, stamped>>

\* updateDraft: refused unless the draft is as the operator last saw it.
UpdateDraft(id, def, expected) ==
  /\ Status(id) = "draft" /\ revisions[id].seq = expected /\ Storable(def)
  /\ revisions' = [revisions EXCEPT ![id].def = def, ![id].seq = @ + 1]
  /\ UNCHANGED <<roles, routes, stamped>>

\* The transaction of activateRevision and rollbackRevision.
Promoted(id) ==
  LET superseded == ActiveOf(revisions[id].def.name)
  IN  [i \in Ids |-> IF i = id THEN [revisions[i] EXCEPT !.status = "active"]
                     ELSE IF i \in superseded THEN [revisions[i] EXCEPT !.status = "retired"]
                     ELSE revisions[i]]

ActivateRevision(id) ==
  /\ Status(id) = "draft" /\ Runnable(revisions[id].def)
  /\ revisions' = Promoted(id)
  /\ UNCHANGED <<roles, routes, stamped>>

\* Mutant: what was valid once is taken to be valid still.
RollbackUnchecked(id) ==
  /\ Status(id) = "retired"
  /\ revisions' = Promoted(id)
  /\ UNCHANGED <<roles, routes, stamped>>

RollbackRevision(id) ==
  /\ Status(id) = "retired" /\ Runnable(revisions[id].def)
  /\ revisions' = Promoted(id)
  /\ UNCHANGED <<roles, routes, stamped>>

DeactivateRevision(id) ==
  /\ Status(id) = "active"
  /\ revisions' = [revisions EXCEPT ![id].status = "retired"]
  /\ UNCHANGED <<roles, routes, stamped>>

\* discardDraft; deleteRevision, which spares what an unfinished job runs on.
UnfinishedOn(id) == {j \in StampedJobs : stamped[j].rev = id /\ stamped[j].state \notin Ended}

RemoveRevision(id) ==
  /\ \/ Status(id) = "draft"
     \/ Status(id) = "retired" /\ UnfinishedOn(id) = {}
  /\ revisions' = [revisions EXCEPT ![id].status = "gone"]
  /\ UNCHANGED <<roles, routes, stamped>>

-----------------------------------------------------------------------------
(* Roles and routes *)

UpsertCustomRole(r) ==
  /\ r \in CustomRoles /\ roles' = roles \union {r}
  /\ UNCHANGED <<revisions, routes, stamped>>

\* deleteCustomRole: refused while a draft or an active revision names the role.
DeleteCustomRole(r) ==
  /\ r \in roles
  /\ \A id \in Ids : Status(id) \in {"draft", "active"} => r \notin revisions[id].def.roles
  /\ roles' = roles \ {r}
  /\ UNCHANGED <<revisions, routes, stamped>>

\* addProfileRoute and deleteProfileRoute; a route may name what does not exist.
AddProfileRoute(i, name) ==
  /\ i \notin DOMAIN routes
  /\ routes' = [k \in DOMAIN routes \union {i} |-> IF k = i THEN name ELSE routes[k]]
  /\ UNCHANGED <<revisions, roles, stamped>>

DeleteProfileRoute(i) ==
  /\ i \in DOMAIN routes /\ routes' = [k \in DOMAIN routes \ {i} |-> routes[k]]
  /\ UNCHANGED <<revisions, roles, stamped>>

-----------------------------------------------------------------------------
(* Jobs *)

\* store.enqueue stamps the revision that is active now; the scan form stamps
\* the one its operator confirmed, which is the same.
StampJob ==
  /\ Len(stamped) < MaxRevisionJobs
  /\ stamped' = Append(stamped, [state |-> "active", rev |-> ResolveProfile])
  /\ UNCHANGED <<revisions, roles, routes>>

StampedJobEnds(j) ==
  /\ stamped[j].state = "active" /\ \E s \in Ended : stamped' = [stamped EXCEPT ![j].state = s]
  /\ UNCHANGED <<revisions, roles, routes>>

\* retryFailedReviewers: the stamp stays, whatever became of its revision.
StampedJobRetried(j) ==
  /\ stamped[j].state = "failed" /\ stamped' = [stamped EXCEPT ![j].state = "active"]
  /\ UNCHANGED <<revisions, roles, routes>>

-----------------------------------------------------------------------------
RevisionsInit == revisions = <<>> /\ roles = {} /\ routes = <<>> /\ stamped = <<>>

RevisionsNext ==
  \/ \E def \in Definitions : CreateDraft(def)
  \/ \E id \in Ids :
       \/ ForkRevision(id) \/ ActivateRevision(id) \/ RollbackRevision(id)
       \/ DeactivateRevision(id) \/ RemoveRevision(id)
       \/ \E def \in Definitions, seen \in 0..MaxEdits : seen < MaxEdits /\ UpdateDraft(id, def, seen)
  \/ \E r \in CustomRoles : UpsertCustomRole(r) \/ DeleteCustomRole(r)
  \/ \E i \in Patterns : DeleteProfileRoute(i) \/ \E name \in ProfileNames : AddProfileRoute(i, name)
  \/ StampJob \/ \E j \in StampedJobs : StampedJobEnds(j) \/ StampedJobRetried(j)

RevisionsSpec == RevisionsInit /\ [][RevisionsNext]_revisionVars

-----------------------------------------------------------------------------
(* Properties *)

RevisionsTypeOK ==
  /\ \A id \in Ids : /\ Status(id) \in {"draft", "active", "retired", "gone"}
                     /\ revisions[id].def \in Definitions /\ revisions[id].seq \in Nat
  /\ roles \subseteq CustomRoles
  /\ DOMAIN routes \subseteq Patterns /\ \A i \in DOMAIN routes : routes[i] \in ProfileNames
  /\ \A j \in StampedJobs : stamped[j].state \in Ended \union {"active"} /\ stamped[j].rev \in 0..Len(revisions)

\* What runs is sound whatever operators do in whatever order: a profile has at
\* most one active revision, and an active one has specialists, all of which
\* exist (activateRevision, rollbackRevision, updateDraft, deleteCustomRole).
ProfilesRunnable ==
  \A id \in Ids : Status(id) = "active" =>
    ActiveOf(revisions[id].def.name) = {id} /\ Runnable(revisions[id].def)

\* "never from the live active revision, so all stages of one job see the same
\* configuration" (enqueue.ts:46-48): no edit, activation, rollback or deletion
\* changes what an unfinished job runs.
JobsKeepTheirProfile ==
  [][\A j \in StampedJobs : stamped[j].state = "active" /\ stamped'[j].state = "active" =>
       EffectiveRoles(j)' = EffectiveRoles(j)]_revisionVars

\* Both: what may run is sound, and what runs stays what it was.
ProfilesHold == []ProfilesRunnable /\ JobsKeepTheirProfile
=============================================================================

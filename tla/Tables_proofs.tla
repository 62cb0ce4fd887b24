----------------------------- MODULE Tables_proofs -----------------------------
(***************************************************************************)
(* Five components that keep tables of their own: profile and prompt          *)
(* revisions, and three that guard what they promise with something they     *)
(* keep in memory: a run of the panel its ceiling, a job's conversations a   *)
(* chain of locks, a finding its claim.                                      *)
(*                                                                         *)
(* Revisions, for every set of names, roles, patterns, editors and texts and *)
(* any number of revisions, jobs and runs: what runs is sound, a job keeps   *)
(* what it was stamped with, what a run or an evaluation was given can be    *)
(* read under its number, a role has one active prompt and no edit is lost.  *)
(* The argument is pointwise: a step changes a revision only as Kept and     *)
(* PromptKept say, its text while it is a draft, and whatever a job or a run *)
(* is stamped with has left draft.                                           *)
(*                                                                         *)
(* The panel, for every number of rows, workers, attempts and runs, every    *)
(* ceiling and every price: what the runs of a job spend stays under the     *)
(* bound of CeilingHolds.  A call that begins has seen less than the ceiling *)
(* spent, and at most Hands of them are out at a time: so what is spent and  *)
(* what is still to be billed stay under Ceiling + Hands * MaxCost together  *)
(* (Within).  The rest of PanelInv says when a run has no call out: before   *)
(* and after its reviewers, and for ever once the internal pass is paid.     *)
(*                                                                         *)
(* The chat, for any number of questions, conversations and deaths and every *)
(* limit: one send of a job is at work at a time, in a checkout that is      *)
(* there, and transcripts stay whole and within their limits.  Sends are     *)
(* numbered in the order they were asked; the chain of locks is sound        *)
(* because whoever starts, or has left, has only sends that have left before *)
(* it (Alone).                                                               *)
(*                                                                         *)
(* Scan issues, for every set of findings and operators and any number of    *)
(* failures and deaths: one open issue per finding, and no claim without a   *)
(* submit that works on it.  The claim is what makes it so: a submit that    *)
(* works on a finding holds its claim alone, and one that is about to create *)
(* has seen that no issue is open, which nobody else can change (ClaimsInv). *)
(***************************************************************************)
EXTENDS Revisions, Prompts, Panel, Chat, ScanIssues, FiniteSetTheorems, SequenceTheorems, TLAPS

(* Profile revisions *)

RevisionRow == [status : {"draft", "active", "retired", "gone"}, def : Definitions, seq : Nat]

\* The types, and the strengthening: no job is stamped with a draft.
StampsInv ==
  /\ revisions \in Seq(RevisionRow)
  /\ roles \subseteq CustomRoles
  /\ DOMAIN routes \subseteq Patterns /\ \A i \in DOMAIN routes : routes[i] \in ProfileNames
  /\ stamped \in Seq([state : Ended \union {"active"}, rev : Nat])
  /\ \A j \in StampedJobs : stamped[j].rev # 0 => stamped[j].rev \in Ids /\ Status(stamped[j].rev) # "draft"

RevisionsInv == StampsInv /\ ProfilesRunnable

\* What a step may make of revision id.
Kept(id) ==
  /\ id \in DOMAIN revisions'
  /\ Status(id) # "draft" =>
       /\ revisions'[id].def = revisions[id].def /\ revisions'[id].status # "draft"
       /\ Status(id) = "gone" => revisions'[id].status = "gone"
       /\ revisions'[id].status = "gone" => Status(id) = "gone" \/ UnfinishedOn(id) = {}

\* The initial tables are empty.
LEMMA RevisionsStart == RevisionsInit => RevisionsInv
<1> SUFFICES ASSUME RevisionsInit PROVE RevisionsInv
  OBVIOUS
<1>1. /\ revisions \in Seq(RevisionRow) /\ DOMAIN revisions = {}
      /\ stamped \in Seq([state : Ended \union {"active"}, rev : Nat]) /\ DOMAIN stamped = {}
      /\ DOMAIN routes = {} /\ roles = {}
  BY EmptySeq DEF RevisionsInit
<1> QED
  BY <1>1 DEF RevisionsInv, StampsInv, ProfilesRunnable, StampedJobs, Ids

\* A stamp is nothing, or the number of an active revision (resolveProfileForRepo).
LEMMA ResolveActive ==
  ASSUME StampsInv
  PROVE  ResolveProfile = 0 \/ (ResolveProfile \in Ids /\ Status(ResolveProfile) = "active")
<1> DEFINE hits  == {i \in DOMAIN routes : ActiveOf(routes[i]) # {}}
           first == CHOOSE i \in hits : \A k \in hits : i <= k
           from  == IF hits = {} THEN ActiveOf(Default) ELSE ActiveOf(routes[first])
<1>1. ResolveProfile = IF from = {} THEN 0 ELSE CHOOSE id \in from : TRUE
  BY DEF ResolveProfile
<1>2. \A id \in from : id \in Ids /\ Status(id) = "active"
  BY DEF ActiveOf
<1> HIDE DEF from
<1> QED
  BY <1>1, <1>2

\* createDraft: the tables grow by a draft.
LEMMA DraftAdded ==
  ASSUME RevisionsInv, NEW def \in Definitions, CreateDraft(def)
  PROVE  /\ RevisionsInv' /\ UNCHANGED stamped /\ \A id \in Ids : Kept(id)
<1> DEFINE n == Len(revisions) + 1
<1>1. /\ revisions \in Seq(RevisionRow) /\ Draft(def) \in RevisionRow /\ Ids = 1..Len(revisions) /\ Len(revisions) \in Nat
  BY DEF RevisionsInv, StampsInv, RevisionRow, Draft, Ids
<1>2. /\ revisions' \in Seq(RevisionRow) /\ Len(revisions') = n /\ DOMAIN revisions' = 1..n
      /\ \A id \in Ids : id \in DOMAIN revisions' /\ revisions'[id] = revisions[id]
      /\ revisions'[n] = Draft(def) /\ \A id \in DOMAIN revisions' : id \in Ids \/ id = n
  <2>1. revisions' = Append(revisions, Draft(def))
    BY DEF CreateDraft
  <2>2. /\ revisions' \in Seq(RevisionRow) /\ Len(revisions') = n
        /\ \A id \in 1..Len(revisions) : revisions'[id] = revisions[id]
        /\ revisions'[n] = Draft(def)
    BY <1>1, <2>1, AppendProperties
  <2> QED
    BY <1>1, <2>2
<1>3. UNCHANGED <<roles, routes, stamped>>
  BY DEF CreateDraft
<1>4. \A id \in Ids : Kept(id)
  BY <1>2 DEF Kept, Status
<1>5. StampsInv'
  BY <1>2, <1>3 DEF RevisionsInv, StampsInv, Status, Ids, StampedJobs
<1>6. ProfilesRunnable'
  <2>1. Draft(def).status = "draft"
    BY DEF Draft
  <2>2. \A name : ActiveOf(name)' = ActiveOf(name)
    BY <1>2, <2>1 DEF ActiveOf, Ids, Status
  <2> QED
    BY <1>2, <1>3, <2>1, <2>2 DEF RevisionsInv, ProfilesRunnable, Ids, Status, Runnable, KnownRoles
<1> QED
  BY <1>3, <1>4, <1>5, <1>6 DEF RevisionsInv

\* activateRevision and rollbackRevision: the one promoted is the only active
\* revision of its name.
LEMMA PromotedRunnable ==
  ASSUME RevisionsInv, NEW id \in Ids, Status(id) \in {"draft", "retired"}, Runnable(revisions[id].def),
         revisions' = Promoted(id), UNCHANGED <<roles, routes, stamped>>
  PROVE  RevisionsInv' /\ \A k \in Ids : Kept(k)
<1> DEFINE name == revisions[id].def.name
<1>1. /\ revisions \in Seq(RevisionRow) /\ Ids = 1..Len(revisions) /\ Len(revisions) \in Nat
      /\ \A k \in Ids : revisions[k] \in RevisionRow
  BY DEF RevisionsInv, StampsInv, Ids
<1>2. /\ DOMAIN revisions' = Ids
      /\ \A k \in Ids : revisions'[k] \in RevisionRow /\ revisions'[k].def = revisions[k].def
      /\ \A k \in Ids : revisions'[k].status =
           IF k = id THEN "active" ELSE IF k \in ActiveOf(name) THEN "retired" ELSE Status(k)
  BY <1>1 DEF Promoted, RevisionRow, Status, Ids
<1>3. revisions' \in Seq(RevisionRow)
  <2>1. revisions' \in [1..Len(revisions) -> RevisionRow]
    BY <1>1, <1>2 DEF Promoted
  <2> QED
    BY <1>1, <2>1, SeqDef
<1>4. \A k \in Ids : Kept(k)
  BY <1>2 DEF Kept, Status, ActiveOf
<1>5. StampsInv'
  BY <1>2, <1>3 DEF RevisionsInv, StampsInv, Status, Ids, StampedJobs, ActiveOf
<1>6. ProfilesRunnable'
  <2> SUFFICES ASSUME NEW k \in Ids, revisions'[k].status = "active"
               PROVE  ActiveOf(revisions[k].def.name)' = {k} /\ Runnable(revisions[k].def)'
    BY <1>2 DEF ProfilesRunnable, Ids, Status
  <2>1. ActiveOf(revisions[k].def.name)' =
          {i \in Ids : revisions'[i].status = "active" /\ revisions[i].def.name = revisions[k].def.name}
    BY <1>2 DEF ActiveOf, Ids, Status
  <2>2. CASE k = id
    <3>1. \A i \in Ids \ {id} : revisions[i].def.name = name => revisions'[i].status # "active"
      BY <1>2 DEF ActiveOf
    <3> QED
      BY <1>2, <2>1, <2>2, <3>1 DEF Runnable, KnownRoles
  <2>3. CASE k # id
    <3>1. Status(k) = "active" /\ k \notin ActiveOf(name)
      BY <1>2, <2>3
    <3>2. ActiveOf(revisions[k].def.name) = {k} /\ Runnable(revisions[k].def) /\ revisions[k].def.name # name
      BY <3>1 DEF RevisionsInv, ProfilesRunnable, ActiveOf
    <3>3. \A i \in Ids \ {id} : revisions'[i].status = "active" => Status(i) = "active"
      BY <1>2
    <3>4. ActiveOf(revisions[k].def.name)' = {k}
      BY <2>1, <3>2, <3>3 DEF ActiveOf
    <3> QED
      BY <1>2, <3>2, <3>4 DEF Runnable, KnownRoles
  <2> QED
    BY <2>2, <2>3
<1> QED
  BY <1>4, <1>5, <1>6 DEF RevisionsInv

\* updateDraft, deactivateRevision, discardDraft and deleteRevision: one
\* revision is rewritten, and it is not active afterwards.
LEMMA RewrittenInactive ==
  ASSUME RevisionsInv, NEW id \in Ids, NEW rev \in RevisionRow, revisions' = [revisions EXCEPT ![id] = rev],
         rev.status # "active", Status(id) # "draft" => rev.status # "draft",
         Kept(id), UNCHANGED <<roles, routes, stamped>>
  PROVE  RevisionsInv' /\ \A k \in Ids : Kept(k)
<1>1. revisions \in Seq(RevisionRow) /\ Ids = 1..Len(revisions) /\ Len(revisions) \in Nat
  BY DEF RevisionsInv, StampsInv, Ids
<1>2. /\ revisions' \in Seq(RevisionRow) /\ DOMAIN revisions' = Ids
      /\ revisions'[id] = rev /\ \A k \in Ids \ {id} : revisions'[k] = revisions[k]
  BY <1>1, ExceptSeq
<1>3. \A k \in Ids : Kept(k)
  BY <1>2 DEF Kept, Status
<1>4. StampsInv'
  BY <1>2 DEF RevisionsInv, StampsInv, Status, Ids, StampedJobs
<1>5. ProfilesRunnable'
  <2> SUFFICES ASSUME NEW k \in Ids, revisions'[k].status = "active"
               PROVE  ActiveOf(revisions[k].def.name)' = {k} /\ Runnable(revisions[k].def)'
    BY <1>2 DEF ProfilesRunnable, Ids, Status
  <2>1. k # id /\ revisions'[k] = revisions[k] /\ Status(k) = "active"
    BY <1>2 DEF Status
  <2>2. ActiveOf(revisions[k].def.name) = {k} /\ Runnable(revisions[k].def)
    BY <2>1 DEF RevisionsInv, ProfilesRunnable
  <2>3. \A i \in Ids : revisions'[i].status = "active" => Status(i) = "active" /\ revisions'[i] = revisions[i]
    BY <1>2 DEF Status
  <2>4. ActiveOf(revisions[k].def.name)' = {k}
    BY <1>2, <2>1, <2>2, <2>3 DEF ActiveOf, Ids, Status
  <2> QED
    BY <2>1, <2>2, <2>4 DEF Runnable, KnownRoles
<1> QED
  BY <1>3, <1>4, <1>5 DEF RevisionsInv

\* What a step of the service does to the invariant, to revisions and to stamps.
LEMMA RevisionsStep ==
  ASSUME RevisionsInv, RevisionsNext
  PROVE  /\ RevisionsInv'
         /\ \A k \in Ids : Kept(k)
         /\ \A j \in StampedJobs : j \in DOMAIN stamped' /\ stamped'[j].rev = stamped[j].rev
<1> DEFINE JobRecord == [state : Ended \union {"active"}, rev : Nat]
           Goal == /\ RevisionsInv' /\ \A k \in Ids : Kept(k)
                   /\ \A j \in StampedJobs : j \in DOMAIN stamped' /\ stamped'[j].rev = stamped[j].rev
           Same == \A j \in StampedJobs : j \in DOMAIN stamped' /\ stamped'[j].rev = stamped[j].rev
<1>1. /\ revisions \in Seq(RevisionRow) /\ \A k \in Ids : revisions[k] \in RevisionRow
      /\ Ids = 1..Len(revisions) /\ Len(revisions) \in Nat
      /\ stamped \in Seq(JobRecord) /\ StampedJobs = 1..Len(stamped) /\ Len(stamped) \in Nat
  BY DEF RevisionsInv, StampsInv, Ids, StampedJobs
<1>a. UNCHANGED stamped => Same
  BY DEF StampedJobs
<1>b. UNCHANGED revisions => \A k \in Ids : Kept(k)
  BY DEF Kept, Ids, Status
<1>2. ASSUME NEW def \in Definitions, CreateDraft(def) PROVE Goal
  BY <1>2, <1>a, DraftAdded
<1>3. ASSUME NEW id \in Ids, ForkRevision(id) PROVE Goal
  <2>1. CASE CreateDraft(revisions[id].def)
    BY <1>1, <1>2, <2>1 DEF RevisionRow
  <2>2. ASSUME NEW name \in ProfileNames, CreateDraft([revisions[id].def EXCEPT !.name = name]) PROVE Goal
    <3>1. [revisions[id].def EXCEPT !.name = name] \in Definitions
      BY <1>1 DEF RevisionRow, Definitions
    <3> QED
      BY <1>2, <2>2, <3>1
  <2> QED
    BY <1>3, <2>1, <2>2 DEF ForkRevision
<1>4. ASSUME NEW id \in Ids, ActivateRevision(id) \/ RollbackRevision(id) PROVE Goal
  BY <1>4, <1>a, PromotedRunnable DEF ActivateRevision, RollbackRevision
<1>5. ASSUME NEW id \in Ids, DeactivateRevision(id) PROVE Goal
  <2> DEFINE rev == [revisions[id] EXCEPT !.status = "retired"]
  <2>1. rev \in RevisionRow /\ rev.status = "retired" /\ rev.def = revisions[id].def
    BY <1>1 DEF RevisionRow
  <2>2. revisions' = [revisions EXCEPT ![id] = rev] /\ UNCHANGED <<roles, routes, stamped>> /\ Status(id) = "active"
    BY <1>5 DEF DeactivateRevision
  <2>3. Kept(id)
    BY <1>1, <2>1, <2>2 DEF Kept, Ids, Status
  <2> HIDE DEF rev
  <2> QED
    BY <1>a, <2>1, <2>2, <2>3, RewrittenInactive
<1>6. ASSUME NEW id \in Ids, RemoveRevision(id) PROVE Goal
  <2> DEFINE rev == [revisions[id] EXCEPT !.status = "gone"]
  <2>1. rev \in RevisionRow /\ rev.status = "gone" /\ rev.def = revisions[id].def
    BY <1>1 DEF RevisionRow
  <2>2. /\ revisions' = [revisions EXCEPT ![id] = rev] /\ UNCHANGED <<roles, routes, stamped>>
        /\ Status(id) = "draft" \/ UnfinishedOn(id) = {}
    BY <1>6 DEF RemoveRevision
  <2>3. Kept(id)
    BY <1>1, <2>1, <2>2 DEF Kept, Ids, Status
  <2> HIDE DEF rev
  <2> QED
    BY <1>a, <2>1, <2>2, <2>3, RewrittenInactive
<1>7. ASSUME NEW id \in Ids, NEW def \in Definitions, NEW seen \in 0..MaxEdits, UpdateDraft(id, def, seen) PROVE Goal
  <2> DEFINE rev == [revisions[id] EXCEPT !.def = def, !.seq = @ + 1]
  <2>1. revisions[id] \in RevisionRow /\ revisions[id].seq + 1 \in Nat
    BY <1>1 DEF RevisionRow
  <2>2. rev \in RevisionRow /\ rev.status = Status(id)
    <3> DEFINE n == revisions[id].seq + 1
    <3>1. rev = [revisions[id] EXCEPT !.def = def, !.seq = n]
      OBVIOUS
    <3> HIDE DEF n, rev
    <3> QED
      BY <2>1, <3>1 DEF RevisionRow, Status, n
  <2>3. revisions' = [revisions EXCEPT ![id] = rev] /\ UNCHANGED <<roles, routes, stamped>> /\ Status(id) = "draft"
    BY <1>7 DEF UpdateDraft
  <2>4. Kept(id)
    BY <1>1, <2>2, <2>3 DEF Kept, Ids, Status
  <2> HIDE DEF rev
  <2> QED
    BY <1>a, <2>2, <2>3, <2>4, RewrittenInactive
<1>8. ASSUME NEW r \in CustomRoles, UpsertCustomRole(r) \/ DeleteCustomRole(r) PROVE Goal
  <2>1. UNCHANGED <<revisions, routes, stamped>> /\ roles' \subseteq CustomRoles
    BY <1>8 DEF UpsertCustomRole, DeleteCustomRole, RevisionsInv, StampsInv
  <2>2. \A id \in Ids : Status(id) = "active" => revisions[id].def.roles \intersect roles \subseteq roles'
    BY <1>8 DEF UpsertCustomRole, DeleteCustomRole
  <2>3. StampsInv'
    BY <2>1 DEF RevisionsInv, StampsInv, Status, Ids, StampedJobs
  <2>4. ProfilesRunnable'
    BY <2>1, <2>2 DEF RevisionsInv, ProfilesRunnable, ActiveOf, Runnable, KnownRoles, Ids, Status
  <2> QED
    BY <1>a, <1>b, <2>1, <2>3, <2>4 DEF RevisionsInv
<1>9. ASSUME NEW i \in Patterns, DeleteProfileRoute(i) \/ \E name \in ProfileNames : AddProfileRoute(i, name) PROVE Goal
  <2>1. /\ UNCHANGED <<revisions, roles, stamped>>
        /\ DOMAIN routes' \subseteq Patterns /\ \A k \in DOMAIN routes' : routes'[k] \in ProfileNames
    BY <1>9 DEF DeleteProfileRoute, AddProfileRoute, RevisionsInv, StampsInv
  <2>2. StampsInv' /\ ProfilesRunnable'
    BY <2>1 DEF RevisionsInv, StampsInv, Status, Ids, StampedJobs, ProfilesRunnable, ActiveOf, Runnable, KnownRoles
  <2> QED
    BY <1>a, <1>b, <2>1, <2>2 DEF RevisionsInv
<1>10. ASSUME UNCHANGED <<revisions, roles, routes>>, stamped' \in Seq(JobRecord),
             \A j \in StampedJobs : j \in DOMAIN stamped' /\ stamped'[j].rev = stamped[j].rev,
             \A j \in DOMAIN stamped' \ StampedJobs : stamped'[j].rev = ResolveProfile
      PROVE  Goal
  <2>1. ResolveProfile = 0 \/ (ResolveProfile \in Ids /\ Status(ResolveProfile) # "draft")
    BY ResolveActive DEF RevisionsInv
  <2>2. StampsInv'
    BY <1>10, <2>1 DEF RevisionsInv, StampsInv, Status, Ids, StampedJobs
  <2>3. ProfilesRunnable'
    BY <1>10 DEF RevisionsInv, ProfilesRunnable, ActiveOf, Runnable, KnownRoles, Ids, Status
  <2> QED
    BY <1>10, <1>b, <2>2, <2>3 DEF RevisionsInv
<1>11. CASE StampJob
  <2> DEFINE job == [state |-> "active", rev |-> ResolveProfile]
  <2>1. job \in JobRecord
    BY ResolveActive, <1>1 DEF RevisionsInv
  <2>2. stamped' = Append(stamped, job) /\ UNCHANGED <<revisions, roles, routes>>
    BY <1>11 DEF StampJob
  <2>3. job.rev = ResolveProfile
    OBVIOUS
  <2> HIDE DEF job
  <2>4. /\ stamped' \in Seq(JobRecord) /\ Len(stamped') = Len(stamped) + 1
        /\ \A j \in 1..Len(stamped) : stamped'[j] = stamped[j]
        /\ stamped'[Len(stamped) + 1] = job
    BY <1>1, <2>1, <2>2, AppendProperties
  <2>5. DOMAIN stamped' = 1..(Len(stamped) + 1)
    BY <1>1, <2>4
  <2> QED
    BY <1>1, <1>10, <2>2, <2>3, <2>4, <2>5
<1>12. ASSUME NEW j \in StampedJobs, StampedJobEnds(j) \/ StampedJobRetried(j) PROVE Goal
  <2>1. PICK s \in Ended \union {"active"} : stamped' = [stamped EXCEPT ![j] = [@ EXCEPT !.state = s]]
    BY <1>12 DEF StampedJobEnds, StampedJobRetried
  <2>2. UNCHANGED <<revisions, roles, routes>>
    BY <1>12 DEF StampedJobEnds, StampedJobRetried
  <2>3. stamped[j] \in JobRecord
    BY <1>1, ElementOfSeq
  <2>4. [stamped[j] EXCEPT !.state = s] \in JobRecord /\ [stamped[j] EXCEPT !.state = s].rev = stamped[j].rev
    BY <2>3
  <2>5. stamped' \in Seq(JobRecord) /\ DOMAIN stamped' = StampedJobs
    BY <1>1, <2>1, <2>4, ExceptSeq
  <2>6. \A k \in StampedJobs : stamped'[k].rev = stamped[k].rev
    BY <1>1, <2>1, <2>4 DEF StampedJobs
  <2> QED
    BY <1>10, <2>2, <2>5, <2>6
<1> QED
  BY <1>2, <1>3, <1>4, <1>5, <1>6, <1>7, <1>8, <1>9, <1>11, <1>12 DEF RevisionsNext

\* The tables keep their types, and a stamp names a revision that has been in
\* force (config-revisions.ts, store.enqueue).
THEOREM RevisionsWellTyped == RevisionsSpec => [](RevisionsTypeOK /\ RevisionsInv)
<1>1. RevisionsInv => RevisionsTypeOK
  <2> SUFFICES ASSUME RevisionsInv PROVE RevisionsTypeOK
    OBVIOUS
  <2>1. \A id \in Ids : revisions[id] \in RevisionRow
    BY DEF RevisionsInv, StampsInv, Ids
  <2>2. \A j \in StampedJobs : stamped[j] \in [state : Ended \union {"active"}, rev : Nat]
    <3> DEFINE JobRecord == [state : Ended \union {"active"}, rev : Nat]
    <3>1. stamped \in Seq(JobRecord) /\ StampedJobs = 1..Len(stamped)
      BY DEF RevisionsInv, StampsInv, StampedJobs
    <3> HIDE DEF JobRecord
    <3>2. \A j \in StampedJobs : stamped[j] \in JobRecord
      BY <3>1, ElementOfSeq
    <3> QED
      BY <3>2 DEF JobRecord
  <2>3. Ids = 1..Len(revisions) /\ Len(revisions) \in Nat
    BY DEF RevisionsInv, StampsInv, Ids
  <2> QED
    BY <2>1, <2>2, <2>3 DEF RevisionsTypeOK, RevisionsInv, StampsInv, RevisionRow, Status
<1>2. RevisionsInv /\ [RevisionsNext]_revisionVars => RevisionsInv'
  <2>1. ASSUME RevisionsInv, UNCHANGED revisionVars PROVE RevisionsInv'
    BY <2>1 DEF revisionVars, RevisionsInv, StampsInv, ProfilesRunnable, Status, Ids, StampedJobs, ActiveOf,
                Runnable, KnownRoles
  <2> QED
    BY <2>1, RevisionsStep
<1> QED
  BY <1>1, <1>2, RevisionsStart, PTL DEF RevisionsSpec

\* One active revision of a name, and its specialists exist, whatever operators
\* activate, roll back, edit or delete (activateRevision, deleteCustomRole).
THEOREM AlwaysRunnable == RevisionsSpec => []ProfilesRunnable
<1>1. RevisionsInv => ProfilesRunnable
  BY DEF RevisionsInv
<1> QED
  BY <1>1, RevisionsWellTyped, PTL

\* No edit, activation, rollback or deletion changes what an unfinished job runs
\* (profileDefinitionForJob).
THEOREM StampsHold == RevisionsSpec => JobsKeepTheirProfile
<1> DEFINE Keeps == \A j \in StampedJobs : stamped[j].state = "active" /\ stamped'[j].state = "active" =>
                      EffectiveRoles(j)' = EffectiveRoles(j)
<1>1. ASSUME RevisionsInv, RevisionsNext PROVE Keeps
  <2> SUFFICES ASSUME NEW j \in StampedJobs, stamped[j].state = "active"
               PROVE  EffectiveRoles(j)' = EffectiveRoles(j)
    OBVIOUS
  <2> DEFINE r == stamped[j].rev
  <2>1. stamped'[j].rev = r
    BY <1>1, RevisionsStep
  <2>2. CASE r = 0
    BY <2>1, <2>2 DEF EffectiveRoles
  <2>3. CASE r # 0
    <3>1. r \in Ids /\ Status(r) # "draft"
      BY <1>1, <2>3 DEF RevisionsInv, StampsInv
    <3>2. UnfinishedOn(r) # {}
      BY DEF UnfinishedOn, Ended
    <3>3. revisions'[r].def = revisions[r].def /\ (revisions'[r].status = "gone" <=> Status(r) = "gone")
      BY <1>1, <3>1, <3>2, RevisionsStep DEF Kept
    <3> QED
      BY <2>1, <3>3 DEF EffectiveRoles, Status
  <2> QED
    BY <2>2, <2>3
<1>2. ASSUME RevisionsInv, UNCHANGED revisionVars PROVE Keeps
  BY <1>2 DEF revisionVars, EffectiveRoles, Status
<1>3. RevisionsInv /\ [RevisionsNext]_revisionVars => [Keeps]_revisionVars
  BY <1>1, <1>2
<1> QED
  BY <1>3, RevisionsWellTyped, PTL DEF RevisionsSpec, JobsKeepTheirProfile


\* Both at once, for every set of profiles, roles, routes and jobs.
THEOREM ProfilesAlwaysHold == RevisionsSpec => ProfilesHold
  BY AlwaysRunnable, StampsHold DEF ProfilesHold

-----------------------------------------------------------------------------
(* Prompt revisions *)

PromptRow   == [role : PromptRoles, status : {"draft", "active", "retired"}, body : Bodies, seq : Nat]
Form        == [id : Nat, seq : Nat, body : Nat]
ReviewerRow == [state : {"queued", "running", "done", "failed"}, stamp : Nat, used : Nat, body : Nat, runs : Nat]
Evaluation  == [status : {"running", "ended"}, prompt : Nat, body : Nat, draft : BOOLEAN]

OneActive == \A k, l \in PromptIds :
  prompts[k].status = "active" /\ prompts[l].status = "active" /\ prompts[k].role = prompts[l].role => k = l

\* What a form shows is what the draft says, unless its edit_seq went on.
FormRead(o) == forms[o].id # 0 =>
  /\ forms[o].id \in PromptIds /\ forms[o].seq <= prompts[forms[o].id].seq
  /\ forms[o].seq = prompts[forms[o].id].seq => forms[o].body = prompts[forms[o].id].body

\* The prompt a row ran with is the one it is stamped with, and has left draft.
RowTraced(i) ==
  /\ reviewers[i].stamp \in 0..Len(prompts)
  /\ reviewers[i].used # 0 =>
       /\ reviewers[i].used \in PromptIds /\ reviewers[i].stamp = reviewers[i].used
       /\ prompts[reviewers[i].used].status # "draft" /\ prompts[reviewers[i].used].body = reviewers[i].body

EvaluationTraced(e) ==
  /\ evals[e].prompt \in PromptIds
  /\ ~evals[e].draft => prompts[evals[e].prompt].status # "draft" /\ prompts[evals[e].prompt].body = evals[e].body

PromptTypes ==
  /\ prompts \in Seq(PromptRow) /\ forms \in [Editors -> Form]
  /\ reviewers \in [ReviewerRows -> ReviewerRow] /\ evals \in Seq(Evaluation)

PromptsInv ==
  /\ PromptTypes /\ OneActive /\ clobbered = FALSE
  /\ \A o \in Editors : FormRead(o)
  /\ \A i \in ReviewerRows : RowTraced(i)
  /\ \A e \in DOMAIN evals : EvaluationTraced(e)

\* What a step may make of revision id.
PromptKept(id) ==
  /\ id \in DOMAIN prompts'
  /\ prompts'[id].seq >= prompts[id].seq
  /\ prompts'[id].seq = prompts[id].seq => prompts'[id].body = prompts[id].body
  /\ prompts[id].status # "draft" => prompts'[id].status # "draft" /\ prompts'[id].body = prompts[id].body

\* The initial tables have no revision, and forms and rows name none.
LEMMA PromptsStart == PromptsInit => PromptsInv
<1> SUFFICES ASSUME PromptsInit PROVE PromptsInv
  OBVIOUS
<1>1. prompts \in Seq(PromptRow) /\ DOMAIN prompts = {} /\ evals \in Seq(Evaluation) /\ DOMAIN evals = {}
  BY EmptySeq DEF PromptsInit
<1>2. /\ forms \in [Editors -> Form] /\ \A o \in Editors : forms[o].id = 0
      /\ reviewers \in [ReviewerRows -> ReviewerRow]
      /\ \A i \in ReviewerRows : reviewers[i].stamp = 0 /\ reviewers[i].used = 0
  BY DEF PromptsInit, NoForm, Form, ReviewerRow
<1>3. clobbered = FALSE /\ Len(prompts) = 0
  BY DEF PromptsInit
<1> QED
  BY <1>1, <1>2, <1>3 DEF PromptsInv, PromptTypes, OneActive, FormRead, RowTraced, EvaluationTraced, PromptIds

\* What hangs on the revisions survives a step that keeps each of them.
LEMMA KeptTraces ==
  ASSUME PromptsInv, prompts' \in Seq(PromptRow), Len(prompts') >= Len(prompts), \A id \in PromptIds : PromptKept(id)
  PROVE  /\ \A o \in Editors : forms'[o] = forms[o] => FormRead(o)'
         /\ \A i \in ReviewerRows :
              /\ reviewers'[i].stamp = reviewers[i].stamp /\ reviewers'[i].used = reviewers[i].used
              /\ reviewers'[i].body = reviewers[i].body
              => RowTraced(i)'
         /\ \A e \in DOMAIN evals :
              /\ evals'[e].prompt = evals[e].prompt /\ evals'[e].body = evals[e].body
              /\ evals'[e].draft = evals[e].draft
              => EvaluationTraced(e)'
<1>1. /\ prompts \in Seq(PromptRow) /\ PromptIds = 1..Len(prompts) /\ Len(prompts) \in Nat
      /\ Len(prompts') \in Nat /\ DOMAIN prompts' = 1..Len(prompts')
  BY DEF PromptsInv, PromptTypes, PromptIds
<1>2. \A id \in PromptIds : prompts[id].seq \in Nat /\ prompts'[id].seq \in Nat
  <2>1. \A id \in PromptIds : prompts[id] \in PromptRow
    BY <1>1, ElementOfSeq
  <2>2. \A id \in PromptIds : prompts'[id] \in PromptRow
    BY <1>1, ElementOfSeq
  <2> QED
    BY <2>1, <2>2 DEF PromptRow
<1>3. ASSUME NEW o \in Editors, forms'[o] = forms[o] PROVE FormRead(o)'
  <2>1. FormRead(o) /\ forms[o].seq \in Nat
    BY DEF PromptsInv, PromptTypes, Form
  <2> DEFINE id == forms[o].id
  <2>2. CASE id = 0
    BY <1>3, <2>2 DEF FormRead
  <2>3. CASE id # 0
    <3>1. id \in PromptIds /\ forms[o].seq <= prompts[id].seq
          /\ (forms[o].seq = prompts[id].seq => forms[o].body = prompts[id].body)
      BY <2>1, <2>3 DEF FormRead
    <3>2. /\ id \in DOMAIN prompts' /\ prompts'[id].seq >= prompts[id].seq
          /\ prompts'[id].seq = prompts[id].seq => prompts'[id].body = prompts[id].body
      BY <3>1 DEF PromptKept
    <3>3. forms[o].seq <= prompts'[id].seq /\ (forms[o].seq = prompts'[id].seq => forms[o].seq = prompts[id].seq)
      BY <1>2, <2>1, <3>1, <3>2
    <3> QED
      BY <1>3, <3>1, <3>2, <3>3 DEF FormRead, PromptIds
  <2> QED
    BY <2>2, <2>3
<1>4. ASSUME NEW i \in ReviewerRows, reviewers'[i].stamp = reviewers[i].stamp,
             reviewers'[i].used = reviewers[i].used, reviewers'[i].body = reviewers[i].body
      PROVE  RowTraced(i)'
  <2>1. RowTraced(i)
    BY DEF PromptsInv
  <2>2. reviewers'[i].stamp \in 0..Len(prompts')
    BY <1>1, <1>4, <2>1 DEF RowTraced
  <2> QED
    BY <1>4, <2>1, <2>2 DEF RowTraced, PromptKept, PromptIds
<1>5. ASSUME NEW e \in DOMAIN evals, evals'[e].prompt = evals[e].prompt, evals'[e].body = evals[e].body,
             evals'[e].draft = evals[e].draft
      PROVE  EvaluationTraced(e)'
  <2>1. EvaluationTraced(e)
    BY DEF PromptsInv
  <2> QED
    BY <1>5, <2>1 DEF EvaluationTraced, PromptKept, PromptIds
<1> QED
  BY <1>3, <1>4, <1>5

\* A step that leaves the revisions alone keeps each.
LEMMA UnchangedKept ==
  ASSUME PromptsInv, UNCHANGED prompts
  PROVE  /\ prompts' \in Seq(PromptRow) /\ Len(prompts') >= Len(prompts) /\ OneActive'
         /\ \A id \in PromptIds : PromptKept(id)
<1>1. prompts \in Seq(PromptRow) /\ PromptIds = 1..Len(prompts) /\ Len(prompts) \in Nat
  BY DEF PromptsInv, PromptTypes, PromptIds
<1>2. \A id \in PromptIds : prompts[id] \in PromptRow
  BY <1>1, ElementOfSeq
<1>3. \A id \in PromptIds : prompts[id].seq \in Nat
  BY <1>2 DEF PromptRow
<1> QED
  BY <1>1, <1>3 DEF PromptsInv, OneActive, PromptKept, PromptIds

\* A step on the revisions alone.
LEMMA RevisionsOnly ==
  ASSUME PromptsInv, prompts' \in Seq(PromptRow), Len(prompts') >= Len(prompts), OneActive',
         \A id \in PromptIds : PromptKept(id), UNCHANGED <<forms, reviewers, evals, clobbered>>
  PROVE  PromptsInv'
<1>1. PromptTypes'
  BY DEF PromptsInv, PromptTypes
<1>2. DOMAIN evals' = DOMAIN evals
  OBVIOUS
<1> QED
  BY <1>1, <1>2, KeptTraces DEF PromptsInv

\* createDraft of prompt-revisions.ts.
LEMMA PromptCreated ==
  ASSUME PromptsInv, NEW role \in PromptRoles, NEW b \in Bodies, CreatePrompt(role, b)
  PROVE  PromptsInv'
<1> DEFINE row == [role |-> role, status |-> "draft", body |-> b, seq |-> 0]
<1>1. /\ prompts \in Seq(PromptRow) /\ PromptIds = 1..Len(prompts) /\ Len(prompts) \in Nat
      /\ row \in PromptRow /\ row.status = "draft"
  BY DEF PromptsInv, PromptTypes, PromptIds, PromptRow
<1>2. prompts' = Append(prompts, row) /\ UNCHANGED <<forms, reviewers, evals, clobbered>>
  BY DEF CreatePrompt
<1> HIDE DEF row
<1>3. /\ prompts' \in Seq(PromptRow) /\ Len(prompts') = Len(prompts) + 1
      /\ \A id \in 1..Len(prompts) : prompts'[id] = prompts[id]
      /\ prompts'[Len(prompts) + 1] = row
  BY <1>1, <1>2, AppendProperties
<1>4. DOMAIN prompts' = 1..(Len(prompts) + 1) /\ \A id \in DOMAIN prompts' : id \in PromptIds \/ id = Len(prompts) + 1
  BY <1>1, <1>3
<1>5. OneActive'
  <2> SUFFICES ASSUME NEW k \in DOMAIN prompts', NEW l \in DOMAIN prompts',
                      prompts'[k].status = "active", prompts'[l].status = "active", prompts'[k].role = prompts'[l].role
               PROVE  k = l
    BY DEF OneActive, PromptIds
  <2>1. k \in PromptIds /\ l \in PromptIds
    BY <1>1, <1>3, <1>4
  <2> QED
    BY <1>1, <1>3, <2>1 DEF PromptsInv, OneActive
<1>6. \A id \in PromptIds : prompts[id].seq \in Nat
  <2>1. \A id \in PromptIds : prompts[id] \in PromptRow
    BY <1>1, ElementOfSeq
  <2> QED
    BY <2>1 DEF PromptRow
<1>7. \A id \in PromptIds : PromptKept(id)
  BY <1>1, <1>3, <1>4, <1>6 DEF PromptKept
<1> QED
  BY <1>1, <1>2, <1>3, <1>5, <1>7, RevisionsOnly

\* activatePromptRevision, rollbackPromptRevision, deactivatePromptRevision.
LEMMA PromptSwitched ==
  ASSUME PromptsInv, NEW id \in PromptIds, PromotePrompt(id) \/ DeactivatePrompt(id)
  PROVE  PromptsInv'
<1>1. /\ prompts \in Seq(PromptRow) /\ PromptIds = 1..Len(prompts) /\ Len(prompts) \in Nat
      /\ UNCHANGED <<forms, reviewers, evals, clobbered>>
  BY DEF PromptsInv, PromptTypes, PromptIds, PromotePrompt, DeactivatePrompt
<1>2. \A k \in PromptIds : prompts[k] \in PromptRow
  BY <1>1, ElementOfSeq
<1>3. /\ DOMAIN prompts' = PromptIds
      /\ \A k \in PromptIds : /\ prompts'[k] \in PromptRow /\ prompts'[k].role = prompts[k].role
                              /\ prompts'[k].body = prompts[k].body /\ prompts'[k].seq = prompts[k].seq
                              /\ prompts[k].status # "draft" => prompts'[k].status # "draft"
      /\ \A k \in PromptIds \ {id} : prompts'[k].status = "active" => prompts[k].status = "active"
      /\ prompts'[id].status = "active" =>
           \A k \in PromptIds \ {id} : prompts[k].role = prompts[id].role => prompts'[k].status # "active"
  <2>1. CASE PromotePrompt(id)
    <3>1. prompts' = [k \in PromptIds |->
             IF k = id THEN [prompts[k] EXCEPT !.status = "active"]
             ELSE IF k \in ActivePrompts(prompts[id].role) THEN [prompts[k] EXCEPT !.status = "retired"]
             ELSE prompts[k]]
      BY <2>1 DEF PromotePrompt
    <3> QED
      BY <1>2, <3>1 DEF PromptRow, ActivePrompts
  <2>2. CASE DeactivatePrompt(id)
    <3>1. prompts' = [prompts EXCEPT ![id] = [prompts[id] EXCEPT !.status = "retired"]]
      BY <2>2 DEF DeactivatePrompt
    <3> QED
      BY <1>1, <1>2, <3>1 DEF PromptRow, PromptIds
  <2> QED
    BY <2>1, <2>2
<1>4. prompts' \in Seq(PromptRow) /\ Len(prompts') = Len(prompts)
  <2>1. prompts' \in [1..Len(prompts) -> PromptRow]
    <3>1. CASE PromotePrompt(id)
      BY <1>1, <1>3, <3>1 DEF PromotePrompt
    <3>2. CASE DeactivatePrompt(id)
      BY <1>1, <1>3, <3>2 DEF DeactivatePrompt
    <3> QED
      BY <3>1, <3>2
  <2>2. prompts' \in Seq(PromptRow)
    BY <1>1, <2>1, SeqDef
  <2> QED
    BY <1>1, <2>1, <2>2
<1>5. \A k \in PromptIds : prompts[k].seq \in Nat
  BY <1>2 DEF PromptRow
<1>6. \A k \in PromptIds : PromptKept(k)
  BY <1>3, <1>5 DEF PromptKept
<1>7. OneActive'
  BY <1>3 DEF PromptsInv, OneActive, PromptIds
<1> QED
  BY <1>1, <1>4, <1>6, <1>7, RevisionsOnly

\* OpensForm and updatePromptDraft: the saved text is the one the form showed,
\* and edit_seq goes past every other form of the draft.
LEMMA FormSteps ==
  ASSUME PromptsInv, NEW o \in Editors,
         (\E id \in PromptIds : OpensForm(o, id)) \/ (\E b \in Bodies : UpdatePromptDraft(o, b))
  PROVE  PromptsInv'
<1>1. /\ prompts \in Seq(PromptRow) /\ PromptIds = 1..Len(prompts) /\ Len(prompts) \in Nat
      /\ forms \in [Editors -> Form] /\ NoForm \in Form /\ Bodies \subseteq Nat
  BY PromptAssumption DEF PromptsInv, PromptTypes, PromptIds, NoForm, Form
<1>2. \A k \in PromptIds : prompts[k] \in PromptRow
  BY <1>1, ElementOfSeq
<1>3. \A k \in PromptIds : prompts[k].seq \in Nat /\ prompts[k].body \in Nat
  BY <1>1, <1>2 DEF PromptRow
<1>4. CASE \E id \in PromptIds : OpensForm(o, id)
  <2>1. PICK id \in PromptIds : OpensForm(o, id)
    BY <1>4
  <2> DEFINE f == [id |-> id, seq |-> prompts[id].seq, body |-> prompts[id].body]
  <2>2. f \in Form /\ forms' = [forms EXCEPT ![o] = f] /\ UNCHANGED <<prompts, reviewers, evals, clobbered>>
    BY <1>1, <1>3, <2>1 DEF OpensForm, Form
  <2>3. forms' \in [Editors -> Form] /\ forms'[o] = f /\ \A p \in Editors \ {o} : forms'[p] = forms[p]
    BY <1>1, <2>2
  <2>4. FormRead(o)'
    BY <1>3, <2>2, <2>3 DEF FormRead, PromptIds
  <2>5. \A p \in Editors : FormRead(p)'
    BY <2>2, <2>3, <2>4, KeptTraces, UnchangedKept
  <2> QED
    BY <2>2, <2>3, <2>5, KeptTraces, UnchangedKept DEF PromptsInv, PromptTypes
<1>5. CASE \E b \in Bodies : UpdatePromptDraft(o, b)
  <2>1. PICK b \in Bodies : UpdatePromptDraft(o, b)
    BY <1>5
  <2> DEFINE id  == forms[o].id
             n   == prompts[id].seq + 1
             row == [prompts[id] EXCEPT !.body = b, !.seq = n]
  <2>2. /\ id # 0 /\ prompts[id].status = "draft" /\ prompts[id].seq = forms[o].seq
        /\ prompts' = [prompts EXCEPT ![id] = row] /\ forms' = [forms EXCEPT ![o] = NoForm]
        /\ clobbered' = (clobbered \/ prompts[id].body # forms[o].body) /\ UNCHANGED <<reviewers, evals>>
    BY <2>1 DEF UpdatePromptDraft, Saves
  <2>3. id \in PromptIds /\ prompts[id].body = forms[o].body
    BY <2>2 DEF PromptsInv, FormRead
  <2>4. clobbered' = FALSE
    BY <2>2, <2>3 DEF PromptsInv
  <2>5. n \in Nat /\ n > prompts[id].seq /\ prompts[id] \in PromptRow
    BY <1>2, <1>3, <2>3
  <2> HIDE DEF n
  <2>6. row \in PromptRow /\ row.status = "draft" /\ row.seq = n /\ row.role = prompts[id].role
    BY <2>2, <2>5 DEF PromptRow
  <2> HIDE DEF row
  <2>7. /\ prompts' \in Seq(PromptRow) /\ Len(prompts') = Len(prompts) /\ DOMAIN prompts' = PromptIds
        /\ prompts'[id] = row /\ \A k \in PromptIds \ {id} : prompts'[k] = prompts[k]
    BY <1>1, <2>2, <2>3, <2>6, ExceptSeq
  <2>8. \A k \in PromptIds : PromptKept(k)
    <3>1. PromptKept(id)
      BY <1>3, <2>2, <2>3, <2>5, <2>6, <2>7 DEF PromptKept
    <3>2. \A k \in PromptIds \ {id} : PromptKept(k)
      BY <1>3, <2>7 DEF PromptKept
    <3> QED
      BY <3>1, <3>2
  <2>9. OneActive'
    BY <2>2, <2>6, <2>7 DEF PromptsInv, OneActive, PromptIds
  <2>10. forms' \in [Editors -> Form] /\ forms'[o].id = 0 /\ \A p \in Editors \ {o} : forms'[p] = forms[p]
    BY <1>1, <2>2 DEF NoForm
  <2>11. \A p \in Editors : FormRead(p)'
    <3>1. FormRead(o)'
      BY <2>10 DEF FormRead
    <3>2. Len(prompts') >= Len(prompts)
      BY <1>1, <2>7
    <3> QED
      BY <2>7, <2>8, <2>10, <3>1, <3>2, KeptTraces
  <2>12. Len(prompts') >= Len(prompts)
    BY <1>1, <2>7
  <2> QED
    BY <2>2, <2>4, <2>7, <2>8, <2>9, <2>10, <2>11, <2>12, KeptTraces DEF PromptsInv, PromptTypes
<1> QED
  BY <1>4, <1>5

\* runReviewer: the row is stamped with the active revision, which is no draft.
LEMMA ReviewerSteps ==
  ASSUME PromptsInv, NEW i \in ReviewerRows, ReviewerStarts(i) \/ ReviewerEnds(i) \/ ReviewerAgain(i)
  PROVE  PromptsInv'
<1> DEFINE Others == \A k \in ReviewerRows \ {i} : reviewers'[k] = reviewers[k]
<1>1. /\ prompts \in Seq(PromptRow) /\ PromptIds = 1..Len(prompts) /\ Len(prompts) \in Nat
      /\ reviewers \in [ReviewerRows -> ReviewerRow] /\ reviewers[i] \in ReviewerRow
      /\ UNCHANGED <<prompts, forms, evals, clobbered>>
  BY DEF PromptsInv, PromptTypes, PromptIds, ReviewerStarts, ReviewerEnds, ReviewerAgain
<1>2. ASSUME reviewers' \in [ReviewerRows -> ReviewerRow], Others, RowTraced(i)' PROVE PromptsInv'
  <2>1. \A k \in ReviewerRows : RowTraced(k)'
    BY <1>1, <1>2, KeptTraces, UnchangedKept
  <2> QED
    BY <1>1, <1>2, <2>1, KeptTraces, UnchangedKept DEF PromptsInv, PromptTypes
<1>3. CASE ReviewerStarts(i)
  <2> DEFINE active == ActivePrompts(RoleOf[i])
             id     == IF active = {} THEN 0 ELSE CHOOSE k \in active : TRUE
             b      == IF id = 0 THEN 0 ELSE prompts[id].body
             s      == IF id = 0 THEN reviewers[i].stamp ELSE id
             row    == [reviewers[i] EXCEPT !.state = "running", !.used = id, !.stamp = s, !.body = b]
  <2>1. reviewers' = [reviewers EXCEPT ![i] = row]
    BY <1>3 DEF ReviewerStarts
  <2>2. id = 0 \/ (id \in PromptIds /\ prompts[id].status = "active")
    <3>1. \A k \in active : k \in PromptIds /\ prompts[k].status = "active"
      BY DEF ActivePrompts
    <3> HIDE DEF active
    <3> QED
      BY <3>1
  <2> HIDE DEF id
  <2>3. id \in Nat /\ b \in Nat /\ s \in Nat
    <3>1. id # 0 => prompts[id] \in PromptRow
      BY <1>1, <2>2, ElementOfSeq
    <3>2. id # 0 => prompts[id].body \in Nat
      BY <3>1, PromptAssumption DEF PromptRow
    <3>3. id \in Nat
      BY <1>1, <2>2
    <3>4. reviewers[i].stamp \in Nat
      BY <1>1 DEF ReviewerRow
    <3> QED
      BY <3>2, <3>3, <3>4
  <2>a. (id = 0 => s = reviewers[i].stamp) /\ (id # 0 => s = id /\ b = prompts[id].body)
    OBVIOUS
  <2> HIDE DEF b, s
  <2>4. row \in ReviewerRow /\ row.stamp = s /\ row.used = id /\ row.body = b
    BY <1>1, <2>3 DEF ReviewerRow
  <2> HIDE DEF row
  <2>5. reviewers' \in [ReviewerRows -> ReviewerRow] /\ Others /\ reviewers'[i] = row
    BY <1>1, <2>1, <2>4
  <2>6. RowTraced(i)'
    <3>1. reviewers[i].stamp \in 0..Len(prompts)
      BY DEF PromptsInv, RowTraced
    <3> QED
      BY <1>1, <2>a, <2>2, <2>4, <2>5, <3>1 DEF RowTraced, PromptIds
  <2> QED
    BY <1>2, <2>5, <2>6
<1>4. CASE ReviewerEnds(i) \/ ReviewerAgain(i)
  <2>1. PICK state \in {"queued", "done", "failed"}, n \in {reviewers[i].runs, reviewers[i].runs + 1} :
          reviewers' = [reviewers EXCEPT ![i] = [reviewers[i] EXCEPT !.state = state, !.runs = n]]
    <3>1. CASE ReviewerEnds(i)
      <4>1. PICK state \in {"done", "failed"} : reviewers' = [reviewers EXCEPT ![i].state = state]
        BY <3>1 DEF ReviewerEnds
      <4>2. [reviewers[i] EXCEPT !.state = state]
              = [reviewers[i] EXCEPT !.state = state, !.runs = reviewers[i].runs]
        BY <1>1 DEF ReviewerRow
      <4> QED
        BY <4>1, <4>2
    <3>2. CASE ReviewerAgain(i)
      <4>1. reviewers' = [reviewers EXCEPT ![i] = [reviewers[i] EXCEPT !.state = "queued", !.runs = reviewers[i].runs + 1]]
        BY <3>2 DEF ReviewerAgain
      <4> QED
        BY <4>1
    <3> QED
      BY <1>4, <3>1, <3>2
  <2> DEFINE row == [reviewers[i] EXCEPT !.state = state, !.runs = n]
  <2>2. n \in Nat
    BY <1>1 DEF ReviewerRow
  <2>3. /\ row \in ReviewerRow /\ row.stamp = reviewers[i].stamp /\ row.used = reviewers[i].used
        /\ row.body = reviewers[i].body
    BY <1>1, <2>2 DEF ReviewerRow
  <2> HIDE DEF row
  <2>4. reviewers' \in [ReviewerRows -> ReviewerRow] /\ Others /\ reviewers'[i] = row
    BY <1>1, <2>1, <2>3 DEF row
  <2>5. RowTraced(i)'
    BY <1>1, <2>3, <2>4, KeptTraces, UnchangedKept
  <2> QED
    BY <1>2, <2>4, <2>5
<1> QED
  BY <1>3, <1>4

\* evaluatePrompt: the row bears the text that was evaluated.
LEMMA EvaluationSteps ==
  ASSUME PromptsInv, (\E id \in PromptIds : EvaluationStarts(id)) \/ EvaluationEnds
  PROVE  PromptsInv'
<1>1. /\ prompts \in Seq(PromptRow) /\ PromptIds = 1..Len(prompts) /\ Len(prompts) \in Nat
      /\ evals \in Seq(Evaluation) /\ DOMAIN evals = 1..Len(evals) /\ Len(evals) \in Nat
      /\ UNCHANGED <<prompts, forms, reviewers, clobbered>>
  <2>1. UNCHANGED <<prompts, forms, reviewers, clobbered>>
    BY DEF EvaluationStarts, EvaluationEnds
  <2> QED
    BY <2>1 DEF PromptsInv, PromptTypes, PromptIds
<1>2. ASSUME evals' \in Seq(Evaluation), \A e \in DOMAIN evals' : EvaluationTraced(e)' PROVE PromptsInv'
  BY <1>1, <1>2, KeptTraces, UnchangedKept DEF PromptsInv, PromptTypes
<1>3. ASSUME NEW id \in PromptIds, EvaluationStarts(id) PROVE PromptsInv'
  <2> DEFINE d == prompts[id].status = "draft"
             t == prompts[id].body
             e == [status |-> "running", prompt |-> id, body |-> t, draft |-> d]
  <2>1. evals' = Append(evals, e)
    BY <1>3 DEF EvaluationStarts
  <2>2. t \in Nat /\ d \in BOOLEAN /\ id \in Nat
    <3>1. prompts[id] \in PromptRow
      BY <1>1, ElementOfSeq
    <3>2. t \in Nat
      BY <3>1, PromptAssumption DEF PromptRow
    <3>3. id \in Nat
      BY <1>1
    <3>4. d \in BOOLEAN
      OBVIOUS
    <3> QED
      BY <3>2, <3>3, <3>4
  <2>3. d \/ (prompts[id].status # "draft" /\ t = prompts[id].body)
    OBVIOUS
  <2> HIDE DEF d, t
  <2>4. e \in Evaluation /\ e.prompt = id /\ e.body = t /\ e.draft = d
    BY <2>2, Zenon DEF Evaluation
  <2> HIDE DEF e
  <2>5. PICK n \in Nat : n = Len(evals) + 1
    BY <1>1
  <2>6. /\ evals' \in Seq(Evaluation) /\ DOMAIN evals' = 1..n /\ evals'[n] = e
        /\ \A k \in 1..Len(evals) : evals'[k] = evals[k]
    BY <1>1, <2>1, <2>4, <2>5, AppendProperties
  <2>7. EvaluationTraced(n)'
    BY <1>1, <2>3, <2>4, <2>6 DEF EvaluationTraced, PromptIds
  <2>8. \A k \in DOMAIN evals : EvaluationTraced(k)'
    BY <1>1, <2>6, KeptTraces, UnchangedKept
  <2>9. \A k \in DOMAIN evals' : k \in DOMAIN evals \/ k = n
    BY <1>1, <2>5, <2>6
  <2> QED
    BY <1>2, <2>6, <2>7, <2>8, <2>9
<1>4. CASE EvaluationEnds
  <2>1. PICK k \in DOMAIN evals : evals' = [evals EXCEPT ![k] = [evals[k] EXCEPT !.status = "ended"]]
    BY <1>4 DEF EvaluationEnds
  <2> DEFINE e == [evals[k] EXCEPT !.status = "ended"]
  <2>2. evals[k] \in Evaluation
    BY <1>1, ElementOfSeq
  <2>3. e \in Evaluation /\ e.prompt = evals[k].prompt /\ e.body = evals[k].body /\ e.draft = evals[k].draft
    BY <2>2 DEF Evaluation
  <2> HIDE DEF e
  <2>4. /\ evals' \in Seq(Evaluation) /\ DOMAIN evals' = DOMAIN evals
        /\ \A l \in DOMAIN evals : evals'[l] = IF l = k THEN e ELSE evals[l]
    BY <1>1, <2>1, <2>3, ExceptSeq DEF e
  <2>5. \A l \in DOMAIN evals : EvaluationTraced(l)'
    BY <1>1, <2>3, <2>4, KeptTraces, UnchangedKept
  <2> QED
    BY <1>2, <2>4, <2>5
<1> QED
  BY <1>3, <1>4

\* The strengthening holds always: rows, forms and evaluations bear numbers of
\* revisions that still say what they were read to say (prompt-revisions.ts).
THEOREM PromptsSound == PromptsSpec => []PromptsInv
<1>1. PromptsInv /\ PromptsNext => PromptsInv'
  BY PromptCreated, PromptSwitched, FormSteps, ReviewerSteps, EvaluationSteps DEF PromptsNext
<1>2. PromptsInv /\ UNCHANGED promptVars => PromptsInv'
  BY DEF promptVars, PromptsInv, PromptTypes, OneActive, FormRead, RowTraced, EvaluationTraced, PromptIds
<1> QED
  BY <1>1, <1>2, PromptsStart, PTL DEF PromptsSpec

\* What a run or an evaluation used can be traced, a role has one active prompt,
\* and a save replaces only what its operator had read (runReviewer,
\* updatePromptDraft).
THEOREM AlwaysTraceable == PromptsSpec => []PromptsTraceable
<1>1. ASSUME PromptsInv PROVE PromptsTraceable
  <2>1. ASSUME NEW role \in PromptRoles PROVE Cardinality(ActivePrompts(role)) <= 1
    <3>1. CASE ActivePrompts(role) = {}
      BY <3>1, FS_EmptySet
    <3>2. ASSUME NEW k \in ActivePrompts(role) PROVE Cardinality(ActivePrompts(role)) <= 1
      <4>1. ActivePrompts(role) = {k}
        BY <1>1 DEF ActivePrompts, PromptsInv, OneActive
      <4> QED
        BY <4>1, FS_Singleton
    <3> QED
      BY <3>1, <3>2
  <2>2. \A i \in ReviewerRows : reviewers[i].used # 0 =>
          reviewers[i].stamp = reviewers[i].used /\ prompts[reviewers[i].stamp].body = reviewers[i].body
    BY <1>1 DEF PromptsInv, RowTraced
  <2>3. \A e \in DOMAIN evals : ~evals[e].draft => evals[e].body = prompts[evals[e].prompt].body
    BY <1>1 DEF PromptsInv, EvaluationTraced
  <2> QED
    BY <1>1, <2>1, <2>2, <2>3 DEF PromptsTraceable, PromptsInv
<1> QED
  BY <1>1, PromptsSound, PTL

\* Every form, row and evaluation names a revision that is there.
THEOREM PromptsWellTyped == PromptsSpec => []PromptsTypeOK
<1>1. ASSUME PromptsInv PROVE PromptsTypeOK
  <2>1. PromptTypes /\ Len(prompts) \in Nat /\ PromptIds = 1..Len(prompts)
    BY <1>1 DEF PromptsInv, PromptTypes, PromptIds
  <2>2. \A id \in PromptIds : prompts[id] \in PromptRow
    BY <2>1 DEF PromptTypes
  <2>3. ASSUME NEW o \in Editors PROVE forms[o].id \in 0..Len(prompts)
    BY <1>1, <2>1 DEF PromptsInv, PromptTypes, FormRead, Form
  <2>4. ASSUME NEW i \in ReviewerRows
        PROVE  /\ reviewers[i].state \in {"queued", "running", "done", "failed"}
               /\ {reviewers[i].stamp, reviewers[i].used} \subseteq 0..Len(prompts)
    BY <1>1, <2>1 DEF PromptsInv, PromptTypes, RowTraced, ReviewerRow
  <2>5. \A e \in DOMAIN evals : evals[e].prompt \in PromptIds
    BY <1>1 DEF PromptsInv, EvaluationTraced
  <2> QED
    BY <2>2, <2>3, <2>4, <2>5 DEF PromptsTypeOK, PromptRow
<1> QED
  BY <1>1, PromptsSound, PTL

-----------------------------------------------------------------------------
(* The panel *)

Batch == Hands * MaxCost

\* The workers of one run that wait for a model, and what they may be billed.
OnCall(h)   == {k \in 1..Hands : h[k].at = "call"}
Pending(h) == Cardinality(OnCall(h)) * MaxCost

Within(h, s) ==
  /\ s \in Nat /\ s + Pending(h) <= Larger(Ceiling + Batch, 2 * MaxCost)
  /\ OnCall(h) # {} => s + Pending(h) <= Ceiling + Batch

WorkerOk(w) == /\ DOMAIN w = {"at", "seat", "attempt"} /\ w.at \in {"free", "call", "sleep", "gone"}
               /\ w.attempt \in 0..Attempts /\ (w.at = "sleep" => RetriesLeft(w))
WorkersOk(h) == DOMAIN h = 1..Hands /\ \A k \in 1..Hands : WorkerOk(h[k])

\* Nothing of run r is left to do or to be answered by its workers.
Settled(r) == todo[r] = <<>> /\ \A k \in 1..Hands : hands[r][k].at = "free"

RunInv(r) ==
  /\ WorkersOk(hands[r]) /\ Within(hands[r], spent[r])
  /\ r > runNo => spent[r] = 0 /\ lab[r].tries = 0 /\ Settled(r)
  /\ lab[r].tries > 0 => spent[r] <= Ceiling /\ Settled(r)
  /\ lab[r].spent > 0 => lab[r].tries > 0
  /\ behavior = "degrade" /\ (r # runNo \/ stage # "reviewing") => Settled(r)

Stages == {"reconciling", "routing", "reviewing", "aggregating", "aggregated", "sniffing", "publishing",
           "completed", "failed"}

CurrentInv ==
  /\ stage \in {"reconciling", "routing", "aggregating", "aggregated", "sniffing", "publishing"} => Settled(runNo)
  /\ stage \in {"reconciling", "routing", "reviewing", "aggregating", "aggregated"} => lab[runNo].tries = 0
  /\ stage = "reconciling" => spent[runNo] = 0
  /\ stage = "routing" => spent[runNo] <= MaxCost
  /\ stage = "aggregating" => spent[runNo] + lab[runNo].spent <= Ceiling
  /\ stage = "sniffing" => lab[runNo].tries > 0

Shown == /\ skipped => warned
         /\ behavior = "degrade" /\ stage \in {"aggregating", "aggregated", "sniffing", "publishing", "completed"} =>
              \E i \in DOMAIN seats : seats[i] = "done"

PanelShape ==
  /\ DOMAIN todo = PanelRuns /\ DOMAIN hands = PanelRuns /\ spent \in [PanelRuns -> Nat]
  /\ lab \in [PanelRuns -> [tries : 0..LabAttempts, spent : Nat]]
  /\ runNo \in PanelRuns /\ stage \in Stages
  /\ \A i \in DOMAIN seats : seats[i] \in {"queued", "running", "done", "failed"}

PanelInv == PanelShape /\ CurrentInv /\ Shown /\ \A r \in PanelRuns : RunInv(r)

-----------------------------------------------------------------------------
(* What the workers may still be billed *)

\* A batch is a natural number, and the price of one call fits in it.
LEMMA BatchFacts == Batch \in Nat /\ MaxCost <= Batch
<1>1. Hands \in Nat /\ Hands >= 1 /\ MaxCost \in Nat
  BY PanelAssumption
<1>2. PICK n \in Nat : Hands = n + 1
  <2>1. Hands - 1 \in Nat /\ Hands = (Hands - 1) + 1
    BY <1>1
  <2> QED
    BY <2>1
<1>3. n * MaxCost \in Nat
  BY <1>1
<1>4. Batch = n * MaxCost + MaxCost
  BY <1>1, <1>2 DEF Batch
<1> QED
  BY <1>1, <1>3, <1>4

\* At most every worker waits for a model.
LEMMA PendingBound ==
  ASSUME NEW h
  PROVE  /\ IsFiniteSet(OnCall(h)) /\ Cardinality(OnCall(h)) \in Nat
         /\ Pending(h) \in Nat /\ Pending(h) <= Batch
         /\ OnCall(h) = {} => Pending(h) = 0
<1> DEFINE n == Cardinality(OnCall(h))
<1>1. Hands \in Nat /\ Hands >= 1 /\ MaxCost \in Nat
  BY PanelAssumption
<1>2. IsFiniteSet(1..Hands) /\ Cardinality(1..Hands) = Hands
  BY <1>1, FS_Interval
<1>3. OnCall(h) \in SUBSET (1..Hands)
  BY DEF OnCall
<1>4. IsFiniteSet(OnCall(h)) /\ n <= Hands
  BY <1>2, <1>3, FS_Subset
<1>5. n \in Nat
  BY <1>4, FS_CardinalityType
<1>6. n * MaxCost \in Nat /\ n * MaxCost <= Hands * MaxCost
  <2> HIDE DEF n
  <2>1. PICK m \in Nat : Hands = n + m
    <3>1. Hands - n \in Nat /\ Hands = n + (Hands - n)
      BY <1>1, <1>4, <1>5
    <3> QED
      BY <3>1
  <2>2. Hands * MaxCost = n * MaxCost + m * MaxCost
    BY <1>1, <1>5, <2>1
  <2>3. n * MaxCost \in Nat /\ m * MaxCost \in Nat
    BY <1>1, <1>5, <2>1
  <2> QED
    BY <2>2, <2>3
<1>7. OnCall(h) = {} => n = 0
  BY FS_EmptySet
<1>8. OnCall(h) = {} => n * MaxCost = 0
  <2> HIDE DEF n
  <2> QED
    BY <1>1, <1>7
<1> QED
  BY <1>4, <1>5, <1>6, <1>8 DEF Pending, Batch

\* One worker more has a call out.
LEMMA CallBegins ==
  ASSUME NEW h, NEW g, NEW k \in 1..Hands, h[k].at # "call", g[k].at = "call",
         \A j \in 1..Hands : j # k => g[j] = h[j]
  PROVE  Pending(g) = Pending(h) + MaxCost
<1> DEFINE n == Cardinality(OnCall(h))
<1>1. OnCall(g) = OnCall(h) \union {k} /\ k \notin OnCall(h)
  BY DEF OnCall
<1>2. Cardinality(OnCall(g)) = n + 1 /\ n \in Nat
  BY <1>1, PendingBound, FS_AddElement
<1>3. (n + 1) * MaxCost = n * MaxCost + MaxCost
  <2> HIDE DEF n
  <2> QED
    BY <1>2, PanelAssumption
<1> QED
  BY <1>2, <1>3 DEF Pending

\* A step of a worker that begins no call and ends none.
LEMMA CallsKept ==
  ASSUME NEW h, NEW g, NEW k \in 1..Hands, h[k].at # "call", g[k].at # "call",
         \A j \in 1..Hands : j # k => g[j] = h[j]
  PROVE  OnCall(g) = OnCall(h) /\ Pending(g) = Pending(h)
<1>1. OnCall(g) = OnCall(h)
  BY DEF OnCall
<1> QED
  BY <1>1 DEF Pending

\* A call begins below the ceiling, and the bound holds for what it will bill.
LEMMA BeginsWithin ==
  ASSUME NEW h, NEW g, NEW s \in Nat, NEW k \in 1..Hands, h[k].at # "call", g[k].at = "call",
         \A j \in 1..Hands : j # k => g[j] = h[j], s <= Ceiling
  PROVE  Within(g, s)
<1>1. Pending(g) \in Nat /\ Pending(g) <= Batch
  BY PendingBound
<1>2. Ceiling \in Nat /\ MaxCost \in Nat /\ Batch \in Nat
  BY PanelAssumption, BatchFacts
<1> QED
  BY <1>1, <1>2 DEF Within, Larger

\* A call that ends bills no more than was reckoned with.
LEMMA EndsWithin ==
  ASSUME NEW h, NEW g, NEW s \in Nat, NEW c \in Costs, NEW k \in 1..Hands, h[k].at = "call", g[k].at # "call",
         \A j \in 1..Hands : j # k => g[j] = h[j], Within(h, s)
  PROVE  Within(g, s + c)
<1>1. Pending(h) = Pending(g) + MaxCost
  BY CallBegins
<1>2. Pending(g) \in Nat /\ MaxCost \in Nat /\ Ceiling \in Nat /\ Batch \in Nat /\ c \in Nat /\ c <= MaxCost
  BY PendingBound, PanelAssumption, BatchFacts DEF Costs
<1>3. k \in OnCall(h)
  BY DEF OnCall
<1>4. s + Pending(h) <= Ceiling + Batch
  BY <1>3 DEF Within
<1> QED
  BY <1>1, <1>2, <1>4 DEF Within, Larger

\* A run without a call out may be billed up to a batch past the ceiling, or
\* up to two calls.
LEMMA AloneWithin ==
  ASSUME NEW h, NEW s \in Nat, \A k \in 1..Hands : h[k].at = "free",
         s <= Ceiling + MaxCost \/ s <= 2 * MaxCost
  PROVE  Within(h, s)
<1>1. OnCall(h) = {}
  BY DEF OnCall
<1>2. Pending(h) = 0
  BY <1>1, PendingBound
<1>3. Ceiling \in Nat /\ MaxCost \in Nat /\ Batch \in Nat /\ MaxCost <= Batch
  BY PanelAssumption, BatchFacts
<1> QED
  BY <1>1, <1>2, <1>3 DEF Within, Larger

-----------------------------------------------------------------------------
(* The steps *)

\* At first nothing is spent and nobody works.
LEMMA PanelStarts == PanelInit => PanelInv
<1> SUFFICES ASSUME PanelInit PROVE PanelInv
  OBVIOUS
<1>1. PanelShape
  BY PanelAssumption DEF PanelInit, PanelShape, PanelRuns, Stages
<1>2. \A r \in PanelRuns : /\ todo[r] = <<>> /\ spent[r] = 0 /\ lab[r] = [tries |-> 0, spent |-> 0]
                           /\ hands[r] = Resting
  BY DEF PanelInit
<1>3. \A r \in PanelRuns : Settled(r)
  <2>1. \A k \in 1..Hands : Resting[k].at = "free"
    BY DEF Resting, Idle
  <2> QED
    BY <1>2, <2>1 DEF Settled
<1>4. CurrentInv /\ Shown
  BY <1>1, <1>2, <1>3, PanelAssumption DEF PanelInit, CurrentInv, Shown, PanelShape
<1>5. WorkersOk(Resting)
  BY PanelAssumption DEF WorkersOk, WorkerOk, Resting, Idle, RetriesLeft
<1>6. \A k \in 1..Hands : Resting[k].at = "free"
  BY DEF Resting, Idle
<1>7. Within(Resting, 0)
  BY <1>6, AloneWithin, PanelAssumption
<1>8. \A r \in PanelRuns : RunInv(r)
  BY <1>2, <1>3, <1>5, <1>7 DEF RunInv
<1> QED
  BY <1>1, <1>4, <1>8 DEF PanelInv

\* A step of worker k of a run that is not still: the other runs and the other
\* workers stay, and the job goes on, or fails with the run in fail mode.
LEMMA WorkerStep ==
  ASSUME PanelInv, NEW r \in PanelRuns, NEW k \in 1..Hands, ~Settled(r),
         DOMAIN hands' = PanelRuns, DOMAIN hands'[r] = 1..Hands, WorkerOk(hands'[r][k]),
         \A j \in 1..Hands : j # k => hands'[r][j] = hands[r][j],
         \A q \in PanelRuns : q # r => hands'[q] = hands[q] /\ todo'[q] = todo[q] /\ spent'[q] = spent[q],
         DOMAIN todo' = PanelRuns, spent' \in [PanelRuns -> Nat], Within(hands'[r], spent'[r]),
         UNCHANGED <<behavior, runNo, lab>>,
         stage' = stage \/ (stage' = "failed" /\ behavior # "degrade"),
         \A i \in DOMAIN seats' : seats'[i] \in {"queued", "running", "done", "failed"},
         skipped' => warned'
  PROVE  PanelInv'
<1>1. RunInv(r) /\ PanelShape /\ CurrentInv /\ Shown
  BY DEF PanelInv
<1>2. /\ ~(r > runNo) /\ ~(lab[r].tries > 0) /\ ~(lab[r].spent > 0)
      /\ behavior = "degrade" => r = runNo /\ stage = "reviewing"
      /\ r = runNo => stage \notin {"reconciling", "routing", "aggregating", "aggregated", "sniffing", "publishing"}
  BY <1>1 DEF RunInv, CurrentInv
<1>3. PanelShape'
  BY <1>1 DEF PanelShape, Stages
<1>4. \A q \in PanelRuns : q # r /\ Settled(q) => Settled(q)'
  BY DEF Settled
<1>5. CurrentInv'
  BY <1>1, <1>2, <1>4 DEF CurrentInv, PanelShape
<1>6. Shown'
  BY <1>2 DEF Shown
<1>7. WorkersOk(hands'[r])
  BY <1>1 DEF RunInv, WorkersOk
<1>8. RunInv(r)'
  BY <1>2, <1>7 DEF RunInv
<1>9. ASSUME NEW q \in PanelRuns, q # r PROVE RunInv(q)'
  <2>1. RunInv(q) /\ hands'[q] = hands[q] /\ spent'[q] = spent[q] /\ lab' = lab /\ runNo' = runNo
    BY <1>9 DEF PanelInv
  <2>2. behavior' = "degrade" /\ (q # runNo' \/ stage' # "reviewing") => Settled(q)
    BY <1>2, <1>9, <2>1 DEF RunInv
  <2> QED
    BY <1>4, <1>9, <2>1, <2>2 DEF RunInv
<1> QED
  BY <1>3, <1>5, <1>6, <1>8, <1>9 DEF PanelInv

\* A step of the latest run while its workers rest.
LEMMA RunnerStep ==
  ASSUME PanelInv, Settled(runNo), UNCHANGED <<behavior, hands, runNo>>,
         DOMAIN todo' = PanelRuns, stage' # "reviewing" => todo' = todo,
         \A q \in PanelRuns : q # runNo => todo'[q] = todo[q] /\ spent'[q] = spent[q] /\ lab'[q] = lab[q],
         spent' \in [PanelRuns -> Nat], lab' \in [PanelRuns -> [tries : 0..LabAttempts, spent : Nat]],
         spent'[runNo] <= Ceiling + MaxCost \/ spent'[runNo] <= 2 * MaxCost \/ spent'[runNo] = spent[runNo],
         lab'[runNo].tries > 0 => spent'[runNo] <= Ceiling /\ stage' # "reviewing",
         lab'[runNo].spent > 0 => lab'[runNo].tries > 0,
         stage' \in Stages, \A i \in DOMAIN seats' : seats'[i] \in {"queued", "running", "done", "failed"},
         stage' \in {"routing", "reviewing", "aggregating", "aggregated"} => lab'[runNo].tries = 0,
         stage' # "reconciling", stage' = "routing" => spent'[runNo] <= MaxCost,
         stage' = "aggregating" => spent'[runNo] + lab'[runNo].spent <= Ceiling,
         stage' = "sniffing" => lab'[runNo].tries > 0,
         Shown'
  PROVE  PanelInv'
<1>1. PanelShape /\ RunInv(runNo)
  BY DEF PanelInv, PanelShape
<1>2. PanelShape'
  BY <1>1 DEF PanelShape
<1>3. \A q \in PanelRuns : (q # runNo \/ stage' # "reviewing") /\ Settled(q) => Settled(q)'
  BY DEF Settled
<1>4. CurrentInv'
  BY <1>1, <1>3 DEF CurrentInv, PanelShape
<1>5. Within(hands[runNo], spent'[runNo])
  <2>1. spent'[runNo] \in Nat
    BY <1>1 DEF PanelShape
  <2>2. \A k \in 1..Hands : hands[runNo][k].at = "free"
    BY DEF Settled
  <2>3. CASE spent'[runNo] = spent[runNo]
    BY <1>1, <2>3 DEF RunInv
  <2> QED
    BY <2>1, <2>2, <2>3, AloneWithin
<1>6. ASSUME NEW q \in PanelRuns PROVE RunInv(q)'
  <2>1. CASE q = runNo
    <3>1. WorkersOk(hands'[q]) /\ Within(hands'[q], spent'[q]) /\ q = runNo' /\ ~(q > runNo')
      BY <1>1, <1>5, <2>1 DEF RunInv, PanelShape, PanelRuns
    <3>2. stage' # "reviewing" => Settled(q)'
      BY <1>3, <2>1
    <3> QED
      BY <2>1, <3>1, <3>2 DEF RunInv
  <2>2. CASE q # runNo
    <3>1. RunInv(q) /\ hands'[q] = hands[q] /\ spent'[q] = spent[q] /\ lab'[q] = lab[q] /\ q # runNo'
      BY <2>2 DEF PanelInv
    <3>2. Settled(q) => Settled(q)'
      BY <1>3, <2>2
    <3> QED
      BY <2>2, <3>1, <3>2 DEF RunInv
  <2> QED
    BY <2>1, <2>2
<1> QED
  BY <1>2, <1>4, <1>6 DEF PanelInv

\* A worker's record at its next place.
LEMMA HandMoves ==
  ASSUME PanelInv, NEW r \in PanelRuns, NEW k \in 1..Hands, NEW w, Hand(r, k, w), WorkerOk(w)
  PROVE  /\ DOMAIN hands' = PanelRuns /\ DOMAIN hands'[r] = 1..Hands
         /\ hands'[r][k] = w
         /\ \A j \in 1..Hands : j # k => hands'[r][j] = hands[r][j]
         /\ \A q \in PanelRuns : q # r => hands'[q] = hands[q]
<1>1. DOMAIN hands = PanelRuns /\ DOMAIN hands[r] = 1..Hands
  BY DEF PanelInv, PanelShape, RunInv, WorkersOk
<1> QED
  BY <1>1 DEF Hand

\* The workers' records, as the actions write them.
LEMMA WorkerRecords ==
  /\ WorkerOk(Idle) /\ WorkerOk([Idle EXCEPT !.at = "gone"])
  /\ [Idle EXCEPT !.at = "gone"].at = "gone" /\ Idle.at = "free"
  /\ \A i : WorkerOk([at |-> "call", seat |-> i, attempt |-> 1])
  /\ \A h : WorkerOk(h) => /\ RetriesLeft(h) => WorkerOk([h EXCEPT !.at = "sleep"])
                           /\ [h EXCEPT !.at = "sleep"].at = "sleep"
                           /\ RetriesLeft(h) => WorkerOk([h EXCEPT !.at = "call", !.attempt = @ + 1])
                           /\ [h EXCEPT !.at = "call", !.attempt = @ + 1].at = "call"
BY PanelAssumption DEF WorkerOk, Idle, RetriesLeft

\* Failing the job leaves the rows typed.
LEMMA FailTyped ==
  ASSUME PanelInv, JobFails
  PROVE  stage' = "failed" /\ \A i \in DOMAIN seats' : seats'[i] \in {"queued", "running", "done", "failed"}
BY DEF PanelInv, PanelShape, JobFails

LEMMA TakesRowKeeps ==
  ASSUME PanelInv, NEW r \in PanelRuns, NEW k \in 1..Hands, TakesRow(r, k) PROVE PanelInv'
<1> DEFINE i == Head(todo[r])
           call == [at |-> "call", seat |-> i, attempt |-> 1]
<1>1. /\ PanelShape /\ RunInv(r) /\ Shown /\ hands[r][k].at = "free"
      /\ DOMAIN hands = PanelRuns /\ DOMAIN hands[r] = 1..Hands /\ WorkerOk(hands[r][k])
      /\ Within(hands[r], spent[r])
  BY DEF PanelInv, PanelShape, RunInv, WorkersOk, TakesRow
<1>2. ~Settled(r)
  BY DEF Settled, TakesRow
<1>3. /\ DOMAIN todo' = PanelRuns /\ \A q \in PanelRuns : q # r => todo'[q] = todo[q]
      /\ UNCHANGED <<behavior, runNo, spent, lab>>
  BY <1>1 DEF TakesRow, PanelShape
<1>4. spent \in [PanelRuns -> Nat] /\ spent[r] \in Nat /\ lab[r].spent \in Nat /\ Ceiling \in Nat
  BY <1>1, PanelAssumption DEF PanelShape
<1>5. CASE ~Over(r)
  <2>1. seats' = [seats EXCEPT ![i] = "running"] /\ Hand(r, k, call) /\ UNCHANGED <<stage, warned, skipped>>
    BY <1>5 DEF TakesRow
  <2>2. WorkerOk(call) /\ call.at = "call"
    BY WorkerRecords
  <2> HIDE DEF call, i
  <2>3. /\ DOMAIN hands' = PanelRuns /\ DOMAIN hands'[r] = 1..Hands /\ hands'[r][k] = call
        /\ \A j \in 1..Hands : j # k => hands'[r][j] = hands[r][j]
        /\ \A q \in PanelRuns : q # r => hands'[q] = hands[q]
    BY <2>1, <2>2, HandMoves
  <2>4. spent[r] <= Ceiling
    BY <1>4, <1>5 DEF Over
  <2>5. Within(hands'[r], spent[r])
    BY <1>1, <1>4, <2>2, <2>3, <2>4, BeginsWithin
  <2>6. \A j \in DOMAIN seats' : seats'[j] \in {"queued", "running", "done", "failed"}
    BY <1>1, <2>1 DEF PanelShape
  <2> QED
    BY <1>1, <1>2, <1>3, <1>4, <2>1, <2>2, <2>3, <2>5, <2>6, WorkerStep DEF Shown
<1>6. CASE Over(r) /\ behavior = "degrade"
  <2>1. seats' = [seats EXCEPT ![i] = "failed"] /\ Warns /\ UNCHANGED <<stage, hands>>
    BY <1>6 DEF TakesRow
  <2>2. \A j \in DOMAIN seats' : seats'[j] \in {"queued", "running", "done", "failed"}
    BY <1>1, <2>1 DEF PanelShape
  <2>3. skipped' => warned'
    BY <2>1 DEF Warns
  <2> QED
    BY <1>1, <1>2, <1>3, <1>4, <2>1, <2>2, <2>3, WorkerStep
<1>7. CASE Over(r) /\ behavior # "degrade"
  <2> DEFINE gone == [Idle EXCEPT !.at = "gone"]
  <2>1. Hand(r, k, gone) /\ UNCHANGED <<warned, skipped>>
    BY <1>7 DEF TakesRow
  <2>2. WorkerOk(gone) /\ gone.at = "gone"
    BY WorkerRecords
  <2> HIDE DEF gone
  <2>3. JobFails \/ UNCHANGED <<seats, stage>>
    BY <1>7 DEF TakesRow
  <2>4. /\ DOMAIN hands' = PanelRuns /\ DOMAIN hands'[r] = 1..Hands /\ hands'[r][k] = gone
        /\ \A j \in 1..Hands : j # k => hands'[r][j] = hands[r][j]
        /\ \A q \in PanelRuns : q # r => hands'[q] = hands[q]
    BY <2>2, <2>1, HandMoves
  <2>5. hands'[r][k].at # "call" /\ WorkerOk(hands'[r][k])
    BY <2>2, <2>4
  <2>6. OnCall(hands'[r]) = OnCall(hands[r]) /\ Pending(hands'[r]) = Pending(hands[r])
    BY <1>1, <2>4, <2>5, CallsKept
  <2>7. Within(hands'[r], spent[r])
    BY <1>1, <2>6 DEF Within
  <2>8. /\ \A j \in DOMAIN seats' : seats'[j] \in {"queued", "running", "done", "failed"}
        /\ stage' = stage \/ (stage' = "failed" /\ behavior # "degrade")
    BY <1>1, <1>7, <2>3, FailTyped DEF PanelShape
  <2> QED
    BY <1>1, <1>2, <1>3, <1>4, <2>1, <2>4, <2>5, <2>7, <2>8, WorkerStep DEF Shown
<1> QED
  BY <1>5, <1>6, <1>7

LEMMA ReviewerReturnsKeeps ==
  ASSUME PanelInv, NEW r \in PanelRuns, NEW k \in 1..Hands, ReviewerReturns(r, k) PROVE PanelInv'
<1> DEFINE h == hands[r][k]
           w == IF RetriesLeft(h) THEN [h EXCEPT !.at = "sleep"] ELSE Idle
<1>1. /\ PanelShape /\ RunInv(r) /\ Shown /\ h.at = "call"
      /\ DOMAIN hands = PanelRuns /\ DOMAIN hands[r] = 1..Hands /\ WorkerOk(h)
      /\ Within(hands[r], spent[r]) /\ spent \in [PanelRuns -> Nat] /\ MaxCost \in Nat
  BY PanelAssumption DEF PanelInv, PanelShape, RunInv, WorkersOk, ReviewerReturns
<1>2. ~Settled(r)
  BY <1>1 DEF Settled
<1>3. UNCHANGED <<behavior, stage, warned, runNo, todo, lab, skipped>>
  BY DEF ReviewerReturns
<1>4. PICK c \in Costs : spent' = [spent EXCEPT ![r] = spent[r] + c]
  BY DEF ReviewerReturns, Record
<1>5. /\ spent' \in [PanelRuns -> Nat] /\ spent'[r] = spent[r] + c
      /\ \A q \in PanelRuns : q # r => spent'[q] = spent[q]
  BY <1>1, <1>4 DEF Costs
<1>6. /\ Hand(r, k, Idle) \/ Hand(r, k, w)
      /\ \A i \in DOMAIN seats' : seats'[i] \in {"queued", "running", "done", "failed"}
  BY <1>1 DEF ReviewerReturns, PanelShape
<1>7. WorkerOk(w) /\ w.at # "call" /\ WorkerOk(Idle) /\ Idle.at # "call"
  BY <1>1, WorkerRecords
<1>8. ASSUME NEW v, WorkerOk(v), v.at # "call", Hand(r, k, v) PROVE PanelInv'
  <2>1. /\ DOMAIN hands' = PanelRuns /\ DOMAIN hands'[r] = 1..Hands /\ hands'[r][k] = v
        /\ \A j \in 1..Hands : j # k => hands'[r][j] = hands[r][j]
        /\ \A q \in PanelRuns : q # r => hands'[q] = hands[q]
    BY <1>8, HandMoves
  <2>2. Within(hands'[r], spent[r] + c)
    BY <1>1, <1>8, <2>1, EndsWithin
  <2>3. DOMAIN todo' = PanelRuns /\ skipped' => warned'
    BY <1>1, <1>3 DEF PanelShape, Shown
  <2> HIDE DEF h, w
  <2> QED
    BY <1>1, <1>2, <1>3, <1>5, <1>6, <1>8, <2>1, <2>2, <2>3, WorkerStep DEF PanelShape, Shown
<1> HIDE DEF w
<1> QED
  BY <1>6, <1>7, <1>8

LEMMA WakesKeeps ==
  ASSUME PanelInv, NEW r \in PanelRuns, NEW k \in 1..Hands, Wakes(r, k) PROVE PanelInv'
<1> DEFINE h == hands[r][k]
           w == [h EXCEPT !.at = "call", !.attempt = @ + 1]
<1>1. /\ PanelShape /\ RunInv(r) /\ Shown /\ h.at = "sleep"
      /\ DOMAIN hands = PanelRuns /\ DOMAIN hands[r] = 1..Hands /\ WorkerOk(h)
      /\ Within(hands[r], spent[r]) /\ spent \in [PanelRuns -> Nat] /\ spent[r] \in Nat
      /\ lab[r].spent \in Nat /\ Ceiling \in Nat
  BY PanelAssumption DEF PanelInv, PanelShape, RunInv, WorkersOk, Wakes
<1>2. ~Settled(r)
  BY <1>1 DEF Settled
<1>3. UNCHANGED <<behavior, stage, warned, runNo, todo, spent, lab, skipped>>
  BY DEF Wakes
<1>4. \A i \in DOMAIN seats' : seats'[i] \in {"queued", "running", "done", "failed"}
  BY <1>1 DEF Wakes, PanelShape
<1>5. ASSUME NEW v, WorkerOk(v), Hand(r, k, v), v.at = "call" => spent[r] <= Ceiling PROVE PanelInv'
  <2>1. /\ DOMAIN hands' = PanelRuns /\ DOMAIN hands'[r] = 1..Hands /\ hands'[r][k] = v
        /\ \A j \in 1..Hands : j # k => hands'[r][j] = hands[r][j]
        /\ \A q \in PanelRuns : q # r => hands'[q] = hands[q]
    BY <1>5, HandMoves
  <2>2. Within(hands'[r], spent[r])
    <3>1. CASE v.at = "call"
      BY <1>1, <1>5, <2>1, <3>1, BeginsWithin
    <3>2. CASE v.at # "call"
      <4>1. OnCall(hands'[r]) = OnCall(hands[r]) /\ Pending(hands'[r]) = Pending(hands[r])
        BY <1>1, <2>1, <3>2, CallsKept
      <4> QED
        BY <1>1, <4>1 DEF Within
    <3> QED
      BY <3>1, <3>2
  <2> HIDE DEF h, w
  <2> QED
    BY <1>1, <1>2, <1>3, <1>4, <1>5, <2>1, <2>2, WorkerStep DEF PanelShape, Shown
<1>6. CASE Over(r)
  BY <1>5, <1>6, WorkerRecords DEF Wakes
<1>7. CASE ~Over(r)
  <2>1. Hand(r, k, w) /\ spent[r] <= Ceiling
    BY <1>1, <1>7 DEF Wakes, Over
  <2>2. WorkerOk(w)
    BY <1>1, WorkerRecords DEF WorkerOk
  <2> HIDE DEF w
  <2> QED
    BY <1>5, <2>1, <2>2
<1> QED
  BY <1>6, <1>7

\* What the latest run may rely on.
LEMMA RunnerFacts ==
  ASSUME PanelInv
  PROVE  /\ PanelShape /\ CurrentInv /\ Shown /\ runNo \in PanelRuns /\ DOMAIN todo = PanelRuns
         /\ spent \in [PanelRuns -> Nat] /\ spent[runNo] \in Nat
         /\ lab \in [PanelRuns -> [tries : 0..LabAttempts, spent : Nat]]
         /\ lab[runNo].spent \in Nat /\ lab[runNo].tries \in 0..LabAttempts
         /\ Ceiling \in Nat /\ MaxCost \in Nat /\ LabAttempts \in Nat \ {0}
         /\ lab[runNo].tries > 0 => spent[runNo] <= Ceiling
         /\ lab[runNo].spent > 0 => lab[runNo].tries > 0
         /\ \A i \in DOMAIN seats : seats[i] \in {"queued", "running", "done", "failed"}
BY PanelAssumption DEF PanelInv, PanelShape, RunInv

\* A bill of the latest run.
LEMMA Billed ==
  ASSUME PanelInv, NEW c \in Costs, Record(runNo, c)
  PROVE  /\ spent' \in [PanelRuns -> Nat] /\ spent'[runNo] = spent[runNo] + c /\ c \in Nat /\ c <= MaxCost
         /\ \A q \in PanelRuns : q # runNo => spent'[q] = spent[q]
BY RunnerFacts DEF Record, Costs

LEMMA PreparesKeeps == ASSUME PanelInv, Verifies \/ Routes PROVE PanelInv'
<1>1. /\ stage \in {"reconciling", "routing"} /\ UNCHANGED <<behavior, seats, warned, runNo, hands, lab, skipped>>
      /\ stage' = IF stage = "reconciling" THEN "routing" ELSE "reviewing"
  BY DEF Verifies, Routes
<1>2. PICK c \in Costs : Record(runNo, c)
  BY DEF Verifies, Routes
<1>3. Settled(runNo) /\ lab[runNo].tries = 0 /\ (stage = "reconciling" => spent[runNo] = 0) /\ spent[runNo] <= MaxCost
  BY <1>1, RunnerFacts DEF CurrentInv
<1>4. /\ DOMAIN todo' = PanelRuns /\ (stage' # "reviewing" => todo' = todo)
      /\ \A q \in PanelRuns : q # runNo => todo'[q] = todo[q]
  BY RunnerFacts DEF Verifies, Routes
<1>5. Shown'
  BY <1>1, RunnerFacts DEF Shown
<1>6. stage' \in Stages
  BY <1>1 DEF Stages
<1>7. spent'[runNo] <= 2 * MaxCost /\ (stage' = "routing" => spent'[runNo] <= MaxCost)
  BY <1>1, <1>2, <1>3, Billed, RunnerFacts
<1> QED
  BY <1>1, <1>2, <1>3, <1>4, <1>5, <1>6, <1>7, Billed, RunnerFacts, RunnerStep

LEMMA AggregatesKeeps == ASSUME PanelInv, Aggregates PROVE PanelInv'
<1>1. Settled(runNo) /\ stage = "reviewing" /\ UNCHANGED <<behavior, runNo, hands, todo, spent, lab>>
  BY DEF Aggregates, Settled
<1>2. lab[runNo].tries = 0 /\ lab[runNo].spent = 0
  BY <1>1, RunnerFacts DEF CurrentInv
<1>3. CASE JobFails /\ UNCHANGED <<warned, skipped>>
  <2>1. Shown' /\ stage' \in Stages
    BY <1>3, RunnerFacts, FailTyped DEF Shown, Stages
  <2> QED
    BY <1>1, <1>2, <1>3, <2>1, FailTyped, RunnerFacts, RunnerStep
<1>4. CASE ~(JobFails /\ UNCHANGED <<warned, skipped>>)
  <2>1. /\ \E i \in DOMAIN seats : seats[i] = "done"
        /\ UNCHANGED seats
        /\ IF Over(runNo) THEN Warns /\ stage' = "aggregated"
           ELSE stage' = "aggregating" /\ UNCHANGED <<warned, skipped>>
    BY <1>4 DEF Aggregates
  <2>2. stage' \in {"aggregating", "aggregated"} /\ (skipped' => warned')
    BY <2>1, RunnerFacts DEF Warns, Shown
  <2>3. Shown'
    BY <2>1, <2>2 DEF Shown
  <2>4. stage' = "aggregating" => spent[runNo] + lab[runNo].spent <= Ceiling
    BY <2>1, RunnerFacts DEF Over
  <2>5. stage' \in Stages
    BY <2>2 DEF Stages
  <2> QED
    BY <1>1, <1>2, <2>1, <2>2, <2>3, <2>4, <2>5, RunnerFacts, RunnerStep
<1> QED
  BY <1>3, <1>4

LEMMA AggregatorReturnsKeeps == ASSUME PanelInv, AggregatorReturns PROVE PanelInv'
<1>1. /\ stage = "aggregating" /\ stage' = "aggregated"
      /\ UNCHANGED <<behavior, seats, runNo, hands, todo, lab, skipped>>
  BY DEF AggregatorReturns
<1>2. PICK c \in Costs : Record(runNo, c) /\ warned' = (warned \/ (spent[runNo] + c > Ceiling /\ behavior = "degrade"))
  BY DEF AggregatorReturns
<1>3. Settled(runNo) /\ lab[runNo].tries = 0 /\ spent[runNo] + lab[runNo].spent <= Ceiling
  BY <1>1, RunnerFacts DEF CurrentInv
<1>4. spent'[runNo] <= Ceiling + MaxCost
  BY <1>2, <1>3, Billed, RunnerFacts
<1>5. Shown'
  BY <1>1, <1>2, RunnerFacts DEF Shown
<1>6. stage' \in Stages
  BY <1>1 DEF Stages
<1> QED
  BY <1>1, <1>2, <1>3, <1>4, <1>5, <1>6, Billed, RunnerFacts, RunnerStep

LEMMA SniffsKeeps == ASSUME PanelInv, Sniffs PROVE PanelInv'
<1>1. stage = "aggregated" /\ UNCHANGED <<behavior, runNo, hands, todo, spent>>
  BY DEF Sniffs
<1>2. Settled(runNo) /\ lab[runNo].tries = 0 /\ lab[runNo].spent = 0
  BY <1>1, RunnerFacts DEF CurrentInv
<1>3. CASE /\ ~Over(runNo) /\ stage' = "sniffing" /\ lab' = [lab EXCEPT ![runNo].tries = 1]
           /\ UNCHANGED <<seats, warned, skipped>>
  <2>1. spent[runNo] <= Ceiling
    BY <1>2, <1>3, RunnerFacts DEF Over
  <2>2. /\ lab' \in [PanelRuns -> [tries : 0..LabAttempts, spent : Nat]]
        /\ lab'[runNo].tries = 1 /\ lab'[runNo].spent = 0
        /\ \A q \in PanelRuns : q # runNo => lab'[q] = lab[q]
    BY <1>2, <1>3, RunnerFacts
  <2>3. Shown'
    BY <1>1, <1>3, RunnerFacts DEF Shown
  <2>4. stage' \in Stages
    BY <1>3 DEF Stages
  <2> QED
    BY <1>1, <1>2, <1>3, <2>1, <2>2, <2>3, <2>4, RunnerFacts, RunnerStep
<1>4. CASE /\ lab' = lab /\ seats' = seats /\ stage' = "publishing"
           /\ UNCHANGED <<warned, skipped>> \/ Warns
  <2>1. Shown'
    BY <1>1, <1>4, RunnerFacts DEF Shown, Warns
  <2>2. stage' \in Stages
    BY <1>4 DEF Stages
  <2> QED
    BY <1>1, <1>2, <1>4, <2>1, <2>2, RunnerFacts, RunnerStep
<1>5. CASE lab' = lab /\ JobFails /\ UNCHANGED <<warned, skipped>>
  <2>1. Shown' /\ stage' \in Stages
    BY <1>5, RunnerFacts, FailTyped DEF Shown, Stages
  <2> QED
    BY <1>1, <1>2, <1>5, <2>1, FailTyped, RunnerFacts, RunnerStep
<1> QED
  BY <1>3, <1>4, <1>5 DEF Sniffs

LEMMA SniffReturnsKeeps == ASSUME PanelInv, SniffReturns PROVE PanelInv'
<1>1. stage = "sniffing" /\ UNCHANGED <<behavior, warned, runNo, hands, todo, spent, skipped>>
  BY DEF SniffReturns
<1>2. Settled(runNo)
  BY <1>1, RunnerFacts DEF CurrentInv
<1>3. lab[runNo].tries > 0
  BY <1>1, RunnerFacts DEF CurrentInv
<1>4. spent[runNo] <= Ceiling
  BY <1>3, RunnerFacts
<1>5. /\ lab' \in [PanelRuns -> [tries : 0..LabAttempts, spent : Nat]] /\ lab'[runNo].tries > 0
      /\ \A q \in PanelRuns : q # runNo => lab'[q] = lab[q]
  <2>1. ASSUME NEW n \in Nat PROVE [lab EXCEPT ![runNo].spent = @ + n] \in [PanelRuns -> [tries : 0..LabAttempts, spent : Nat]]
    BY RunnerFacts
  <2>2. PICK c \in Costs :
           \/ lab' = [lab EXCEPT ![runNo].spent = @ + c]
           \/ lab' = [lab EXCEPT ![runNo].spent = @ + 2 * c]
           \/ lab[runNo].tries < LabAttempts /\ lab' = [[lab EXCEPT ![runNo].spent = @ + 2 * c] EXCEPT ![runNo].tries = @ + 1]
    BY DEF SniffReturns
  <2>3. c \in Nat /\ 2 * c \in Nat
    BY PanelAssumption DEF Costs
  <2> QED
    BY <1>3, <2>1, <2>2, <2>3, RunnerFacts
<1>6. \/ JobFails
      \/ UNCHANGED seats /\ (stage' = "publishing" \/ stage' = "sniffing")
  BY <1>1 DEF SniffReturns
<1>7. /\ stage' \in {"failed", "publishing", "sniffing"} /\ stage' \in Stages
      /\ \A i \in DOMAIN seats' : seats'[i] \in {"queued", "running", "done", "failed"}
  BY <1>6, FailTyped, RunnerFacts DEF Stages
<1>8. Shown'
  BY <1>1, <1>6, FailTyped, RunnerFacts DEF Shown
<1> QED
  BY <1>1, <1>2, <1>4, <1>5, <1>7, <1>8, RunnerFacts, RunnerStep

LEMMA PublishesKeeps == ASSUME PanelInv, Publishes PROVE PanelInv'
<1>1. /\ stage = "publishing" /\ stage' = "completed"
      /\ UNCHANGED <<behavior, seats, warned, runNo, hands, todo, spent, lab, skipped>>
  BY DEF Publishes
<1>2. Settled(runNo) /\ Shown' /\ stage' \in Stages
  BY <1>1, RunnerFacts DEF CurrentInv, Shown, Stages
<1> QED
  BY <1>1, <1>2, RunnerFacts, RunnerStep

\* A new run of the job begins on an untouched budget.
LEMMA NextRunKeeps ==
  ASSUME PanelInv, NextRun, DOMAIN hands' = PanelRuns, DOMAIN todo' = PanelRuns,
         \A r \in PanelRuns : Settled(r) => Settled(r)',
         \A r \in PanelRuns : WorkersOk(hands'[r]) /\ Within(hands'[r], spent[r]),
         behavior = "degrade" => \A r \in PanelRuns : Settled(r)',
         \A i \in DOMAIN seats' : seats'[i] \in {"queued", "running", "done", "failed"}
  PROVE  PanelInv'
<1>1. /\ runNo' = runNo + 1 /\ stage' = "reconciling" /\ skipped' = FALSE
      /\ UNCHANGED <<behavior, warned, spent, lab>>
  BY DEF NextRun
<1>2. runNo' \in PanelRuns /\ runNo' > runNo /\ runNo \in Int /\ \A r \in PanelRuns : r > runNo' => r > runNo
  <2>1. runNo \in PanelRuns /\ runNo < MaxPanelRuns /\ runNo' = runNo + 1 /\ MaxPanelRuns \in Nat
    BY RunnerFacts, PanelAssumption DEF NextRun
  <2> QED
    BY <2>1 DEF PanelRuns
<1>3. PanelShape'
  BY <1>1, <1>2, RunnerFacts DEF PanelShape, Stages
<1>4. \A r \in PanelRuns : RunInv(r)
  BY DEF PanelInv
<1>5. ASSUME NEW q \in PanelRuns, q = runNo'
      PROVE  spent[q] = 0 /\ lab[q].tries = 0 /\ Settled(q)
  BY <1>2, <1>4, <1>5 DEF RunInv
<1>6. CurrentInv'
  <2>1. spent[runNo'] = 0 /\ lab[runNo'].tries = 0 /\ todo'[runNo'] = <<>>
        /\ \A k \in 1..Hands : hands'[runNo'][k].at = "free"
    <3>1. PICK q \in PanelRuns : q = runNo'
      BY <1>2
    <3>2. Settled(q)'
      BY <1>5, <3>1
    <3> QED
      BY <1>5, <3>1, <3>2 DEF Settled
  <2> QED
    BY <1>1, <2>1 DEF CurrentInv, Settled
<1>7. Shown'
  BY <1>1 DEF Shown
<1>8. ASSUME NEW q \in PanelRuns PROVE RunInv(q)'
  BY <1>1, <1>2, <1>4 DEF RunInv
<1> QED
  BY <1>3, <1>6, <1>7, <1>8 DEF PanelInv

LEMMA PanelRetriedKeeps == ASSUME PanelInv, PanelRetried PROVE PanelInv'
<1>1. stage \in {"failed", "completed"} /\ NextRun /\ UNCHANGED <<hands, todo>>
  BY DEF PanelRetried
<1>2. \A i \in DOMAIN seats' : seats'[i] \in {"queued", "running", "done", "failed"}
  BY RunnerFacts DEF PanelRetried
<1>3. \A r \in PanelRuns : RunInv(r) /\ (Settled(r) => Settled(r)')
  BY <1>1 DEF PanelInv, Settled
<1>4. behavior = "degrade" => \A r \in PanelRuns : Settled(r)'
  BY <1>1, <1>3 DEF RunInv
<1>5. DOMAIN hands' = PanelRuns /\ DOMAIN todo' = PanelRuns
  BY <1>1, RunnerFacts DEF PanelShape
<1>6. \A r \in PanelRuns : WorkersOk(hands'[r]) /\ Within(hands'[r], spent[r])
  BY <1>1, <1>3 DEF RunInv
<1> QED
  BY <1>1, <1>2, <1>3, <1>4, <1>5, <1>6, NextRunKeeps

LEMMA PanelDiesKeeps == ASSUME PanelInv, PanelDies PROVE PanelInv'
<1>1. NextRun /\ hands' = [r \in PanelRuns |-> Resting] /\ todo' = [r \in PanelRuns |-> <<>>]
  BY DEF PanelDies
<1>2. \A i \in DOMAIN seats' : seats'[i] \in {"queued", "running", "done", "failed"}
  BY RunnerFacts DEF PanelDies
<1>3. WorkersOk(Resting) /\ \A k \in 1..Hands : Resting[k].at = "free"
  BY PanelAssumption DEF WorkersOk, WorkerOk, Resting, Idle, RetriesLeft
<1>4. \A r \in PanelRuns : Settled(r)'
  BY <1>1, <1>3 DEF Settled
<1>5. ASSUME NEW r \in PanelRuns PROVE Within(hands'[r], spent[r])
  <2>1. RunInv(r) /\ spent[r] \in Nat
    BY RunnerFacts DEF PanelInv
  <2>2. Pending(hands[r]) \in Nat
    BY PendingBound
  <2>3. OnCall(Resting) = {}
    BY <1>3 DEF OnCall
  <2>4. Pending(Resting) = 0
    BY <2>3, PendingBound
  <2>5. spent[r] + 0 <= Larger(Ceiling + Batch, 2 * MaxCost)
    BY <2>1, <2>2, RunnerFacts, BatchFacts DEF RunInv, Within, Larger
  <2> QED
    BY <1>1, <2>1, <2>3, <2>4, <2>5 DEF Within
<1> QED
  BY <1>1, <1>2, <1>3, <1>4, <1>5, NextRunKeeps

-----------------------------------------------------------------------------
\* No step breaks the invariant.
LEMMA PanelNextKeeps == PanelInv /\ [PanelNext]_panelVars => PanelInv'
<1> SUFFICES ASSUME PanelInv, [PanelNext]_panelVars PROVE PanelInv'
  OBVIOUS
<1>1. CASE Verifies \/ Routes
  BY <1>1, PreparesKeeps
<1>2. CASE Aggregates
  BY <1>2, AggregatesKeeps
<1>3. CASE AggregatorReturns
  BY <1>3, AggregatorReturnsKeeps
<1>4. CASE Sniffs
  BY <1>4, SniffsKeeps
<1>5. CASE SniffReturns
  BY <1>5, SniffReturnsKeeps
<1>6. CASE Publishes
  BY <1>6, PublishesKeeps
<1>7. CASE \E r \in PanelRuns, k \in 1..Hands : TakesRow(r, k) \/ ReviewerReturns(r, k) \/ Wakes(r, k)
  BY <1>7, TakesRowKeeps, ReviewerReturnsKeeps, WakesKeeps
<1>8. CASE PanelRetried
  BY <1>8, PanelRetriedKeeps
<1>9. CASE PanelDies
  BY <1>9, PanelDiesKeeps
<1>10. CASE UNCHANGED panelVars
  BY <1>10 DEF panelVars, PanelInv, PanelShape, CurrentInv, Shown, RunInv, Settled
<1> QED
  BY <1>1, <1>2, <1>3, <1>4, <1>5, <1>6, <1>7, <1>8, <1>9, <1>10 DEF PanelNext

\* The paid stages keep their types, and PanelInv: a run that has a call out is
\* within a batch of its ceiling.
THEOREM PanelSound == PanelSpec => [](PanelTypeOK /\ PanelInv)
<1>1. PanelInv => PanelTypeOK
  <2> SUFFICES ASSUME PanelInv PROVE PanelTypeOK
    OBVIOUS
  <2>1. \A r \in PanelRuns : /\ spent[r] \in Nat /\ lab[r].spent \in Nat /\ lab[r].tries \in 0..LabAttempts
                             /\ \A k \in 1..Hands : WorkerOk(hands[r][k])
    BY DEF PanelInv, PanelShape, RunInv, WorkersOk
  <2> QED
    BY <2>1, RunnerFacts DEF PanelTypeOK, PanelShape, Stages, WorkerOk
<1> QED
  BY <1>1, PanelStarts, PanelNextKeeps, PTL DEF PanelSpec

\* For every ceiling and price, a batch past the ceiling is all that a run of a
\* job spends, and a job that degrades says what it left out (runProfileReviewers,
\* runBudgetedAggregation and runInternalEscalation of pipeline.ts).
THEOREM CeilingAlways == PanelSpec => []CeilingHolds
<1>1. PanelInv => CeilingHolds
  <2> SUFFICES ASSUME PanelInv PROVE CeilingHolds
    OBVIOUS
  <2>1. ASSUME NEW r \in PanelRuns
        PROVE  spent[r] <= Larger(Ceiling + Hands * MaxCost, 2 * MaxCost) /\ (lab[r].spent > 0 => spent[r] <= Ceiling)
    <3>1. RunInv(r) /\ spent[r] \in Nat /\ Pending(hands[r]) \in Nat /\ lab[r].spent \in Nat
      BY PendingBound DEF PanelInv, PanelShape
    <3>2. spent[r] <= Larger(Ceiling + Batch, 2 * MaxCost)
      BY <3>1, RunnerFacts, BatchFacts DEF RunInv, Within, Larger
    <3> QED
      BY <3>1, <3>2 DEF RunInv, Batch
  <2> QED
    BY <2>1, RunnerFacts DEF CeilingHolds, Shown
<1> QED
  BY <1>1, PanelStarts, PanelNextKeeps, PTL DEF PanelSpec

-----------------------------------------------------------------------------
(* The chat *)

Send         == [at : {"absent", "queued", "prepare", "run", "over"}, conv : Nat, behind : Nat]
Message      == {"user", "assistant"} \X SendIds
Conversation == [state : {"active", "error", "reset"}, session : BOOLEAN, workspace : BOOLEAN,
                 messages : Seq(Message), cost : Nat]

Asked(s) == At(s) # "absent"
Alone(s) == \A t \in SendIds : t < s => Left(t)

\* The chain of locks of a job.
ChainInv ==
  /\ asks \in [SendIds -> Send] /\ lockTail \in 0..Sends
  /\ \A s \in SendIds : Asked(s) => \A t \in SendIds : t < s => Asked(t)
  /\ \A s \in SendIds : At(s) \in {"prepare", "run", "over"} => Alone(s)
  /\ \A s \in SendIds : At(s) = "queued" => asks[s].behind = s - 1 \/ Alone(s)
  /\ lockTail # 0 => Asked(lockTail) /\ \A t \in SendIds : t > lockTail => ~Asked(t)
  /\ lockTail = 0 => \A s \in SendIds : Asked(s) => Left(s)

\* Every answer is right below its question.
Replied(m) ==
  \A i \in DOMAIN m : m[i][1] = "assistant" => i > 1 /\ m[i - 1] = <<"user", m[i][2]>>

Fits(conv) ==
  /\ Len(conv.messages) <= MaxMessages + 1
  /\ MaxChatCost > 0 => conv.cost <= MaxChatCost
  /\ Replied(conv.messages)

\* What a send at work may count on of its conversation.
Room(conv) == Len(conv.messages) < MaxMessages /\ (MaxChatCost > 0 => conv.cost < MaxChatCost)
Open(conv, s) ==
  /\ Len(conv.messages) \in 1..MaxMessages /\ conv.messages[Len(conv.messages)] = <<"user", s>>
  /\ MaxChatCost > 0 => conv.cost < MaxChatCost

WorkFits(s) ==
  /\ Asked(s) => asks[s].conv \in DOMAIN convs
  /\ At(s) = "prepare" => Room(Conv(s))
  /\ At(s) = "run" => Open(Conv(s), s) /\ checkedOut # "none"

ConvInv ==
  /\ convs \in Seq(Conversation) /\ checkedOut \in {"none", "half", "whole"}
  /\ \A c \in DOMAIN convs : Fits(convs[c])
  /\ \A s \in SendIds : WorkFits(s)

ChatInv == ChainInv /\ ConvInv

\* At first nothing is asked.
LEMMA ChatStart == ChatInit => ChatInv
<1> SUFFICES ASSUME ChatInit PROVE ChatInv
  OBVIOUS
<1>1. /\ asks \in [SendIds -> Send] /\ \A s \in SendIds : At(s) = "absent"
      /\ lockTail = 0 /\ Sends \in Nat
  BY ChatAssumption DEF ChatInit, NoSend, Send, At
<1>2. convs \in Seq(Conversation) /\ DOMAIN convs = {} /\ checkedOut = "none"
  BY EmptySeq DEF ChatInit
<1> QED
  BY <1>1, <1>2 DEF ChatInv, ChainInv, ConvInv, WorkFits, Asked

\* A send that works, or is alone and has not left, is the only one at work.
LEMMA OneAtWork ==
  ASSUME ChainInv, NEW s \in SendIds, Alone(s), ~Left(s), NEW t \in SendIds, t # s
  PROVE  At(t) \notin {"prepare", "run"}
<1>1. s \in Nat /\ t \in Nat
  BY DEF SendIds
<1>2. CASE t < s
  BY <1>2 DEF Alone, Left
<1>3. CASE s < t
  BY <1>3 DEF ChainInv, Alone
<1> QED
  BY <1>1, <1>2, <1>3

\* A send at the head of the chain goes on, or leaves: so does the chain.
LEMMA ChainMoves ==
  ASSUME ChainInv, NEW s \in SendIds, Alone(s), Asked(s), ~Left(s), NEW a \in {"prepare", "run", "over"},
         asks' = [asks EXCEPT ![s].at = a], lockTail' = IF a = "over" THEN Unlocks(s) ELSE lockTail
  PROVE  ChainInv'
<1>1. /\ asks \in [SendIds -> Send] /\ lockTail \in 0..Sends /\ Sends \in Nat /\ SendIds = 1..Sends
  BY ChatAssumption DEF ChainInv, SendIds
<1>2. /\ asks' \in [SendIds -> Send] /\ asks'[s].at = a
      /\ \A t \in SendIds \ {s} : asks'[t] = asks[t]
  BY <1>1 DEF Send
<1>3. \A t \in SendIds : Left(t) => Left(t)'
  BY <1>2 DEF Left, At
<1>4. \A t \in SendIds : Asked(t)' <=> Asked(t)
  BY <1>2 DEF Asked, At
<1>5. \A t \in SendIds : Alone(t) => Alone(t)'
  BY <1>3 DEF Alone
<1>6. \A t \in SendIds : At(t)' \in {"prepare", "run", "over"} => Alone(t)'
  BY <1>2, <1>5 DEF ChainInv, At
<1>7. \A t \in SendIds : At(t)' = "queued" => asks'[t].behind = t - 1 \/ Alone(t)'
  BY <1>2, <1>5 DEF ChainInv, At
<1>8. lockTail' \in 0..Sends /\ (lockTail' # 0 => lockTail' = lockTail)
  BY <1>1 DEF Unlocks
<1>9. lockTail' = 0 => \A t \in SendIds : Asked(t)' => Left(t)'
  <2>1. CASE lockTail = 0
    BY <1>3, <1>4, <2>1 DEF ChainInv
  <2>2. CASE lockTail # 0 /\ lockTail' = 0
    <3>1. lockTail = s /\ a = "over"
      BY <2>2 DEF Unlocks
    <3>2. Left(s)'
      BY <1>2, <3>1 DEF Left, At
    <3>3. \A t \in SendIds : t < s \/ t = s \/ t > s
      BY <1>1
    <3>4. \A t \in SendIds : t > s => ~Asked(t)
      BY <1>1, <2>2, <3>1 DEF ChainInv
    <3> QED
      BY <1>3, <1>4, <3>2, <3>3, <3>4 DEF Alone
  <2> QED
    BY <1>8, <2>1, <2>2
<1>10. lockTail' # 0 => Asked(lockTail)' /\ \A t \in SendIds : t > lockTail' => ~Asked(t)'
  <2> SUFFICES ASSUME lockTail' # 0 PROVE Asked(lockTail)' /\ \A t \in SendIds : t > lockTail' => ~Asked(t)'
    OBVIOUS
  <2>1. lockTail' = lockTail /\ lockTail \in SendIds
    BY <1>1, <1>8
  <2>2. Asked(lockTail) /\ \A t \in SendIds : t > lockTail => ~Asked(t)
    BY <2>1 DEF ChainInv
  <2>3. asks'[lockTail].at # "absent"
    BY <1>2, <2>1, <2>2 DEF Asked, At
  <2> QED
    BY <1>4, <2>1, <2>2, <2>3 DEF Asked, At
<1>11. \A t \in SendIds : Asked(t)' => \A u \in SendIds : u < t => Asked(u)'
  BY <1>4 DEF ChainInv
<1> QED
  BY <1>2, <1>6, <1>7, <1>8, <1>9, <1>10, <1>11 DEF ChainInv

\* A send at the head of the chain writes its conversation as conv.
LEMMA ConvSets ==
  ASSUME ChatInv, NEW s \in SendIds, Alone(s), Asked(s), ~Left(s), NEW a \in {"prepare", "run", "over"},
         asks' = [asks EXCEPT ![s].at = a], lockTail' = IF a = "over" THEN Unlocks(s) ELSE lockTail,
         NEW conv \in Conversation, Set(s, conv), Fits(conv), checkedOut' \in {"none", "half", "whole"},
         a = "prepare" => Room(conv),
         a = "run" => Open(conv, s) /\ checkedOut' # "none"
  PROVE  ChatInv'
<1>1. ChainInv'
  BY ChainMoves DEF ChatInv
<1>2. /\ asks \in [SendIds -> Send] /\ convs \in Seq(Conversation) /\ asks[s].conv \in DOMAIN convs
  BY DEF ChatInv, ChainInv, ConvInv, WorkFits
<1>3. /\ asks'[s].at = a /\ asks'[s].conv = asks[s].conv
      /\ \A t \in SendIds \ {s} : asks'[t] = asks[t]
  BY <1>2 DEF Send
<1>4. convs' = [convs EXCEPT ![asks[s].conv] = conv]
  BY DEF Set
<1>5. /\ convs' \in Seq(Conversation) /\ DOMAIN convs' = DOMAIN convs /\ convs'[asks[s].conv] = conv
      /\ \A c \in DOMAIN convs \ {asks[s].conv} : convs'[c] = convs[c]
  BY <1>2, <1>4, ExceptSeq
<1>6. \A c \in DOMAIN convs' : Fits(convs'[c])
  BY <1>5 DEF ChatInv, ConvInv
<1>7. WorkFits(s)'
  BY <1>2, <1>3, <1>5 DEF WorkFits, Conv, At, Asked
<1>8. ASSUME NEW t \in SendIds \ {s} PROVE WorkFits(t)'
  <2>1. At(t) \notin {"prepare", "run"} /\ (Asked(t) => asks[t].conv \in DOMAIN convs)
    BY OneAtWork DEF ChatInv, ConvInv, WorkFits
  <2> QED
    BY <1>3, <1>5, <2>1 DEF WorkFits, At, Asked
<1>9. \A c \in DOMAIN convs' : Fits(convs[c])'
  BY <1>6 DEF Fits, Replied
<1> QED
  BY <1>1, <1>5, <1>7, <1>8, <1>9 DEF ChatInv, ConvInv

\* What the writes make of a conversation.
LEMMA Writes ==
  ASSUME NEW conv \in Conversation, NEW m \in Seq(Message), NEW b \in BOOLEAN,
         NEW state \in {"active", "error", "reset"}
  PROVE  /\ [conv EXCEPT !.messages = m] \in Conversation /\ [conv EXCEPT !.messages = m].messages = m
         /\ [conv EXCEPT !.messages = m].cost = conv.cost
         /\ [conv EXCEPT !.session = b] \in Conversation /\ [conv EXCEPT !.session = b].messages = conv.messages
         /\ [conv EXCEPT !.session = b].cost = conv.cost
         /\ [conv EXCEPT !.workspace = b] \in Conversation /\ [conv EXCEPT !.workspace = b].messages = conv.messages
         /\ [conv EXCEPT !.workspace = b].cost = conv.cost
         /\ [conv EXCEPT !.state = state] \in Conversation /\ [conv EXCEPT !.state = state].messages = conv.messages
         /\ [conv EXCEPT !.state = state].cost = conv.cost
BY Zenon DEF Conversation

\* A question at the end of a whole transcript leaves it whole.
LEMMA QuestionAppended ==
  ASSUME NEW conv \in Conversation, Fits(conv), Room(conv), NEW s \in SendIds
  PROVE  LET asked == [conv EXCEPT !.messages = Append(@, <<"user", s>>)]
         IN  asked \in Conversation /\ Fits(asked) /\ Open(asked, s)
<1> DEFINE m == conv.messages
           q == <<"user", s>>
           w == Append(m, q)
<1>1. m \in Seq(Message) /\ q \in Message /\ q[1] = "user" /\ Len(m) \in Nat /\ DOMAIN m = 1..Len(m)
      /\ conv.cost \in Nat
  BY DEF Conversation, Message
<1> HIDE DEF q
<1>2. /\ w \in Seq(Message) /\ Len(w) = Len(m) + 1 /\ w[Len(m) + 1] = q
      /\ \A i \in 1..Len(m) : w[i] = m[i]
  BY <1>1, AppendProperties
<1>3. DOMAIN w = 1..(Len(m) + 1)
  BY <1>2
<1>4. Replied(w)
  <2> SUFFICES ASSUME NEW i \in DOMAIN w, w[i][1] = "assistant" PROVE i > 1 /\ w[i - 1] = <<"user", w[i][2]>>
    BY DEF Replied
  <2>1. i \in DOMAIN m /\ w[i] = m[i]
    BY <1>1, <1>2, <1>3
  <2>2. i > 1 /\ m[i - 1] = <<"user", m[i][2]>>
    BY <2>1 DEF Fits, Replied
  <2> QED
    BY <1>1, <1>2, <2>1, <2>2
<1> HIDE DEF w
<1>5. [conv EXCEPT !.messages = w] \in Conversation /\ [conv EXCEPT !.messages = w].messages = w
      /\ [conv EXCEPT !.messages = w].cost = conv.cost
  BY <1>2, Writes
<1>6. MaxMessages \in Nat
  BY ChatAssumption
<1>7. Fits([conv EXCEPT !.messages = w])
  BY <1>1, <1>2, <1>4, <1>5, <1>6 DEF Fits, Room
<1>8. Open([conv EXCEPT !.messages = w], s)
  BY <1>1, <1>2, <1>5, <1>6 DEF Open, Room, q
<1> QED
  BY <1>5, <1>7, <1>8 DEF w, q

\* An answer below its question leaves the transcript whole.
LEMMA AnswerAppended ==
  ASSUME NEW conv \in Conversation, Fits(conv), NEW s \in SendIds, Open(conv, s), NEW c \in {0, 1},
         NEW b \in BOOLEAN
  PROVE  LET answered == [conv EXCEPT !.messages = Append(@, <<"assistant", s>>), !.cost = @ + c,
                                      !.session = b, !.state = "active"]
         IN  answered \in Conversation /\ Fits(answered)
<1> DEFINE m == conv.messages
           q == <<"assistant", s>>
           w == Append(m, q)
           n == conv.cost + c
<1>1. m \in Seq(Message) /\ q \in Message /\ q[2] = s /\ Len(m) \in Nat /\ DOMAIN m = 1..Len(m)
      /\ conv.cost \in Nat /\ n \in Nat
  BY DEF Conversation, Message
<1> HIDE DEF q
<1>2. /\ w \in Seq(Message) /\ Len(w) = Len(m) + 1 /\ w[Len(m) + 1] = q
      /\ \A i \in 1..Len(m) : w[i] = m[i]
  BY <1>1, AppendProperties
<1>3. DOMAIN w = 1..(Len(m) + 1)
  BY <1>2
<1>4. Len(m) >= 1 /\ m[Len(m)] = <<"user", s>> /\ Len(m) <= MaxMessages
  BY ChatAssumption DEF Open
<1>5. Replied(w)
  <2> SUFFICES ASSUME NEW i \in DOMAIN w, w[i][1] = "assistant" PROVE i > 1 /\ w[i - 1] = <<"user", w[i][2]>>
    BY DEF Replied
  <2>1. CASE i = Len(m) + 1
    <3>1. w[i] = q /\ i - 1 = Len(m) /\ w[i - 1] = m[Len(m)] /\ i > 1
      BY <1>1, <1>2, <1>4, <2>1
    <3> QED
      BY <1>1, <1>4, <3>1
  <2>2. CASE i # Len(m) + 1
    <3>1. i \in DOMAIN m /\ w[i] = m[i]
      BY <1>1, <1>2, <1>3, <2>2
    <3>2. i > 1 /\ m[i - 1] = <<"user", m[i][2]>>
      BY <3>1 DEF Fits, Replied
    <3> QED
      BY <1>1, <1>2, <3>1, <3>2
  <2> QED
    BY <2>1, <2>2
<1>6. MaxMessages \in Nat /\ MaxChatCost \in Nat
  BY ChatAssumption
<1>7. Len(w) <= MaxMessages + 1 /\ (MaxChatCost > 0 => n <= MaxChatCost)
  BY <1>1, <1>2, <1>4, <1>6 DEF Open
<1> HIDE DEF w, n
<1> DEFINE done == [conv EXCEPT !.messages = w, !.cost = n, !.session = b, !.state = "active"]
<1>8. done \in Conversation /\ done.messages = w /\ done.cost = n
  <2>1. w \in Seq(Message) /\ n \in Nat
    BY <1>1, <1>2
  <2> QED
    BY <2>1, Zenon DEF Conversation
<1> HIDE DEF done
<1>9. Fits(done)
  BY <1>5, <1>7, <1>8 DEF Fits
<1> QED
  BY <1>8, <1>9 DEF done, w, n, q

\* A send whose predecessor has left has only sends before it that have left.
LEMMA MayStart ==
  ASSUME ChainInv, NEW s \in SendIds, At(s) = "queued", asks[s].behind \notin {t \in SendIds : ~Left(t)}
  PROVE  Alone(s)
<1>1. Sends \in Nat /\ SendIds = 1..Sends
  BY ChatAssumption DEF SendIds
<1>2. CASE asks[s].behind = s - 1 /\ s # 1
  <2>1. s - 1 \in SendIds /\ Left(s - 1)
    BY <1>1, <1>2
  <2>2. Alone(s - 1)
    BY <2>1 DEF ChainInv, Left
  <2>3. \A t \in SendIds : t < s => t = s - 1 \/ t < s - 1
    BY <1>1
  <2> QED
    BY <2>1, <2>2, <2>3 DEF Alone
<1>3. CASE s = 1
  BY <1>1, <1>3 DEF Alone
<1> QED
  BY <1>2, <1>3 DEF ChainInv

\* The steps of a send: sendLocked, its run and the finally of send.
LEMMA SendSteps ==
  ASSUME ChatInv, NEW s \in SendIds, Starts(s) \/ Prepares(s) \/ SeesSession(s) \/ Answers(s) \/ Unanswered(s)
  PROVE  ChatInv'
<1>1. Asked(s) /\ ~Left(s) /\ Alone(s) /\ ChainInv /\ ConvInv
  BY MayStart DEF ChatInv, ChainInv, Starts, Prepares, SeesSession, Answers, Unanswered, Asked, Left
<1>2. /\ asks \in [SendIds -> Send] /\ convs \in Seq(Conversation) /\ asks[s].conv \in DOMAIN convs
      /\ Conv(s) \in Conversation /\ Fits(Conv(s)) /\ WorkFits(s) /\ checkedOut \in {"none", "half", "whole"}
  <2>1. convs \in Seq(Conversation) /\ asks[s].conv \in DOMAIN convs
    BY <1>1 DEF ConvInv, WorkFits
  <2>2. Conv(s) \in Conversation
    BY <2>1, ElementOfSeq DEF Conv
  <2> QED
    BY <1>1, <2>1, <2>2 DEF ChainInv, ConvInv, Conv
<1>3. UNCHANGED convs => Set(s, Conv(s))
  BY <1>2 DEF Set, Conv
<1>4. asks = [asks EXCEPT ![s].at = At(s)]
  BY <1>2 DEF At, Send
<1>5. Leaves(s) => asks' = [asks EXCEPT ![s].at = "over"] /\ lockTail' = Unlocks(s)
  BY DEF Leaves
<1>6. ASSUME Leaves(s), NEW conv \in Conversation, Fits(conv), Set(s, conv), checkedOut' \in {"none", "half", "whole"}
      PROVE  ChatInv'
  BY <1>1, <1>5, <1>6, ConvSets
<1>7. ASSUME Runs(s, [Conv(s) EXCEPT !.workspace = TRUE]) \/ Runs(s, Conv(s)), Room(Conv(s)),
             checkedOut' \in {"half", "whole"}
      PROVE  ChatInv'
  <2>1. PICK conv \in Conversation : Runs(s, conv) /\ Fits(conv) /\ Room(conv)
    <3> DEFINE there == [Conv(s) EXCEPT !.workspace = TRUE]
    <3>1. /\ there \in Conversation /\ there.messages = Conv(s).messages /\ there.cost = Conv(s).cost
      <4>1. <<>> \in Seq(Message) /\ TRUE \in BOOLEAN /\ "active" \in {"active", "error", "reset"}
        BY EmptySeq
      <4> QED
        BY <1>2, <4>1, Writes
    <3>2. Fits(there) /\ Room(there)
      BY <1>2, <1>7, <3>1 DEF Fits, Room
    <3> QED
      BY <1>2, <1>7, <3>1, <3>2
  <2> DEFINE asked == [conv EXCEPT !.messages = Append(@, <<"user", s>>)]
  <2>2. asked \in Conversation /\ Fits(asked) /\ Open(asked, s)
    BY <2>1, QuestionAppended
  <2>3. Set(s, asked) /\ asks' = [asks EXCEPT ![s].at = "run"] /\ lockTail' = lockTail
    BY <2>1 DEF Runs
  <2> HIDE DEF asked
  <2> QED
    BY <1>1, <1>7, <2>2, <2>3, ConvSets
<1>8. CASE Starts(s)
  <2>1. CASE Leaves(s) /\ UNCHANGED <<convs, checkedOut>>
    BY <1>2, <1>3, <1>6, <2>1
  <2>2. CASE Room(Conv(s)) /\ checkedOut # "none" /\ Runs(s, Conv(s)) /\ UNCHANGED checkedOut
    BY <1>2, <1>7, <2>2
  <2>3. CASE Room(Conv(s)) /\ asks' = [asks EXCEPT ![s].at = "prepare"] /\ checkedOut' \in {"none", "half"}
             /\ UNCHANGED <<convs, lockTail>>
    BY <1>1, <1>2, <1>3, <2>3, ConvSets
  <2>4. ~(Len(Conv(s).messages) >= MaxMessages \/ (MaxChatCost > 0 /\ Conv(s).cost >= MaxChatCost)) => Room(Conv(s))
    <3>1. Len(Conv(s).messages) \in Nat /\ Conv(s).cost \in Nat /\ MaxMessages \in Nat /\ MaxChatCost \in Nat
      BY <1>2, ChatAssumption DEF Conversation
    <3> QED
      BY <3>1 DEF Room
  <2> QED
    BY <1>8, <2>1, <2>2, <2>3, <2>4 DEF Starts
<1>9. ASSUME Leaves(s), Set(s, Conv(s)) \/ Set(s, [Conv(s) EXCEPT !.state = "error"]), UNCHANGED checkedOut
      PROVE  ChatInv'
  <2> DEFINE failed == [Conv(s) EXCEPT !.state = "error"]
  <2>1. failed \in Conversation /\ failed.messages = Conv(s).messages /\ failed.cost = Conv(s).cost
    <3>1. <<>> \in Seq(Message) /\ TRUE \in BOOLEAN /\ "error" \in {"active", "error", "reset"}
      BY EmptySeq
    <3> QED
      BY <1>2, <3>1, Writes
  <2>2. Fits(failed)
    BY <1>2, <2>1 DEF Fits
  <2> HIDE DEF failed
  <2>3. Set(s, Conv(s)) \/ Set(s, failed)
    BY <1>9 DEF failed
  <2> QED
    BY <1>2, <1>6, <1>9, <2>1, <2>2, <2>3
<1>10. CASE Prepares(s)
  <2>1. Room(Conv(s))
    BY <1>2, <1>10 DEF Prepares, WorkFits
  <2> QED
    BY <1>7, <1>9, <1>10, <2>1 DEF Prepares
<1>11. CASE SeesSession(s)
  <2> DEFINE seen == [Conv(s) EXCEPT !.session = TRUE]
  <2>1. seen \in Conversation /\ seen.messages = Conv(s).messages /\ seen.cost = Conv(s).cost
    <3>1. <<>> \in Seq(Message) /\ TRUE \in BOOLEAN /\ "error" \in {"active", "error", "reset"}
      BY EmptySeq
    <3> QED
      BY <1>2, <3>1, Writes
  <2>2. At(s) = "run" /\ Open(Conv(s), s) /\ checkedOut # "none"
    BY <1>2, <1>11 DEF SeesSession, WorkFits
  <2>3. Fits(seen) /\ Open(seen, s)
    BY <1>2, <2>1, <2>2 DEF Fits, Open
  <2>4. Set(s, seen) /\ asks' = [asks EXCEPT ![s].at = "run"] /\ UNCHANGED <<lockTail, checkedOut>>
    BY <1>4, <1>11, <2>2 DEF SeesSession
  <2> HIDE DEF seen
  <2> QED
    BY <1>1, <1>2, <2>1, <2>2, <2>3, <2>4, ConvSets
<1>12. CASE Answers(s)
  <2>1. Open(Conv(s), s)
    BY <1>2, <1>12 DEF Answers, WorkFits
  <2>2. Conv(s).session \in BOOLEAN
    BY <1>2, Zenon DEF Conversation
  <2>3. PICK c \in {0, 1}, b \in {Conv(s).session, TRUE} :
          Set(s, [Conv(s) EXCEPT !.messages = Append(@, <<"assistant", s>>), !.cost = @ + c,
                                 !.session = b, !.state = "active"])
    BY <1>12 DEF Answers
  <2> DEFINE answered == [Conv(s) EXCEPT !.messages = Append(@, <<"assistant", s>>), !.cost = @ + c,
                                         !.session = b, !.state = "active"]
  <2>4. b \in BOOLEAN
    BY <2>2, Zenon
  <2>5. answered \in Conversation /\ Fits(answered)
    BY <1>2, <2>1, <2>4, AnswerAppended
  <2> HIDE DEF answered
  <2>6. Set(s, answered)
    BY <2>3 DEF answered
  <2> QED
    BY <1>2, <1>6, <1>12, <2>5, <2>6 DEF Answers
<1>13. CASE Unanswered(s)
  BY <1>9, <1>13 DEF Unanswered
<1> QED
  BY <1>8, <1>10, <1>11, <1>12, <1>13

\* A new conversation fits.
LEMMA Fresh == NewConversation \in Conversation /\ Fits(NewConversation)
<1>1. /\ NewConversation \in Conversation
      /\ NewConversation.messages = <<>> /\ NewConversation.cost = 0
  BY EmptySeq, Zenon DEF NewConversation, Conversation
<1>2. MaxMessages \in Nat /\ MaxChatCost \in Nat /\ DOMAIN <<>> = {} /\ Len(<<>>) = 0
  BY ChatAssumption
<1> QED
  BY <1>1, <1>2 DEF Fits, Replied

\* A question joins the end of the chain.
LEMMA QuestionKeeps ==
  ASSUME ChatInv, NEW s \in SendIds, Question(s)
  PROVE  ChatInv'
<1>1. /\ asks \in [SendIds -> Send] /\ lockTail \in 0..Sends /\ Sends \in Nat /\ SendIds = 1..Sends
      /\ convs \in Seq(Conversation) /\ checkedOut' = checkedOut
      /\ At(s) = "absent" /\ \A t \in SendIds : t < s => Asked(t)
  BY ChatAssumption DEF ChatInv, ChainInv, ConvInv, SendIds, Question, Asked
<1>2. /\ convs' \in Seq(Conversation) /\ Len(convs') \in Nat /\ Len(convs') \in DOMAIN convs'
      /\ \A c \in DOMAIN convs : c \in DOMAIN convs' /\ convs'[c] = convs[c]
      /\ \A c \in DOMAIN convs' : Fits(convs'[c])
  <2>1. CASE convs = <<>>
    <3>1. convs' = <<NewConversation>> /\ DOMAIN convs = {}
      BY <2>1 DEF Question
    <3>2. convs' \in Seq(Conversation) /\ Len(convs') = 1 /\ DOMAIN convs' = 1..1 /\ convs'[1] = NewConversation
      BY <3>1, Fresh
    <3> QED
      BY <3>1, <3>2, Fresh
  <2>2. CASE convs # <<>>
    <3>1. convs' = convs /\ Len(convs) \in DOMAIN convs
      BY <1>1, <2>2, EmptySeq DEF Question
    <3> QED
      BY <1>1, <3>1 DEF ChatInv, ConvInv
  <2> QED
    BY <2>1, <2>2
<1>3. asks' = [asks EXCEPT ![s] = [at |-> "queued", conv |-> Len(convs'), behind |-> lockTail]] /\ lockTail' = s
  BY DEF Question
<1>4. /\ asks' \in [SendIds -> Send]
      /\ asks'[s].at = "queued" /\ asks'[s].conv = Len(convs') /\ asks'[s].behind = lockTail
      /\ \A t \in SendIds \ {s} : asks'[t] = asks[t]
  BY <1>1, <1>2, <1>3 DEF Send
<1>5. \A t \in SendIds : t >= s => ~Asked(t)
  BY <1>1 DEF ChatInv, ChainInv, Asked
<1>6. \A t \in SendIds : (Asked(t)' <=> t <= s) /\ (Left(t)' <=> Left(t))
  BY <1>1, <1>4, <1>5 DEF Asked, Left, At
<1>7. \A t \in SendIds : Alone(t)' <=> Alone(t)
  BY <1>6 DEF Alone
<1>8. lockTail = s - 1 \/ Alone(s)
  <2>1. CASE lockTail = 0
    BY <1>1, <2>1 DEF ChatInv, ChainInv, Alone
  <2>2. CASE lockTail # 0
    <3>1. lockTail \in SendIds /\ Asked(lockTail) /\ \A t \in SendIds : t > lockTail => ~Asked(t)
      BY <1>1, <2>2 DEF ChatInv, ChainInv
    <3>2. lockTail < s /\ ~(lockTail < s - 1)
      BY <1>1, <1>5, <3>1
    <3> QED
      BY <1>1, <3>2
  <2> QED
    BY <2>1, <2>2
<1>9. ChainInv'
  <2>1. \A t \in SendIds : At(t)' \in {"prepare", "run", "over"} => Alone(t)'
    BY <1>4, <1>7 DEF ChatInv, ChainInv, At
  <2>2. \A t \in SendIds : At(t)' = "queued" => asks'[t].behind = t - 1 \/ Alone(t)'
    BY <1>4, <1>7, <1>8 DEF ChatInv, ChainInv, At
  <2>3. \A t \in SendIds : Asked(t)' => \A u \in SendIds : u < t => Asked(u)'
    BY <1>1, <1>6
  <2>4. lockTail' \in 0..Sends /\ lockTail' # 0 /\ \A t \in SendIds : t > lockTail' => ~Asked(t)'
    BY <1>1, <1>3, <1>6
  <2>5. Asked(lockTail)'
    BY <1>3, <1>4 DEF Asked, At
  <2> QED
    BY <1>4, <2>1, <2>2, <2>3, <2>4, <2>5 DEF ChainInv
<1>10. ASSUME NEW t \in SendIds PROVE WorkFits(t)'
  <2>1. CASE t = s
    BY <1>2, <1>4, <2>1 DEF WorkFits, At, Asked
  <2>2. CASE t # s
    <3>1. WorkFits(t) /\ asks'[t] = asks[t]
      BY <1>4, <2>2 DEF ChatInv, ConvInv
    <3> QED
      BY <1>1, <1>2, <3>1 DEF WorkFits, At, Asked, Conv
  <2> QED
    BY <2>1, <2>2
<1>11. \A c \in DOMAIN convs' : Fits(convs[c])'
  BY <1>2 DEF Fits, Replied
<1> QED
  BY <1>1, <1>2, <1>9, <1>10, <1>11 DEF ChatInv, ConvInv

\* A reset puts a conversation on top, and takes none away.
LEMMA ResetKeeps ==
  ASSUME ChatInv, ResetsChat
  PROVE  ChatInv'
<1> DEFINE old == [c \in DOMAIN convs |-> [convs[c] EXCEPT !.state = IF @ = "active" THEN "reset" ELSE @]]
<1>1. convs \in Seq(Conversation) /\ DOMAIN convs = 1..Len(convs) /\ Len(convs) \in Nat
      /\ UNCHANGED <<asks, lockTail, checkedOut>> /\ convs' = Append(old, NewConversation)
  BY DEF ChatInv, ConvInv, ResetsChat
<1>2. ASSUME NEW c \in DOMAIN convs
      PROVE  old[c] \in Conversation /\ old[c].messages = convs[c].messages /\ old[c].cost = convs[c].cost
  <2> DEFINE state == IF convs[c].state = "active" THEN "reset" ELSE convs[c].state
  <2>1. convs[c] \in Conversation
    BY <1>1, ElementOfSeq
  <2>2. state \in {"active", "error", "reset"} /\ <<>> \in Seq(Message) /\ TRUE \in BOOLEAN
    BY <2>1, EmptySeq DEF Conversation
  <2>3. old[c] = [convs[c] EXCEPT !.state = state]
    OBVIOUS
  <2> HIDE DEF state, old
  <2>4. /\ [convs[c] EXCEPT !.state = state] \in Conversation
        /\ [convs[c] EXCEPT !.state = state].messages = convs[c].messages
        /\ [convs[c] EXCEPT !.state = state].cost = convs[c].cost
    BY <2>1, <2>2, Writes
  <2> QED
    BY <2>3, <2>4
<1>3. old \in Seq(Conversation) /\ Len(old) = Len(convs)
  <2>1. old \in [1..Len(convs) -> Conversation]
    BY <1>1, <1>2
  <2> HIDE DEF old
  <2>2. old \in Seq(Conversation)
    BY <1>1, <2>1, SeqDef
  <2> QED
    BY <1>1, <2>1, <2>2
<1> HIDE DEF old
<1>4. PICK n \in Nat : n = Len(convs) + 1
  BY <1>1
<1>5. /\ convs' \in Seq(Conversation) /\ DOMAIN convs' = 1..n /\ convs'[n] = NewConversation
      /\ \A c \in DOMAIN convs : c \in DOMAIN convs' /\ convs'[c] = old[c]
  <2>1. /\ convs' \in Seq(Conversation) /\ Len(convs') = n /\ convs'[n] = NewConversation
        /\ \A c \in 1..Len(old) : convs'[c] = old[c]
    BY <1>1, <1>3, <1>4, Fresh, AppendProperties
  <2> QED
    BY <1>1, <1>3, <1>4, <2>1
<1>6. \A c \in DOMAIN convs : /\ convs'[c].messages = convs[c].messages /\ convs'[c].cost = convs[c].cost
  BY <1>2, <1>5
<1>7. \A c \in DOMAIN convs' : Fits(convs[c])'
  <2>1. \A c \in DOMAIN convs : Fits(convs'[c])
    BY <1>6 DEF ChatInv, ConvInv, Fits
  <2>2. \A c \in DOMAIN convs' : c \in DOMAIN convs \/ c = n
    BY <1>1, <1>4, <1>5
  <2>3. \A c \in DOMAIN convs' : Fits(convs'[c])
    BY <1>5, <2>1, <2>2, Fresh
  <2> QED
    BY <2>3 DEF Fits, Replied
<1>8. ASSUME NEW s \in SendIds PROVE WorkFits(s)'
  <2>1. WorkFits(s)
    BY DEF ChatInv, ConvInv
  <2>2. asks[s].conv \in DOMAIN convs =>
          (Room(Conv(s)) => Room(Conv(s))') /\ (Open(Conv(s), s) => Open(Conv(s), s)')
    BY <1>1, <1>6 DEF Room, Open, Conv
  <2> QED
    BY <1>1, <1>5, <2>1, <2>2 DEF WorkFits, At, Asked
<1>9. ChainInv'
  BY <1>1 DEF ChatInv, ChainInv, Alone, Left, Asked, At
<1> QED
  BY <1>1, <1>5, <1>7, <1>8, <1>9 DEF ChatInv, ConvInv

\* After a death all that was asked has left.
LEMMA ChatDeathKeeps ==
  ASSUME ChatInv, ChatDies
  PROVE  ChatInv'
<1>1. /\ asks \in [SendIds -> Send] /\ UNCHANGED convs /\ lockTail' = 0 /\ checkedOut' \in {checkedOut, "none"}
      /\ asks' = [s \in SendIds |-> IF At(s) = "absent" THEN asks[s] ELSE [asks[s] EXCEPT !.at = "over"]]
      /\ Sends \in Nat
  BY ChatAssumption DEF ChatInv, ChainInv, ChatDies
<1>2. /\ asks' \in [SendIds -> Send]
      /\ \A s \in SendIds : /\ asks'[s].conv = asks[s].conv
                            /\ asks'[s].at = IF At(s) = "absent" THEN "absent" ELSE "over"
  BY <1>1 DEF Send, At
<1>3. \A s \in SendIds : (Asked(s)' <=> Asked(s)) /\ (Left(s)' <=> Asked(s))
  BY <1>2 DEF Asked, Left, At
<1>4. ChainInv'
  <2>1. \A s \in SendIds : At(s)' \in {"prepare", "run", "over"} => Alone(s)'
    BY <1>2, <1>3 DEF ChatInv, ChainInv, At, Asked, Alone
  <2>2. \A s \in SendIds : At(s)' # "queued"
    BY <1>2 DEF At
  <2> QED
    BY <1>1, <1>2, <1>3, <2>1, <2>2 DEF ChatInv, ChainInv
<1>5. \A s \in SendIds : WorkFits(s)'
  BY <1>1, <1>2, <1>3 DEF ChatInv, ConvInv, WorkFits, At
<1>6. \A c \in DOMAIN convs' : Fits(convs[c])'
  BY <1>1 DEF ChatInv, ConvInv, Fits, Replied
<1> QED
  BY <1>1, <1>4, <1>5, <1>6 DEF ChatInv, ConvInv

\* The chain and the transcripts are sound, always (chat/service.ts).
THEOREM ChatSound == ChatSpec => []ChatInv
<1>1. ChatInv /\ ChatNext => ChatInv'
  BY SendSteps, QuestionKeeps, ResetKeeps, ChatDeathKeeps DEF ChatNext
<1>2. ChatInv /\ UNCHANGED chatVars => ChatInv'
  BY DEF chatVars, ChatInv, ChainInv, ConvInv, Alone, Left, Asked, At, WorkFits, Fits, Replied, Room, Open, Conv
<1> QED
  BY <1>1, <1>2, ChatStart, PTL DEF ChatSpec

\* One send at a time works in the checkout of a job, which is there, and every
\* transcript is whole and within its limits (service.ts:102-103).
THEOREM ChatAlwaysSerial == ChatSpec => []ChatIsSerial
<1>1. ASSUME ChatInv PROVE ChatIsSerial
  <2>1. Cardinality(Working) <= 1
    <3>1. CASE Working = {}
      BY <3>1, FS_EmptySet
    <3>2. ASSUME NEW s \in Working PROVE Cardinality(Working) <= 1
      <4>1. s \in SendIds /\ Alone(s) /\ ~Left(s)
        BY <1>1, <3>2 DEF Working, ChatInv, ChainInv, Left
      <4>2. Working = {s}
        BY <1>1, <4>1, OneAtWork DEF Working, ChatInv
      <4>3. Cardinality({s}) = 1
        BY FS_Singleton
      <4> QED
        BY <4>2, <4>3
    <3> QED
      BY <3>1, <3>2
  <2>2. \A s \in SendIds : At(s) = "run" => checkedOut # "none"
    BY <1>1 DEF ChatInv, ConvInv, WorkFits
  <2> QED
    BY <1>1, <2>1, <2>2 DEF ChatIsSerial, ChatInv, ConvInv, Fits, Replied
<1> QED
  BY <1>1, ChatSound, PTL

\* A send that was never asked names nothing, and nobody waits behind more than
\* there are.
SendsNamed ==
  \A s \in SendIds : asks[s].behind \in 0..Sends /\ (~Asked(s) => asks[s].conv = 0)

LEMMA NamesKept == ASSUME ChatInv, SendsNamed, ChatNext PROVE SendsNamed'
<1>1. asks \in [SendIds -> Send] /\ lockTail \in 0..Sends /\ 0 \in 0..Sends
  BY ChatAssumption DEF ChatInv, ChainInv
<1>2. ASSUME NEW s \in SendIds, asks' = [asks EXCEPT ![s].at = "over"] \/ asks' = [asks EXCEPT ![s].at = "prepare"]
                                \/ asks' = [asks EXCEPT ![s].at = "run"]
      PROVE  SendsNamed'
  BY <1>1, <1>2 DEF SendsNamed, Asked, At, Send
<1>3. CASE UNCHANGED asks
  BY <1>3 DEF SendsNamed, Asked, At
<1>4. ASSUME NEW s \in SendIds, Question(s) PROVE SendsNamed'
  BY <1>1, <1>4 DEF Question, SendsNamed, Asked, At, Send
<1>5. ASSUME NEW s \in SendIds, Starts(s) \/ Prepares(s) \/ SeesSession(s) \/ Answers(s) \/ Unanswered(s)
      PROVE  SendsNamed'
  BY <1>2, <1>3, <1>5 DEF Starts, Prepares, SeesSession, Answers, Unanswered, Leaves, Runs
<1>6. CASE ResetsChat
  BY <1>3, <1>6 DEF ResetsChat
<1>7. CASE ChatDies
  BY <1>1, <1>7 DEF ChatDies, SendsNamed, Asked, At, Send
<1> QED
  BY <1>4, <1>5, <1>6, <1>7 DEF ChatNext

\* Every send is of a conversation that is there, or of none.
THEOREM ChatWellTyped == ChatSpec => []ChatTypeOK
<1>1. ChatInit => SendsNamed
  BY ChatAssumption DEF ChatInit, SendsNamed, NoSend, Asked, At
<1>2. ChatInv /\ SendsNamed /\ [ChatNext]_chatVars => SendsNamed'
  <2>1. SendsNamed /\ UNCHANGED chatVars => SendsNamed'
    BY DEF chatVars, SendsNamed, Asked, At
  <2> QED
    BY <2>1, NamesKept
<1>3. ASSUME ChatInv, SendsNamed PROVE ChatTypeOK
  <2>1. convs \in Seq(Conversation) /\ asks \in [SendIds -> Send]
    BY <1>3 DEF ChatInv, ConvInv, ChainInv
  <2>2. DOMAIN convs = 1..Len(convs) /\ Len(convs) \in Nat /\ \A c \in DOMAIN convs : convs[c] \in Conversation
    BY <2>1
  <2>3. ASSUME NEW s \in SendIds PROVE asks[s].conv \in 0..Len(convs)
    BY <1>3, <2>1, <2>2 DEF SendsNamed, ChatInv, ConvInv, WorkFits
  <2>4. ASSUME NEW s \in SendIds PROVE At(s) \in {"absent", "queued", "prepare", "run", "over"}
    BY <2>1 DEF At, Send
  <2> QED
    BY <1>3, <2>2, <2>3, <2>4 DEF ChatTypeOK, SendsNamed, ChatInv, ConvInv, ChainInv, Conversation
<1> QED
  BY <1>1, <1>2, <1>3, ChatSound, PTL DEF ChatSpec

-----------------------------------------------------------------------------
(* Scan issues *)

Submit == [at : {"idle", "list", "create"}, left : SUBSET Defects, current : SUBSET Defects]
Issues == [Defects -> Seq({"open", "closed"})]

AtMostOne(d) == \A i, k \in OpenIssues(d) : i = k

\* A submit that works on a finding holds its claim.
HoldsClaim(s) ==
  IF submits[s].at = "idle" THEN submits[s].current = {}
  ELSE \E d \in Defects : /\ submits[s].current = {d} /\ claims[d] = 0
                          /\ submits[s].at = "create" => OpenIssues(d) = {}

ClaimsInv ==
  /\ issues \in Issues /\ claims \in [Defects -> Int] /\ submits \in [Operators -> Submit]
  /\ \A d \in Defects : AtMostOne(d)
  /\ \A s \in Operators : HoldsClaim(s)
  /\ \A s, t \in Operators : s # t => submits[s].current \intersect submits[t].current = {}
  /\ \A d \in Defects : claims[d] = 0 => \E s \in Operators : d \in submits[s].current

\* What others than s work on.
Elsewhere(s) == UNION {submits[t].current : t \in Operators \ {s}}

\* At first nothing is claimed, open or in flight.
LEMMA ClaimsStart == ScanIssuesInit => ClaimsInv
<1> SUFFICES ASSUME ScanIssuesInit PROVE ClaimsInv
  OBVIOUS
<1>1. /\ issues \in Issues /\ \A d \in Defects : DOMAIN issues[d] = {}
      /\ claims \in [Defects -> Int] /\ \A d \in Defects : claims[d] = -1
  BY EmptySeq DEF ScanIssuesInit, Issues
<1>2. /\ submits \in [Operators -> Submit]
      /\ \A s \in Operators : submits[s].at = "idle" /\ submits[s].current = {}
  BY DEF ScanIssuesInit, NoSubmit, Submit
<1>3. \A d \in Defects : OpenIssues(d) = {} /\ claims[d] # 0
  BY <1>1 DEF OpenIssues
<1> QED
  BY <1>1, <1>2, <1>3 DEF ClaimsInv, HoldsClaim, AtMostOne

\* A submit s that lets go of what it had and takes up T, at most one finding
\* whose claim was free, while the issues of what others work on do not open.
LEMMA SubmitMoves ==
  ASSUME ClaimsInv, NEW s \in Operators, NEW c \in [Defects -> Int], NEW T \in SUBSET Defects, NEW S \in SUBSET Defects,
         \A d \in Defects : c[d] = 0 <=> d \in Elsewhere(s),
         T = {} \/ \E d \in Defects : T = {d} /\ c[d] = -1,
         claims' = [d \in Defects |-> IF d \in T THEN 0 ELSE c[d]],
         submits' = [submits EXCEPT ![s] = IF T = {} THEN NoSubmit ELSE [at |-> "list", left |-> S, current |-> T]],
         issues' \in Issues, \A d \in Defects : AtMostOne(d)',
         \A d \in Elsewhere(s) : OpenIssues(d)' \subseteq OpenIssues(d)
  PROVE  ClaimsInv'
<1>1. submits \in [Operators -> Submit]
  BY DEF ClaimsInv
<1>2. NoSubmit \in Submit /\ [at |-> "list", left |-> S, current |-> T] \in Submit
  BY DEF NoSubmit, Submit
<1>3. /\ submits' \in [Operators -> Submit] /\ \A t \in Operators \ {s} : submits'[t] = submits[t]
      /\ submits'[s].current = T
      /\ submits'[s].at = IF T = {} THEN "idle" ELSE "list"
  BY <1>1, <1>2 DEF NoSubmit
<1>4. claims' \in [Defects -> Int] /\ \A d \in Defects : claims'[d] = IF d \in T THEN 0 ELSE c[d]
  OBVIOUS
<1>5. T \intersect Elsewhere(s) = {}
  OBVIOUS
<1>6. \A t \in Operators : HoldsClaim(t)'
  <2>1. HoldsClaim(s)'
    BY <1>3, <1>4 DEF HoldsClaim
  <2>2. ASSUME NEW t \in Operators \ {s} PROVE HoldsClaim(t)'
    <3>1. HoldsClaim(t) /\ submits'[t] = submits[t]
      BY <1>3 DEF ClaimsInv
    <3>2. CASE submits[t].at = "idle"
      BY <3>1, <3>2 DEF HoldsClaim
    <3>3. CASE submits[t].at # "idle"
      <4>1. PICK d \in Defects : submits[t].current = {d} /\ (submits[t].at = "create" => OpenIssues(d) = {})
        BY <3>1, <3>3 DEF HoldsClaim
      <4>2. d \in Elsewhere(s)
        BY <4>1 DEF Elsewhere
      <4>3. claims'[d] = 0 /\ OpenIssues(d)' \subseteq OpenIssues(d)
        BY <1>4, <4>2
      <4> QED
        BY <3>1, <3>3, <4>1, <4>3 DEF HoldsClaim
    <3> QED
      BY <3>2, <3>3
  <2> QED
    BY <2>1, <2>2
<1>7. \A t, u \in Operators : t # u => submits'[t].current \intersect submits'[u].current = {}
  <2>1. \A t \in Operators \ {s} : submits'[t].current \subseteq Elsewhere(s)
    BY <1>3 DEF Elsewhere
  <2> QED
    BY <1>3, <1>5, <2>1 DEF ClaimsInv
<1>8. \A d \in Defects : claims'[d] = 0 => \E t \in Operators : d \in submits'[t].current
  <2> SUFFICES ASSUME NEW d \in Defects, claims'[d] = 0 PROVE \E t \in Operators : d \in submits'[t].current
    OBVIOUS
  <2>1. d \in T \/ d \in Elsewhere(s)
    BY <1>4
  <2> QED
    BY <1>3, <2>1 DEF Elsewhere
<1> QED
  BY <1>3, <1>4, <1>6, <1>7, <1>8 DEF ClaimsInv

\* A submit that works on d holds its claim, and nobody else does.
LEMMA ClaimAlone ==
  ASSUME ClaimsInv, NEW s \in Operators
  PROVE  /\ \A d \in Defects : claims[d] = 0 <=> d \in Elsewhere(s) \union submits[s].current
         /\ submits[s].current \intersect Elsewhere(s) = {}
         /\ submits[s].at = "idle" => submits[s].current = {}
         /\ submits[s].at # "idle" => \E d \in Defects : submits[s].current = {d}
         /\ submits[s].at = "create" => \A d \in submits[s].current : OpenIssues(d) = {}
<1>1. \A t \in Operators : HoldsClaim(t)
  BY DEF ClaimsInv
<1>2. \A t \in Operators : \A d \in submits[t].current : claims[d] = 0
  BY <1>1 DEF HoldsClaim
<1>3. \A d \in Defects : claims[d] = 0 => d \in Elsewhere(s) \union submits[s].current
  BY DEF ClaimsInv, Elsewhere
<1>4. submits[s].current \intersect Elsewhere(s) = {}
  BY DEF ClaimsInv, Elsewhere
<1>5. \A d \in Elsewhere(s) \union submits[s].current : claims[d] = 0
  BY <1>2 DEF Elsewhere
<1> QED
  BY <1>1, <1>3, <1>4, <1>5 DEF HoldsClaim

\* The loop of the form takes up the next finding whose claim is free, or ends.
LEMMA GoesOnKeeps ==
  ASSUME ClaimsInv, NEW s \in Operators, NEW c \in [Defects -> Int], NEW S \in SUBSET Defects,
         \A d \in Defects : c[d] = 0 <=> d \in Elsewhere(s),
         issues' \in Issues, \A d \in Defects : AtMostOne(d)',
         \A d \in Elsewhere(s) : OpenIssues(d)' \subseteq OpenIssues(d),
         \/ SubmitGoesOn(s, c, S)
         \/ claims' = c /\ submits' = [submits EXCEPT ![s] = NoSubmit]
  PROVE  ClaimsInv'
<1>1. CASE claims' = c /\ submits' = [submits EXCEPT ![s] = NoSubmit]
  <2>1. c = [d \in Defects |-> IF d \in {} THEN 0 ELSE c[d]]
    OBVIOUS
  <2>2. \E T \in SUBSET Defects : T = {}
    OBVIOUS
  <2> QED
    BY <1>1, <2>1, <2>2, SubmitMoves
<1>2. ASSUME NEW d \in {e \in S : c[e] = -1}, claims' = [c EXCEPT ![d] = 0],
             submits' = [submits EXCEPT ![s] = [at |-> "list", left |-> S \ {d}, current |-> {d}]]
      PROVE  ClaimsInv'
  <2>1. PICK T \in SUBSET Defects : T = {d}
    BY <1>2
  <2>2. claims' = [e \in Defects |-> IF e \in T THEN 0 ELSE c[e]]
    BY <1>2, <2>1
  <2>3. T # {} /\ S \ {d} \in SUBSET Defects /\ (\E e \in Defects : T = {e} /\ c[e] = -1)
    BY <1>2, <2>1
  <2>4. submits' = [submits EXCEPT ![s] = IF T = {} THEN NoSubmit ELSE [at |-> "list", left |-> S \ {d}, current |-> T]]
    BY <1>2, <2>1, <2>3
  <2> QED
    BY <2>2, <2>3, <2>4, SubmitMoves
<1> QED
  BY <1>1, <1>2 DEF SubmitGoesOn

\* A failed call: whatever the forge made of it, the claim is given up.
LEMMA FailsKeeps ==
  ASSUME ClaimsInv, NEW s \in Operators, NEW d \in Defects, submits[s].current = {d}, SubmitFails(s, d),
         issues' \in Issues, \A e \in Defects : AtMostOne(e)',
         \A e \in Elsewhere(s) : OpenIssues(e)' \subseteq OpenIssues(e)
  PROVE  ClaimsInv'
<1> DEFINE released == IF claims[d] = 0 THEN [claims EXCEPT ![d] = -1] ELSE claims
<1>1. released \in [Defects -> Int] /\ submits[s].left \in SUBSET Defects
  BY DEF ClaimsInv, Submit
<1>2. \A e \in Defects : released[e] = 0 <=> e \in Elsewhere(s)
  BY ClaimAlone DEF ClaimsInv
<1>3. \/ SubmitGoesOn(s, released, submits[s].left)
      \/ claims' = released /\ submits' = [submits EXCEPT ![s] = NoSubmit]
  BY DEF SubmitFails
<1> HIDE DEF released
<1> QED
  BY <1>1, <1>2, <1>3, GoesOnKeeps

\* Appending an issue opens one where none was.
LEMMA IssueAppended ==
  ASSUME issues \in Issues, NEW d \in Defects, OpenIssues(d) = {}, \A e \in Defects : AtMostOne(e),
         issues' = [issues EXCEPT ![d] = Append(@, "open")]
  PROVE  /\ issues' \in Issues /\ \A e \in Defects : AtMostOne(e)'
         /\ \A e \in Defects \ {d} : OpenIssues(e)' = OpenIssues(e)
<1> DEFINE L == issues[d]
<1>1. L \in Seq({"open", "closed"}) /\ "open" \in {"open", "closed"}
  BY DEF Issues
<1>2. PICK n \in Nat : n = Len(L) + 1 /\ DOMAIN L = 1..Len(L) /\ Len(L) \in Nat
  BY <1>1
<1>3. /\ Append(L, "open") \in Seq({"open", "closed"}) /\ DOMAIN Append(L, "open") = 1..n
      /\ \A i \in 1..Len(L) : Append(L, "open")[i] = L[i]
  BY <1>1, <1>2, AppendProperties
<1>4. issues' \in Issues /\ issues'[d] = Append(L, "open") /\ \A e \in Defects \ {d} : issues'[e] = issues[e]
  BY <1>3 DEF Issues
<1>5. \A e \in Defects \ {d} : OpenIssues(e)' = OpenIssues(e)
  BY <1>4 DEF OpenIssues
<1>6. \A i \in OpenIssues(d)' : i = n
  <2>1. \A i \in DOMAIN L : L[i] # "open"
    BY DEF OpenIssues
  <2> QED
    BY <1>2, <1>3, <1>4, <2>1 DEF OpenIssues
<1> QED
  BY <1>4, <1>5, <1>6 DEF AtMostOne

\* Closing an issue opens none.
LEMMA IssueClosed ==
  ASSUME issues \in Issues, NEW d, NEW i, \A e \in Defects : AtMostOne(e),
         issues' = [issues EXCEPT ![d][i] = "closed"]
  PROVE  /\ issues' \in Issues /\ \A e \in Defects : AtMostOne(e)'
         /\ \A e \in Defects : OpenIssues(e)' \subseteq OpenIssues(e)
<1>1. issues' = [issues EXCEPT ![d] = [issues[d] EXCEPT ![i] = "closed"]]
  OBVIOUS
<1>2. d \in Defects => [issues[d] EXCEPT ![i] = "closed"] \in Seq({"open", "closed"})
  <2> SUFFICES ASSUME d \in Defects PROVE [issues[d] EXCEPT ![i] = "closed"] \in Seq({"open", "closed"})
    OBVIOUS
  <2>1. issues[d] \in Seq({"open", "closed"})
    BY DEF Issues
  <2>2. /\ issues[d] \in [1..Len(issues[d]) -> {"open", "closed"}] /\ Len(issues[d]) \in Nat
    BY <2>1
  <2>3. [issues[d] EXCEPT ![i] = "closed"] \in [1..Len(issues[d]) -> {"open", "closed"}]
    BY <2>2
  <2> QED
    BY <2>2, <2>3, SeqDef
<1>3. /\ issues' \in Issues
      /\ \A e \in Defects : DOMAIN issues'[e] = DOMAIN issues[e]
                            /\ \A k \in DOMAIN issues[e] : issues'[e][k] = "open" => issues[e][k] = "open"
  BY <1>1, <1>2 DEF Issues
<1>4. \A e \in Defects : OpenIssues(e)' \subseteq OpenIssues(e)
  BY <1>3 DEF OpenIssues
<1> QED
  BY <1>3, <1>4 DEF AtMostOne

\* A step that opens nothing and leaves claims and submits alone.
LEMMA IssuesOnly ==
  ASSUME ClaimsInv, UNCHANGED <<claims, submits>>, issues' \in Issues, \A d \in Defects : AtMostOne(d)',
         \A d \in Defects : OpenIssues(d)' \subseteq OpenIssues(d)
  PROVE  ClaimsInv'
<1>1. \A s \in Operators : HoldsClaim(s)'
  BY DEF ClaimsInv, HoldsClaim
<1> QED
  BY <1>1 DEF ClaimsInv

\* The steps of the form: POST /scan/issues.
LEMMA SubmitSteps ==
  ASSUME ClaimsInv, NEW s \in Operators, SubmitLists(s) \/ SubmitCreates(s) \/ \E k \in 1..MaxScans : SubmitStarts(s, k)
  PROVE  ClaimsInv'
<1> DEFINE Rest == submits[s].left
<1>1. /\ issues \in Issues /\ claims \in [Defects -> Int] /\ submits \in [Operators -> Submit]
      /\ \A d \in Defects : AtMostOne(d)
      /\ Rest \in SUBSET Defects /\ submits[s].current \in SUBSET Defects
  BY DEF ClaimsInv, Submit
<1>2. UNCHANGED issues => /\ issues' \in Issues /\ \A d \in Defects : AtMostOne(d)'
                          /\ \A d \in Defects : OpenIssues(d)' = OpenIssues(d)
  BY <1>1 DEF AtMostOne, OpenIssues
<1>3. Elsewhere(s) \subseteq Defects
  BY <1>1 DEF Elsewhere, Submit
<1>4. ASSUME NEW d \in submits[s].current, NEW n \in Int, n # 0, submits[s].at # "idle",
             SubmitGoesOn(s, [claims EXCEPT ![d] = n], Rest),
             issues' \in Issues, \A e \in Defects : AtMostOne(e)',
             \A e \in Elsewhere(s) : OpenIssues(e)' \subseteq OpenIssues(e)
      PROVE  ClaimsInv'
  <2> DEFINE c == [claims EXCEPT ![d] = n]
  <2>1. submits[s].current = {d}
    BY <1>4, ClaimAlone
  <2>2. c \in [Defects -> Int] /\ \A e \in Defects : c[e] = 0 <=> e \in Elsewhere(s)
    BY <1>1, <1>4, <2>1, ClaimAlone
  <2> HIDE DEF c
  <2>3. SubmitGoesOn(s, c, Rest)
    BY <1>4 DEF c
  <2> QED
    BY <1>1, <1>4, <2>2, <2>3, GoesOnKeeps
<1>5. CASE SubmitLists(s)
  <2>1. PICK d \in submits[s].current :
          \/ UNCHANGED issues /\ \E i \in OpenIssues(d) : SubmitGoesOn(s, [claims EXCEPT ![d] = i], Rest)
          \/ UNCHANGED <<issues, claims>> /\ OpenIssues(d) = {} /\ submits' = [submits EXCEPT ![s].at = "create"]
          \/ UNCHANGED issues /\ SubmitFails(s, d)
    BY <1>5 DEF SubmitLists
  <2>2. submits[s].at # "idle" /\ UNCHANGED issues /\ submits[s].current = {d} /\ d \in Defects
    BY <1>1, <1>5, <2>1, ClaimAlone DEF SubmitLists
  <2>3. ASSUME NEW i \in OpenIssues(d), SubmitGoesOn(s, [claims EXCEPT ![d] = i], Rest) PROVE ClaimsInv'
    <3>1. i \in Int /\ i # 0
      <4>1. issues[d] \in Seq({"open", "closed"}) /\ i \in DOMAIN issues[d]
        BY <1>1, <2>2 DEF Issues, OpenIssues
      <4> QED
        BY <4>1
    <3> QED
      BY <1>2, <1>3, <1>4, <2>2, <2>3, <3>1
  <2>4. CASE UNCHANGED claims /\ OpenIssues(d) = {} /\ submits' = [submits EXCEPT ![s].at = "create"]
    <3>1. /\ submits' = [submits EXCEPT ![s] = [submits[s] EXCEPT !.at = "create"]]
          /\ submits[s] \in Submit
      BY <1>1, <2>4
    <3>2. /\ [submits[s] EXCEPT !.at = "create"] \in Submit
          /\ [submits[s] EXCEPT !.at = "create"].at = "create"
          /\ [submits[s] EXCEPT !.at = "create"].current = submits[s].current
      BY <3>1 DEF Submit
    <3>3. /\ submits' \in [Operators -> Submit] /\ submits'[s].at = "create"
          /\ submits'[s].current = submits[s].current
          /\ \A t \in Operators \ {s} : submits'[t] = submits[t]
      BY <1>1, <3>1, <3>2
    <3>4. claims[d] = 0 /\ OpenIssues(d)' = {}
      BY <1>2, <2>2, <2>4, ClaimAlone
    <3>5. HoldsClaim(s)'
      BY <2>2, <2>4, <3>3, <3>4 DEF HoldsClaim
    <3>6. ASSUME NEW t \in Operators \ {s} PROVE HoldsClaim(t)'
      <4>1. HoldsClaim(t) /\ submits'[t] = submits[t] /\ claims' = claims /\ \A e \in Defects : OpenIssues(e)' = OpenIssues(e)
        BY <1>2, <2>2, <2>4, <3>3 DEF ClaimsInv
      <4> QED
        BY <4>1 DEF HoldsClaim
    <3>7. \A t \in Operators : submits'[t].current = submits[t].current
      BY <3>3
    <3> QED
      BY <1>2, <2>2, <2>4, <3>3, <3>5, <3>6, <3>7 DEF ClaimsInv
  <2>5. CASE SubmitFails(s, d)
    BY <1>2, <1>3, <2>2, <2>5, FailsKeeps
  <2> QED
    BY <2>1, <2>3, <2>4, <2>5
<1>6. CASE SubmitCreates(s)
  <2>1. PICK d \in submits[s].current :
          LET grown == [issues EXCEPT ![d] = Append(@, "open")]
          IN  \/ issues' = grown /\ SubmitGoesOn(s, [claims EXCEPT ![d] = Len(issues[d]) + 1], Rest)
              \/ issues' \in {issues, grown} /\ SubmitFails(s, d)
    BY <1>6 DEF SubmitCreates
  <2>2. submits[s].at = "create" /\ submits[s].current = {d} /\ d \in Defects /\ OpenIssues(d) = {} /\ d \notin Elsewhere(s)
    BY <1>1, <1>6, <2>1, ClaimAlone DEF SubmitCreates
  <2>3. /\ issues' \in Issues /\ \A e \in Defects : AtMostOne(e)'
        /\ \A e \in Elsewhere(s) : OpenIssues(e)' \subseteq OpenIssues(e)
    <3>1. CASE UNCHANGED issues
      BY <1>2, <1>3, <3>1
    <3>2. CASE issues' = [issues EXCEPT ![d] = Append(@, "open")]
      BY <1>1, <1>3, <2>2, <3>2, IssueAppended
    <3> QED
      BY <2>1, <3>1, <3>2
  <2>4. Len(issues[d]) + 1 \in Int /\ Len(issues[d]) + 1 # 0
    <3>1. issues[d] \in Seq({"open", "closed"})
      BY <1>1, <2>2 DEF Issues
    <3>2. Len(issues[d]) \in Nat
      BY <3>1
    <3> QED
      BY <3>2
  <2>5. CASE SubmitGoesOn(s, [claims EXCEPT ![d] = Len(issues[d]) + 1], Rest)
    BY <1>4, <2>2, <2>3, <2>4, <2>5
  <2>6. CASE SubmitFails(s, d)
    BY <2>2, <2>3, <2>6, FailsKeeps
  <2> QED
    BY <2>1, <2>5, <2>6
<1>7. ASSUME NEW k \in 1..MaxScans, SubmitStarts(s, k) PROVE ClaimsInv'
  <2>1. PICK S \in SUBSET Defects : SubmitGoesOn(s, claims, S)
    BY <1>7, ScanAssumption DEF SubmitStarts
  <2>2. submits[s].at = "idle" /\ UNCHANGED issues
    BY <1>7 DEF SubmitStarts
  <2>3. \A d \in Defects : claims[d] = 0 <=> d \in Elsewhere(s)
    BY <2>2, ClaimAlone
  <2> QED
    BY <1>1, <1>2, <1>3, <2>1, <2>2, <2>3, GoesOnKeeps
<1> QED
  BY <1>5, <1>6, <1>7

\* The process dies: nobody works on anything, and no claim is left; one create
\* in flight may have landed.
LEMMA DeathKeeps ==
  ASSUME ClaimsInv, ScanServiceDies
  PROVE  ClaimsInv'
<1>1. issues \in Issues /\ claims \in [Defects -> Int] /\ submits \in [Operators -> Submit] /\ \A d \in Defects : AtMostOne(d)
  BY DEF ClaimsInv
<1>2. /\ submits' = [s \in Operators |-> NoSubmit]
      /\ claims' = [d \in Defects |-> IF claims[d] = 0 THEN -1 ELSE claims[d]]
  BY DEF ScanServiceDies
<1>3. issues' \in Issues /\ \A d \in Defects : AtMostOne(d)'
  <2>1. CASE UNCHANGED issues
    BY <1>1, <2>1 DEF AtMostOne, OpenIssues
  <2>2. ASSUME NEW s \in Operators, submits[s].at = "create", NEW d \in submits[s].current,
               issues' = [issues EXCEPT ![d] = Append(@, "open")]
        PROVE  issues' \in Issues /\ \A e \in Defects : AtMostOne(e)'
    <3>1. d \in Defects /\ OpenIssues(d) = {}
      BY <1>1, <2>2, ClaimAlone DEF Submit
    <3> QED
      BY <1>1, <2>2, <3>1, IssueAppended
  <2> QED
    BY <2>1, <2>2 DEF ScanServiceDies
<1>4. /\ claims' \in [Defects -> Int] /\ \A d \in Defects : claims'[d] # 0
      /\ submits' \in [Operators -> Submit] /\ \A s \in Operators : submits'[s].at = "idle" /\ submits'[s].current = {}
  BY <1>1, <1>2 DEF NoSubmit, Submit
<1> QED
  BY <1>3, <1>4 DEF ClaimsInv, HoldsClaim

\* The steps of the scan and of people: issues close, and nothing else changes.
LEMMA ScanSteps ==
  ASSUME ClaimsInv,
         \/ ScanStarts \/ ScanAggregates \/ ScanVerifies \/ ScanReadsIssue \/ ScanClosesIssue
         \/ \E d \in Defects : IssueClosedByHand(d)
  PROVE  ClaimsInv'
<1>1. issues \in Issues /\ \A d \in Defects : AtMostOne(d)
  BY DEF ClaimsInv
<1>2. CASE UNCHANGED <<claims, submits, issues>>
  BY <1>1, <1>2, IssuesOnly DEF AtMostOne, OpenIssues
<1>3. ASSUME UNCHANGED <<claims, submits>>, NEW d, NEW i, issues' = [issues EXCEPT ![d][i] = "closed"] PROVE ClaimsInv'
  BY <1>1, <1>3, IssueClosed, IssuesOnly
<1>4. CASE ScanStarts \/ ScanAggregates \/ ScanVerifies \/ ScanReadsIssue
  <2>1. UNCHANGED <<claims, submits, issues>>
    BY <1>4 DEF ScanStarts, ScanAggregates, ScanVerifies, ScanReadsIssue
  <2> QED
    BY <1>2, <2>1
<1>5. CASE ScanClosesIssue
  <2>1. PICK d \in scan.current : issues' = issues \/ issues' = [issues EXCEPT ![d][claims[d]] = "closed"]
    BY <1>5 DEF ScanClosesIssue
  <2>2. UNCHANGED <<claims, submits>>
    BY <1>5 DEF ScanClosesIssue
  <2> QED
    BY <1>2, <1>3, <2>1, <2>2
<1>6. ASSUME NEW d \in Defects, IssueClosedByHand(d) PROVE ClaimsInv'
  BY <1>3, <1>6 DEF IssueClosedByHand
<1> QED
  BY <1>4, <1>5, <1>6

\* A claim is held by the one submit that works on it, always (claimScanIssue,
\* releaseScanIssue, clearOrphanedScanIssueClaims).
THEOREM ClaimsHeld == ScanIssuesSpec => []ClaimsInv
<1>1. ClaimsInv /\ ScanIssuesNext => ClaimsInv'
  BY SubmitSteps, DeathKeeps, ScanSteps DEF ScanIssuesNext
<1>2. ClaimsInv /\ UNCHANGED scanVars => ClaimsInv'
  BY DEF scanVars, ClaimsInv, HoldsClaim, AtMostOne, OpenIssues
<1> QED
  BY <1>1, <1>2, ClaimsStart, PTL DEF ScanIssuesSpec

\* At most one open issue per finding, and no claim is left behind, whatever
\* fails, races or dies (POST /scan/issues).
THEOREM OneIssueEver == ScanIssuesSpec => []OneIssuePerFinding
<1>1. ASSUME ClaimsInv PROVE OneIssuePerFinding
  <2>1. ASSUME NEW d \in Defects PROVE Cardinality(OpenIssues(d)) <= 1
    <3>1. CASE OpenIssues(d) = {}
      BY <3>1, FS_EmptySet
    <3>2. ASSUME NEW i \in OpenIssues(d) PROVE Cardinality(OpenIssues(d)) <= 1
      <4>1. OpenIssues(d) = {i}
        BY <1>1 DEF ClaimsInv, AtMostOne
      <4> QED
        BY <4>1, FS_Singleton
    <3> QED
      BY <3>1, <3>2
  <2> QED
    BY <1>1, <2>1 DEF OneIssuePerFinding, ClaimsInv
<1> QED
  BY <1>1, ClaimsHeld, PTL

-----------------------------------------------------------------------------
(* The links from findings to issues *)

ScanRow  == [status : {"none", "open", "still_valid", "uncertain", "resolved"}, job : Nat]
ScanRun  == [at : {"idle", "review", "verifier", "issue", "closing"}, found : SUBSET Defects,
             items : [Defects -> {"none", "resolved", "verify"}], left : SUBSET Defects, current : SUBSET Defects,
             failed : SUBSET Defects]

\* A row names a scan that was, a link an issue that is there, and what a scan is
\* about to close is linked.
LinksInv ==
  /\ scans \in Nat /\ scan \in ScanRun /\ scanRows \in [Defects -> ScanRow]
  /\ \A d \in Defects : scanRows[d].job <= scans /\ claims[d] \in {-1} \union 0..Len(issues[d])
  /\ scan.at \in {"issue", "closing"} => \A d \in scan.current : claims[d] > 0

\* A step that writes no row, keeps every link and lets issues only grow.
LEMMA LinksStay ==
  ASSUME ClaimsInv, LinksInv, issues' \in Issues, UNCHANGED <<scanRows, scans>>, scan' = scan \/ scan' = NoScan,
         \A d \in Defects : /\ Len(issues[d]) <= Len(issues'[d])
                            /\ claims[d] > 0 => claims'[d] = claims[d]
                            /\ claims'[d] \in {-1} \union 0..Len(issues'[d])
  PROVE  LinksInv'
<1>1. NoScan \in ScanRun /\ NoScan.at = "idle"
  BY DEF NoScan, ScanRun
<1>2. \A d \in scan.current : d \in Defects
  BY DEF LinksInv, ScanRun
<1> QED
  BY <1>1, <1>2 DEF LinksInv

\* A step of the scan: a row it writes names a scan that was.
LEMMA ScanKeepsLinks ==
  ASSUME ClaimsInv, LinksInv, issues' \in Issues, UNCHANGED claims, scan' \in ScanRun, scans' \in Nat, scans <= scans',
         \A d \in Defects : Len(issues'[d]) = Len(issues[d]),
         scanRows' \in [Defects -> ScanRow], \A d \in Defects : scanRows'[d].job <= scans',
         scan'.at \in {"issue", "closing"} => \A d \in scan'.current : claims[d] > 0
  PROVE  LinksInv'
BY DEF LinksInv

\* The loop of closeResolvedScanIssues takes up linked findings only.
LEMMA ClosingLinks ==
  ASSUME ClaimsInv, LinksInv, issues' \in Issues, UNCHANGED <<claims, scans>>,
         \A d \in Defects : Len(issues'[d]) = Len(issues[d]),
         NEW S \in SUBSET Defects, NEW F \in SUBSET Defects, NEW rows \in [Defects -> ScanRow],
         \A d \in Defects : rows[d].job <= scans,
         ClosingGoesOn(S, F, rows)
  PROVE  LinksInv'
<1>1. scan \in ScanRun /\ scans \in Nat
  BY DEF LinksInv
<1>2. ASSUME NEW d \in S, claims[d] > 0, scanRows' = rows,
             scan' = [scan EXCEPT !.at = "issue", !.left = S \ {d}, !.current = {d}, !.failed = F]
      PROVE  LinksInv'
  <2>1. scan' \in ScanRun /\ scan'.current = {d}
    BY <1>1, <1>2 DEF ScanRun
  <2> QED
    BY <1>1, <1>2, <2>1, ScanKeepsLinks
<1>3. CASE scan' = NoScan /\ scanRows' = [d \in Defects |-> IF d \in F THEN [rows[d] EXCEPT !.status = "uncertain"] ELSE rows[d]]
  <2>1. NoScan \in ScanRun /\ NoScan.at = "idle"
    BY DEF NoScan, ScanRun
  <2>2. scanRows' \in [Defects -> ScanRow] /\ \A d \in Defects : scanRows'[d].job <= scans
    BY <1>1, <1>3 DEF ScanRow
  <2> QED
    BY <1>1, <1>3, <2>1, <2>2, ScanKeepsLinks
<1> QED
  BY <1>2, <1>3 DEF ClosingGoesOn

\* Closing an issue takes none away.
LEMMA ClosedAsLong ==
  ASSUME issues \in Issues, NEW d, NEW i, issues' = [issues EXCEPT ![d][i] = "closed"]
  PROVE  issues' \in Issues /\ \A e \in Defects : Len(issues'[e]) = Len(issues[e])
<1>1. issues' = [issues EXCEPT ![d] = [issues[d] EXCEPT ![i] = "closed"]]
  OBVIOUS
<1>2. ASSUME d \in Defects
      PROVE  /\ [issues[d] EXCEPT ![i] = "closed"] \in Seq({"open", "closed"})
             /\ Len([issues[d] EXCEPT ![i] = "closed"]) = Len(issues[d])
  <2>1. issues[d] \in Seq({"open", "closed"})
    BY <1>2 DEF Issues
  <2>2. issues[d] \in [1..Len(issues[d]) -> {"open", "closed"}] /\ Len(issues[d]) \in Nat
    BY <2>1
  <2>3. [issues[d] EXCEPT ![i] = "closed"] \in [1..Len(issues[d]) -> {"open", "closed"}]
    BY <2>2
  <2> QED
    BY <2>2, <2>3, SeqDef
<1> QED
  BY <1>1, <1>2 DEF Issues

LEMMA ScanLinks ==
  ASSUME ClaimsInv, LinksInv, ScanStarts \/ ScanAggregates \/ ScanVerifies \/ ScanReadsIssue \/ ScanClosesIssue
  PROVE  LinksInv'
<1>1. /\ scan \in ScanRun /\ scans \in Nat /\ scanRows \in [Defects -> ScanRow] /\ issues \in Issues
      /\ \A d \in Defects : scanRows[d].job <= scans
  BY DEF LinksInv, ClaimsInv
<1>2. NoScan \in ScanRun /\ NoScan.at = "idle"
  BY DEF NoScan, ScanRun
<1>3. CASE ScanStarts
  <2>1. scan' \in ScanRun /\ scan'.at = "review" /\ UNCHANGED <<issues, claims, scanRows>> /\ scans' = scans + 1
    BY <1>2, <1>3 DEF ScanStarts, ScanRun
  <2>2. \A d \in Defects : scanRows'[d].job <= scans'
    BY <1>1, <2>1 DEF ScanRow
  <2> QED
    BY <1>1, <2>1, <2>2, ScanKeepsLinks
<1>4. CASE ScanAggregates
  <2>1. UNCHANGED <<issues, claims, scans>>
    BY <1>4 DEF ScanAggregates
  <2>2. CASE UNCHANGED scanRows /\ scan' = NoScan
    BY <1>1, <1>2, <2>1, <2>2, ScanKeepsLinks
  <2>3. ASSUME NEW found \in SUBSET Defects, NEW items \in [Defects -> {"none", "resolved", "verify"}],
               scanRows' = [d \in Defects |-> IF d \in found THEN [status |-> "open", job |-> scans] ELSE scanRows[d]],
               scan' = [scan EXCEPT !.at = "verifier", !.found = found, !.items = items]
        PROVE  LinksInv'
    <3>1. scanRows' \in [Defects -> ScanRow] /\ \A d \in Defects : scanRows'[d].job <= scans
      BY <1>1, <2>3 DEF ScanRow
    <3>2. scan' \in ScanRun /\ scan'.at = "verifier"
      BY <1>1, <2>3 DEF ScanRun
    <3> QED
      BY <1>1, <2>1, <3>1, <3>2, ScanKeepsLinks
  <2> DEFINE Rows(found) == [d \in Defects |-> IF d \in found THEN [status |-> "open", job |-> scans] ELSE scanRows[d]]
             Items(found) == [d \in Defects |-> IF d \in found \/ Rows(found)[d].status = "none" THEN "none"
                                                ELSE IF Rows(found)[d].status = "resolved" THEN "resolved" ELSE "verify"]
  <2>4. ASSUME NEW found \in SUBSET Defects PROVE Items(found) \in [Defects -> {"none", "resolved", "verify"}]
    OBVIOUS
  <2>5. \/ UNCHANGED scanRows /\ scan' = NoScan
        \/ \E found \in SUBSET Defects :
             /\ scanRows' = Rows(found)
             /\ scan' = [scan EXCEPT !.at = "verifier", !.found = found, !.items = Items(found)]
    BY <1>4 DEF ScanAggregates, ScanUnwinds
  <2> HIDE DEF Items
  <2>6. CASE \E found \in SUBSET Defects :
             /\ scanRows' = Rows(found)
             /\ scan' = [scan EXCEPT !.at = "verifier", !.found = found, !.items = Items(found)]
    BY <2>3, <2>4, <2>6
  <2> QED
    BY <2>2, <2>5, <2>6
<1>5. CASE ScanVerifies
  <2>1. UNCHANGED <<issues, claims, scans>>
    BY <1>5 DEF ScanVerifies
  <2>2. CASE UNCHANGED scanRows /\ scan' = NoScan
    BY <1>1, <1>2, <2>1, <2>2, ScanKeepsLinks
  <2>3. ASSUME NEW v \in [{d \in Defects : scan.items[d] = "verify"} -> {"resolved", "still_valid", "uncertain"}]
        PROVE  LET item(d) == IF d \in DOMAIN v THEN v[d] ELSE scan.items[d]
                   rows == [d \in Defects |-> IF item(d) = "none" THEN scanRows[d] ELSE [status |-> item(d), job |-> scans]]
               IN  rows \in [Defects -> ScanRow] /\ \A d \in Defects : rows[d].job <= scans
    <3>1. \A d \in Defects : scan.items[d] \in {"none", "resolved", "verify"}
      BY <1>1 DEF ScanRun
    <3> QED
      BY <1>1, <3>1 DEF ScanRow
  <2>4. ASSUME NEW S \in SUBSET Defects, NEW rows \in [Defects -> ScanRow], \A d \in Defects : rows[d].job <= scans,
               ClosingGoesOn(S, {}, rows)
        PROVE  LinksInv'
    BY <1>1, <2>1, <2>4, ClosingLinks
  <2> QED
    BY <1>5, <2>2, <2>3, <2>4 DEF ScanVerifies, ScanUnwinds
<1>6. CASE ScanReadsIssue
  <2>1. UNCHANGED <<issues, claims, scans>> /\ scan.at = "issue"
    BY <1>6 DEF ScanReadsIssue
  <2>2. CASE scan' = [scan EXCEPT !.at = "closing"] /\ UNCHANGED scanRows
    <3>1. scan' \in ScanRun /\ scan'.current = scan.current
      BY <1>1, <2>2 DEF ScanRun
    <3>2. \A d \in scan.current : claims[d] > 0
      BY <2>1 DEF LinksInv
    <3> QED
      BY <1>1, <2>1, <2>2, <3>1, <3>2, ScanKeepsLinks
  <2>3. ASSUME NEW F \in SUBSET Defects, ClosingGoesOn(scan.left, F, scanRows) PROVE LinksInv'
    <3>1. scan.left \in SUBSET Defects
      BY <1>1 DEF ScanRun
    <3> QED
      BY <1>1, <2>1, <2>3, <3>1, ClosingLinks
  <2>4. \A d \in scan.current : scan.failed \in SUBSET Defects /\ scan.failed \union {d} \in SUBSET Defects
    BY <1>1 DEF ScanRun
  <2> QED
    BY <1>6, <2>2, <2>3, <2>4 DEF ScanReadsIssue
<1>7. CASE ScanClosesIssue
  <2>1. UNCHANGED <<claims, scans>>
    BY <1>7 DEF ScanClosesIssue
  <2>2. PICK d \in scan.current : /\ issues' = issues \/ issues' = [issues EXCEPT ![d][claims[d]] = "closed"]
                                  /\ \/ ClosingGoesOn(scan.left, scan.failed, scanRows)
                                     \/ ClosingGoesOn(scan.left, scan.failed \union {d}, scanRows)
    BY <1>7 DEF ScanClosesIssue
  <2>3. scan.left \in SUBSET Defects /\ scan.failed \in SUBSET Defects /\ scan.failed \union {d} \in SUBSET Defects /\ d \in Defects
    BY <1>1 DEF ScanRun
  <2>4. issues' \in Issues /\ \A c \in Defects : Len(issues'[c]) = Len(issues[c])
    BY <1>1, <2>2, <2>3, ClosedAsLong
  <2> QED
    BY <1>1, <2>1, <2>2, <2>3, <2>4, ClosingLinks
<1> QED
  BY <1>3, <1>4, <1>5, <1>6, <1>7

\* The loop of the form claims only what has no row.
LEMMA GoesOnLinks ==
  ASSUME ClaimsInv, LinksInv, issues' \in Issues, UNCHANGED <<scanRows, scans, scan>>,
         NEW s, NEW S, NEW c \in [Defects -> Int],
         \A d \in Defects : /\ Len(issues[d]) <= Len(issues'[d])
                            /\ claims[d] > 0 => c[d] = claims[d]
                            /\ c[d] \in {-1} \union 0..Len(issues'[d]),
         SubmitGoesOn(s, c, S) \/ claims' = c
  PROVE  LinksInv'
<1>1. claims \in [Defects -> Int] /\ \A d \in Defects : issues'[d] \in Seq({"open", "closed"}) /\ Len(issues'[d]) \in Nat
  BY DEF ClaimsInv, Issues
<1>2. claims' = c \/ \E d \in {e \in S : c[e] = -1} : claims' = [c EXCEPT ![d] = 0]
  BY DEF SubmitGoesOn
<1>3. CASE claims' = c
  BY <1>3, LinksStay
<1>4. ASSUME NEW d, c[d] = -1, claims' = [c EXCEPT ![d] = 0] PROVE LinksInv'
  <2>1. \A e \in Defects : claims'[e] = c[e] \/ (c[e] = -1 /\ claims'[e] = 0)
    BY <1>4
  <2>2. \A e \in Defects : /\ claims[e] > 0 => claims'[e] = claims[e]
                           /\ claims'[e] \in {-1} \union 0..Len(issues'[e])
    BY <1>1, <2>1
  <2> QED
    BY <2>2, LinksStay
<1> QED
  BY <1>2, <1>3, <1>4

LEMMA SubmitLinks ==
  ASSUME ClaimsInv, LinksInv, NEW s \in Operators,
         SubmitLists(s) \/ SubmitCreates(s) \/ \E k \in 1..MaxScans : SubmitStarts(s, k)
  PROVE  LinksInv'
<1>1. /\ issues \in Issues /\ claims \in [Defects -> Int] /\ UNCHANGED <<scanRows, scans, scan>>
      /\ \A d \in Defects : Len(issues[d]) \in Nat /\ claims[d] \in {-1} \union 0..Len(issues[d])
  BY DEF LinksInv, ClaimsInv, Issues, SubmitLists, SubmitCreates, SubmitStarts
<1>2. CASE \E k \in 1..MaxScans : SubmitStarts(s, k)
  <2>1. PICK S : SubmitGoesOn(s, claims, S) /\ UNCHANGED issues
    BY <1>2 DEF SubmitStarts
  <2> QED
    BY <1>1, <2>1, GoesOnLinks
<1>3. ASSUME submits[s].at # "idle" PROVE \A d \in submits[s].current : d \in Defects /\ claims[d] = 0
  BY <1>3, ClaimAlone DEF ClaimsInv, HoldsClaim, Submit
<1>4. ASSUME NEW d \in Defects, claims[d] = 0, SubmitFails(s, d), issues' \in Issues,
             \A e \in Defects : Len(issues[e]) <= Len(issues'[e])
      PROVE  LinksInv'
  <2> DEFINE released == [claims EXCEPT ![d] = -1]
  <2>1. released \in [Defects -> Int] /\ released[d] = -1 /\ \A e \in Defects \ {d} : released[e] = claims[e]
    BY <1>1
  <2>2. SubmitGoesOn(s, released, submits[s].left) \/ claims' = released
    BY <1>4 DEF SubmitFails
  <2>3. \A e \in Defects : Len(issues'[e]) \in Nat
    BY <1>4 DEF Issues
  <2> HIDE DEF released
  <2>4. \A e \in Defects : /\ claims[e] > 0 => released[e] = claims[e]
                           /\ released[e] \in {-1} \union 0..Len(issues'[e])
    BY <1>1, <1>4, <2>1, <2>3
  <2> QED
    BY <1>1, <1>4, <2>1, <2>2, <2>4, GoesOnLinks
<1>5. ASSUME NEW d \in Defects, claims[d] = 0, issues' \in Issues, NEW i \in 1..Len(issues'[d]),
             \A e \in Defects : Len(issues[e]) <= Len(issues'[e]),
             SubmitGoesOn(s, [claims EXCEPT ![d] = i], submits[s].left)
      PROVE  LinksInv'
  <2> DEFINE linked == [claims EXCEPT ![d] = i]
  <2>1. linked \in [Defects -> Int] /\ linked[d] = i /\ \A e \in Defects \ {d} : linked[e] = claims[e]
    BY <1>1, <1>5
  <2>2. \A e \in Defects : Len(issues'[e]) \in Nat
    BY <1>5 DEF Issues
  <2>3. SubmitGoesOn(s, linked, submits[s].left)
    BY <1>5
  <2> HIDE DEF linked
  <2>4. \A e \in Defects : /\ claims[e] > 0 => linked[e] = claims[e]
                           /\ linked[e] \in {-1} \union 0..Len(issues'[e])
    BY <1>1, <1>5, <2>1, <2>2
  <2> QED
    BY <1>1, <1>5, <2>1, <2>3, <2>4, GoesOnLinks
<1>6. CASE SubmitLists(s)
  <2>1. PICK d \in submits[s].current :
          \/ \E i \in OpenIssues(d) : SubmitGoesOn(s, [claims EXCEPT ![d] = i], submits[s].left)
          \/ UNCHANGED claims
          \/ SubmitFails(s, d)
    BY <1>6 DEF SubmitLists
  <2>2. UNCHANGED issues /\ submits[s].at = "list"
    BY <1>6 DEF SubmitLists
  <2>3. d \in Defects /\ claims[d] = 0
    BY <1>3, <2>1, <2>2
  <2>4. \A i \in OpenIssues(d) : i \in 1..Len(issues'[d])
    BY <1>1, <2>2, <2>3 DEF OpenIssues, Issues
  <2>5. CASE UNCHANGED claims
    BY <1>1, <2>2, <2>5, LinksStay
  <2>6. CASE SubmitFails(s, d)
    BY <1>1, <1>4, <2>2, <2>3, <2>6
  <2>7. CASE \E i \in OpenIssues(d) : SubmitGoesOn(s, [claims EXCEPT ![d] = i], submits[s].left)
    <3>1. PICK i \in OpenIssues(d) : SubmitGoesOn(s, [claims EXCEPT ![d] = i], submits[s].left)
      BY <2>7
    <3>2. i \in 1..Len(issues'[d])
      BY <2>4, <3>1
    <3>3. issues' \in Issues /\ \A e \in Defects : Len(issues[e]) <= Len(issues'[e])
      BY <1>1, <2>2
    <3> QED
      BY <1>5, <2>3, <3>1, <3>2, <3>3
  <2> QED
    BY <2>1, <2>5, <2>6, <2>7
<1>7. CASE SubmitCreates(s)
  <2>1. PICK d \in submits[s].current :
          \/ /\ issues' = [issues EXCEPT ![d] = Append(@, "open")]
             /\ SubmitGoesOn(s, [claims EXCEPT ![d] = Len(issues[d]) + 1], submits[s].left)
          \/ issues' \in {issues, [issues EXCEPT ![d] = Append(@, "open")]} /\ SubmitFails(s, d)
    BY <1>7 DEF SubmitCreates
  <2>2. submits[s].at = "create"
    BY <1>7 DEF SubmitCreates
  <2>3. d \in Defects /\ claims[d] = 0
    BY <1>3, <2>1, <2>2
  <2>4. issues' = [issues EXCEPT ![d] = Append(@, "open")] =>
          /\ issues' \in Issues /\ Len(issues'[d]) = Len(issues[d]) + 1
          /\ \A e \in Defects \ {d} : issues'[e] = issues[e]
    BY <1>1, <2>3 DEF Issues
  <2>5. issues' \in Issues /\ \A e \in Defects : Len(issues[e]) <= Len(issues'[e])
    BY <1>1, <2>1, <2>4
  <2>6. CASE SubmitFails(s, d)
    BY <1>4, <2>3, <2>5, <2>6
  <2>7. CASE /\ issues' = [issues EXCEPT ![d] = Append(@, "open")]
             /\ SubmitGoesOn(s, [claims EXCEPT ![d] = Len(issues[d]) + 1], submits[s].left)
    <3>1. Len(issues[d]) + 1 \in 1..Len(issues'[d])
      BY <1>1, <2>3, <2>4, <2>7
    <3> QED
      BY <1>5, <2>3, <2>5, <2>7, <3>1
  <2> QED
    BY <2>1, <2>6, <2>7
<1> QED
  BY <1>2, <1>6, <1>7

\* People close issues, and a death may leave one more.
LEMMA OthersKeepLinks ==
  ASSUME ClaimsInv, LinksInv, ScanServiceDies \/ \E d \in Defects : IssueClosedByHand(d)
  PROVE  LinksInv'
<1>1. /\ issues \in Issues /\ claims \in [Defects -> Int] /\ UNCHANGED <<scanRows, scans>>
      /\ \A d \in Defects : Len(issues[d]) \in Nat /\ claims[d] \in {-1} \union 0..Len(issues[d])
  BY DEF LinksInv, ClaimsInv, Issues, ScanServiceDies, IssueClosedByHand
<1>2. ASSUME NEW d \in Defects, IssueClosedByHand(d) PROVE LinksInv'
  <2>1. PICK i : issues' = [issues EXCEPT ![d][i] = "closed"]
    BY <1>2 DEF IssueClosedByHand
  <2>2. issues' \in Issues /\ \A e \in Defects : Len(issues'[e]) = Len(issues[e])
    BY <1>1, <2>1, ClosedAsLong
  <2>3. UNCHANGED <<claims, scan>>
    BY <1>2 DEF IssueClosedByHand
  <2> QED
    BY <1>1, <2>2, <2>3, LinksStay
<1>3. CASE ScanServiceDies
  <2>1. issues' = issues \/ \E d \in Defects : issues' = [issues EXCEPT ![d] = Append(@, "open")]
    <3>1. \A s \in Operators : submits[s].current \subseteq Defects
      BY DEF ClaimsInv, Submit
    <3> QED
      BY <1>3, <3>1 DEF ScanServiceDies
  <2>2. \A d \in Defects : issues' = [issues EXCEPT ![d] = Append(@, "open")] =>
          issues' \in Issues /\ \A e \in Defects : Len(issues[e]) <= Len(issues'[e])
    BY <1>1 DEF Issues
  <2>3. issues' \in Issues /\ \A e \in Defects : Len(issues[e]) <= Len(issues'[e]) /\ Len(issues'[e]) \in Nat
    BY <1>1, <2>1, <2>2 DEF Issues
  <2>4. scan' = NoScan /\ \A e \in Defects : claims'[e] = IF claims[e] = 0 THEN -1 ELSE claims[e]
    BY <1>3 DEF ScanServiceDies
  <2>5. \A e \in Defects : /\ claims[e] > 0 => claims'[e] = claims[e]
                           /\ claims'[e] \in {-1} \union 0..Len(issues'[e])
    BY <1>1, <2>3, <2>4
  <2> QED
    BY <1>1, <2>3, <2>4, <2>5, LinksStay
<1> QED
  BY <1>2, <1>3

\* A scan closes only issues that the forge gave it, and every link names one.
THEOREM ScanIssuesWellTyped == ScanIssuesSpec => []ScanIssuesTypeOK
<1>1. ScanIssuesInit => LinksInv
  BY DEF ScanIssuesInit, LinksInv, NoScan, ScanRun, ScanRow
<1>2. ClaimsInv /\ LinksInv /\ [ScanIssuesNext]_scanVars => LinksInv'
  <2>1. LinksInv /\ UNCHANGED scanVars => LinksInv'
    BY DEF scanVars, LinksInv
  <2>2. ClaimsInv /\ LinksInv /\ ScanIssuesNext => LinksInv'
    BY ScanLinks, SubmitLinks, OthersKeepLinks DEF ScanIssuesNext
  <2> QED
    BY <2>1, <2>2
<1>3. ClaimsInv /\ LinksInv => ScanIssuesTypeOK
  BY DEF LinksInv, ScanIssuesTypeOK, ScanRow
<1> QED
  BY <1>1, <1>2, <1>3, ClaimsHeld, PTL DEF ScanIssuesSpec
=============================================================================

-------------------------------- MODULE Prompts --------------------------------
(***************************************************************************)
(* Specialist prompts: the revisions and evaluations of prompt-revisions.ts, *)
(* the forms of server.ts in which operators edit a draft, and the reviewer  *)
(* rows whose runs read the active revision of their role and are stamped    *)
(* with it (runReviewer).                                                    *)
(***************************************************************************)
EXTENDS Integers, FiniteSets, Sequences

CONSTANTS RoleOf,      \* the role of each reviewer row
          Editors,     \* operators with a form open
          Bodies,      \* bound: the texts operators write, naturals from 1
          MaxPrompts,  \* bound: revisions
          MaxSaves,    \* bound: saves of a draft
          MaxPromptRuns, \* bound: runs of a reviewer row
          MaxEvals     \* bound: evaluations

PromptRoles  == {RoleOf[i] : i \in DOMAIN RoleOf}
ReviewerRows == DOMAIN RoleOf

ASSUME PromptAssumption ==
  Bodies \subseteq Nat \ {0} /\ {MaxPrompts, MaxSaves, MaxPromptRuns, MaxEvals} \subseteq Nat

VARIABLES
  prompts,   \* SQLite: prompt_revisions by id
  forms,     \* browser: the draft each operator has open, as it was read
  reviewers, \* SQLite and memory: reviewer_runs: state, prompt_revision_id, and what the run reads
  evals,     \* SQLite: prompt_evaluations, with those that run
  clobbered  \* history: a save replaced a text its operator had not read

promptVars == <<prompts, forms, reviewers, evals, clobbered>>

PromptIds == DOMAIN prompts
NoForm    == [id |-> 0, seq |-> 0, body |-> 0]
ActivePrompts(role) == {id \in PromptIds : prompts[id].role = role /\ prompts[id].status = "active"}

\* createDraft of a known role.
CreatePrompt(role, b) ==
  /\ Len(prompts) < MaxPrompts
  /\ prompts' = Append(prompts, [role |-> role, status |-> "draft", body |-> b, seq |-> 0])
  /\ UNCHANGED <<forms, reviewers, evals, clobbered>>

\* The page shows the form of a draft only.
OpensForm(o, id) ==
  /\ prompts[id].status = "draft"
  /\ forms' = [forms EXCEPT ![o] = [id |-> id, seq |-> prompts[id].seq, body |-> prompts[id].body]]
  /\ UNCHANGED <<prompts, reviewers, evals, clobbered>>

Saves(o, b) ==
  LET f == forms[o]
  IN  /\ prompts' = [prompts EXCEPT ![f.id].body = b, ![f.id].seq = @ + 1]
      /\ clobbered' = (clobbered \/ prompts[f.id].body # f.body)
      /\ forms' = [forms EXCEPT ![o] = NoForm] /\ UNCHANGED <<reviewers, evals>>

\* Mutant: a save looks at the number of edits only.
UpdateAnyPrompt(o, b) ==
  /\ forms[o].id # 0 /\ forms[o].seq < MaxSaves /\ prompts[forms[o].id].seq = forms[o].seq
  /\ Saves(o, b)

\* updatePromptDraft, with the edit_seq of the form.
UpdatePromptDraft(o, b) ==
  /\ forms[o].id # 0 /\ forms[o].seq < MaxSaves
  /\ prompts[forms[o].id].status = "draft" /\ prompts[forms[o].id].seq = forms[o].seq
  /\ Saves(o, b)

\* activatePromptRevision of a draft, rollbackPromptRevision of a retired one.
PromotePrompt(id) ==
  /\ prompts[id].status \in {"draft", "retired"}
  /\ prompts' = [k \in PromptIds |->
       IF k = id THEN [prompts[k] EXCEPT !.status = "active"]
       ELSE IF k \in ActivePrompts(prompts[id].role) THEN [prompts[k] EXCEPT !.status = "retired"]
       ELSE prompts[k]]
  /\ UNCHANGED <<forms, reviewers, evals, clobbered>>

DeactivatePrompt(id) ==
  /\ prompts[id].status = "active" /\ prompts' = [prompts EXCEPT ![id].status = "retired"]
  /\ UNCHANGED <<forms, reviewers, evals, clobbered>>

\* runReviewer reads the active revision once, for all its attempts, and stamps
\* the row; without one the row keeps the stamp it has.
ReviewerStarts(i) ==
  LET active == ActivePrompts(RoleOf[i])
      id     == IF active = {} THEN 0 ELSE CHOOSE k \in active : TRUE
  IN  /\ reviewers[i].state = "queued"
      /\ reviewers' = [reviewers EXCEPT ![i] =
           [@ EXCEPT !.state = "running", !.used = id, !.body = IF id = 0 THEN 0 ELSE prompts[id].body,
                     !.stamp = IF id = 0 THEN reviewers[i].stamp ELSE id]]
      /\ UNCHANGED <<prompts, forms, evals, clobbered>>

ReviewerEnds(i) ==
  /\ reviewers[i].state = "running"
  /\ \E state \in {"done", "failed"} : reviewers' = [reviewers EXCEPT ![i].state = state]
  /\ UNCHANGED <<prompts, forms, evals, clobbered>>

\* An operator's retry of a failed row, or a death under a running one.
ReviewerAgain(i) ==
  /\ reviewers[i].state \in {"running", "failed"} /\ reviewers[i].runs < MaxPromptRuns
  /\ reviewers' = [reviewers EXCEPT ![i].state = "queued", ![i].runs = @ + 1]
  /\ UNCHANGED <<prompts, forms, evals, clobbered>>

\* evaluatePrompt reads the revision, and writes a row when its run has ended.
EvaluationStarts(id) ==
  /\ Len(evals) < MaxEvals
  /\ evals' = Append(evals, [status |-> "running", prompt |-> id, body |-> prompts[id].body,
                             draft |-> prompts[id].status = "draft"])
  /\ UNCHANGED <<prompts, forms, reviewers, clobbered>>

EvaluationEnds ==
  /\ \E e \in DOMAIN evals : evals[e].status = "running" /\ evals' = [evals EXCEPT ![e].status = "ended"]
  /\ UNCHANGED <<prompts, forms, reviewers, clobbered>>

-----------------------------------------------------------------------------
PromptsInit ==
  /\ prompts = <<>> /\ forms = [o \in Editors |-> NoForm] /\ evals = <<>> /\ clobbered = FALSE
  /\ reviewers = [i \in ReviewerRows |-> [state |-> "queued", stamp |-> 0, used |-> 0, body |-> 0, runs |-> 1]]

PromptsNext ==
  \/ \E role \in PromptRoles, b \in Bodies : CreatePrompt(role, b)
  \/ \E o \in Editors : (\E id \in PromptIds : OpensForm(o, id)) \/ \E b \in Bodies : UpdatePromptDraft(o, b)
  \/ \E id \in PromptIds : PromotePrompt(id) \/ DeactivatePrompt(id) \/ EvaluationStarts(id)
  \/ \E i \in ReviewerRows : ReviewerStarts(i) \/ ReviewerEnds(i) \/ ReviewerAgain(i)
  \/ EvaluationEnds

PromptsSpec == PromptsInit /\ [][PromptsNext]_promptVars

-----------------------------------------------------------------------------
(* Properties *)

PromptsTypeOK ==
  /\ \A id \in PromptIds : /\ prompts[id].role \in PromptRoles /\ prompts[id].body \in Bodies
                           /\ prompts[id].status \in {"draft", "active", "retired"} /\ prompts[id].seq \in Nat
  /\ \A o \in Editors : forms[o].id \in 0..Len(prompts)
  /\ \A i \in ReviewerRows : /\ reviewers[i].state \in {"queued", "running", "done", "failed"}
                             /\ {reviewers[i].stamp, reviewers[i].used} \subseteq 0..Len(prompts)
  /\ \A e \in DOMAIN evals : evals[e].prompt \in PromptIds

\* "each reviewer run stamps the prompt revision it used" (README.md:631) and
\* nobody's edit is lost (README.md:647): a run that had an
\* override bears its number, and that number still has the text the run was
\* given, whatever operators saved, activated or rolled back meanwhile; so has
\* what was evaluated after it left draft; a role has one active prompt; and a
\* save replaces only what its operator had read.
PromptsTraceable ==
  /\ ~clobbered
  /\ \A role \in PromptRoles : Cardinality(ActivePrompts(role)) <= 1
  /\ \A i \in ReviewerRows : reviewers[i].used # 0 =>
       reviewers[i].stamp = reviewers[i].used /\ prompts[reviewers[i].stamp].body = reviewers[i].body
  /\ \A e \in DOMAIN evals : ~evals[e].draft => evals[e].body = prompts[evals[e].prompt].body
=============================================================================

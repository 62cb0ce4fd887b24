----------------------------- MODULE ProfileEditor -----------------------------
(***************************************************************************)
(* The structured editor of one profile draft (config-form.ts, ui/pages.ts),  *)
(* open in several browser tabs: each button posts the whole form, and the     *)
(* route of the draft (server.ts) decodes it, re-renders the page, probes its  *)
(* models or saves the draft (config-revisions.ts).                            *)
(***************************************************************************)
EXTENDS Integers, FiniteSets, Sequences, SequencesExt, Kept

CONSTANTS Tabs,       \* browser tabs on the draft
          BuiltIn,    \* KNOWN_ROLE_IDS
          Custom,     \* a role of the operators' own
          Times,      \* timeouts an operator types, in milliseconds
          MaxRows,    \* PROFILE_MAX_REVIEWERS
          MaxTime,    \* PROFILE_MAX_TIMEOUT_MS
          MaxCeiling, \* PROFILE_MAX_TOTAL_COST_USD
          MaxFormEdits, \* bound: fields typed and rows added, removed or moved
          MaxSaves    \* bound: saves of the draft

ASSUME EditorAssumption ==
  /\ Custom \notin BuiltIn /\ "" \notin BuiltIn \cup {Custom} /\ Times \subseteq Nat \ {0}
  /\ {MaxTime, MaxCeiling, MaxFormEdits, MaxSaves} \subseteq Nat /\ MaxRows \in Nat \ {0}

VARIABLES
  draft,    \* SQLite: definition and edit_seq of the draft
  pages,    \* the browser: the form of each tab
  errors,   \* the browser: the fields flagged on each tab's page
  hasRole,  \* SQLite: the custom role is there
  probing,  \* memory: the tab whose model test runs (providerTestInFlight)
  edited    \* bound's counter

editorVars == <<draft, pages, errors, hasRole, probing, edited>>

AllRoles == BuiltIn \cup {Custom}
KnownRoles    == IF hasRole THEN AllRoles ELSE BuiltIn

\* A row with its timeout as the operator reads it, in thousandths of a second;
\* 0 is a blank field, for the timeout and for the ceiling.
FormRow(role, time) == [role |-> role, time |-> time]
FormRows     == [role : AllRoles \cup {""}, time : Times \cup {0}]
Form(rows, alert, ceiling) == [rows |-> rows, alert |-> alert, ceiling |-> ceiling]
RolesOf(rows) == {r.role : r \in ToSet(rows)}
Closed   == [at |-> "closed", form |-> Form(<<>>, {}, 0), seq |-> 0, based |-> 0, own |-> FALSE]

-----------------------------------------------------------------------------
(* Seconds to whole milliseconds *)

Log2[n \in Nat] == IF n < 2 THEN 0 ELSE 1 + Log2[n \div 2]
PowMod[n \in Nat] == IF n = 0 THEN 1 ELSE (2 * PowMod[n - 1]) % 1000     \* 2^n, by thousands

\* Number(seconds) * 1000 in doubles, of the text String(ms / 1000): the double
\* nearest to ms / 1000 has 53 bits and is r / 2^s of them away; the product is
\* ms only when that error, times 1000, is at most half of what parts ms from
\* its neighbour.
Exact(ms) ==
  LET up == CHOOSE e \in 0..10 : ms * 2^e >= 1000 /\ (e = 0 \/ ms * 2^(e - 1) < 1000)
      c  == IF ms >= 1000 THEN Log2[ms \div 1000] ELSE -up
      d  == Log2[ms] - c
      r  == (ms * PowMod[52 - c]) % 1000
  IN  IF 2 * r < 1000 THEN (IF ms = 2^Log2[ms] THEN 4 ELSE 2) * r <= 2^d
      ELSE 2 * (1000 - r) <= 2^d

\* timeoutToMs.
Converts(time) == time = 0 \/ (time <= MaxTime /\ Exact(time))

-----------------------------------------------------------------------------
(* config-form.ts *)

\* Mutant: the alert sets are not prefilled.
ForgetsAlerts(def) == Form(def.reviewers, {}, def.ceiling)

\* profileFormValuesFromDefinition; a definition's blanks are blank fields.
ValuesOf(def) == Form(def.reviewers, def.alert, def.ceiling)

\* What the page shows of the values: a select offers the known roles, the
\* check boxes of an alert level are those of the rows' roles.
Shown(form) ==
  Form([i \in DOMAIN form.rows |-> IF form.rows[i].role \in KnownRoles THEN form.rows[i]
                                    ELSE [form.rows[i] EXCEPT !.role = ""]],
       form.alert \cap RolesOf(form.rows), form.ceiling)

\* Mutant: a row more than the cap.
AddsOneMore(form) ==
  IF Len(form.rows) > MaxRows THEN form ELSE [form EXCEPT !.rows = Append(@, FormRow("", 0))]

\* applyProfileAction.
AddsRow(form) ==
  LET free == BuiltIn \ RolesOf(form.rows)
      role == IF free # {} THEN CHOOSE r \in free : TRUE
              ELSE IF Custom \in KnownRoles \ RolesOf(form.rows) THEN Custom ELSE ""
  IN  IF Len(form.rows) >= MaxRows THEN form ELSE [form EXCEPT !.rows = Append(@, FormRow(role, 0))]

RemovesRow(form, i) == [form EXCEPT !.rows = IF i \in DOMAIN @ THEN RemoveAt(@, i) ELSE @]

\* Mutant: a move past the end is made.
SwapsAnyway(form, i, k) ==
  LET at(j) == IF j \in DOMAIN form.rows THEN form.rows[j] ELSE FormRow("", 0)
  IN  [form EXCEPT !.rows = [j \in DOMAIN @ |-> at(IF j = i THEN k ELSE IF j = k THEN i ELSE j)]]

SwapsRows(form, i, k) ==
  IF {i, k} \subseteq DOMAIN form.rows
  THEN [form EXCEPT !.rows = [@ EXCEPT ![i] = form.rows[k], ![k] = form.rows[i]]]
  ELSE form

IsBlank(row) == row.role = "" /\ row.time = 0

\* The places on the page of the rows that are not blank.
FormIndices(rows) == {i \in DOMAIN rows : ~IsBlank(rows[i])}

\* Mutant: an error names the place its row has among the rows kept.
CompactIndex(rows, i) == Cardinality({k \in 1..i : ~IsBlank(rows[k])})

\* zodPathToFieldKey.
KeyIndex(rows, i) == i

\* profileFormToDefinition: conversions and the schema.
BadRows(rows) ==
  {i \in DOMAIN rows : ~IsBlank(rows[i]) /\ rows[i].role \notin KnownRoles}
BadTimes(rows) == {i \in DOMAIN rows : ~Converts(rows[i].time)}
Refused(form) ==
  {<<"role", KeyIndex(form.rows, i)>> : i \in BadRows(form.rows)}
  \cup {<<"timeout", i>> : i \in BadTimes(form.rows)}
  \cup (IF form.alert \subseteq RolesOf(form.rows) THEN {} ELSE {<<"alert", 0>>})
  \cup (IF form.ceiling <= MaxCeiling THEN {} ELSE {<<"ceiling", 0>>})
  \cup (IF FormIndices(form.rows) = {} THEN {<<"form", 0>>} ELSE {})

DefinitionOf(form) ==
  [reviewers |-> KeptAt(form.rows, FormIndices(form.rows)),
   alert |-> form.alert, ceiling |-> form.ceiling]

\* handleProfileForm: a role's second row.
Repeated(rows) == {i \in DOMAIN rows : rows[i].role # "" /\ \E k \in 1..(i - 1) : rows[k].role = rows[i].role}

\* Mutant: the schema's issues are all.
SchemaOnly(form) == Refused(form)

SaveErrors(form) ==
  IF Refused(form) # {} THEN Refused(form) ELSE {<<"role", i>> : i \in Repeated(form.rows)}

-----------------------------------------------------------------------------
(* The routes *)

Others == UNCHANGED <<hasRole, edited>>

\* renderEditPage: the values posted, and the sequence the draft now has.
Renders(t, form, errs) ==
  /\ pages' = [pages EXCEPT ![t] = [@ EXCEPT !.at = "open", !.form = Shown(form), !.seq = draft.seq, !.own = TRUE]]
  /\ errors' = [errors EXCEPT ![t] = errs]

\* The draft's page.
OpensPage(t) ==
  /\ pages[t].at = "closed"
  /\ pages' = [pages EXCEPT ![t] = [at |-> "open", form |-> Shown(ValuesOf(draft.def)), seq |-> draft.seq,
                                    based |-> draft.seq, own |-> FALSE]]
  /\ errors' = [errors EXCEPT ![t] = {}] /\ UNCHANGED <<draft, probing>> /\ Others

\* Fields of the form in the browser: a row, an alert level, the ceiling.
RowsTyped(form)    == UNION {{[form EXCEPT !.rows = [@ EXCEPT ![i] = row]] : row \in FormRows} : i \in DOMAIN form.rows}
AlertTyped(form)   == {[form EXCEPT !.alert = a] : a \in SUBSET (RolesOf(form.rows) \ {""})}
CeilingTyped(form) == {[form EXCEPT !.ceiling = n] : n \in {0, MaxCeiling, MaxCeiling + 1}}
TypedForms(form)   == RowsTyped(form) \cup AlertTyped(form) \cup CeilingTyped(form)

Types(t) ==
  /\ pages[t].at = "open" /\ edited < MaxFormEdits /\ edited' = edited + 1
  /\ \E form \in TypedForms(pages[t].form) :
       pages' = [pages EXCEPT ![t] = [@ EXCEPT !.form = form, !.own = TRUE]]
  /\ UNCHANGED <<draft, errors, hasRole, probing>>

\* decodeProfileAction and the re-rendering of a button that is not "save": add,
\* remove, up, down, and one that does not apply.
Clicks(t) ==
  LET form == pages[t].form IN
  /\ pages[t].at = "open" /\ edited < MaxFormEdits /\ edited' = edited + 1
  /\ \/ Renders(t, AddsRow(form), {})
     \/ \E i \in 1..MaxRows : \/ Renders(t, RemovesRow(form, i), {})
                              \/ i > 1 /\ Renders(t, SwapsRows(form, i, i - 1), {})
                              \/ Renders(t, SwapsRows(form, i, i + 1), {})
     \/ Renders(t, form, {<<"form", 0>>})
  /\ UNCHANGED <<draft, probing, hasRole>>

\* runProfileModelTest, one at a time, to its await; the page it will render
\* has the draft as it now is.
Tests(t) ==
  /\ pages[t].at = "open"
  /\ IF probing # {} THEN Renders(t, pages[t].form, {}) /\ UNCHANGED probing
     ELSE /\ probing' = {t} /\ UNCHANGED errors
          /\ pages' = [pages EXCEPT ![t].at = "testing", ![t].seq = draft.seq]
  /\ UNCHANGED draft /\ Others

TestEnds(t) ==
  /\ pages[t].at = "testing" /\ probing' = {}
  /\ pages' = [pages EXCEPT ![t] = [@ EXCEPT !.at = "open", !.form = Shown(pages[t].form), !.own = TRUE]]
  /\ errors' = [errors EXCEPT ![t] = {}] /\ UNCHANGED draft /\ Others

\* A save: what is wrong is flagged; else updateDraft, unless the sequence of
\* the form is not the draft's.
Saves(t) ==
  LET form == pages[t].form IN
  /\ pages[t].at = "open"
  /\ IF SaveErrors(form) # {}
     THEN Renders(t, form, SaveErrors(form) \cup {<<"form", 0>>}) /\ UNCHANGED draft
     ELSE /\ pages' = [pages EXCEPT ![t] = Closed] /\ errors' = [errors EXCEPT ![t] = {}]
          /\ IF pages[t].seq # draft.seq THEN UNCHANGED draft
             ELSE draft.seq < MaxSaves /\ draft' = [def |-> DefinitionOf(form), seq |-> draft.seq + 1]
  /\ UNCHANGED probing /\ Others

\* upsertCustomRole, and deleteCustomRole of one no draft names.
ChangesRoles ==
  /\ hasRole => \A i \in DOMAIN draft.def.reviewers : draft.def.reviewers[i].role # Custom
  /\ hasRole' = ~hasRole /\ UNCHANGED <<draft, pages, errors, probing, edited>>

-----------------------------------------------------------------------------
EditorInit ==
  /\ \E r \in BuiltIn, t \in {n \in Times : n <= MaxTime} :
       draft = [def |-> [reviewers |-> <<FormRow(r, t)>>, alert |-> {}, ceiling |-> 0], seq |-> 0]
  /\ pages = [t \in Tabs |-> Closed] /\ errors = [t \in Tabs |-> {}]
  /\ hasRole = TRUE /\ probing = {} /\ edited = 0

EditorNext ==
  \/ \E t \in Tabs : OpensPage(t) \/ Types(t) \/ Clicks(t) \/ Tests(t) \/ TestEnds(t) \/ Saves(t)
  \/ ChangesRoles

EditorSpec == EditorInit /\ [][EditorNext]_editorVars

-----------------------------------------------------------------------------
(* Properties *)

\* Draft, pages and flags have their types, and the one model test that runs is
\* of a page that waits for it.
EditorTypeOK ==
  /\ ToSet(draft.def.reviewers) \subseteq FormRows /\ draft.seq \in 0..MaxSaves
  /\ \A t \in Tabs : /\ pages[t].at \in {"closed", "open", "testing"} /\ pages[t].seq <= draft.seq
                     /\ ToSet(pages[t].form.rows) \subseteq FormRows /\ Len(pages[t].form.rows) <= MaxRows
                     /\ t \in probing <=> pages[t].at = "testing"
  /\ Cardinality(probing) <= 1

\* What the editor stores can be activated as it stands: it has specialists,
\* none of them twice, each of them known, and its alert sets are among them.
SavedIsSound ==
  LET roster == draft.def.reviewers IN
  /\ roster # <<>> /\ Cardinality(RolesOf(roster)) = Len(roster) /\ RolesOf(roster) \subseteq KnownRoles
  /\ draft.def.alert \subseteq RolesOf(roster) /\ draft.def.ceiling <= MaxCeiling

\* config-form.ts:389-391: "definition -> form -> definition is lossless for
\* schema-valid values": a page as it was opened, posted untouched, is accepted
\* and yields the draft it was opened on.
RoundTrip ==
  \A t \in Tabs : pages[t].at = "open" /\ ~pages[t].own /\ pages[t].seq = draft.seq
    => SaveErrors(pages[t].form) = {} /\ DefinitionOf(pages[t].form) = draft.def

\* "flag the control that caused them" (config-form.ts:244): a row a refused
\* save flags is, as the operator sees it, the row to blame.
FlagsTheRow ==
  [][\A t \in Tabs : errors'[t] # errors[t] =>
       \A e \in errors'[t] : e[1] = "role" =>
         LET rows == pages[t].form.rows IN
         e[2] \in DOMAIN rows /\ ~IsBlank(rows[e[2]])
         /\ (rows[e[2]].role \notin KnownRoles \/ e[2] \in Repeated(rows))]_editorVars

\* A button that reorders, adds or removes loses nothing the operator typed but
\* the row removed: whatever row was pressed, every other row is still there.
ClicksKeepRows ==
  [][\A t \in Tabs : Clicks(t) =>
       LET was == pages[t].form.rows
           now == pages'[t].form.rows
       IN  \E gone \in SUBSET DOMAIN was :
             /\ Cardinality(gone) <= 1 /\ Len(now) >= Len(was) - Cardinality(gone)
             /\ (gone # {}) = (Len(now) < Len(was))
             /\ \A i \in DOMAIN was \ gone : was[i].role \in KnownRoles =>
                  Cardinality({k \in DOMAIN now : now[k] = was[i]})
                    >= Cardinality({k \in DOMAIN was \ gone : was[k] = was[i]})]_editorVars

\* README.md:647: "Draft edits use optimistic concurrency: saving against an
\* older revision returns a conflict instead of overwriting a teammate's change."
NoEditIsLost ==
  [][\A t \in Tabs : draft' # draft /\ pages'[t] # pages[t] => pages[t].based = draft.seq]_editorVars
=============================================================================

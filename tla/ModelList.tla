------------------------------ MODULE ModelList ------------------------------
(***************************************************************************)
(* ModelDiscovery of opencode/models.ts: the list of models an operator can  *)
(* choose from, refreshed at boot and on demand by a child of the model CLI  *)
(* that may answer, fail, hang, or answer after its timer.                   *)
(***************************************************************************)
EXTENDS Integers

CONSTANT Refreshes       \* bound: refreshes, numbered from 1

ASSUME ModelListAssumption == Refreshes \in Nat

VARIABLES
  listed,    \* memory: the refresh whose list is shown (0: none), and whether an error is
  refreshes  \* each refresh: "absent", "pending", "late" (timed out, its child alive), "over"

listVars == <<listed, refreshes>>

RefreshIds == 1..Refreshes

\* Mutant: a refresh starts a child of its own beside the pending one.
StartsAnyway(r) == \A q \in RefreshIds : q < r => refreshes[q] # "absent"

\* refresh() joins the pending one, if any.
Joinless(r) == \A q \in RefreshIds : q < r => refreshes[q] \notin {"absent", "pending"}

Refresh(r) ==
  /\ refreshes[r] = "absent" /\ Joinless(r)
  /\ refreshes' = [refreshes EXCEPT ![r] = "pending"] /\ UNCHANGED listed

\* Mutant: finish lets a late answer in.
LateToo(r) == refreshes[r] \in {"pending", "late"}

\* finish: the first of answer, failure and timer counts.
Unsettled(r) == refreshes[r] = "pending"

\* The child of a refresh closes: with a list, or with a failure.
ListCloses(r) ==
  /\ refreshes[r] \in {"pending", "late"} /\ refreshes' = [refreshes EXCEPT ![r] = "over"]
  /\ \E ok \in BOOLEAN :
       listed' = IF ~Unsettled(r) THEN listed
                 ELSE IF ok THEN [of |-> r, failed |-> FALSE] ELSE [listed EXCEPT !.failed = TRUE]

\* Its timer: the old list stays, with an error.
ListTimesOut(r) ==
  /\ refreshes[r] = "pending" /\ refreshes' = [refreshes EXCEPT ![r] = "late"]
  /\ listed' = [listed EXCEPT !.failed = TRUE]

-----------------------------------------------------------------------------
ModelListInit == listed = [of |-> 0, failed |-> FALSE] /\ refreshes = [r \in RefreshIds |-> "absent"]
ModelListNext == \E r \in RefreshIds : Refresh(r) \/ ListCloses(r) \/ ListTimesOut(r)
ModelListSpec == ModelListInit /\ [][ModelListNext]_listVars

-----------------------------------------------------------------------------
(* Properties *)

\* The type of the state; one refresh is pending at a time.
ModelListTypeOK ==
  /\ \A r, q \in RefreshIds : refreshes[r] = "pending" /\ refreshes[q] = "pending" => r = q
  /\ listed \in [of : 0..Refreshes, failed : BOOLEAN]
  /\ refreshes \in [RefreshIds -> {"absent", "pending", "late", "over"}]

\* One list never comes over a newer one: the answer of a child that was given
\* up on, while the refresh after it has answered, changes neither the list nor
\* the error (models.ts:69-81).
NewestList == [][listed'.of >= listed.of /\ (listed'.of # listed.of => refreshes[listed'.of] = "pending")]_listed
=============================================================================

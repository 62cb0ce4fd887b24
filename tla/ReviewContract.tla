---------------------------- MODULE ReviewContract ----------------------------
(***************************************************************************)
(* What the service promises the readers of a pull request, with nothing   *)
(* of how: a pull has at most one current head; a review is decided only   *)
(* for the current head of a pull, and only if that head has none yet; a   *)
(* decided review lands or is lost, even when the head has moved on since. *)
(***************************************************************************)
CONSTANTS Pulls, Heads

VARIABLES current,    \* the head of each pull Maomao reviews: a set of one, or none
          inflight,   \* reviews decided and on their way to the forge
          posted      \* reviews on the forge

Init ==
  /\ current = [p \in Pulls |-> {}]
  /\ inflight = {} /\ posted = {}

\* A new head is delivered, or a review is requested anew.
Adopt(p, h) ==
  /\ current' = [current EXCEPT ![p] = {h}]
  /\ UNCHANGED <<inflight, posted>>

\* Superseded by a head that is not reviewed, cancelled, merged or paused.
Withdraw(S) ==
  /\ current' = [p \in Pulls |-> IF p \in S THEN {} ELSE current[p]]
  /\ UNCHANGED <<inflight, posted>>

Decide(p, h) ==
  /\ h \in current[p] /\ <<p, h>> \notin posted \union inflight
  /\ inflight' = inflight \union {<<p, h>>}
  /\ UNCHANGED <<current, posted>>

Land(t) ==
  /\ t \in inflight
  /\ inflight' = inflight \ {t} /\ posted' = posted \union {t}
  /\ UNCHANGED current

\* Rejected by the forge.
Lose(t) ==
  /\ t \in inflight
  /\ inflight' = inflight \ {t}
  /\ UNCHANGED <<current, posted>>

\* The process dies: what was on its way arrived, or did not.
Crash(landed) ==
  /\ inflight' = {} /\ posted' = posted \union landed
  /\ UNCHANGED current

Next ==
  \/ \E p \in Pulls, h \in Heads : Adopt(p, h) \/ Decide(p, h)
  \/ \E S \in SUBSET Pulls : Withdraw(S)
  \/ \E t \in inflight : Land(t) \/ Lose(t)
  \/ \E landed \in SUBSET inflight : Crash(landed)

Spec == Init /\ [][Next]_<<current, inflight, posted>>
=============================================================================

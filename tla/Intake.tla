-------------------------------- MODULE Intake --------------------------------
(***************************************************************************)
(* What becomes of a delivery: the claims of jobs/store.ts and of            *)
(* forge/deliveries.ts around the handlers of github/webhooks.ts, which read *)
(* a claim before their calls and write it after their work.  A forge        *)
(* delivers anything again at any time, a comment also under a second        *)
(* delivery; the process may die anywhere.                                   *)
(***************************************************************************)
EXTENDS Integers, FiniteSets

CONSTANTS Deliveries,    \* delivery ids
          SubjectOf,     \* what each delivery is about: a comment, or an event of a pull
          KindOf,        \* of each subject: "reply", "review", "closed" or "push"
          HandlerIds,    \* requests served at once
          RateLimit,     \* config.repoRateLimitPerWindow, of one repository; 0 is off
          MaxArrivals,   \* bound: requests
          MaxIntakeUpsets \* bound: deaths, switches of the pause, ends of a window's hit

Kinds    == {"reply", "review", "closed", "push"}
Subjects == {SubjectOf[d] : d \in Deliveries}

ASSUME IntakeAssumption ==
  /\ Deliveries # {} /\ \A d \in Deliveries : KindOf[SubjectOf[d]] \in Kinds
  /\ \A c, d \in Deliveries : SubjectOf[c] = SubjectOf[d] /\ KindOf[SubjectOf[c]] = "closed" => c = d
  /\ RateLimit \in Nat /\ MaxArrivals \in Nat /\ MaxIntakeUpsets \in Nat

VARIABLES
  deliveryRow, \* SQLite: webhook_deliveries: "none", "ignored" or "handled"
  commandDone, \* SQLite: processed_review_commands, by comment
  handlers,    \* memory: each request: where it is and its delivery
  hits,        \* memory: RepoRateLimiter, the hits inside the window
  autoPaused,  \* SQLite: global_pause
  did,         \* history: how often what a subject asks for was done
  declined,    \* history: subjects refused for good
  raced,       \* history: subjects two requests were at, or that a death cut short
  denied,      \* history: deliveries answered as a duplicate
  arrivals, intakeUpsets

intakeVars == <<deliveryRow, commandDone, handlers, hits, autoPaused, did, declined, raced, denied,
                arrivals, intakeUpsets>>

Free      == [at |-> "free", delivery |-> CHOOSE d \in Deliveries : TRUE]
About(h)  == SubjectOf[handlers[h].delivery]
Busy(s)   == {h \in HandlerIds : handlers[h].at # "free" /\ About(h) = s}

\* Mutant: any row of the log is a claim.
HandledOrIgnored(d) == deliveryRow[d] # "none"

\* hasWebhookDelivery: what was ignored is no claim.
HasWebhookDelivery(d) == deliveryRow[d] = "handled"

\* claimWebhookDelivery: an ignored row takes a real outcome, and no other does.
ClaimWebhookDelivery(d, result) ==
  deliveryRow' = [deliveryRow EXCEPT ![d] = IF @ = "handled" THEN @ ELSE result]

\* claimReviewCommand, of a handler that claims its comment.
ClaimReviewCommand(s) ==
  commandDone' = IF KindOf[s] \in {"reply", "review"} THEN commandDone \union {s} ELSE commandDone

Does(s)     == did' = [did EXCEPT ![s] = @ + 1]
Declines(s) == declined' = declined \union {s}
Still(h)    == UNCHANGED handlers
GoesTo(h, d, at) == handlers' = [handlers EXCEPT ![h] = [at |-> at, delivery |-> d]]
Releases(h) == handlers' = [handlers EXCEPT ![h] = Free]

\* recordWebhookDelivery of an answer that was not claimed and says "ignored".
Ignored(d) == ClaimWebhookDelivery(d, "ignored") /\ UNCHANGED <<commandDone, did, declined, denied>>

Duplicate(d) == denied' = denied \union {d} /\ UNCHANGED <<did, declined>>

\* handleReviewCommentWebhook and handleReviewCommand up to their first await.
CommentArrives(h, d) ==
  LET s == SubjectOf[d]
  IN  /\ KindOf[s] \in {"reply", "review"} /\ UNCHANGED hits
      /\ raced' = IF Busy(s) = {} THEN raced ELSE raced \union {s}
      /\ IF KindOf[s] = "reply" /\ HasWebhookDelivery(d)
         THEN Duplicate(d) /\ Still(h) /\ UNCHANGED <<deliveryRow, commandDone>>
         ELSE IF s \in commandDone
         THEN Duplicate(d) /\ Still(h) /\ ClaimWebhookDelivery(d, "handled") /\ UNCHANGED commandDone
         ELSE GoesTo(h, d, "asking") /\ UNCHANGED <<deliveryRow, commandDone, did, declined, denied>>

\* handlePullClosed, which awaits nothing; a death may come before its claim.
ClosedArrives(h, d) ==
  LET s == SubjectOf[d]
  IN  /\ KindOf[s] = "closed" /\ Still(h) /\ UNCHANGED <<hits, commandDone>>
      /\ IF HasWebhookDelivery(d)
         THEN Duplicate(d) /\ UNCHANGED <<deliveryRow, raced>>
         ELSE /\ Does(s) /\ UNCHANGED <<declined, denied>>
              /\ \/ ClaimWebhookDelivery(d, "handled") /\ UNCHANGED raced
                 \/ UNCHANGED deliveryRow /\ raced' = raced \union {s}

\* handleGithubWebhookRequest of a pull request event, up to the reviewer's
\* registration: it reads no claim, as the head's slot keeps a second job away.
PushArrives(h, d) ==
  LET s == SubjectOf[d]
  IN  /\ KindOf[s] = "push" /\ UNCHANGED <<raced, denied>>
      /\ IF autoPaused
         THEN /\ ClaimWebhookDelivery(d, "handled") /\ Declines(s)
              /\ Still(h) /\ UNCHANGED <<hits, commandDone, did>>
         ELSE IF RateLimit > 0 /\ hits >= RateLimit
         THEN Ignored(d) /\ Still(h) /\ UNCHANGED hits
         ELSE /\ UNCHANGED <<deliveryRow, commandDone, declined>> /\ GoesTo(h, d, "acted")
              /\ IF did[s] > 0 THEN UNCHANGED <<did, hits>>
                 ELSE Does(s) /\ hits' = IF RateLimit > 0 THEN hits + 1 ELSE hits

Arrives(h, d) ==
  /\ handlers[h].at = "free" /\ arrivals < MaxArrivals /\ arrivals' = arrivals + 1
  /\ CommentArrives(h, d) \/ ClosedArrives(h, d) \/ PushArrives(h, d)
  /\ UNCHANGED <<autoPaused, intakeUpsets>>

\* The permission, the threads or the pull have been read, or could not be: the
\* answer is ignored, an error, a refusal for good, or the work is done.
Asks(h) ==
  LET d == handlers[h].delivery
      s == About(h)
  IN  /\ handlers[h].at = "asking"
      /\ \/ KindOf[s] = "reply" /\ Ignored(d) /\ Releases(h)
         \/ Releases(h) /\ UNCHANGED <<deliveryRow, commandDone, did, declined, denied>>
         \/ /\ ClaimWebhookDelivery(d, "handled") /\ Declines(s) /\ Releases(h)
            /\ IF KindOf[s] = "review" THEN ClaimReviewCommand(s) ELSE UNCHANGED commandDone
            /\ UNCHANGED <<did, denied>>
         \/ /\ Does(s) /\ GoesTo(h, d, "acted")
            /\ UNCHANGED <<deliveryRow, commandDone, declined, denied>>
      /\ UNCHANGED <<hits, autoPaused, raced, arrivals, intakeUpsets>>

\* The reply, the thread or the reviewer was seen to, well or not: both claims.
Finishes(h) ==
  /\ handlers[h].at = "acted" /\ Releases(h)
  /\ ClaimWebhookDelivery(handlers[h].delivery, "handled") /\ ClaimReviewCommand(About(h))
  /\ UNCHANGED <<hits, autoPaused, did, declined, raced, denied, arrivals, intakeUpsets>>

IntakeUpset == intakeUpsets < MaxIntakeUpsets /\ intakeUpsets' = intakeUpsets + 1

\* A death forgets the requests, and the window with them.
IntakeDies ==
  /\ IntakeUpset /\ handlers' = [h \in HandlerIds |-> Free] /\ hits' = 0
  /\ raced' = raced \union {About(h) : h \in {g \in HandlerIds : handlers[g].at = "acted"}}
  /\ UNCHANGED <<deliveryRow, commandDone, autoPaused, did, declined, denied, arrivals>>

PauseSwitched ==
  /\ IntakeUpset /\ autoPaused' = ~autoPaused
  /\ UNCHANGED <<deliveryRow, commandDone, handlers, hits, did, declined, raced, denied, arrivals>>

HitExpires ==
  /\ IntakeUpset /\ hits > 0 /\ hits' = hits - 1
  /\ UNCHANGED <<deliveryRow, commandDone, handlers, autoPaused, did, declined, raced, denied, arrivals>>

-----------------------------------------------------------------------------
IntakeInit ==
  /\ deliveryRow = [d \in Deliveries |-> "none"] /\ commandDone = {}
  /\ handlers = [h \in HandlerIds |-> Free] /\ hits = 0 /\ autoPaused = FALSE
  /\ did = [s \in Subjects |-> 0] /\ declined = {} /\ raced = {} /\ denied = {}
  /\ arrivals = 0 /\ intakeUpsets = 0

IntakeNext ==
  \/ \E h \in HandlerIds : Asks(h) \/ Finishes(h) \/ \E d \in Deliveries : Arrives(h, d)
  \/ IntakeDies \/ PauseSwitched \/ HitExpires

IntakeSpec == IntakeInit /\ [][IntakeNext]_intakeVars

-----------------------------------------------------------------------------
(* Properties *)

IntakeTypeOK ==
  /\ deliveryRow \in [Deliveries -> {"none", "ignored", "handled"}]
  /\ commandDone \subseteq Subjects /\ hits \in Nat /\ did \in [Subjects -> Nat]
  /\ \A h \in HandlerIds : handlers[h].at \in {"free", "asking", "acted"}

\* "a crash in between must let the redelivery retry, not report duplicate"
\* (webhooks.ts:266-267), and what was ignored may be tried again
\* (store.ts:2485-2489): a delivery is claimed, or turned away as a duplicate,
\* only once what it asks for was done or refused for good; and it is done twice
\* only if two requests were at it together or a death cut the first one short.
ActsOnce ==
  /\ \A d \in Deliveries : (HasWebhookDelivery(d) \/ d \in denied) =>
       did[SubjectOf[d]] > 0 \/ SubjectOf[d] \in declined
  /\ \A s \in Subjects : did[s] > 1 => s \in raced
  /\ RateLimit > 0 => hits <= RateLimit
=============================================================================

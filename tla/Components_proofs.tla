--------------------------- MODULE Components_proofs ---------------------------
(***************************************************************************)
(* The components together, and the three of them that talk to the forge.     *)
(* What comes in acts once, what goes out arrives once, and what a run closes *)
(* is settled: for every set of deliveries, subjects, requests, targets,     *)
(* policies and fingerprints, and any number of failures, deaths and people. *)
(*                                                                         *)
(* Coming in, a subject nobody raced for is done once because one request at *)
(* a time works on it, and the claim outlives it (Unraced).  Going out, a    *)
(* comment nobody raced for is posted once because a job that is about to    *)
(* post it has seen that it is not there (PageInv).  A run closes a thread   *)
(* on what it decided calls ago; that stays true of a finding nobody touched *)
(* meanwhile, since only the run itself writes its row (Agrees).             *)
(***************************************************************************)
EXTENDS MCComponents, Tables_proofs, WellFoundedInduction

\* A set of natural numbers has a least element.
Below == {p \in Nat \X Nat : p[1] < p[2]}

LEMMA LeastOf ==
  ASSUME NEW S \in SUBSET Nat, S # {}
  PROVE  \E m \in S : \A n \in S : m <= n
<1>1. IsWellFoundedOn(Below, Nat)
  BY NatLessThanWellFounded DEF Below, OpToRel
<1>2. PICK m \in S : \A n \in S : ~(<<n, m>> \in Below)
  BY <1>1, WFMin, Zenon
<1>3. \A n \in S : ~(n < m)
  BY <1>2 DEF Below
<1> QED
  BY <1>3

-----------------------------------------------------------------------------
(* What comes in *)

Request == [at : {"free", "asking", "acted"}, delivery : Deliveries]
Comment(s)  == KindOf[s] \in {"reply", "review"}
SeenTo(s) == did[s] > 0 \/ s \in declined
AtWork(h, s)    == handlers[h].at # "free" /\ About(h) = s

IntakeTypes ==
  /\ deliveryRow \in [Deliveries -> {"none", "ignored", "handled"}]
  /\ handlers \in [HandlerIds -> Request] /\ did \in [Subjects -> Nat]
  /\ commandDone \subseteq Subjects /\ hits \in Nat /\ (RateLimit > 0 => hits <= RateLimit)

\* A subject that no two requests were at together and no death cut short.
Unraced(s) ==
  /\ did[s] <= 1
  /\ KindOf[s] = "closed" /\ did[s] > 0 => \E d \in Deliveries : SubjectOf[d] = s /\ deliveryRow[d] = "handled"
  /\ Comment(s) =>
       /\ did[s] > 0 => s \in commandDone \/ \E h \in HandlerIds : handlers[h].at = "acted" /\ About(h) = s
       /\ \A h, k \in HandlerIds : AtWork(h, s) /\ AtWork(k, s) => h = k
       /\ \A h \in HandlerIds : AtWork(h, s) => s \notin commandDone /\ (handlers[h].at = "asking" => did[s] = 0)

IntakeInv ==
  /\ IntakeTypes
  /\ \A d \in Deliveries : deliveryRow[d] = "handled" \/ d \in denied => SeenTo(SubjectOf[d])
  /\ \A s \in commandDone : SeenTo(s)
  /\ \A h \in HandlerIds : /\ handlers[h].at = "acted" => did[About(h)] > 0
                           /\ handlers[h].at = "asking" => Comment(About(h))
  /\ \A s \in Subjects \ raced : Unraced(s)

\* What the kinds and subjects are.
LEMMA SubjectFacts ==
  /\ \A d \in Deliveries : SubjectOf[d] \in Subjects
  /\ \A s \in Subjects : KindOf[s] \in Kinds
  /\ Free \in Request /\ Free.at = "free"
  /\ RateLimit \in Nat
  /\ \A c, d \in Deliveries : SubjectOf[c] = SubjectOf[d] /\ KindOf[SubjectOf[c]] = "closed" => c = d
BY IntakeAssumption DEF Subjects, Free, Request

LEMMA IntakeStarts == IntakeInit => IntakeInv
<1> SUFFICES ASSUME IntakeInit PROVE IntakeInv
  OBVIOUS
<1>1. IntakeTypes
  BY SubjectFacts DEF IntakeInit, IntakeTypes
<1>2. /\ \A h \in HandlerIds : handlers[h].at = "free"
      /\ \A s \in Subjects : did[s] = 0
      /\ \A d \in Deliveries : deliveryRow[d] = "none"
      /\ commandDone = {} /\ denied = {}
  BY SubjectFacts DEF IntakeInit
<1>3. \A s \in Subjects : Unraced(s)
  BY <1>2 DEF Unraced, AtWork
<1> QED
  BY <1>1, <1>2, <1>3 DEF IntakeInv

\* What the parts of the actions write.
LEMMA Claims ==
  ASSUME IntakeInv, NEW d \in Deliveries, NEW result \in {"ignored", "handled"}, ClaimWebhookDelivery(d, result)
  PROVE  /\ deliveryRow' \in [Deliveries -> {"none", "ignored", "handled"}]
         /\ \A c \in Deliveries : deliveryRow[c] = "handled" => deliveryRow'[c] = "handled"
         /\ \A c \in Deliveries : deliveryRow'[c] = "handled" /\ deliveryRow[c] # "handled" => c = d /\ result = "handled"
         /\ result = "handled" => deliveryRow'[d] = "handled"
BY DEF ClaimWebhookDelivery, IntakeInv, IntakeTypes

LEMMA Handlers ==
  ASSUME IntakeInv, NEW h \in HandlerIds, NEW d \in Deliveries, NEW at \in {"asking", "acted"}
  PROVE  /\ GoesTo(h, d, at) => /\ handlers' \in [HandlerIds -> Request] /\ handlers'[h].at = at /\ handlers'[h].delivery = d
                                /\ \A k \in HandlerIds : k # h => handlers'[k] = handlers[k]
         /\ Releases(h) => /\ handlers' \in [HandlerIds -> Request] /\ handlers'[h].at = "free"
                           /\ \A k \in HandlerIds : k # h => handlers'[k] = handlers[k]
BY SubjectFacts DEF GoesTo, Releases, IntakeInv, IntakeTypes, Request

LEMMA ActsEffect ==
  ASSUME IntakeInv, NEW s \in Subjects, Does(s)
  PROVE  did' \in [Subjects -> Nat] /\ did'[s] = did[s] + 1 /\ did[s] \in Nat
         /\ \A q \in Subjects : q # s => did'[q] = did[q]
BY DEF Does, IntakeInv, IntakeTypes

\* A step that is about subject s, of requests that are about s before and
\* after, or free.
LEMMA AboutOne ==
  ASSUME IntakeInv, NEW s \in Subjects, IntakeTypes',
         \A q \in Subjects : q # s => did'[q] = did[q] /\ (q \in commandDone' <=> q \in commandDone),
         did'[s] >= did[s], raced \subseteq raced', declined \subseteq declined',
         \A d \in Deliveries : deliveryRow[d] = "handled" => deliveryRow'[d] = "handled",
         \A d \in Deliveries : (deliveryRow'[d] = "handled" /\ deliveryRow[d] # "handled") \/ (d \in denied' /\ d \notin denied)
                               => SubjectOf[d] = s /\ (did'[s] > 0 \/ s \in declined'),
         s \in commandDone' => did'[s] > 0 \/ s \in declined',
         \A h \in HandlerIds : handlers'[h] = handlers[h]
           \/ /\ handlers[h].at = "free" \/ SubjectOf[handlers[h].delivery] = s
              /\ handlers'[h].at = "free" \/ SubjectOf[handlers'[h].delivery] = s
              /\ handlers'[h].at = "acted" => did'[s] > 0
              /\ handlers'[h].at = "asking" => Comment(s),
         s \notin raced' => Unraced(s)'
  PROVE  IntakeInv'
<1>1. /\ did \in [Subjects -> Nat] /\ did' \in [Subjects -> Nat] /\ handlers \in [HandlerIds -> Request]
      /\ handlers' \in [HandlerIds -> Request] /\ commandDone \subseteq Subjects /\ commandDone' \subseteq Subjects
  BY DEF IntakeInv, IntakeTypes
<1>2. \A q \in Subjects : did'[q] >= did[q] /\ did[q] \in Nat /\ did'[q] \in Nat
  BY <1>1
<1>3. \A q \in Subjects : SeenTo(q) => did'[q] > 0 \/ q \in declined'
  BY <1>2 DEF SeenTo
<1>4. \A d \in Deliveries : deliveryRow'[d] = "handled" \/ d \in denied' => did'[SubjectOf[d]] > 0 \/ SubjectOf[d] \in declined'
  BY <1>3, SubjectFacts DEF IntakeInv
<1>5. \A q \in commandDone' : did'[q] > 0 \/ q \in declined'
  BY <1>1, <1>3 DEF IntakeInv
<1>6. \A h \in HandlerIds : /\ handlers'[h].at = "acted" => did'[SubjectOf[handlers'[h].delivery]] > 0
                            /\ handlers'[h].at = "asking" => Comment(SubjectOf[handlers'[h].delivery])
  <2> SUFFICES ASSUME NEW h \in HandlerIds
               PROVE  /\ handlers'[h].at = "acted" => did'[SubjectOf[handlers'[h].delivery]] > 0
                      /\ handlers'[h].at = "asking" => Comment(SubjectOf[handlers'[h].delivery])
    OBVIOUS
  <2>1. SubjectOf[handlers[h].delivery] \in Subjects
    BY <1>1, SubjectFacts DEF Request
  <2>2. CASE handlers'[h] = handlers[h]
    BY <1>2, <2>1, <2>2 DEF IntakeInv, About
  <2> QED
    BY <2>2
<1>7. ASSUME NEW q \in Subjects \ raced' PROVE Unraced(q)'
  <2>1. CASE q = s
    BY <1>7, <2>1
  <2>2. CASE q # s
    <3>1. Unraced(q) /\ did'[q] = did[q] /\ (q \in commandDone' <=> q \in commandDone)
      BY <1>7, <2>2 DEF IntakeInv
    <3>2. \A h \in HandlerIds : /\ AtWork(h, q)' <=> AtWork(h, q)
                                /\ AtWork(h, q) => handlers'[h] = handlers[h]
      BY <2>2 DEF AtWork, About
    <3>3. \A h \in HandlerIds : handlers'[h].at = "acted" /\ About(h)' = q <=> handlers[h].at = "acted" /\ About(h) = q
      BY <2>2 DEF About
    <3> QED
      BY <3>1, <3>2, <3>3 DEF Unraced
  <2> QED
    BY <2>1, <2>2
<1> QED
  BY <1>4, <1>5, <1>6, <1>7 DEF IntakeInv, SeenTo, About

\* A comment arrives; who finds the subject free has it alone.
LEMMA CommentArrivesKeeps ==
  ASSUME IntakeInv, NEW h \in HandlerIds, NEW d \in Deliveries, handlers[h].at = "free", CommentArrives(h, d)
  PROVE  IntakeInv'
<1> DEFINE s == SubjectOf[d]
<1>1. s \in Subjects /\ Comment(s) /\ hits' = hits /\ raced \subseteq raced' /\ IntakeTypes
      /\ (s \notin raced' => Busy(s) = {} /\ s \notin raced /\ Unraced(s))
  BY SubjectFacts DEF CommentArrives, Comment, IntakeInv
<1>2. \A k \in HandlerIds : Busy(s) = {} => ~AtWork(k, s)
  BY DEF Busy, AtWork
<1>3. CASE UNCHANGED <<handlers, did, declined, commandDone>>
  <2>1. /\ \A c \in Deliveries : deliveryRow[c] = "handled" => deliveryRow'[c] = "handled"
        /\ deliveryRow' \in [Deliveries -> {"none", "ignored", "handled"}]
        /\ \A c \in Deliveries : (deliveryRow'[c] = "handled" /\ deliveryRow[c] # "handled") \/ (c \in denied' /\ c \notin denied)
                                 => c = d
    BY <1>1, <1>3, SubjectFacts, Claims DEF CommentArrives, GoesTo, IntakeTypes, Duplicate
  <2>2. CASE KindOf[s] = "reply" /\ HasWebhookDelivery(d)
    <3>1. SeenTo(s)
      BY <2>2 DEF HasWebhookDelivery, IntakeInv
    <3>2. IntakeTypes'
      BY <1>1, <1>3, <2>1 DEF IntakeTypes
    <3>3. s \notin raced' => Unraced(s)'
      BY <1>1, <1>3 DEF Unraced, AtWork, About, Comment
    <3> QED
      BY <1>1, <1>3, <2>1, <3>1, <3>2, <3>3, AboutOne DEF SeenTo, IntakeTypes
  <2>3. CASE s \in commandDone
    <3>1. SeenTo(s)
      BY <2>3 DEF IntakeInv
    <3>2. IntakeTypes'
      BY <1>1, <1>3, <2>1 DEF IntakeTypes
    <3>3. s \notin raced' => Unraced(s)'
      BY <1>1, <1>3 DEF Unraced, AtWork, About, Comment
    <3> QED
      BY <1>1, <1>3, <2>1, <3>1, <3>2, <3>3, AboutOne DEF SeenTo, IntakeTypes
  <2>4. CASE GoesTo(h, d, "asking")
    <3>1. handlers'[h].at = "asking"
      BY <2>4, Handlers
    <3> QED
      BY <1>3, <3>1
  <2> QED
    BY <2>2, <2>3, <2>4 DEF CommentArrives
<1>4. CASE /\ s \notin commandDone /\ GoesTo(h, d, "asking")
           /\ UNCHANGED <<deliveryRow, commandDone, did, declined, denied>>
  <2>1. /\ handlers' \in [HandlerIds -> Request] /\ handlers'[h].at = "asking" /\ handlers'[h].delivery = d
        /\ \A k \in HandlerIds : k # h => handlers'[k] = handlers[k]
    BY <1>4, Handlers
  <2>2. IntakeTypes'
    BY <1>1, <1>4, <2>1 DEF IntakeTypes
  <2>3. ASSUME s \notin raced' PROVE Unraced(s)'
    <3>1. Unraced(s) /\ \A k \in HandlerIds : ~AtWork(k, s)
      BY <1>1, <1>2, <2>3
    <3>2. did[s] = 0
      <4>1. \A k \in HandlerIds : ~(handlers[k].at = "acted" /\ About(k) = s)
        BY <3>1 DEF AtWork
      <4>2. ~(did[s] > 0) /\ did[s] \in Nat
        BY <1>1, <1>4, <3>1, <4>1 DEF Unraced, IntakeTypes
      <4> QED
        BY <4>2
    <3>3. \A k \in HandlerIds : k # h => ~AtWork(k, s)'
      BY <2>1, <3>1 DEF AtWork, About
    <3> QED
      BY <1>1, <1>4, <3>2, <3>3 DEF Unraced, Comment, AtWork
  <2>4. s \in commandDone' => did'[s] > 0 \/ s \in declined'
    BY <1>4
  <2>5. handlers'[h].at = "acted" => did'[s] > 0
    BY <2>1
  <2> QED
    BY <1>1, <1>4, <2>1, <2>2, <2>3, <2>4, <2>5, AboutOne DEF IntakeTypes
<1> QED
  BY <1>3, <1>4 DEF CommentArrives, Duplicate, Still

LEMMA ClosedArrivesKeeps ==
  ASSUME IntakeInv, NEW h \in HandlerIds, NEW d \in Deliveries, ClosedArrives(h, d)
  PROVE  IntakeInv'
<1> DEFINE s == SubjectOf[d]
<1>1. /\ s \in Subjects /\ KindOf[s] = "closed" /\ ~Comment(s) /\ UNCHANGED <<handlers, hits, commandDone>>
      /\ IntakeTypes /\ \A c \in Deliveries : SubjectOf[c] = s => c = d
  BY SubjectFacts DEF ClosedArrives, Still, Comment, IntakeInv
<1>2. CASE HasWebhookDelivery(d) /\ Duplicate(d) /\ UNCHANGED <<deliveryRow, raced>>
  <2>1. SeenTo(s)
    BY <1>2 DEF HasWebhookDelivery, IntakeInv
  <2>2. IntakeTypes'
    BY <1>1, <1>2 DEF IntakeTypes, Duplicate
  <2>3. s \notin raced' => Unraced(s)'
    BY <1>1, <1>2 DEF Unraced, Duplicate, Comment, IntakeInv
  <2>4. \A c \in Deliveries : c \in denied' /\ c \notin denied => c = d
    BY <1>2 DEF Duplicate
  <2>5. did' = did /\ declined' = declined
    BY <1>2 DEF Duplicate
  <2> QED
    BY <1>1, <1>2, <2>1, <2>2, <2>3, <2>4, <2>5, AboutOne DEF SeenTo, IntakeTypes
<1>3. CASE /\ ~HasWebhookDelivery(d) /\ Does(s) /\ UNCHANGED <<declined, denied>>
           /\ \/ ClaimWebhookDelivery(d, "handled") /\ UNCHANGED raced
              \/ UNCHANGED deliveryRow /\ raced' = raced \union {s}
  <2>1. did' \in [Subjects -> Nat] /\ did'[s] = did[s] + 1 /\ did[s] \in Nat /\ \A q \in Subjects : q # s => did'[q] = did[q]
    BY <1>1, <1>3, ActsEffect
  <2>2. /\ deliveryRow' \in [Deliveries -> {"none", "ignored", "handled"}]
        /\ \A c \in Deliveries : deliveryRow[c] = "handled" => deliveryRow'[c] = "handled"
        /\ \A c \in Deliveries : deliveryRow'[c] = "handled" /\ deliveryRow[c] # "handled" => c = d
    BY <1>1, <1>3, Claims DEF IntakeTypes
  <2>3. IntakeTypes'
    BY <1>1, <2>1, <2>2 DEF IntakeTypes
  <2>4. ASSUME s \notin raced' PROVE Unraced(s)'
    <3>1. ClaimWebhookDelivery(d, "handled") /\ s \notin raced
      BY <1>3, <2>4
    <3>2. deliveryRow'[d] = "handled"
      BY <3>1, Claims
    <3>3. ~(did[s] > 0)
      BY <1>1, <1>3, <3>1 DEF IntakeInv, Unraced, HasWebhookDelivery
    <3>4. did'[s] <= 1
      BY <2>1, <3>3
    <3> QED
      BY <1>1, <3>2, <3>4 DEF Unraced, Comment
  <2>5. did'[s] > 0
    BY <2>1
  <2>6. raced \subseteq raced'
    BY <1>3
  <2>7. did'[s] >= did[s]
    BY <2>1
  <2> QED
    BY <1>1, <1>3, <2>1, <2>2, <2>3, <2>4, <2>5, <2>6, <2>7, AboutOne
<1> QED
  BY <1>2, <1>3 DEF ClosedArrives

LEMMA PushArrivesKeeps ==
  ASSUME IntakeInv, NEW h \in HandlerIds, NEW d \in Deliveries, handlers[h].at = "free", PushArrives(h, d)
  PROVE  IntakeInv'
<1> DEFINE s == SubjectOf[d]
<1>1. /\ s \in Subjects /\ KindOf[s] = "push" /\ ~Comment(s) /\ UNCHANGED <<raced, denied>> /\ IntakeTypes
      /\ RateLimit \in Nat
  BY SubjectFacts DEF PushArrives, Comment, IntakeInv
<1>2. CASE ClaimWebhookDelivery(d, "handled") /\ Declines(s) /\ Still(h) /\ UNCHANGED <<hits, commandDone, did>>
  <2>1. /\ deliveryRow' \in [Deliveries -> {"none", "ignored", "handled"}]
        /\ \A c \in Deliveries : deliveryRow[c] = "handled" => deliveryRow'[c] = "handled"
        /\ \A c \in Deliveries : deliveryRow'[c] = "handled" /\ deliveryRow[c] # "handled" => c = d
    BY <1>2, Claims
  <2>2. s \in declined' /\ declined \subseteq declined' /\ handlers' = handlers
    BY <1>2 DEF Declines, Still
  <2>3. IntakeTypes'
    BY <1>1, <1>2, <2>1, <2>2 DEF IntakeTypes
  <2>4. s \notin raced' => Unraced(s)'
    BY <1>1, <1>2 DEF Unraced, Comment, IntakeInv
  <2> QED
    BY <1>1, <1>2, <2>1, <2>2, <2>3, <2>4, AboutOne DEF IntakeTypes
<1>3. CASE Ignored(d) /\ Still(h) /\ UNCHANGED hits
  <2>1. /\ deliveryRow' \in [Deliveries -> {"none", "ignored", "handled"}]
        /\ \A c \in Deliveries : deliveryRow[c] = "handled" => deliveryRow'[c] = "handled"
        /\ \A c \in Deliveries : ~(deliveryRow'[c] = "handled" /\ deliveryRow[c] # "handled")
    BY <1>3, Claims DEF Ignored
  <2>2. UNCHANGED <<commandDone, did, declined, handlers>>
    BY <1>3 DEF Ignored, Still
  <2>3. IntakeTypes'
    BY <1>1, <1>3, <2>1, <2>2 DEF IntakeTypes
  <2>4. s \notin raced' => Unraced(s)'
    BY <1>1, <2>2 DEF Unraced, Comment, IntakeInv
  <2>5. s \in commandDone' => did'[s] > 0 \/ s \in declined'
    BY <2>2 DEF IntakeInv, SeenTo
  <2> QED
    BY <1>1, <2>1, <2>2, <2>3, <2>4, <2>5, AboutOne DEF IntakeTypes
<1>4. CASE /\ ~(RateLimit > 0 /\ hits >= RateLimit)
           /\ UNCHANGED <<deliveryRow, commandDone, declined>> /\ GoesTo(h, d, "acted")
           /\ IF did[s] > 0 THEN UNCHANGED <<did, hits>>
              ELSE Does(s) /\ hits' = IF RateLimit > 0 THEN hits + 1 ELSE hits
  <2>1. /\ handlers' \in [HandlerIds -> Request] /\ handlers'[h].at = "acted" /\ handlers'[h].delivery = d
        /\ \A k \in HandlerIds : k # h => handlers'[k] = handlers[k]
    BY <1>4, Handlers
  <2>2. /\ did' \in [Subjects -> Nat] /\ did'[s] > 0 /\ did'[s] >= did[s] /\ (did[s] > 0 => did'[s] = did[s])
        /\ (~(did[s] > 0) => did'[s] = 1)
        /\ \A q \in Subjects : q # s => did'[q] = did[q]
    <3>1. CASE did[s] > 0
      BY <1>1, <1>4, <3>1 DEF IntakeTypes
    <3>2. CASE ~(did[s] > 0)
      BY <1>1, <1>4, <3>2, ActsEffect
    <3> QED
      BY <3>1, <3>2
  <2>3. hits' \in Nat /\ (RateLimit > 0 => hits' <= RateLimit)
    BY <1>1, <1>4 DEF IntakeTypes
  <2>4. IntakeTypes'
    BY <1>1, <1>4, <2>1, <2>2, <2>3 DEF IntakeTypes
  <2>5. s \notin raced' => Unraced(s)'
    BY <1>1, <2>2 DEF Unraced, Comment, IntakeInv
  <2> QED
    BY <1>1, <1>4, <2>1, <2>2, <2>4, <2>5, AboutOne
<1> QED
  BY <1>2, <1>3, <1>4 DEF PushArrives

\* What a request knows of its subject, and that it has it alone if nobody raced.
LEMMA RequestFacts ==
  ASSUME IntakeInv, NEW h \in HandlerIds, handlers[h].at # "free"
  PROVE  /\ handlers[h].delivery \in Deliveries /\ About(h) \in Subjects /\ IntakeTypes /\ AtWork(h, About(h))
         /\ About(h) \notin raced => Unraced(About(h))
         /\ Comment(About(h)) /\ About(h) \notin raced =>
              /\ \A k \in HandlerIds : AtWork(k, About(h)) => k = h
              /\ About(h) \notin commandDone
              /\ handlers[h].at = "asking" => did[About(h)] = 0
<1>1. handlers[h].delivery \in Deliveries /\ About(h) \in Subjects /\ IntakeTypes /\ AtWork(h, About(h))
  BY SubjectFacts DEF IntakeInv, IntakeTypes, Request, About, AtWork
<1>2. About(h) \notin raced => Unraced(About(h))
  BY <1>1 DEF IntakeInv
<1> QED
  BY <1>1, <1>2 DEF Unraced

\* A request that leaves: its subject is free again, and done only with its claim.
LEMMA LeavesKeep ==
  ASSUME IntakeInv, NEW h \in HandlerIds, NEW d \in Deliveries, NEW s \in Subjects,
         handlers[h].at # "free", handlers[h].delivery = d, SubjectOf[d] = s, Releases(h),
         UNCHANGED <<did, hits, raced, denied>>, declined \subseteq declined',
         deliveryRow' \in [Deliveries -> {"none", "ignored", "handled"}],
         \A c \in Deliveries : deliveryRow[c] = "handled" => deliveryRow'[c] = "handled",
         \A c \in Deliveries : deliveryRow'[c] = "handled" /\ deliveryRow[c] # "handled" =>
                                 c = d /\ (did[s] > 0 \/ s \in declined'),
         commandDone' = commandDone \/ (commandDone' = commandDone \union {s} /\ (did[s] > 0 \/ s \in declined')),
         Comment(s) /\ handlers[h].at = "acted" => s \in commandDone'
  PROVE  IntakeInv'
<1>1. About(h) = s /\ IntakeTypes /\ (s \notin raced => Unraced(s)) /\ handlers[h].at \in {"asking", "acted"}
      /\ (Comment(s) /\ s \notin raced =>
              /\ \A k \in HandlerIds : AtWork(k, s) => k = h
              /\ handlers[h].at = "asking" => did[s] = 0)
  BY RequestFacts DEF About, IntakeTypes, Request
<1>2. /\ handlers' \in [HandlerIds -> Request] /\ handlers'[h].at = "free"
      /\ \A k \in HandlerIds : k # h => handlers'[k] = handlers[k]
  BY Handlers
<1>3. IntakeTypes'
  BY <1>1, <1>2 DEF IntakeTypes
<1>4. ASSUME s \notin raced' PROVE Unraced(s)'
  <2>1. Unraced(s)
    BY <1>1, <1>4
  <2>2. CASE Comment(s)
    <3>1. \A k \in HandlerIds : ~AtWork(k, s)'
      BY <1>1, <1>2, <1>4, <2>2 DEF AtWork, About
    <3>2. did'[s] > 0 => s \in commandDone'
      BY <1>1, <1>4, <2>2
    <3> QED
      BY <2>1, <2>2, <3>1, <3>2 DEF Unraced, Comment
  <2>3. CASE ~Comment(s)
    BY <2>1, <2>3 DEF Unraced, Comment
  <2> QED
    BY <2>2, <2>3
<1>5. s \in commandDone' => did'[s] > 0 \/ s \in declined'
  BY DEF IntakeInv, SeenTo
<1>6. did'[s] >= did[s] /\ \A q \in Subjects : q # s => did'[q] = did[q] /\ (q \in commandDone' <=> q \in commandDone)
  BY <1>1 DEF IntakeTypes
<1> QED
  BY <1>1, <1>2, <1>3, <1>4, <1>5, <1>6, AboutOne DEF About

LEMMA FinishesKeeps == ASSUME IntakeInv, NEW h \in HandlerIds, Finishes(h) PROVE IntakeInv'
<1>1. /\ handlers[h].at = "acted" /\ handlers[h].delivery \in Deliveries /\ About(h) \in Subjects /\ IntakeTypes
      /\ did[About(h)] > 0
  BY RequestFacts DEF Finishes, IntakeInv
<1>2. PICK d \in Deliveries, s \in Subjects : handlers[h].delivery = d /\ About(h) = s /\ SubjectOf[d] = s
  BY <1>1 DEF About
<1>3. ClaimWebhookDelivery(d, "handled") /\ ClaimReviewCommand(s) /\ Releases(h)
      /\ UNCHANGED <<did, hits, raced, denied, declined>>
  BY <1>2 DEF Finishes
<1>4. commandDone' = IF Comment(s) THEN commandDone \union {s} ELSE commandDone
  BY <1>3 DEF ClaimReviewCommand, Comment
<1>5. did[s] > 0
  BY <1>1, <1>2
<1>6. /\ deliveryRow' \in [Deliveries -> {"none", "ignored", "handled"}]
      /\ \A c \in Deliveries : deliveryRow[c] = "handled" => deliveryRow'[c] = "handled"
      /\ \A c \in Deliveries : deliveryRow'[c] = "handled" /\ deliveryRow[c] # "handled" => c = d
  BY <1>3, Claims
<1> QED
  BY <1>1, <1>2, <1>3, <1>4, <1>5, <1>6, LeavesKeep

LEMMA AsksKeeps == ASSUME IntakeInv, NEW h \in HandlerIds, Asks(h) PROVE IntakeInv'
<1>1. /\ handlers[h].at = "asking" /\ handlers[h].delivery \in Deliveries /\ About(h) \in Subjects /\ IntakeTypes
      /\ Comment(About(h))
  BY RequestFacts DEF Asks, IntakeInv
<1>2. PICK d \in Deliveries, s \in Subjects : handlers[h].delivery = d /\ About(h) = s /\ SubjectOf[d] = s
  BY <1>1 DEF About
<1>3. UNCHANGED <<hits, raced>> /\ Comment(s)
  BY <1>1, <1>2 DEF Asks
<1>4. CASE Ignored(d) /\ Releases(h)
  <2>1. /\ deliveryRow' \in [Deliveries -> {"none", "ignored", "handled"}]
        /\ \A c \in Deliveries : deliveryRow[c] = "handled" => deliveryRow'[c] = "handled"
        /\ \A c \in Deliveries : ~(deliveryRow'[c] = "handled" /\ deliveryRow[c] # "handled")
    BY <1>4, Claims DEF Ignored
  <2> QED
    BY <1>1, <1>2, <1>3, <1>4, <2>1, LeavesKeep DEF Ignored
<1>5. CASE Releases(h) /\ UNCHANGED <<deliveryRow, commandDone, did, declined, denied>>
  BY <1>1, <1>2, <1>3, <1>5, LeavesKeep DEF IntakeTypes
<1>6. CASE /\ ClaimWebhookDelivery(d, "handled") /\ Declines(s) /\ Releases(h)
           /\ IF KindOf[s] = "review" THEN ClaimReviewCommand(s) ELSE UNCHANGED commandDone
           /\ UNCHANGED <<did, denied>>
  <2>1. /\ deliveryRow' \in [Deliveries -> {"none", "ignored", "handled"}]
        /\ \A c \in Deliveries : deliveryRow[c] = "handled" => deliveryRow'[c] = "handled"
        /\ \A c \in Deliveries : deliveryRow'[c] = "handled" /\ deliveryRow[c] # "handled" => c = d
    BY <1>6, Claims
  <2>2. /\ s \in declined' /\ declined \subseteq declined'
        /\ commandDone' = commandDone \/ commandDone' = commandDone \union {s}
    BY <1>6 DEF Declines, ClaimReviewCommand
  <2>3. Releases(h) /\ UNCHANGED <<did, hits, raced, denied>> /\ handlers[h].at # "free"
        /\ ~(Comment(s) /\ handlers[h].at = "acted")
    BY <1>1, <1>3, <1>6
  <2> QED
    BY <1>2, <2>1, <2>2, <2>3, LeavesKeep
<1>7. CASE /\ Does(s) /\ GoesTo(h, d, "acted")
           /\ UNCHANGED <<deliveryRow, commandDone, declined, denied>>
  <2>1. /\ handlers' \in [HandlerIds -> Request] /\ handlers'[h].at = "acted" /\ handlers'[h].delivery = d
        /\ \A k \in HandlerIds : k # h => handlers'[k] = handlers[k]
    BY <1>7, Handlers
  <2>2. did' \in [Subjects -> Nat] /\ did'[s] = did[s] + 1 /\ did[s] \in Nat /\ \A q \in Subjects : q # s => did'[q] = did[q]
    BY <1>7, ActsEffect
  <2>3. IntakeTypes'
    BY <1>1, <1>3, <1>7, <2>1, <2>2 DEF IntakeTypes
  <2>4. ASSUME s \notin raced' PROVE Unraced(s)'
    <3>1. did[s] = 0 /\ s \notin commandDone /\ \A k \in HandlerIds : AtWork(k, s) => k = h
      BY <1>1, <1>2, <1>3, <2>4, RequestFacts
    <3>2. \A k \in HandlerIds : AtWork(k, s)' => k = h
      BY <2>1, <3>1 DEF AtWork, About
    <3>3. handlers'[h].at = "acted" /\ About(h)' = s
      BY <1>2, <2>1 DEF About
    <3> QED
      BY <1>3, <1>7, <2>2, <3>1, <3>2, <3>3 DEF Unraced, Comment
  <2>5. did'[s] > 0 /\ did'[s] >= did[s]
    BY <2>2
  <2> QED
    BY <1>1, <1>2, <1>3, <1>7, <2>1, <2>2, <2>3, <2>4, <2>5, AboutOne DEF About
<1> QED
  BY <1>2, <1>4, <1>5, <1>6, <1>7 DEF Asks

\* A death forgets the requests; those that had acted were cut short.
LEMMA IntakeDiesKeeps == ASSUME IntakeInv, IntakeDies PROVE IntakeInv'
<1>1. /\ handlers' = [h \in HandlerIds |-> Free] /\ hits' = 0
      /\ raced' = raced \union {About(h) : h \in {g \in HandlerIds : handlers[g].at = "acted"}}
      /\ UNCHANGED <<deliveryRow, commandDone, did, declined, denied>> /\ IntakeTypes
  BY DEF IntakeDies, IntakeInv
<1>2. \A h \in HandlerIds : handlers'[h].at = "free"
  BY <1>1, SubjectFacts
<1>3. IntakeTypes'
  BY <1>1, SubjectFacts DEF IntakeTypes
<1>4. ASSUME NEW s \in Subjects \ raced' PROVE Unraced(s)'
  <2>1. Unraced(s) /\ \A h \in HandlerIds : ~(handlers[h].at = "acted" /\ About(h) = s)
    BY <1>1, <1>4 DEF IntakeInv
  <2>2. Comment(s) /\ did[s] > 0 => s \in commandDone
    BY <2>1 DEF Unraced
  <2>3. \A h \in HandlerIds : ~AtWork(h, s)'
    BY <1>2 DEF AtWork
  <2> QED
    BY <1>1, <2>1, <2>2, <2>3 DEF Unraced, Comment
<1> QED
  BY <1>1, <1>2, <1>3, <1>4 DEF IntakeInv, SeenTo

\* No step breaks the invariant.
LEMMA IntakeNextKeeps == IntakeInv /\ [IntakeNext]_intakeVars => IntakeInv'
<1> SUFFICES ASSUME IntakeInv, [IntakeNext]_intakeVars PROVE IntakeInv'
  OBVIOUS
<1>1. ASSUME NEW h \in HandlerIds, NEW d \in Deliveries, Arrives(h, d) PROVE IntakeInv'
  BY <1>1, CommentArrivesKeeps, ClosedArrivesKeeps, PushArrivesKeeps DEF Arrives
<1>2. ASSUME NEW h \in HandlerIds, Asks(h) \/ Finishes(h) PROVE IntakeInv'
  BY <1>2, AsksKeeps, FinishesKeeps
<1>3. CASE IntakeDies
  BY <1>3, IntakeDiesKeeps
<1>4. CASE /\ UNCHANGED <<deliveryRow, commandDone, handlers, did, declined, raced, denied>>
           /\ hits' = hits \/ (hits > 0 /\ hits' = hits - 1)
  <2>1. IntakeTypes'
    BY <1>4, SubjectFacts DEF IntakeInv, IntakeTypes
  <2>2. \A s \in Subjects : Unraced(s) => Unraced(s)'
    BY <1>4 DEF Unraced, AtWork, About, Comment
  <2> QED
    BY <1>4, <2>1, <2>2 DEF IntakeInv, SeenTo, About, Comment
<1> QED
  BY <1>1, <1>2, <1>3, <1>4 DEF IntakeNext, PauseSwitched, HitExpires, intakeVars

\* Whatever comes again, whenever the process dies: a subject is done once
\* unless requests raced for it, and a claim stands for something done or
\* refused (claimWebhookDelivery, claimReviewCommand and their callers).
THEOREM ActsOnceAlways == IntakeSpec => []ActsOnce
<1>1. IntakeInv => ActsOnce
  BY DEF IntakeInv, IntakeTypes, ActsOnce, HasWebhookDelivery, SeenTo, Unraced
<1> QED
  BY <1>1, IntakeStarts, IntakeNextKeeps, PTL DEF IntakeSpec

-----------------------------------------------------------------------------
(* What goes out *)

PageRow == [status : {"none", "dispatching", "dispatched", "dispatch_failed"}, job : DispatchJobs \union {0}]
Sending(j) == sender[j].at \in {"list", "call"}

\* The comments that are promised once.
Once == TargetSet \ (Webhooks \union Spaced \union overlapped)

PageTypes ==
  /\ pageRows \in [TargetSet -> PageRow] /\ pages \in [TargetSet -> Nat] /\ overlapped \subseteq TargetSet
  /\ DOMAIN jobPage = DispatchJobs /\ \A j \in DispatchJobs : DOMAIN jobPage[j] = {"state", "manual", "status"}
  /\ DOMAIN sender = DispatchJobs
  /\ \A j \in DispatchJobs : /\ DOMAIN sender[j] = {"at", "i", "errors"}
                             /\ sender[j].at \in {"idle", "queued", "list", "call"}
                             /\ Sending(j) => sender[j].i \in DOMAIN Targets

\* A job that calls has paged the targets behind it, unless it had errors.
Behind(j) == Sending(j) /\ ~sender[j].errors => \A k \in DOMAIN Targets : k < sender[j].i => pages[Targets[k]] > 0

\* A comment promised once is posted at most once, by one job at a time, which
\* has seen that it is not there.
PostedOnce(t) ==
  /\ pages[t] <= 1
  /\ \A j \in DispatchJobs : sender[j].at = "call" /\ Targets[sender[j].i] = t => pages[t] = 0
  /\ \A i, j \in DispatchJobs :
       (Sending(i) /\ Targets[sender[i].i] = t) /\ (Sending(j) /\ Targets[sender[j].i] = t) => i = j

PageInv ==
  /\ PageTypes
  /\ \A t \in TargetSet : pageRows[t].status = "dispatched" => pages[t] > 0
  /\ \A j \in DispatchJobs : jobPage[j].status = "dispatched" => \A t \in TargetSet : pages[t] > 0
  /\ \A j \in DispatchJobs : Behind(j)
  /\ \A t \in Once : PostedOnce(t)

LEMMA TargetFacts ==
  /\ Len(Targets) \in Nat /\ DOMAIN Targets = 1..Len(Targets)
  /\ \A k \in DOMAIN Targets : Targets[k] \in TargetSet
  /\ \A t \in TargetSet : \E k \in DOMAIN Targets : Targets[k] = t
BY DispatchAssumption DEF TargetSet

LEMMA DispatchesStart == DispatchesInit => PageInv
<1> SUFFICES ASSUME DispatchesInit PROVE PageInv
  OBVIOUS
<1>1. /\ \A j \in DispatchJobs : sender[j].at \in {"idle", "queued"} /\ DOMAIN sender[j] = {"at", "i", "errors"}
      /\ DOMAIN sender = DispatchJobs
  BY DEF DispatchesInit, NoSender
<1>2. /\ DOMAIN jobPage = DispatchJobs
      /\ \A j \in DispatchJobs : jobPage[j].status = "not_requested" /\ DOMAIN jobPage[j] = {"state", "manual", "status"}
  BY DEF DispatchesInit
<1>3. /\ pageRows \in [TargetSet -> PageRow] /\ \A t \in TargetSet : pageRows[t].status = "none"
      /\ pages \in [TargetSet -> Nat] /\ \A t \in TargetSet : pages[t] = 0
      /\ overlapped = {}
  BY DEF DispatchesInit, PageRow
<1>4. PageTypes
  BY <1>1, <1>2, <1>3 DEF PageTypes, Sending
<1>5. \A j \in DispatchJobs : ~Sending(j) /\ sender[j].at # "call"
  BY <1>1 DEF Sending
<1>6. \A j \in DispatchJobs : Behind(j)
  BY <1>5 DEF Behind
<1>7. \A t \in Once : PostedOnce(t)
  <2> SUFFICES ASSUME NEW t \in TargetSet PROVE PostedOnce(t)
    BY DEF Once
  <2>1. pages[t] = 0
    BY <1>3
  <2> QED
    BY <1>5, <2>1 DEF PostedOnce
<1> QED
  BY <1>2, <1>3, <1>4, <1>6, <1>7 DEF PageInv

\* What the loop over the targets does from index i on.
LEMMA LoopEffect ==
  ASSUME PageInv, NEW j \in DispatchJobs, NEW prs \in [TargetSet -> PageRow], NEW i \in Nat \ {0}, NEW errors,
         Loops(j, prs, i, errors)
  PROVE  \/ /\ pageRows' = prs /\ sender' = [sender EXCEPT ![j] = NoSender] /\ UNCHANGED <<jobPage, overlapped>>
         \/ /\ \A k \in DOMAIN Targets : k >= i => prs[Targets[k]].status = "dispatched"
            /\ pageRows' = prs /\ sender' = [sender EXCEPT ![j] = NoSender] /\ UNCHANGED overlapped
            /\ jobPage' = [jobPage EXCEPT ![j].status = IF errors THEN "dispatch_failed" ELSE "dispatched",
                                          ![j].state = IF @ = "dead" THEN @ ELSE "completed"]
         \/ \E k \in DOMAIN Targets :
              LET t == Targets[k]
              IN  /\ k >= i /\ \A n \in DOMAIN Targets : n >= i /\ n < k => prs[Targets[n]].status = "dispatched"
                  /\ pageRows' = [prs EXCEPT ![t] = [status |-> "dispatching", job |-> IF @.job = 0 THEN j ELSE @.job]]
                  /\ sender' = [sender EXCEPT ![j] = [at |-> IF t \in Webhooks THEN "call" ELSE "list", i |-> k, errors |-> errors]]
                  /\ jobPage' = [jobPage EXCEPT ![j].status = "dispatching"]
                  /\ overlapped' = overlapped \union
                       {u \in {t} : \E o \in DispatchJobs \ {j} : Sending(o) /\ Targets[sender[o].i] = u}
<1> DEFINE rest == {k \in i..Len(Targets) : Claimable(prs[Targets[k]])}
           k    == CHOOSE m \in rest : \A n \in rest : m <= n
<1>1. rest \in SUBSET Nat /\ \A n \in DOMAIN Targets : n >= i => (n \in rest <=> prs[Targets[n]].status # "dispatched")
  BY TargetFacts DEF Claimable
<1>2. CASE rest = {}
  BY <1>1, <1>2 DEF Loops
<1>3. CASE rest # {}
  <2>1. \E m \in rest : \A n \in rest : m <= n
    BY <1>1, <1>3, LeastOf
  <2>2. k \in rest /\ \A n \in rest : k <= n
    BY <2>1
  <2>3. k \in DOMAIN Targets /\ k >= i /\ k \in Nat
    BY <2>2, TargetFacts
  <2>4. \A n \in DOMAIN Targets : n >= i /\ n < k => prs[Targets[n]].status = "dispatched"
    BY <1>1, <2>2, <2>3, TargetFacts
  <2> QED
    BY <1>3, <2>3, <2>4 DEF Loops, Sending
<1> QED
  BY <1>2, <1>3

\* A step that sends nothing and takes up nothing: what j is at may only end.
LEMMA PageRest ==
  ASSUME PageInv, DOMAIN jobPage' = DispatchJobs, DOMAIN sender' = DispatchJobs,
         pages' = pages, pageRows' = pageRows, overlapped' = overlapped,
         \A j \in DispatchJobs : /\ DOMAIN jobPage'[j] = {"state", "manual", "status"}
                                 /\ jobPage'[j].status = jobPage[j].status \/ jobPage'[j].status = "dispatch_failed"
                                 /\ sender'[j] = sender[j]
                                    \/ (DOMAIN sender'[j] = {"at", "i", "errors"} /\ sender'[j].at \in {"idle", "queued"})
  PROVE  PageInv'
<1>1. PageTypes'
  BY DEF PageInv, PageTypes, Sending
<1>2. \A j \in DispatchJobs : sender'[j] = sender[j] \/ ~(sender'[j].at \in {"list", "call"})
  OBVIOUS
<1>3. \A j \in DispatchJobs : Behind(j)'
  BY <1>2 DEF PageInv, Behind, Sending
<1>4. \A t \in Once' : PostedOnce(t)'
  <2> SUFFICES ASSUME NEW t \in Once PROVE PostedOnce(t)'
    BY DEF Once
  <2>1. PostedOnce(t)
    BY DEF PageInv
  <2> QED
    BY <1>2, <2>1 DEF PostedOnce, Sending
<1> QED
  BY <1>1, <1>3, <1>4 DEF PageInv

\* The loop of job j goes on, after a page or not, over rows that say
\* "dispatched" only of targets that were paged.
LEMMA LoopKeeps ==
  ASSUME PageInv, NEW j \in DispatchJobs, NEW prs \in [TargetSet -> PageRow], NEW i \in Nat \ {0}, NEW errors,
         Loops(j, prs, i, errors), pages' \in [TargetSet -> Nat],
         \A t \in TargetSet : pages'[t] >= pages[t],
         \A t \in TargetSet : prs[t].status = "dispatched" => pages'[t] > 0,
         ~errors => \A k \in DOMAIN Targets : k < i => pages'[Targets[k]] > 0,
         \A t \in Once : pages'[t] <= 1,
         \A t \in Once : \A o \in DispatchJobs \ {j} :
           sender[o].at = "call" /\ Targets[sender[o].i] = t => pages'[t] = 0
  PROVE  PageInv'
<1>1. /\ PageTypes /\ \A t \in TargetSet : pages[t] \in Nat /\ pages'[t] \in Nat
      /\ \A t \in TargetSet : pages[t] > 0 => pages'[t] > 0
  <2>1. PageTypes /\ \A t \in TargetSet : pages[t] \in Nat /\ pages'[t] \in Nat
    BY DEF PageInv, PageTypes
  <2> QED
    BY <2>1
<1>2. ASSUME pageRows' = prs, sender' = [sender EXCEPT ![j] = NoSender], overlapped' = overlapped,
             DOMAIN jobPage' = DispatchJobs,
             \A o \in DispatchJobs : /\ DOMAIN jobPage'[o] = {"state", "manual", "status"}
                                     /\ jobPage'[o].status = "dispatched" => \A t \in TargetSet : pages'[t] > 0
      PROVE  PageInv'
  <2>1. /\ DOMAIN sender' = DispatchJobs /\ \A o \in DispatchJobs \ {j} : sender'[o] = sender[o]
        /\ sender'[j].at = "idle" /\ DOMAIN sender'[j] = {"at", "i", "errors"}
    BY <1>1, <1>2 DEF PageTypes, NoSender
  <2>2. PageTypes'
    BY <1>1, <1>2, <2>1 DEF PageTypes, Sending
  <2>3. \A o \in DispatchJobs : Behind(o)'
    <3> SUFFICES ASSUME NEW o \in DispatchJobs \ {j} PROVE Behind(o)'
      BY <2>1 DEF Behind, Sending
    <3>1. Behind(o)
      BY DEF PageInv
    <3> QED
      BY <1>1, <2>1, <3>1, TargetFacts DEF Behind, Sending
  <2>4. \A t \in Once' : PostedOnce(t)'
    <3> SUFFICES ASSUME NEW t \in Once PROVE PostedOnce(t)'
      BY <1>2 DEF Once
    <3>1. PostedOnce(t)
      BY DEF PageInv
    <3> QED
      BY <2>1, <3>1 DEF PostedOnce, Sending
  <2> QED
    BY <1>2, <2>2, <2>3, <2>4 DEF PageInv
<1>3. CASE pageRows' = prs /\ sender' = [sender EXCEPT ![j] = NoSender] /\ UNCHANGED <<jobPage, overlapped>>
  <2>1. \A o \in DispatchJobs : jobPage[o].status = "dispatched" => \A t \in TargetSet : pages'[t] > 0
    BY <1>1 DEF PageInv
  <2> QED
    BY <1>1, <1>2, <1>3, <2>1 DEF PageTypes
<1>4. CASE /\ \A k \in DOMAIN Targets : k >= i => prs[Targets[k]].status = "dispatched"
           /\ pageRows' = prs /\ sender' = [sender EXCEPT ![j] = NoSender] /\ UNCHANGED overlapped
           /\ jobPage' = [jobPage EXCEPT ![j].status = IF errors THEN "dispatch_failed" ELSE "dispatched",
                                         ![j].state = IF @ = "dead" THEN @ ELSE "completed"]
  <2>1. /\ DOMAIN jobPage' = DispatchJobs /\ \A o \in DispatchJobs \ {j} : jobPage'[o] = jobPage[o]
        /\ DOMAIN jobPage'[j] = {"state", "manual", "status"}
        /\ errors => jobPage'[j].status = "dispatch_failed"
    BY <1>1, <1>4 DEF PageTypes
  <2>2. ~errors => \A t \in TargetSet : pages'[t] > 0
    <3> SUFFICES ASSUME ~errors, NEW t \in TargetSet PROVE pages'[t] > 0
      OBVIOUS
    <3>1. PICK k \in DOMAIN Targets : Targets[k] = t
      BY TargetFacts
    <3>2. k \in Int
      BY TargetFacts
    <3>3. CASE k < i
      BY <3>1, <3>3
    <3>4. CASE k >= i
      BY <1>4, <3>1, <3>4
    <3> QED
      BY <3>2, <3>3, <3>4
  <2>3. \A o \in DispatchJobs : jobPage'[o].status = "dispatched" => \A t \in TargetSet : pages'[t] > 0
    <3>1. \A o \in DispatchJobs : jobPage[o].status = "dispatched" => \A t \in TargetSet : pages'[t] > 0
      BY <1>1 DEF PageInv
    <3> QED
      BY <2>1, <2>2, <3>1
  <2> QED
    BY <1>1, <1>2, <1>4, <2>1, <2>3 DEF PageTypes
<1>5. ASSUME NEW k \in DOMAIN Targets, NEW t \in TargetSet, t = Targets[k], k >= i,
             \A n \in DOMAIN Targets : n >= i /\ n < k => prs[Targets[n]].status = "dispatched",
             pageRows' = [prs EXCEPT ![t] = [status |-> "dispatching", job |-> IF @.job = 0 THEN j ELSE @.job]],
             sender' = [sender EXCEPT ![j] = [at |-> IF t \in Webhooks THEN "call" ELSE "list", i |-> k, errors |-> errors]],
             jobPage' = [jobPage EXCEPT ![j].status = "dispatching"],
             overlapped' = overlapped \union
               {u \in {t} : \E o \in DispatchJobs \ {j} : Sending(o) /\ Targets[sender[o].i] = u}
      PROVE  PageInv'
  <2>1. /\ DOMAIN sender' = DispatchJobs /\ \A o \in DispatchJobs \ {j} : sender'[o] = sender[o]
        /\ sender'[j].at = (IF t \in Webhooks THEN "call" ELSE "list") /\ DOMAIN sender'[j] = {"at", "i", "errors"}
        /\ sender'[j].i = k /\ sender'[j].errors = errors
    BY <1>1, <1>5 DEF PageTypes
  <2>2. /\ pageRows' \in [TargetSet -> PageRow]
        /\ \A u \in TargetSet : pageRows'[u].status = "dispatched" => prs[u].status = "dispatched"
    <3>1. [status |-> "dispatching", job |-> IF prs[t].job = 0 THEN j ELSE prs[t].job] \in PageRow
      BY <1>5 DEF PageRow, DispatchJobs
    <3> QED
      BY <1>5, <3>1
  <2>3. /\ DOMAIN jobPage' = DispatchJobs
        /\ \A o \in DispatchJobs : /\ DOMAIN jobPage'[o] = {"state", "manual", "status"}
                                   /\ jobPage'[o].status = "dispatched" => jobPage[o].status = "dispatched"
    BY <1>1, <1>5 DEF PageTypes
  <2>4. overlapped' \subseteq TargetSet /\ overlapped \subseteq overlapped'
    BY <1>1, <1>5 DEF PageTypes
  <2>5. PageTypes'
    BY <1>1, <1>5, <2>1, <2>2, <2>3, <2>4 DEF PageTypes, Sending
  <2>6. \A o \in DispatchJobs : Behind(o)'
    <3>1. ASSUME NEW o \in DispatchJobs \ {j} PROVE Behind(o)'
      <4>1. Behind(o)
        BY DEF PageInv
      <4> QED
        BY <1>1, <2>1, <4>1, TargetFacts DEF Behind, Sending
    <3>2. Behind(j)'
      <4>1. ASSUME ~errors, NEW n \in DOMAIN Targets, n < k PROVE pages'[Targets[n]] > 0
        <5>1. n \in Int /\ Targets[n] \in TargetSet
          BY TargetFacts
        <5>2. CASE n < i
          BY <4>1, <5>2
        <5>3. CASE n >= i
          BY <1>5, <4>1, <5>1, <5>3
        <5> QED
          BY <5>1, <5>2, <5>3
      <4> QED
        BY <2>1, <4>1 DEF Behind, Sending
    <3> QED
      BY <3>1, <3>2
  <2>7. \A u \in Once' : PostedOnce(u)'
    <3> SUFFICES ASSUME NEW u \in Once', u \in Once PROVE PostedOnce(u)'
      BY <2>4 DEF Once
    <3>1. PostedOnce(u)
      BY DEF PageInv
    <3>2. u = t => sender'[j].at = "list" /\ \A o \in DispatchJobs \ {j} : ~(Sending(o) /\ Targets[sender[o].i] = t)
      BY <1>5, <2>1 DEF Once
    <3>3. \A o \in DispatchJobs : sender'[o].at = "call" /\ Targets[sender'[o].i] = u => pages'[u] = 0
      BY <1>5, <2>1, <3>2
    <3>4. \A o \in DispatchJobs \ {j} : sender'[o].at \in {"list", "call"} /\ Targets[sender'[o].i] = u => u # t
      BY <2>1, <3>2 DEF Sending
    <3>5. \A o \in DispatchJobs : sender'[o].at \in {"list", "call"} /\ Targets[sender'[o].i] = u =>
                                    IF u = t THEN o = j ELSE o # j /\ Sending(o) /\ Targets[sender[o].i] = u
      BY <1>5, <2>1, <3>4 DEF Sending
    <3> QED
      BY <3>1, <3>3, <3>5 DEF PostedOnce, Sending
  <2>8. \A o \in DispatchJobs : jobPage'[o].status = "dispatched" => \A u \in TargetSet : pages'[u] > 0
    BY <1>1, <2>3 DEF PageInv
  <2> QED
    BY <2>2, <2>5, <2>6, <2>7, <2>8 DEF PageInv
<1>6. CASE \E k \in DOMAIN Targets :
              LET t == Targets[k]
              IN  /\ k >= i /\ \A n \in DOMAIN Targets : n >= i /\ n < k => prs[Targets[n]].status = "dispatched"
                  /\ pageRows' = [prs EXCEPT ![t] = [status |-> "dispatching", job |-> IF @.job = 0 THEN j ELSE @.job]]
                  /\ sender' = [sender EXCEPT ![j] = [at |-> IF t \in Webhooks THEN "call" ELSE "list", i |-> k, errors |-> errors]]
                  /\ jobPage' = [jobPage EXCEPT ![j].status = "dispatching"]
                  /\ overlapped' = overlapped \union
                       {u \in {t} : \E o \in DispatchJobs \ {j} : Sending(o) /\ Targets[sender[o].i] = u}
  <2>1. \A k \in DOMAIN Targets : Targets[k] \in TargetSet
    BY TargetFacts
  <2> QED
    BY <1>5, <1>6, <2>1
<1> QED
  BY <1>3, <1>4, <1>6, LoopEffect

\* A page was sent or not: job j sends to the next target, with status for this.
LEMMA SendsOn ==
  ASSUME PageInv, NEW j \in DispatchJobs, Sending(j), NEW status \in {"dispatched", "dispatch_failed"}, NEW errors,
         Loops(j, RowIs(CurrentTarget(j), status), sender[j].i + 1, errors),
         status = "dispatch_failed" => errors, sender[j].errors => errors,
         pages' = pages \/ (sender[j].at = "call" /\ pages' = [pages EXCEPT ![CurrentTarget(j)] = @ + 1]),
         status = "dispatched" => pages'[CurrentTarget(j)] > 0
  PROVE  PageInv'
<1> DEFINE c == CurrentTarget(j)
           prs == RowIs(c, status)
           i == sender[j].i
<1>1. /\ PageTypes /\ i \in DOMAIN Targets /\ c \in TargetSet /\ i \in Nat /\ i + 1 \in Nat \ {0} /\ Targets[i] = c
      /\ \A k \in DOMAIN Targets : k \in Int
  BY TargetFacts DEF PageInv, PageTypes, CurrentTarget
<1>2. /\ prs \in [TargetSet -> PageRow]
      /\ \A t \in TargetSet : prs[t].status = IF t = c THEN status ELSE pageRows[t].status
  BY <1>1 DEF RowIs, PageTypes, PageRow
<1>3. /\ pages' \in [TargetSet -> Nat] /\ pages \in [TargetSet -> Nat]
      /\ \A t \in TargetSet : t # c => pages'[t] = pages[t]
      /\ pages'[c] = pages[c] \/ (sender[j].at = "call" /\ pages'[c] = pages[c] + 1)
  BY <1>1 DEF PageTypes
<1> HIDE DEF c, prs, i
<1>4. \A t \in TargetSet : pages'[t] >= pages[t] /\ pages[t] \in Nat
  BY <1>1, <1>3
<1>5. \A t \in TargetSet : prs[t].status = "dispatched" => pages'[t] > 0
  <2> SUFFICES ASSUME NEW t \in TargetSet, prs[t].status = "dispatched" PROVE pages'[t] > 0
    OBVIOUS
  <2>1. CASE t = c
    BY <1>2, <2>1 DEF c
  <2>2. CASE t # c
    <3>1. pages[t] > 0
      BY <1>2, <2>2 DEF PageInv
    <3> QED
      BY <1>3, <2>2, <3>1
  <2> QED
    BY <2>1, <2>2
<1>6. ~errors => \A k \in DOMAIN Targets : k < i + 1 => pages'[Targets[k]] > 0
  <2> SUFFICES ASSUME ~errors, NEW k \in DOMAIN Targets, k < i + 1 PROVE pages'[Targets[k]] > 0
    OBVIOUS
  <2>1. status = "dispatched" /\ pages'[c] > 0
    BY DEF c
  <2>2. CASE k = i
    BY <1>1, <2>1, <2>2
  <2>3. CASE k # i
    <3>1. k < i
      BY <1>1, <2>3
    <3>2. ~sender[j].errors
      OBVIOUS
    <3>3. Behind(j)
      BY DEF PageInv
    <3>4. pages[Targets[k]] > 0
      BY <3>1, <3>2, <3>3 DEF Behind, i
    <3>5. Targets[k] \in TargetSet
      BY TargetFacts
    <3> QED
      BY <1>4, <1>3, <3>4, <3>5
  <2> QED
    BY <2>2, <2>3
<1>7. ASSUME NEW t \in Once
      PROVE  /\ pages'[t] <= 1
             /\ \A o \in DispatchJobs \ {j} : sender[o].at = "call" /\ Targets[sender[o].i] = t => pages'[t] = 0
  <2>1. PostedOnce(t) /\ t \in TargetSet
    BY DEF PageInv, Once
  <2>2. CASE t # c
    BY <1>3, <2>1, <2>2 DEF PostedOnce
  <2>3. CASE t = c
    <3>1. \A o \in DispatchJobs \ {j} : ~(sender[o].at = "call" /\ Targets[sender[o].i] = t)
      BY <1>1, <2>1, <2>3 DEF PostedOnce, Sending, i
    <3>2. sender[j].at = "call" => pages[t] = 0
      BY <1>1, <2>1, <2>3 DEF PostedOnce, i
    <3>3. pages[t] <= 1 /\ pages[t] \in Nat
      BY <1>4, <2>1 DEF PostedOnce
    <3> QED
      BY <1>3, <2>3, <3>1, <3>2, <3>3
  <2> QED
    BY <2>2, <2>3
<1>8. Loops(j, prs, i + 1, errors)
  BY DEF prs, c, i
<1> QED
  BY <1>1, <1>2, <1>3, <1>4, <1>5, <1>6, <1>7, <1>8, LoopKeeps

LEMMA RunDispatchesKeeps == ASSUME PageInv, NEW j \in DispatchJobs, RunDispatches(j) PROVE PageInv'
<1>1. PageTypes /\ sender[j].at = "queued" /\ pages' = pages
  BY DEF PageInv, RunDispatches
<1>2. CASE Loops(j, pageRows, 1, FALSE)
  <2>1. pageRows \in [TargetSet -> PageRow] /\ pages \in [TargetSet -> Nat] /\ \A t \in TargetSet : pages[t] >= pages[t]
    BY <1>1 DEF PageTypes
  <2>2. \A t \in Once : pages[t] <= 1 /\ \A o \in DispatchJobs : sender[o].at = "call" /\ Targets[sender[o].i] = t => pages[t] = 0
    BY DEF PageInv, PostedOnce
  <2>3. \A k \in DOMAIN Targets : ~(k < 1)
    BY TargetFacts
  <2>4. \A t \in TargetSet : pageRows[t].status = "dispatched" => pages[t] > 0
    BY DEF PageInv
  <2>5. 1 \in Nat \ {0}
    OBVIOUS
  <2> QED
    BY <1>1, <1>2, <2>1, <2>2, <2>3, <2>4, <2>5, LoopKeeps
<1>3. CASE /\ sender' = [sender EXCEPT ![j] = NoSender] /\ UNCHANGED <<pageRows, overlapped>>
           /\ \/ jobPage' = [jobPage EXCEPT ![j].state = IF @ = "dead" THEN @ ELSE "completed"]
              \/ jobPage' = [jobPage EXCEPT ![j].status = "dispatch_failed", ![j].state = "completed"]
  <2>1. /\ DOMAIN sender' = DispatchJobs /\ \A o \in DispatchJobs \ {j} : sender'[o] = sender[o]
        /\ sender'[j].at = "idle" /\ DOMAIN sender'[j] = {"at", "i", "errors"}
    BY <1>1, <1>3 DEF PageTypes, NoSender
  <2>2. /\ DOMAIN jobPage' = DispatchJobs
        /\ \A o \in DispatchJobs : /\ DOMAIN jobPage'[o] = {"state", "manual", "status"}
                                   /\ jobPage'[o].status = jobPage[o].status \/ jobPage'[o].status = "dispatch_failed"
    BY <1>1, <1>3 DEF PageTypes
  <2> QED
    BY <1>1, <1>3, <2>1, <2>2, PageRest
<1> QED
  BY <1>2, <1>3 DEF RunDispatches

LEMMA ListsCommentsKeeps == ASSUME PageInv, NEW j \in DispatchJobs, ListsComments(j) PROVE PageInv'
<1> DEFINE t == CurrentTarget(j)
<1>1. PageTypes /\ sender[j].at = "list" /\ Sending(j) /\ pages' = pages /\ t \in TargetSet /\ Targets[sender[j].i] = t
  BY TargetFacts DEF PageInv, ListsComments, Sending, PageTypes, CurrentTarget
<1>2. CASE pages[t] > 0 /\ Sent(j, RowIs(t, "dispatched"))
  BY <1>1, <1>2, SendsOn DEF Sent
<1>3. CASE Fails(j)
  BY <1>1, <1>3, SendsOn DEF Fails
<1>4. CASE /\ ~(pages[t] > 0 /\ t \notin Spaced)
           /\ sender' = [sender EXCEPT ![j].at = "call"] /\ UNCHANGED <<pageRows, jobPage, overlapped>>
  <2>1. /\ DOMAIN sender' = DispatchJobs /\ \A o \in DispatchJobs \ {j} : sender'[o] = sender[o]
        /\ sender'[j].at = "call" /\ DOMAIN sender'[j] = {"at", "i", "errors"}
        /\ sender'[j].i = sender[j].i /\ sender'[j].errors = sender[j].errors
    BY <1>1, <1>4 DEF PageTypes
  <2>2. \A o \in DispatchJobs : (sender'[o].at \in {"list", "call"} <=> Sending(o)) /\ sender'[o].i = sender[o].i
    BY <1>1, <2>1 DEF Sending
  <2>3. PageTypes'
    BY <1>1, <1>4, <2>1, <2>2 DEF PageTypes, Sending
  <2>4. \A o \in DispatchJobs : Behind(o)'
    <3>1. \A o \in DispatchJobs : Behind(o) /\ sender'[o].errors = sender[o].errors
      BY <2>1 DEF PageInv
    <3> QED
      BY <1>1, <2>2, <3>1 DEF Behind, Sending
  <2>5. \A u \in Once' : PostedOnce(u)'
    <3> SUFFICES ASSUME NEW u \in Once PROVE PostedOnce(u)'
      BY <1>4 DEF Once
    <3>1. PostedOnce(u) /\ pages[u] \in Nat
      BY <1>1 DEF PageInv, PageTypes, Once
    <3>2. u = t => pages[u] = 0
      BY <1>4, <3>1 DEF Once
    <3>3. \A o \in DispatchJobs : sender'[o].at = "call" /\ Targets[sender'[o].i] = u => pages[u] = 0
      BY <1>1, <2>1, <3>1, <3>2 DEF PostedOnce
    <3> QED
      BY <1>1, <2>2, <3>1, <3>3 DEF PostedOnce, Sending
  <2> QED
    BY <1>1, <1>4, <2>3, <2>4, <2>5 DEF PageInv
<1> QED
  BY <1>2, <1>3, <1>4 DEF ListsComments

LEMMA CallsKeeps == ASSUME PageInv, NEW j \in DispatchJobs, Calls(j) PROVE PageInv'
<1> DEFINE t == CurrentTarget(j)
<1>1. PageTypes /\ sender[j].at = "call" /\ Sending(j) /\ t \in TargetSet /\ pages \in [TargetSet -> Nat]
  BY TargetFacts DEF PageInv, Calls, Sending, PageTypes, CurrentTarget
<1>2. CASE pages' = [pages EXCEPT ![t] = @ + 1] /\ Sent(j, RowIs(t, "dispatched"))
  <2>1. pages'[t] > 0
    BY <1>1, <1>2
  <2> QED
    BY <1>1, <1>2, <2>1, SendsOn DEF Sent
<1>3. CASE Fails(j) /\ (pages' = pages \/ pages' = [pages EXCEPT ![t] = @ + 1])
  BY <1>1, <1>3, SendsOn DEF Fails
<1> QED
  BY <1>2, <1>3 DEF Calls

\* Commands, cancellations and a second job change no page.
LEMMA PageCommandsKeep ==
  ASSUME PageInv, (\E j \in DispatchJobs : EscalateCommand(j) \/ DispatchCancelled(j)) \/ DispatchRereview
  PROVE  PageInv'
<1>1. PageTypes
  BY DEF PageInv
<1>2. UNCHANGED <<pages, pageRows, overlapped>>
  BY DEF EscalateCommand, DispatchCancelled, DispatchRereview
<1>3. /\ DOMAIN jobPage' = DispatchJobs
      /\ \A o \in DispatchJobs : DOMAIN jobPage'[o] = {"state", "manual", "status"} /\ jobPage'[o].status = jobPage[o].status
  BY <1>1 DEF EscalateCommand, DispatchCancelled, DispatchRereview, PageTypes
<1>4. /\ DOMAIN sender' = DispatchJobs
      /\ \A o \in DispatchJobs : sender'[o] = sender[o]
                                 \/ (DOMAIN sender'[o] = {"at", "i", "errors"} /\ sender'[o].at \in {"idle", "queued"})
  BY <1>1 DEF EscalateCommand, DispatchCancelled, DispatchRereview, PageTypes
<1> QED
  BY <1>2, <1>3, <1>4, PageRest

\* A death stops the senders; one call in flight may land.
LEMMA DispatchDiesKeeps == ASSUME PageInv, DispatchDies PROVE PageInv'
<1>1. PageTypes /\ pages \in [TargetSet -> Nat] /\ UNCHANGED <<jobPage, pageRows, overlapped>>
  BY DEF PageInv, PageTypes, DispatchDies
<1>2. /\ DOMAIN sender' = DispatchJobs
      /\ \A o \in DispatchJobs : DOMAIN sender'[o] = {"at", "i", "errors"} /\ sender'[o].at \in {"idle", "queued"}
  BY DEF DispatchDies, NoSender
<1>3. \A o \in DispatchJobs : ~(sender'[o].at \in {"list", "call"}) /\ sender'[o].at # "call"
  BY <1>2
<1>4. /\ pages' \in [TargetSet -> Nat] /\ \A t \in TargetSet : pages[t] > 0 => pages'[t] > 0
      /\ \A t \in Once : pages'[t] <= 1
  <2>1. CASE pages' = pages
    BY <1>1, <2>1 DEF PageInv, PostedOnce
  <2>2. ASSUME NEW j \in DispatchJobs, sender[j].at = "call", pages' = [pages EXCEPT ![CurrentTarget(j)] = @ + 1]
        PROVE  /\ pages' \in [TargetSet -> Nat] /\ \A t \in TargetSet : pages[t] > 0 => pages'[t] > 0
               /\ \A t \in Once : pages'[t] <= 1
    <3>1. CurrentTarget(j) \in TargetSet /\ CurrentTarget(j) = Targets[sender[j].i]
      BY <1>1, <2>2, TargetFacts DEF PageTypes, Sending, CurrentTarget
    <3>2. \A t \in Once : t \in TargetSet /\ pages[t] <= 1 /\ (t = CurrentTarget(j) => pages[t] = 0)
      BY <2>2, <3>1 DEF PageInv, PostedOnce, Once
    <3> HIDE DEF CurrentTarget
    <3> QED
      BY <1>1, <2>2, <3>1, <3>2
  <2> QED
    BY <2>1, <2>2 DEF DispatchDies
<1>5. PageTypes'
  BY <1>1, <1>2, <1>3, <1>4 DEF PageTypes, Sending
<1>6. \A o \in DispatchJobs : Behind(o)'
  BY <1>3 DEF Behind, Sending
<1>7. \A t \in Once' : PostedOnce(t)'
  BY <1>1, <1>3, <1>4 DEF PostedOnce, Sending, Once
<1> QED
  BY <1>1, <1>4, <1>5, <1>6, <1>7 DEF PageInv

\* No step breaks the invariant.
LEMMA DispatchesNextKeeps == PageInv /\ [DispatchesNext]_dispatchVars => PageInv'
<1> SUFFICES ASSUME PageInv, [DispatchesNext]_dispatchVars PROVE PageInv'
  OBVIOUS
<1>1. ASSUME NEW j \in DispatchJobs, RunDispatches(j) \/ ListsComments(j) \/ Calls(j) PROVE PageInv'
  BY <1>1, RunDispatchesKeeps, ListsCommentsKeeps, CallsKeeps
<1>2. CASE (\E j \in DispatchJobs : EscalateCommand(j) \/ DispatchCancelled(j)) \/ DispatchRereview
  BY <1>2, PageCommandsKeep
<1>3. CASE DispatchDies
  BY <1>3, DispatchDiesKeeps
<1>4. CASE UNCHANGED dispatchVars
  BY <1>4 DEF dispatchVars, PageInv, PageTypes, Behind, PostedOnce, Sending, Once
<1> QED
  BY <1>1, <1>2, <1>3, <1>4 DEF DispatchesNext

\* Whatever fails, dies or is asked for again: a job that says "dispatched" has
\* paged every target, and a comment nobody raced for is posted once
\* (dispatchExternalEscalation, claimDispatch and escalationMarker).
THEOREM PagesOnceAlways == DispatchesSpec => []PagesOnce
<1>1. PageInv => PagesOnce
  BY DEF PageInv, PagesOnce, PostedOnce, Once
<1> QED
  BY <1>1, DispatchesStart, DispatchesNextKeeps, PTL DEF DispatchesSpec

-----------------------------------------------------------------------------
(* Findings *)

States       == {"open", "closed", "gone"}
Row          == [status : Statuses \union {"none"}, thread : Nat]
ItemStatuses == Verdicts \union {"none", "verify", "dismissed"}
Item         == [status : ItemStatuses, thread : Nat, already : BOOLEAN]
Stops        == {"idle", "threads", "remarks", "verifier", "summaries", "post", "refresh", "close"}
PassFields   == {"at", "seen", "over", "items", "posted", "left", "failed", "touched"}
Order        == [finding : Fingerprints, thread : Nat, state : {"open", "closed"}]

PassTypes(p) ==
  /\ DOMAIN p = PassFields /\ p.at \in Stops
  /\ DOMAIN p.seen = Fingerprints /\ p.items \in [Fingerprints -> Item]
  /\ p.over \subseteq Fingerprints /\ p.posted \subseteq Fingerprints /\ p.left \subseteq Fingerprints
  /\ p.failed \subseteq Fingerprints /\ p.touched \subseteq Fingerprints

FindingsTypes ==
  /\ findings \in [Fingerprints -> Row] /\ threads \in [Fingerprints -> Seq(States)]
  /\ orders \subseteq Order
  /\ remarks \subseteq Fingerprints /\ marked \in BOOLEAN
  /\ PassTypes(pass)

\* A row or an item that has been written and stands.
Lives(r) == r.status \notin {"none", "dismissed"}

\* A row or an item of f names a thread of f, or none, which only what was
\* never written or was dismissed does.
NamesThread(r, f) ==
  /\ r.thread \in Indices(f) \union {0}
  /\ Lives(r) => r.thread # 0

\* The row, the item and the listing of f name threads it has; the row that a
\* live item was written to, or will be, names one.
Threads(f) ==
  /\ Len(threads[f]) <= MaxThreads
  /\ NamesThread(findings[f], f)
  /\ DOMAIN pass.seen[f] \subseteq Indices(f)
  /\ NamesThread(pass.items[f], f)
  /\ Lives(pass.items[f]) /\ (findings[f].status # "none" \/ pass.at \in {"refresh", "close"}) => findings[f].thread # 0

\* What the run has decided of f still agrees with the row and the threads,
\* unless somebody touched f since the run began.
Agrees(f) ==
  LET i == pass.items[f]
  IN  /\ pass.at \in {"verifier", "summaries", "post", "refresh", "close"} /\ i.status = "dismissed" =>
           findings[f].status = "dismissed"
      /\ pass.at \in {"refresh", "close"} /\ f \in pass.posted /\ i.status \in {"resolved", "moved"} =>
           \E k \in Indices(f) \ {i.thread} : threads[f][k] = "open"
      /\ pass.at \in {"refresh", "close"} /\ f \notin pass.posted /\ i.status = "resolved" =>
           findings[f].status \in {"resolved", "dismissed"}

FindingsInv ==
  /\ FindingsTypes
  /\ \A f \in Fingerprints : Threads(f)
  /\ \A f \in Fingerprints \ pass.touched : Agrees(f)
  /\ \A o \in orders : o.thread \in Indices(o.finding)
  /\ pass.at \in {"summaries", "post", "refresh", "close"} => \A f \in Fingerprints : pass.items[f].status # "verify"
  /\ pass.at \in {"verifier", "summaries"} => \A f \in pass.over : pass.items[f].status = "dismissed"
  /\ pass.at # "close" => pass.left = {}
  /\ pass.left \subseteq Closes(pass.items, pass.posted)

-----------------------------------------------------------------------------
(* What the operators do *)

\* The newest of some threads is one of them: it is the least of their bounds.
LEMMA MaxOf ==
  ASSUME NEW n \in Nat, NEW S \in SUBSET (1..n), S # {}
  PROVE  Max(S) \in S
<1> DEFINE U == {k \in Nat : \A x \in S : x <= k}
<1>1. U # {} /\ U \in SUBSET Nat
  BY DEF U
<1>2. PICK u \in U : \A k \in U : u <= k
  BY <1>1, LeastOf
<1>3. u \in S
  <2> SUFFICES ASSUME u \notin S PROVE FALSE
    OBVIOUS
  <2>1. PICK x \in S : TRUE
    OBVIOUS
  <2>2. u \in Nat /\ \A y \in S : y \in Nat /\ y >= 1 /\ y <= u /\ y # u
    BY DEF U
  <2>3. u - 1 \in Nat /\ \A y \in S : y <= u - 1
    BY <2>1, <2>2
  <2>4. u - 1 \in U
    BY <2>3 DEF U
  <2> QED
    BY <1>2, <2>2, <2>4
<1>4. \A y \in S : u >= y
  BY DEF U
<1> QED
  BY <1>3, <1>4 DEF Max

\* A written row is a row that names its thread; a dismissal outlives the write.
LEMMA UpsertedNames ==
  ASSUME NEW f \in Fingerprints, NEW r \in Row, NamesThread(r, f), Indices(f) \subseteq Nat \ {0},
         NEW status \in Statuses, NEW t \in Indices(f) \union {0}, status = "dismissed" \/ t # 0
  PROVE  /\ Upserted(r, status, t) \in Row /\ NamesThread(Upserted(r, status, t), f)
         /\ Upserted(r, status, t).status \in {status, "dismissed"}
         /\ r.status = "dismissed" => Upserted(r, status, t).status = "dismissed"
         /\ r.thread # 0 \/ (t # 0 /\ r.status # "dismissed") => Upserted(r, status, t).thread # 0
BY DEF Upserted, NamesThread, Lives, Row, Statuses, Live

\* A dismissal writes a dismissed row.
LEMMA DismissedNames ==
  ASSUME NEW f \in Fingerprints, NEW r \in Row, NamesThread(r, f), Indices(f) \subseteq Nat \ {0},
         NEW t \in Indices(f) \union {0}
  PROVE  /\ Dismissed(r, t) \in Row /\ NamesThread(Dismissed(r, t), f) /\ Dismissed(r, t).status = "dismissed"
         /\ r.thread # 0 \/ (t # 0 /\ r.status # "dismissed") => Dismissed(r, t).thread # 0
BY DEF Dismissed, Upserted, NamesThread, Lives, Row, Statuses

\* A reopened row names its thread.
LEMMA ReopenedNames ==
  ASSUME NEW f \in Fingerprints, NEW r \in Row, NamesThread(r, f), Indices(f) \subseteq Nat \ {0}, NEW t \in Indices(f)
  PROVE  Reopened(r, t) \in Row /\ NamesThread(Reopened(r, t), f) /\ Reopened(r, t).thread # 0
BY DEF Reopened, NamesThread, Lives, Row, Statuses, Live

\* The threads of a finding are numbered from 1, and the listed are among them.
LEMMA ThreadFacts ==
  ASSUME FindingsInv, NEW f \in Fingerprints
  PROVE  /\ threads[f] \in Seq(States) /\ Len(threads[f]) \in Nat /\ Indices(f) = 1..Len(threads[f])
         /\ Indices(f) \subseteq Nat \ {0} /\ Listed(f) \subseteq Indices(f)
         /\ findings[f] \in Row /\ NamesThread(findings[f], f)
         /\ pass.items[f] \in Item /\ NamesThread(pass.items[f], f)
         /\ DOMAIN pass.seen[f] \subseteq Indices(f)
<1>1. threads[f] \in Seq(States) /\ findings[f] \in Row /\ pass.items[f] \in Item
  BY DEF FindingsInv, FindingsTypes, PassTypes
<1>2. Indices(f) = 1..Len(threads[f]) /\ Len(threads[f]) \in Nat
  BY <1>1 DEF Indices
<1> QED
  BY <1>1, <1>2 DEF FindingsInv, Threads, Listed

\* A classified item names its thread, and is dismissed only if the row is.
LEMMA ClassifiedNames ==
  ASSUME FindingsInv, NEW f \in Fingerprints, NEW r \in Row, NamesThread(r, f)
  PROVE  /\ Classified(r, pass.seen[f]) \in Item /\ NamesThread(Classified(r, pass.seen[f]), f)
         /\ Classified(r, pass.seen[f]).status = "dismissed" <=> r.status = "dismissed"
<1> DEFINE seen == pass.seen[f]
           t    == IF DOMAIN seen = {} THEN r.thread ELSE Max(DOMAIN seen)
<1>1. DOMAIN seen # {} => t \in Indices(f)
  <2>1. DOMAIN seen \in SUBSET (1..Len(threads[f])) /\ Len(threads[f]) \in Nat /\ Indices(f) = 1..Len(threads[f])
    BY ThreadFacts
  <2> HIDE DEF seen
  <2> QED
    BY <2>1, MaxOf
<1>2. DOMAIN seen = {} => t = r.thread
  OBVIOUS
<1>3. Indices(f) \subseteq Nat \ {0} /\ r.thread \in Nat
  BY ThreadFacts DEF Row
<1> HIDE DEF t
<1> DEFINE settled == IF DOMAIN seen = {} THEN r.status = "resolved" ELSE seen[t] = "closed"
<1>4. Classified(r, seen) = IF r.status = "none" /\ DOMAIN seen = {} THEN NotItem
                            ELSE IF r.status = "dismissed" THEN [status |-> "dismissed", thread |-> t, already |-> FALSE]
                            ELSE IF settled THEN [status |-> "resolved", thread |-> t, already |-> TRUE]
                            ELSE [status |-> "verify", thread |-> t, already |-> FALSE]
  BY DEF Classified, t
<1> HIDE DEF seen, settled
<1>5. r.status # "dismissed" /\ ~(r.status = "none" /\ DOMAIN seen = {}) => t # 0
  BY <1>1, <1>2, <1>3 DEF NamesThread, Lives
<1>6. t \in Indices(f) \union {0} /\ t \in Nat
  BY <1>1, <1>2, <1>3 DEF NamesThread, Lives
<1>7. CASE r.status = "none" /\ DOMAIN seen = {}
  BY <1>4, <1>7 DEF NotItem, Item, ItemStatuses, NamesThread, Lives, seen
<1>8. CASE ~(r.status = "none" /\ DOMAIN seen = {}) /\ r.status = "dismissed"
  BY <1>4, <1>6, <1>8 DEF Item, ItemStatuses, NamesThread, Lives, seen
<1>9. CASE ~(r.status = "none" /\ DOMAIN seen = {}) /\ r.status # "dismissed"
  BY <1>4, <1>5, <1>6, <1>9 DEF Item, ItemStatuses, Verdicts, NamesThread, Lives, seen
<1> QED
  BY <1>7, <1>8, <1>9

\* What the second listing leaves of a row names its thread and keeps what was
\* settled, unless the finding was published again.
LEMMA ThreadedNames ==
  ASSUME FindingsInv, NEW f \in Fingerprints, NEW r \in Row, NamesThread(r, f), NEW published \in BOOLEAN
  PROVE  /\ Threaded(r, f, published) \in Row /\ NamesThread(Threaded(r, f, published), f)
         /\ r.status = "dismissed" => Threaded(r, f, published).status = "dismissed"
         /\ r.thread # 0 => Threaded(r, f, published).thread # 0
         /\ ~published /\ r.status \in {"resolved", "dismissed"} =>
              Threaded(r, f, published).status \in {"resolved", "dismissed"}
<1> DEFINE heard == {t \in Listed(f) : threads[f][t] = "open" \/ ~published}
           keeps == IF published THEN {"moved", "still_valid", "uncertain"} ELSE Live \union {"resolved"}
           says  == IF \E t \in heard : threads[f][t] = "closed" THEN "resolved"
                    ELSE IF r.status \in keeps THEN r.status ELSE "open"
<1>1. Threaded(r, f, published) =
        IF r.status = "dismissed" \/ heard = {} THEN r ELSE Upserted(r, says, Max(heard))
  BY DEF Threaded
<1>2. heard # {} => Max(heard) \in Indices(f)
  <2>1. heard \in SUBSET (1..Len(threads[f])) /\ Len(threads[f]) \in Nat /\ Indices(f) = 1..Len(threads[f])
    BY ThreadFacts
  <2> HIDE DEF heard
  <2> QED
    BY <2>1, MaxOf
<1>3. says \in Live \union {"resolved"} /\ (~published /\ r.status = "resolved" => says = "resolved")
  BY DEF Live
<1>4. Indices(f) \subseteq Nat \ {0}
  BY ThreadFacts
<1> HIDE DEF heard, says, keeps
<1>5. CASE r.status = "dismissed" \/ heard = {}
  BY <1>1, <1>5
<1>6. CASE ~(r.status = "dismissed" \/ heard = {})
  <2> DEFINE u == Upserted(r, says, Max(heard))
  <2>1. /\ u \in Row /\ NamesThread(u, f) /\ u.status \in {says, "dismissed"} /\ u.thread # 0
        /\ says \in Statuses /\ Max(heard) \in Indices(f) \union {0} /\ Max(heard) # 0
    <3>1. says \in Statuses /\ Max(heard) \in Indices(f) \union {0} /\ Max(heard) # 0
      BY <1>2, <1>3, <1>4, <1>6 DEF Statuses
    <3> QED
      BY <1>4, <1>6, <3>1, UpsertedNames
  <2>2. Threaded(r, f, published) = u
    BY <1>1, <1>6
  <2> HIDE DEF u
  <2> QED
    BY <1>3, <1>6, <2>1, <2>2
<1> QED
  BY <1>5, <1>6

-----------------------------------------------------------------------------
(* The steps *)

LEMMA FindingsStart == FindingsInit => FindingsInv
<1> SUFFICES ASSUME FindingsInit PROVE FindingsInv
  OBVIOUS
<1>1. /\ DOMAIN NoPass = PassFields /\ NoPass.at = "idle" /\ NoPass.left = {} /\ NoPass.touched = {}
      /\ NoPass.seen = [f \in Fingerprints |-> <<>>] /\ NoPass.items = [f \in Fingerprints |-> NotItem]
      /\ NoPass.over = {} /\ NoPass.posted = {} /\ NoPass.failed = {}
      /\ NotItem.status = "none" /\ NotItem.thread = 0 /\ NotItem \in Item
  BY DEF NoPass, PassFields, NotItem, Item, ItemStatuses
<1>2. NoFinding \in Row /\ NoFinding.status = "none" /\ NoFinding.thread = 0
  BY DEF NoFinding, Row
<1>3. FindingsTypes
  <2>1. PassTypes(pass)
    BY <1>1 DEF FindingsInit, PassTypes, Stops
  <2>2. findings \in [Fingerprints -> Row] /\ threads \in [Fingerprints -> Seq(States)]
    BY <1>2 DEF FindingsInit
  <2> QED
    BY <2>1, <2>2 DEF FindingsInit, FindingsTypes
<1>4. \A f \in Fingerprints : Threads(f)
  <2> SUFFICES ASSUME NEW f \in Fingerprints PROVE Threads(f)
    OBVIOUS
  <2>1. threads[f] = <<>> /\ findings[f] = NoFinding /\ pass.items[f] = NotItem /\ pass.seen[f] = <<>>
    BY <1>1 DEF FindingsInit
  <2>2. Len(threads[f]) <= MaxThreads /\ DOMAIN pass.seen[f] = {}
    BY <2>1, FindingsAssumption
  <2> QED
    BY <1>1, <1>2, <2>1, <2>2 DEF Threads, NamesThread, Lives
<1> QED
  BY <1>1, <1>3, <1>4 DEF FindingsInit, FindingsInv, Agrees

\* A run that ends, and rows and threads that name each other, keep the invariant.
LEMMA EndedKeeps ==
  ASSUME pass' = NoPass, findings' \in [Fingerprints -> Row], threads' \in [Fingerprints -> Seq(States)],
         \A f \in Fingerprints : Len(threads[f])' <= MaxThreads /\ NamesThread(findings[f], f)',
         orders' \subseteq Order, \A o \in orders' : (o.thread \in Indices(o.finding))',
         remarks' \subseteq Fingerprints, marked' \in BOOLEAN
  PROVE  FindingsInv'
<1>1. /\ DOMAIN NoPass = PassFields /\ NoPass.at = "idle" /\ NoPass.left = {} /\ NoPass.touched = {}
      /\ NoPass.seen = [f \in Fingerprints |-> <<>>] /\ NoPass.items = [f \in Fingerprints |-> NotItem]
      /\ NoPass.over = {} /\ NoPass.posted = {} /\ NoPass.failed = {}
      /\ NotItem.status = "none" /\ NotItem.thread = 0 /\ NotItem \in Item
  BY DEF NoPass, PassFields, NotItem, Item, ItemStatuses
<1>2. FindingsTypes'
  BY <1>1 DEF FindingsTypes, PassTypes, Stops
<1>3. \A f \in Fingerprints : Threads(f)'
  <2> SUFFICES ASSUME NEW f \in Fingerprints PROVE Threads(f)'
    OBVIOUS
  <2>1. pass'.items[f] = NotItem /\ DOMAIN pass'.seen[f] = {}
    BY <1>1
  <2> QED
    BY <1>1, <2>1 DEF Threads, NamesThread, Lives
<1> QED
  BY <1>1, <1>2, <1>3 DEF FindingsInv, Agrees

LEMMA UnwindsKeeps ==
  ASSUME FindingsInv, RunUnwinds, UNCHANGED <<findings, threads, remarks, marked, orders>>
  PROVE  FindingsInv'
<1>1. \A f \in Fingerprints : Len(threads[f])' <= MaxThreads /\ NamesThread(findings[f], f)'
  BY DEF FindingsInv, Threads, NamesThread, Lives, Indices
<1>2. \A o \in orders' : (o.thread \in Indices(o.finding))'
  BY DEF FindingsInv, Indices
<1> QED
  BY <1>1, <1>2, EndedKeeps DEF RunUnwinds, FindingsInv, FindingsTypes

LEMMA RunStartsKeeps ==
  ASSUME FindingsInv, RunStarts
  PROVE  FindingsInv'
<1> DEFINE p == [NoPass EXCEPT !.at = "threads"]
<1>1. /\ DOMAIN p = PassFields /\ p.at = "threads" /\ p.left = {} /\ p.touched = {}
      /\ p.seen = [f \in Fingerprints |-> <<>>] /\ p.items = [f \in Fingerprints |-> NotItem]
      /\ p.over = {} /\ p.posted = {} /\ p.failed = {}
      /\ NotItem.status = "none" /\ NotItem.thread = 0 /\ NotItem \in Item
  BY DEF NoPass, PassFields, NotItem, Item, ItemStatuses
<1>2. /\ pass' = p /\ UNCHANGED <<findings, threads, remarks, orders>> /\ marked' \in BOOLEAN
  BY DEF RunStarts, FindingsInv, FindingsTypes
<1> HIDE DEF p
<1>3. FindingsTypes'
  <2>1. PassTypes(pass')
    BY <1>1, <1>2 DEF PassTypes, Stops
  <2> QED
    BY <1>2, <2>1 DEF FindingsInv, FindingsTypes
<1>4. \A f \in Fingerprints : Threads(f)'
  <2> SUFFICES ASSUME NEW f \in Fingerprints PROVE Threads(f)'
    OBVIOUS
  <2>1. pass'.items[f] = NotItem /\ DOMAIN pass'.seen[f] = {}
    BY <1>1, <1>2
  <2> QED
    BY <1>1, <1>2, <2>1 DEF FindingsInv, Threads, NamesThread, Lives, Indices
<1>5. \A o \in orders' : (o.thread \in Indices(o.finding))'
  BY <1>2 DEF FindingsInv, Indices
<1> QED
  BY <1>1, <1>2, <1>3, <1>4, <1>5 DEF FindingsInv, Agrees

LEMMA RunListsThreadsKeeps ==
  ASSUME FindingsInv, RunListsThreads
  PROVE  FindingsInv'
<1> DEFINE seen == [f \in Fingerprints |-> [i \in Listed(f) |-> threads[f][i]]]
<1>1. CASE RunUnwinds
  BY <1>1, UnwindsKeeps DEF RunListsThreads
<1>2. CASE pass' = [pass EXCEPT !.at = "remarks", !.seen = seen]
  <2>1. UNCHANGED <<findings, threads, remarks, marked, orders>> /\ pass.at = "threads"
    BY DEF RunListsThreads, RunAt
  <2>2. DOMAIN seen = Fingerprints /\ \A f \in Fingerprints : DOMAIN seen[f] \subseteq Indices(f)
    BY DEF Listed
  <2> HIDE DEF seen
  <2>3. /\ DOMAIN pass' = PassFields /\ pass'.at = "remarks" /\ pass'.seen = seen /\ pass'.items = pass.items
        /\ pass'.over = pass.over /\ pass'.posted = pass.posted /\ pass'.left = pass.left
        /\ pass'.failed = pass.failed /\ pass'.touched = pass.touched
    BY <1>2 DEF FindingsInv, FindingsTypes, PassTypes, PassFields
  <2>4. FindingsTypes'
    BY <2>1, <2>2, <2>3 DEF FindingsInv, FindingsTypes, PassTypes, Stops
  <2>5. \A f \in Fingerprints : Threads(f)'
    BY <2>1, <2>2, <2>3 DEF FindingsInv, Threads, NamesThread, Lives, Indices
  <2>6. pass'.left = {}
    BY <2>1, <2>3 DEF FindingsInv
  <2>7. \A o \in orders' : (o.thread \in Indices(o.finding))'
    BY <2>1 DEF FindingsInv, Indices
  <2> QED
    BY <2>3, <2>4, <2>5, <2>6, <2>7 DEF FindingsInv, Agrees
<1> QED
  BY <1>1, <1>2 DEF RunListsThreads

LEMMA RunReadsRemarksKeeps ==
  ASSUME FindingsInv, RunReadsRemarks
  PROVE  FindingsInv'
<1>1. CASE RunUnwinds /\ UNCHANGED findings
  BY <1>1, UnwindsKeeps DEF RunReadsRemarks
<1>2. ASSUME NEW over \in {{}, remarks \ Protected},
             findings' = [f \in Fingerprints |->
                            IF f \in over THEN Dismissed(findings[f], findings[f].thread) ELSE findings[f]],
             pass' = [pass EXCEPT !.at = "verifier", !.over = over,
                        !.items = [f \in Fingerprints |-> Classified(findings'[f], pass.seen[f])]]
      PROVE FindingsInv'
  <2>1. UNCHANGED <<threads, remarks, marked, orders>> /\ pass.at = "remarks"
    BY DEF RunReadsRemarks, RunAt
  <2>2. \A f \in Fingerprints : findings'[f] \in Row /\ NamesThread(findings'[f], f)
    <3> SUFFICES ASSUME NEW f \in Fingerprints PROVE findings'[f] \in Row /\ NamesThread(findings'[f], f)
      OBVIOUS
    <3>1. findings[f] \in Row /\ NamesThread(findings[f], f) /\ Indices(f) \subseteq Nat \ {0}
          /\ findings[f].thread \in Indices(f) \union {0}
      BY ThreadFacts DEF NamesThread, Lives
    <3>2. Dismissed(findings[f], findings[f].thread) \in Row
          /\ NamesThread(Dismissed(findings[f], findings[f].thread), f)
      BY <3>1, DismissedNames
    <3> QED
      BY <1>2, <3>1, <3>2
  <2> DEFINE items == [f \in Fingerprints |-> Classified(findings'[f], pass.seen[f])]
  <2>3. \A f \in Fingerprints : /\ items[f] \in Item /\ NamesThread(items[f], f)
                                /\ items[f].status = "dismissed" <=> findings'[f].status = "dismissed"
                                /\ f \in over => items[f].status = "dismissed"
    <3> SUFFICES ASSUME NEW f \in Fingerprints
                 PROVE  /\ items[f] \in Item /\ NamesThread(items[f], f)
                        /\ items[f].status = "dismissed" <=> findings'[f].status = "dismissed"
                        /\ f \in over => items[f].status = "dismissed"
      OBVIOUS
    <3>1. f \in over => findings'[f].status = "dismissed"
      BY <1>2, DismissedNames, ThreadFacts DEF NamesThread
    <3>2. items[f] = Classified(findings'[f], pass.seen[f])
      OBVIOUS
    <3> HIDE DEF items
    <3> QED
      BY <2>2, <3>1, <3>2, ClassifiedNames
  <2>4. items \in [Fingerprints -> Item]
    BY <2>3
  <2>5. pass' = [pass EXCEPT !.at = "verifier", !.over = over, !.items = items]
    BY <1>2
  <2> HIDE DEF items
  <2>6. /\ DOMAIN pass' = PassFields /\ pass'.at = "verifier" /\ pass'.seen = pass.seen /\ pass'.items = items
        /\ pass'.over = over /\ pass'.posted = pass.posted /\ pass'.left = pass.left
        /\ pass'.failed = pass.failed /\ pass'.touched = pass.touched
    BY <2>5 DEF FindingsInv, FindingsTypes, PassTypes, PassFields
  <2>7. findings' \in [Fingerprints -> Row]
    BY <1>2, <2>2
  <2>8. over \subseteq Fingerprints
    BY <1>2 DEF FindingsInv, FindingsTypes
  <2>9. FindingsTypes'
    BY <2>1, <2>4, <2>6, <2>7, <2>8 DEF FindingsInv, FindingsTypes, PassTypes, Stops
  <2>10. \A f \in Fingerprints : Threads(f)'
    BY <2>1, <2>2, <2>3, <2>6 DEF FindingsInv, Threads, NamesThread, Lives, Indices
  <2>11. pass'.left = {}
    BY <2>1, <2>6 DEF FindingsInv
  <2>12. \A o \in orders' : (o.thread \in Indices(o.finding))'
    BY <2>1 DEF FindingsInv, Indices
  <2> QED
    BY <2>3, <2>6, <2>8, <2>9, <2>10, <2>11, <2>12 DEF FindingsInv, Agrees
<1> QED
  BY <1>1, <1>2 DEF RunReadsRemarks

LEMMA RunVerifiesKeeps ==
  ASSUME FindingsInv, RunVerifies
  PROVE  FindingsInv'
<1>1. CASE RunUnwinds
  BY <1>1, UnwindsKeeps DEF RunVerifies
<1>2. ASSUME NEW v \in [{f \in Fingerprints : pass.items[f].status = "verify"} -> Verdicts],
             pass' = [pass EXCEPT !.at = "summaries",
                        !.items = [f \in Fingerprints |->
                          IF f \in DOMAIN v THEN [@[f] EXCEPT !.status = v[f]] ELSE @[f]]]
      PROVE FindingsInv'
  <2>1. UNCHANGED <<findings, threads, remarks, marked, orders>> /\ pass.at = "verifier"
    BY DEF RunVerifies, RunAt
  <2> DEFINE items == [f \in Fingerprints |->
                         IF f \in DOMAIN v THEN [pass.items[f] EXCEPT !.status = v[f]] ELSE pass.items[f]]
  <2>2. pass' = [pass EXCEPT !.at = "summaries", !.items = items]
    BY <1>2 DEF FindingsInv, FindingsTypes, PassTypes, PassFields
  <2>3. ASSUME NEW f \in Fingerprints
        PROVE  /\ items[f] \in Item /\ NamesThread(items[f], f) /\ items[f].status # "verify"
               /\ items[f].status = "dismissed" <=> pass.items[f].status = "dismissed"
               /\ Lives(items[f]) => Lives(pass.items[f])
    <3>1. pass.items[f] \in Item /\ NamesThread(pass.items[f], f)
      BY ThreadFacts
    <3>2. CASE pass.items[f].status = "verify"
      <4>1. v[f] \in Verdicts /\ items[f] = [pass.items[f] EXCEPT !.status = v[f]]
        BY <3>2
      <4> QED
        BY <3>1, <3>2, <4>1 DEF Verdicts, Item, ItemStatuses, NamesThread, Lives
    <3>3. CASE pass.items[f].status # "verify"
      BY <3>1, <3>3
    <3> QED
      BY <3>2, <3>3
  <2>4. items \in [Fingerprints -> Item]
    BY <2>3
  <2> HIDE DEF items
  <2>5. /\ DOMAIN pass' = PassFields /\ pass'.at = "summaries" /\ pass'.seen = pass.seen /\ pass'.items = items
        /\ pass'.over = pass.over /\ pass'.posted = pass.posted /\ pass'.left = pass.left
        /\ pass'.failed = pass.failed /\ pass'.touched = pass.touched
    BY <2>2 DEF FindingsInv, FindingsTypes, PassTypes, PassFields
  <2>6. FindingsTypes'
    BY <2>1, <2>4, <2>5 DEF FindingsInv, FindingsTypes, PassTypes, Stops
  <2>7. \A f \in Fingerprints : Threads(f)'
    BY <2>1, <2>3, <2>5 DEF FindingsInv, Threads, NamesThread, Lives, Indices
  <2>8. pass'.left = {}
    BY <2>1, <2>5 DEF FindingsInv
  <2>9. \A o \in orders' : (o.thread \in Indices(o.finding))'
    BY <2>1 DEF FindingsInv, Indices
  <2>10. \A f \in Fingerprints \ pass'.touched : Agrees(f)'
    BY <2>1, <2>3, <2>5 DEF FindingsInv, Agrees
  <2>11. \A f \in pass'.over : pass'.items[f].status = "dismissed"
    BY <2>1, <2>3, <2>5 DEF FindingsInv, FindingsTypes, PassTypes
  <2> QED
    BY <2>3, <2>5, <2>6, <2>7, <2>8, <2>9, <2>10, <2>11 DEF FindingsInv
<1> QED
  BY <1>1, <1>2 DEF RunVerifies

\* What a run writes of a classification names its thread, keeps a dismissal and
\* resolves what was resolved.
LEMMA PersistedNames ==
  ASSUME FindingsInv, pass.at \in {"summaries", "post"}, NEW f \in Fingerprints
  PROVE  /\ Persisted(f) \in Row /\ NamesThread(Persisted(f), f)
         /\ findings[f].status = "dismissed" => Persisted(f).status = "dismissed"
         /\ pass.items[f].status = "resolved" => Persisted(f).status \in {"resolved", "dismissed"}
         /\ Lives(pass.items[f]) => Persisted(f).thread # 0
<1>1. /\ findings[f] \in Row /\ NamesThread(findings[f], f) /\ Indices(f) \subseteq Nat \ {0}
      /\ pass.items[f] \in Item /\ NamesThread(pass.items[f], f) /\ pass.items[f].status # "verify"
  BY ThreadFacts DEF FindingsInv
<1> DEFINE item == pass.items[f]
<1>2. CASE item.status = "none" \/ (item.status = "dismissed" /\ findings[f].status = "dismissed")
  BY <1>1, <1>2 DEF Persisted, Lives
<1>3. CASE ~(item.status = "none" \/ (item.status = "dismissed" /\ findings[f].status = "dismissed"))
  <2>1. Persisted(f) = Upserted(findings[f], item.status, item.thread)
    BY <1>3 DEF Persisted
  <2>2. Lives(item) => item.thread # 0 /\ (findings[f].status = "dismissed" => findings[f].thread # 0)
    BY <1>1 DEF FindingsInv, Threads, NamesThread
  <2>3. item.status \in Statuses /\ item.thread \in Indices(f) \union {0} /\ (item.status = "dismissed" \/ item.thread # 0)
    BY <1>1, <1>3 DEF Item, ItemStatuses, Verdicts, Statuses, Live, NamesThread, Lives
  <2> HIDE DEF item
  <2> DEFINE u == Upserted(findings[f], item.status, item.thread)
  <2>4. /\ u \in Row /\ NamesThread(u, f) /\ u.status \in {item.status, "dismissed"}
        /\ findings[f].status = "dismissed" => u.status = "dismissed"
        /\ findings[f].thread # 0 \/ (item.thread # 0 /\ findings[f].status # "dismissed") => u.thread # 0
    BY <1>1, <2>3, UpsertedNames
  <2> HIDE DEF u
  <2> QED
    BY <2>1, <2>4, <2>2 DEF u, item
<1> QED
  BY <1>2, <1>3

\* The comments of S have appeared: threads grow by an open one.
LEMMA AppearsGrows ==
  ASSUME FindingsInv, NEW S \in SUBSET Fingerprints, NEW f \in Fingerprints,
         threads' = [g \in Fingerprints |-> IF g \in S THEN Append(threads[g], "open") ELSE threads[g]],
         \A g \in S : Len(threads[g]) < MaxThreads
  PROVE  /\ threads'[f] \in Seq(States) /\ Len(threads[f])' <= MaxThreads
         /\ Indices(f) \subseteq Indices(f)'
         /\ f \in S => Len(threads[f]) + 1 \in Indices(f)' \ Indices(f) /\ threads'[f][Len(threads[f]) + 1] = "open"
<1>1. threads[f] \in Seq(States) /\ Len(threads[f]) \in Nat /\ Len(threads[f]) <= MaxThreads
  BY ThreadFacts DEF FindingsInv, Threads
<1>2. MaxThreads \in Nat
  BY FindingsAssumption
<1>3. CASE f \in S
  <2>1. threads'[f] = Append(threads[f], "open")
    BY <1>3
  <2>2. "open" \in States
    BY DEF States
  <2>3. Append(threads[f], "open") \in Seq(States) /\ Len(Append(threads[f], "open")) = Len(threads[f]) + 1
        /\ Append(threads[f], "open")[Len(threads[f]) + 1] = "open"
    BY <1>1, <2>2
  <2>4. Indices(f) = 1..Len(threads[f]) /\ Indices(f)' = 1..(Len(threads[f]) + 1)
    BY <1>1, <2>1, <2>3 DEF Indices
  <2> QED
    BY <1>1, <1>2, <1>3, <2>1, <2>3, <2>4
<1>4. CASE f \notin S
  BY <1>1, <1>4 DEF Indices
<1> QED
  BY <1>3, <1>4

\* A run that has published S, whose comments have appeared, goes on to refresh.
LEMMA PersistsKeeps ==
  ASSUME FindingsInv, pass.at \in {"summaries", "post"}, NEW S \in SUBSET Fingerprints, RunPersists(S),
         threads' = [f \in Fingerprints |-> IF f \in S THEN Append(threads[f], "open") ELSE threads[f]],
         \A f \in S : Len(threads[f]) < MaxThreads,
         UNCHANGED <<remarks, orders>>, marked' \in BOOLEAN
  PROVE  FindingsInv'
<1>1. pass' = [pass EXCEPT !.at = "refresh", !.posted = S] /\ findings' = [f \in Fingerprints |-> Persisted(f)]
  BY DEF RunPersists
<1>2. /\ DOMAIN pass' = PassFields /\ pass'.at = "refresh" /\ pass'.seen = pass.seen /\ pass'.items = pass.items
      /\ pass'.over = pass.over /\ pass'.posted = S /\ pass'.left = pass.left
      /\ pass'.failed = pass.failed /\ pass'.touched = pass.touched
  BY <1>1 DEF FindingsInv, FindingsTypes, PassTypes, PassFields
<1>3. ASSUME NEW f \in Fingerprints
      PROVE  /\ threads'[f] \in Seq(States) /\ Len(threads[f])' <= MaxThreads
             /\ Indices(f) \subseteq Indices(f)'
             /\ f \in S => Len(threads[f]) + 1 \in Indices(f)' \ Indices(f) /\ threads'[f][Len(threads[f]) + 1] = "open"
  BY AppearsGrows
<1>4. FindingsTypes'
  <2>1. findings' \in [Fingerprints -> Row]
    BY <1>1, PersistedNames
  <2>2. threads' \in [Fingerprints -> Seq(States)]
    BY <1>3
  <2> QED
    BY <1>2, <2>1, <2>2 DEF FindingsInv, FindingsTypes, PassTypes, Stops
<1>5. \A f \in Fingerprints : Threads(f)'
  <2> SUFFICES ASSUME NEW f \in Fingerprints PROVE Threads(f)'
    OBVIOUS
  <2>1. findings'[f] = Persisted(f)
    BY <1>1
  <2>2. NamesThread(Persisted(f), f) /\ (Lives(pass.items[f]) => Persisted(f).thread # 0)
    BY PersistedNames
  <2>3. NamesThread(findings[f], f)' /\ NamesThread(pass.items[f], f)'
    BY <1>2, <1>3, <2>1, <2>2, ThreadFacts DEF NamesThread, Lives
  <2>4. DOMAIN pass'.seen[f] \subseteq Indices(f)'
    BY <1>2, <1>3, ThreadFacts
  <2> QED
    BY <1>2, <1>3, <2>1, <2>2, <2>3, <2>4 DEF Threads
<1>6. \A f \in Fingerprints \ pass'.touched : Agrees(f)'
  <2> SUFFICES ASSUME NEW f \in Fingerprints, f \notin pass.touched PROVE Agrees(f)'
    BY <1>2
  <2>1. findings'[f] = Persisted(f)
    BY <1>1
  <2>2. pass.items[f].status = "dismissed" => findings[f].status = "dismissed"
    BY DEF FindingsInv, Agrees
  <2>3. pass.items[f].thread \in Indices(f) \union {0} /\ 0 \notin Indices(f) /\ Len(threads[f]) \in Nat
    BY ThreadFacts DEF NamesThread, Lives
  <2>4. f \in S => \E k \in Indices(f)' \ {pass'.items[f].thread} : threads'[f][k] = "open"
    BY <1>2, <1>3, <2>3
  <2>5. /\ pass.items[f].status = "dismissed" => Persisted(f).status = "dismissed"
        /\ pass.items[f].status = "resolved" => Persisted(f).status \in {"resolved", "dismissed"}
    BY <2>2, PersistedNames
  <2> QED
    BY <1>2, <2>1, <2>4, <2>5 DEF Agrees
<1>7. pass'.left = {}
  BY <1>2 DEF FindingsInv
<1>8. \A o \in orders' : (o.thread \in Indices(o.finding))'
  BY <1>3 DEF FindingsInv, FindingsTypes, Order
<1>9. \A f \in Fingerprints : pass'.items[f].status # "verify"
  BY <1>2 DEF FindingsInv
<1> QED
  BY <1>2, <1>4, <1>5, <1>6, <1>7, <1>8, <1>9 DEF FindingsInv

LEMMA RunPublishesKeeps ==
  ASSUME FindingsInv, RunPublishes
  PROVE  FindingsInv'
<1>1. UNCHANGED <<threads, remarks, marked, orders>> /\ pass.at = "summaries"
  BY DEF RunPublishes, RunAt
<1>2. CASE RunUnwinds /\ UNCHANGED findings
  BY <1>1, <1>2, UnwindsKeeps
<1>3. CASE RunPersists({})
  <2>1. threads' = [f \in Fingerprints |-> IF f \in {} THEN Append(threads[f], "open") ELSE threads[f]]
    BY <1>1 DEF FindingsInv, FindingsTypes
  <2>2. marked' \in BOOLEAN
    BY <1>1 DEF FindingsInv, FindingsTypes
  <2> QED
    BY <1>1, <1>3, <2>1, <2>2, PersistsKeeps
<1>4. ASSUME NEW hit \in SUBSET Fingerprints, NEW kept \in SUBSET Fingerprints,
             findings' = [f \in Fingerprints |-> IF f \in hit THEN Dismissed(findings[f], 0) ELSE findings[f]],
             pass' = [pass EXCEPT !.at = "post", !.posted = kept],
             \A f \in hit : pass.items[f].status = "dismissed"
      PROVE FindingsInv'
  <2>1. /\ DOMAIN pass' = PassFields /\ pass'.at = "post" /\ pass'.seen = pass.seen /\ pass'.items = pass.items
        /\ pass'.over = pass.over /\ pass'.posted = kept /\ pass'.left = pass.left
        /\ pass'.failed = pass.failed /\ pass'.touched = pass.touched
    BY <1>4 DEF FindingsInv, FindingsTypes, PassTypes, PassFields
  <2>2. ASSUME NEW f \in Fingerprints
        PROVE  /\ findings'[f] \in Row /\ NamesThread(findings'[f], f)
               /\ findings[f].status = "dismissed" => findings'[f].status = "dismissed"
    <3>1. findings[f] \in Row /\ NamesThread(findings[f], f) /\ Indices(f) \subseteq Nat \ {0}
      BY ThreadFacts
    <3>2. /\ Dismissed(findings[f], 0) \in Row /\ NamesThread(Dismissed(findings[f], 0), f)
          /\ Dismissed(findings[f], 0).status = "dismissed"
      BY <3>1, DismissedNames
    <3> QED
      BY <1>4, <3>1, <3>2
  <2>3. findings' \in [Fingerprints -> Row]
    BY <1>4, <2>2
  <2>4. FindingsTypes'
    BY <1>1, <2>1, <2>3 DEF FindingsInv, FindingsTypes, PassTypes, Stops
  <2>5. \A f \in Fingerprints : Lives(pass.items[f]) => findings'[f] = findings[f]
    BY <1>4 DEF Lives
  <2>6. \A f \in Fingerprints : Threads(f)'
    BY <1>1, <2>1, <2>2, <2>5 DEF FindingsInv, Threads, NamesThread, Indices
  <2>7. \A f \in Fingerprints \ pass'.touched : Agrees(f)'
    BY <1>1, <2>1, <2>2 DEF FindingsInv, Agrees
  <2>8. pass'.left = {} /\ \A f \in Fingerprints : pass'.items[f].status # "verify"
    BY <1>1, <2>1 DEF FindingsInv
  <2>9. \A o \in orders' : (o.thread \in Indices(o.finding))'
    BY <1>1 DEF FindingsInv, Indices
  <2> QED
    BY <2>1, <2>4, <2>6, <2>7, <2>8, <2>9 DEF FindingsInv
<1>5. ASSUME NEW found \in SUBSET Fingerprints,
             findings' = [f \in Fingerprints |-> IF f \in Publishable(found) \intersect pass.over
                                                 THEN Dismissed(findings[f], 0) ELSE findings[f]],
             pass' = [pass EXCEPT !.at = "post", !.posted = Publishable(found) \ pass.over]
      PROVE FindingsInv'
  <2>1. Publishable(found) \subseteq Fingerprints
    BY DEF Publishable
  <2>2. \A f \in Publishable(found) \intersect pass.over : pass.items[f].status = "dismissed"
    BY <1>1 DEF FindingsInv
  <2> QED
    BY <1>4, <1>5, <2>1, <2>2
<1> QED
  BY <1>2, <1>3, <1>5 DEF RunPublishes

LEMMA RunPostsKeeps ==
  ASSUME FindingsInv, RunPosts
  PROVE  FindingsInv'
<1>1. UNCHANGED <<remarks, orders>> /\ pass.at = "post"
  BY DEF RunPosts, RunAt
<1>2. ASSUME NEW S \in SUBSET pass.posted, Appears(S), RunPersists(S) \/ (RunUnwinds /\ UNCHANGED findings)
      PROVE FindingsInv'
  <2>1. S \in SUBSET Fingerprints
    BY DEF FindingsInv, FindingsTypes, PassTypes
  <2>2. /\ threads' = [f \in Fingerprints |-> IF f \in S THEN Append(threads[f], "open") ELSE threads[f]]
        /\ \A f \in S : Len(threads[f]) < MaxThreads /\ marked' \in BOOLEAN
        /\ marked' \in BOOLEAN
    BY <1>2 DEF Appears
  <2>3. CASE RunPersists(S)
    BY <1>1, <2>1, <2>2, <2>3, PersistsKeeps
  <2>4. CASE RunUnwinds /\ UNCHANGED findings
    <3>1. \A f \in Fingerprints : /\ threads'[f] \in Seq(States) /\ Len(threads[f])' <= MaxThreads
                                  /\ Indices(f) \subseteq Indices(f)'
      BY <2>1, <2>2, AppearsGrows
    <3>2. \A f \in Fingerprints : NamesThread(findings[f], f)'
      BY <2>4, <3>1 DEF FindingsInv, Threads, NamesThread, Lives
    <3>3. \A o \in orders' : (o.thread \in Indices(o.finding))'
      BY <1>1, <3>1 DEF FindingsInv, FindingsTypes, Order
    <3>4. threads' \in [Fingerprints -> Seq(States)]
      BY <2>2, <3>1
    <3> QED
      BY <1>1, <2>2, <2>4, <3>1, <3>2, <3>3, <3>4, EndedKeeps DEF RunUnwinds, FindingsInv, FindingsTypes
  <2> QED
    BY <1>2, <2>3, <2>4
<1>3. CASE RunUnwinds /\ UNCHANGED <<findings, threads, marked>>
  BY <1>1, <1>3, UnwindsKeeps
<1> QED
  BY <1>2, <1>3 DEF RunPosts

\* The closing loop goes on from items and rows that fit, or the run is over and
\* downgrades the rows of what it failed to resolve.
LEMMA ClosesOnKeeps ==
  ASSUME FindingsInv, pass.at \in {"refresh", "close"},
         NEW items \in [Fingerprints -> Item], NEW rows \in [Fingerprints -> Row],
         NEW S \in SUBSET Closes(items, pass.posted), NEW F \in SUBSET Fingerprints, ClosesOn(items, rows, S, F),
         threads' \in [Fingerprints -> Seq(States)], \A f \in Fingerprints : Len(threads'[f]) = Len(threads[f]),
         UNCHANGED <<remarks, marked, orders>>,
         \A f \in Fingerprints :
           /\ NamesThread(items[f], f) /\ NamesThread(rows[f], f) /\ items[f].status # "verify"
           /\ Lives(items[f]) => rows[f].thread # 0,
         \A f \in Fingerprints \ pass.touched :
           /\ items[f].status = "dismissed" => rows[f].status = "dismissed"
           /\ f \in pass.posted /\ items[f].status \in {"resolved", "moved"} =>
                \E k \in Indices(f) \ {items[f].thread} : threads'[f][k] = "open"
           /\ f \notin pass.posted /\ items[f].status = "resolved" => rows[f].status \in {"resolved", "dismissed"}
  PROVE  FindingsInv'
<1>1. \A f \in Fingerprints : Indices(f)' = Indices(f) /\ Len(threads[f])' <= MaxThreads
  <2> SUFFICES ASSUME NEW f \in Fingerprints PROVE Indices(f)' = Indices(f) /\ Len(threads[f])' <= MaxThreads
    OBVIOUS
  <2>1. threads'[f] \in Seq(States) /\ threads[f] \in Seq(States)
    BY ThreadFacts
  <2> QED
    BY <2>1 DEF Indices, FindingsInv, Threads
<1>2. \A o \in orders' : (o.thread \in Indices(o.finding))'
  BY <1>1 DEF FindingsInv, FindingsTypes, Order
<1>3. S \subseteq Fingerprints
  BY DEF Closes
<1>4. CASE S # {} /\ findings' = rows /\ pass' = [pass EXCEPT !.at = "close", !.items = items, !.left = S, !.failed = F]
  <2>1. /\ DOMAIN pass' = PassFields /\ pass'.at = "close" /\ pass'.seen = pass.seen /\ pass'.items = items
        /\ pass'.over = pass.over /\ pass'.posted = pass.posted /\ pass'.left = S
        /\ pass'.failed = F /\ pass'.touched = pass.touched
    BY <1>4 DEF FindingsInv, FindingsTypes, PassTypes, PassFields
  <2>2. FindingsTypes'
    BY <1>3, <1>4, <2>1 DEF FindingsInv, FindingsTypes, PassTypes, Stops
  <2>3. \A f \in Fingerprints : Threads(f)'
    BY <1>1, <1>4, <2>1, ThreadFacts DEF Threads, NamesThread
  <2>4. \A f \in Fingerprints \ pass'.touched : Agrees(f)'
    BY <1>1, <1>4, <2>1 DEF Agrees
  <2> QED
    BY <1>2, <2>1, <2>2, <2>3, <2>4 DEF FindingsInv
<1>5. CASE /\ pass' = NoPass
           /\ findings' = [f \in Fingerprints |->
                IF f \in F /\ items[f].status = "resolved" THEN [rows[f] EXCEPT !.status = "uncertain"] ELSE rows[f]]
  <2>1. \A f \in Fingerprints : findings'[f] \in Row /\ NamesThread(findings'[f], f)
    <3> SUFFICES ASSUME NEW f \in Fingerprints PROVE findings'[f] \in Row /\ NamesThread(findings'[f], f)
      OBVIOUS
    <3>1. rows[f] \in Row /\ NamesThread(rows[f], f)
      OBVIOUS
    <3>2. CASE f \in F /\ items[f].status = "resolved"
      <4>1. rows[f].thread # 0
        BY <3>2 DEF Lives
      <4>2. findings'[f] = [rows[f] EXCEPT !.status = "uncertain"]
        BY <1>5, <3>2
      <4> QED
        BY <3>1, <4>1, <4>2 DEF Row, NamesThread, Statuses, Live
    <3>3. CASE ~(f \in F /\ items[f].status = "resolved")
      BY <1>5, <3>1, <3>3
    <3> QED
      BY <3>2, <3>3
  <2>2. findings' \in [Fingerprints -> Row]
    BY <1>5, <2>1
  <2>3. \A f \in Fingerprints : NamesThread(findings[f], f)'
    BY <1>1, <2>1 DEF NamesThread
  <2> QED
    BY <1>1, <1>2, <1>5, <2>2, <2>3, EndedKeeps DEF FindingsInv, FindingsTypes
<1> QED
  BY <1>4, <1>5 DEF ClosesOn

LEMMA RunRefreshesKeeps ==
  ASSUME FindingsInv, RunRefreshes
  PROVE  FindingsInv'
<1>1. UNCHANGED <<threads, remarks, marked, orders>> /\ pass.at = "refresh"
  BY DEF RunRefreshes, RunAt
<1>2. PICK heard \in BOOLEAN :
        LET rows  == IF heard THEN [f \in Fingerprints |-> Threaded(findings[f], f, f \in pass.posted)] ELSE findings
            items == [f \in Fingerprints |->
                       [pass.items[f] EXCEPT !.thread = IF @ = 0 THEN rows[f].thread ELSE @]]
        IN  ClosesOn(items, rows, Closes(items, pass.posted), {})
  BY DEF RunRefreshes
<1> DEFINE rows  == IF heard THEN [f \in Fingerprints |-> Threaded(findings[f], f, f \in pass.posted)] ELSE findings
           items == [f \in Fingerprints |->
                      [pass.items[f] EXCEPT !.thread = IF @ = 0 THEN rows[f].thread ELSE @]]
<1>3. ClosesOn(items, rows, Closes(items, pass.posted), {})
  BY <1>2
<1>4. ASSUME NEW f \in Fingerprints
      PROVE  /\ rows[f] \in Row /\ NamesThread(rows[f], f)
             /\ findings[f].status = "dismissed" => rows[f].status = "dismissed"
             /\ findings[f].thread # 0 => rows[f].thread # 0
             /\ f \notin pass.posted /\ findings[f].status \in {"resolved", "dismissed"} =>
                  rows[f].status \in {"resolved", "dismissed"}
  <2>1. findings[f] \in Row /\ NamesThread(findings[f], f)
    BY ThreadFacts
  <2>2. rows[f] = IF heard THEN Threaded(findings[f], f, f \in pass.posted) ELSE findings[f]
    OBVIOUS
  <2> HIDE DEF rows
  <2>3. (f \in pass.posted) \in BOOLEAN
    OBVIOUS
  <2> QED
    BY <2>1, <2>2, <2>3, ThreadedNames
<1>5. rows \in [Fingerprints -> Row]
  BY <1>4 DEF FindingsInv, FindingsTypes
<1> HIDE DEF rows
<1>6. ASSUME NEW f \in Fingerprints
      PROVE  /\ items[f] \in Item /\ NamesThread(items[f], f) /\ items[f].status = pass.items[f].status
             /\ Lives(pass.items[f]) => items[f].thread = pass.items[f].thread
  <2>1. pass.items[f] \in Item /\ NamesThread(pass.items[f], f)
    BY ThreadFacts
  <2>2. items[f] = [pass.items[f] EXCEPT !.thread = IF pass.items[f].thread = 0 THEN rows[f].thread ELSE pass.items[f].thread]
    OBVIOUS
  <2>3. rows[f].thread \in Nat /\ rows[f].thread \in Indices(f) \union {0}
    BY <1>4 DEF NamesThread, Row
  <2> HIDE DEF items
  <2> QED
    BY <2>1, <2>2, <2>3 DEF Item, NamesThread, Lives
<1>7. items \in [Fingerprints -> Item]
  BY <1>6
<1> HIDE DEF items
<1>8. \A f \in Fingerprints :
        /\ NamesThread(items[f], f) /\ NamesThread(rows[f], f) /\ items[f].status # "verify"
        /\ Lives(items[f]) => rows[f].thread # 0
  BY <1>1, <1>4, <1>6 DEF FindingsInv, Threads, Lives
<1>9. \A f \in Fingerprints \ pass.touched :
        /\ items[f].status = "dismissed" => rows[f].status = "dismissed"
        /\ f \in pass.posted /\ items[f].status \in {"resolved", "moved"} =>
             \E k \in Indices(f) \ {items[f].thread} : threads'[f][k] = "open"
        /\ f \notin pass.posted /\ items[f].status = "resolved" => rows[f].status \in {"resolved", "dismissed"}
  <2> SUFFICES ASSUME NEW f \in Fingerprints \ pass.touched
               PROVE  /\ items[f].status = "dismissed" => rows[f].status = "dismissed"
                      /\ f \in pass.posted /\ items[f].status \in {"resolved", "moved"} =>
                           \E k \in Indices(f) \ {items[f].thread} : threads'[f][k] = "open"
                      /\ f \notin pass.posted /\ items[f].status = "resolved" => rows[f].status \in {"resolved", "dismissed"}
    OBVIOUS
  <2>1. Agrees(f)
    BY DEF FindingsInv
  <2> QED
    BY <1>1, <1>4, <1>6, <2>1 DEF Agrees, Lives
<1>10. threads' \in [Fingerprints -> Seq(States)] /\ \A f \in Fingerprints : Len(threads'[f]) = Len(threads[f])
  BY <1>1 DEF FindingsInv, FindingsTypes
<1>11. /\ pass.at \in {"refresh", "close"} /\ UNCHANGED <<remarks, marked, orders>>
       /\ {} \in SUBSET Fingerprints /\ Closes(items, pass.posted) \in SUBSET Closes(items, pass.posted)
  BY <1>1
<1> QED
  BY ONLY <1>3, <1>5, <1>7, <1>8, <1>9, <1>10, <1>11, FindingsInv, ClosesOnKeeps, Zenon

\* A thread closed, or opened or deleted, leaves its finding as many threads.
LEMMA ThreadSet ==
  ASSUME FindingsInv, NEW f \in Fingerprints, NEW t \in Indices(f), NEW s \in States,
         threads' = [threads EXCEPT ![f][t] = s]
  PROVE  /\ threads' \in [Fingerprints -> Seq(States)] /\ \A g \in Fingerprints : Len(threads'[g]) = Len(threads[g])
         /\ \A g \in Fingerprints \ {f} : threads'[g] = threads[g]
         /\ \A k \in Indices(f) \ {t} : threads'[f][k] = threads[f][k]
<1>1. threads[f] \in Seq(States) /\ Indices(f) = 1..Len(threads[f]) /\ threads \in [Fingerprints -> Seq(States)]
  BY ThreadFacts DEF FindingsInv, FindingsTypes
<1>2. threads'[f] = [threads[f] EXCEPT ![t] = s] /\ \A g \in Fingerprints \ {f} : threads'[g] = threads[g]
  BY <1>1
<1>3. threads'[f] \in Seq(States) /\ Len(threads'[f]) = Len(threads[f])
  BY <1>1, <1>2
<1> QED
  BY <1>1, <1>2, <1>3 DEF Indices

LEMMA RunClosesKeeps ==
  ASSUME FindingsInv, NEW f \in Fingerprints, RunCloses(f)
  PROVE  FindingsInv'
<1> DEFINE t == pass.items[f].thread
<1>1. /\ pass.at = "close" /\ f \in pass.left /\ UNCHANGED <<remarks, marked, orders>>
      /\ threads' \in {threads, [threads EXCEPT ![f][t] = "closed"]}
      /\ \E F \in {pass.failed, pass.failed \union {f}} : ClosesOn(pass.items, findings, pass.left \ {f}, F)
  BY DEF RunCloses, RunAt
<1>2. t \in Indices(f) /\ "closed" \in States /\ pass.left \subseteq Closes(pass.items, pass.posted)
  BY <1>1, ThreadFacts DEF FindingsInv, Closes, NamesThread, States
<1>3. /\ threads' \in [Fingerprints -> Seq(States)] /\ \A g \in Fingerprints : Len(threads'[g]) = Len(threads[g])
      /\ \A g \in Fingerprints : \A k \in Indices(g) \ {pass.items[g].thread} : threads'[g][k] = threads[g][k]
  <2>1. CASE threads' = threads
    BY <2>1 DEF FindingsInv, FindingsTypes
  <2>2. CASE threads' = [threads EXCEPT ![f][t] = "closed"]
    BY <1>2, <2>2, ThreadSet
  <2> QED
    BY <1>1, <2>1, <2>2
<1>4. PICK F \in SUBSET Fingerprints : ClosesOn(pass.items, findings, pass.left \ {f}, F)
  BY <1>1 DEF FindingsInv, FindingsTypes, PassTypes
<1>5. \A g \in Fingerprints :
        /\ NamesThread(pass.items[g], g) /\ NamesThread(findings[g], g) /\ pass.items[g].status # "verify"
        /\ Lives(pass.items[g]) => findings[g].thread # 0
  BY <1>1 DEF FindingsInv, Threads
<1>6. \A g \in Fingerprints \ pass.touched :
        /\ pass.items[g].status = "dismissed" => findings[g].status = "dismissed"
        /\ g \in pass.posted /\ pass.items[g].status \in {"resolved", "moved"} =>
             \E k \in Indices(g) \ {pass.items[g].thread} : threads'[g][k] = "open"
        /\ g \notin pass.posted /\ pass.items[g].status = "resolved" => findings[g].status \in {"resolved", "dismissed"}
  BY <1>1, <1>3 DEF FindingsInv, Agrees
<1>7. /\ pass.at \in {"refresh", "close"} /\ pass.left \ {f} \in SUBSET Closes(pass.items, pass.posted)
      /\ pass.items \in [Fingerprints -> Item] /\ findings \in [Fingerprints -> Row]
  BY <1>1, <1>2 DEF FindingsInv, FindingsTypes, PassTypes
<1> QED
  BY ONLY <1>1, <1>3, <1>4, <1>5, <1>6, <1>7, FindingsInv, ClosesOnKeeps, Zenon

-----------------------------------------------------------------------------
(* People *)

\* Somebody touches f while a run may be under way.
LEMMA TouchKeeps ==
  ASSUME FindingsInv, NEW f \in Fingerprints, Touched(f),
         findings' \in [Fingerprints -> Row], threads' \in [Fingerprints -> Seq(States)],
         \A g \in Fingerprints : Len(threads'[g]) = Len(threads[g]),
         \A g \in Fingerprints \ {f} : findings'[g] = findings[g] /\ threads'[g] = threads[g],
         NamesThread(findings'[f], f),
         findings'[f].thread # 0 \/ (findings[f].thread = 0 /\ findings'[f].status = findings[f].status),
         orders' \subseteq Order, \A o \in orders' : o.thread \in Indices(o.finding),
         remarks' \subseteq Fingerprints, marked' = marked
  PROVE  FindingsInv'
<1>1. /\ DOMAIN pass' = PassFields /\ pass'.at = pass.at /\ pass'.seen = pass.seen /\ pass'.items = pass.items
      /\ pass'.over = pass.over /\ pass'.posted = pass.posted /\ pass'.left = pass.left /\ pass'.failed = pass.failed
      /\ pass'.touched \in {pass.touched, pass.touched \union {f}}
      /\ pass.at # "idle" => f \in pass'.touched
  BY DEF Touched, RunAt, FindingsInv, FindingsTypes, PassTypes, PassFields
<1>2. \A g \in Fingerprints : Indices(g)' = Indices(g) /\ Len(threads[g])' <= MaxThreads
  <2> SUFFICES ASSUME NEW g \in Fingerprints PROVE Indices(g)' = Indices(g) /\ Len(threads[g])' <= MaxThreads
    OBVIOUS
  <2>1. threads'[g] \in Seq(States) /\ threads[g] \in Seq(States)
    BY ThreadFacts
  <2> QED
    BY <2>1 DEF Indices, FindingsInv, Threads
<1>3. FindingsTypes'
  <2>1. PassTypes(pass')
    BY <1>1 DEF FindingsInv, FindingsTypes, PassTypes
  <2> QED
    BY <2>1 DEF FindingsInv, FindingsTypes
<1>4. \A g \in Fingerprints : Threads(g)'
  <2> SUFFICES ASSUME NEW g \in Fingerprints PROVE Threads(g)'
    OBVIOUS
  <2>1. Threads(g)
    BY DEF FindingsInv
  <2>2. NamesThread(findings'[g], g) /\ (findings[g].thread # 0 => findings'[g].thread # 0)
        /\ (findings'[g].thread # 0 \/ (findings[g].thread = 0 /\ findings'[g].status = findings[g].status))
    <3>1. CASE g = f
      BY <3>1
    <3>2. CASE g # f
      BY <2>1, <3>2 DEF Threads
    <3> QED
      BY <3>1, <3>2
  <2> QED
    BY <1>1, <1>2, <2>1, <2>2 DEF Threads, NamesThread
<1>5. \A g \in Fingerprints \ pass'.touched : Agrees(g)'
  <2> SUFFICES ASSUME NEW g \in Fingerprints, g \notin pass'.touched PROVE Agrees(g)'
    OBVIOUS
  <2>1. CASE pass.at = "idle"
    BY <1>1, <2>1 DEF Agrees
  <2>2. CASE pass.at # "idle"
    <3>1. g # f /\ Agrees(g)
      BY <1>1, <2>2 DEF FindingsInv
    <3> QED
      BY <1>1, <1>2, <3>1 DEF Agrees
  <2> QED
    BY <2>1, <2>2
<1>6. \A o \in orders' : (o.thread \in Indices(o.finding))'
  BY <1>2 DEF Order
<1> QED
  BY <1>1, <1>3, <1>4, <1>5, <1>6 DEF FindingsInv

LEMMA PeopleKeep ==
  ASSUME FindingsInv, NEW f \in Fingerprints, NEW t \in Indices(f), Dismiss(f, t) \/ Reopen(f, t)
  PROVE  FindingsInv'
<1>1. findings[f] \in Row /\ NamesThread(findings[f], f) /\ Indices(f) \subseteq Nat \ {0} /\ t \in Nat \ {0}
  BY ThreadFacts
<1>2. PICK r \in Row : findings' = [findings EXCEPT ![f] = r] /\ NamesThread(r, f)
                       /\ (r.thread # 0 \/ (findings[f].thread = 0 /\ r.status = findings[f].status))
  <2>1. CASE Dismiss(f, t)
    BY <1>1, <2>1, DismissedNames DEF Dismiss, Dismissed
  <2>2. CASE Reopen(f, t)
    BY <1>1, <2>2, ReopenedNames DEF Reopen
  <2> QED
    BY <2>1, <2>2
<1>3. /\ findings' \in [Fingerprints -> Row] /\ findings'[f] = r
      /\ \A g \in Fingerprints \ {f} : findings'[g] = findings[g]
  BY <1>2 DEF FindingsInv, FindingsTypes
<1>4. /\ Touched(f) /\ UNCHANGED <<threads, remarks, marked>>
      /\ \E s \in {"open", "closed"} : orders' = orders \union {[finding |-> f, thread |-> t, state |-> s]}
  BY DEF Dismiss, Reopen, Acts
<1>5. orders' \subseteq Order /\ \A o \in orders' : o.thread \in Indices(o.finding)
  BY <1>1, <1>4 DEF FindingsInv, FindingsTypes, Order
<1> QED
  BY <1>2, <1>3, <1>4, <1>5, TouchKeeps DEF FindingsInv, FindingsTypes

LEMMA OrderAnsweredKeeps ==
  ASSUME FindingsInv, NEW o \in orders, OrderAnswered(o)
  PROVE  FindingsInv'
<1> DEFINE f == o.finding
<1>1. f \in Fingerprints /\ o.thread \in Indices(f) /\ o.state \in States
  BY DEF FindingsInv, FindingsTypes, Order, States
<1>2. /\ Touched(f) /\ UNCHANGED <<findings, remarks, marked>> /\ orders' \subseteq orders
      /\ threads' = threads \/ threads' = [threads EXCEPT ![f][o.thread] = o.state]
  BY DEF OrderAnswered
<1> HIDE DEF f
<1>3. /\ threads' \in [Fingerprints -> Seq(States)] /\ \A g \in Fingerprints : Len(threads'[g]) = Len(threads[g])
      /\ \A g \in Fingerprints \ {f} : threads'[g] = threads[g]
  BY <1>1, <1>2, ThreadSet DEF FindingsInv, FindingsTypes
<1>4. NamesThread(findings'[f], f)
  BY <1>1, <1>2, ThreadFacts
<1>5. orders' \subseteq Order /\ \A q \in orders' : q.thread \in Indices(q.finding)
  BY <1>2 DEF FindingsInv, FindingsTypes
<1> QED
  BY <1>1, <1>2, <1>3, <1>4, <1>5, TouchKeeps DEF FindingsInv, FindingsTypes

LEMMA ClicksKeep ==
  ASSUME FindingsInv, NEW f \in Fingerprints, NEW t \in Indices(f), NEW s \in States, Clicks(f, t, s)
  PROVE  FindingsInv'
<1>1. Touched(f) /\ UNCHANGED <<findings, remarks, marked, orders>> /\ threads' = [threads EXCEPT ![f][t] = s]
  BY DEF Clicks, Acts
<1>2. /\ threads' \in [Fingerprints -> Seq(States)] /\ \A g \in Fingerprints : Len(threads'[g]) = Len(threads[g])
      /\ \A g \in Fingerprints \ {f} : threads'[g] = threads[g]
  BY <1>1, ThreadSet
<1>3. NamesThread(findings'[f], f)
  BY <1>1, ThreadFacts
<1> QED
  BY <1>1, <1>2, <1>3, TouchKeeps DEF FindingsInv, FindingsTypes

LEMMA RemarksKeep ==
  ASSUME FindingsInv, NEW f \in Fingerprints, Remarks(f)
  PROVE  FindingsInv'
<1>1. Touched(f) /\ UNCHANGED <<findings, threads, marked, orders>> /\ remarks' = remarks \union {f}
  BY DEF Remarks, Acts
<1>2. NamesThread(findings'[f], f)
  BY <1>1, ThreadFacts
<1> QED
  BY <1>1, <1>2, TouchKeeps DEF FindingsInv, FindingsTypes

-----------------------------------------------------------------------------
(* The theorems *)

LEMMA FindingsNextKeeps ==
  ASSUME FindingsInv, [FindingsNext]_findingVars
  PROVE  FindingsInv'
<1>1. CASE RunStarts \/ RunListsThreads \/ RunReadsRemarks \/ RunVerifies \/ RunPublishes \/ RunPosts \/ RunRefreshes
  BY <1>1, RunStartsKeeps, RunListsThreadsKeeps, RunReadsRemarksKeeps, RunVerifiesKeeps, RunPublishesKeeps,
     RunPostsKeeps, RunRefreshesKeeps
<1>2. ASSUME NEW f \in Fingerprints, RunCloses(f) \/ Remarks(f)
      PROVE FindingsInv'
  BY <1>2, RunClosesKeeps, RemarksKeep
<1>3. ASSUME NEW f \in Fingerprints, NEW t, Dismiss(f, t) \/ Reopen(f, t) \/ \E s \in States : Clicks(f, t, s)
      PROVE FindingsInv'
  <2>1. t \in Indices(f)
    BY <1>3 DEF Dismiss, Reopen, Clicks, Listed
  <2> QED
    BY <1>3, <2>1, PeopleKeep, ClicksKeep
<1>4. ASSUME NEW o \in orders, OrderAnswered(o) PROVE FindingsInv'
  BY <1>4, OrderAnsweredKeeps
<1>5. CASE FindingsDie
  <2>1. pass' = NoPass /\ orders' = {} /\ UNCHANGED <<findings, threads, remarks, marked>>
    BY <1>5 DEF FindingsDie
  <2>2. \A f \in Fingerprints : Len(threads[f])' <= MaxThreads /\ NamesThread(findings[f], f)'
    BY <2>1 DEF FindingsInv, Threads, NamesThread, Indices
  <2> QED
    BY <2>1, <2>2, EndedKeeps DEF FindingsInv, FindingsTypes
<1>6. CASE UNCHANGED findingVars
  BY <1>6 DEF findingVars, FindingsInv, FindingsTypes, Threads, NamesThread, Agrees, Indices
<1> QED
  BY <1>1, <1>2, <1>3, <1>4, <1>5, <1>6 DEF FindingsNext, States

\* Rows, items and orders name threads that are there, and what a run has decided
\* agrees with them unless somebody was at the finding meanwhile.
THEOREM FindingsSound == FindingsSpec => [](FindingsTypeOK /\ FindingsInv)
<1>1. FindingsInv => FindingsTypeOK
  <2> SUFFICES ASSUME FindingsInv PROVE FindingsTypeOK
    OBVIOUS
  <2>1. ASSUME NEW f \in Fingerprints
        PROVE  /\ findings[f].status \in Statuses \union {"none"} /\ findings[f].thread \in Indices(f) \union {0}
               /\ pass.items[f].status \in Verdicts \union {"none", "verify", "dismissed"}
               /\ pass.items[f].thread \in Indices(f) \union {0}
               /\ threads[f] \in Seq({"open", "closed", "gone"}) /\ Len(threads[f]) <= MaxThreads
    BY ThreadFacts DEF NamesThread, Row, Item, ItemStatuses, States, FindingsInv, Threads
  <2> QED
    BY <2>1 DEF FindingsTypeOK, FindingsInv, FindingsTypes, PassTypes
<1> QED
  BY <1>1, FindingsStart, FindingsNextKeeps, PTL DEF FindingsSpec

\* "Moved without a replacement comment" leaves the thread open: a run closes a
\* thread only of a finding that is settled in its row, or that has another
\* thread open (applyReconciliationThreads).
THEOREM ClosesSettled == FindingsSpec => ClosesOnlySettled
<1> DEFINE Closed == \A f \in pass.left \ (pass'.left \union pass.touched) : threads'[f] # threads[f] =>
                       \/ findings[f].status \in {"resolved", "dismissed"}
                       \/ \E i \in Indices(f) : threads'[f][i] = "open"
<1>1. ASSUME FindingsInv, [FindingsNext]_findingVars PROVE [Closed]_findingVars
  <2> SUFFICES ASSUME NEW f \in pass.left \ (pass'.left \union pass.touched), threads'[f] # threads[f], FindingsNext
               PROVE  \/ findings[f].status \in {"resolved", "dismissed"}
                      \/ \E i \in Indices(f) : threads'[f][i] = "open"
    BY <1>1 DEF findingVars
  <2>1. f \in Fingerprints /\ pass.at = "close" /\ f \in Closes(pass.items, pass.posted) /\ Agrees(f)
    BY <1>1 DEF FindingsInv, FindingsTypes, PassTypes
  <2>2. \E g \in Fingerprints : RunCloses(g)
    <3>1. ASSUME NEW g, Touched(g) PROVE FALSE
      BY <1>1, <3>1 DEF Touched, FindingsInv, FindingsTypes, PassTypes, PassFields
    <3>2. ~(RunStarts \/ RunListsThreads \/ RunReadsRemarks \/ RunVerifies \/ RunPublishes \/ RunPosts \/ RunRefreshes)
      BY <2>1 DEF RunStarts, RunListsThreads, RunReadsRemarks, RunVerifies, RunPublishes, RunPosts, RunRefreshes, RunAt
    <3>3. ~FindingsDie
      BY DEF FindingsDie
    <3> QED
      BY <3>1, <3>2, <3>3 DEF FindingsNext, Remarks, Dismiss, Reopen, Clicks, Acts, OrderAnswered
  <2>3. PICK g \in Fingerprints : RunCloses(g)
    BY <2>2
  <2> DEFINE t == pass.items[g].thread
  <2>4. threads' = [threads EXCEPT ![g][t] = "closed"]
    BY <2>3 DEF RunCloses
  <2>5. g = f
    BY <1>1, <2>1, <2>4 DEF FindingsInv, FindingsTypes
  <2>6. t \in Indices(f) /\ "closed" \in States
    BY <1>1, <2>1, <2>5, ThreadFacts DEF Closes, NamesThread, States
  <2>7. \A k \in Indices(f) \ {t} : threads'[f][k] = threads[f][k]
    BY <1>1, <2>1, <2>4, <2>5, <2>6, ThreadSet
  <2>8. pass.items[f].status \in {"resolved", "dismissed", "moved"} /\ (pass.items[f].status = "moved" => f \in pass.posted)
    BY <2>1 DEF Closes
  <2> QED
    BY <2>1, <2>5, <2>7, <2>8 DEF Agrees
<1> QED
  BY <1>1, FindingsStart, FindingsNextKeeps, PTL DEF FindingsSpec, ClosesOnlySettled

-----------------------------------------------------------------------------
(* The types of the pages *)

JobWords ==
  \A j \in DispatchJobs : /\ jobPage[j].state \in {"absent", "running", "completed", "dead"}
                          /\ jobPage[j].status \in {"not_requested", "dispatching", "dispatched", "dispatch_failed"}
                          /\ sender[j].i \in 0..Len(Targets)

LEMMA LoopWords ==
  ASSUME PageInv, JobWords, NEW j \in DispatchJobs, NEW prs \in [TargetSet -> PageRow], NEW i \in Nat \ {0}, NEW errors,
         Loops(j, prs, i, errors)
  PROVE  JobWords'
<1>1. PageTypes /\ 0 \in 0..Len(Targets) /\ DOMAIN Targets = 1..Len(Targets)
  BY TargetFacts DEF PageInv
<1>2. CASE sender' = [sender EXCEPT ![j] = NoSender] /\ UNCHANGED jobPage
  BY <1>1, <1>2 DEF JobWords, PageTypes, NoSender
<1>3. CASE /\ sender' = [sender EXCEPT ![j] = NoSender]
           /\ jobPage' = [jobPage EXCEPT ![j].status = IF errors THEN "dispatch_failed" ELSE "dispatched",
                                         ![j].state = IF @ = "dead" THEN @ ELSE "completed"]
  BY <1>1, <1>3 DEF JobWords, PageTypes, NoSender
<1>4. ASSUME NEW k \in DOMAIN Targets, NEW at,
             sender' = [sender EXCEPT ![j] = [at |-> at, i |-> k, errors |-> errors]],
             jobPage' = [jobPage EXCEPT ![j].status = "dispatching"]
      PROVE  JobWords'
  <2>1. k \in 0..Len(Targets)
    BY <1>1, TargetFacts
  <2> QED
    BY <1>1, <1>4, <2>1 DEF JobWords, PageTypes
<1>5. CASE \E k \in DOMAIN Targets :
              /\ sender' = [sender EXCEPT ![j] =
                   [at |-> IF Targets[k] \in Webhooks THEN "call" ELSE "list", i |-> k, errors |-> errors]]
              /\ jobPage' = [jobPage EXCEPT ![j].status = "dispatching"]
  <2>1. PICK k \in DOMAIN Targets :
              /\ sender' = [sender EXCEPT ![j] =
                   [at |-> IF Targets[k] \in Webhooks THEN "call" ELSE "list", i |-> k, errors |-> errors]]
              /\ jobPage' = [jobPage EXCEPT ![j].status = "dispatching"]
    BY <1>5
  <2> QED
    BY <1>4, <2>1
<1> DEFINE Ends == /\ sender' = [sender EXCEPT ![j] = NoSender]
                   /\ jobPage' = [jobPage EXCEPT ![j].status = IF errors THEN "dispatch_failed" ELSE "dispatched",
                                                 ![j].state = IF @ = "dead" THEN @ ELSE "completed"]
           Halts == sender' = [sender EXCEPT ![j] = NoSender] /\ UNCHANGED jobPage
           GoesOn == \E k \in DOMAIN Targets :
              /\ sender' = [sender EXCEPT ![j] =
                   [at |-> IF Targets[k] \in Webhooks THEN "call" ELSE "list", i |-> k, errors |-> errors]]
              /\ jobPage' = [jobPage EXCEPT ![j].status = "dispatching"]
<1>6. Halts \/ Ends \/ GoesOn
  <2>1. ~Halts => Ends \/ GoesOn
    BY LoopEffect
  <2> QED
    BY <2>1, Zenon
<1> QED
  BY <1>2, <1>3, <1>5, <1>6

LEMMA WordsKept == ASSUME PageInv, JobWords, DispatchesNext PROVE JobWords'
<1>1. PageTypes /\ 0 \in 0..Len(Targets) /\ DOMAIN Targets = 1..Len(Targets) /\ Len(Targets) \in Nat
  BY TargetFacts DEF PageInv
<1>2. ASSUME NEW j \in DispatchJobs, NEW errors, NEW status \in {"dispatched", "dispatch_failed"},
             Sending(j), Loops(j, RowIs(CurrentTarget(j), status), sender[j].i + 1, errors)
      PROVE  JobWords'
  <2>1. RowIs(CurrentTarget(j), status) \in [TargetSet -> PageRow]
    <3>1. CurrentTarget(j) \in TargetSet /\ pageRows[CurrentTarget(j)] \in PageRow /\ pageRows \in [TargetSet -> PageRow]
      BY <1>1, <1>2, TargetFacts DEF PageTypes, CurrentTarget
    <3>2. [pageRows[CurrentTarget(j)] EXCEPT !.status = status] \in PageRow
      BY <3>1 DEF PageRow
    <3> QED
      BY <3>1, <3>2 DEF RowIs
  <2>2. sender[j].i + 1 \in Nat \ {0}
    BY <1>1, <1>2 DEF PageTypes
  <2> QED
    BY <1>2, <2>1, <2>2, LoopWords
<1>3. ASSUME NEW j \in DispatchJobs, RunDispatches(j) PROVE JobWords'
  <2>1. CASE Loops(j, pageRows, 1, FALSE)
    <3>1. pageRows \in [TargetSet -> PageRow] /\ 1 \in Nat \ {0}
      BY <1>1 DEF PageTypes
    <3> QED
      BY <2>1, <3>1, LoopWords
  <2>2. CASE /\ sender' = [sender EXCEPT ![j] = NoSender]
             /\ \/ jobPage' = [jobPage EXCEPT ![j].state = IF @ = "dead" THEN @ ELSE "completed"]
                \/ jobPage' = [jobPage EXCEPT ![j].status = "dispatch_failed", ![j].state = "completed"]
    BY <1>1, <2>2 DEF JobWords, PageTypes, NoSender
  <2> QED
    BY <1>3, <2>1, <2>2 DEF RunDispatches
<1>4. ASSUME NEW j \in DispatchJobs, ListsComments(j) PROVE JobWords'
  <2>1. Sending(j)
    BY <1>4 DEF ListsComments, Sending
  <2>2. CASE sender' = [sender EXCEPT ![j].at = "call"] /\ UNCHANGED jobPage
    BY <1>1, <2>2 DEF JobWords, PageTypes
  <2> QED
    BY <1>2, <1>4, <2>1, <2>2 DEF ListsComments, Sent, Fails
<1>5. ASSUME NEW j \in DispatchJobs, Calls(j) PROVE JobWords'
  BY <1>2, <1>5 DEF Calls, Sent, Fails, Sending
<1>6. ASSUME NEW j \in DispatchJobs, EscalateCommand(j) PROVE JobWords'
  BY <1>1, <1>6 DEF EscalateCommand, JobWords, PageTypes
<1>7. ASSUME NEW j \in DispatchJobs, DispatchCancelled(j) PROVE JobWords'
  BY <1>1, <1>7 DEF DispatchCancelled, JobWords, PageTypes
<1>8. CASE DispatchRereview
  BY <1>1, <1>8 DEF DispatchRereview, JobWords, PageTypes, DispatchJobs
<1>9. CASE DispatchDies
  BY <1>1, <1>9 DEF DispatchDies, JobWords, NoSender
<1> QED
  BY <1>3, <1>4, <1>5, <1>6, <1>7, <1>8, <1>9 DEF DispatchesNext

\* The rows, the jobs and the senders have their types.
THEOREM PagesWellTyped == DispatchesSpec => []DispatchesTypeOK
<1>1. DispatchesInit => JobWords
  BY TargetFacts DEF DispatchesInit, JobWords, NoSender
<1>2. PageInv /\ JobWords /\ [DispatchesNext]_dispatchVars => JobWords'
  <2>1. UNCHANGED dispatchVars /\ JobWords => JobWords'
    BY DEF dispatchVars, JobWords
  <2> QED
    BY <2>1, WordsKept
<1>3. PageInv /\ JobWords => DispatchesTypeOK
  BY DEF PageInv, PageTypes, JobWords, DispatchesTypeOK, PageRow
<1> QED
  BY <1>1, <1>2, <1>3, DispatchesStart, DispatchesNextKeeps, PTL DEF DispatchesSpec

\* The log, the claims and the requests have their types.
THEOREM IntakeWellTyped == IntakeSpec => []IntakeTypeOK
<1>1. IntakeInv => IntakeTypeOK
  BY DEF IntakeInv, IntakeTypes, Request, IntakeTypeOK
<1> QED
  BY <1>1, IntakeStarts, IntakeNextKeeps, PTL DEF IntakeSpec

-----------------------------------------------------------------------------
(* The components together *)

ComponentVars == <<scene, findingVars, dispatchVars, scanVars, revisionVars, panelVars, chatVars, intakeVars, promptVars>>

InAScene == scene \in Scenes

\* A step of the eight is one of a component, and leaves the others alone.
LEMMA OneAtATime ==
  [ComponentsNext]_ComponentVars =>
    /\ [FindingsNext]_findingVars /\ [DispatchesNext]_dispatchVars /\ [ScanIssuesNext]_scanVars
    /\ [RevisionsNext]_revisionVars /\ [PanelNext]_panelVars /\ [ChatNext]_chatVars
    /\ [IntakeNext]_intakeVars /\ [PromptsNext]_promptVars /\ (InAScene => InAScene')
BY DEF ComponentsNext, Plays, ComponentVars, InAScene

\* A behaviour of the eight together is a behaviour of each.
LEMMA EachAlone ==
  ComponentsSpec => /\ FindingsSpec /\ DispatchesSpec /\ ScanIssuesSpec /\ RevisionsSpec
                    /\ PanelSpec /\ ChatSpec /\ IntakeSpec /\ PromptsSpec /\ []InAScene
<1>1. ComponentsInit => /\ FindingsInit /\ DispatchesInit /\ ScanIssuesInit /\ RevisionsInit
                        /\ PanelInit /\ ChatInit /\ IntakeInit /\ PromptsInit /\ InAScene
  BY DEF ComponentsInit, InAScene
<1>2. ComponentsSpec => FindingsSpec /\ DispatchesSpec /\ ScanIssuesSpec
  BY <1>1, OneAtATime, PTL DEF ComponentsSpec, ComponentVars, FindingsSpec, DispatchesSpec, ScanIssuesSpec
<1>3. ComponentsSpec => RevisionsSpec /\ PanelSpec /\ ChatSpec
  BY <1>1, OneAtATime, PTL DEF ComponentsSpec, ComponentVars, RevisionsSpec, PanelSpec, ChatSpec
<1>4. ComponentsSpec => IntakeSpec /\ PromptsSpec /\ []InAScene
  BY <1>1, OneAtATime, PTL DEF ComponentsSpec, ComponentVars, IntakeSpec, PromptsSpec
<1> QED
  BY <1>2, <1>3, <1>4

\* Every table and every piece of memory of the eight components has its type.
THEOREM ComponentsHold == ComponentsSpec => []ComponentsTypeOK
<1>1. ComponentsSpec => [](FindingsTypeOK /\ DispatchesTypeOK /\ ScanIssuesTypeOK /\ RevisionsTypeOK)
  BY EachAlone, FindingsSound, PagesWellTyped, ScanIssuesWellTyped, RevisionsWellTyped, PTL
<1>2. ComponentsSpec => [](PanelTypeOK /\ ChatTypeOK /\ IntakeTypeOK /\ PromptsTypeOK)
  BY EachAlone, PanelSound, ChatWellTyped, IntakeWellTyped, PromptsWellTyped, PTL
<1>3. InAScene /\ FindingsTypeOK /\ DispatchesTypeOK /\ ScanIssuesTypeOK /\ RevisionsTypeOK
        /\ PanelTypeOK /\ ChatTypeOK /\ IntakeTypeOK /\ PromptsTypeOK => ComponentsTypeOK
  BY DEF ComponentsTypeOK, InAScene
<1> QED
  BY <1>1, <1>2, <1>3, EachAlone, PTL

\* What each of the eight promises holds of them together: one page, one issue
\* and one effect each, the ceiling, whole transcripts, traceable prompts, only
\* settled threads closed and only sound profiles run.
THEOREM PromisesHold ==
  ComponentsSpec => /\ [](PagesOnce /\ OneIssuePerFinding /\ CeilingHolds /\ ChatIsSerial /\ ActsOnce /\ PromptsTraceable)
                    /\ ClosesOnlySettled /\ ProfilesHold
<1>1. ComponentsSpec => [](PagesOnce /\ OneIssuePerFinding /\ CeilingHolds)
  BY EachAlone, PagesOnceAlways, OneIssueEver, CeilingAlways, PTL
<1>2. ComponentsSpec => [](ChatIsSerial /\ ActsOnce /\ PromptsTraceable)
  BY EachAlone, ChatAlwaysSerial, ActsOnceAlways, AlwaysTraceable, PTL
<1>3. ComponentsSpec => ClosesOnlySettled /\ ProfilesHold
  BY EachAlone, ClosesSettled, ProfilesAlwaysHold, PTL
<1> QED
  BY <1>1, <1>2, <1>3, PTL
=============================================================================

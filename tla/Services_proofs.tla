---------------------------- MODULE Services_proofs ----------------------------
(***************************************************************************)
(* What the process keeps in memory beside the reviews: for every number of  *)
(* calls, steps, refreshes and tasks, whatever hangs, fails or answers late. *)
(* Each part has its inductive invariant, which the last section puts        *)
(* together for the process as a whole.                                      *)
(***************************************************************************)
EXTENDS MCServices, FiniteSetTheorems, SequenceTheorems, TLAPS

(* Calls of the model CLI *)

CallRecords ==
  [at : {"absent", "probe", "pin", "run", "settled"}, v2 : BOOLEAN,
   result : {"none", "resolved", "rejected"}, usage : [cost : Nat, complete : BOOLEAN]]

CliTyped ==
  /\ major \in {"none", "pending", "v1", "v2"} /\ pinned \in BOOLEAN /\ pinning \in {"none", "writing"}
  /\ calls \in [Calls -> CallRecords]
  /\ child \in [Calls -> {"none", "live", "exited", "killed", "gone"}]
  /\ watched \in [Calls -> SUBSET {"timer", "abort"}] /\ aborted \subseteq Calls
  /\ out \in [Calls -> [1..MaxSteps -> Nat]] /\ steps \in [Calls -> 0..MaxSteps]

\* Who waits for the probe or the pin has its entry, and nobody else keeps one.
Shared ==
  /\ major = "pending" <=> Probing # {}
  /\ pinning = "writing" <=> Pinning # {}

\* A call has a child from its spawn on, its timer until it settles, and its
\* abort listener until it is aborted; none runs on behind a settled call.
Watched(c) ==
  /\ At(c) \in {"absent", "probe", "pin"} => child[c] = "none" /\ watched[c] = {}
  /\ At(c) = "run" => "timer" \in watched[c]
  /\ Settled(c) => child[c] # "live"
  /\ child[c] = "live" => c \notin aborted /\ "abort" \in watched[c]

\* What a stream says is of steps that were begun, and what was booked is what
\* they cost.
Booked(c) ==
  /\ \A n \in 1..MaxSteps : out[c][n] > 0 => n <= steps[c]
  /\ ~Settled(c) => calls[c].usage = [cost |-> 0, complete |-> FALSE]
  /\ calls[c].usage.cost <= steps[c]
  /\ calls[c].usage.complete => calls[c].usage.cost = steps[c]

CliInv == CliTyped /\ Shared /\ \A c \in Calls : Watched(c) /\ Booked(c)

\* No stream books more steps than it began.
LEMMA ParsedHonest ==
  ASSUME CliTyped, NEW c \in Calls, \A n \in 1..MaxSteps : out[c][n] > 0 => n <= steps[c]
  PROVE  /\ Parsed(c) \in [cost : Nat, complete : BOOLEAN]
         /\ Parsed(c).cost <= steps[c]
         /\ Parsed(c).complete => Parsed(c).cost = steps[c]
<1> DEFINE billed == {n \in 1..MaxSteps : out[c][n] > 0}
<1>1. steps[c] \in Nat /\ billed \subseteq 1..steps[c]
  BY CliAssumption DEF CliTyped
<1>2. IsFiniteSet(1..steps[c]) /\ Cardinality(1..steps[c]) = steps[c]
  BY <1>1, FS_Interval
<1>3. Cardinality(billed) \in Nat /\ Cardinality(billed) <= steps[c]
  BY <1>1, <1>2, FS_Subset, FS_CardinalityType
<1>4. StepsBilled(c) = Cardinality(billed)
  BY DEF StepsBilled
<1> DEFINE n == StepsBilled(c)
           whole == n > 0 /\ steps[c] <= n
<1>5. Parsed(c) = [cost |-> n, complete |-> whole] /\ whole \in BOOLEAN
  BY DEF Parsed
<1>6. n \in Nat /\ n <= steps[c] /\ (whole => n = steps[c])
  BY <1>1, <1>3, <1>4
<1> HIDE DEF billed, n, whole
<1> QED
  BY <1>5, <1>6

\* Calls that may spawn.
LEMMA SpawnedKeeps ==
  ASSUME CliTyped, \A c \in Calls : Watched(c) /\ Booked(c), NEW cs \in SUBSET Calls, Spawned(cs),
         \A c \in cs : At(c) \in {"absent", "probe", "pin"},
         aborted' = aborted, out' = out, steps' = steps
  PROVE  /\ calls' \in [Calls -> CallRecords]
         /\ child' \in [Calls -> {"none", "live", "exited", "killed", "gone"}]
         /\ watched' \in [Calls -> SUBSET {"timer", "abort"}]
         /\ \A c \in Calls : (Watched(c) /\ Booked(c))'
         /\ \A c \in Calls : /\ c \in cs => calls'[c].at \in {"settled", "run"}
                             /\ c \notin cs => calls'[c] = calls[c] /\ child'[c] = child[c]
                             /\ c \in cs => calls'[c].v2 = (major' = "v2")
<1>1. \A c \in Calls :
        calls'[c] = IF c \notin cs THEN calls[c]
                    ELSE IF c \in aborted
                    THEN [calls[c] EXCEPT !.at = "settled", !.result = "rejected", !.v2 = (major' = "v2")]
                    ELSE [calls[c] EXCEPT !.at = "run", !.v2 = (major' = "v2")]
  BY DEF Spawned
<1>2. \A c \in Calls : /\ child'[c] = IF c \in cs \ aborted THEN "live" ELSE child[c]
                       /\ watched'[c] = IF c \in cs \ aborted THEN {"timer", "abort"} ELSE watched[c]
  BY DEF Spawned
<1>3. \A c \in Calls : calls[c] \in CallRecords
  BY DEF CliTyped
<1>4. ASSUME NEW c \in Calls
      PROVE  /\ calls'[c] \in CallRecords /\ calls'[c].usage = calls[c].usage
             /\ c \in cs => calls'[c].at \in {"settled", "run"} /\ calls'[c].v2 = (major' = "v2")
             /\ c \in cs /\ c \in aborted => calls'[c].at = "settled"
             /\ c \in cs /\ c \notin aborted => calls'[c].at = "run"
             /\ c \notin cs => calls'[c] = calls[c]
  <2> DEFINE two == major' = "v2"
  <2>1. two \in BOOLEAN /\ calls[c] \in CallRecords
    BY <1>3
  <2>2. CASE c \in cs /\ c \in aborted
    <3>1. calls'[c] = [calls[c] EXCEPT !.at = "settled", !.result = "rejected", !.v2 = two]
      BY <1>1, <2>2
    <3> HIDE DEF two
    <3>2. /\ calls'[c] \in CallRecords /\ calls'[c].usage = calls[c].usage
          /\ calls'[c].at = "settled" /\ calls'[c].v2 = two
      BY <2>1, <3>1 DEF CallRecords
    <3> QED
      BY <2>2, <3>2 DEF two
  <2>3. CASE c \in cs /\ c \notin aborted
    <3>1. calls'[c] = [calls[c] EXCEPT !.at = "run", !.v2 = two]
      BY <1>1, <2>3
    <3> HIDE DEF two
    <3>2. /\ calls'[c] \in CallRecords /\ calls'[c].usage = calls[c].usage
          /\ calls'[c].at = "run" /\ calls'[c].v2 = two
      BY <2>1, <3>1 DEF CallRecords
    <3> QED
      BY <2>3, <3>2 DEF two
  <2>4. CASE c \notin cs
    BY <1>1, <2>1, <2>4
  <2> QED
    BY <2>2, <2>3, <2>4
<1>5. calls' \in [Calls -> CallRecords]
  BY <1>4 DEF Spawned
<1>6. /\ child' \in [Calls -> {"none", "live", "exited", "killed", "gone"}]
      /\ watched' \in [Calls -> SUBSET {"timer", "abort"}]
  BY DEF Spawned, CliTyped
<1>7. ASSUME NEW c \in Calls PROVE Watched(c)'
  BY <1>2, <1>4 DEF Watched, At, Settled
<1>8. ASSUME NEW c \in Calls PROVE Booked(c)'
  BY <1>4 DEF Booked, At, Settled, CallRecords
<1> QED
  BY <1>2, <1>4, <1>5, <1>6, <1>7, <1>8

\* Calls the probe has answered: they wait for the pin, or spawn.
LEMMA DetectedKeeps ==
  ASSUME CliInv, NEW cs \in SUBSET Calls, cs # {}, Detected(cs), major' \in {"none", "v1", "v2"},
         \A c \in cs : At(c) \in {"absent", "probe"},
         aborted' = aborted, out' = out, steps' = steps, pinned' = pinned
  PROVE  /\ CliTyped' /\ \A c \in Calls : (Watched(c) /\ Booked(c))'
         /\ \A c \in Calls : /\ c \in cs => calls'[c].at \in {"settled", "run", "pin"}
                             /\ c \notin cs => calls'[c] = calls[c]
         /\ pinning' = "writing" <=> Pinning' # {}
         /\ \A c \in Calls : child'[c] # child[c] => ~calls'[c].v2
<1> USE DEF CliInv
<1>1. CASE major' = "v2"
  <2>1. /\ calls' = [c \in Calls |-> IF c \in cs THEN [calls[c] EXCEPT !.at = "pin"] ELSE calls[c]]
        /\ pinning' = IF pinning = "none" THEN "writing" ELSE pinning
        /\ child' = child /\ watched' = watched
    BY <1>1 DEF Detected
  <2>2. ASSUME NEW c \in Calls
        PROVE  /\ calls'[c] \in CallRecords /\ calls'[c].usage = calls[c].usage
               /\ c \in cs => calls'[c].at = "pin"
               /\ c \notin cs => calls'[c] = calls[c]
    BY <2>1 DEF CliTyped, CallRecords
  <2>3. CliTyped'
    BY <1>1, <2>1, <2>2 DEF CliTyped
  <2>4. ASSUME NEW c \in Calls PROVE Watched(c)'
    BY <2>1, <2>2 DEF Watched, At, Settled
  <2>5. ASSUME NEW c \in Calls PROVE Booked(c)'
    BY <2>2 DEF Booked, At, Settled
  <2>6. pinning' = "writing" /\ Pinning' # {}
    BY <2>1, <2>2 DEF CliTyped, Pinning, At
  <2> QED
    BY <2>1, <2>2, <2>3, <2>4, <2>5, <2>6
<1>2. CASE major' # "v2"
  <2>1. Spawned(cs) /\ pinning' = pinning
    BY <1>2 DEF Detected
  <2>2. /\ calls' \in [Calls -> CallRecords]
        /\ child' \in [Calls -> {"none", "live", "exited", "killed", "gone"}]
        /\ watched' \in [Calls -> SUBSET {"timer", "abort"}]
        /\ \A c \in Calls : (Watched(c) /\ Booked(c))'
        /\ \A c \in Calls : /\ c \in cs => calls'[c].at \in {"settled", "run"}
                            /\ c \notin cs => calls'[c] = calls[c] /\ child'[c] = child[c]
                            /\ c \in cs => calls'[c].v2 = (major' = "v2")
    BY <2>1, SpawnedKeeps
  <2>3. CliTyped'
    BY <2>1, <2>2 DEF CliTyped
  <2>4. Pinning' = Pinning
    BY <2>2 DEF Pinning, At
  <2> QED
    BY <1>2, <2>1, <2>2, <2>3, <2>4 DEF Shared
<1> QED
  BY <1>1, <1>2

\* A step that moves no call and answers no probe keeps what is shared.
LEMMA SharedStays ==
  ASSUME CliInv, major' = major, pinning' = pinning,
         \A c \in Calls : calls'[c].at \in {"probe", "pin"} \/ At(c) \in {"probe", "pin"} => calls'[c].at = At(c)
  PROVE  Shared'
<1>1. Probing' = Probing /\ Pinning' = Pinning
  BY DEF Probing, Pinning, At
<1> QED
  BY <1>1 DEF CliInv, Shared

\* Settling leaves a call's stream and its bill alone.
LEMMA SettlesFields ==
  ASSUME CliTyped, NEW c \in Calls, NEW result \in {"resolved", "rejected"}, NEW cs, cs = Settles(c, result)
  PROVE  /\ cs \in [Calls -> CallRecords]
         /\ cs[c].at = "settled" /\ cs[c].usage = calls[c].usage /\ cs[c].v2 = calls[c].v2
         /\ \A d \in Calls \ {c} : cs[d] = calls[d]
<1>1. CASE Settled(c)
  BY <1>1 DEF Settles, Settled, At, CliTyped
<1>2. CASE ~Settled(c)
  <2>1. cs = [calls EXCEPT ![c].at = "settled", ![c].result = result] /\ calls[c] \in CallRecords
    BY <1>2 DEF Settles, CliTyped
  <2>2. cs[c] = [calls[c] EXCEPT !.at = "settled", !.result = result] /\ \A d \in Calls \ {c} : cs[d] = calls[d]
    BY <2>1 DEF CliTyped
  <2>3. cs[c] \in CallRecords /\ cs[c].at = "settled" /\ cs[c].usage = calls[c].usage /\ cs[c].v2 = calls[c].v2
    BY <2>1, <2>2 DEF CallRecords
  <2> QED
    BY <2>1, <2>2, <2>3 DEF CliTyped
<1> QED
  BY <1>1, <1>2

\* No child of CLI 2 starts in a checkout in which no pin was tried.
StartsPinned == \A c \in Calls : child[c] = "none" /\ child'[c] # "none" /\ calls'[c].v2 => pinned'

LEMMA CliStep == ASSUME CliInv, CliNext PROVE CliInv' /\ StartsPinned
<1>0. CliTyped /\ Shared /\ \A c \in Calls : Watched(c) /\ Booked(c)
  BY DEF CliInv
<1>1. ASSUME NEW c \in Calls, CallsRun(c) PROVE CliInv' /\ StartsPinned
  <2>1. CASE major \in {"v1", "v2"}
    <3>1. Detected({c}) /\ major' = major /\ Probing = {}
      BY <1>0, <1>1, <2>1 DEF CallsRun, Shared
    <3>2. /\ CliTyped' /\ \A d \in Calls : (Watched(d) /\ Booked(d))'
          /\ calls'[c].at # "probe" /\ \A d \in Calls \ {c} : calls'[d] = calls[d]
          /\ pinning' = "writing" <=> Pinning' # {}
          /\ \A d \in Calls : child'[d] # child[d] => ~calls'[d].v2
      BY <1>1, <2>1, <3>1, DetectedKeeps DEF CallsRun
    <3>3. Probing' = {}
      BY <3>1, <3>2 DEF Probing, At
    <3> QED
      BY <2>1, <3>1, <3>2, <3>3 DEF CliInv, Shared, StartsPinned
  <2>2. CASE major \notin {"v1", "v2"}
    <3>1. /\ major' = "pending" /\ calls' = [calls EXCEPT ![c].at = "probe"] /\ At(c) = "absent"
          /\ UNCHANGED <<pinning, child, watched, pinned, aborted, out, steps>>
      BY <1>1, <2>2 DEF CallsRun
    <3>2. ASSUME NEW d \in Calls
          PROVE  /\ calls'[d] \in CallRecords /\ calls'[d].usage = calls[d].usage
                 /\ calls'[d].at = IF d = c THEN "probe" ELSE At(d)
      BY <1>0, <3>1 DEF CliTyped, CallRecords, At
    <3>3. CliTyped'
      BY <1>0, <3>1, <3>2 DEF CliTyped
    <3>4. Shared'
      <4>1. c \in Probing' /\ Pinning' = Pinning
        BY <3>1, <3>2 DEF Probing, Pinning, At
      <4> QED
        BY <1>0, <3>1, <4>1 DEF Shared
    <3>5. ASSUME NEW d \in Calls PROVE Watched(d)' /\ Booked(d)'
      BY <1>0, <3>1, <3>2 DEF Watched, Booked, At, Settled
    <3> QED
      BY <3>1, <3>3, <3>4, <3>5 DEF CliInv, StartsPinned
  <2> QED
    BY <2>1, <2>2
<1>2. ASSUME ProbeAnswers \/ ProbeFails PROVE CliInv' /\ StartsPinned
  <2>1. /\ Detected(Probing) /\ Probing # {} /\ major' \in {"none", "v1", "v2"} /\ Probing \subseteq Calls
        /\ \A c \in Probing : At(c) = "probe"
        /\ UNCHANGED <<pinned, aborted, out, steps>>
    BY <1>0, <1>2 DEF ProbeAnswers, ProbeFails, GivesUp, Shared, Probing
  <2>2. /\ CliTyped' /\ \A c \in Calls : (Watched(c) /\ Booked(c))'
        /\ \A c \in Calls : /\ c \in Probing => calls'[c].at \in {"settled", "run", "pin"}
                            /\ c \notin Probing => calls'[c] = calls[c]
        /\ pinning' = "writing" <=> Pinning' # {}
        /\ \A c \in Calls : child'[c] # child[c] => ~calls'[c].v2
    BY <2>1, DetectedKeeps
  <2>3. Probing' = {}
    BY <2>2 DEF Probing, At
  <2> QED
    BY <2>1, <2>2, <2>3 DEF CliInv, Shared, StartsPinned
<1>3. ASSUME PinSettles PROVE CliInv' /\ StartsPinned
  <2>1. /\ Spawned(Pinning) /\ Pinning # {} /\ Pinning \subseteq Calls /\ \A c \in Pinning : At(c) = "pin"
        /\ pinned' = TRUE /\ pinning' = "none" /\ UNCHANGED <<major, aborted, out, steps>>
    BY <1>0, <1>3 DEF PinSettles, Evicted, Shared, Pinning
  <2>2. /\ calls' \in [Calls -> CallRecords]
        /\ child' \in [Calls -> {"none", "live", "exited", "killed", "gone"}]
        /\ watched' \in [Calls -> SUBSET {"timer", "abort"}]
        /\ \A c \in Calls : (Watched(c) /\ Booked(c))'
        /\ \A c \in Calls : /\ c \in Pinning => calls'[c].at \in {"settled", "run"}
                            /\ c \notin Pinning => calls'[c] = calls[c]
    BY <1>0, <2>1, SpawnedKeeps
  <2>3. CliTyped'
    BY <1>0, <2>1, <2>2 DEF CliTyped
  <2>4. Pinning' = {} /\ Probing' = Probing
    BY <2>1, <2>2 DEF Pinning, Probing, At
  <2> QED
    BY <1>0, <2>1, <2>2, <2>3, <2>4 DEF CliInv, Shared, StartsPinned
<1>4. ASSUME Wipes PROVE CliInv' /\ StartsPinned
  <2>1. UNCHANGED <<major, pinning, calls, child, watched, aborted, out, steps>> /\ pinned' = FALSE
    BY <1>4 DEF Wipes
  <2> QED
    BY <1>0, <2>1, SharedStays DEF CliInv, CliTyped, Watched, Booked, At, Settled, StartsPinned
<1>5. ASSUME NEW c \in Calls, Begins(c) PROVE CliInv' /\ StartsPinned
  <2>1. /\ steps' = [steps EXCEPT ![c] = @ + 1] /\ steps[c] < MaxSteps /\ ~Settled(c)
        /\ UNCHANGED <<major, pinning, pinned, calls, child, watched, aborted, out>>
    BY <1>5 DEF Begins
  <2>2. CliTyped'
    BY <1>0, <2>1, CliAssumption DEF CliTyped
  <2>3. ASSUME NEW d \in Calls PROVE Watched(d)'
    BY <1>0, <2>1 DEF Watched, At, Settled
  <2>4. ASSUME NEW d \in Calls PROVE Booked(d)'
    <3>1. steps[d] \in Nat /\ steps'[d] = IF d = c THEN steps[d] + 1 ELSE steps[d]
      BY <1>0, <2>1, CliAssumption DEF CliTyped
    <3>2. calls[d].usage.cost \in Nat /\ Booked(d) /\ Settled(d)' = Settled(d) /\ (d = c => ~Settled(d))
      BY <1>0, <2>1 DEF CliTyped, CallRecords, Settled, At
    <3> QED
      BY <2>1, <3>1, <3>2 DEF Booked
  <2> QED
    BY <1>0, <2>1, <2>2, <2>3, <2>4, SharedStays DEF CliInv, At, StartsPinned
<1>6. ASSUME NEW c \in Calls, NEW n \in 1..MaxSteps, Finishes(c, n) PROVE CliInv' /\ StartsPinned
  <2>1. /\ out' = [out EXCEPT ![c][n] = @ + 1] /\ n <= steps[c]
        /\ UNCHANGED <<major, pinning, pinned, calls, child, watched, aborted, steps>>
    BY <1>6 DEF Finishes
  <2>2. /\ CliTyped'
        /\ \A d \in Calls, k \in 1..MaxSteps : out'[d][k] = IF d = c /\ k = n THEN out[d][k] + 1 ELSE out[d][k]
    <3>1. out' = [out EXCEPT ![c] = [out[c] EXCEPT ![n] = out[c][n] + 1]]
      BY <2>1
    <3> DEFINE row == out[c]
    <3>2. row \in [1..MaxSteps -> Nat]
      BY <1>0 DEF CliTyped
    <3>3. row[n] \in Nat
      BY <3>2
    <3>4. [row EXCEPT ![n] = row[n] + 1] \in [1..MaxSteps -> Nat]
      BY <3>2, <3>3
    <3>5. out' \in [Calls -> [1..MaxSteps -> Nat]]
      BY <1>0, <3>1, <3>4 DEF CliTyped
    <3>6. CliTyped'
      BY <1>0, <2>1, <3>5 DEF CliTyped
    <3> QED
      BY <1>0, <3>1, <3>2, <3>6 DEF CliTyped
  <2>3. ASSUME NEW d \in Calls PROVE Watched(d)' /\ Booked(d)'
    BY <1>0, <2>1, <2>2 DEF Watched, Booked, At, Settled
  <2> QED
    BY <1>0, <2>1, <2>2, <2>3, SharedStays DEF CliInv, At, StartsPinned
<1>7. ASSUME NEW c \in Calls, Exits(c) PROVE CliInv' /\ StartsPinned
  <2>1. /\ child' = [child EXCEPT ![c] = "exited"] /\ child[c] = "live"
        /\ UNCHANGED <<major, pinning, pinned, calls, watched, aborted, out, steps>>
    BY <1>7 DEF Exits
  <2>2. CliTyped'
    BY <1>0, <2>1 DEF CliTyped
  <2>3. ASSUME NEW d \in Calls PROVE Watched(d)' /\ Booked(d)'
    BY <1>0, <2>1 DEF CliTyped, Watched, Booked, At, Settled
  <2>4. ASSUME NEW d \in Calls PROVE child[d] = "none" => child'[d] = "none"
    BY <1>0, <2>1 DEF CliTyped
  <2> QED
    BY <1>0, <2>1, <2>2, <2>3, <2>4, SharedStays DEF CliInv, At, StartsPinned
<1>8. ASSUME NEW c \in Calls, Closes(c) PROVE CliInv' /\ StartsPinned
  <2>1. /\ child[c] \in {"exited", "killed"} /\ child' = [child EXCEPT ![c] = "gone"]
        /\ watched' = [watched EXCEPT ![c] = {}] /\ UNCHANGED <<major, pinning, pinned, aborted, out, steps>>
    BY <1>8 DEF Closes
  <2>2. At(c) \notin {"absent", "probe", "pin"}
    BY <1>0, <2>1 DEF Watched
  <2>3. /\ calls' \in [Calls -> CallRecords]
        /\ calls'[c].at = "settled" /\ \A d \in Calls \ {c} : calls'[d] = calls[d]
        /\ calls'[c].usage.cost <= steps[c]
        /\ calls'[c].usage.complete => calls'[c].usage.cost = steps[c]
    <3> DEFINE resolved == Settles(c, "resolved")
               rejected1 == Settles(c, "rejected")
    <3>1. CASE calls' = calls /\ Settled(c)
      BY <1>0, <3>1 DEF CliTyped, Booked, Settled, At
    <3>2. CASE calls' = rejected1
      <4>1. /\ calls' \in [Calls -> CallRecords] /\ calls'[c].at = "settled"
            /\ calls'[c].usage = calls[c].usage /\ \A d \in Calls \ {c} : calls'[d] = calls[d]
        BY <1>0, <3>2, SettlesFields
      <4> QED
        BY <1>0, <4>1 DEF Booked
    <3>3. CASE calls' = [resolved EXCEPT ![c].usage = Parsed(c)]
      <4>1. /\ Parsed(c) \in [cost : Nat, complete : BOOLEAN] /\ Parsed(c).cost <= steps[c]
            /\ Parsed(c).complete => Parsed(c).cost = steps[c]
        BY <1>0, ParsedHonest DEF Booked
      <4>2. /\ resolved \in [Calls -> CallRecords] /\ resolved[c].at = "settled"
            /\ \A d \in Calls \ {c} : resolved[d] = calls[d]
        BY <1>0, SettlesFields
      <4> DEFINE bill == Parsed(c)
      <4> HIDE DEF resolved, bill
      <4>3. calls' = [resolved EXCEPT ![c].usage = bill]
        BY <3>3 DEF bill
      <4>4. /\ calls' \in [Calls -> CallRecords] /\ calls'[c].at = "settled" /\ calls'[c].usage = bill
            /\ \A d \in Calls \ {c} : calls'[d] = resolved[d]
        BY <4>1, <4>2, <4>3 DEF CallRecords, bill
      <4> QED
        BY <4>1, <4>2, <4>4 DEF bill
    <3> QED
      BY <1>8, <3>1, <3>2, <3>3 DEF Closes
  <2>4. CliTyped'
    BY <1>0, <2>1, <2>3 DEF CliTyped
  <2>5. ASSUME NEW d \in Calls PROVE Watched(d)' /\ Booked(d)'
    BY <1>0, <2>1, <2>3 DEF CliTyped, Watched, Booked, At, Settled
  <2>6. Shared'
    BY <2>1, <2>2, <2>3, SharedStays DEF At
  <2>7. StartsPinned
    BY <1>0, <2>1 DEF CliTyped, StartsPinned
  <2> QED
    BY <2>4, <2>5, <2>6, <2>7 DEF CliInv
<1>9. ASSUME NEW c \in Calls, TimesOut(c) PROVE CliInv' /\ StartsPinned
  <2>1. /\ "timer" \in watched[c] /\ watched' = [watched EXCEPT ![c] = @ \ {"timer"}]
        /\ child' = Killed(c) /\ calls' = Settles(c, "rejected")
        /\ UNCHANGED <<major, pinning, pinned, aborted, out, steps>>
    BY <1>9 DEF TimesOut, Reaped
  <2>2. At(c) \notin {"absent", "probe", "pin"}
    BY <1>0, <2>1 DEF Watched
  <2>3. /\ calls' \in [Calls -> CallRecords] /\ calls'[c].at = "settled"
        /\ calls'[c].usage = calls[c].usage /\ \A d \in Calls \ {c} : calls'[d] = calls[d]
    BY <1>0, <2>1, SettlesFields
  <2>4. \A d \in Calls : child'[d] = IF d = c /\ child[c] = "live" THEN "killed" ELSE child[d]
    BY <1>0, <2>1 DEF Killed, CliTyped
  <2>5. CliTyped'
    BY <1>0, <2>1, <2>3 DEF CliTyped, Killed
  <2>6. ASSUME NEW d \in Calls PROVE Watched(d)' /\ Booked(d)'
    <3>1. watched'[d] = IF d = c THEN watched[c] \ {"timer"} ELSE watched[d]
      BY <1>0, <2>1 DEF CliTyped
    <3>2. /\ calls'[d].usage = calls[d].usage
          /\ Settled(d) => Settled(d)'
          /\ d # c => calls'[d] = calls[d]
      BY <2>3 DEF Settled, At
    <3>3. Watched(d)'
      BY <1>0, <2>1, <2>3, <2>4, <3>1, <3>2 DEF Watched, At, Settled
    <3>4. Booked(d)'
      BY <1>0, <2>1, <3>2 DEF Booked
    <3> QED
      BY <3>3, <3>4
  <2>7. Shared'
    BY <2>1, <2>2, <2>3, SharedStays DEF At
  <2>8. StartsPinned
    BY <2>4 DEF StartsPinned
  <2> QED
    BY <2>5, <2>6, <2>7, <2>8 DEF CliInv
<1>10. ASSUME NEW c \in Calls, Aborts(c) PROVE CliInv' /\ StartsPinned
  <2>1. /\ aborted' = aborted \union {c} /\ watched' = [watched EXCEPT ![c] = @ \ {"abort"}]
        /\ child' = IF "abort" \in watched[c] THEN Killed(c) ELSE child
        /\ UNCHANGED <<major, pinning, pinned, calls, out, steps>>
    BY <1>10 DEF Aborts
  <2>2. \A d \in Calls : child'[d] = IF d = c /\ child[c] = "live" THEN "killed" ELSE child[d]
    BY <1>0, <2>1 DEF Killed, CliTyped, Watched
  <2>3. CliTyped'
    BY <1>0, <2>1 DEF CliTyped, Killed
  <2>4. ASSUME NEW d \in Calls PROVE Watched(d)' /\ Booked(d)'
    BY <1>0, <2>1, <2>2 DEF CliTyped, Watched, Booked, At, Settled
  <2>5. Shared'
    BY <2>1, SharedStays DEF At
  <2>6. StartsPinned
    BY <2>2 DEF StartsPinned
  <2> QED
    BY <2>3, <2>4, <2>5, <2>6 DEF CliInv
<1> QED
  BY <1>1, <1>2, <1>3, <1>4, <1>5, <1>6, <1>7, <1>8, <1>9, <1>10 DEF CliNext

LEMMA InitCli == CliInit => CliInv
<1> SUFFICES ASSUME CliInit PROVE CliInv
  OBVIOUS
<1>1. CliTyped /\ \A c \in Calls : At(c) = "absent" /\ calls[c].usage = [cost |-> 0, complete |-> FALSE]
  <2>1. NewCall \in CallRecords /\ NewCall.at = "absent" /\ NewCall.usage = [cost |-> 0, complete |-> FALSE]
    BY DEF NewCall, CallRecords
  <2>2. out \in [Calls -> [1..MaxSteps -> Nat]]
    BY DEF CliInit
  <2>3. steps \in [Calls -> 0..MaxSteps]
    BY CliAssumption DEF CliInit
  <2> QED
    BY <2>1, <2>2, <2>3 DEF CliInit, CliTyped, At
<1>2. Shared
  BY <1>1 DEF CliInit, Shared, Probing, Pinning
<1>3. \A c \in Calls : Watched(c) /\ Booked(c)
  BY <1>1, CliAssumption DEF CliInit, Watched, Booked, Settled
<1> QED
  BY <1>1, <1>2, <1>3 DEF CliInv

LEMMA IdleCli == ASSUME CliInv, UNCHANGED cliVars PROVE CliInv' /\ StartsPinned
<1>1. UNCHANGED <<major, pinning, pinned, wipes, calls, child, watched, aborted, out, steps>>
  BY DEF cliVars
<1> QED
  BY <1>1 DEF CliInv, CliTyped, Shared, Watched, Booked, Probing, Pinning, At, Settled, StartsPinned

\* What the run checks of these calls follows.
LEMMA CliPromises == CliInv => CliTypeOK /\ NoOrphans /\ UsageHonest
  BY DEF CliInv, CliTyped, Shared, Watched, Booked, CliTypeOK, NoOrphans, UsageHonest, CallRecords, At, Settled

-----------------------------------------------------------------------------
(* The list of models *)

\* Refreshes come in order, each when those before it have answered or been
\* given up on; the list shown is of one that has answered.
ListInv ==
  /\ listed \in [of : 0..Refreshes, failed : BOOLEAN]
  /\ refreshes \in [RefreshIds -> {"absent", "pending", "late", "over"}]
  /\ \A r, q \in RefreshIds : q < r /\ refreshes[r] # "absent" => refreshes[q] \notin {"absent", "pending"}
  /\ listed.of # 0 => refreshes[listed.of] = "over"

\* A list that comes is of the refresh that is pending, and newer.
ListMoves == listed'.of >= listed.of /\ (listed'.of # listed.of => refreshes[listed'.of] = "pending")

LEMMA ListStep == ASSUME ListInv, ModelListNext PROVE ListInv' /\ ListMoves
<1> USE ModelListAssumption DEF RefreshIds
<1>1. PICK r \in RefreshIds : Refresh(r) \/ ListCloses(r) \/ ListTimesOut(r)
  BY DEF ModelListNext
<1>2. CASE Refresh(r)
  <2>1. /\ refreshes' = [refreshes EXCEPT ![r] = "pending"] /\ listed' = listed /\ refreshes[r] = "absent"
        /\ \A q \in RefreshIds : q < r => refreshes[q] \notin {"absent", "pending"}
    BY <1>2 DEF Refresh, Joinless
  <2>2. \A q \in RefreshIds : q > r => refreshes[q] = "absent"
    BY <2>1 DEF ListInv
  <2> QED
    BY <2>1, <2>2 DEF ListInv, ListMoves
<1>3. CASE ListCloses(r)
  <2>1. refreshes[r] \in {"pending", "late"} /\ refreshes' = [refreshes EXCEPT ![r] = "over"]
    BY <1>3 DEF ListCloses
  <2>2. \/ listed' = listed
        \/ listed' = [listed EXCEPT !.failed = TRUE]
        \/ refreshes[r] = "pending" /\ listed' = [of |-> r, failed |-> FALSE]
    BY <1>3 DEF ListCloses, Unsettled
  <2>3. /\ listed' \in [of : 0..Refreshes, failed : BOOLEAN]
        /\ listed'.of = listed.of \/ (refreshes[r] = "pending" /\ listed'.of = r)
    <3>1. listed \in [of : 0..Refreshes, failed : BOOLEAN]
      BY DEF ListInv
    <3>2. CASE listed' = listed
      BY <3>1, <3>2
    <3>3. CASE listed' = [listed EXCEPT !.failed = TRUE]
      BY <3>1, <3>3
    <3>4. CASE refreshes[r] = "pending" /\ listed' = [of |-> r, failed |-> FALSE]
      BY <3>4
    <3> QED
      BY <2>2, <3>2, <3>3, <3>4
  <2>4. refreshes[r] = "pending" => listed.of < r
    <3>1. CASE listed.of = 0
      BY <3>1
    <3>2. CASE listed.of # 0
      BY <3>2 DEF ListInv
    <3> QED
      BY <3>1, <3>2
  <2>5. ListMoves
    BY <2>3, <2>4 DEF ListInv, ListMoves
  <2> QED
    BY <2>1, <2>3, <2>5 DEF ListInv
<1>4. CASE ListTimesOut(r)
  <2>1. /\ refreshes[r] = "pending" /\ refreshes' = [refreshes EXCEPT ![r] = "late"]
        /\ listed' = [listed EXCEPT !.failed = TRUE]
    BY <1>4 DEF ListTimesOut
  <2>2. listed'.of = listed.of /\ listed' \in [of : 0..Refreshes, failed : BOOLEAN]
    BY <2>1 DEF ListInv
  <2> QED
    BY <2>1, <2>2 DEF ListInv, ListMoves
<1> QED
  BY <1>1, <1>2, <1>3, <1>4

LEMMA InitList == ModelListInit => ListInv
  BY ModelListAssumption DEF ModelListInit, ListInv, RefreshIds

LEMMA IdleList == ListInv /\ UNCHANGED listVars => ListInv'
  BY DEF listVars, ListInv

\* One refresh is pending at a time.
LEMMA ListPromises == ListInv => ModelListTypeOK
  BY ModelListAssumption DEF ListInv, ModelListTypeOK, RefreshIds

-----------------------------------------------------------------------------
(* The chains of telemetry *)

Tasks == {"waiting", "posting", "reading"}
ChainStates == [tasks : [Chains -> Seq(Tasks)], pending : [Chains -> Nat]]

\* The counter of a chain is the number of its tasks, within the cap, and only
\* the first has been posted.
Counted(q) ==
  /\ q \in ChainStates
  /\ \A c \in Chains : /\ q.pending[c] = Len(q.tasks[c]) /\ q.pending[c] <= MaxPending
                       /\ \A k \in 2..Len(q.tasks[c]) : q.tasks[c][k] = "waiting"

\* What is offered goes behind what is there.
Longer(p, q) == \A c \in Chains : p.tasks[c] # <<>> => q.tasks[c] # <<>>

LEMMA OfferCounted ==
  ASSUME NEW q, Counted(q), NEW c \in Chains, NEW p, p = Offer(q, c)
  PROVE  Counted(p) /\ Longer(q, p)
<1>1. CASE q.pending[c] >= MaxPending
  BY <1>1 DEF Offer, Longer
<1>2. CASE ~(q.pending[c] >= MaxPending)
  <2> DEFINE s == q.tasks[c]
             n == q.pending[c]
  <2>1. /\ s \in Seq(Tasks) /\ n = Len(s) /\ n \in Nat /\ n < MaxPending /\ MaxPending \in Nat
        /\ \A k \in 2..Len(s) : s[k] = "waiting"
    BY <1>2, TelemetryAssumption DEF Counted, ChainStates
  <2>2. /\ p = [q EXCEPT !.tasks = [q.tasks EXCEPT ![c] = Append(s, "waiting")],
                         !.pending = [q.pending EXCEPT ![c] = n + 1]]
    BY <1>2 DEF Offer
  <2> DEFINE t == Append(s, "waiting")
  <2>3. /\ t \in Seq(Tasks) /\ Len(t) = n + 1 /\ t # <<>>
        /\ \A k \in 2..Len(t) : t[k] = "waiting"
    <3>1. t \in Seq(Tasks) /\ Len(t) = n + 1
      BY <2>1 DEF Tasks
    <3>2. ASSUME NEW k \in 2..Len(t) PROVE t[k] = "waiting"
      BY <2>1, <3>1, <3>2
    <3> QED
      BY <2>1, <3>1, <3>2
  <2> DEFINE ts == [q.tasks EXCEPT ![c] = t]
             ns == [q.pending EXCEPT ![c] = n + 1]
  <2>4. p = [q EXCEPT !.tasks = ts, !.pending = ns]
    BY <2>2
  <2> HIDE DEF s, n, t
  <2>5. /\ ts \in [Chains -> Seq(Tasks)] /\ ns \in [Chains -> Nat]
        /\ ts[c] = t /\ ns[c] = n + 1
        /\ \A d \in Chains \ {c} : ts[d] = q.tasks[d] /\ ns[d] = q.pending[d]
    BY <2>1, <2>3 DEF Counted, ChainStates
  <2> HIDE DEF ts, ns
  <2>6. p.tasks = ts /\ p.pending = ns /\ p \in ChainStates
    BY <2>4, <2>5 DEF Counted, ChainStates
  <2>7. /\ p.pending[c] = Len(p.tasks[c]) /\ p.pending[c] <= MaxPending /\ p.tasks[c] # <<>>
        /\ \A k \in 2..Len(p.tasks[c]) : p.tasks[c][k] = "waiting"
    BY <2>1, <2>3, <2>5, <2>6
  <2>8. \A d \in Chains \ {c} : p.tasks[d] = q.tasks[d] /\ p.pending[d] = q.pending[d]
    BY <2>5, <2>6
  <2>9. Longer(q, p)
    BY <2>7, <2>8 DEF Longer
  <2> QED
    BY <2>6, <2>7, <2>8, <2>9 DEF Counted
<1> QED
  BY <1>1, <1>2

LEMMA LineCounted == ASSUME NEW q, Counted(q) PROVE Counted(Line(q)) /\ Longer(q, Line(q))
  BY OfferCounted DEF Line, Chains, Longer

LEMMA ExportCounted == ASSUME NEW q, Counted(q), NEW signal PROVE Counted(Export(q, signal)) /\ Longer(q, Export(q, signal))
  BY OfferCounted, LineCounted DEF Export, QueueExport, Chains, Longer

LEMMA EndCounted == ASSUME NEW q, Counted(q) PROVE Counted(Gauges(Terminal(q)))
<1>1. Counted(JobMetrics(Line(q)))
  BY LineCounted, ExportCounted DEF JobMetrics
<1>2. Counted(Terminal(q))
  BY <1>1, ExportCounted DEF Terminal, JobTraces
<1> QED
  BY <1>2, ExportCounted DEF Gauges

LEMMA TellsCounted == ASSUME NEW q, Counted(q), NEW c PROVE Counted(Tells(q, c)) /\ Longer(q, Tells(q, c))
  BY LineCounted DEF Tells, Longer

\* The first task of a chain leaves, or moves on.
LEMMA FirstCounted ==
  ASSUME NEW q, Counted(q), NEW c \in Chains, q.tasks[c] # <<>>
  PROVE  /\ \A answered : Counted(TaskSettled(q, c, answered))
         /\ \A s \in Tasks : Counted([q EXCEPT !.tasks[c] = <<s>> \o Tail(@)])
<1> DEFINE s == q.tasks[c]
           n == q.pending[c]
<1>1. /\ s \in Seq(Tasks) /\ s # <<>> /\ n = Len(s) /\ n \in Nat \ {0} /\ n <= MaxPending /\ MaxPending \in Nat
      /\ \A k \in 2..Len(s) : s[k] = "waiting"
  BY TelemetryAssumption DEF Counted, ChainStates
<1> DEFINE t == Tail(s)
<1>2. /\ t \in Seq(Tasks) /\ Len(t) = n - 1 /\ \A k \in 1..Len(t) : t[k] = "waiting"
  <2>1. t \in Seq(Tasks) /\ Len(t) = n - 1
    BY <1>1
  <2>2. ASSUME NEW k \in 1..Len(t) PROVE t[k] = "waiting"
    BY <1>1, <2>1, <2>2
  <2> QED
    BY <2>1, <2>2
<1>3. ASSUME NEW answered PROVE Counted(TaskSettled(q, c, answered))
  <2> DEFINE ts == [q.tasks EXCEPT ![c] = t]
             ns == [q.pending EXCEPT ![c] = n - 1]
             p  == TaskSettled(q, c, answered)
  <2>1. p = [q EXCEPT !.tasks = ts, !.pending = ns]
    BY DEF TaskSettled
  <2> HIDE DEF s, n, t, p
  <2>2. /\ ts \in [Chains -> Seq(Tasks)] /\ ns \in [Chains -> Nat]
        /\ ts[c] = t /\ ns[c] = n - 1
        /\ \A d \in Chains \ {c} : ts[d] = q.tasks[d] /\ ns[d] = q.pending[d]
    BY <1>1, <1>2 DEF Counted, ChainStates
  <2> HIDE DEF ts, ns
  <2>3. p.tasks = ts /\ p.pending = ns /\ p \in ChainStates
    BY <2>1, <2>2 DEF Counted, ChainStates
  <2>4. /\ p.pending[c] = Len(p.tasks[c]) /\ p.pending[c] <= MaxPending
        /\ \A k \in 2..Len(p.tasks[c]) : p.tasks[c][k] = "waiting"
    BY <1>1, <1>2, <2>2, <2>3
  <2>5. \A d \in Chains \ {c} : p.tasks[d] = q.tasks[d] /\ p.pending[d] = q.pending[d]
    BY <2>2, <2>3
  <2> QED
    BY <2>3, <2>4, <2>5 DEF Counted, p
<1>4. ASSUME NEW state \in Tasks PROVE Counted([q EXCEPT !.tasks[c] = <<state>> \o Tail(@)])
  <2> DEFINE u  == <<state>> \o t
             ts == [q.tasks EXCEPT ![c] = u]
             p  == [q EXCEPT !.tasks[c] = <<state>> \o Tail(@)]
  <2>1. p = [q EXCEPT !.tasks = ts]
    OBVIOUS
  <2>2. u \in Seq(Tasks) /\ Len(u) = n /\ \A k \in 2..Len(u) : u[k] = "waiting"
    <3> HIDE DEF t, s, n
    <3>1. u \in Seq(Tasks) /\ Len(u) = n
      BY <1>1, <1>2
    <3>2. ASSUME NEW k \in 2..Len(u) PROVE u[k] = "waiting"
      BY <1>1, <1>2, <3>1, <3>2
    <3> QED
      BY <3>1, <3>2
  <2> HIDE DEF s, n, t, u, p
  <2>3. /\ ts \in [Chains -> Seq(Tasks)] /\ ts[c] = u
        /\ \A d \in Chains \ {c} : ts[d] = q.tasks[d]
    BY <2>2 DEF Counted, ChainStates
  <2> HIDE DEF ts
  <2>4. p.tasks = ts /\ p.pending = q.pending /\ p \in ChainStates
    BY <2>1, <2>3 DEF Counted, ChainStates
  <2>5. /\ p.pending[c] = Len(p.tasks[c]) /\ p.pending[c] <= MaxPending
        /\ \A k \in 2..Len(p.tasks[c]) : p.tasks[c][k] = "waiting"
    BY <1>1, <2>2, <2>3, <2>4 DEF n
  <2>6. \A d \in Chains \ {c} : p.tasks[d] = q.tasks[d] /\ p.pending[d] = q.pending[d]
    BY <2>3, <2>4
  <2> QED
    BY <2>4, <2>5, <2>6 DEF Counted, p
<1> QED
  BY <1>3, <1>4

Row == [state : {"queued", "running", "done", "failed", "retired"}, bill : {0, 1}]

\* A reviewer asks at most once per attempt, so it has no more calls out than
\* there were attempts.
Flown(j, rs, fs) ==
  \A i \in Reviewers : fs[i] <= j.attempt /\ (rs[i].state = "queued" => fs[i] < j.attempt)

JobTyped(j, rs, fs) ==
  /\ j \in [state : {"queued", "running"} \cup Ended, attempt : 1..MaxAttempts]
  /\ rs \in [Reviewers -> Row] /\ fs \in [Reviewers -> Nat]
  /\ Flown(j, rs, fs)

TelemetryInv ==
  /\ JobTyped(job, rows, flights) /\ wired \subseteq Channels /\ rejected \subseteq Chains
  /\ Counted(chains)

\* What a job does keeps its types, and offers to the chains only.
LEMMA JobStepKeeps == ASSUME TelemetryInv, JobSteps PROVE TelemetryInv'
<1> DEFINE Untouched == wired' = wired /\ rejected' = rejected
<1>0. /\ job.state \in {"queued", "running"} \cup Ended /\ job.attempt \in 1..MaxAttempts
      /\ job = [state |-> job.state, attempt |-> job.attempt]
      /\ \A i \in Reviewers : rows[i] \in Row /\ flights[i] \in Nat
      /\ MaxAttempts \in Nat \ {0}
  BY TelemetryAssumption DEF TelemetryInv, JobTyped
<1>1. SUFFICES JobTyped(job', rows', flights') /\ Untouched /\ Counted(chains')
  BY DEF TelemetryInv
<1>2. ASSUME NEW state \in Ended, NEW partial, Ends(state, partial)
      PROVE  /\ job' \in [state : {"queued", "running"} \cup Ended, attempt : 1..MaxAttempts]
             /\ job'.attempt = job.attempt /\ Untouched /\ Counted(chains')
  BY <1>0, <1>2, EndCounted DEF Ends, TelemetryInv
<1>3. ASSUME rows' \in [Reviewers -> Row], flights' = flights, job'.attempt = job.attempt,
             job' \in [state : {"queued", "running"} \cup Ended, attempt : 1..MaxAttempts],
             \A i \in Reviewers : rows'[i].state = "queued" => rows[i].state = "queued"
      PROVE  JobTyped(job', rows', flights')
  BY <1>3 DEF TelemetryInv, JobTyped, Flown
<1>4. CASE LineStarts
  <2>1. job' = [job EXCEPT !.state = "running"] /\ rows' = rows /\ flights' = flights /\ Untouched
    BY <1>4 DEF LineStarts, ChainsKept
  <2>2. Counted(chains')
    BY <1>4, LineCounted, ExportCounted DEF LineStarts, Gauges, TelemetryInv
  <2> QED
    BY <1>0, <1>3, <2>1, <2>2 DEF TelemetryInv, JobTyped
<1>5. ASSUME NEW i \in Reviewers, Asks(i) PROVE JobTyped(job', rows', flights') /\ Untouched /\ Counted(chains')
  <2>1. /\ rows[i].state = "queued" /\ rows' = [rows EXCEPT ![i].state = "running"]
        /\ flights' = [flights EXCEPT ![i] = @ + 1] /\ job' = job /\ chains' = chains /\ Untouched
    BY <1>5 DEF Asks, ChainsKept
  <2>2. /\ rows' \in [Reviewers -> Row] /\ rows'[i].state = "running"
        /\ \A k \in Reviewers \ {i} : rows'[k] = rows[k]
    BY <1>0, <2>1 DEF Row, TelemetryInv, JobTyped
  <2>3. flights' \in [Reviewers -> Nat] /\ \A k \in Reviewers : flights'[k] = IF k = i THEN flights[k] + 1 ELSE flights[k]
    BY <2>1 DEF TelemetryInv, JobTyped
  <2>4. Flown(job, rows', flights')
    BY <1>0, <2>1, <2>2, <2>3 DEF TelemetryInv, JobTyped, Flown
  <2> QED
    BY <2>1, <2>2, <2>3, <2>4 DEF TelemetryInv, JobTyped
<1>6. ASSUME NEW i \in Reviewers, Lands(i) PROVE JobTyped(job', rows', flights') /\ Untouched /\ Counted(chains')
  <2>1. /\ flights[i] > 0 /\ flights' = [flights EXCEPT ![i] = @ - 1]
        /\ rows' = [rows EXCEPT ![i] = [state |-> IF @.state = "retired" THEN "retired" ELSE "done", bill |-> 1]]
        /\ job' = job /\ chains' = chains /\ Untouched
    BY <1>6 DEF Lands, ChainsKept
  <2>2. /\ rows' \in [Reviewers -> Row] /\ rows'[i].state # "queued"
        /\ \A k \in Reviewers \ {i} : rows'[k] = rows[k]
    BY <2>1 DEF Row, TelemetryInv, JobTyped
  <2>3. flights' \in [Reviewers -> Nat] /\ \A k \in Reviewers : flights'[k] <= flights[k]
    BY <2>1 DEF TelemetryInv, JobTyped
  <2>4. Flown(job, rows', flights')
    BY <1>0, <2>1, <2>2, <2>3 DEF TelemetryInv, JobTyped, Flown
  <2> QED
    BY <2>1, <2>2, <2>3, <2>4 DEF TelemetryInv, JobTyped
<1>7. CASE Completes
  BY <1>2, <1>3, <1>7 DEF Completes, Ended, TelemetryInv, JobTyped
<1>8. CASE Fails
  <2>1. /\ Ends("failed", FALSE) /\ flights' = flights
        /\ rows' = [i \in Reviewers |-> IF rows[i].state = "done" THEN rows[i] ELSE [rows[i] EXCEPT !.state = "failed"]]
    BY <1>8 DEF Fails
  <2>2. rows' \in [Reviewers -> Row] /\ \A i \in Reviewers : rows'[i].state = "queued" => rows[i].state = "queued"
    BY <1>0, <2>1 DEF Row
  <2> QED
    BY <1>2, <1>3, <2>1, <2>2 DEF Ended
<1>9. ASSUME NEW state \in {"stale", "cancelled"}, Retires(state)
      PROVE  JobTyped(job', rows', flights') /\ Untouched /\ Counted(chains')
  <2>1. /\ Ends(state, job.state = "running") /\ flights' = flights
        /\ rows' = [i \in Reviewers |->
                      IF rows[i].state \in {"queued", "running"} THEN [rows[i] EXCEPT !.state = "retired"] ELSE rows[i]]
    BY <1>9 DEF Retires
  <2>2. rows' \in [Reviewers -> Row] /\ \A i \in Reviewers : rows'[i].state = "queued" => rows[i].state = "queued"
    BY <1>0, <2>1 DEF Row
  <2> QED
    BY <1>2, <1>3, <2>1, <2>2 DEF Ended
<1>10. CASE Retried
  <2>1. /\ job.attempt < MaxAttempts /\ job' = [state |-> "queued", attempt |-> job.attempt + 1]
        /\ rows' = [i \in Reviewers |-> IF rows[i].state = "failed" THEN [state |-> "queued", bill |-> 0] ELSE rows[i]]
        /\ flights' = flights /\ Untouched
    BY <1>10 DEF Retried, ChainsKept
  <2>2. Counted(chains')
    BY <1>10, ExportCounted DEF Retried, Gauges, TelemetryInv
  <2>3. rows' \in [Reviewers -> Row]
    BY <1>0, <2>1 DEF Row
  <2>4. job' \in [state : {"queued", "running"} \cup Ended, attempt : 1..MaxAttempts] /\ job'.attempt = job.attempt + 1
    BY <1>0, <2>1
  <2>5. Flown(job', rows', flights')
    BY <1>0, <2>1, <2>4 DEF TelemetryInv, JobTyped, Flown
  <2> QED
    BY <2>1, <2>2, <2>3, <2>4, <2>5 DEF TelemetryInv, JobTyped
<1> QED
  BY <1>4, <1>5, <1>6, <1>7, <1>8, <1>9, <1>10 DEF JobSteps

LEMMA ChainStepKeeps ==
  ASSUME TelemetryInv, NEW c \in Chains, ChainSteps(c) \/ (c = "exports" /\ ReadsRefusal) PROVE TelemetryInv'
<1>1. /\ UNCHANGED <<job, rows, flights, wired>> /\ chains.tasks[c] # <<>>
      /\ rejected' = rejected
  BY DEF ChainSteps, ReadsRefusal, Posts, Accepted, Refused, TaskTimesOut, HandlerThrows, JobKept, Heals, Head1
<1>2. Counted(chains) /\ Counted(Tells(chains, c)) /\ Tells(chains, c).tasks[c] # <<>>
  BY <1>1, TellsCounted DEF TelemetryInv, Longer
<1>3. \/ \E s \in Tasks : chains' = [chains EXCEPT !.tasks[c] = <<s>> \o Tail(@)]
      \/ \E answered : chains' = TaskSettled(chains, c, answered)
      \/ \E answered : chains' = TaskSettled(Tells(chains, c), c, answered)
  BY DEF ChainSteps, ReadsRefusal, Posts, Accepted, Refused, TaskTimesOut, HandlerThrows, Becomes, Tasks
<1>4. Counted(chains')
  <2>1. ASSUME NEW s \in Tasks PROVE Counted([chains EXCEPT !.tasks[c] = <<s>> \o Tail(@)])
    BY <1>1, <1>2, FirstCounted
  <2>2. ASSUME NEW answered PROVE /\ Counted(TaskSettled(chains, c, answered))
                                  /\ Counted(TaskSettled(Tells(chains, c), c, answered))
    BY <1>1, <1>2, FirstCounted
  <2> QED
    BY <1>3, <2>1, <2>2
<1> QED
  BY <1>1, <1>4 DEF TelemetryInv

LEMMA TelemetryStep == TelemetryInv /\ TelemetryNext => TelemetryInv'
<1> SUFFICES ASSUME TelemetryInv, TelemetryNext PROVE TelemetryInv'
  OBVIOUS
<1>1. CASE Rewires
  BY <1>1 DEF Rewires, TelemetryInv
<1> QED
  BY <1>1, JobStepKeeps, ChainStepKeeps DEF TelemetryNext, Chains

LEMMA InitTelemetry == TelemetryInit => TelemetryInv
<1> SUFFICES ASSUME TelemetryInit PROVE TelemetryInv
  OBVIOUS
<1>1. JobTyped(job, rows, flights)
  BY TelemetryAssumption DEF TelemetryInit, JobTyped, Flown, Row
<1>2. Counted(chains)
  <2>1. chains.tasks = [c \in Chains |-> <<>>] /\ chains.pending = [c \in Chains |-> 0] /\ chains \in ChainStates
    BY DEF TelemetryInit, ChainStates
  <2> QED
    BY <2>1, TelemetryAssumption DEF Counted
<1> QED
  BY <1>1, <1>2 DEF TelemetryInit, TelemetryInv

LEMMA IdleTelemetry == TelemetryInv /\ UNCHANGED telemetryVars => TelemetryInv'
  BY DEF telemetryVars, TelemetryInv

LEMMA TelemetryPromises == TelemetryInv => TelemetryTypeOK /\ BacklogCounted
<1> SUFFICES ASSUME TelemetryInv PROVE TelemetryTypeOK /\ BacklogCounted
  OBVIOUS
<1>1. BacklogCounted
  BY DEF TelemetryInv, Counted, BacklogCounted
<1>2. \A c \in Chains : chains.pending[c] \in 0..MaxPending
  BY TelemetryAssumption DEF TelemetryInv, Counted, ChainStates
<1>3. \A i \in Reviewers : rows[i] \in Row /\ flights[i] \in 0..MaxAttempts
  BY TelemetryAssumption DEF TelemetryInv, JobTyped, Flown
<1> QED
  BY <1>1, <1>2, <1>3 DEF TelemetryInv, JobTyped, TelemetryTypeOK, Row

-----------------------------------------------------------------------------
(* Together *)

AllServices == CliInv /\ ListInv /\ TelemetryInv /\ scene \in ServiceScenes
serviceVars == <<scene, queue, cliVars, listVars, telemetryVars>>

LEMMA ServicesStep == AllServices /\ [ServicesNext]_serviceVars => AllServices' /\ StartsPinned /\ [ListMoves]_listed
<1> SUFFICES ASSUME AllServices, [ServicesNext]_serviceVars
             PROVE  AllServices' /\ StartsPinned /\ [ListMoves]_listed
  OBVIOUS
<1>1. scene' = scene
  BY DEF serviceVars, ServicesNext, Plays
<1>2. CliInv' /\ StartsPinned
  <2>1. CliNext \/ UNCHANGED cliVars
    BY DEF serviceVars, ServicesNext
  <2> QED
    BY <2>1, CliStep, IdleCli DEF AllServices
<1>3. ListInv' /\ [ListMoves]_listed
  <2>1. ModelListNext \/ UNCHANGED listVars
    BY DEF serviceVars, ServicesNext
  <2> QED
    BY <2>1, ListStep, IdleList DEF AllServices, listVars
<1>4. TelemetryInv'
  <2>1. TelemetryNext \/ UNCHANGED telemetryVars
    BY DEF serviceVars, ServicesNext
  <2> QED
    BY <2>1, TelemetryStep, IdleTelemetry DEF AllServices
<1> QED
  BY <1>1, <1>2, <1>3, <1>4 DEF AllServices

LEMMA ServicesInvariant == ServicesSpec => []AllServices
<1>1. ServicesInit => AllServices
  BY InitCli, InitList, InitTelemetry DEF ServicesInit, AllServices
<1> QED
  BY <1>1, ServicesStep, PTL DEF ServicesSpec, serviceVars

\* Calls of the model CLI leave no child and no waiter behind and book what a
\* stream cost (spawn.ts:218-250, parse.ts:245-330), the list of models has one
\* refresh at a time, and a chain's counter is its backlog (otlp.ts:21), in any
\* order of answers, failures, timers and aborts.
THEOREM ServicesHold == ServicesSpec => []ServicesInv
<1>1. AllServices => ServicesInv
  BY CliPromises, ListPromises, TelemetryPromises DEF AllServices, ServicesInv
<1> QED
  BY <1>1, ServicesInvariant, PTL

\* A child of CLI 2 starts in a checkout in which a pin was tried
\* (spawn.ts:35-36), and a list of models never comes over a newer one
\* (models.ts:69-81).
THEOREM NothingStale == ServicesSpec => NothingStaleIsUsed
<1>1. StartsPinned => [StartsPinned]_cliVars
  OBVIOUS
<1> QED
  BY <1>1, ServicesStep, ServicesInvariant, PTL
     DEF ServicesSpec, serviceVars, NothingStaleIsUsed, PinnedCheckout, NewestList, StartsPinned, ListMoves
=============================================================================

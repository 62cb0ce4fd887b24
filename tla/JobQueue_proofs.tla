--------------------------- MODULE JobQueue_proofs ---------------------------
(***************************************************************************)
(* The queue never exceeds its concurrency, never idles while a job waits  *)
(* and never holds a job twice, for every set of jobs and every            *)
(* concurrency.  QueueInv is inductive together with QueueTypeOK; each operation *)
(* gets a lemma about queue records, which the actions then cite.          *)
(***************************************************************************)
EXTENDS JobQueue, FiniteSetTheorems, FunctionTheorems, SequenceTheorems, TLAPS

\* What every operation preserves, of a queue record.
Sound(q) ==
  /\ q \in Queues
  /\ IsInjective(q.pending)
  /\ ToSet(q.pending) \intersect q.active = {}
  /\ Cardinality(q.active) <= Concurrency

\* No slot idles while an entry waits.
Busy(q) == q.pending # <<>> => Cardinality(q.active) = Concurrency

\* What an update of a queue record leaves alone.
LEMMA Updated ==
  ASSUME NEW q \in Queues, NEW p, NEW a
  PROVE  /\ q.pending \in Seq(Jobs) /\ q.active \in SUBSET Jobs /\ q.started \in BOOLEAN
         /\ [q EXCEPT !.pending = p] = [pending |-> p, active |-> q.active, started |-> q.started]
         /\ [q EXCEPT !.active = a] = [pending |-> q.pending, active |-> a, started |-> q.started]
<1>1. /\ q.pending \in Seq(Jobs) /\ q.active \in SUBSET Jobs /\ q.started \in BOOLEAN
      /\ q = [pending |-> q.pending, active |-> q.active, started |-> q.started]
  BY DEF Queues
<1>2. [q EXCEPT !.pending = p] = [pending |-> p, active |-> q.active, started |-> q.started]
  BY <1>1
<1>3. [q EXCEPT !.active = a] = [pending |-> q.pending, active |-> a, started |-> q.started]
  BY <1>1
<1> QED
  BY <1>1, <1>2, <1>3

\* A prefix of a sequence without repetition has as many members as entries.
LEMMA PrefixSize ==
  ASSUME NEW s \in Seq(Jobs), IsInjective(s), NEW n \in 0..Len(s)
  PROVE  /\ IsFiniteSet({s[i] : i \in 1..n})
         /\ Cardinality({s[i] : i \in 1..n}) = n
<1> DEFINE T == {s[i] : i \in 1..n}
           f == [i \in 1..n |-> s[i]]
<1>1. DOMAIN s = 1..Len(s) /\ Len(s) \in Nat /\ n \in Nat
  OBVIOUS
<1>2. f \in Bijection(1..n, T)
  <2>1. f \in [1..n -> T]
    OBVIOUS
  <2>2. \A a, b \in 1..n : f[a] = f[b] => a = b
    BY <1>1 DEF IsInjective
  <2>3. \A t \in T : \E i \in 1..n : f[i] = t
    OBVIOUS
  <2> QED
    BY <2>1, <2>2, <2>3, Fun_IsBij
<1>3. ExistsBijection(1..n, T)
  BY <1>2 DEF ExistsBijection
<1>4. IsFiniteSet(1..n) /\ Cardinality(1..n) = n
  BY <1>1, FS_Interval
<1> QED
  BY <1>3, <1>4, FS_Bijection

\* pump claims a prefix: as long as the free slots allow, and no shorter
\* while entries are left.
LEMMA PumpedClaimsPrefix ==
  ASSUME NEW q, Sound(q)
  PROVE  \E n \in 0..Len(q.pending) :
           /\ Cardinality(q.active) + n <= Concurrency
           /\ n = Len(q.pending) \/ Cardinality(q.active) + n = Concurrency
           /\ Pumped(q) = [pending |-> SubSeq(q.pending, n + 1, Len(q.pending)),
                           active |-> q.active \union {q.pending[i] : i \in 1..n},
                           started |-> q.started]
<1> DEFINE s    == q.pending
           free == Concurrency - Cardinality(q.active)
           n    == IF free < Len(s) THEN free ELSE Len(s)
           T    == {s[i] : i \in 1..n}
           rest == SubSeq(s, n + 1, Len(s))
<1>1. /\ s \in Seq(Jobs) /\ q.active \in SUBSET Jobs /\ q.started \in BOOLEAN
      /\ DOMAIN s = 1..Len(s) /\ Len(s) \in Nat
      /\ q = [pending |-> s, active |-> q.active, started |-> q.started]
  BY DEF Sound, Queues
<1>2. IsFiniteSet(q.active) /\ Cardinality(q.active) \in Nat
  BY <1>1, QueueAssumption, FS_Subset, FS_CardinalityType
<1>3. /\ free \in Nat /\ n \in 0..Len(s) /\ n <= free
      /\ n = Len(s) \/ n = free
  BY <1>1, <1>2, QueueAssumption DEF Sound
<1>4. /\ SubSeq(s, 1, n) \in Seq(Jobs) /\ Len(SubSeq(s, 1, n)) = n
      /\ \A i \in 1..n : SubSeq(s, 1, n)[i] = s[i]
  BY <1>1, <1>3, SubSeqProperties
<1>5. ToSet(SubSeq(s, 1, n)) = T
  <2> DEFINE u == SubSeq(s, 1, n)
  <2>1. DOMAIN u = 1..n /\ \A i \in 1..n : u[i] = s[i]
    BY <1>4
  <2> HIDE DEF u, n
  <2> QED
    BY <2>1 DEF ToSet, u
<1>6. Pumped(q) = [pending |-> rest, active |-> q.active \union T, started |-> q.started]
  <2>1. Pumped(q) = [q EXCEPT !.active = @ \union ToSet(SubSeq(s, 1, n)), !.pending = rest]
    BY DEF Pumped
  <2> HIDE DEF n, T, rest
  <2> QED
    BY <1>1, <1>5, <2>1
<1>7. Cardinality(q.active) + n <= Concurrency /\ (n = free => Cardinality(q.active) + n = Concurrency)
  <2> HIDE DEF n
  <2> QED
    BY <1>2, <1>3, QueueAssumption
<1> HIDE DEF n
<1> QED
  BY <1>3, <1>6, <1>7

\* Pumping keeps a queue sound, fills the free slots and evicts no run.
LEMMA PumpedSound ==
  ASSUME NEW q, Sound(q)
  PROVE  /\ Sound(Pumped(q)) /\ Busy(Pumped(q))
         /\ Pumped(q).started = q.started
         /\ q.active \subseteq Pumped(q).active
<1> DEFINE s == q.pending
<1>1. /\ s \in Seq(Jobs) /\ q.active \in SUBSET Jobs /\ q.started \in BOOLEAN
      /\ DOMAIN s = 1..Len(s) /\ Len(s) \in Nat
  BY DEF Sound, Queues
<1>2. IsFiniteSet(q.active) /\ Cardinality(q.active) \in Nat
  BY <1>1, QueueAssumption, FS_Subset, FS_CardinalityType
<1>3. PICK n \in 0..Len(s) :
        /\ Cardinality(q.active) + n <= Concurrency
        /\ n = Len(s) \/ Cardinality(q.active) + n = Concurrency
        /\ Pumped(q) = [pending |-> SubSeq(s, n + 1, Len(s)),
                        active |-> q.active \union {s[i] : i \in 1..n},
                        started |-> q.started]
  BY PumpedClaimsPrefix
<1>n. n \in Nat /\ n \in 0..Len(s)
  BY <1>1
<1> DEFINE T    == {s[i] : i \in 1..n}
           rest == SubSeq(s, n + 1, Len(s))
<1>4. /\ rest \in Seq(Jobs) /\ Len(rest) = Len(s) - n
      /\ \A i \in 1..(Len(s) - n) : rest[i] = s[n + i]
  BY <1>n, <1>1, SubSeqProperties
<1>5. Pumped(q) = [pending |-> rest, active |-> q.active \union T, started |-> q.started]
  BY <1>3
<1>6. IsFiniteSet(T) /\ Cardinality(T) = n
  BY <1>n, <1>1, PrefixSize DEF Sound
<1>7. q.active \intersect T = {} /\ T \subseteq Jobs
  BY <1>n, <1>1 DEF Sound, ToSet
<1>8. Cardinality(q.active \union T) = Cardinality(q.active) + n
  <2> HIDE DEF T
  <2>1. Cardinality(q.active \intersect T) = 0
    BY <1>7, FS_EmptySet
  <2>2. Cardinality(q.active \union T) =
          Cardinality(q.active) + Cardinality(T) - Cardinality(q.active \intersect T)
    BY <1>2, <1>6, FS_Union
  <2> QED
    BY <1>n, <1>2, <1>6, <2>1, <2>2
<1>9. IsInjective(rest)
  <2> SUFFICES ASSUME NEW i \in DOMAIN rest, NEW k \in DOMAIN rest, rest[i] = rest[k]
               PROVE  i = k
    BY DEF IsInjective
  <2> HIDE DEF rest
  <2>1. i \in 1..(Len(s) - n) /\ k \in 1..(Len(s) - n)
    BY <1>4
  <2>2. s[n + i] = s[n + k]
    BY <1>4, <2>1
  <2>3. n + i \in DOMAIN s /\ n + k \in DOMAIN s
    BY <1>n, <1>1, <2>1
  <2>4. n + i = n + k
    BY <2>2, <2>3 DEF Sound, IsInjective
  <2> QED
    BY <1>n, <2>1, <2>4
<1>10. ToSet(rest) \intersect (q.active \union T) = {}
  <2>1. DOMAIN rest = 1..(Len(s) - n)
    BY <1>4
  <2>2. ASSUME NEW i \in 1..(Len(s) - n) PROVE rest[i] \notin q.active \union T
    <3> HIDE DEF rest
    <3>1. rest[i] = s[n + i]
      BY <1>4
    <3>2. n + i \in DOMAIN s
      BY <1>n, <1>1
    <3>3. s[n + i] \notin q.active
      BY <3>2 DEF Sound, ToSet
    <3>4. ASSUME NEW k \in 1..n PROVE s[k] # s[n + i]
      <4>1. k \in DOMAIN s /\ k # n + i
        BY <1>n, <1>1
      <4> QED
        BY <3>2, <4>1 DEF Sound, IsInjective
    <3> QED
      BY <3>1, <3>3, <3>4
  <2> HIDE DEF rest, T
  <2> QED
    BY <2>1, <2>2 DEF ToSet
<1>11. Sound(Pumped(q))
  BY <1>1, <1>2, <1>3, <1>4, <1>5, <1>7, <1>8, <1>9, <1>10, QueueAssumption DEF Sound, Queues
<1>12. Busy(Pumped(q))
  <2> SUFFICES ASSUME rest # <<>> PROVE Cardinality(q.active \union T) = Concurrency
    BY <1>5 DEF Busy
  <2>1. n # Len(s)
    BY <1>4, EmptySeq
  <2> QED
    BY <2>1, <1>3, <1>8
<1> QED
  BY <1>5, <1>11, <1>12

\* What pump leaves pending was behind everything it claimed.
LEMMA PumpedInOrder ==
  ASSUME NEW q, Sound(q), NEW i \in 1..Len(q.pending), NEW k \in 1..Len(q.pending),
         i < k, q.pending[k] \in Pumped(q).active
  PROVE  q.pending[i] \notin ToSet(Pumped(q).pending)
<1> DEFINE s == q.pending
<1>1. s \in Seq(Jobs) /\ DOMAIN s = 1..Len(s) /\ Len(s) \in Nat
  BY DEF Sound, Queues
<1>2. PICK n \in 0..Len(s) :
        Pumped(q) = [pending |-> SubSeq(s, n + 1, Len(s)),
                     active |-> q.active \union {s[m] : m \in 1..n},
                     started |-> q.started]
  BY PumpedClaimsPrefix
<1>3. s[k] \notin q.active
  BY <1>1 DEF Sound, ToSet
<1>4. PICK m \in 1..n : s[m] = s[k]
  BY <1>2, <1>3
<1>5. k = m
  BY <1>1, <1>4 DEF Sound, IsInjective
<1> SUFFICES ASSUME s[i] \in ToSet(SubSeq(s, n + 1, Len(s)))
             PROVE  FALSE
  BY <1>2
<1> DEFINE rest == SubSeq(s, n + 1, Len(s))
<1>6. /\ rest \in Seq(Jobs) /\ Len(rest) = Len(s) - n
      /\ \A r \in 1..(Len(s) - n) : rest[r] = s[n + r]
  BY <1>1, SubSeqProperties
<1>7. PICK r \in 1..(Len(s) - n) : s[n + r] = s[i]
  <2> HIDE DEF rest
  <2>1. s[i] \in ToSet(rest) /\ DOMAIN rest = 1..(Len(s) - n)
    BY <1>6 DEF rest
  <2> QED
    BY <1>6, <2>1 DEF ToSet
<1>8. i = n + r
  BY <1>1, <1>7 DEF Sound, IsInjective
<1> QED
  BY <1>1, <1>5, <1>8

\* What is left of s without the members of S: entry n is entry g[n] of s, in
\* the order of s, and nothing else is missing.
Keeping(s, S, c, g) ==
  /\ Without(s, S) = [n \in 1..c |-> s[g[n]]]
  /\ \A n \in 1..c : s[g[n]] \notin S
  /\ \A m, n \in 1..c : m < n => g[m] < g[n]
  /\ \A i \in 1..Len(s) : s[i] \in S \/ \E n \in 1..c : g[n] = i

\* The rank of a kept index, which Without inverts, is an injection between
\* finite sets of one size, hence onto.
LEMMA WithoutIsSubsequence ==
  ASSUME NEW s \in Seq(Jobs), NEW S
  PROVE  \E c \in Nat : \E g \in [1..c -> 1..Len(s)] : Keeping(s, S, c, g)
<1> DEFINE kept     == {i \in 1..Len(s) : s[i] \notin S}
           upto(i)  == {k \in kept : k <= i}
           c        == Cardinality(kept)
           rank     == [i \in kept |-> Cardinality(upto(i))]
           g        == [n \in 1..c |-> CHOOSE i \in kept : Cardinality(upto(i)) = n]
<1>1. IsFiniteSet(kept) /\ c \in Nat /\ kept \subseteq 1..Len(s) /\ kept \subseteq Nat
  <2>1. IsFiniteSet(1..Len(s))
    BY FS_Interval
  <2> QED
    BY <2>1, FS_Subset, FS_CardinalityType
<1>2. \A i \in kept : IsFiniteSet(upto(i)) /\ Cardinality(upto(i)) \in 1..c
  <2> TAKE i \in kept
  <2>1. IsFiniteSet(upto(i)) /\ Cardinality(upto(i)) <= c
    BY <1>1, FS_Subset
  <2>2. i \in upto(i)
    BY <1>1
  <2>3. Cardinality(upto(i)) \in Nat /\ Cardinality(upto(i)) # 0
    BY <2>1, <2>2, FS_CardinalityType, FS_EmptySet
  <2> QED
    BY <1>1, <2>1, <2>3
<1>3. \A i, k \in kept : i < k => Cardinality(upto(i)) < Cardinality(upto(k))
  <2> SUFFICES ASSUME NEW i \in kept, NEW k \in kept, i < k
               PROVE  Cardinality(upto(i)) < Cardinality(upto(k))
    OBVIOUS
  <2>1. upto(i) \subseteq upto(k) /\ k \in upto(k) /\ k \notin upto(i)
    BY <1>1
  <2>2. Cardinality(upto(i)) <= Cardinality(upto(k)) /\ Cardinality(upto(i)) # Cardinality(upto(k))
    BY <1>2, <2>1, FS_Subset
  <2> HIDE DEF upto, kept
  <2>3. Cardinality(upto(i)) \in Nat /\ Cardinality(upto(k)) \in Nat
    BY <1>1, <1>2
  <2> QED
    BY <2>2, <2>3
<1>4. \A n \in 1..c : \E i \in kept : Cardinality(upto(i)) = n
  <2>1. rank \in [kept -> 1..c]
    BY <1>2
  <2>2. ASSUME NEW i \in kept, NEW k \in kept, rank[i] = rank[k]
        PROVE  i = k
    <3> HIDE DEF kept, upto
    <3>1. Cardinality(upto(i)) = Cardinality(upto(k)) /\ Cardinality(upto(i)) \in 1..c
      BY <1>2, <2>2
    <3>2. ~(i < k) /\ ~(k < i)
      BY <1>1, <1>3, <3>1
    <3> QED
      BY <1>1, <3>2
  <2>3. rank \in Injection(kept, 1..c)
    BY <2>1, <2>2, Fun_IsInj
  <2>4. IsFiniteSet(1..c) /\ Cardinality(1..c) = c
    BY <1>1, FS_Interval
  <2>5. rank \in Surjection(kept, 1..c)
    BY <2>3, <2>4, FS_Injection
  <2>6. \A n \in 1..c : \E i \in kept : rank[i] = n
    <3> HIDE DEF rank, kept
    <3> QED
      BY <2>5, Fun_SurjectionProperties
  <2> QED
    BY <2>6
<1>5. \A n \in 1..c : g[n] \in kept /\ Cardinality(upto(g[n])) = n
  BY <1>4
<1>6. g \in [1..c -> 1..Len(s)]
  BY <1>1, <1>5
<1>7. \A m, n \in 1..c : m < n => g[m] < g[n]
  <2> SUFFICES ASSUME NEW m \in 1..c, NEW n \in 1..c, m < n, ~(g[m] < g[n])
               PROVE  FALSE
    OBVIOUS
  <2>1. g[m] \in kept /\ g[n] \in kept /\ Cardinality(upto(g[m])) = m /\ Cardinality(upto(g[n])) = n
    BY <1>5
  <2> HIDE DEF g, kept, upto
  <2>2. g[m] \in Nat /\ g[n] \in Nat
    BY <1>1, <2>1
  <2>3. g[n] = g[m] \/ g[n] < g[m]
    BY <2>2
  <2>4. n <= m
    <3>1. n \in Nat /\ m \in Nat
      BY <1>1
    <3>2. CASE g[n] = g[m]
      BY <2>1, <3>1, <3>2
    <3>3. CASE g[n] < g[m]
      BY <1>3, <2>1, <3>1, <3>3
    <3> QED
      BY <2>3, <3>2, <3>3
  <2> QED
    BY <1>1, <2>4
<1>8. Without(s, S) = [n \in 1..c |-> s[g[n]]]
  BY DEF Without
<1>9. \A n \in 1..c : s[g[n]] \notin S
  BY <1>5
<1>10. \A i \in kept : \E n \in 1..c : g[n] = i
  <2> SUFFICES ASSUME NEW i \in kept PROVE \E n \in 1..c : g[n] = i
    OBVIOUS
  <2> DEFINE n == Cardinality(upto(i))
  <2>1. n \in 1..c
    BY <1>2
  <2>2. g[n] \in kept /\ Cardinality(upto(g[n])) = n
    BY <1>5, <2>1
  <2> HIDE DEF g, kept
  <2>3. g[n] \in Nat /\ i \in Nat
    BY <1>1, <2>2
  <2>4. Cardinality(upto(i)) \in Nat
    BY <1>1, <2>1
  <2>5. ~(g[n] < i) /\ ~(i < g[n])
    <3> HIDE DEF upto
    <3> QED
      BY <1>3, <2>2, <2>4
  <2> QED
    BY <2>1, <2>3, <2>5
<1>11. \A i \in 1..Len(s) : s[i] \in S \/ \E n \in 1..c : g[n] = i
  BY <1>10
<1>12. Keeping(s, S, c, g)
  <2> HIDE DEF g, c
  <2> QED
    BY <1>7, <1>8, <1>9, <1>11 DEF Keeping
<1> QED
  BY <1>1, <1>6, <1>12

\* Splicing entries out adds none, repeats none, and leaves the rest as it was.
LEMMA WithoutSound ==
  ASSUME NEW s \in Seq(Jobs), IsInjective(s), NEW S
  PROVE  /\ Without(s, S) \in Seq(Jobs)
         /\ IsInjective(Without(s, S))
         /\ ToSet(Without(s, S)) = ToSet(s) \ S
         /\ Without(s, S) # <<>> => s # <<>>
<1>0. PICK c \in Nat : \E g \in [1..c -> 1..Len(s)] : Keeping(s, S, c, g)
  BY WithoutIsSubsequence
<1>a. PICK g \in [1..c -> 1..Len(s)] : Keeping(s, S, c, g)
  BY <1>0
<1>1. /\ Without(s, S) = [n \in 1..c |-> s[g[n]]]
      /\ \A n \in 1..c : s[g[n]] \notin S
      /\ \A m, n \in 1..c : m < n => g[m] < g[n]
      /\ \A i \in 1..Len(s) : s[i] \in S \/ \E n \in 1..c : g[n] = i
  BY <1>a DEF Keeping
<1> DEFINE t == [n \in 1..c |-> s[g[n]]]
<1>2. DOMAIN s = 1..Len(s) /\ Len(s) \in Nat
  OBVIOUS
<1>3. t \in Seq(Jobs) /\ Len(t) = c /\ DOMAIN t = 1..c
  <2>1. \A n \in 1..c : s[g[n]] \in Jobs
    BY <1>2
  <2> QED
    BY <2>1
<1>4. IsInjective(t)
  <2> SUFFICES ASSUME NEW m \in 1..c, NEW n \in 1..c, s[g[m]] = s[g[n]]
               PROVE  m = n
    BY <1>3 DEF IsInjective
  <2>1. g[m] = g[n]
    BY <1>2 DEF IsInjective
  <2>2. g[m] \in Nat /\ m \in Nat /\ n \in Nat
    BY <1>2
  <2>3. ~(m < n) /\ ~(n < m)
    BY <1>1, <2>1, <2>2
  <2> QED
    BY <2>2, <2>3
<1>5. ToSet(t) = ToSet(s) \ S
  <2>1. \A n \in 1..c : t[n] = s[g[n]] /\ g[n] \in 1..Len(s) /\ s[g[n]] \notin S
    BY <1>1
  <2>2. ToSet(t) = {t[n] : n \in 1..c} /\ ToSet(s) = {s[i] : i \in 1..Len(s)}
    BY <1>2, <1>3 DEF ToSet
  <2>3. ToSet(t) \subseteq ToSet(s) \ S
    BY <2>1, <2>2
  <2>4. ASSUME NEW x \in ToSet(s) \ S PROVE x \in ToSet(t)
    <3>1. PICK i \in 1..Len(s) : x = s[i]
      BY <2>2
    <3>2. PICK n \in 1..c : g[n] = i
      BY <1>1, <2>4, <3>1
    <3> QED
      BY <2>1, <2>2, <3>1, <3>2
  <2> QED
    BY <2>3, <2>4
<1>6. t # <<>> => s # <<>>
  <2> SUFFICES ASSUME t # <<>>, s = <<>>
               PROVE  FALSE
    OBVIOUS
  <2>1. Len(t) # 0
    BY <1>3, EmptySeq
  <2>2. g[1] \in 1..0
    BY <1>3, <2>1
  <2> QED
    BY <2>2
<1> QED
  BY <1>1, <1>3, <1>4, <1>5, <1>6

\* The guard of enqueue, that j neither waits nor runs, is what keeps a longer
\* sequence injective and disjoint from the active set.
LEMMA LongerSound ==
  ASSUME NEW q, Sound(q), NEW j \in Jobs, j \notin ToSet(q.pending) \union q.active
  PROVE  LET longer == [q EXCEPT !.pending = Append(@, j)]
         IN  /\ Sound(longer) /\ longer.pending = Append(q.pending, j)
             /\ longer.started = q.started
<1> DEFINE longer == [q EXCEPT !.pending = Append(@, j)]
<1>1. /\ q.pending \in Seq(Jobs) /\ q.active \in SUBSET Jobs /\ q.started \in BOOLEAN
      /\ longer = [pending |-> Append(q.pending, j), active |-> q.active, started |-> q.started]
  BY Updated DEF Sound
<1>2. DOMAIN q.pending = 1..Len(q.pending) /\ Len(q.pending) \in Nat
  BY <1>1
<1>3. /\ Append(q.pending, j) \in Seq(Jobs)
      /\ DOMAIN Append(q.pending, j) = 1..(Len(q.pending) + 1)
      /\ Append(q.pending, j)[Len(q.pending) + 1] = j
      /\ \A i \in 1..Len(q.pending) : Append(q.pending, j)[i] = q.pending[i]
  BY <1>1, <1>2
<1>4. IsInjective(Append(q.pending, j))
  BY <1>1, <1>2, <1>3 DEF Sound, IsInjective, ToSet
<1>5. ToSet(Append(q.pending, j)) \intersect q.active = {}
  BY <1>1, <1>2, <1>3 DEF Sound, ToSet
<1>6. Sound(longer)
  BY <1>1, <1>3, <1>4, <1>5 DEF Sound, Queues
<1> QED
  BY <1>1, <1>6

\* enqueue keeps the queue sound and busy.
LEMMA EnqueuedSound ==
  ASSUME NEW q, Sound(q), Busy(q), q.started, NEW j \in Jobs
  PROVE  /\ Sound(Enqueued(q, j)) /\ Busy(Enqueued(q, j)) /\ Enqueued(q, j).started
<1> DEFINE longer == [q EXCEPT !.pending = Append(@, j)]
<1>1. CASE j \in ToSet(q.pending) \union q.active
  BY <1>1 DEF Enqueued
<1>2. CASE j \notin ToSet(q.pending) \union q.active
  <2>1. Enqueued(q, j) = Pumped(longer)
    BY <1>2 DEF Enqueued
  <2>2. Sound(longer) /\ longer.started
    BY <1>2, LongerSound
  <2> HIDE DEF longer
  <2> QED
    BY <2>1, <2>2, PumpedSound
<1> QED
  BY <1>1, <1>2

\* abortMany frees no slot and splices entries out.
LEMMA AbortedManySound ==
  ASSUME NEW q, Sound(q), Busy(q), NEW S
  PROVE  /\ Sound(AbortedMany(q, S)) /\ Busy(AbortedMany(q, S))
         /\ AbortedMany(q, S).started = q.started
         /\ AbortedMany(q, S).active = q.active
         /\ ToSet(AbortedMany(q, S).pending) = ToSet(q.pending) \ S
<1>1. /\ q.pending \in Seq(Jobs) /\ q.active \in SUBSET Jobs /\ q.started \in BOOLEAN
      /\ q = [pending |-> q.pending, active |-> q.active, started |-> q.started]
  BY DEF Sound, Queues
<1>2. AbortedMany(q, S) = [pending |-> Without(q.pending, S), active |-> q.active, started |-> q.started]
  BY <1>1 DEF AbortedMany
<1>3. /\ Without(q.pending, S) \in Seq(Jobs) /\ IsInjective(Without(q.pending, S))
      /\ ToSet(Without(q.pending, S)) = ToSet(q.pending) \ S
      /\ Without(q.pending, S) # <<>> => q.pending # <<>>
  BY <1>1, WithoutSound DEF Sound
<1>4. Sound(AbortedMany(q, S))
  BY <1>1, <1>2, <1>3 DEF Sound, Queues
<1>5. Busy(AbortedMany(q, S))
  BY <1>2, <1>3 DEF Busy
<1> QED
  BY <1>2, <1>3, <1>4, <1>5

\* A released slot is refilled before anything else happens.
LEMMA FinishedSound ==
  ASSUME NEW q, Sound(q), NEW j \in q.active
  PROVE  /\ Sound([q EXCEPT !.active = @ \ {j}])
         /\ [q EXCEPT !.active = @ \ {j}].pending = q.pending
         /\ Sound(Finished(q, j)) /\ Busy(Finished(q, j))
         /\ Finished(q, j).started = q.started
<1> DEFINE less == [q EXCEPT !.active = @ \ {j}]
<1>1. /\ q.pending \in Seq(Jobs) /\ q.active \in SUBSET Jobs /\ q.started \in BOOLEAN
      /\ less = [pending |-> q.pending, active |-> q.active \ {j}, started |-> q.started]
  BY Updated DEF Sound
<1>2. Cardinality(q.active \ {j}) <= Concurrency
  <2>1. IsFiniteSet(q.active) /\ Cardinality(q.active) \in Nat
    BY <1>1, QueueAssumption, FS_Subset, FS_CardinalityType
  <2>2. Cardinality(q.active \ {j}) = Cardinality(q.active) - 1
    BY <2>1, FS_RemoveElement
  <2> QED
    BY <2>1, <2>2, QueueAssumption DEF Sound
<1>3. Sound(less)
  BY <1>1, <1>2 DEF Sound, Queues
<1> QED
  BY <1>1, <1>3, PumpedSound DEF Finished

\* The jobs the queue knows.
Entries(q) == ToSet(q.pending) \union q.active

LEMMA PumpedEntries ==
  ASSUME NEW q, Sound(q)
  PROVE  /\ Entries(Pumped(q)) = Entries(q)
         /\ ToSet(Pumped(q).pending) \subseteq ToSet(q.pending)
         /\ Pumped(q).active \subseteq q.active \union ToSet(q.pending)
<1> DEFINE s == q.pending
<1>1. s \in Seq(Jobs) /\ DOMAIN s = 1..Len(s) /\ Len(s) \in Nat
  BY DEF Sound, Queues
<1>2. PICK n \in 0..Len(s) :
        Pumped(q) = [pending |-> SubSeq(s, n + 1, Len(s)),
                     active |-> q.active \union {s[i] : i \in 1..n},
                     started |-> q.started]
  BY PumpedClaimsPrefix
<1>3. n \in Nat /\ n \in 0..Len(s)
  BY <1>1
<1> DEFINE rest == SubSeq(s, n + 1, Len(s))
<1>4. /\ rest \in Seq(Jobs) /\ Len(rest) = Len(s) - n
      /\ \A i \in 1..(Len(s) - n) : rest[i] = s[n + i]
  BY <1>1, <1>3, SubSeqProperties
<1>5. Pumped(q).pending = rest /\ Pumped(q).active = q.active \union {s[i] : i \in 1..n}
  BY <1>2
<1> HIDE DEF rest
<1>6. ToSet(rest) \subseteq ToSet(s)
  <2>1. DOMAIN rest = 1..(Len(s) - n)
    BY <1>4
  <2>2. \A i \in 1..(Len(s) - n) : n + i \in DOMAIN s
    BY <1>1, <1>3
  <2> QED
    BY <1>4, <2>1, <2>2 DEF ToSet
<1>7. \A i \in 1..n : s[i] \in ToSet(s)
  BY <1>1, <1>3 DEF ToSet
<1>8. ASSUME NEW x \in ToSet(s), x \notin ToSet(rest) PROVE \E i \in 1..n : x = s[i]
  <2>1. PICK k \in 1..Len(s) : x = s[k]
    BY <1>1 DEF ToSet
  <2>2. CASE k <= n
    BY <1>3, <2>1, <2>2
  <2>3. CASE ~(k <= n)
    <3>1. k - n \in 1..(Len(s) - n) /\ n + (k - n) = k
      BY <1>1, <1>3, <2>3
    <3>2. rest[k - n] = s[k] /\ DOMAIN rest = 1..(Len(s) - n)
      BY <1>4, <3>1
    <3>3. x \in ToSet(rest)
      BY <2>1, <3>1, <3>2 DEF ToSet
    <3> QED
      BY <1>8, <3>3
  <2> QED
    BY <2>2, <2>3
<1> QED
  BY <1>5, <1>6, <1>7, <1>8 DEF Entries

\* An operation brings a job into the queue only by the enqueue of that job,
\* and drops none but those aborted or finished.
LEMMA OperationEntries ==
  ASSUME NEW q, Sound(q), Busy(q), q.started, NEW j \in Jobs, NEW S
  PROVE  /\ Entries(Enqueued(q, j)) = Entries(q) \union {j}
         /\ q.active \subseteq Enqueued(q, j).active
         /\ Entries(AbortedMany(q, S)) \subseteq Entries(q)
         /\ Entries(q) \ S \subseteq Entries(AbortedMany(q, S))
         /\ j \in q.active => /\ Entries(Finished(q, j)) = Entries(q) \ {j}
                              /\ q.active \ {j} \subseteq Finished(q, j).active
<1>1. Entries(Enqueued(q, j)) = Entries(q) \union {j} /\ q.active \subseteq Enqueued(q, j).active
  <2> DEFINE longer == [q EXCEPT !.pending = Append(@, j)]
  <2>1. CASE j \in ToSet(q.pending) \union q.active
    BY <2>1 DEF Enqueued, Entries
  <2>2. CASE j \notin ToSet(q.pending) \union q.active
    <3>1. Enqueued(q, j) = Pumped(longer)
      BY <2>2 DEF Enqueued
    <3>2. Sound(longer) /\ longer.pending = Append(q.pending, j) /\ q.pending \in Seq(Jobs) /\ q \in Queues
      BY <2>2, LongerSound DEF Sound, Queues
    <3>3. longer.active = q.active
      BY <3>2, Updated
    <3> HIDE DEF longer
    <3>4. ToSet(Append(q.pending, j)) = ToSet(q.pending) \union {j}
      <4> DEFINE a == Append(q.pending, j)
      <4>1. /\ DOMAIN q.pending = 1..Len(q.pending) /\ Len(q.pending) \in Nat
            /\ DOMAIN a = 1..(Len(q.pending) + 1) /\ a[Len(q.pending) + 1] = j
            /\ \A i \in 1..Len(q.pending) : a[i] = q.pending[i]
        BY <3>2
      <4> HIDE DEF a
      <4>2. 1..(Len(q.pending) + 1) = 1..Len(q.pending) \union {Len(q.pending) + 1}
        BY <4>1
      <4>3. ToSet(a) = {a[i] : i \in 1..Len(q.pending)} \union {a[Len(q.pending) + 1]}
        BY <4>1, <4>2 DEF ToSet
      <4>4. {a[i] : i \in 1..Len(q.pending)} = {q.pending[i] : i \in 1..Len(q.pending)}
        BY <4>1
      <4>5. ToSet(q.pending) = {q.pending[i] : i \in 1..Len(q.pending)}
        BY <4>1 DEF ToSet
      <4> QED
        BY <4>1, <4>3, <4>4, <4>5 DEF a
    <3>5. Entries(longer) = Entries(q) \union {j}
      BY <3>2, <3>3, <3>4 DEF Entries
    <3>6. Entries(Pumped(longer)) = Entries(longer) /\ longer.active \subseteq Pumped(longer).active
      BY <3>2, PumpedEntries, PumpedSound
    <3> QED
      BY <3>1, <3>3, <3>5, <3>6
  <2> QED
    BY <2>1, <2>2
<1>2. Entries(AbortedMany(q, S)) \subseteq Entries(q) /\ Entries(q) \ S \subseteq Entries(AbortedMany(q, S))
  BY AbortedManySound DEF Entries
<1>3. ASSUME j \in q.active
      PROVE  /\ Entries(Finished(q, j)) = Entries(q) \ {j}
             /\ q.active \ {j} \subseteq Finished(q, j).active
  <2> DEFINE less == [q EXCEPT !.active = @ \ {j}]
  <2>1. Sound(less) /\ less.pending = q.pending /\ Finished(q, j) = Pumped(less)
    BY <1>3, FinishedSound DEF Finished
  <2>2. less.active = q.active \ {j} /\ ToSet(q.pending) \intersect q.active = {}
    BY Updated DEF Sound
  <2> HIDE DEF less
  <2> QED
    BY <1>3, <2>1, <2>2, PumpedEntries, PumpedSound DEF Entries
<1> QED
  BY <1>1, <1>2, <1>3

\* The members of r that were pending in q were claimed in order.
InOrder(q, r) ==
  \A i, k \in 1..Len(q.pending) :
    i < k /\ q.pending[k] \in r.active => q.pending[i] \notin ToSet(r.pending)

\* The new entry goes to the back, so what was pending keeps its place.
LEMMA EnqueuedInOrder ==
  ASSUME NEW q, Sound(q), Busy(q), q.started, NEW j \in Jobs
  PROVE  InOrder(q, Enqueued(q, j))
<1> DEFINE longer == [q EXCEPT !.pending = Append(@, j)]
<1>1. q.pending \in Seq(Jobs) /\ DOMAIN q.pending = 1..Len(q.pending) /\ Len(q.pending) \in Nat
  BY DEF Sound, Queues
<1>2. CASE j \in ToSet(q.pending) \union q.active
  <2>1. \A k \in 1..Len(q.pending) : q.pending[k] \notin q.active
    BY <1>1 DEF Sound, ToSet
  <2> QED
    BY <1>2, <2>1 DEF Enqueued, InOrder
<1>3. CASE j \notin ToSet(q.pending) \union q.active
  <2>1. Enqueued(q, j) = Pumped(longer)
    BY <1>3 DEF Enqueued
  <2>2. Sound(longer) /\ longer.pending = Append(q.pending, j)
    BY <1>3, LongerSound
  <2> HIDE DEF longer
  <2>3. /\ \A i \in 1..Len(q.pending) : longer.pending[i] = q.pending[i]
        /\ Len(longer.pending) = Len(q.pending) + 1
    BY <1>1, <2>2
  <2> SUFFICES ASSUME NEW i \in 1..Len(q.pending), NEW k \in 1..Len(q.pending), i < k,
                      q.pending[k] \in Pumped(longer).active
               PROVE  q.pending[i] \notin ToSet(Pumped(longer).pending)
    BY <2>1 DEF InOrder
  <2>4. /\ i \in 1..Len(longer.pending) /\ k \in 1..Len(longer.pending)
        /\ longer.pending[i] = q.pending[i] /\ longer.pending[k] = q.pending[k]
    BY <1>1, <2>3
  <2> QED
    BY <2>2, <2>4, PumpedInOrder
<1> QED
  BY <1>2, <1>3

\* What an abort drops was claimed by nobody, and nothing is put before it.
LEMMA AbortedInOrder ==
  ASSUME NEW q, NEW r, Sound(r), Busy(r), InOrder(q, r), NEW S
  PROVE  InOrder(q, AbortedMany(r, S))
<1>1. /\ AbortedMany(r, S).active = r.active
      /\ ToSet(AbortedMany(r, S).pending) \subseteq ToSet(r.pending)
  BY AbortedManySound
<1> QED
  BY <1>1 DEF InOrder

-----------------------------------------------------------------------------
(* The specification *)

\* QueueTypeOK and QueueInv, said of the record: before start nothing is queued.
IInv == Sound(queue) /\ (IF queue.started THEN Busy(queue) ELSE queue = Stopped)

LEMMA IInvMeaning == IInv <=> QueueTypeOK /\ QueueInv
  BY DEF IInv, Sound, Busy, QueueTypeOK, QueueInv, OneEntryPerJob, WithinConcurrency, WorkConserving

\* The empty queue, of a process that starts or has just died.
LEMMA SoundWhenStopped == Sound(Stopped) /\ ~Stopped.started
<1>1. Cardinality({}) = 0
  BY FS_EmptySet
<1>2. Stopped \in Queues
  BY DEF Queues, Stopped
<1>3. IsInjective(<<>>) /\ ToSet(<<>>) = {}
  BY DEF IsInjective, ToSet
<1>4. Cardinality({}) <= Concurrency
  BY <1>1, QueueAssumption
<1> QED
  BY <1>2, <1>3, <1>4 DEF Sound, Stopped

LEMMA InitEstablishes == QueueInit => IInv
  BY SoundWhenStopped DEF QueueInit, IInv

\* queue.start hands pump the interrupted jobs once each, in some order.
LEMMA LoadedSound ==
  ASSUME NEW S \in SUBSET Jobs, NEW order \in SetToSeqs(S)
  PROVE  /\ Sound([pending |-> order, active |-> {}, started |-> TRUE])
         /\ ToSet(order) = S
<1>1. order \in [1..Cardinality(S) -> S] /\ IsInjective(order)
  <2>1. /\ order \in [1..Cardinality(S) -> S]
        /\ \A i, k \in 1..Cardinality(S) : i # k => order[i] # order[k]
    BY DEF SetToSeqs
  <2> QED
    BY <2>1 DEF IsInjective
<1>2. Cardinality(S) \in Nat
  BY QueueAssumption, FS_Subset, FS_CardinalityType
<1>3. order \in Seq(Jobs)
  BY <1>1, <1>2
<1>4. Cardinality({}) <= Concurrency
  BY FS_EmptySet, QueueAssumption
<1>5. ToSet(order) = S
  <2> DEFINE c == Cardinality(S)
  <2>1. order \in Injection(1..c, S)
    BY <1>1, Fun_IsInj DEF IsInjective
  <2>2. IsFiniteSet(S)
    BY QueueAssumption, FS_Subset
  <2>. HIDE DEF c
  <2>5. Cardinality(1..c) = c /\ IsFiniteSet(1..c)
    <3>1. c \in Nat
      BY <1>2 DEF c
    <3>2. 1 \in Int /\ c \in Int /\ (IF 1 > c THEN 0 ELSE c - 1 + 1) = c
      BY <3>1
    <3> QED
      BY <3>2, FS_Interval
  <2>3. order \in Surjection(1..c, S)
    BY <2>1, <2>2, <2>5, FS_Injection DEF c
  <2>4. \A x \in S : \E i \in 1..c : order[i] = x
    <3> DEFINE d == 1..c
    <3>1. order \in Surjection(d, S)
      BY <2>3
    <3> HIDE DEF d
    <3>2. \A x \in S : \E i \in d : order[i] = x
      BY <3>1, Fun_SurjectionProperties, Zenon
    <3> QED
      BY <3>2 DEF d
  <2>6. DOMAIN order = 1..c /\ \A i \in 1..c : order[i] \in S
    BY <1>1 DEF c
  <2> QED
    BY <2>4, <2>6 DEF ToSet
<1> QED
  BY <1>1, <1>3, <1>4, <1>5 DEF Sound, Queues

LEMMA StartSound ==
  ASSUME IInv, NEW S \in SUBSET Jobs, NEW order \in SetToSeqs(S), Start(order)
  PROVE  IInv'
<1> DEFINE loaded == [pending |-> order, active |-> {}, started |-> TRUE]
<1>1. Sound(loaded) /\ loaded.started
  BY LoadedSound
<1>2. queue' = Pumped(loaded)
  BY DEF Start
<1> HIDE DEF loaded
<1> QED
  BY <1>1, <1>2, PumpedSound DEF IInv

LEMMA NextPreserves == IInv /\ [QueueNext]_queue => IInv'
<1> SUFFICES ASSUME IInv, [QueueNext]_queue PROVE IInv'
  OBVIOUS
<1>1. CASE Starts
  BY <1>1, StartSound DEF Starts
<1>2. ASSUME NEW j \in Jobs, Enqueue(j) PROVE IInv'
  BY <1>2, EnqueuedSound DEF Enqueue, IInv
<1>3. ASSUME NEW j \in Jobs, Finish(j) PROVE IInv'
  <2>1. queue.started
    BY <1>3 DEF Finish, IInv, Stopped
  <2> QED
    BY <1>3, <2>1, FinishedSound DEF Finish, IInv
<1>4. ASSUME NEW j \in Jobs, NEW S \in SUBSET Jobs, HandOver(j, S) PROVE IInv'
  <2>1. /\ Sound(Enqueued(queue, j)) /\ Busy(Enqueued(queue, j)) /\ Enqueued(queue, j).started
    BY <1>4, EnqueuedSound DEF HandOver, IInv
  <2> QED
    BY <1>4, <2>1, AbortedManySound DEF HandOver, IInv
<1>5. ASSUME NEW S \in SUBSET Jobs, AbortMany(S) PROVE IInv'
  BY <1>5, AbortedManySound DEF AbortMany, IInv
<1>6. CASE Die
  BY <1>6, SoundWhenStopped DEF Die, IInv
<1>7. CASE UNCHANGED queue
  BY <1>7 DEF IInv
<1> QED
  BY <1>1, <1>2, <1>3, <1>4, <1>5, <1>6, <1>7 DEF QueueNext

\* The queue record always is one: pending holds jobs, active is a set of them.
THEOREM WellTyped == QueueSafeSpec => []QueueTypeOK
<1>1. IInv => QueueTypeOK
  BY IInvMeaning
<1> QED
  BY <1>1, InitEstablishes, NextPreserves, PTL DEF QueueSafeSpec

\* Never over, never idle, never twice: what the queue promises of its slots and
\* of the jobs that wait, for every concurrency and any set of jobs.
THEOREM QueueSafe == QueueSafeSpec => []QueueInv
<1>1. IInv => QueueInv
  BY IInvMeaning
<1> QED
  BY <1>1, InitEstablishes, NextPreserves, PTL DEF QueueSafeSpec

\* No job is ever pending twice, or pending while it runs: the guard of enqueue
\* is enough, whoever calls it and whenever.
THEOREM NeverTwice == QueueSafeSpec => []OneEntryPerJob
<1>1. QueueInv => OneEntryPerJob
  BY DEF QueueInv
<1> QED
  BY <1>1, QueueSafe, PTL

\* No more runs than JOB_CONCURRENCY, for every concurrency.
THEOREM NeverOver == QueueSafeSpec => []WithinConcurrency
<1>1. QueueInv => WithinConcurrency
  BY DEF QueueInv
<1> QED
  BY <1>1, QueueSafe, PTL

\* No slot idles while a job waits: after every operation pump has filled them.
THEOREM NeverIdle == QueueSafeSpec => []WorkConserving
<1>1. QueueInv => WorkConserving
  BY DEF QueueInv
<1> QED
  BY <1>1, QueueSafe, PTL

\* Of two waiting jobs, the one that came first is never overtaken: when the
\* other is claimed it has been claimed, or withdrawn, too.
THEOREM QueueInOrder == QueueSafeSpec => FirstInFirstOut
<1>1. ASSUME IInv, [QueueNext]_queue PROVE InOrder(queue, queue')
  <2>1. /\ Sound(queue) /\ queue.pending \in Seq(Jobs)
        /\ DOMAIN queue.pending = 1..Len(queue.pending) /\ Len(queue.pending) \in Nat
    BY <1>1 DEF IInv, Sound, Queues
  <2>2. \A k \in 1..Len(queue.pending) : queue.pending[k] \notin queue.active
    BY <2>1 DEF Sound, ToSet
  <2>3. CASE Starts
    BY <1>1, <2>3 DEF Starts, Start, IInv, Stopped, InOrder
  <2>4. ASSUME NEW j \in Jobs, Enqueue(j) PROVE InOrder(queue, queue')
    BY <1>1, <2>4, EnqueuedInOrder DEF Enqueue, IInv
  <2>5. ASSUME NEW j \in Jobs, Finish(j) PROVE InOrder(queue, queue')
    <3> DEFINE less == [queue EXCEPT !.active = @ \ {j}]
    <3>1. Sound(less) /\ less.pending = queue.pending
      BY <2>1, <2>5, FinishedSound DEF Finish
    <3>2. queue' = Pumped(less)
      BY <2>5 DEF Finish, Finished
    <3> HIDE DEF less
    <3> QED
      BY <3>1, <3>2, PumpedInOrder DEF InOrder
  <2>6. ASSUME NEW j \in Jobs, NEW S \in SUBSET Jobs, HandOver(j, S) PROVE InOrder(queue, queue')
    <3> DEFINE q == Enqueued(queue, j)
    <3>1. Sound(q) /\ Busy(q) /\ InOrder(queue, q)
      BY <1>1, <2>6, EnqueuedSound, EnqueuedInOrder DEF HandOver, IInv
    <3>2. queue' = AbortedMany(q, S)
      BY <2>6 DEF HandOver
    <3> HIDE DEF q
    <3> QED
      BY <3>1, <3>2, AbortedInOrder
  <2>7. ASSUME NEW S \in SUBSET Jobs, AbortMany(S) PROVE InOrder(queue, queue')
    BY <1>1, <2>2, <2>7, AbortedManySound DEF AbortMany, IInv, InOrder
  <2>8. CASE Die
    BY <2>8 DEF Die, Stopped, InOrder
  <2>9. CASE UNCHANGED queue
    BY <2>2, <2>9 DEF InOrder
  <2> QED
    BY <1>1, <2>3, <2>4, <2>5, <2>6, <2>7, <2>8, <2>9 DEF QueueNext
<1> QED
  BY <1>1, InitEstablishes, NextPreserves, PTL DEF QueueSafeSpec, FirstInFirstOut, InOrder
=============================================================================

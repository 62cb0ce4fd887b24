---------------------------- MODULE Handlers_proofs ----------------------------
(***************************************************************************)
(* What handles comments, events, forms and starts: the walk finds the stack *)
(* and its rows are what was asked for, risk is answered and the panel is    *)
(* the decision's, a page shows and saves what is so, a pause is quiet, a    *)
(* merged request stays quiet and is reviewed once per head, a migration     *)
(* keeps every row; for any number of pulls, requests, reviewers, files,     *)
(* rows, tabs, pauses, heads, events, deaths and starts.                     *)
(***************************************************************************)
EXTENDS MCHandlers, FiniteSetTheorems, FunctionTheorems, SequenceTheorems, WellFoundedInduction, TLAPS
-----------------------------------------------------------------------------
(* The walk of a stack *)

\* A set of numbers has a least one.
LEMMA LeastNumber ==
  ASSUME NEW T, T \subseteq Nat, T # {}
  PROVE  \E x \in T : \A y \in T : x <= y
<1> DEFINE R == OpToRel(<, Nat)
<1>1. IsWellFoundedOn(R, Nat)
  BY NatLessThanWellFounded
<1>2. \A x, y \in Nat : <<x, y>> \in R <=> x < y
  BY DEF OpToRel
<1> HIDE DEF R
<1>3. PICK x \in T : \A y \in T : ~(<<y, x>> \in R)
  BY <1>1, WFMin
<1>4. ASSUME NEW y \in T PROVE x <= y
  <2>1. x \in Nat /\ y \in Nat /\ ~(<<y, x>> \in R)
    BY <1>3, <1>4
  <2>2. ~(y < x)
    BY <1>2, <2>1
  <2> QED
    BY <2>1, <2>2
<1> QED
  BY <1>4

\* The walk is the last turn of a function that begins at the end and descends.
IsWalk(l, start, marked, end, f) ==
  /\ Walk(l, start, marked, end) = f[Cardinality(l.open)] /\ f[0] = <<end>>
  /\ \A k \in 1..Cardinality(l.open) : f[k] = Descends(l, start, marked, f[k - 1])

LEMMA WalkUnfolds ==
  ASSUME NEW l, NEW start, NEW marked, NEW end, Cardinality(l.open) \in Nat
  PROVE  \E f : IsWalk(l, start, marked, end, f)
<1> DEFINE N == Cardinality(l.open)
           Turns(g, n) == [k \in 0..n |-> IF k = 0 THEN <<end>> ELSE Descends(l, start, marked, g[k - 1])]
           f == CHOOSE g : g = Turns(g, N)
<1>1. N \in Nat
  OBVIOUS
<1>2. Walk(l, start, marked, end) = f[N]
  BY DEF Walk
<1> HIDE DEF N
<1>3. \E g : g = Turns(g, N)
  <2> DEFINE None == {n \in Nat : ~\E g : g = Turns(g, n)}
  <2> SUFFICES ASSUME None # {} PROVE FALSE
    BY <1>1
  <2>1. PICK n \in None : \A k \in None : n <= k
    BY LeastNumber
  <2>2. n # 0
    <3>1. [k \in 0..0 |-> <<end>>] = Turns([k \in 0..0 |-> <<end>>], 0)
      OBVIOUS
    <3> QED
      BY <2>1, <3>1
  <2>3. n - 1 \in Nat /\ n - 1 \notin None
    <3>1. None \subseteq Nat
      OBVIOUS
    <3> HIDE DEF None
    <3>2. n - 1 \in Nat /\ ~(n <= n - 1)
      BY <2>1, <2>2, <3>1
    <3> QED
      BY <2>1, <3>2
  <2>4. PICK g : g = Turns(g, n - 1)
    BY <2>3
  <2> DEFINE h == Turns(g, n)
  <2>5. \A k \in 0..(n - 1) : h[k] = g[k]
    <3>1. \A k \in 0..(n - 1) : g[k] = IF k = 0 THEN <<end>> ELSE Descends(l, start, marked, g[k - 1])
      BY <2>3, <2>4, Zenon
    <3>2. \A k \in 0..n : h[k] = IF k = 0 THEN <<end>> ELSE Descends(l, start, marked, g[k - 1])
      OBVIOUS
    <3> QED
      BY <2>3, <3>1, <3>2
  <2> HIDE DEF h
  <2>6. ASSUME NEW k \in 0..n, k # 0 PROVE h[k - 1] = g[k - 1]
    <3>1. k - 1 \in 0..(n - 1)
      BY <2>3, <2>6
    <3> QED
      BY <2>5, <3>1
  <2>7. h = Turns(h, n)
    BY <2>6, Zenon DEF h
  <2> QED
    BY <2>1, <2>7
<1>4. f = Turns(f, N)
  BY <1>3
<1> HIDE DEF f
<1>5. f[0] = <<end>> /\ \A k \in 1..N : f[k] = Descends(l, start, marked, f[k - 1])
  BY <1>1, <1>4
<1> QED
  BY <1>2, <1>5 DEF N, IsWalk

\* What the walk has of a stack: different open pulls up to the end, of which
\* none but the first may be its bottom, each the only one below the next.
ChainUpTo(l, start, marked, end, c) ==
  /\ c \in Seq(l.open) /\ c # <<>> /\ Len(c) <= MaxChain /\ IsInjective(c) /\ c[Len(c)] = end
  /\ \A i \in 2..Len(c) : ~Bottom(l, start, marked, c[i]) /\ Below(l, c[i]) = {c[i - 1]}

LEMMA ChainLength == MaxChain \in Nat /\ \A n \in Nat : n \in 2..MaxChain <=> n > 1 /\ n <= MaxChain
BY DEF MaxChain

\* Different members of a finite set are at most as many as it has.
LEMMA InjectiveIsShort ==
  ASSUME NEW S, IsFiniteSet(S), NEW c \in Seq(S), IsInjective(c)
  PROVE  Len(c) <= Cardinality(S)
<1>1. Len(c) \in Nat /\ c \in [1..Len(c) -> S]
  OBVIOUS
<1>2. c \in Injection(1..Len(c), S)
  BY <1>1 DEF Injection, IsInjective
<1>3. Cardinality(1..Len(c)) = Len(c)
  BY <1>1, FS_Interval
<1> QED
  BY <1>2, <1>3, FS_Injection

LEMMA OnlyOne ==
  ASSUME NEW S, IsFiniteSet(S), Cardinality(S) = 1
  PROVE  \E x : S = {x}
BY FS_Singleton

LEMMA OneElement ==
  ASSUME NEW S, NEW x \in S
  PROVE  <<x>> \in Seq(S) /\ Len(<<x>>) = 1 /\ <<x>>[1] = x /\ <<x>> # <<>> /\ DOMAIN <<x>> = {1}
OBVIOUS

\* A turn of the loop that does not give up keeps the chain one, and ends it at
\* a bottom or adds a pull.
LEMMA TurnKeepsChain ==
  ASSUME NEW l, IsFiniteSet(l.open), l.open \subseteq Nat, NEW start, NEW marked, NEW end, NEW c,
         ChainUpTo(l, start, marked, end, c), Descends(l, start, marked, c) # Unresolved
  PROVE  /\ ChainUpTo(l, start, marked, end, Descends(l, start, marked, c))
         /\ \/ Bottom(l, start, marked, c[1]) /\ Descends(l, start, marked, c) = c
            \/ Len(Descends(l, start, marked, c)) = Len(c) + 1
<1>1. c # Unresolved /\ Head(c) = c[1] /\ Len(c) \in Nat \ {0} /\ c \in Seq(l.open)
  BY DEF ChainUpTo, Unresolved
<1>2. CASE Bottom(l, start, marked, c[1])
  BY <1>1, <1>2 DEF Descends
<1>3. CASE ~Bottom(l, start, marked, c[1])
  <2> DEFINE below == Below(l, c[1])
             next == CHOOSE q \in below : \A r \in below : q <= r
             d == <<next>> \o c
  <2>1. /\ Descends(l, start, marked, c) = d /\ Cardinality(below) = 1 /\ next \notin ToSet(c)
        /\ ~(Len(c) >= MaxChain)
    BY <1>1, <1>3 DEF Descends, OneBelow
  <2>2. below \subseteq l.open /\ IsFiniteSet(below)
    BY FS_Subset DEF Below
  <2>3. PICK q : below = {q}
    BY <2>1, <2>2, OnlyOne
  <2>4. next = q /\ q \in l.open
    <3>1. q \in Nat /\ q \in l.open
      BY <2>2, <2>3
    <3> QED
      BY <2>3, <3>1
  <2> HIDE DEF below, next
  <2>5. /\ d \in Seq(l.open) /\ Len(d) = Len(c) + 1 /\ d[1] = next
        /\ \A i \in 1..Len(c) : d[i + 1] = c[i]
    <3> DEFINE b == <<next>>
    <3>1. next \in l.open
      BY <2>4
    <3>2. b \in Seq(l.open) /\ Len(b) = 1 /\ b[1] = next
      BY <3>1, OneElement
    <3> HIDE DEF b
    <3>3. d = b \o c
      BY DEF b
    <3>4. /\ d \in Seq(l.open) /\ Len(d) = Len(b) + Len(c)
          /\ \A i \in 1..(Len(b) + Len(c)) : d[i] = IF i <= Len(b) THEN b[i] ELSE c[i - Len(b)]
      BY <1>1, <3>2, <3>3, ConcatProperties
    <3> HIDE DEF d
    <3> QED
      BY <1>1, <3>2, <3>4
  <2> HIDE DEF d
  <2>6. \A i \in 2..Len(d) : i - 1 \in 1..Len(c) /\ d[i] = c[i - 1]
    <3> SUFFICES ASSUME NEW i \in 2..Len(d) PROVE i - 1 \in 1..Len(c) /\ d[i] = c[i - 1]
      OBVIOUS
    <3>1. i - 1 \in 1..Len(c) /\ (i - 1) + 1 = i
      BY <1>1, <2>5
    <3> QED
      BY <2>5, <3>1
  <2>7. IsInjective(d)
    <3>1. \A i \in 1..Len(c) : c[i] # next
      BY <2>1, <1>1 DEF ToSet
    <3>2. ASSUME NEW i \in 1..Len(d), NEW k \in 1..Len(d), d[i] = d[k] PROVE i = k
      <4>1. i = 1 \/ i \in 2..Len(d)
        BY <1>1, <2>5
      <4>2. k = 1 \/ k \in 2..Len(d)
        BY <1>1, <2>5
      <4>3. CASE i \in 2..Len(d) /\ k \in 2..Len(d)
        <5>1. i - 1 \in DOMAIN c /\ k - 1 \in DOMAIN c /\ c[i - 1] = c[k - 1]
          BY <1>1, <2>6, <3>2, <4>3
        <5>2. i - 1 = k - 1
          BY <5>1 DEF ChainUpTo, IsInjective
        <5> QED
          BY <5>2, <4>3
      <4> QED
        BY <2>5, <2>6, <3>1, <3>2, <4>1, <4>2, <4>3
    <3>3. DOMAIN d = 1..Len(d)
      BY <2>5
    <3> QED
      BY <3>2, <3>3 DEF IsInjective
  <2>8. d[Len(d)] = end
    BY <1>1, <2>5, <2>6 DEF ChainUpTo
  <2>9. ASSUME NEW i \in 2..Len(d) PROVE ~Bottom(l, start, marked, d[i]) /\ Below(l, d[i]) = {d[i - 1]}
    <3>1. CASE i = 2
      <4>1. d[2] = c[1] /\ d[i - 1] = q
        BY <2>4, <2>5, <2>6, <1>1, <3>1
      <4> QED
        BY <4>1, <1>3, <2>3, <3>1 DEF below
    <3>2. CASE i # 2
      <4>1. i - 1 \in 2..Len(c) /\ d[i] = c[i - 1]
        BY <1>1, <2>5, <2>6, <3>2
      <4>2. i - 1 \in 2..Len(d) /\ d[i - 1] = c[(i - 1) - 1]
        <5>1. i - 1 \in 2..Len(d)
          BY <1>1, <2>5, <4>1
        <5> QED
          BY <2>6, <5>1
      <4> QED
        BY <4>1, <4>2 DEF ChainUpTo
    <3> QED
      BY <3>1, <3>2
  <2>10. d # <<>> /\ Len(d) <= MaxChain
    BY <1>1, <2>1, <2>5 DEF MaxChain
  <2>11. ChainUpTo(l, start, marked, end, d)
    BY <2>5, <2>7, <2>8, <2>9, <2>10 DEF ChainUpTo
  <2> QED
    BY <2>1, <2>5, <2>11
<1> QED
  BY <1>2, <1>3

\* A walk that ends with a chain ends at its bottom.
LEMMA WalkIsChain ==
  ASSUME NEW l, IsFiniteSet(l.open), l.open \subseteq Nat, NEW start, NEW marked, NEW end \in l.open,
         Walk(l, start, marked, end) # Unresolved
  PROVE  /\ ChainUpTo(l, start, marked, end, Walk(l, start, marked, end))
         /\ Bottom(l, start, marked, Walk(l, start, marked, end)[1])
<1> DEFINE N == Cardinality(l.open)
<1>1. N \in Nat
  BY FS_CardinalityType
<1> HIDE DEF N
<1>2. PICK f : /\ Walk(l, start, marked, end) = f[N] /\ f[0] = <<end>>
               /\ \A k \in 1..N : f[k] = Descends(l, start, marked, f[k - 1])
  <2>1. PICK f : IsWalk(l, start, marked, end, f)
    BY <1>1, WalkUnfolds DEF N
  <2> QED
    BY <2>1 DEF N, IsWalk
<1> DEFINE Good(k) == \/ f[k] = Unresolved
                      \/ /\ ChainUpTo(l, start, marked, end, f[k])
                         /\ Bottom(l, start, marked, f[k][1]) \/ Len(f[k]) = k + 1
           Bad == {k \in 0..N : ~Good(k)}
<1>3. Good(0)
  <2> DEFINE c == <<end>>
  <2>1. c \in Seq(l.open) /\ Len(c) = 1 /\ c[1] = end /\ c # <<>> /\ DOMAIN c = {1}
    BY OneElement
  <2> HIDE DEF c
  <2>2. ChainUpTo(l, start, marked, end, c)
    BY <2>1 DEF ChainUpTo, IsInjective, MaxChain
  <2> QED
    BY <1>2, <2>1, <2>2 DEF c
<1>4. Bad = {}
  <2> SUFFICES ASSUME Bad # {} PROVE FALSE
    OBVIOUS
  <2>1. Bad \subseteq Nat
    BY <1>1
  <2>2. PICK k \in Bad : \A j \in Bad : k <= j
    BY <2>1, LeastNumber
  <2> HIDE DEF Good
  <2>3. k \in 1..N /\ k - 1 \in 0..N /\ k - 1 \notin Bad
    <3>1. k \in 0..N /\ k # 0
      BY <1>3, <2>2
    <3>2. k \in 1..N /\ k - 1 \in 0..N /\ ~(k <= k - 1)
      BY <1>1, <3>1
    <3> QED
      BY <2>2, <3>2
  <2> USE DEF Good
  <2>4. Good(k - 1) /\ f[k] = Descends(l, start, marked, f[k - 1])
    BY <1>2, <2>3
  <2>5. CASE f[k - 1] = Unresolved
    <3>1. f[k] = Unresolved
      BY <2>4, <2>5 DEF Descends
    <3> QED
      BY <2>2, <3>1
  <2>6. CASE f[k] # Unresolved /\ f[k - 1] # Unresolved
    <3> DEFINE c == f[k - 1]
    <3>1. /\ ChainUpTo(l, start, marked, end, c)
          /\ Bottom(l, start, marked, c[1]) \/ Len(c) = (k - 1) + 1
      BY <2>4, <2>6
    <3>2. /\ ChainUpTo(l, start, marked, end, f[k])
          /\ \/ Bottom(l, start, marked, c[1]) /\ f[k] = c
             \/ Len(f[k]) = Len(c) + 1
      BY <2>4, <2>6, <3>1, TurnKeepsChain
    <3>3. CASE Bottom(l, start, marked, c[1]) /\ f[k] # c
      <4>1. Descends(l, start, marked, c) = c
        BY <3>1, <3>3 DEF Descends, ChainUpTo
      <4> QED
        BY <2>4, <3>3, <4>1
    <3>4. CASE Bottom(l, start, marked, c[1]) /\ f[k] = c
      BY <2>2, <3>2, <3>4
    <3>5. CASE ~Bottom(l, start, marked, c[1])
      <4>1. Len(f[k]) = k + 1
        BY <2>3, <3>1, <3>2, <3>5
      <4> QED
        BY <2>2, <3>2, <4>1
    <3> QED
      BY <3>3, <3>4, <3>5
  <2> QED
    BY <2>2, <2>5, <2>6
<1>5. /\ ChainUpTo(l, start, marked, end, f[N])
      /\ Bottom(l, start, marked, f[N][1]) \/ Len(f[N]) = N + 1
  <2>1. N \in 0..N
    BY <1>1
  <2>2. Good(N)
    BY <1>4, <2>1
  <2> QED
    BY <1>2, <2>2
<1>6. Len(f[N]) <= N
  BY <1>5, InjectiveIsShort DEF ChainUpTo, N
<1> QED
  BY <1>1, <1>2, <1>5, <1>6

\* The last n pulls of a stack.
LastPulls(d, n) == SubSeq(d, Len(d) - n + 1, Len(d))

LEMMA UpperPart ==
  ASSUME NEW S, NEW d \in Seq(S), NEW i \in 1..Len(d)
  PROVE  /\ SubSeq(d, i, Len(d)) \in Seq(S) /\ Len(SubSeq(d, i, Len(d))) = Len(d) - i + 1
         /\ \A k \in 1..(Len(d) - i + 1) : SubSeq(d, i, Len(d))[k] = d[i + k - 1]
<1>1. Len(d) \in Int /\ i \in Int /\ i <= Len(d) /\ \A k \in i..Len(d) : d[k] \in S
  OBVIOUS
<1> QED
  BY <1>1, SubSeqProperties

LEMMA Places ==
  ASSUME NEW m \in Nat, NEW n \in 1..m, NEW k \in 1..n
  PROVE  (m - n + 1) + k - 1 \in 1..m /\ (m - n + 1) + k - 1 # (m - n + 1) - 1
OBVIOUS

\* From the upper part of a stack the loop descends to the next pull of it, and
\* at its bottom it stays.
LEMMA TurnFollowsStack ==
  ASSUME NEW l, IsFiniteSet(l.open), l.open \subseteq Nat, NEW start, NEW marked, NEW end,
         NEW d \in Seq(l.open), IsStackOf(l, start, marked, end, d), NEW n \in 1..Len(d)
  PROVE  Descends(l, start, marked, LastPulls(d, n)) = LastPulls(d, IF n < Len(d) THEN n + 1 ELSE n)
<1> DEFINE c == LastPulls(d, n)
           i == Len(d) - n + 1
<1>1. i \in 1..Len(d) /\ Len(d) \in Nat
  OBVIOUS
<1>2. /\ c \in Seq(l.open) /\ Len(c) = n /\ c # <<>> /\ Head(c) = d[i]
      /\ \A k \in 1..n : c[k] = d[i + k - 1]
  <2>1. /\ c \in Seq(l.open) /\ Len(c) = n
        /\ \A k \in 1..n : c[k] = d[i + k - 1]
    <3>1. i <= Len(d) /\ Len(d) - i + 1 = n
      BY <1>1
    <3>2. c = SubSeq(d, i, Len(d))
      BY DEF LastPulls
    <3> HIDE DEF c, i
    <3> QED
      BY <1>1, <3>1, <3>2, UpperPart
  <2> HIDE DEF c
  <2>2. c[1] = d[i + 1 - 1] /\ i + 1 - 1 = i
    BY <1>1, <2>1
  <2>3. c # <<>> /\ Head(c) = c[1]
    BY <2>1
  <2> HIDE DEF i
  <2> QED
    BY <2>1, <2>2, <2>3
<1>3. CASE n = Len(d)
  <2>1. i = 1
    BY <1>1, <1>3
  <2>2. Bottom(l, start, marked, d[1])
    BY DEF IsStackOf, Bottom
  <2> QED
    BY <1>2, <1>3, <2>1, <2>2 DEF Descends
<1>4. CASE n < Len(d)
  <2>1. i \in 2..Len(d) /\ i - 1 \in 1..Len(d)
    BY <1>1, <1>4
  <2>2. Below(l, d[i]) = {d[i - 1]} /\ ~Bottom(l, start, marked, d[i])
    BY <2>1 DEF IsStackOf, Bottom
  <2> DEFINE q == d[i - 1]
             next == CHOOSE p \in Below(l, d[i]) : \A r \in Below(l, d[i]) : p <= r
  <2>3. next = q
    <3>1. q \in Nat
      BY <2>1
    <3> HIDE DEF q
    <3>2. Below(l, d[i]) = {q}
      BY <2>2 DEF q
    <3>3. q <= q
      BY <3>1
    <3> HIDE DEF i
    <3>4. \A p \in Below(l, d[i]) : p = q
      BY <3>2
    <3>5. next \in Below(l, d[i])
      BY <3>2, <3>3
    <3> QED
      BY <3>4, <3>5
  <2>4. Cardinality({q}) = 1
    BY FS_Singleton
  <2>5. q \notin ToSet(c)
    <3> SUFFICES ASSUME q \in ToSet(c) PROVE FALSE
      OBVIOUS
    <3>1. PICK k \in 1..n : c[k] = q
      BY <1>2 DEF ToSet
    <3>2. i + k - 1 \in 1..Len(d) /\ i + k - 1 # i - 1
      BY <1>1, Places
    <3>3. d[i + k - 1] = d[i - 1]
      BY <1>2, <3>1
    <3> QED
      BY <2>1, <3>2, <3>3 DEF IsStackOf, IsInjective
  <2>6. Descends(l, start, marked, c) = <<q>> \o c
    <3> HIDE DEF c, q, i
    <3>1. OneBelow(l, c)
      BY <1>2, <2>2, <2>4 DEF OneBelow, q
    <3>2. ~(Len(c) >= MaxChain)
      <4>1. Len(d) \in 2..MaxChain
        BY DEF IsStackOf
      <4>2. Len(d) \in Nat /\ n \in Nat /\ n <= Len(d)
        OBVIOUS
      <4>3. Len(d) <= MaxChain
        BY <4>1, <4>2, ChainLength
      <4> QED
        BY <1>2, <1>4, <4>2, <4>3, ChainLength
    <3> QED
      BY <3>1, <3>2, <1>2, <2>2, <2>3, <2>5 DEF Descends, Unresolved
  <2>7. <<q>> \o c = LastPulls(d, n + 1)
    <3> DEFINE j == i - 1
    <3>1. j \in 1..Len(d) /\ Len(d) \in j..Len(d) /\ j + 1 = i /\ Len(d) - (n + 1) + 1 = j
      BY <1>1, <2>1
    <3>2. SubSeq(d, j, Len(d)) = <<d[j]>> \o SubSeq(d, j + 1, Len(d))
      BY <3>1, SubSeqRecursiveFirst
    <3> QED
      BY <3>1, <3>2 DEF LastPulls
  <2> QED
    BY <1>4, <2>6, <2>7
<1> QED
  BY <1>3, <1>4

\* A walk from the end of a stack finds the stack.
LEMMA WalkFindsStack ==
  ASSUME NEW l, IsFiniteSet(l.open), l.open \subseteq Nat, NEW start, NEW marked, NEW end,
         NEW d \in Seq(l.open), IsStackOf(l, start, marked, end, d)
  PROVE  Walk(l, start, marked, end) = d
<1> DEFINE N == Cardinality(l.open)
           m == Len(d)
           Found(k) == IF k < m THEN k + 1 ELSE m
<1>1. N \in Nat /\ m \in Nat /\ m > 1 /\ m <= N /\ d[m] = end
  <2>1. IsInjective(d) /\ Len(d) > 1 /\ Last(d) = end
    BY DEF IsStackOf
  <2> QED
    BY <2>1, FS_CardinalityType, InjectiveIsShort DEF Last
<1> HIDE DEF N, m
<1>2. PICK f : /\ Walk(l, start, marked, end) = f[N] /\ f[0] = <<end>>
               /\ \A k \in 1..N : f[k] = Descends(l, start, marked, f[k - 1])
  <2>1. PICK f : IsWalk(l, start, marked, end, f)
    BY <1>1, WalkUnfolds DEF N
  <2> QED
    BY <2>1 DEF N, IsWalk
<1> DEFINE Bad == {k \in 0..N : f[k] # LastPulls(d, Found(k))}
<1>3. f[0] = LastPulls(d, Found(0))
  <2>1. Found(0) = 1 /\ Len(d) - 1 + 1 = m /\ m \in 1..Len(d) /\ m \in m..Len(d) /\ Len(d) = m
    BY <1>1 DEF m
  <2>2. SubSeq(d, m, m) = <<d[m]>> \o SubSeq(d, m + 1, m)
    BY <2>1, SubSeqRecursiveFirst
  <2>3. SubSeq(d, m + 1, m) = <<>>
    BY <1>1, SubSeqEmpty
  <2>4. <<end>> \o <<>> = <<end>>
    <3>1. end \in l.open
      BY <1>1, <2>1
    <3> QED
      BY <3>1, OneElement, ConcatEmptySeq
  <2>5. LastPulls(d, 1) = SubSeq(d, m, m)
    BY <2>1 DEF LastPulls
  <2> QED
    BY <1>1, <1>2, <2>1, <2>2, <2>3, <2>4, <2>5
<1>4. Bad = {}
  <2> SUFFICES ASSUME Bad # {} PROVE FALSE
    OBVIOUS
  <2>1. Bad \subseteq Nat
    BY <1>1
  <2>2. PICK k \in Bad : \A j \in Bad : k <= j
    BY <2>1, LeastNumber
  <2> HIDE DEF Found
  <2>3. k \in 1..N /\ k - 1 \in 0..N /\ k - 1 \notin Bad
    <3>1. k \in 0..N /\ k # 0
      BY <1>3, <2>2
    <3>2. k \in 1..N /\ k - 1 \in 0..N /\ ~(k <= k - 1)
      BY <1>1, <3>1
    <3> QED
      BY <2>2, <3>2
  <2>4. f[k - 1] = LastPulls(d, Found(k - 1)) /\ f[k] = Descends(l, start, marked, f[k - 1])
    BY <1>2, <2>3
  <2>5. /\ Found(k - 1) \in 1..Len(d)
        /\ Found(k) = IF Found(k - 1) < Len(d) THEN Found(k - 1) + 1 ELSE Found(k - 1)
    BY <1>1, <2>3 DEF Found, m
  <2>6. f[k] = LastPulls(d, Found(k))
    BY <2>4, <2>5, TurnFollowsStack
  <2> QED
    BY <2>2, <2>6
<1>5. N \in 0..N /\ Found(N) = m
  BY <1>1
<1>6. f[N] = LastPulls(d, m)
  BY <1>4, <1>5
<1>7. LastPulls(d, m) = d
  <2>1. Len(d) - m + 1 = 1
    BY <1>1 DEF m
  <2> QED
    BY <2>1, SubSeqFull DEF LastPulls
<1> QED
  BY <1>2, <1>6, <1>7

\* "Fail-closed on every ambiguity: a missing link, a fork in the chain, a
\* cycle, or a walk that never reaches the start" (commands.ts:184-187): over any
\* layout of any number of open pulls, the resolution is a stack, and it finds
\* nothing only where nothing is one.
THEOREM ResolutionIsTheStack ==
  ASSUME NEW l, IsFiniteSet(l.open), l.open \subseteq Nat \ {0},
         \A p \in l.open : SameRepo(l, p) => l.base[p] # l.head[p],
         NEW start, NEW marked, NEW end, NEW candidates, \A d \in candidates : \E S : d \in Seq(S)
  PROVE  FindsStackIn(l, start, marked, end, candidates)
<1> DEFINE c == ResolveStackChain(l, start, marked, end)
<1>1. CASE c # Unresolved
  <2>1. /\ end \in l.open /\ Above(l, end) = {}
        /\ start # 0 => start \in l.open /\ Below(l, start) \ {start} = {}
        /\ c = Walk(l, start, marked, end) /\ ~(Len(c) < 2)
    BY <1>1 DEF ResolveStackChain
  <2> HIDE DEF c
  <2>2. ChainUpTo(l, start, marked, end, c) /\ Bottom(l, start, marked, c[1])
    BY <1>1, <2>1, WalkIsChain
  <2>3. c \in Seq(l.open) /\ Len(c) \in 2..MaxChain /\ IsInjective(c) /\ Last(c) = end
    <3>1. c \in Seq(l.open) /\ Len(c) <= MaxChain /\ IsInjective(c) /\ Last(c) = end
      BY <2>2 DEF ChainUpTo, Last
    <3>2. Len(c) \in Nat /\ ~(Len(c) < 2)
      BY <2>1, <3>1
    <3>3. Len(c) \in 2..MaxChain
      <4>1. Len(c) > 1
        BY <3>2
      <4> QED
        BY <3>1, <3>2, <4>1, ChainLength
    <3> QED
      BY <3>1, <3>3
  <2>4. ToSet(c) \subseteq l.open /\ c[1] \in l.open
    BY <2>3 DEF ToSet
  <2>5. \A i \in 2..Len(c) :
          /\ c[i] # start /\ (start = 0 => c[i] \notin marked)
          /\ Below(l, c[i]) = {c[i - 1]}
    BY <2>2 DEF ChainUpTo, Bottom
  <2>6. IF start # 0 THEN c[1] = start /\ Below(l, start) = {} ELSE c[1] \in marked \/ Below(l, c[1]) = {}
    <3>1. start # 0 => start \notin Below(l, start)
      BY <2>1 DEF Below
    <3> QED
      BY <2>1, <2>2, <2>4, <3>1 DEF Bottom
  <2>7. IsStackOf(l, start, marked, end, c)
    BY <2>1, <2>3, <2>4, <2>5, <2>6 DEF IsStackOf
  <2> QED
    BY <1>1, <2>7 DEF FindsStackIn, c
<1>2. CASE c = Unresolved
  <2>1. ASSUME NEW d \in candidates, IsStackOf(l, start, marked, end, d) PROVE FALSE
    <3>1. PICK S : d \in Seq(S)
      OBVIOUS
    <3>2. d \in Seq(l.open)
      BY <2>1, <3>1 DEF IsStackOf, ToSet
    <3>3. Walk(l, start, marked, end) = d
      BY <2>1, <3>2, WalkFindsStack
    <3>4. /\ Len(d) > 1 /\ d[Len(d)] = end /\ end \in l.open /\ Above(l, end) = {}
          /\ start # 0 => start \in l.open /\ start # end /\ Below(l, start) = {}
      <4>1. /\ Len(d) > 1 /\ Last(d) = end /\ Above(l, end) = {} /\ IsInjective(d)
            /\ start # 0 => d[1] = start /\ Below(l, start) = {}
        BY <2>1 DEF IsStackOf
      <4>2. 1 \in DOMAIN d /\ Len(d) \in DOMAIN d /\ 1 # Len(d)
        BY <3>2, <4>1
      <4>3. d[1] \in l.open /\ d[Len(d)] \in l.open /\ d[1] # d[Len(d)]
        BY <3>2, <4>1, <4>2 DEF IsInjective
      <4> QED
        BY <4>1, <4>3 DEF Last
    <3>5. c = d
      BY <3>2, <3>3, <3>4 DEF ResolveStackChain
    <3> QED
      BY <1>2, <3>2, <3>4, <3>5 DEF Unresolved
  <2> QED
    BY <1>2, <2>1 DEF FindsStackIn
<1> QED
  BY <1>1, <1>2
-----------------------------------------------------------------------------
(* What a filter leaves *)

\* The numbers of a finite set, from the least: each once, and all of them.
Ordering(I, g) ==
  /\ g \in [1..Cardinality(I) -> I] /\ IsInjective(g)
  /\ \A m, n \in 1..Cardinality(I) : m < n => g[m] < g[n]
  /\ \A i \in I : \E n \in 1..Cardinality(I) : g[n] = i

LEMMA InOrderOrders ==
  ASSUME NEW kept, IsFiniteSet(kept), kept \subseteq Nat
  PROVE  Ordering(kept, InOrder(kept))
<1> DEFINE upto(i)  == {k \in kept : k <= i}
           c        == Cardinality(kept)
           rank     == [i \in kept |-> Cardinality(upto(i))]
           g        == [n \in 1..c |-> CHOOSE i \in kept : Cardinality(upto(i)) = n]
<1>1. IsFiniteSet(kept) /\ c \in Nat /\ (\A i \in kept : i \in Nat)
  BY FS_CardinalityType
<1>2. \A i \in kept : IsFiniteSet(upto(i)) /\ Cardinality(upto(i)) \in 1..c
  <2> TAKE i \in kept
  <2>1. IsFiniteSet(upto(i)) /\ Cardinality(upto(i)) <= c
    BY <1>1, FS_Subset
  <2>2. i \in upto(i)
    BY <1>1
  <2>3. Cardinality(upto(i)) \in Nat /\ Cardinality(upto(i)) # 0
    BY <2>1, <2>2, FS_CardinalityType, FS_EmptySet
  <2> QED
    BY <1>1, <2>1, <2>3
<1>3. \A i, k \in kept : i < k => Cardinality(upto(i)) < Cardinality(upto(k))
  <2> SUFFICES ASSUME NEW i \in kept, NEW k \in kept, i < k
               PROVE  Cardinality(upto(i)) < Cardinality(upto(k))
    OBVIOUS
  <2>1. upto(i) \subseteq upto(k) /\ k \in upto(k) /\ k \notin upto(i)
    <3>1. i \in Nat /\ k \in Nat /\ k <= k /\ ~(k <= i) /\ \A j \in Nat : j <= i => j <= k
      BY <1>1
    <3> QED
      BY <1>1, <3>1
  <2>2. Cardinality(upto(i)) <= Cardinality(upto(k)) /\ Cardinality(upto(i)) # Cardinality(upto(k))
    BY <1>2, <2>1, FS_Subset
  <2> HIDE DEF upto
  <2>3. Cardinality(upto(i)) \in Nat /\ Cardinality(upto(k)) \in Nat
    BY <1>1, <1>2
  <2> QED
    BY <2>2, <2>3
<1>4. \A n \in 1..c : \E i \in kept : Cardinality(upto(i)) = n
  <2>1. rank \in [kept -> 1..c]
    BY <1>2
  <2>2. ASSUME NEW i \in kept, NEW k \in kept, rank[i] = rank[k]
        PROVE  i = k
    <3> HIDE DEF upto
    <3>1. Cardinality(upto(i)) = Cardinality(upto(k)) /\ Cardinality(upto(i)) \in 1..c
      BY <1>2, <2>2
    <3>2. ~(i < k) /\ ~(k < i)
      BY <1>1, <1>3, <3>1
    <3> QED
      BY <1>1, <3>2
  <2>3. rank \in Injection(kept, 1..c)
    BY <2>1, <2>2, Fun_IsInj
  <2>4. IsFiniteSet(1..c) /\ Cardinality(1..c) = c
    BY <1>1, FS_Interval
  <2>5. rank \in Surjection(kept, 1..c)
    BY <2>3, <2>4, FS_Injection
  <2>6. \A n \in 1..c : \E i \in kept : rank[i] = n
    <3> HIDE DEF rank
    <3> QED
      BY <2>5, Fun_SurjectionProperties
  <2> QED
    BY <2>6
<1>5. \A n \in 1..c : g[n] \in kept /\ Cardinality(upto(g[n])) = n
  BY <1>4
<1>6. g \in [1..c -> kept]
  BY <1>5
<1>7. \A m, n \in 1..c : m < n => g[m] < g[n]
  <2> SUFFICES ASSUME NEW m \in 1..c, NEW n \in 1..c, m < n, ~(g[m] < g[n])
               PROVE  FALSE
    OBVIOUS
  <2>1. g[m] \in kept /\ g[n] \in kept /\ Cardinality(upto(g[m])) = m /\ Cardinality(upto(g[n])) = n
    BY <1>5
  <2> HIDE DEF g, upto
  <2>2. g[m] \in Nat /\ g[n] \in Nat
    BY <1>1, <2>1
  <2>3. g[n] = g[m] \/ g[n] < g[m]
    BY <2>2
  <2>4. n <= m
    <3>1. n \in Nat /\ m \in Nat
      BY <1>1
    <3>2. CASE g[n] = g[m]
      BY <2>1, <3>1, <3>2
    <3>3. CASE g[n] < g[m]
      <4>1. Cardinality(upto(g[n])) < Cardinality(upto(g[m]))
        BY <1>3, <2>1, <3>3
      <4> QED
        BY <2>1, <3>1, <4>1
    <3> QED
      BY <2>3, <3>2, <3>3
  <2> QED
    BY <1>1, <2>4
<1>8. IsInjective(g)
  BY <1>5, <1>6 DEF IsInjective
<1>9. \A i \in kept : \E n \in 1..c : g[n] = i
  <2> SUFFICES ASSUME NEW i \in kept PROVE \E n \in 1..c : g[n] = i
    OBVIOUS
  <2> DEFINE n == Cardinality(upto(i))
  <2>1. n \in 1..c /\ g[n] \in kept /\ Cardinality(upto(g[n])) = n
    BY <1>2, <1>5
  <2> HIDE DEF g, upto
  <2>2. ~(g[n] < i) /\ ~(i < g[n])
    <3>1. n \in Nat /\ ~(n < n)
      BY <2>1, <1>1
    <3>2. g[n] < i => Cardinality(upto(g[n])) < n
      BY <1>3, <2>1
    <3>3. i < g[n] => n < Cardinality(upto(g[n]))
      BY <1>3, <2>1
    <3> QED
      BY <2>1, <3>1, <3>2, <3>3
  <2>3. g[n] = i
    <3>1. g[n] \in Nat /\ i \in Nat
      BY <1>1, <2>1
    <3> QED
      BY <2>2, <3>1
  <2> QED
    BY <2>1, <2>3
<1>10. InOrder(kept) = g
  BY DEF InOrder
<1> QED
  BY <1>6, <1>7, <1>8, <1>9, <1>10 DEF Ordering

\* The first numbers, in order, are themselves.
LEMMA FirstNumbersInOrder ==
  ASSUME NEW c \in Nat
  PROVE  InOrder(1..c) = [k \in 1..c |-> k]
<1> DEFINE g == InOrder(1..c)
<1>1. Cardinality(1..c) = c /\ IsFiniteSet(1..c)
  BY FS_Interval
<1>2. Ordering(1..c, g)
  BY <1>1, InOrderOrders
<1> HIDE DEF g
<1>3. /\ g \in [1..c -> 1..c] /\ \A m, n \in 1..c : m < n => g[m] < g[n]
      /\ \A i \in 1..c : \E n \in 1..c : g[n] = i
  BY <1>1, <1>2 DEF Ordering
<1> DEFINE Bad == {k \in 1..c : g[k] # k}
<1>4. Bad = {}
  <2> SUFFICES ASSUME Bad # {} PROVE FALSE
    OBVIOUS
  <2>1. Bad \subseteq Nat
    OBVIOUS
  <2> HIDE DEF Bad
  <2>2. PICK k \in Bad : \A j \in Bad : k <= j
    BY <2>1, LeastNumber
  <2> USE DEF Bad
  <2>3. k \in 1..c /\ g[k] # k /\ \A j \in 1..c : j < k => g[j] = j
    BY <2>2
  <2>4. PICK n \in 1..c : g[n] = k
    BY <1>3, <2>3
  <2>5. CASE g[k] < k
    <3>1. g[k] \in 1..c /\ g[g[k]] = g[k] /\ g[g[k]] < g[k]
      BY <1>3, <2>3, <2>5
    <3> QED
      BY <3>1
  <2>6. CASE k < g[k]
    <3>1. n # k /\ ~(k < n)
      <4>1. k < n => g[k] < g[n]
        BY <1>3, <2>3
      <4>2. g[k] \in Nat /\ k \in Nat
        BY <1>3, <2>3
      <4> QED
        BY <2>3, <2>4, <2>6, <4>1, <4>2
    <3>2. n < k
      BY <2>3, <2>4, <3>1
    <3> QED
      BY <2>3, <2>4, <3>2
  <2> QED
    BY <1>3, <2>3, <2>5, <2>6
<1>5. \A k \in 1..c : g[k] = k
  BY <1>4
<1>6. g = [k \in 1..c |-> k]
  BY <1>3, <1>5
<1> QED
  BY <1>6 DEF g

\* What is kept of a list: a list of the members at those places, as many.
LEMMA KeptIsPart ==
  ASSUME NEW S, NEW s \in Seq(S), NEW I, I \subseteq DOMAIN s
  PROVE  /\ IsFiniteSet(I) /\ Cardinality(I) \in Nat
         /\ KeptAt(s, I) \in Seq(S) /\ Len(KeptAt(s, I)) = Cardinality(I)
         /\ ToSet(KeptAt(s, I)) = {s[i] : i \in I}
         /\ (I = {}) <=> (KeptAt(s, I) = <<>>)
         /\ (\A i, k \in I : s[i] = s[k] => i = k) => IsInjective(KeptAt(s, I))
<1> DEFINE c == Cardinality(I)
           g == InOrder(I)
           t == KeptAt(s, I)
<1>1. Len(s) \in Nat /\ DOMAIN s = 1..Len(s) /\ I \subseteq Nat
  OBVIOUS
<1>2. IsFiniteSet(I)
  <2>1. IsFiniteSet(1..Len(s))
    BY <1>1, FS_Interval
  <2> QED
    BY <1>1, <2>1, FS_Subset
<1>3. c \in Nat
  BY <1>2, FS_CardinalityType
<1>4. Ordering(I, g)
  BY <1>1, <1>2, InOrderOrders
<1>5. t = [k \in 1..c |-> s[g[k]]]
  BY DEF KeptAt
<1>6. c = 0 <=> I = {}
  BY <1>2, FS_EmptySet
<1> HIDE DEF c, g, t
<1>7. g \in [1..c -> I] /\ IsInjective(g) /\ \A i \in I : \E n \in 1..c : g[n] = i
  BY <1>4 DEF Ordering, c
<1>8. \A k \in 1..c : t[k] = s[g[k]] /\ g[k] \in I /\ s[g[k]] \in S
  BY <1>5, <1>7
<1>9. t \in Seq(S) /\ Len(t) = c /\ DOMAIN t = 1..c
  <2>1. t \in [1..c -> S]
    BY <1>5, <1>8
  <2> QED
    BY <1>3, <2>1
<1>10. ToSet(t) = {s[i] : i \in I}
  <2>1. ToSet(t) = {t[k] : k \in 1..c}
    BY <1>9 DEF ToSet
  <2>2. \A x \in ToSet(t) : \E i \in I : x = s[i]
    BY <1>8, <2>1
  <2>3. ASSUME NEW i \in I PROVE s[i] \in ToSet(t)
    <3>1. PICK n \in 1..c : g[n] = i
      BY <1>7
    <3> QED
      BY <1>8, <2>1, <3>1
  <2> QED
    BY <2>2, <2>3
<1>11. (I = {}) <=> (t = <<>>)
  BY <1>3, <1>6, <1>9
<1>12. (\A i, k \in I : s[i] = s[k] => i = k) => IsInjective(t)
  <2> SUFFICES ASSUME \A i, k \in I : s[i] = s[k] => i = k, NEW m \in 1..c, NEW n \in 1..c, t[m] = t[n]
               PROVE  m = n
    BY <1>9 DEF IsInjective
  <2>1. g[m] = g[n]
    BY <1>8
  <2>2. DOMAIN g = 1..c
    BY <1>7
  <2> QED
    BY <1>7, <2>1, <2>2 DEF IsInjective
<1> QED
  BY <1>2, <1>3, <1>9, <1>10, <1>11, <1>12 DEF c, t

LEMMA AmongIsPart ==
  ASSUME NEW T, NEW s \in Seq(T), NEW S
  PROVE  /\ Among(s, S) \in Seq(T) /\ ToSet(Among(s, S)) = ToSet(s) \cap S
         /\ IsInjective(s) => IsInjective(Among(s, S))
<1> DEFINE I == {i \in DOMAIN s : s[i] \in S}
<1>1. I \subseteq DOMAIN s /\ Among(s, S) = KeptAt(s, I) /\ {s[i] : i \in I} = ToSet(s) \cap S
  BY DEF Among, ToSet
<1>2. IsInjective(s) => \A i, k \in I : s[i] = s[k] => i = k
  BY DEF IsInjective
<1> HIDE DEF I
<1> QED
  BY <1>1, <1>2, KeptIsPart

\* A list kept whole is the list.
LEMMA KeptWhole ==
  ASSUME NEW S, NEW s \in Seq(S)
  PROVE  KeptAt(s, DOMAIN s) = s
<1>1. DOMAIN s = 1..Len(s) /\ Len(s) \in Nat
  OBVIOUS
<1>2. Cardinality(1..Len(s)) = Len(s)
  BY <1>1, FS_Interval
<1>3. InOrder(1..Len(s)) = [k \in 1..Len(s) |-> k]
  BY <1>1, FirstNumbersInOrder
<1>4. KeptAt(s, DOMAIN s) = [k \in 1..Len(s) |-> s[InOrder(1..Len(s))[k]]]
  BY <1>1, <1>2 DEF KeptAt
<1>5. KeptAt(s, DOMAIN s) = [k \in 1..Len(s) |-> s[k]]
  BY <1>3, <1>4
<1> QED
  BY <1>1, <1>5
-----------------------------------------------------------------------------
(* Stack commands *)

\* A request knows the stack it was given for, unless that is bare; what it
\* will read as its pull is one, and so are the pulls it has listed.
RequestOf(r, wanted) ==
  /\ DOMAIN r = DOMAIN Free
  /\ r.at \in {"free", "list", "resolve", "read", "find", "edit", "create"}
  /\ r.at \in {"list", "resolve", "read"} => r.stack \in Stacks /\ r.pull \in Pulls /\ (r.bare \/ r.stack \in wanted)
  /\ r.at = "resolve" => r.seen.open \subseteq Pulls
  /\ r.at = "read" => ~r.bare /\ r.list \in Seq(Pulls) /\ IsInjective(r.list)

LayoutSound ==
  /\ layout.open \subseteq Pulls /\ layout.base \in [Pulls -> Branches]
  /\ layout = LayoutOf(layout.open, layout.base) /\ \A p \in Pulls \ Forked : layout.base[p] # HeadOf[p]

RowsSound ==
  /\ \A d \in declared : d.stack \in Stacks /\ d.pull \in Pulls /\ d.position <= d.of
  /\ PositionsDistinct

RunsSound ==
  /\ lastRun \in [Stacks -> Seq(Pulls)] /\ \A s \in Stacks : IsInjective(lastRun[s])
  /\ RunsWereAsked

RequestsSound ==
  /\ DOMAIN awaiting = Requests /\ awaiting = [h \in Requests |-> awaiting[h]]
  /\ \A h \in Requests : RequestOf(awaiting[h], asked)

CommandsInv == LayoutSound /\ RowsSound /\ starts \in [Stacks -> Pulls \cup {0}] /\ RunsSound /\ RequestsSound

LEMMA Resting ==
  /\ \A wanted : RequestOf(Free, wanted)
  /\ \A s, pulls, wanted : RequestOf(Refreshing(s, pulls), wanted)
  /\ \A r, wanted, more : RequestOf(r, wanted) /\ wanted \subseteq more => RequestOf(r, more)
BY DEF RequestOf, Free, Refreshing

\* One request goes on, others stand, and what was asked for stays asked for.
LEMMA RequestGoesOn ==
  ASSUME CommandsInv, NEW h \in Requests, NEW r, Becomes(h, r), asked \subseteq asked', RequestOf(r, asked')
  PROVE  RequestsSound'
<1>1. awaiting' = [awaiting EXCEPT ![h] = r]
  BY DEF Becomes
<1>2. \A g \in Requests : awaiting'[g] = IF g = h THEN r ELSE awaiting[g]
  BY <1>1 DEF CommandsInv, RequestsSound
<1>3. DOMAIN awaiting' = Requests /\ awaiting' = [g \in Requests |-> awaiting'[g]]
  BY <1>1 DEF CommandsInv, RequestsSound
<1> QED
  BY <1>2, <1>3, Resting DEF CommandsInv, RequestsSound

LEMMA DeclareKeeps ==
  ASSUME CommandsInv, NEW h \in Requests, NEW s \in Stacks, NEW p \in Pulls, NEW i \in Nat, NEW n \in Nat,
         Declare(h, s, p, i, n)
  PROVE  CommandsInv'
<1>1. UNCHANGED <<layout, starts, lastRun, asked>>
  BY DEF Declare
<1>2. LayoutSound' /\ starts' \in [Stacks -> Pulls \cup {0}] /\ RunsSound'
  BY <1>1 DEF CommandsInv, LayoutSound, RunsSound, RunsWereAsked
<1>3. CASE Insertable(s, p, i)
  <2>1. declared' = declared \cup {Row(s, p, i, n)} /\ i <= n
    BY <1>3 DEF Declare
  <2>2. Row(s, p, i, n).stack = s /\ Row(s, p, i, n).pull = p /\ Row(s, p, i, n).position = i
        /\ Row(s, p, i, n).of = n
    BY DEF Row
  <2>3. \A d \in declared : d.stack = s => d.pull # p /\ d.position # i
    BY <1>3 DEF Insertable, AtPosition, Of
  <2>4. RowsSound'
    BY <2>1, <2>2, <2>3 DEF CommandsInv, RowsSound, PositionsDistinct
  <2>5. PICK pulls : Becomes(h, Refreshing(s, pulls))
    BY <1>3 DEF Declare
  <2>6. RequestsSound'
    BY <1>1, <2>5, Resting, RequestGoesOn
  <2> QED
    BY <1>2, <2>4, <2>6 DEF CommandsInv
<1>4. CASE ~Insertable(s, p, i)
  <2>1. UNCHANGED <<declared, awaiting>>
    BY <1>4 DEF Declare
  <2> QED
    BY <1>1, <1>2, <2>1 DEF CommandsInv, RowsSound, PositionsDistinct, RequestsSound
<1> QED
  BY <1>3, <1>4

LEMMA StartKeeps ==
  ASSUME CommandsInv, NEW h \in Requests, NEW s \in Stacks, NEW p \in Pulls, Start(h, s, p)
  PROVE  CommandsInv'
<1>1. UNCHANGED <<layout, declared, lastRun, asked>>
  BY DEF Start
<1>2. LayoutSound' /\ RowsSound' /\ RunsSound'
  BY <1>1 DEF CommandsInv, LayoutSound, RowsSound, PositionsDistinct, RunsSound, RunsWereAsked
<1>3. CASE starts[s] = 0
  <2>1. starts' = [starts EXCEPT ![s] = p] /\ Becomes(h, Refreshing(s, <<p>>))
    BY <1>3 DEF Start
  <2>2. RequestsSound'
    BY <1>1, <2>1, Resting, RequestGoesOn
  <2>3. starts' \in [Stacks -> Pulls \cup {0}]
    BY <2>1 DEF CommandsInv
  <2> QED
    BY <1>2, <2>2, <2>3 DEF CommandsInv
<1>4. CASE starts[s] # 0
  <2>1. UNCHANGED <<starts, awaiting>>
    BY <1>4 DEF Start
  <2> QED
    BY <1>1, <1>2, <2>1 DEF CommandsInv, RequestsSound
<1> QED
  BY <1>3, <1>4

\* What is kept where only the requests move.
LEMMA TablesStand ==
  ASSUME CommandsInv, UNCHANGED <<layout, declared, starts, lastRun>>, asked \subseteq asked', RequestsSound'
  PROVE  CommandsInv'
BY DEF CommandsInv, LayoutSound, RowsSound, PositionsDistinct, RunsSound, RunsWereAsked

LEMMA ListIsAwaited ==
  ASSUME CommandsInv, NEW h \in Requests, NEW s \in Stacks, NEW p \in Pulls, NEW end, NEW body, NEW bare,
         AwaitsList(h, s, p, end, body, bare), UNCHANGED <<layout, declared, starts, lastRun>>,
         asked \subseteq asked', bare \/ s \in asked'
  PROVE  CommandsInv'
<1> DEFINE r == [Free EXCEPT !.at = "list", !.stack = s, !.pull = p, !.end = end, !.body = body, !.bare = bare,
                             !.seen = layout]
<1>1. DOMAIN r = DOMAIN Free /\ r.at = "list" /\ r.stack = s /\ r.pull = p /\ r.bare = bare
  BY DEF Free
<1>2. Becomes(h, r)
  BY DEF AwaitsList
<1> HIDE DEF r
<1>3. RequestOf(r, asked')
  BY <1>1 DEF RequestOf
<1> QED
  BY <1>2, <1>3, RequestGoesOn, TablesStand

LEMMA EndKeeps ==
  ASSUME CommandsInv, NEW h \in Requests, NEW s \in Stacks, NEW p \in Pulls, NEW body, NEW bare \in BOOLEAN,
         End(h, s, p, body, bare)
  PROVE  CommandsInv'
<1>1. /\ AwaitsList(h, s, p, p, body, bare) /\ UNCHANGED <<layout, declared, starts, lastRun>>
      /\ asked' = IF bare THEN asked ELSE asked \cup {s}
  BY DEF End
<1>2. asked \subseteq asked' /\ (bare \/ s \in asked')
  BY <1>1
<1> QED
  BY <1>1, <1>2, ListIsAwaited

LEMMA BodyEventKeeps ==
  ASSUME CommandsInv, NEW h \in Requests, NEW s \in Stacks, NEW p \in Pulls, NEW lines, BodyEvent(h, s, p, lines)
  PROVE  CommandsInv'
<1>1. \/ \E bare \in BOOLEAN : End(h, s, p, TRUE, bare)
      \/ /\ Resumable(s, p) /\ AwaitsList(h, s, p, Last(PullsOf(Of(s))), TRUE, FALSE)
         /\ UNCHANGED <<layout, declared, starts, lastRun, asked>>
      \/ Start(h, s, p)
      \/ \E i, n \in 1..Cardinality(Pulls) : Declare(h, s, p, i, n)
  BY DEF BodyEvent
<1>2. CASE /\ Resumable(s, p) /\ AwaitsList(h, s, p, Last(PullsOf(Of(s))), TRUE, FALSE)
           /\ UNCHANGED <<layout, declared, starts, lastRun, asked>>
  <2>1. s \in asked'
    BY <1>2 DEF Resumable, HasStackReview, CommandsInv, RunsSound, RunsWereAsked
  <2> QED
    BY <1>2, <2>1, ListIsAwaited
<1>3. CASE \E i, n \in 1..Cardinality(Pulls) : Declare(h, s, p, i, n)
  <2>1. Cardinality(Pulls) \in Nat
    BY StackCommandsAssumption, FS_CardinalityType
  <2> QED
    BY <1>3, <2>1, DeclareKeeps
<1> QED
  BY <1>1, <1>2, <1>3, EndKeeps, StartKeeps

LEMMA ListsKeeps == ASSUME CommandsInv, NEW h \in Requests, ListsPulls(h) PROVE CommandsInv'
<1>1. UNCHANGED <<layout, declared, starts, lastRun, asked>> /\ awaiting[h].at = "list"
  BY DEF ListsPulls
<1>2. CASE Becomes(h, Free)
  BY <1>1, <1>2, Resting, RequestGoesOn, TablesStand
<1>3. CASE ~Becomes(h, Free)
  <2> DEFINE q == awaiting[h]
             open == layout.open \cup (IF q.body THEN {q.pull} ELSE {})
             seen == LayoutOf(open, [layout.base EXCEPT ![q.pull] = IF q.body THEN q.seen.base[q.pull] ELSE @])
             r == [q EXCEPT !.at = "resolve", !.seen = seen]
  <2>1. Becomes(h, r)
    BY <1>3 DEF ListsPulls
  <2>2. RequestOf(q, asked) /\ q.pull \in Pulls /\ layout.open \subseteq Pulls
    BY <1>1 DEF CommandsInv, RequestsSound, LayoutSound, RequestOf
  <2>3. seen.open = open /\ open \subseteq Pulls
    BY <2>2 DEF LayoutOf
  <2> HIDE DEF seen, open, q
  <2>4. DOMAIN r = DOMAIN Free /\ r.at = "resolve" /\ r.stack = q.stack /\ r.pull = q.pull /\ r.bare = q.bare
        /\ r.seen = seen
    <3>1. DOMAIN q = DOMAIN Free
      BY <2>2 DEF RequestOf
    <3> QED
      BY <3>1 DEF Free
  <2>5. q.at = "list"
    BY <1>1 DEF q
  <2> HIDE DEF r
  <2>6. RequestOf(r, asked)
    BY <2>2, <2>3, <2>4, <2>5 DEF RequestOf
  <2> QED
    BY <1>1, <2>1, <2>6, RequestGoesOn, TablesStand
<1> QED
  BY <1>2, <1>3

\* A chain that was resolved is of different open pulls.
LEMMA ResolvedChain ==
  ASSUME NEW l, IsFiniteSet(l.open), l.open \subseteq Nat, NEW start, NEW marked, NEW end,
         ResolveStackChain(l, start, marked, end) # Unresolved
  PROVE  LET c == ResolveStackChain(l, start, marked, end)
         IN  c \in Seq(l.open) /\ IsInjective(c) /\ Len(c) > 1
<1> DEFINE c == ResolveStackChain(l, start, marked, end)
<1>1. end \in l.open /\ c = Walk(l, start, marked, end) /\ ~(Len(c) < 2) /\ c # Unresolved
  BY DEF ResolveStackChain
<1> HIDE DEF c
<1>2. ChainUpTo(l, start, marked, end, c)
  BY <1>1, WalkIsChain
<1>3. c \in Seq(l.open) /\ IsInjective(c) /\ Len(c) > 1
  BY <1>1, <1>2 DEF ChainUpTo
<1> QED
  BY <1>3 DEF c

\* The members' run, or its refusal.
LEMMA EnqueueKeeps ==
  ASSUME CommandsInv, NEW h \in Requests, NEW s \in Stacks, NEW chain \in Seq(Pulls), IsInjective(chain), NEW r,
         Enqueues(h, s, chain, r), UNCHANGED <<layout, starts>>, RowsSound', asked \subseteq asked', s \in asked'
  PROVE  CommandsInv'
<1>1. RequestsSound'
  BY Resting, RequestGoesOn DEF Enqueues
<1>2. lastRun' = lastRun \/ lastRun' = [lastRun EXCEPT ![s] = chain]
  BY DEF Enqueues
<1>3. RunsSound'
  BY <1>2 DEF CommandsInv, RunsSound, RunsWereAsked
<1> QED
  BY <1>1, <1>3 DEF CommandsInv, LayoutSound

LEMMA ReconciledRows ==
  ASSUME RowsSound, NEW s \in Stacks, NEW chain \in Seq(Pulls), IsInjective(chain), declared' = Reconciled(s, chain)
  PROVE  RowsSound'
<1>1. ASSUME NEW d \in declared'
      PROVE  \/ d \in declared /\ d.stack # s
             \/ \E i \in 1..Len(chain) : d = Row(s, chain[i], i, Len(chain))
  BY DEF Reconciled
<1>2. \A i \in 1..Len(chain) :
        LET row == Row(s, chain[i], i, Len(chain))
        IN  row.stack = s /\ row.pull = chain[i] /\ row.position = i /\ row.of = Len(chain)
  BY DEF Row
<1>3. \A d \in declared' : d.stack \in Stacks /\ d.pull \in Pulls /\ d.position <= d.of
  <2> SUFFICES ASSUME NEW d \in declared' PROVE d.stack \in Stacks /\ d.pull \in Pulls /\ d.position <= d.of
    OBVIOUS
  <2>1. CASE d \in declared
    BY <2>1 DEF RowsSound
  <2>2. ASSUME NEW i \in 1..Len(chain), d = Row(s, chain[i], i, Len(chain))
        PROVE d.stack \in Stacks /\ d.pull \in Pulls /\ d.position <= d.of
    BY <1>2, <2>2
  <2> QED
    BY <1>1, <2>1, <2>2
<1>4. ASSUME NEW c \in declared', NEW d \in declared', c.stack = d.stack, c.pull = d.pull \/ c.position = d.position
      PROVE  c = d
  <2>1. CASE c.stack # s
    <3>1. c \in declared /\ d \in declared
      BY <1>1, <1>2, <1>4, <2>1
    <3> QED
      BY <3>1, <1>4 DEF RowsSound, PositionsDistinct
  <2>2. CASE c.stack = s
    <3>1. PICK i \in 1..Len(chain) : c = Row(s, chain[i], i, Len(chain))
      BY <1>1, <2>2
    <3>2. PICK k \in 1..Len(chain) : d = Row(s, chain[k], k, Len(chain))
      BY <1>1, <1>4, <2>2
    <3>3. c.pull = chain[i] /\ c.position = i /\ d.pull = chain[k] /\ d.position = k
      BY <1>2, <3>1, <3>2
    <3>4. i = k
      BY <1>4, <3>3 DEF IsInjective
    <3> QED
      BY <3>1, <3>2, <3>4
  <2> QED
    BY <2>1, <2>2
<1> QED
  BY <1>3, <1>4 DEF RowsSound, PositionsDistinct

LEMMA ResolvesKeeps == ASSUME CommandsInv, NEW h \in Requests, Resolves(h) PROVE CommandsInv'
<1> DEFINE r == awaiting[h]
           found == Resolution(r)
<1>1. /\ r.at = "resolve" /\ UNCHANGED <<layout, starts>>
      /\ found.chain = Unresolved => Becomes(h, Free) /\ UNCHANGED <<declared, lastRun, asked>>
      /\ found.chain # Unresolved =>
           /\ declared' = Reconciled(found.stack, found.chain)
           /\ asked' = IF r.bare THEN asked \cup {found.stack} ELSE asked
           /\ Enqueues(h, found.stack, found.chain, r)
  BY DEF Resolves
<1>2. r.stack \in Stacks /\ (r.bare \/ r.stack \in asked) /\ r.seen.open \subseteq Pulls
  BY <1>1 DEF CommandsInv, RequestsSound, RequestOf
<1>3. IsFiniteSet(r.seen.open) /\ r.seen.open \subseteq Nat
  BY <1>2, StackCommandsAssumption, FS_Subset
<1>4. CASE found.chain = Unresolved
  BY <1>1, <1>4, Resting, RequestGoesOn, TablesStand
<1>5. CASE found.chain # Unresolved
  <2> DEFINE chain == found.chain
  <2>1. found.stack \in Stacks /\ (~r.bare => found.stack = r.stack) /\
        \E start, marked : chain = ResolveStackChain(r.seen, start, marked, r.end)
    <3>1. CASE r.bare
      <4> DEFINE c == ResolveStackChain(r.seen, 0, Marked, r.end)
                 S == StartsAt(Head(c))
      <4>1. c # Unresolved /\ Cardinality(S) = 1 /\ found = [chain |-> c, stack |-> CHOOSE s \in S : TRUE]
        <5> HIDE DEF r
        <5> QED
          BY <1>5, <3>1 DEF Resolution
      <4>2. S # {} /\ S \subseteq Stacks
        BY <4>1, FS_EmptySet DEF StartsAt
      <4> HIDE DEF c, S, r
      <4>3. (CHOOSE s \in S : TRUE) \in Stacks
        BY <4>2
      <4>4. chain = c /\ found.stack \in Stacks
        BY <4>1, <4>3
      <4> HIDE DEF found
      <4> QED
        BY <3>1, <4>4 DEF c
    <3>2. CASE ~r.bare
      <4> HIDE DEF r
      <4>1. found = [chain |-> IF starts[r.stack] = 0 THEN Unresolved
                               ELSE ResolveStackChain(r.seen, starts[r.stack], {}, r.end),
                     stack |-> r.stack]
        BY <3>2 DEF Resolution
      <4>2. found.stack = r.stack /\ chain = ResolveStackChain(r.seen, starts[r.stack], {}, r.end)
        BY <1>5, <4>1
      <4> HIDE DEF found
      <4> QED
        BY <1>2, <3>2, <4>2
    <3> QED
      BY <3>1, <3>2
  <2> HIDE DEF found, r
  <2>2. chain \in Seq(r.seen.open) /\ IsInjective(chain)
    BY <1>3, <1>5, <2>1, ResolvedChain
  <2>3. chain \in Seq(Pulls)
    BY <1>2, <2>2
  <2>4. RowsSound'
    BY <1>1, <1>5, <2>1, <2>2, <2>3, ReconciledRows DEF CommandsInv
  <2>5. asked \subseteq asked' /\ found.stack \in asked'
    BY <1>1, <1>2, <1>5, <2>1
  <2> QED
    BY <1>1, <1>5, <2>1, <2>2, <2>3, <2>4, <2>5, EnqueueKeeps
<1> QED
  BY <1>4, <1>5

LEMMA TopCommandKeeps ==
  ASSUME CommandsInv, NEW h \in Requests, NEW s \in Stacks, NEW p \in Pulls, NEW list \in TopLists,
         TopCommand(h, s, p, list)
  PROVE  CommandsInv'
<1> DEFINE r == [Free EXCEPT !.at = "read", !.stack = s, !.pull = p, !.list = list, !.todo = list]
<1>1. list \in Seq(Pulls) /\ IsInjective(list)
  BY DEF TopLists, SeqOf
<1>2. DOMAIN r = DOMAIN Free /\ r.at = "read" /\ r.stack = s /\ r.pull = p /\ r.list = list /\ r.bare = FALSE
  BY DEF Free
<1>3. Becomes(h, r) /\ UNCHANGED <<layout, declared, starts, lastRun>> /\ asked' = asked \cup {s}
  BY DEF TopCommand
<1> HIDE DEF r
<1>4. RequestOf(r, asked')
  BY <1>1, <1>2, <1>3 DEF RequestOf
<1> QED
  BY <1>3, <1>4, RequestGoesOn, TablesStand

LEMMA ReadsKeeps == ASSUME CommandsInv, NEW h \in Requests, ReadsPull(h) PROVE CommandsInv'
<1> DEFINE q == awaiting[h]
           r == [q EXCEPT !.todo = Tail(@), !.seen.base[Head(q.todo)] = layout.base[Head(q.todo)]]
<1>1. /\ q.at = "read" /\ UNCHANGED <<layout, declared, starts, lastRun, asked>>
      /\ Becomes(h, Free) \/ Becomes(h, r)
  BY DEF ReadsPull
<1>2. RequestOf(q, asked)
  BY DEF CommandsInv, RequestsSound
<1> HIDE DEF q
<1>3. DOMAIN r = DOMAIN q /\ r.at = q.at /\ r.stack = q.stack /\ r.pull = q.pull /\ r.bare = q.bare /\ r.list = q.list
  <2>1. DOMAIN q = DOMAIN Free
    BY <1>2 DEF RequestOf
  <2> QED
    BY <2>1 DEF Free
<1> HIDE DEF r
<1>4. RequestOf(r, asked)
  BY <1>1, <1>2, <1>3 DEF RequestOf
<1> QED
  BY <1>1, <1>4, Resting, RequestGoesOn, TablesStand

LEMMA TopValidatedKeeps == ASSUME CommandsInv, NEW h \in Requests, TopValidated(h) PROVE CommandsInv'
<1> DEFINE r == awaiting[h]
<1>1. r.at = "read" /\ UNCHANGED <<layout, declared, starts, asked>>
  BY DEF TopValidated
<1>2. r.stack \in Stacks /\ r.stack \in asked /\ r.list \in Seq(Pulls) /\ IsInjective(r.list)
  BY <1>1 DEF CommandsInv, RequestsSound, RequestOf
<1>3. Enqueues(h, r.stack, r.list, r) \/ (Becomes(h, Free) /\ UNCHANGED lastRun)
  BY DEF TopValidated
<1> HIDE DEF r
<1>4. RowsSound'
  BY <1>1 DEF CommandsInv, RowsSound, PositionsDistinct
<1> QED
  BY <1>1, <1>2, <1>3, <1>4, EnqueueKeeps, Resting, RequestGoesOn, TablesStand

LEMMA CommentsKeep == ASSUME CommandsInv, NEW h \in Requests, FindsComment(h) \/ WritesComment(h) PROVE CommandsInv'
<1>1. UNCHANGED <<layout, declared, starts, lastRun, asked>>
  BY DEF FindsComment, WritesComment
<1>2. CASE FindsComment(h)
  <2> DEFINE q == awaiting[h]
             next == IF marks[Head(q.todo)][q.stack] > 0 THEN "edit" ELSE "create"
             r == [q EXCEPT !.at = next]
  <2>1. Becomes(h, r) /\ RequestOf(q, asked)
    BY <1>2 DEF FindsComment, CommandsInv, RequestsSound
  <2> HIDE DEF q
  <2>2. next \in {"edit", "create"}
    OBVIOUS
  <2> HIDE DEF next
  <2>3. DOMAIN r = DOMAIN Free /\ r.at = next
    <3>1. DOMAIN q = DOMAIN Free
      BY <2>1 DEF RequestOf
    <3> QED
      BY <3>1 DEF Free
  <2> HIDE DEF r
  <2>4. RequestOf(r, asked)
    BY <2>2, <2>3 DEF RequestOf
  <2> QED
    BY <1>1, <2>1, <2>4, RequestGoesOn, TablesStand
<1>3. CASE WritesComment(h)
  BY <1>1, <1>3, Resting, RequestGoesOn, TablesStand DEF WritesComment
<1> QED
  BY <1>2, <1>3

LEMMA RebasesKeeps == ASSUME CommandsInv, NEW p \in Pulls, Rebases(p) PROVE CommandsInv'
<1>1. UNCHANGED <<declared, starts, lastRun, asked, awaiting>>
  BY DEF Rebases
<1>2. LayoutSound'
  <2>1. LayoutSound
    BY DEF CommandsInv
  <2>2. ASSUME NEW b \in Branches, p \in Forked \/ b # HeadOf[p], layout' = [layout EXCEPT !.base[p] = b] PROVE LayoutSound'
    <3>1. layout'.open = layout.open /\ layout'.base = [layout.base EXCEPT ![p] = b]
          /\ layout' = LayoutOf(layout'.open, layout'.base)
      BY <2>1, <2>2 DEF LayoutSound, LayoutOf
    <3> QED
      BY <2>1, <2>2, <3>1 DEF LayoutSound
  <2>3. CASE layout' = [layout EXCEPT !.open = @ \ {p}]
    <3>1. layout'.open = layout.open \ {p} /\ layout'.base = layout.base
          /\ layout' = LayoutOf(layout'.open, layout'.base)
      BY <2>1, <2>3 DEF LayoutSound, LayoutOf
    <3> QED
      BY <2>1, <3>1 DEF LayoutSound
  <2> QED
    BY <2>2, <2>3 DEF Rebases
<1> QED
  BY <1>1, <1>2 DEF CommandsInv, RowsSound, PositionsDistinct, RunsSound, RunsWereAsked, RequestsSound

LEMMA CommandsStart == StackCommandsInit => CommandsInv
<1> SUFFICES ASSUME StackCommandsInit PROVE CommandsInv
  OBVIOUS
<1>1. LayoutSound
  <2>1. PICK base \in FirstBases : layout = LayoutOf(Pulls, base)
    BY DEF StackCommandsInit
  <2>2. layout.open = Pulls /\ layout.base = base
    BY <2>1 DEF LayoutOf
  <2> QED
    BY <2>1, <2>2, StackCommandsAssumption DEF LayoutSound
<1>2. RowsSound
  BY DEF StackCommandsInit, RowsSound, PositionsDistinct
<1>3. starts \in [Stacks -> Pulls \cup {0}]
  BY DEF StackCommandsInit
<1>4. RunsSound
  <2>1. <<>> \in Seq(Pulls) /\ IsInjective(<<>>)
    BY DEF IsInjective
  <2> QED
    BY <2>1 DEF StackCommandsInit, RunsSound, RunsWereAsked
<1>5. RequestsSound
  BY Resting DEF StackCommandsInit, RequestsSound
<1> QED
  BY <1>1, <1>2, <1>3, <1>4, <1>5 DEF CommandsInv

LEMMA CommandsNextKeeps == CommandsInv /\ [StackCommandsNext]_commandVars => CommandsInv'
<1> SUFFICES ASSUME CommandsInv, [StackCommandsNext]_commandVars PROVE CommandsInv'
  OBVIOUS
<1>1. CASE UNCHANGED commandVars
  BY <1>1 DEF commandVars, CommandsInv, LayoutSound, RowsSound, PositionsDistinct, RunsSound, RunsWereAsked,
              RequestsSound
<1>2. Cardinality(Pulls) \in Nat
  BY StackCommandsAssumption, FS_CardinalityType
<1>3. ASSUME NEW h \in Requests, NEW s \in Stacks, NEW p \in Pulls,
             \/ \E i, n \in 1..Cardinality(Pulls) : Declare(h, s, p, i, n)
             \/ Start(h, s, p)
             \/ \E bare \in BOOLEAN : End(h, s, p, FALSE, bare)
             \/ \E lines \in Bodies : BodyEvent(h, s, p, lines)
             \/ \E list \in TopLists : TopCommand(h, s, p, list)
      PROVE  CommandsInv'
  <2>1. CASE \E i, n \in 1..Cardinality(Pulls) : Declare(h, s, p, i, n)
    BY <1>2, <2>1, DeclareKeeps
  <2> QED
    BY <1>3, <2>1, StartKeeps, EndKeeps, BodyEventKeeps, TopCommandKeeps
<1>4. ASSUME NEW h \in Requests,
             ListsPulls(h) \/ Resolves(h) \/ ReadsPull(h) \/ TopValidated(h) \/ FindsComment(h) \/ WritesComment(h)
      PROVE  CommandsInv'
  BY <1>4, ListsKeeps, ResolvesKeeps, ReadsKeeps, TopValidatedKeeps, CommentsKeep
<1>5. ASSUME NEW p \in Pulls, Rebases(p) PROVE CommandsInv'
  BY <1>5, RebasesKeeps
<1> QED
  BY <1>1, <1>3, <1>4, <1>5 DEF StackCommandsNext

LEMMA CommandsSound == StackCommandsSpec => []CommandsInv
BY CommandsStart, CommandsNextKeeps, PTL DEF StackCommandsSpec

\* Every table and every request of the stack commands has its type.
LEMMA CommandsTypes == CommandsInv => StackCommandsTypeOK
<1> SUFFICES ASSUME CommandsInv PROVE StackCommandsTypeOK
  OBVIOUS
<1>1. layout \in {LayoutOf(open, base) : open \in SUBSET Pulls, base \in [Pulls -> Branches]}
  BY DEF CommandsInv, LayoutSound
<1>2. \A s \in Stacks : IsInjective(lastRun[s]) /\ ToSet(lastRun[s]) \subseteq Pulls
  BY DEF CommandsInv, RunsSound, ToSet
<1> QED
  BY <1>1, <1>2 DEF CommandsInv, RowsSound, RequestsSound, RequestOf, StackCommandsTypeOK

LEMMA CommandsWalk == CommandsInv => WalkFindsTheStack
<1> SUFFICES ASSUME CommandsInv, NEW end \in Pulls, NEW start \in Pulls \cup {0}
             PROVE  FindsStackIn(layout, start, IF start = 0 THEN Marked ELSE {}, end, ListsUpTo[end])
  BY DEF WalkFindsTheStack
<1>1. /\ layout.open \subseteq Pulls /\ layout.base = layout.base /\ layout.head = HeadOf
      /\ layout.forks = Forked /\ \A p \in Pulls \ Forked : layout.base[p] # HeadOf[p]
  <2>1. LayoutSound
    BY DEF CommandsInv
  <2>2. LayoutOf(layout.open, layout.base).head = HeadOf /\ LayoutOf(layout.open, layout.base).forks = Forked
    BY DEF LayoutOf
  <2> QED
    BY <2>1, <2>2 DEF LayoutSound
<1>2. IsFiniteSet(layout.open) /\ layout.open \subseteq Nat \ {0}
  BY <1>1, StackCommandsAssumption, FS_Subset
<1>3. \A d \in ListsUpTo[end] : \E S : d \in Seq(S)
  BY DEF ListsUpTo, TopLists, SeqOf
<1>4. \A p \in layout.open : SameRepo(layout, p) => layout.base[p] # layout.head[p]
  BY <1>1 DEF SameRepo
<1> QED
  BY <1>2, <1>3, <1>4, ResolutionIsTheStack

\* "a start row plus declarations alone ... is just a pending declaration set"
\* (webhooks.ts:1278-1280), and a declared position is one pull's: whatever
\* commands met and however the branches moved, a stack that has a run was asked
\* for, and its positions are distinct.
THEOREM StacksWereAsked == StackCommandsSpec => [](PositionsDistinct /\ RunsWereAsked)
<1>1. CommandsInv => PositionsDistinct /\ RunsWereAsked
  BY DEF CommandsInv, RowsSound, RunsSound
<1> QED
  BY <1>1, CommandsSound, PTL
-----------------------------------------------------------------------------
(* The reviewers of a job *)

\* Reviewers a job may be given: some, none twice, of the list.
Choosable(list, roles) ==
  roles \in Seq(RoleNames) /\ roles # <<>> /\ IsInjective(roles) /\ ToSet(roles) \subseteq ToSet(list)

LEMMA AllowlistIsChoosable ==
  stamp \in Definitions \cup {NoDefinition} =>
    /\ Choosable(Allowlist, Allowlist)
    /\ ConfigRoles \in Seq(RoleNames) /\ stamp.reviewers \in Seq(RoleNames) /\ IsInjective(ConfigRoles)
    /\ IsInjective(stamp.reviewers)
<1> SUFFICES ASSUME stamp \in Definitions \cup {NoDefinition}
             PROVE  /\ Choosable(Allowlist, Allowlist)
                    /\ ConfigRoles \in Seq(RoleNames) /\ stamp.reviewers \in Seq(RoleNames)
                    /\ IsInjective(ConfigRoles) /\ IsInjective(stamp.reviewers)
  OBVIOUS
<1>1. ConfigRoles \in Seq(RoleNames) /\ ConfigRoles # <<>> /\ IsInjective(ConfigRoles)
  BY RoutingAssumption DEF Configured
<1>2. CASE stamp \in Definitions
  <2>1. stamp.reviewers \in Seq(RoleNames) /\ stamp.reviewers # <<>> /\ IsInjective(stamp.reviewers)
    BY <1>2, RoutingAssumption DEF Configured
  <2> QED
    BY <1>1, <2>1 DEF Allowlist, Choosable
<1>3. CASE stamp = NoDefinition
  <2>1. stamp.reviewers = <<>>
    BY <1>3 DEF NoDefinition
  <2>2. stamp.reviewers \in Seq(RoleNames) /\ IsInjective(stamp.reviewers)
    BY <2>1 DEF IsInjective
  <2> QED
    BY <1>1, <2>1, <2>2 DEF Allowlist, Choosable
<1> QED
  BY <1>2, <1>3

\* A list without its repeats and without what is not on the allowlist.
LEMMA AllowedIsPart ==
  ASSUME NEW list, NEW roles \in Seq(RoleNames)
  PROVE  /\ Allowed(roles, list) \in Seq(RoleNames) /\ IsInjective(Allowed(roles, list))
         /\ ToSet(Allowed(roles, list)) \subseteq ToSet(list)
         /\ roles # <<>> /\ roles[1] \in ToSet(list) => Allowed(roles, list) # <<>>
<1> DEFINE I == {i \in FirstNamed(roles) : roles[i] \in ToSet(list)}
<1>1. DOMAIN roles = 1..Len(roles) /\ Len(roles) \in Nat
  OBVIOUS
<1>2. /\ I \subseteq DOMAIN roles
      /\ \A i \in I : roles[i] \in ToSet(list) /\ \A k \in 1..(i - 1) : roles[k] # roles[i]
  BY DEF FirstNamed
<1>3. \A i, k \in I : roles[i] = roles[k] => i = k
  BY <1>1, <1>2
<1>4. ASSUME roles # <<>>, roles[1] \in ToSet(list) PROVE 1 \in I
  <2>1. 1 \in DOMAIN roles
    BY <1>1, <1>4
  <2> QED
    BY <1>4, <2>1 DEF FirstNamed
<1>5. Allowed(roles, list) = KeptAt(roles, I)
  BY DEF Allowed
<1> HIDE DEF I
<1> QED
  BY <1>2, <1>3, <1>4, <1>5, KeptIsPart

\* Joining two lists.
LEMMA JoinedMembers ==
  ASSUME NEW S, NEW a \in Seq(S), NEW b \in Seq(S)
  PROVE  a \o b \in Seq(S) /\ ToSet(a \o b) = ToSet(a) \cup ToSet(b)
<1>1. /\ a \o b \in Seq(S) /\ Len(a \o b) = Len(a) + Len(b)
      /\ \A i \in 1..(Len(a) + Len(b)) : (a \o b)[i] = IF i <= Len(a) THEN a[i] ELSE b[i - Len(a)]
  BY ConcatProperties
<1>2. /\ DOMAIN (a \o b) = 1..(Len(a) + Len(b)) /\ DOMAIN a = 1..Len(a) /\ DOMAIN b = 1..Len(b)
      /\ Len(a) \in Nat /\ Len(b) \in Nat
  BY <1>1
<1> DEFINE c == a \o b
<1>3. \A i \in DOMAIN c : c[i] \in ToSet(a) \cup ToSet(b)
  <2> SUFFICES ASSUME NEW i \in DOMAIN c PROVE c[i] \in ToSet(a) \cup ToSet(b)
    OBVIOUS
  <2> HIDE DEF c
  <2>1. CASE i <= Len(a)
    <3>1. c[i] = a[i] /\ i \in DOMAIN a
      BY <1>1, <1>2, <2>1 DEF c
    <3> QED
      BY <3>1 DEF ToSet
  <2>2. CASE ~(i <= Len(a))
    <3>1. c[i] = b[i - Len(a)] /\ i - Len(a) \in DOMAIN b
      BY <1>1, <1>2, <2>2 DEF c
    <3> QED
      BY <3>1 DEF ToSet
  <2> QED
    BY <2>1, <2>2
<1>4. \A i \in DOMAIN a : a[i] \in ToSet(c)
  <2> SUFFICES ASSUME NEW i \in DOMAIN a PROVE a[i] \in ToSet(c)
    OBVIOUS
  <2>1. i \in DOMAIN c /\ c[i] = a[i]
    BY <1>1, <1>2
  <2> HIDE DEF c
  <2> QED
    BY <2>1 DEF ToSet
<1>5. \A i \in DOMAIN b : b[i] \in ToSet(c)
  <2> SUFFICES ASSUME NEW i \in DOMAIN b PROVE b[i] \in ToSet(c)
    OBVIOUS
  <2>1. i + Len(a) \in DOMAIN c /\ c[i + Len(a)] = b[i]
    BY <1>1, <1>2
  <2> HIDE DEF c
  <2> QED
    BY <2>1 DEF ToSet
<1> HIDE DEF c
<1>6. ToSet(c) = ToSet(a) \cup ToSet(b)
  BY <1>3, <1>4, <1>5 DEF ToSet
<1> QED
  BY <1>1, <1>6 DEF c

\* What is drawn from a finite set of roles is a list.
LEMMA DrawnIsAList ==
  ASSUME NEW S, IsFiniteSet(S)
  PROVE  SetToSeq(S) \in Seq(S)
<1> DEFINE n == Cardinality(S)
<1>1. n \in Nat
  BY FS_CardinalityType
<1>2. ExistsBijection(1..n, S)
  BY FS_CardinalityType
<1>3. PICK f \in Bijection(1..n, S) : TRUE
  BY <1>2 DEF ExistsBijection
<1>4. f \in [1..n -> S] /\ IsInjective(f)
  BY <1>3 DEF Bijection, Injection
<1>5. SetToSeq(S) \in [1..n -> S]
  BY <1>4 DEF SetToSeq
<1> QED
  BY <1>1, <1>5

\* The built-in roles are names.
LEMMA BuiltInNames ==
  /\ {"correctness", "security", "tests", "data-integrity", "concurrency", "api", "maintainer", "architecture"}
       \subseteq RoleNames
  /\ Preferred \in Seq(RoleNames)
<1>1. DOMAIN Preferred = 1..8
  BY DEF Preferred
<1>2. \A i \in 1..8 : Preferred[i] \in RoleNames
  BY <1>1 DEF RoleNames, ToSet
<1>3. /\ Preferred[1] = "correctness" /\ Preferred[2] = "security" /\ Preferred[3] = "tests"
      /\ Preferred[4] = "data-integrity" /\ Preferred[5] = "concurrency" /\ Preferred[6] = "api"
      /\ Preferred[7] = "maintainer" /\ Preferred[8] = "architecture"
  BY DEF Preferred
<1>4. Len(Preferred) = 8 /\ Preferred \in Seq(ToSet(Preferred))
  BY DEF Preferred, ToSet
<1>5. ToSet(Preferred) \subseteq RoleNames
  BY DEF RoleNames
<1> QED
  BY <1>2, <1>3, <1>4, <1>5

Families == {"docs", "tests", "dependencies", "auth", "migrations", "api"}

\* The roles of any families are a list's.
LEMMA FamilySuggestions ==
  ASSUME NEW F, F \subseteq Families
  PROVE  SetToSeq(UNION {ToSet(FamilyRoles(f)) : f \in F}) \in Seq(RoleNames)
<1> DEFINE U     == UNION {ToSet(FamilyRoles(f)) : f \in F}
           Named == {"security", "correctness", "data-integrity", "maintainer", "api", "tests"}
<1>1. \A f \in Families : ToSet(FamilyRoles(f)) \subseteq Named
  <2> SUFFICES ASSUME NEW f \in Families, NEW i \in DOMAIN FamilyRoles(f) PROVE FamilyRoles(f)[i] \in Named
    BY DEF ToSet
  <2> QED
    BY DEF FamilyRoles, Families
<1>2. U \subseteq Named
  BY <1>1
<1>3. IsFiniteSet(Named)
  <2>1. IsFiniteSet({"security"})
    BY FS_Singleton
  <2>2. IsFiniteSet({"security", "correctness"})
    BY <2>1, FS_AddElement, {"security", "correctness"} = {"security"} \cup {"correctness"}
  <2>3. IsFiniteSet({"security", "correctness", "data-integrity"})
    BY <2>2, FS_AddElement,
       {"security", "correctness", "data-integrity"} = {"security", "correctness"} \cup {"data-integrity"}
  <2>4. IsFiniteSet({"maintainer"})
    BY FS_Singleton
  <2>5. IsFiniteSet({"maintainer", "api"})
    BY <2>4, FS_AddElement, {"maintainer", "api"} = {"maintainer"} \cup {"api"}
  <2>6. IsFiniteSet({"maintainer", "api", "tests"})
    BY <2>5, FS_AddElement, {"maintainer", "api", "tests"} = {"maintainer", "api"} \cup {"tests"}
  <2>7. Named = {"security", "correctness", "data-integrity"} \cup {"maintainer", "api", "tests"}
    OBVIOUS
  <2> QED
    BY <2>3, <2>6, <2>7, FS_Union
<1> HIDE DEF U
<1>4. IsFiniteSet(U) /\ U \subseteq RoleNames
  BY <1>2, <1>3, FS_Subset, BuiltInNames
<1>5. SetToSeq(U) \in Seq(U)
  BY <1>4, DrawnIsAList
<1> QED
  BY <1>4, <1>5 DEF U

\* What the signals suggest may be chosen.
LEMMA SuggestedRoles ==
  ASSUME NEW list, Choosable(list, list), NEW s, s.families \subseteq Families
  PROVE  Choosable(list, RolesForSignals(s, list))
<1> DEFINE drawn == SetToSeq(UNION {ToSet(FamilyRoles(f)) : f \in s.families})
           x     == IF s.untested THEN <<"tests">> ELSE <<>>
           y     == IF s.count >= 8 THEN <<"architecture">> ELSE <<>>
           z     == IF s.risky \/ s.lock THEN <<"maintainer">> ELSE <<>>
           all   == <<"correctness">> \o drawn \o x \o y \o z
           kept  == Allowed(all, list)
<1>1. drawn \in Seq(RoleNames) /\ x \in Seq(RoleNames) /\ y \in Seq(RoleNames) /\ z \in Seq(RoleNames)
      /\ <<"correctness">> \in Seq(RoleNames)
  BY FamilySuggestions, BuiltInNames
<1>2. RolesForSignals(s, list) = IF kept = <<>> THEN list ELSE kept
  BY DEF RolesForSignals
<1> HIDE DEF drawn, x, y, z
<1>3. all \in Seq(RoleNames)
  BY <1>1, JoinedMembers
<1> HIDE DEF all
<1>4. kept \in Seq(RoleNames) /\ IsInjective(kept) /\ ToSet(kept) \subseteq ToSet(list)
  BY <1>3, AllowedIsPart
<1> HIDE DEF kept
<1> QED
  BY <1>2, <1>4 DEF Choosable

LEMMA CapIsALimit ==
  ASSUME NEW profile \in DOMAIN Rank
  PROVE  CapOf(profile) \in 1..MaxReviewers /\ MaxReviewers \in Nat
<1>1. MaxReviewers \in Nat \ {0}
  BY RoutingAssumption
<1> QED
  BY <1>1 DEF CapOf, Lower, Rank

\* Under the cap there is still somebody, and only who was chosen.
LEMMA Capped ==
  ASSUME NEW list, NEW roles, Choosable(list, roles), NEW profile \in DOMAIN Rank
  PROVE  LET capped == CapReviewers(roles, profile)
         IN  /\ capped \in Seq(RoleNames) /\ capped # <<>> /\ Len(capped) <= MaxReviewers
             /\ ToSet(capped) \subseteq ToSet(list)
<1> DEFINE cap  == CapOf(profile)
           R    == ToSet(roles)
           P    == ToSet(Preferred)
           all  == Among(Preferred, R) \o Among(roles, R \ P)
<1>1. cap \in 1..MaxReviewers /\ MaxReviewers \in Nat
  BY CapIsALimit
<1>2. roles \in Seq(RoleNames) /\ roles # <<>> /\ IsInjective(roles) /\ R \subseteq ToSet(list) /\ Len(roles) \in Nat
  BY DEF Choosable
<1>3. CASE Len(roles) <= cap
  <2>1. CapReviewers(roles, profile) = roles
    BY <1>3 DEF CapReviewers
  <2> QED
    BY <1>1, <1>2, <1>3, <2>1
<1>4. CASE ~(Len(roles) <= cap)
  <2>1. CapReviewers(roles, profile) = SubSeq(all, 1, cap)
    BY <1>4 DEF CapReviewers
  <2>2. Preferred \in Seq(RoleNames)
    BY BuiltInNames
  <2>3. /\ Among(Preferred, R) \in Seq(RoleNames) /\ ToSet(Among(Preferred, R)) = P \cap R
        /\ Among(roles, R \ P) \in Seq(RoleNames) /\ ToSet(Among(roles, R \ P)) = R \cap (R \ P)
    BY <1>2, <2>2, AmongIsPart
  <2>4. all \in Seq(RoleNames) /\ ToSet(all) = R
    <3> DEFINE u == Among(Preferred, R)
               v == Among(roles, R \ P)
    <3> HIDE DEF P, R, u, v
    <3>1. u \in Seq(RoleNames) /\ v \in Seq(RoleNames)
      BY <2>3 DEF u, v
    <3>2. u \o v \in Seq(RoleNames) /\ ToSet(u \o v) = ToSet(u) \cup ToSet(v)
      BY <3>1, JoinedMembers
    <3> QED
      BY <2>3, <3>2 DEF u, v
  <2> HIDE DEF all, R, cap
  <2>5. Len(all) \in Nat /\ DOMAIN all = 1..Len(all)
    BY <2>4
  <2>6. IsFiniteSet(1..Len(all)) /\ Cardinality(1..Len(all)) = Len(all)
    BY <2>5, FS_Interval
  <2>7. all \in Surjection(1..Len(all), R)
    <3>1. all \in [1..Len(all) -> R]
      BY <2>4, <2>5 DEF ToSet
    <3>2. \A x \in R : \E i \in 1..Len(all) : all[i] = x
      BY <2>4, <2>5 DEF ToSet
    <3> QED
      BY <3>1, <3>2 DEF Surjection
  <2>8. IsFiniteSet(R) /\ Cardinality(R) <= Len(all)
    BY <2>6, <2>7, FS_Surjection
  <2>9. Len(roles) <= Cardinality(R)
    <3>1. roles \in Seq(R)
      BY <1>2 DEF R, ToSet
    <3> QED
      BY <1>2, <2>8, <3>1, InjectiveIsShort
  <2>10. cap <= Len(all)
    <3>1. Cardinality(R) \in Nat
      BY <2>8, FS_CardinalityType
    <3> QED
      BY <1>1, <1>2, <1>4, <2>5, <2>8, <2>9, <3>1
  <2> DEFINE c == SubSeq(all, 1, cap)
  <2>11. c \in Seq(RoleNames) /\ Len(c) = cap /\ \A i \in 1..cap : c[i] = all[i]
    BY <1>1, <2>4, <2>5, <2>10, SubSeqProperties
  <2>12. c # <<>> /\ DOMAIN c = 1..cap
    <3> HIDE DEF c
    <3> QED
      BY <1>1, <2>11
  <2>13. ToSet(c) \subseteq R
    <3>1. \A i \in 1..cap : all[i] \in R
      BY <1>1, <2>4, <2>5, <2>10 DEF ToSet
    <3> HIDE DEF c
    <3> QED
      BY <2>11, <2>12, <3>1 DEF ToSet
  <2> QED
    BY <1>1, <1>2, <2>1, <2>11, <2>12, <2>13 DEF R
<1> QED
  BY <1>3, <1>4

\* Whatever the scan sees, its families have roles.
LEMMA ScannedFamilies ==
  ASSUME NEW d, d \in SeqOf([path : Paths, hunk : SeqOf(Marks, MaxHunk)], MaxFiles)
  PROVE  Scanned(d).families \subseteq Families
<1> DEFINE files == [i \in DOMAIN d |-> ParsedFile(d[i])]
           paths == {files[i].path : i \in DOMAIN files}
<1>1. \A i \in DOMAIN d : d[i].path \in PathKinds
  BY RoutingAssumption DEF SeqOf
<1>2. \A i \in DOMAIN d : files[i].path \in PathKinds
  BY <1>1 DEF ParsedFile, PathKinds
<1>3. paths \subseteq PathKinds
  BY <1>2
<1>4. \A p \in PathKinds : FamiliesOf(p) \subseteq Families
  BY DEF PathKinds, FamiliesOf, Families
<1>5. Scanned(d).families = UNION {FamiliesOf(p) : p \in paths}
  BY DEF Scanned, SignalsOf
<1> HIDE DEF paths
<1> QED
  BY <1>3, <1>4, <1>5

\* A decision of the router or of its failure: it answers the signals, with
\* somebody of the list.
Sound(d, s, list) ==
  /\ d.source \in {"deterministic", "hybrid", "hard-rule", "fallback"} /\ d.profile \in DOMAIN Rank
  /\ Rank[d.profile] >= Rank[DeterministicProfile(s)]
  /\ d.reviewers \in Seq(RoleNames) /\ d.reviewers # <<>> /\ Len(d.reviewers) <= MaxReviewers
  /\ ToSet(d.reviewers) \subseteq ToSet(list)

LEMMA Levels ==
  /\ \A p \in DOMAIN Rank : Rank[p] \in 0..2
  /\ \A s : DeterministicProfile(s) \in DOMAIN Rank
  /\ \A p, q \in DOMAIN Rank : /\ Higher(p, q) \in DOMAIN Rank
                               /\ Rank[Higher(p, q)] >= Rank[p] /\ Rank[Higher(p, q)] >= Rank[q]
  /\ "diagnosis" \in DOMAIN Rank
<1>1. DOMAIN Rank = {"observation", "diagnosis", "poison-alert"}
  BY DEF Rank
<1>2. Rank["observation"] = 0 /\ Rank["diagnosis"] = 1 /\ Rank["poison-alert"] = 2
  BY DEF Rank
<1>3. \A s : DeterministicProfile(s) \in DOMAIN Rank
  BY <1>1 DEF DeterministicProfile
<1> QED
  BY <1>1, <1>2, <1>3 DEF Higher

LEMMA CappedIsSound ==
  ASSUME NEW list, NEW roles, Choosable(list, roles), NEW profile \in DOMAIN Rank, NEW s,
         Rank[profile] >= Rank[DeterministicProfile(s)],
         NEW source \in {"deterministic", "hybrid", "hard-rule", "fallback"}
  PROVE  Sound(Decision(source, profile, CapReviewers(roles, profile), s), s, list)
<1> DEFINE c == CapReviewers(roles, profile)
           d == Decision(source, profile, c, s)
<1>1. c \in Seq(RoleNames) /\ c # <<>> /\ Len(c) <= MaxReviewers /\ ToSet(c) \subseteq ToSet(list)
  BY Capped
<1> HIDE DEF c
<1>2. d.source = source /\ d.profile = profile /\ d.reviewers = c
  BY DEF Decision
<1> HIDE DEF d
<1>3. Sound(d, s, list)
  BY <1>1, <1>2 DEF Sound
<1> QED
  BY <1>3 DEF d, c

LEMMA DecisionsAreSound ==
  ASSUME NEW list, Choosable(list, list), NEW s, s.families \subseteq Families
  PROVE  /\ Sound(Deterministic(s, list), s, list) /\ Sound(Fallback(s, list), s, list)
         /\ \A profile \in DOMAIN Rank, roles \in Answers : Sound(MergeModel(profile, roles, s, list), s, list)
<1> DEFINE det == DeterministicProfile(s)
           own == RolesForSignals(s, list)
<1>1. Choosable(list, own) /\ det \in DOMAIN Rank /\ Rank[det] \in 0..2
  BY SuggestedRoles, Levels
<1>2. Sound(Deterministic(s, list), s, list)
  <2>1. Rank[det] >= Rank[det]
    BY <1>1
  <2> QED
    BY <1>1, <2>1, CappedIsSound DEF Deterministic
<1>3. Sound(Fallback(s, list), s, list)
  <2>1. Higher("diagnosis", det) \in DOMAIN Rank /\ Rank[Higher("diagnosis", det)] >= Rank[det]
    BY <1>1, Levels
  <2> QED
    BY <1>1, <2>1, CappedIsSound DEF Fallback
<1>4. ASSUME NEW profile \in DOMAIN Rank, NEW roles \in Answers
      PROVE  Sound(MergeModel(profile, roles, s, list), s, list)
  <2> DEFINE p      == Higher(profile, det)
             named  == Allowed(roles, list)
             chosen == IF named = <<>> \/ p # profile THEN own ELSE named
             joined == IF p = "poison-alert" THEN Allowed(chosen \o own, list) ELSE chosen
             source == IF p # profile THEN "hard-rule" ELSE "hybrid"
  <2>1. p \in DOMAIN Rank /\ Rank[p] >= Rank[det]
    BY <1>1, Levels
  <2>2. roles \in Seq(RoleNames)
    BY RoutingAssumption
  <2>3. named \in Seq(RoleNames) /\ IsInjective(named) /\ ToSet(named) \subseteq ToSet(list)
    BY <2>2, AllowedIsPart
  <2> HIDE DEF named, own
  <2>4. Choosable(list, chosen)
    BY <1>1, <2>3 DEF Choosable
  <2>5. Choosable(list, joined)
    <3>1. CASE p # "poison-alert"
      BY <2>4, <3>1
    <3>2. CASE p = "poison-alert"
      <4> HIDE DEF chosen
      <4>1. /\ chosen \in Seq(RoleNames) /\ chosen # <<>> /\ own \in Seq(RoleNames)
            /\ ToSet(chosen) \subseteq ToSet(list)
        BY <1>1, <2>4 DEF Choosable
      <4>2. chosen \o own \in Seq(RoleNames) /\ chosen \o own # <<>> /\ (chosen \o own)[1] = chosen[1]
        BY <4>1
      <4>3. chosen[1] \in ToSet(list)
        <5>1. 1 \in DOMAIN chosen
          BY <4>1
        <5> QED
          BY <4>1, <5>1 DEF ToSet
      <4> QED
        BY <3>2, <4>2, <4>3, AllowedIsPart DEF Choosable
    <3> QED
      BY <3>1, <3>2
  <2>6. MergeModel(profile, roles, s, list) = Decision(source, p, CapReviewers(joined, p), s)
    BY DEF MergeModel, own, named
  <2>7. source \in {"deterministic", "hybrid", "hard-rule", "fallback"}
    OBVIOUS
  <2> HIDE DEF p, joined, source
  <2> QED
    BY <2>1, <2>5, <2>6, <2>7, CappedIsSound
<1> QED
  BY <1>2, <1>3, <1>4

\* Who answers: known roles, none twice and, when the decision names somebody, someone.
LEMMA AnsweringIsChoosable ==
  ASSUME stamp \in Definitions \cup {NoDefinition}, NEW d, d.reviewers \in Seq(RoleNames),
         d.reviewers # <<>>, ToSet(d.reviewers) \subseteq ToSet(Allowlist)
  PROVE  Choosable(Allowlist, Answering(d))
<1> DEFINE listed == stamp.alerts[d.profile]
           picked == Among(stamp.reviewers, IF listed # {} THEN listed ELSE ToSet(d.reviewers))
<1>1. /\ Choosable(Allowlist, Allowlist) /\ IsInjective(ConfigRoles) /\ IsInjective(stamp.reviewers)
      /\ ConfigRoles \in Seq(RoleNames) /\ stamp.reviewers \in Seq(RoleNames)
  BY AllowlistIsChoosable
<1>2. CASE stamp.reviewers = <<>>
  <2> DEFINE a == Among(ConfigRoles, ToSet(d.reviewers))
  <2>1. Allowlist = ConfigRoles /\ Answering(d) = a
    BY <1>2 DEF Allowlist, Answering
  <2>2. a \in Seq(RoleNames) /\ ToSet(a) = ToSet(ConfigRoles) \cap ToSet(d.reviewers) /\ IsInjective(a)
    BY <1>1, AmongIsPart
  <2> HIDE DEF a
  <2>3. d.reviewers[1] \in ToSet(d.reviewers)
    BY DEF ToSet
  <2>4. ToSet(a) # {}
    BY <2>1, <2>2, <2>3
  <2>5. a # <<>>
    BY <2>4 DEF ToSet
  <2> QED
    BY <2>1, <2>2, <2>5 DEF Choosable
<1>3. CASE stamp.reviewers # <<>>
  <2>1. /\ Allowlist = stamp.reviewers
        /\ Answering(d) = IF picked = <<>> THEN stamp.reviewers ELSE picked
    BY <1>3 DEF Allowlist, Answering
  <2>2. picked \in Seq(RoleNames) /\ IsInjective(picked) /\ ToSet(picked) \subseteq ToSet(stamp.reviewers)
    BY <1>1, AmongIsPart
  <2> HIDE DEF picked
  <2> QED
    BY <1>1, <2>1, <2>2 DEF Choosable
<1> QED
  BY <1>2, <1>3

\* Inductive: the decision is sound, the rows are of one choice, and what the
\* stage and the mode say of them.
Routed == decision.source \in {"deterministic", "hybrid", "hard-rule", "fallback"}

PanelTyped ==
  /\ panel \in Seq(RoleNames) /\ IsInjective(panel) /\ Known(panel)
  /\ todo \in Seq(RoleNames) /\ Known(todo)

DecisionHeld ==
  /\ \/ decision = Undecided
     \/ decision.source = "fixed" /\ decision.profile = "diagnosis"
        /\ panel # <<>> /\ decision.reviewers = panel
     \/ Sound(decision, Scanned(diff), Allowlist)

StageHeld ==
  /\ stage = "queued" => todo = <<>> /\ (Routed => deaths > 0)
  /\ stage = "asking" => todo = <<>> /\ panel = <<>> /\ mode = "hybrid"
  /\ stage = "seating" /\ mode = "fixed" =>
       panel \o todo = WholeSet /\ decision.source # "fixed" /\ (Routed => deaths > 0)
  /\ stage = "seating" /\ mode # "fixed" =>
       /\ Routed /\ (panel # <<>> \/ todo # <<>>)
       /\ ToSet(panel) \cup ToSet(todo) \subseteq ToSet(Answering(decision))
  /\ stage = "reviewing" => todo = <<>> /\ panel # <<>> /\ decision.source # "none"

RowsHeld ==
  Routed /\ panel # <<>> /\ ~(stage = "seating" /\ mode = "fixed") =>
    ToSet(panel) \subseteq ToSet(Answering(decision)) \/ (deaths > 1 /\ IsPrefix(panel, WholeSet))

RoutingInv ==
  /\ mode \in {"fixed", "deterministic", "hybrid"} /\ deaths \in 0..MaxDeaths
  /\ stage \in {"queued", "asking", "seating", "reviewing"}
  /\ stamp \in Definitions \cup {NoDefinition}
  /\ diff \in SeqOf([path : Paths, hunk : SeqOf(Marks, MaxHunk)], MaxFiles)
  /\ PanelTyped /\ DecisionHeld /\ StageHeld /\ RowsHeld

LEMMA SourceOfDecision ==
  ASSUME DecisionHeld
  PROVE  /\ decision.source \in {"none", "fixed", "deterministic", "hybrid", "hard-rule", "fallback"}
         /\ Routed => Sound(decision, Scanned(diff), Allowlist)
         /\ decision.source = "none" => decision = Undecided
         /\ decision.source = "fixed" =>
              decision.profile = "diagnosis" /\ panel # <<>> /\ decision.reviewers = panel
<1>1. Undecided.source = "none"
  BY DEF Undecided
<1>2. Sound(decision, Scanned(diff), Allowlist) =>
        decision.source \in {"deterministic", "hybrid", "hard-rule", "fallback"}
  BY DEF Sound
<1>3. "none" \notin {"deterministic", "hybrid", "hard-rule", "fallback"}
      /\ "fixed" \notin {"deterministic", "hybrid", "hard-rule", "fallback"} /\ "none" # "fixed"
  OBVIOUS
<1> QED
  BY <1>1, <1>2, <1>3 DEF DecisionHeld, Routed

LEMMA AllowlistStays == stamp' = stamp => Allowlist' = Allowlist /\ \A r : Known(r)' <=> ToSet(r)' \subseteq ToSet(Allowlist)
BY DEF Allowlist, Known

LEMMA AllowlistTyped ==
  stamp \in Definitions \cup {NoDefinition} =>
    /\ Allowlist \in Seq(RoleNames) /\ Allowlist # <<>> /\ IsInjective(Allowlist)
BY AllowlistIsChoosable DEF Choosable

LEMMA RoutingStarts == RoutingInit => RoutingInv
<1> SUFFICES ASSUME RoutingInit PROVE RoutingInv
  OBVIOUS
<1>1. /\ mode \in {"fixed", "deterministic", "hybrid"} /\ stamp \in Definitions \cup {NoDefinition}
      /\ diff \in SeqOf([path : Paths, hunk : SeqOf(Marks, MaxHunk)], MaxFiles)
      /\ decision = Undecided /\ panel = (IF mode = "fixed" THEN WholeSet ELSE <<>>)
      /\ todo = <<>> /\ stage = "queued" /\ deaths = 0
  BY DEF RoutingInit
<1>2. deaths \in 0..MaxDeaths
  BY <1>1, RoutingAssumption
<1>3. PanelTyped
  <2>1. Allowlist \in Seq(RoleNames) /\ IsInjective(Allowlist)
    BY <1>1, AllowlistTyped
  <2>2. <<>> \in Seq(RoleNames) /\ IsInjective(<<>>) /\ ToSet(<<>>) = {}
    BY DEF IsInjective, ToSet
  <2> QED
    BY <1>1, <2>1, <2>2 DEF PanelTyped, Known, WholeSet
<1>4. ~Routed
  BY <1>1 DEF Routed, Undecided
<1> QED
  BY <1>1, <1>2, <1>3, <1>4 DEF RoutingInv, DecisionHeld, StageHeld, RowsHeld

\* A step that neither touches the job nor the rows keeps what is held of them.
LEMMA FixedStep == RoutingInv /\ Fixed => RoutingInv'
<1> SUFFICES ASSUME RoutingInv, Fixed PROVE RoutingInv'
  OBVIOUS
<1>1. /\ stage = "queued" /\ mode = "fixed" /\ panel = <<>> /\ todo' = WholeSet /\ stage' = "seating"
      /\ decision' = decision /\ panel' = panel /\ mode' = mode /\ diff' = diff /\ stamp' = stamp /\ deaths' = deaths
  BY DEF Fixed, RunMoves
<1>2. /\ Allowlist' = Allowlist /\ WholeSet' = WholeSet /\ WholeSet = Allowlist
      /\ Allowlist \in Seq(RoleNames) /\ IsInjective(Allowlist)
  BY <1>1, AllowlistTyped DEF RoutingInv, WholeSet, Allowlist
<1>3. PanelTyped'
  BY <1>1, <1>2 DEF RoutingInv, PanelTyped, Known
<1>4. Routed' = Routed /\ DecisionHeld'
  <2>1. DecisionHeld /\ decision' = decision /\ panel' = panel /\ diff' = diff
    BY <1>1 DEF RoutingInv
  <2> QED
    BY <2>1, <1>2 DEF DecisionHeld, Routed
<1>5. panel' \o todo' = WholeSet'
  BY <1>1, <1>2
<1>6. decision.source # "fixed"
  <2>1. DecisionHeld
    BY DEF RoutingInv
  <2> QED
    BY <1>1, <2>1, SourceOfDecision
<1>7. StageHeld'
  BY <1>1, <1>4, <1>5, <1>6 DEF RoutingInv, StageHeld
<1> QED
  BY <1>1, <1>3, <1>4, <1>7 DEF RoutingInv, RowsHeld

LEMMA RecordsFixedStep == RoutingInv /\ RecordsFixed => RoutingInv'
<1> SUFFICES ASSUME RoutingInv, RecordsFixed PROVE RoutingInv'
  OBVIOUS
<1>1. /\ decision' = Decision("fixed", "diagnosis", panel, Scanned(diff)) /\ stage' = "reviewing"
      /\ panel' = panel /\ todo' = todo /\ mode' = mode /\ diff' = diff /\ stamp' = stamp /\ deaths' = deaths
  BY DEF RecordsFixed, RunMoves
<1>2. /\ Allowlist' = Allowlist /\ WholeSet = Allowlist /\ Allowlist \in Seq(RoleNames) /\ Allowlist # <<>>
  BY <1>1, AllowlistTyped DEF RoutingInv, WholeSet, Allowlist
<1>3. panel # <<>> /\ todo = <<>>
  <2>1. CASE stage = "queued" /\ panel # <<>>
    BY <2>1 DEF RoutingInv, StageHeld
  <2>2. CASE stage = "seating" /\ todo = <<>> /\ mode = "fixed"
    <3>1. panel \o todo = WholeSet /\ panel \in Seq(RoleNames)
      BY <2>2 DEF RoutingInv, StageHeld, PanelTyped
    <3> QED
      BY <1>2, <2>2, <3>1
  <2> QED
    BY <2>1, <2>2 DEF RecordsFixed
<1>4. /\ decision'.source = "fixed" /\ decision'.profile = "diagnosis" /\ decision'.reviewers = panel
  BY <1>1 DEF Decision
<1>5. PanelTyped'
  BY <1>1, <1>2 DEF RoutingInv, PanelTyped, Known
<1>6. ~Routed'
  BY <1>4 DEF Routed
<1>7. DecisionHeld' /\ StageHeld' /\ RowsHeld'
  BY <1>1, <1>3, <1>4, <1>6 DEF DecisionHeld, StageHeld, RowsHeld
<1> QED
  BY <1>1, <1>5, <1>7 DEF RoutingInv

LEMMA ReviewStarts == RoutingInv /\ (Reuses \/ Seated) => RoutingInv'
<1> SUFFICES ASSUME RoutingInv, Reuses \/ Seated PROVE RoutingInv'
  OBVIOUS
<1>1. /\ mode # "fixed" /\ stage' = "reviewing" /\ decision' = decision
      /\ panel' = panel /\ todo' = todo /\ mode' = mode /\ diff' = diff /\ stamp' = stamp /\ deaths' = deaths
  BY DEF Reuses, Seated, RunMoves
<1>2. Allowlist' = Allowlist /\ WholeSet' = WholeSet
  BY <1>1 DEF WholeSet, Allowlist
<1>3. panel # <<>> /\ todo = <<>> /\ decision.source # "none"
  <2>1. CASE Reuses
    BY <2>1 DEF Reuses, RoutingInv, StageHeld
  <2>2. CASE Seated
    <3>1. Routed /\ panel # <<>> /\ todo = <<>>
      BY <2>2 DEF Seated, RoutingInv, StageHeld
    <3> QED
      BY <3>1 DEF Routed
  <2> QED
    BY <2>1, <2>2
<1>4. PanelTyped'
  BY <1>1, <1>2 DEF RoutingInv, PanelTyped, Known
<1>5. Routed' = Routed /\ DecisionHeld'
  <2>1. DecisionHeld /\ decision' = decision /\ panel' = panel /\ diff' = diff
    BY <1>1 DEF RoutingInv
  <2> QED
    BY <2>1, <1>2 DEF DecisionHeld, Routed
<1>6. StageHeld'
  BY <1>1, <1>3 DEF StageHeld
<1>7. RowsHeld'
  <2>1. RowsHeld /\ Answering(decision)' = Answering(decision)
    BY <1>1 DEF RoutingInv, Answering
  <2> QED
    BY <1>1, <1>2, <1>5, <2>1 DEF RowsHeld
<1> QED
  BY <1>1, <1>4, <1>5, <1>6, <1>7 DEF RoutingInv

\* A decision is persisted while there are no rows.
LEMMA DecidesStep ==
  ASSUME RoutingInv, panel = <<>>, mode # "fixed", NEW d, Sound(d, Scanned(diff), Allowlist), Decides(d)
  PROVE  RoutingInv'
<1>1. /\ decision' = d /\ todo' = Answering(d) /\ stage' = "seating"
      /\ panel' = panel /\ mode' = mode /\ diff' = diff /\ stamp' = stamp /\ deaths' = deaths
  BY DEF Decides, RunMoves
<1>2. Allowlist' = Allowlist /\ stamp \in Definitions \cup {NoDefinition}
  BY <1>1 DEF RoutingInv, Allowlist
<1>3. Choosable(Allowlist, Answering(d))
  BY <1>2, AnsweringIsChoosable DEF Sound
<1>4. Answering(decision)' = Answering(d)
  BY <1>1 DEF Answering
<1>5. PanelTyped'
  BY <1>1, <1>2, <1>3 DEF RoutingInv, PanelTyped, Known, Choosable
<1>6. Routed' /\ DecisionHeld'
  BY <1>1, <1>2 DEF DecisionHeld, Routed, Sound
<1>7. ToSet(panel) = {}
  BY DEF ToSet
<1>8. StageHeld' /\ RowsHeld'
  BY <1>1, <1>3, <1>4, <1>6, <1>7 DEF StageHeld, RowsHeld, Choosable
<1> QED
  BY <1>1, <1>2, <1>5, <1>6, <1>8 DEF RoutingInv

LEMMA RouterStep == RoutingInv /\ (StartsRouting \/ ModelAnswers \/ ModelFails) => RoutingInv'
<1> SUFFICES ASSUME RoutingInv, StartsRouting \/ ModelAnswers \/ ModelFails PROVE RoutingInv'
  OBVIOUS
<1>1. panel = <<>> /\ mode # "fixed"
  BY DEF RoutingInv, StageHeld, StartsRouting, ModelAnswers, ModelFails
<1>2. Choosable(Allowlist, Allowlist) /\ Scanned(diff).families \subseteq Families
  BY AllowlistIsChoosable, ScannedFamilies DEF RoutingInv
<1>3. CASE StartsRouting /\ mode = "hybrid"
  <2>1. /\ stage = "queued" /\ stage' = "asking" /\ decision' = decision
        /\ panel' = panel /\ todo' = todo /\ mode' = mode /\ diff' = diff /\ stamp' = stamp /\ deaths' = deaths
    BY <1>3 DEF StartsRouting, RunMoves
  <2>2. Allowlist' = Allowlist /\ todo = <<>>
    BY <2>1 DEF Allowlist, RoutingInv, StageHeld
  <2>3. PanelTyped'
    BY <2>1, <2>2 DEF RoutingInv, PanelTyped, Known
  <2>4. DecisionHeld'
    <3>1. DecisionHeld /\ decision' = decision /\ panel' = panel /\ diff' = diff
      BY <2>1 DEF RoutingInv
    <3> QED
      BY <3>1, <2>2 DEF DecisionHeld
  <2>5. StageHeld' /\ RowsHeld'
    BY <1>1, <1>3, <2>1, <2>2 DEF StageHeld, RowsHeld
  <2> QED
    BY <2>1, <2>3, <2>4, <2>5 DEF RoutingInv
<1>4. CASE StartsRouting /\ mode # "hybrid"
  <2>1. Decides(Deterministic(Scanned(diff), Allowlist))
    BY <1>4 DEF StartsRouting
  <2> QED
    BY <1>1, <1>2, <2>1, DecisionsAreSound, DecidesStep
<1>5. CASE ModelAnswers
  <2>1. PICK profile \in DOMAIN Rank, roles \in Answers :
           Decides(MergeModel(profile, roles, Scanned(diff), Allowlist))
    BY <1>5 DEF ModelAnswers
  <2> DEFINE d == MergeModel(profile, roles, Scanned(diff), Allowlist)
  <2>2. Sound(d, Scanned(diff), Allowlist)
    BY <1>2, DecisionsAreSound
  <2> HIDE DEF d
  <2> QED
    BY <1>1, <2>1, <2>2, DecidesStep DEF d
<1>6. CASE ModelFails
  <2>1. Decides(Fallback(Scanned(diff), Allowlist))
    BY <1>6 DEF ModelFails
  <2> QED
    BY <1>1, <1>2, <2>1, DecisionsAreSound, DecidesStep
<1> QED
  BY <1>3, <1>4, <1>5, <1>6

\* The next of a list whose first are the rows is no row yet.
LEMMA NextIsNew ==
  ASSUME NEW S, NEW a \in Seq(S), NEW b \in Seq(S), b # <<>>, IsInjective(a \o b)
  PROVE  /\ ~Contains(a, Head(b)) /\ Append(a, Head(b)) \o Tail(b) = a \o b
         /\ Tail(b) \in Seq(S) /\ Append(a, Head(b)) \in Seq(S)
<1>1. Append(a, Head(b)) \o Tail(b) = a \o b
  OBVIOUS
<1>2. Tail(b) \in Seq(S) /\ Append(a, Head(b)) \in Seq(S)
  OBVIOUS
<1>3. ~Contains(a, Head(b))
  <2> SUFFICES ASSUME NEW i \in 1..Len(a), a[i] = Head(b) PROVE FALSE
    BY DEF Contains
  <2>1. Len(a) \in Nat /\ Len(b) \in Nat /\ Len(b) >= 1 /\ Head(b) = b[1]
    OBVIOUS
  <2>2. i \in 1..(Len(a) + Len(b)) /\ Len(a) + 1 \in 1..(Len(a) + Len(b)) /\ i <= Len(a)
    BY <2>1
  <2>3. (a \o b)[i] = a[i] /\ (a \o b)[Len(a) + 1] = b[1] /\ DOMAIN (a \o b) = 1..(Len(a) + Len(b))
    BY <2>1, <2>2, ConcatProperties
  <2> DEFINE c == a \o b
  <2>4. i \in DOMAIN c /\ Len(a) + 1 \in DOMAIN c /\ c[i] = c[Len(a) + 1]
    BY <2>1, <2>2, <2>3
  <2> HIDE DEF c
  <2>5. IsInjective(c)
    BY DEF c
  <2>6. i = Len(a) + 1
    BY <2>4, <2>5 DEF IsInjective
  <2> QED
    BY <2>1, <2>2, <2>6
<1> QED
  BY <1>1, <1>2, <1>3

\* A list with a role that it lacks.
LEMMA AppendedRole ==
  ASSUME NEW S, NEW a \in Seq(S), NEW x \in S, ~Contains(a, x), IsInjective(a)
  PROVE  Append(a, x) \in Seq(S) /\ IsInjective(Append(a, x)) /\ ToSet(Append(a, x)) = ToSet(a) \cup {x}
<1> DEFINE b == Append(a, x)
           n == Len(a)
<1>1. /\ b \in Seq(S) /\ DOMAIN b = 1..(n + 1) /\ b[n + 1] = x /\ \A i \in 1..n : b[i] = a[i]
      /\ n \in Nat /\ DOMAIN a = 1..n
  OBVIOUS
<1> HIDE DEF b
<1>2. \A i \in 1..n : a[i] # x
  BY DEF Contains
<1>3. \A i \in 1..(n + 1) : i \in 1..n \/ i = n + 1
  BY <1>1
<1>4. IsInjective(b)
  <2> SUFFICES ASSUME NEW i \in 1..(n + 1), NEW k \in 1..(n + 1), b[i] = b[k] PROVE i = k
    BY <1>1 DEF IsInjective
  <2>1. CASE i \in 1..n /\ k \in 1..n
    BY <1>1, <2>1 DEF IsInjective
  <2> QED
    BY <1>1, <1>2, <1>3, <2>1
<1>5. \A i \in 1..n : i \in 1..(n + 1)
  BY <1>1
<1>6. n + 1 \in 1..(n + 1)
  BY <1>1
<1>7. ToSet(b) = ToSet(a) \cup {x}
  <2>1. \A i \in DOMAIN b : b[i] \in ToSet(a) \cup {x}
    BY <1>1, <1>3 DEF ToSet
  <2>2. \A i \in DOMAIN a : a[i] \in ToSet(b)
    <3> SUFFICES ASSUME NEW i \in DOMAIN a PROVE a[i] \in ToSet(b)
      OBVIOUS
    <3>1. i \in DOMAIN b /\ b[i] = a[i]
      BY <1>1, <1>5
    <3> QED
      BY <3>1 DEF ToSet
  <2>3. x \in ToSet(b)
    <3>1. n + 1 \in DOMAIN b /\ b[n + 1] = x
      BY <1>1, <1>6
    <3> QED
      BY <3>1 DEF ToSet
  <2> QED
    BY <2>1, <2>2, <2>3 DEF ToSet
<1> QED
  BY <1>1, <1>4, <1>7 DEF b

LEMMA SeatsStep == RoutingInv /\ Seats => RoutingInv'
<1> SUFFICES ASSUME RoutingInv, Seats PROVE RoutingInv'
  OBVIOUS
<1> DEFINE x == Head(todo)
<1>1. /\ stage = "seating" /\ todo # <<>> /\ todo' = Tail(todo) /\ stage' = stage /\ decision' = decision
      /\ panel' = (IF Contains(panel, x) THEN panel ELSE Append(panel, x))
      /\ mode' = mode /\ diff' = diff /\ stamp' = stamp /\ deaths' = deaths
  BY DEF Seats, RunMoves
<1>2. /\ Allowlist' = Allowlist /\ WholeSet' = WholeSet /\ WholeSet = Allowlist /\ IsInjective(Allowlist)
  BY <1>1, AllowlistTyped DEF RoutingInv, WholeSet, Allowlist
<1>3. ToSet(Answering(decision))' = ToSet(Answering(decision))
  BY <1>1 DEF Answering, ToSet
<1>4. /\ panel \in Seq(RoleNames) /\ IsInjective(panel) /\ todo \in Seq(RoleNames)
      /\ ToSet(panel) \subseteq ToSet(Allowlist) /\ ToSet(todo) \subseteq ToSet(Allowlist)
  BY DEF RoutingInv, PanelTyped, Known
<1>5. Tail(todo) \in Seq(RoleNames) /\ x \in RoleNames /\ x \in ToSet(todo) /\ ToSet(Tail(todo)) \subseteq ToSet(todo)
  <2>1. Tail(todo) \in Seq(RoleNames) /\ Len(Tail(todo)) = Len(todo) - 1 /\ x = todo[1] /\ Len(todo) \in Nat \ {0}
        /\ \A i \in 1..(Len(todo) - 1) : Tail(todo)[i] = todo[i + 1]
    BY <1>1, <1>4, HeadTailProperties
  <2>2. 1 \in DOMAIN todo /\ \A i \in 1..(Len(todo) - 1) : i + 1 \in DOMAIN todo
    BY <1>4, <2>1
  <2>3. DOMAIN Tail(todo) = 1..(Len(todo) - 1)
    BY <2>1
  <2> DEFINE t == Tail(todo)
  <2> HIDE DEF t
  <2>4. \A i \in DOMAIN t : t[i] \in ToSet(todo)
    BY <2>1, <2>2, <2>3 DEF t, ToSet
  <2> QED
    BY <1>4, <2>1, <2>2, <2>4 DEF t, ToSet
<1> HIDE DEF x
<1>6. /\ panel' \in Seq(RoleNames) /\ IsInjective(panel') /\ panel' # <<>>
      /\ ToSet(panel') = ToSet(panel) \cup {x}
  <2>1. CASE Contains(panel, x)
    <3>1. panel' = panel /\ x \in ToSet(panel) /\ panel # <<>>
      BY <1>1, <1>4, <2>1 DEF Contains, ToSet
    <3> QED
      BY <1>4, <3>1
  <2>2. CASE ~Contains(panel, x)
    <3> DEFINE r == Append(panel, x)
    <3>1. r \in Seq(RoleNames) /\ IsInjective(r) /\ ToSet(r) = ToSet(panel) \cup {x}
      BY <1>4, <1>5, <2>2, AppendedRole
    <3>2. r # <<>>
      BY <1>4, <1>5
    <3> QED
      BY <1>1, <2>2, <3>1, <3>2
  <2> QED
    BY <2>1, <2>2
<1>7. PanelTyped'
  BY <1>1, <1>2, <1>4, <1>5, <1>6 DEF PanelTyped, Known
<1>8. decision.source # "fixed" /\ DecisionHeld
  BY <1>1 DEF RoutingInv, StageHeld, Routed
<1>9. Routed' = Routed /\ DecisionHeld'
  BY <1>1, <1>2, <1>8 DEF DecisionHeld, Routed
<1>10. mode = "fixed" => panel' \o todo' = WholeSet'
  <2> SUFFICES ASSUME mode = "fixed" PROVE panel' \o todo' = WholeSet'
    OBVIOUS
  <2>1. panel \o todo = WholeSet
    BY <1>1 DEF RoutingInv, StageHeld
  <2>2. IsInjective(panel \o todo)
    BY <1>2, <2>1
  <2>3. ~Contains(panel, Head(todo)) /\ Append(panel, Head(todo)) \o Tail(todo) = panel \o todo
    BY <1>1, <1>4, <2>2, NextIsNew
  <2> QED
    BY <1>1, <1>2, <2>1, <2>3 DEF x
<1>11. mode # "fixed" => ToSet(panel') \cup ToSet(todo') \subseteq ToSet(Answering(decision))
  <2> SUFFICES ASSUME mode # "fixed" PROVE ToSet(panel') \cup ToSet(todo') \subseteq ToSet(Answering(decision))
    OBVIOUS
  <2>1. ToSet(panel) \cup ToSet(todo) \subseteq ToSet(Answering(decision))
    BY <1>1 DEF RoutingInv, StageHeld
  <2> QED
    BY <1>1, <1>5, <1>6, <2>1
<1>12. StageHeld'
  <2>1. mode' = "fixed" => panel' \o todo' = WholeSet' /\ decision'.source # "fixed" /\ (Routed' => deaths' > 0)
    BY <1>1, <1>8, <1>9, <1>10 DEF RoutingInv, StageHeld
  <2>2. mode' # "fixed" => Routed' /\ ToSet(panel') \cup ToSet(todo') \subseteq ToSet(Answering(decision))'
    BY <1>1, <1>9, <1>11, <1>3 DEF RoutingInv, StageHeld
  <2> QED
    BY <1>1, <1>6, <2>1, <2>2 DEF StageHeld
<1>13. RowsHeld'
  <2>1. mode' # "fixed" => ToSet(panel') \subseteq ToSet(Answering(decision))'
    BY <1>1, <1>11, <1>3
  <2> QED
    BY <1>1, <2>1 DEF RowsHeld
<1> QED
  BY <1>1, <1>7, <1>9, <1>12, <1>13 DEF RoutingInv

LEMMA FirstOfJoined ==
  ASSUME NEW S, NEW a \in Seq(S), NEW b \in Seq(S)
  PROVE  IsPrefix(a, a \o b)
<1> DEFINE w == a \o b
<1>1. /\ w \in Seq(S) /\ Len(w) = Len(a) + Len(b)
      /\ \A i \in 1..(Len(a) + Len(b)) : w[i] = IF i <= Len(a) THEN a[i] ELSE b[i - Len(a)]
  BY ConcatProperties
<1>2. Len(a) \in Nat /\ Len(b) \in Nat
  OBVIOUS
<1> HIDE DEF w
<1>3. \A i \in 1..Len(a) : w[i] = a[i]
  BY <1>1, <1>2
<1>4. SubSeq(a, 1, Len(a)) = SubSeq(w, 1, Len(a))
  BY <1>1, <1>2, <1>3
<1>5. IsPrefix(a, w)
  BY <1>1, <1>2, <1>4 DEF IsPrefix
<1> QED
  BY <1>5 DEF w

LEMMA DiesStep == RoutingInv /\ Dies => RoutingInv'
<1> SUFFICES ASSUME RoutingInv, Dies PROVE RoutingInv'
  OBVIOUS
<1>1. /\ deaths < MaxDeaths /\ deaths' = deaths + 1 /\ mode' \in {"fixed", "deterministic", "hybrid"}
      /\ stage' = "queued" /\ todo' = <<>> /\ diff' = diff /\ stamp' = stamp /\ decision' = decision
      /\ panel' = panel
  BY DEF Dies
<1>2. deaths \in Nat /\ deaths' \in 0..MaxDeaths /\ deaths' > 0
  BY <1>1, RoutingAssumption DEF RoutingInv
<1>3. /\ Allowlist' = Allowlist /\ WholeSet' = WholeSet /\ WholeSet = Allowlist
      /\ Answering(decision)' = Answering(decision)
  BY <1>1 DEF RoutingInv, WholeSet, Allowlist, Answering
<1>4. PanelTyped'
  <2>1. ToSet(<<>>) = {} /\ <<>> \in Seq(RoleNames)
    BY DEF ToSet
  <2> QED
    BY <1>1, <1>3, <2>1 DEF RoutingInv, PanelTyped, Known
<1>5. Routed' = Routed /\ DecisionHeld'
  <2>1. DecisionHeld
    BY DEF RoutingInv
  <2> QED
    BY <2>1, <1>1, <1>3 DEF DecisionHeld, Routed
<1>6. StageHeld'
  BY <1>1, <1>2 DEF StageHeld
<1>7. RowsHeld'
  <2> SUFFICES ASSUME Routed, panel # <<>>
               PROVE  ToSet(panel) \subseteq ToSet(Answering(decision)) \/ (deaths' > 1 /\ IsPrefix(panel, WholeSet))
    BY <1>1, <1>3, <1>5 DEF RowsHeld
  <2>1. CASE stage = "seating" /\ mode = "fixed"
    <3>1. panel \o todo = WholeSet /\ deaths > 0 /\ panel \in Seq(RoleNames) /\ todo \in Seq(RoleNames)
      BY <2>1 DEF RoutingInv, StageHeld, PanelTyped
    <3>2. IsPrefix(panel, panel \o todo)
      BY <3>1, FirstOfJoined
    <3> QED
      BY <1>1, <1>2, <3>1, <3>2
  <2>2. CASE ~(stage = "seating" /\ mode = "fixed")
    <3>1. ToSet(panel) \subseteq ToSet(Answering(decision)) \/ (deaths > 1 /\ IsPrefix(panel, WholeSet))
      BY <2>2 DEF RoutingInv, RowsHeld
    <3> QED
      BY <1>1, <1>2, <3>1
  <2> QED
    BY <2>1, <2>2
<1> QED
  BY <1>1, <1>2, <1>4, <1>5, <1>6, <1>7 DEF RoutingInv

LEMMA RoutingKept == RoutingInv /\ [RoutingNext]_routingVars => RoutingInv'
<1> SUFFICES ASSUME RoutingInv, [RoutingNext]_routingVars PROVE RoutingInv'
  OBVIOUS
<1>1. CASE Fixed
  BY <1>1, FixedStep
<1>2. CASE RecordsFixed
  BY <1>2, RecordsFixedStep
<1>3. CASE Reuses \/ Seated
  BY <1>3, ReviewStarts
<1>4. CASE StartsRouting \/ ModelAnswers \/ ModelFails
  BY <1>4, RouterStep
<1>5. CASE Seats
  BY <1>5, SeatsStep
<1>6. CASE Dies
  BY <1>6, DiesStep
<1>7. CASE UNCHANGED routingVars
  BY <1>7 DEF routingVars, RoutingInv, PanelTyped, DecisionHeld, StageHeld, RowsHeld, Routed, Known, Allowlist,
              WholeSet, Answering, Sound
<1> QED
  BY <1>1, <1>2, <1>3, <1>4, <1>5, <1>6, <1>7 DEF RoutingNext

LEMMA RoutingSound == RoutingSpec => []RoutingInv
<1>1. RoutingInit => RoutingInv
  BY RoutingStarts
<1>2. RoutingInv /\ [RoutingNext]_routingVars => RoutingInv'
  BY RoutingKept
<1> QED
  BY <1>1, <1>2, PTL DEF RoutingSpec

\* What is held of a decision and its rows gives the properties.
LEMMA RoutingTypes == RoutingInv => RoutingTypeOK
<1> SUFFICES ASSUME RoutingInv PROVE RoutingTypeOK
  OBVIOUS
<1>1. DecisionHeld /\ PanelTyped
  BY DEF RoutingInv
<1>2. decision.profile \in DOMAIN Rank /\ Known(decision.reviewers)
  <2>1. CASE Routed
    BY <1>1, <2>1, SourceOfDecision DEF Sound, Known
  <2>2. CASE decision.source = "fixed"
    BY <1>1, <2>2, SourceOfDecision, Levels DEF PanelTyped
  <2>3. CASE decision.source = "none"
    <3>1. decision = Undecided
      BY <1>1, <2>3, SourceOfDecision
    <3>2. decision.profile = "diagnosis" /\ decision.reviewers = <<>>
      BY <3>1 DEF Undecided
    <3> QED
      BY <3>2, Levels DEF Known, ToSet
  <2> QED
    BY <1>1, <2>1, <2>2, <2>3, SourceOfDecision DEF Routed
<1> QED
  BY <1>1, <1>2 DEF RoutingInv, RoutingTypeOK, PanelTyped

LEMMA RoutingAnswers == RoutingInv => RiskIsAnswered /\ PanelAnswersDecision
<1> SUFFICES ASSUME RoutingInv PROVE RiskIsAnswered /\ PanelAnswersDecision
  OBVIOUS
<1>1. DecisionHeld /\ PanelTyped /\ StageHeld /\ RowsHeld
  BY DEF RoutingInv
<1>2. RiskIsAnswered
  BY <1>1, SourceOfDecision DEF RiskIsAnswered, Routed, Sound
<1>3. PanelAnswersDecision
  <2> SUFFICES ASSUME stage = "reviewing" PROVE
        /\ panel # <<>> /\ IsInjective(panel)
        /\ \/ ToSet(panel) \subseteq
                ToSet(IF decision.source = "fixed" THEN decision.reviewers ELSE Answering(decision))
           \/ deaths > 1 /\ IsPrefix(panel, WholeSet)
    BY DEF PanelAnswersDecision
  <2>1. panel # <<>> /\ IsInjective(panel) /\ decision.source # "none"
    BY <1>1 DEF StageHeld, PanelTyped
  <2>2. CASE decision.source = "fixed"
    BY <1>1, <2>1, <2>2, SourceOfDecision
  <2>3. CASE decision.source # "fixed"
    <3>1. Routed
      BY <1>1, <2>1, <2>3, SourceOfDecision DEF Routed
    <3> QED
      BY <1>1, <2>1, <2>3, <3>1 DEF RowsHeld
  <2> QED
    BY <2>2, <2>3
<1> QED
  BY <1>2, <1>3

\* Every column and row of a job has its type, and the reviewers recorded, to
\* run and to insert are of the list the job may choose from.
THEOREM RoutingWellTyped == RoutingSpec => []RoutingTypeOK
<1>1. RoutingInv => RoutingTypeOK
  BY RoutingTypes
<1> QED
  BY <1>1, RoutingSound, PTL

\* Whatever the model answers or fails to, a routed decision is at or over the
\* level of the scanned signals, with somebody chosen and no more than the limit.
THEOREM RiskIsAlwaysAnswered == RoutingSpec => []RiskIsAnswered
<1>1. RoutingInv => RiskIsAnswered
  BY RoutingAnswers
<1> QED
  BY <1>1, RoutingSound, PTL

\* However often the process dies and under whichever mode it comes back, the
\* specialists that review are of one choice, none twice.
THEOREM PanelAlwaysAnswers == RoutingSpec => []PanelAnswersDecision
<1>1. RoutingInv => PanelAnswersDecision
  BY RoutingAnswers
<1> QED
  BY <1>1, RoutingSound, PTL
-----------------------------------------------------------------------------
(* The editor of a profile *)

\* Inductive: the draft can be activated, and what each page has.
TimesAreSaid == \A n \in Times : n <= MaxTime => Exact(n)

Definition == [reviewers : Seq(FormRows), alert : SUBSET AllRoles, ceiling : Nat]
Roster(rows) ==
  /\ rows # <<>> /\ Len(rows) <= MaxRows
  /\ \A i \in DOMAIN rows : rows[i].role \in KnownRoles /\ (TimesAreSaid => Converts(rows[i].time))
  /\ \A i, k \in DOMAIN rows : rows[i].role = rows[k].role => i = k

Activatable(def) ==
  /\ def \in Definition /\ Roster(def.reviewers)
  /\ def.alert \subseteq RolesOf(def.reviewers) /\ def.ceiling <= MaxCeiling

FormSpace == [rows : Seq(FormRows), alert : SUBSET AllRoles, ceiling : Nat]
PageSpace == [at : {"closed", "open", "testing"}, form : FormSpace, seq : Nat, based : Nat, own : BOOLEAN]

PageHeld(t) ==
  /\ Len(pages[t].form.rows) <= MaxRows /\ pages[t].seq <= draft.seq
  /\ t \in probing <=> pages[t].at = "testing"
  /\ pages[t].at = "open" /\ ~pages[t].own /\ pages[t].seq = draft.seq => pages[t].form = ValuesOf(draft.def)

EditorInv ==
  /\ draft.seq \in 0..MaxSaves /\ Activatable(draft.def)
  /\ pages \in [Tabs -> PageSpace] /\ errors = [t \in Tabs |-> errors[t]]
  /\ hasRole \in BOOLEAN /\ probing \subseteq Tabs /\ IsFiniteSet(probing) /\ Cardinality(probing) <= 1
  /\ \A t \in Tabs : PageHeld(t)

LEMMA FormTyped ==
  ASSUME NEW f \in FormSpace
  PROVE  /\ f.rows \in Seq(FormRows) /\ f.alert \subseteq AllRoles /\ f.ceiling \in Nat
         /\ f = Form(f.rows, f.alert, f.ceiling)
         /\ \A i \in DOMAIN f.rows : f.rows[i] \in FormRows
BY DEF FormSpace, Form

LEMMA RowTyped ==
  ASSUME NEW r \in FormRows
  PROVE  r.role \in AllRoles \cup {""} /\ r.time \in Nat /\ "" \notin AllRoles
         /\ [r EXCEPT !.role = ""] \in FormRows /\ FormRow("", 0) \in FormRows
<1>1. Times \subseteq Nat \ {0} /\ "" \notin BuiltIn \cup {Custom}
  BY EditorAssumption
<1>2. r.role \in AllRoles \cup {""} /\ r.time \in Times \cup {0}
      /\ [r EXCEPT !.role = ""] \in FormRows /\ FormRow("", 0) \in FormRows
  BY DEF FormRows, FormRow
<1>3. r.time \in Nat
  <2>1. \A n \in Times : n \in Nat
    BY <1>1
  <2>2. r.time \in Times \cup {0}
    BY <1>2
  <2> DEFINE n == r.time
  <2>3. n \in Times \cup {0}
    BY <2>2
  <2> HIDE DEF n
  <2>4. n \in Nat
    BY <2>1, <2>3
  <2> QED
    BY <2>4 DEF n
<1>4. "" \notin AllRoles
  BY <1>1 DEF AllRoles
<1> QED
  BY <1>2, <1>3, <1>4

\* What is shown of a form is a form with as many rows; a row of a known role is
\* shown as it is.
LEMMA ShownForm ==
  ASSUME NEW f \in FormSpace
  PROVE  /\ Shown(f) \in FormSpace /\ Len(Shown(f).rows) = Len(f.rows) /\ DOMAIN Shown(f).rows = DOMAIN f.rows
         /\ \A i \in DOMAIN f.rows : f.rows[i].role \in KnownRoles => Shown(f).rows[i] = f.rows[i]
<1> DEFINE row(i) == IF f.rows[i].role \in KnownRoles THEN f.rows[i] ELSE [f.rows[i] EXCEPT !.role = ""]
           rows   == [i \in DOMAIN f.rows |-> row(i)]
           alert  == f.alert \cap RolesOf(f.rows)
<1>1. /\ f.rows \in Seq(FormRows) /\ f.alert \subseteq AllRoles /\ f.ceiling \in Nat
      /\ \A i \in DOMAIN f.rows : f.rows[i] \in FormRows
  BY FormTyped
<1>2. \A i \in DOMAIN f.rows : row(i) \in FormRows
  BY <1>1, RowTyped
<1> HIDE DEF row
<1>3. rows \in Seq(FormRows) /\ Len(rows) = Len(f.rows) /\ DOMAIN rows = DOMAIN f.rows
  BY <1>1, <1>2
<1>4. Shown(f) = Form(rows, alert, f.ceiling)
  BY DEF Shown, row
<1>5. alert \subseteq AllRoles
  BY <1>1
<1>6. \A i \in DOMAIN f.rows : rows[i] = row(i)
  OBVIOUS
<1> HIDE DEF rows, alert
<1>7. Shown(f).rows = rows /\ Shown(f) \in FormSpace
  BY <1>1, <1>3, <1>4, <1>5 DEF Form, FormSpace
<1> QED
  BY <1>3, <1>6, <1>7 DEF row

\* A draft that can be activated is shown as it is.
LEMMA ShownDraft ==
  ASSUME NEW def, Activatable(def)
  PROVE  Shown(ValuesOf(def)) = ValuesOf(def) /\ ValuesOf(def) \in FormSpace
         /\ ValuesOf(def).rows = def.reviewers
<1>1. /\ def.reviewers \in Seq(FormRows) /\ def.alert \subseteq AllRoles /\ def.ceiling \in Nat
      /\ def.alert \subseteq RolesOf(def.reviewers)
      /\ \A i \in DOMAIN def.reviewers : def.reviewers[i].role \in KnownRoles
  BY DEF Activatable, Definition, Roster
<1> DEFINE v == ValuesOf(def)
<1>2. v.rows = def.reviewers /\ v.alert = def.alert /\ v.ceiling = def.ceiling /\ v \in FormSpace
  BY <1>1 DEF ValuesOf, Form, FormSpace
<1>3. v = Form(v.rows, v.alert, v.ceiling)
  BY DEF ValuesOf, Form
<1> HIDE DEF v
<1>4. [i \in DOMAIN v.rows |-> IF v.rows[i].role \in KnownRoles THEN v.rows[i]
                                ELSE [v.rows[i] EXCEPT !.role = ""]] = v.rows
  <2> DEFINE rows == v.rows
  <2>1. \A i \in DOMAIN rows : rows[i].role \in KnownRoles
    BY <1>1, <1>2
  <2>2. rows = [i \in DOMAIN rows |-> rows[i]]
    BY <1>1, <1>2
  <2> HIDE DEF rows
  <2>3. [i \in DOMAIN rows |-> IF rows[i].role \in KnownRoles THEN rows[i]
                              ELSE [rows[i] EXCEPT !.role = ""]] = [i \in DOMAIN rows |-> rows[i]]
    BY <2>1
  <2> QED
    BY <2>2, <2>3 DEF rows
<1>5. v.alert \cap RolesOf(v.rows) = v.alert
  BY <1>1, <1>2
<1>6. Shown(v) = v
  BY <1>3, <1>4, <1>5 DEF Shown
<1> QED
  BY <1>2, <1>6 DEF v

\* The members of two errors are their own.
LEMMA ErrorsApart ==
  /\ \A i, k : <<"role", i>> = <<"role", k>> => i = k
  /\ \A i : <<"role", i>>[1] = "role" /\ <<"role", i>>[2] = i /\ <<"timeout", i>>[1] # "role"
  /\ <<"alert", 0>>[1] # "role" /\ <<"ceiling", 0>>[1] # "role" /\ <<"form", 0>>[1] # "role"
<1>1. \A i, k : <<"role", i>> = <<"role", k>> => i = k
  <2> TAKE i, k
  <2>1. <<"role", i>>[2] = i /\ <<"role", k>>[2] = k
    OBVIOUS
  <2> QED
    BY <2>1
<1> QED
  BY <1>1

LEMMA NumbersApart ==
  ASSUME NEW n \in Nat, NEW i \in 1..n, NEW k \in 1..n, i # k
  PROVE  i \in 1..(k - 1) \/ k \in 1..(i - 1)
OBVIOUS

\* A save that flags nothing stores what can be activated.
LEMMA SavedCanBeActivated ==
  ASSUME NEW f \in FormSpace, Len(f.rows) <= MaxRows, SaveErrors(f) = {}
  PROVE  Activatable(DefinitionOf(f))
<1> DEFINE rows == f.rows
           I    == FormIndices(rows)
           kept == KeptAt(rows, I)
           def  == DefinitionOf(f)
<1>1. MaxRows \in Nat
  BY EditorAssumption
<1>2. /\ rows \in Seq(FormRows) /\ f.alert \subseteq AllRoles /\ f.ceiling \in Nat
      /\ \A i \in DOMAIN rows : rows[i] \in FormRows
  BY FormTyped
<1>3. Refused(f) = {}
  BY DEF SaveErrors
<1>4. /\ BadRows(rows) = {} /\ BadTimes(rows) = {} /\ f.alert \subseteq RolesOf(rows)
      /\ f.ceiling <= MaxCeiling /\ I # {}
  <2>1. BadRows(rows) = {}
    BY <1>3 DEF Refused
  <2>2. BadTimes(rows) = {}
    BY <1>3 DEF Refused
  <2>3. f.alert \subseteq RolesOf(rows)
    BY <1>3 DEF Refused
  <2>4. f.ceiling <= MaxCeiling
    BY <1>3 DEF Refused
  <2>5. I # {}
    BY <1>3 DEF Refused
  <2> QED
    BY <2>1, <2>2, <2>3, <2>4, <2>5
<1>5. Repeated(rows) = {}
  BY <1>3 DEF SaveErrors
<1>6. I \subseteq DOMAIN rows /\ DOMAIN rows = 1..Len(rows) /\ Len(rows) \in Nat
  BY <1>2 DEF FormIndices
<1>7. \A i \in I : rows[i].role \in KnownRoles /\ rows[i].role # "" /\ Converts(rows[i].time)
  <2> SUFFICES ASSUME NEW i \in I PROVE rows[i].role \in KnownRoles /\ rows[i].role # "" /\ Converts(rows[i].time)
    OBVIOUS
  <2>1. i \in DOMAIN rows /\ ~IsBlank(rows[i])
    BY DEF FormIndices
  <2>2. rows[i].role \in KnownRoles
    BY <1>4, <2>1 DEF BadRows
  <2>3. Converts(rows[i].time)
    BY <1>4, <2>1 DEF BadTimes
  <2> QED
    BY <2>2, <2>3, EditorAssumption DEF KnownRoles, AllRoles
<1>8. \A i, k \in I : rows[i].role = rows[k].role => i = k
  <2> SUFFICES ASSUME NEW i \in I, NEW k \in I, rows[i].role = rows[k].role, i # k PROVE FALSE
    OBVIOUS
  <2>1. i \in 1..Len(rows) /\ k \in 1..Len(rows) /\ rows[i].role # "" /\ rows[k].role # ""
    BY <1>6, <1>7
  <2>2. i \in 1..(k - 1) \/ k \in 1..(i - 1)
    BY <1>6, <2>1, NumbersApart
  <2> QED
    BY <1>5, <1>6, <2>1, <2>2 DEF Repeated
<1>9. /\ Cardinality(I) \in Nat /\ kept \in Seq(FormRows) /\ Len(kept) = Cardinality(I)
      /\ ToSet(kept) = {rows[i] : i \in I} /\ kept # <<>> /\ IsInjective(kept)
  <2>1. \A i, k \in I : rows[i] = rows[k] => i = k
    BY <1>8
  <2> HIDE DEF I, rows
  <2> QED
    BY <1>2, <1>4, <1>6, <2>1, KeptIsPart
<1>10. Cardinality(I) <= MaxRows
  <2>1. 1 \in Int /\ Len(rows) \in Int /\ Len(rows) - 1 + 1 = Len(rows) /\ (1 > Len(rows) => Len(rows) = 0)
    BY <1>6
  <2>2. IsFiniteSet(DOMAIN rows) /\ Cardinality(DOMAIN rows) = Len(rows)
    <3> HIDE DEF rows
    <3> QED
      BY <1>6, <2>1, FS_Interval
  <2>3. Cardinality(I) <= Len(rows)
    BY <1>6, <2>2, FS_Subset
  <2> QED
    BY <1>1, <1>6, <1>9, <2>3
<1>11. def.reviewers = kept /\ def.alert = f.alert /\ def.ceiling = f.ceiling /\ def \in Definition
  BY <1>2, <1>9 DEF DefinitionOf, Definition
<1>12. \A n \in DOMAIN kept : \E i \in I : kept[n] = rows[i]
  BY <1>9 DEF ToSet
<1> HIDE DEF kept, I, rows, def
<1>13. Roster(kept)
  <2>1. \A n \in DOMAIN kept : kept[n].role \in KnownRoles /\ Converts(kept[n].time)
    BY <1>7, <1>12
  <2>2. ASSUME NEW m \in DOMAIN kept, NEW n \in DOMAIN kept, kept[m].role = kept[n].role
        PROVE  m = n
    <3>1. PICK i \in I : kept[m] = rows[i]
      BY <1>12
    <3>2. PICK k \in I : kept[n] = rows[k]
      BY <1>12
    <3>3. i = k
      BY <1>8, <2>2, <3>1, <3>2
    <3> QED
      BY <1>9, <3>1, <3>2, <3>3 DEF IsInjective
  <2> QED
    BY <1>9, <1>10, <2>1, <2>2 DEF Roster
<1>14. f.alert \subseteq RolesOf(kept)
  <2> SUFFICES ASSUME NEW a \in f.alert PROVE a \in RolesOf(kept)
    OBVIOUS
  <2>1. a \in AllRoles /\ a \in RolesOf(rows)
    BY <1>2, <1>4
  <2>2. PICK i \in DOMAIN rows : a = rows[i].role
    BY <2>1 DEF RolesOf, ToSet
  <2>3. a # ""
    BY <2>1, EditorAssumption DEF AllRoles
  <2>4. i \in I
    BY <2>2, <2>3 DEF I, FormIndices, IsBlank
  <2>5. rows[i] \in ToSet(kept)
    BY <1>9, <2>4
  <2> QED
    BY <2>2, <2>5 DEF RolesOf
<1> QED
  BY <1>4, <1>11, <1>13, <1>14 DEF Activatable, def

\* A draft that can be activated, and whose times can be said, is accepted and
\* stored as it is.
LEMMA DraftIsAccepted ==
  ASSUME TimesAreSaid, NEW def, Activatable(def)
  PROVE  SaveErrors(ValuesOf(def)) = {} /\ DefinitionOf(ValuesOf(def)) = def
<1> DEFINE rows == def.reviewers
           v    == ValuesOf(def)
<1>1. /\ rows \in Seq(FormRows) /\ def.alert \subseteq RolesOf(rows) /\ def.ceiling <= MaxCeiling /\ rows # <<>>
      /\ \A i \in DOMAIN rows : rows[i].role \in KnownRoles /\ Converts(rows[i].time)
      /\ \A i, k \in DOMAIN rows : rows[i].role = rows[k].role => i = k
      /\ def = [reviewers |-> rows, alert |-> def.alert, ceiling |-> def.ceiling]
  BY DEF Activatable, Definition, Roster
<1>2. v.rows = rows /\ v.alert = def.alert /\ v.ceiling = def.ceiling
  BY DEF ValuesOf, Form
<1>3. DOMAIN rows = 1..Len(rows) /\ Len(rows) \in Nat /\ 1 \in DOMAIN rows
  BY <1>1
<1> HIDE DEF rows, v
<1>4. \A i \in DOMAIN rows : rows[i].role # ""
  BY <1>1, EditorAssumption DEF KnownRoles, AllRoles
<1>5. FormIndices(rows) = DOMAIN rows
  BY <1>4 DEF FormIndices, IsBlank
<1>6. BadRows(rows) = {} /\ BadTimes(rows) = {}
  BY <1>1 DEF BadRows, BadTimes
<1>7. Repeated(rows) = {}
  <2> SUFFICES ASSUME NEW i \in Repeated(rows) PROVE FALSE
    OBVIOUS
  <2>1. i \in DOMAIN rows /\ \E k \in 1..(i - 1) : rows[k].role = rows[i].role
    BY DEF Repeated
  <2>2. PICK k \in 1..(i - 1) : rows[k].role = rows[i].role
    BY <2>1
  <2>3. i \in 1..Len(rows)
    BY <1>3, <2>1
  <2>4. k \in DOMAIN rows /\ k # i
    BY <1>3, <2>3
  <2> QED
    BY <1>1, <2>1, <2>2, <2>4
<1>8. Refused(v) = {}
  <2>1. {<<"role", KeyIndex(rows, i)>> : i \in BadRows(rows)} = {}
    BY <1>6
  <2>2. {<<"timeout", i>> : i \in BadTimes(rows)} = {}
    BY <1>6
  <2>3. FormIndices(rows) # {}
    BY <1>3, <1>5
  <2> QED
    BY <1>1, <1>2, <2>1, <2>2, <2>3 DEF Refused
<1>9. SaveErrors(v) = {}
  <2>1. {<<"role", i>> : i \in Repeated(rows)} = {}
    BY <1>7
  <2> QED
    BY <1>2, <1>8, <2>1 DEF SaveErrors
<1>10. KeptAt(rows, FormIndices(rows)) = rows
  BY <1>1, <1>5, KeptWhole
<1>11. DefinitionOf(v) = def
  BY <1>1, <1>2, <1>10 DEF DefinitionOf
<1> QED
  BY <1>9, <1>11 DEF v

LEMMA EditorStarts == EditorInit => EditorInv
<1> SUFFICES ASSUME EditorInit PROVE EditorInv
  OBVIOUS
<1>1. PICK r \in BuiltIn, t \in {n \in Times : n <= MaxTime} :
        draft = [def |-> [reviewers |-> <<FormRow(r, t)>>, alert |-> {}, ceiling |-> 0], seq |-> 0]
  BY DEF EditorInit
<1>2. /\ pages = [u \in Tabs |-> Closed] /\ errors = [u \in Tabs |-> {}]
      /\ hasRole = TRUE /\ probing = {}
  BY DEF EditorInit
<1> DEFINE row  == FormRow(r, t)
           rows == <<row>>
<1>3. /\ row.role = r /\ row.time = t /\ row \in FormRows /\ r \in AllRoles
  BY DEF FormRow, FormRows, AllRoles
<1>4. MaxRows \in Nat /\ MaxRows >= 1 /\ MaxCeiling \in Nat /\ MaxSaves \in Nat
  <2>1. MaxRows \in Nat \ {0} /\ MaxCeiling \in Nat /\ MaxSaves \in Nat
    BY EditorAssumption
  <2> QED
    BY <2>1
<1>5. TimesAreSaid => Converts(t)
  BY DEF TimesAreSaid, Converts
<1>6. draft.def.reviewers = rows /\ draft.def.alert = {} /\ draft.def.ceiling = 0 /\ draft.seq = 0
      /\ draft.def = [reviewers |-> rows, alert |-> {}, ceiling |-> 0]
  BY <1>1
<1> HIDE DEF row
<1>7. rows \in Seq(FormRows) /\ Len(rows) = 1 /\ DOMAIN rows = {1} /\ rows[1] = row /\ rows # <<>>
  BY <1>3
<1> HIDE DEF rows
<1>8. Roster(rows)
  BY <1>2, <1>3, <1>4, <1>5, <1>7 DEF Roster, KnownRoles
<1>9. draft.def \in Definition
  BY <1>6, <1>7 DEF Definition
<1>10. Activatable(draft.def)
  BY <1>4, <1>6, <1>8, <1>9 DEF Activatable
<1>11. Closed \in PageSpace
  <2>1. Form(<<>>, {}, 0) \in FormSpace
    BY DEF Form, FormSpace
  <2> QED
    BY <2>1 DEF Closed, PageSpace
<1>12. Closed.at = "closed" /\ Closed.seq = 0 /\ Len(Closed.form.rows) = 0
  BY DEF Closed, Form
<1> HIDE DEF Closed
<1>13. \A u \in Tabs : PageHeld(u)
  BY <1>2, <1>4, <1>6, <1>12 DEF PageHeld
<1>14. IsFiniteSet(probing) /\ Cardinality(probing) <= 1
  BY <1>2, FS_EmptySet
<1> QED
  BY <1>2, <1>4, <1>6, <1>10, <1>11, <1>13, <1>14 DEF EditorInv

\* One page changes, and perhaps the test that runs.
LEMMA PageChanges ==
  ASSUME EditorInv, NEW t \in Tabs, NEW page \in PageSpace, Len(page.form.rows) <= MaxRows,
         page.seq <= draft.seq,
         page.at = "open" /\ ~page.own /\ page.seq = draft.seq => page.form = ValuesOf(draft.def),
         draft' = draft, hasRole' = hasRole, pages' = [pages EXCEPT ![t] = page],
         errors' = [u \in Tabs |-> errors'[u]],
         probing' \subseteq Tabs, IsFiniteSet(probing'), Cardinality(probing') <= 1,
         \A u \in Tabs : u # t => (u \in probing' <=> u \in probing),
         t \in probing' <=> page.at = "testing"
  PROVE  EditorInv'
<1>1. draft.seq \in 0..MaxSaves /\ Activatable(draft.def) /\ pages \in [Tabs -> PageSpace] /\ hasRole \in BOOLEAN
      /\ \A u \in Tabs : PageHeld(u)
  BY DEF EditorInv
<1>2. Activatable(draft.def)'
  BY <1>1 DEF Activatable, Roster, KnownRoles, RolesOf, Converts
<1>3. /\ pages' \in [Tabs -> PageSpace] /\ pages'[t] = page
      /\ \A u \in Tabs : u # t => pages'[u] = pages[u]
  BY <1>1
<1>4. \A u \in Tabs : PageHeld(u)'
  <2> SUFFICES ASSUME NEW u \in Tabs PROVE PageHeld(u)'
    OBVIOUS
  <2>1. CASE u = t
    BY <1>3, <2>1 DEF PageHeld, ValuesOf, Form
  <2>2. CASE u # t
    <3>1. PageHeld(u) /\ pages'[u] = pages[u] /\ (u \in probing' <=> u \in probing)
      BY <1>1, <1>3, <2>2
    <3> QED
      BY <3>1 DEF PageHeld, ValuesOf, Form
  <2> QED
    BY <2>1, <2>2
<1> QED
  BY <1>1, <1>2, <1>3, <1>4 DEF EditorInv

LEMMA PageTyped ==
  ASSUME EditorInv, NEW t \in Tabs
  PROVE  /\ pages[t] \in PageSpace /\ pages[t].form \in FormSpace /\ Len(pages[t].form.rows) <= MaxRows
         /\ pages[t].seq \in Nat /\ pages[t].based \in Nat /\ draft.seq \in Nat
         /\ (t \in probing <=> pages[t].at = "testing")
<1>1. pages[t] \in PageSpace /\ PageHeld(t) /\ draft.seq \in 0..MaxSaves
  BY DEF EditorInv
<1>2. pages[t].form \in FormSpace /\ pages[t].seq \in Nat /\ pages[t].based \in Nat
  BY <1>1 DEF PageSpace
<1>3. draft.seq \in Nat
  BY <1>1
<1> QED
  BY <1>1, <1>2, <1>3 DEF PageHeld

LEMMA RendersStep ==
  ASSUME EditorInv, NEW t \in Tabs, pages[t].at = "open", NEW f \in FormSpace, Len(f.rows) <= MaxRows, NEW errs,
         Renders(t, f, errs), draft' = draft, hasRole' = hasRole, probing' = probing
  PROVE  EditorInv'
<1> DEFINE page == [pages[t] EXCEPT !.at = "open", !.form = Shown(f), !.seq = draft.seq, !.own = TRUE]
<1>1. /\ pages[t] \in PageSpace /\ pages[t].based \in Nat /\ draft.seq \in Nat
      /\ (t \in probing <=> pages[t].at = "testing")
  BY PageTyped
<1>2. Shown(f) \in FormSpace /\ Len(Shown(f).rows) = Len(f.rows)
  BY ShownForm
<1>3. pages' = [pages EXCEPT ![t] = page] /\ errors' = [errors EXCEPT ![t] = errs]
  BY DEF Renders
<1>4. page \in PageSpace /\ page.at = "open" /\ page.form = Shown(f) /\ page.seq = draft.seq /\ page.own = TRUE
  BY <1>1, <1>2 DEF PageSpace
<1> HIDE DEF page
<1>5. errors' = [u \in Tabs |-> errors'[u]]
  BY <1>3 DEF EditorInv
<1>6. probing \subseteq Tabs /\ IsFiniteSet(probing) /\ Cardinality(probing) <= 1
  BY DEF EditorInv
<1>7. draft.seq <= draft.seq
  BY <1>1
<1>8. /\ Len(page.form.rows) <= MaxRows /\ page.seq <= draft.seq /\ t \notin probing /\ page.at # "testing"
      /\ page.own
  BY <1>1, <1>2, <1>4, <1>7
<1> QED
  BY <1>3, <1>4, <1>5, <1>6, <1>8, PageChanges

LEMMA OpensPageStep == EditorInv /\ (\E t \in Tabs : OpensPage(t)) => EditorInv'
<1> SUFFICES ASSUME EditorInv, NEW t \in Tabs, OpensPage(t) PROVE EditorInv'
  OBVIOUS
<1> DEFINE page == [at |-> "open", form |-> Shown(ValuesOf(draft.def)), seq |-> draft.seq,
                    based |-> draft.seq, own |-> FALSE]
<1>1. /\ pages[t].at = "closed" /\ pages' = [pages EXCEPT ![t] = page] /\ errors' = [errors EXCEPT ![t] = {}]
      /\ draft' = draft /\ probing' = probing /\ hasRole' = hasRole
  BY DEF OpensPage, Others
<1>2. /\ draft.seq \in Nat /\ (t \in probing <=> pages[t].at = "testing") /\ Activatable(draft.def)
      /\ probing \subseteq Tabs /\ IsFiniteSet(probing) /\ Cardinality(probing) <= 1
  BY PageTyped DEF EditorInv
<1>3. /\ Shown(ValuesOf(draft.def)) = ValuesOf(draft.def) /\ ValuesOf(draft.def) \in FormSpace
      /\ ValuesOf(draft.def).rows = draft.def.reviewers /\ Len(draft.def.reviewers) <= MaxRows
  BY <1>2, ShownDraft DEF Activatable, Roster
<1>4. page \in PageSpace /\ page.at = "open" /\ page.form = ValuesOf(draft.def) /\ page.seq = draft.seq
  BY <1>2, <1>3 DEF PageSpace
<1> HIDE DEF page
<1>5. errors' = [u \in Tabs |-> errors'[u]]
  BY <1>1 DEF EditorInv
<1>6. page.seq <= draft.seq /\ Len(page.form.rows) <= MaxRows /\ t \notin probing /\ page.at # "testing"
  BY <1>1, <1>2, <1>3, <1>4
<1> QED
  BY <1>1, <1>2, <1>4, <1>5, <1>6, PageChanges

\* A form with other rows.
LEMMA OtherRows ==
  ASSUME NEW f \in FormSpace, NEW rows \in Seq(FormRows)
  PROVE  [f EXCEPT !.rows = rows] \in FormSpace /\ [f EXCEPT !.rows = rows].rows = rows
         /\ [f EXCEPT !.rows = rows].alert = f.alert
BY DEF FormSpace

\* The rows without the one at a place.
LEMMA RemovedRow ==
  ASSUME NEW S, NEW s \in Seq(S), NEW i \in DOMAIN s
  PROVE  /\ RemoveAt(s, i) \in Seq(S) /\ Len(RemoveAt(s, i)) = Len(s) - 1
         /\ \A k \in 1..(Len(s) - 1) : RemoveAt(s, i)[k] = IF k < i THEN s[k] ELSE s[k + 1]
<1> DEFINE a == SubSeq(s, 1, i - 1)
           b == SubSeq(s, i + 1, Len(s))
           n == Len(s)
<1>1. n \in Nat /\ i \in 1..n /\ s \in [1..n -> S]
  OBVIOUS
<1>2. a \in Seq(S) /\ Len(a) = i - 1 /\ \A k \in 1..(i - 1) : a[k] = s[k]
  BY <1>1
<1>3. b \in Seq(S) /\ Len(b) = n - i /\ \A k \in 1..(n - i) : b[k] = s[i + k]
  <2> DEFINE m == i + 1
  <2>1. /\ m \in Int /\ n \in Int /\ n - m + 1 = n - i /\ \A k \in 1..(n - i) : m + k - 1 = i + k
        /\ n - i \in Nat /\ (m <= n => n - m + 1 = n - i) /\ (~(m <= n) => n - i = 0)
    BY <1>1
  <2>2. \A k \in m..n : s[k] \in S
    BY <1>1
  <2>3. b = SubSeq(s, m, n)
    OBVIOUS
  <2> HIDE DEF m, b, n
  <2>4. /\ b \in Seq(S) /\ Len(b) = IF m <= n THEN n - m + 1 ELSE 0
        /\ \A k \in 1..(n - m + 1) : b[k] = s[m + k - 1]
    BY <2>1, <2>3, <2>2, SubSeqProperties
  <2> QED
    BY <2>1, <2>4
<1> HIDE DEF a, b, n
<1>4. /\ a \o b \in Seq(S) /\ Len(a \o b) = n - 1
      /\ \A k \in 1..(n - 1) : (a \o b)[k] = IF k <= i - 1 THEN a[k] ELSE b[k - (i - 1)]
  <2>1. /\ a \o b \in Seq(S) /\ Len(a \o b) = Len(a) + Len(b)
        /\ \A k \in 1..(Len(a) + Len(b)) : (a \o b)[k] = IF k <= Len(a) THEN a[k] ELSE b[k - Len(a)]
    BY <1>2, <1>3, ConcatProperties
  <2>2. Len(a) + Len(b) = n - 1
    BY <1>1, <1>2, <1>3
  <2> QED
    BY <1>2, <2>1, <2>2
<1>5. RemoveAt(s, i) = a \o b
  BY DEF RemoveAt, a, b, n
<1> DEFINE c == a \o b
<1>6. ASSUME NEW k \in 1..(n - 1) PROVE c[k] = IF k < i THEN s[k] ELSE s[k + 1]
  <2> HIDE DEF c
  <2>1. CASE k < i
    <3>1. k \in 1..(i - 1) /\ k <= i - 1
      BY <1>1, <2>1
    <3> QED
      BY <1>2, <1>4, <2>1, <3>1 DEF c
  <2>2. CASE ~(k < i)
    <3>1. k - (i - 1) \in 1..(n - i) /\ ~(k <= i - 1) /\ i + (k - (i - 1)) = k + 1
      BY <1>1, <2>2
    <3>2. c[k] = b[k - (i - 1)]
      BY <1>4, <3>1 DEF c
    <3> QED
      BY <1>3, <2>2, <3>1, <3>2
  <2> QED
    BY <2>1, <2>2
<1> QED
  BY <1>4, <1>5, <1>6 DEF n

\* What a button leaves of a form is a form of the page.
LEMMA ButtonsKeepForm ==
  ASSUME NEW f \in FormSpace, Len(f.rows) <= MaxRows
  PROVE  /\ AddsRow(f) \in FormSpace /\ Len(AddsRow(f).rows) <= MaxRows
         /\ \A i : RemovesRow(f, i) \in FormSpace /\ Len(RemovesRow(f, i).rows) <= MaxRows
         /\ \A i, k : SwapsRows(f, i, k) \in FormSpace /\ Len(SwapsRows(f, i, k).rows) <= MaxRows
<1> DEFINE rows == f.rows
<1>1. rows \in Seq(FormRows) /\ Len(rows) \in Nat /\ DOMAIN rows = 1..Len(rows)
      /\ \A i \in DOMAIN rows : rows[i] \in FormRows
  BY FormTyped
<1>2. MaxRows \in Nat
  BY EditorAssumption
<1>3. AddsRow(f) \in FormSpace /\ Len(AddsRow(f).rows) <= MaxRows
  <2> DEFINE free == BuiltIn \ RolesOf(rows)
             role == IF free # {} THEN CHOOSE r \in free : TRUE
                     ELSE IF Custom \in KnownRoles \ RolesOf(rows) THEN Custom ELSE ""
             more == Append(rows, FormRow(role, 0))
  <2>1. FormRow(role, 0) \in FormRows
    <3>1. role \in BuiltIn \cup {Custom, ""}
      OBVIOUS
    <3> HIDE DEF role
    <3> QED
      BY <3>1 DEF FormRow, FormRows, AllRoles
  <2>2. AddsRow(f) = IF Len(rows) >= MaxRows THEN f ELSE [f EXCEPT !.rows = more]
    BY DEF AddsRow
  <2> HIDE DEF role
  <2>3. more \in Seq(FormRows) /\ Len(more) = Len(rows) + 1
    BY <1>1, <2>1
  <2> HIDE DEF more, rows
  <2>4. CASE Len(rows) >= MaxRows
    BY <2>2, <2>4 DEF rows
  <2>5. CASE ~(Len(rows) >= MaxRows)
    <3>1. AddsRow(f) = [f EXCEPT !.rows = more] /\ Len(more) <= MaxRows
      BY <1>1, <1>2, <2>2, <2>3, <2>5
    <3> QED
      BY <2>3, <3>1, OtherRows
  <2> QED
    BY <2>4, <2>5
<1>4. ASSUME NEW i PROVE RemovesRow(f, i) \in FormSpace /\ Len(RemovesRow(f, i).rows) <= MaxRows
  <2>1. CASE i \in DOMAIN rows
    <3> DEFINE less == RemoveAt(rows, i)
    <3>1. less \in Seq(FormRows) /\ Len(less) = Len(rows) - 1
      BY <1>1, <2>1, RemovedRow
    <3>2. RemovesRow(f, i) = [f EXCEPT !.rows = less]
      BY <2>1 DEF RemovesRow
    <3> HIDE DEF less, rows
    <3>3. Len(less) <= MaxRows
      BY <1>1, <1>2, <3>1 DEF rows
    <3> QED
      BY <3>1, <3>2, <3>3, OtherRows
  <2>2. CASE i \notin DOMAIN rows
    <3>1. RemovesRow(f, i) = [f EXCEPT !.rows = rows]
      BY <2>2 DEF RemovesRow
    <3> QED
      BY <1>1, <3>1, OtherRows
  <2> QED
    BY <2>1, <2>2
<1>5. ASSUME NEW i, NEW k PROVE SwapsRows(f, i, k) \in FormSpace /\ Len(SwapsRows(f, i, k).rows) <= MaxRows
  <2>1. CASE {i, k} \subseteq DOMAIN rows
    <3> DEFINE swapped == [rows EXCEPT ![i] = rows[k], ![k] = rows[i]]
    <3>1. rows[i] \in FormRows /\ rows[k] \in FormRows
      BY <1>1, <2>1
    <3>2. SwapsRows(f, i, k) = [f EXCEPT !.rows = swapped]
      BY <2>1 DEF SwapsRows
    <3> HIDE DEF rows
    <3>3. swapped \in Seq(FormRows) /\ Len(swapped) = Len(rows)
      BY <1>1, <2>1, <3>1
    <3> HIDE DEF swapped
    <3> QED
      BY <3>2, <3>3, OtherRows DEF rows
  <2>2. CASE ~({i, k} \subseteq DOMAIN rows)
    BY <2>2 DEF SwapsRows
  <2> QED
    BY <2>1, <2>2
<1> QED
  BY <1>3, <1>4, <1>5

\* What is typed into a form is a form of the page.
LEMMA TypedFormsAreForms ==
  ASSUME NEW f \in FormSpace, Len(f.rows) <= MaxRows, NEW g \in TypedForms(f)
  PROVE  g \in FormSpace /\ Len(g.rows) <= MaxRows
<1>1. f.rows \in Seq(FormRows) /\ \A i \in DOMAIN f.rows : f.rows[i] \in FormRows
  BY FormTyped
<1>2. ASSUME NEW i \in DOMAIN f.rows, NEW row \in FormRows, g = [f EXCEPT !.rows = [@ EXCEPT ![i] = row]]
      PROVE  g \in FormSpace /\ Len(g.rows) <= MaxRows
  <2> DEFINE rows == [f.rows EXCEPT ![i] = row]
  <2>1. rows \in Seq(FormRows) /\ Len(rows) = Len(f.rows)
    BY <1>1
  <2>2. g = [f EXCEPT !.rows = rows]
    BY <1>2
  <2> HIDE DEF rows
  <2> QED
    BY <2>1, <2>2, OtherRows
<1>3. ASSUME NEW a \in SUBSET (RolesOf(f.rows) \ {""}), g = [f EXCEPT !.alert = a]
      PROVE  g \in FormSpace /\ Len(g.rows) <= MaxRows
  <2>1. \A i \in DOMAIN f.rows : f.rows[i].role \in AllRoles \cup {""}
    BY <1>1, RowTyped
  <2>2. a \subseteq AllRoles
    <3>1. \A x \in RolesOf(f.rows) : \E i \in DOMAIN f.rows : x = f.rows[i].role
      BY DEF RolesOf, ToSet
    <3> SUFFICES ASSUME NEW x \in a PROVE x \in AllRoles
      OBVIOUS
    <3>2. x \in RolesOf(f.rows) /\ x # ""
      OBVIOUS
    <3>3. PICK i \in DOMAIN f.rows : x = f.rows[i].role
      BY <3>1, <3>2
    <3>4. x \in AllRoles \cup {""}
      BY <2>1, <3>3
    <3> QED
      BY <3>2, <3>4
  <2>3. g \in FormSpace /\ g.rows = f.rows
    BY <1>3, <2>2 DEF FormSpace
  <2> QED
    BY <2>3
<1>4. ASSUME NEW n \in {0, MaxCeiling, MaxCeiling + 1}, g = [f EXCEPT !.ceiling = n]
      PROVE  g \in FormSpace /\ Len(g.rows) <= MaxRows
  <2>1. MaxCeiling \in Nat
    BY EditorAssumption
  <2>2. n \in Nat
    BY <2>1
  <2>3. g \in FormSpace /\ g.rows = f.rows
    BY <1>4, <2>2 DEF FormSpace
  <2> QED
    BY <2>3
<1>5. CASE g \in RowsTyped(f)
  <2>1. PICK i \in DOMAIN f.rows : g \in {[f EXCEPT !.rows = [@ EXCEPT ![i] = row]] : row \in FormRows}
    BY <1>5 DEF RowsTyped
  <2>2. PICK row \in FormRows : g = [f EXCEPT !.rows = [@ EXCEPT ![i] = row]]
    BY <2>1
  <2> QED
    BY <1>2, <2>2
<1>6. CASE g \in AlertTyped(f)
  BY <1>3, <1>6 DEF AlertTyped
<1>7. CASE g \in CeilingTyped(f)
  BY <1>4, <1>7 DEF CeilingTyped
<1> QED
  BY <1>5, <1>6, <1>7 DEF TypedForms

LEMMA TypesStep == EditorInv /\ (\E t \in Tabs : Types(t)) => EditorInv'
<1> SUFFICES ASSUME EditorInv, NEW t \in Tabs, Types(t) PROVE EditorInv'
  OBVIOUS
<1> DEFINE f == pages[t].form
<1>1. /\ pages[t] \in PageSpace /\ f \in FormSpace /\ Len(f.rows) <= MaxRows /\ draft.seq \in Nat
      /\ (t \in probing <=> pages[t].at = "testing")
  BY PageTyped
<1>2. /\ pages[t].at = "open" /\ draft' = draft /\ errors' = errors /\ hasRole' = hasRole /\ probing' = probing
  BY DEF Types
<1>3. PICK g \in TypedForms(f) : pages' = [pages EXCEPT ![t] = [@ EXCEPT !.form = g, !.own = TRUE]]
  BY DEF Types
<1> HIDE DEF f
<1>4. g \in FormSpace /\ Len(g.rows) <= MaxRows
  BY <1>1, TypedFormsAreForms
<1> DEFINE page == [pages[t] EXCEPT !.form = g, !.own = TRUE]
<1>5. pages' = [pages EXCEPT ![t] = page]
  BY <1>3
<1>6. page \in PageSpace /\ page.at = "open" /\ page.form = g /\ page.own = TRUE /\ page.seq = pages[t].seq
  BY <1>1, <1>2, <1>4 DEF PageSpace
<1> HIDE DEF page
<1>7. /\ pages[t].seq <= draft.seq /\ errors' = [u \in Tabs |-> errors'[u]]
      /\ probing \subseteq Tabs /\ IsFiniteSet(probing) /\ Cardinality(probing) <= 1
  BY <1>2 DEF EditorInv, PageHeld
<1>8. t \notin probing /\ page.at # "testing" /\ Len(page.form.rows) <= MaxRows /\ page.seq <= draft.seq /\ page.own
  BY <1>1, <1>2, <1>4, <1>6, <1>7
<1> QED
  BY <1>2, <1>5, <1>6, <1>7, <1>8, PageChanges

LEMMA ClicksStep == EditorInv /\ (\E t \in Tabs : Clicks(t)) => EditorInv'
<1> SUFFICES ASSUME EditorInv, NEW t \in Tabs, Clicks(t) PROVE EditorInv'
  OBVIOUS
<1> DEFINE f == pages[t].form
<1>1. f \in FormSpace /\ Len(f.rows) <= MaxRows
  BY PageTyped
<1>2. pages[t].at = "open" /\ draft' = draft /\ hasRole' = hasRole /\ probing' = probing
  BY DEF Clicks
<1>3. \E g \in FormSpace, errs \in {{}, {<<"form", 0>>}} : Renders(t, g, errs) /\ Len(g.rows) <= MaxRows
  <2>1. CASE Renders(t, AddsRow(f), {})
    BY <1>1, <2>1, ButtonsKeepForm
  <2>2. CASE Renders(t, f, {<<"form", 0>>})
    BY <1>1, <2>2
  <2>3. ASSUME NEW i, Renders(t, RemovesRow(f, i), {})
        PROVE  \E g \in FormSpace, errs \in {{}, {<<"form", 0>>}} : Renders(t, g, errs) /\ Len(g.rows) <= MaxRows
    BY <1>1, <2>3, ButtonsKeepForm
  <2>4. ASSUME NEW i, NEW k, Renders(t, SwapsRows(f, i, k), {})
        PROVE  \E g \in FormSpace, errs \in {{}, {<<"form", 0>>}} : Renders(t, g, errs) /\ Len(g.rows) <= MaxRows
    BY <1>1, <2>4, ButtonsKeepForm
  <2> QED
    BY <2>1, <2>2, <2>3, <2>4 DEF Clicks
<1> QED
  BY <1>2, <1>3, RendersStep

LEMMA TestsStep == EditorInv /\ (\E t \in Tabs : Tests(t) \/ TestEnds(t)) => EditorInv'
<1> SUFFICES ASSUME EditorInv, NEW t \in Tabs, Tests(t) \/ TestEnds(t) PROVE EditorInv'
  OBVIOUS
<1> DEFINE f == pages[t].form
<1>1. /\ pages[t] \in PageSpace /\ f \in FormSpace /\ Len(f.rows) <= MaxRows /\ draft.seq \in Nat
      /\ (t \in probing <=> pages[t].at = "testing") /\ pages[t].seq \in Nat
  BY PageTyped
<1>2. /\ probing \subseteq Tabs /\ IsFiniteSet(probing) /\ Cardinality(probing) <= 1 /\ pages[t].seq <= draft.seq
      /\ errors = [u \in Tabs |-> errors[u]]
  BY DEF EditorInv, PageHeld
<1>3. draft' = draft /\ hasRole' = hasRole
  BY DEF Tests, TestEnds, Others
<1>4. CASE Tests(t) /\ probing # {}
  <2>1. pages[t].at = "open" /\ Renders(t, f, {}) /\ probing' = probing
    BY <1>4 DEF Tests
  <2> QED
    BY <1>1, <1>3, <2>1, RendersStep
<1>5. CASE Tests(t) /\ probing = {}
  <2> DEFINE page == [pages[t] EXCEPT !.at = "testing", !.seq = draft.seq]
  <2>1. probing' = {t} /\ errors' = errors /\ pages' = [pages EXCEPT ![t].at = "testing", ![t].seq = draft.seq]
    BY <1>5 DEF Tests
  <2>2. pages' = [pages EXCEPT ![t] = page]
    BY <2>1 DEF EditorInv
  <2>3. page \in PageSpace /\ page.at = "testing" /\ page.form = f /\ page.seq = draft.seq
    BY <1>1 DEF PageSpace
  <2> HIDE DEF page, f
  <2>4. /\ Len(page.form.rows) <= MaxRows /\ page.seq <= draft.seq /\ page.at # "open" /\ t \in probing'
        /\ errors' = [u \in Tabs |-> errors'[u]] /\ probing' \subseteq Tabs
        /\ \A u \in Tabs : u # t => (u \in probing' <=> u \in probing)
    BY <1>1, <1>2, <1>5, <2>1, <2>3
  <2>5. IsFiniteSet(probing') /\ Cardinality(probing') <= 1
    <3>1. IsFiniteSet({t}) /\ Cardinality({t}) = 1
      BY FS_Singleton
    <3> QED
      BY <2>1, <3>1
  <2> QED
    BY <1>3, <2>2, <2>3, <2>4, <2>5, PageChanges
<1>6. CASE TestEnds(t)
  <2> DEFINE page == [pages[t] EXCEPT !.at = "open", !.form = Shown(f), !.own = TRUE]
  <2>1. /\ pages[t].at = "testing" /\ probing' = {} /\ errors' = [errors EXCEPT ![t] = {}]
        /\ pages' = [pages EXCEPT ![t] = page]
    BY <1>6 DEF TestEnds
  <2>2. Shown(f) \in FormSpace /\ Len(Shown(f).rows) = Len(f.rows)
    BY <1>1, ShownForm
  <2>3. page \in PageSpace /\ page.at = "open" /\ page.form = Shown(f) /\ page.own = TRUE /\ page.seq = pages[t].seq
    BY <1>1, <2>2 DEF PageSpace
  <2> HIDE DEF page, f
  <2>4. probing = {t}
    <3>1. t \in probing
      BY <1>1, <2>1
    <3>2. Cardinality(probing) \in Nat /\ Cardinality(probing) # 0
      BY <1>2, <3>1, FS_CardinalityType, FS_EmptySet
    <3>3. Cardinality(probing) = 1
      BY <1>2, <3>2
    <3>4. \E x : probing = {x}
      BY <1>2, <3>3, FS_Singleton
    <3> QED
      BY <3>1, <3>4
  <2>5. /\ Len(page.form.rows) <= MaxRows /\ page.seq <= draft.seq /\ page.own /\ page.at # "testing" /\ t \notin probing'
        /\ errors' = [u \in Tabs |-> errors'[u]] /\ probing' \subseteq Tabs
        /\ \A u \in Tabs : u # t => (u \in probing' <=> u \in probing)
    BY <1>1, <1>2, <2>1, <2>2, <2>3, <2>4
  <2>6. IsFiniteSet(probing') /\ Cardinality(probing') <= 1
    BY <2>1, FS_EmptySet
  <2> QED
    BY <1>3, <2>1, <2>3, <2>5, <2>6, PageChanges
<1> QED
  BY <1>4, <1>5, <1>6

LEMMA ClosedPage == Closed \in PageSpace /\ Closed.at = "closed" /\ Closed.seq = 0 /\ Len(Closed.form.rows) = 0
<1>1. Form(<<>>, {}, 0) \in FormSpace
  BY DEF Form, FormSpace
<1>2. Closed \in PageSpace
  BY <1>1 DEF Closed, PageSpace
<1>3. Closed.at = "closed" /\ Closed.seq = 0 /\ Len(Closed.form.rows) = 0
  BY DEF Closed, Form
<1> QED
  BY <1>2, <1>3

LEMMA SavesStep == EditorInv /\ (\E t \in Tabs : Saves(t)) => EditorInv'
<1> SUFFICES ASSUME EditorInv, NEW t \in Tabs, Saves(t) PROVE EditorInv'
  OBVIOUS
<1> DEFINE f == pages[t].form
<1>1. /\ pages[t] \in PageSpace /\ f \in FormSpace /\ Len(f.rows) <= MaxRows /\ draft.seq \in Nat
      /\ (t \in probing <=> pages[t].at = "testing") /\ pages[t].seq \in Nat
  BY PageTyped
<1>2. /\ probing \subseteq Tabs /\ IsFiniteSet(probing) /\ Cardinality(probing) <= 1
      /\ errors = [u \in Tabs |-> errors[u]] /\ pages \in [Tabs -> PageSpace] /\ hasRole \in BOOLEAN
      /\ \A u \in Tabs : PageHeld(u)
  BY DEF EditorInv
<1>3. pages[t].at = "open" /\ hasRole' = hasRole /\ probing' = probing
  BY DEF Saves, Others
<1>4. CASE SaveErrors(f) # {}
  <2>1. Renders(t, f, SaveErrors(f) \cup {<<"form", 0>>}) /\ draft' = draft
    BY <1>4 DEF Saves
  <2> QED
    BY <1>1, <1>3, <2>1, RendersStep
<1>5. ASSUME SaveErrors(f) = {} PROVE pages' = [pages EXCEPT ![t] = Closed] /\ errors' = [errors EXCEPT ![t] = {}]
  BY <1>5 DEF Saves
<1>6. CASE SaveErrors(f) = {} /\ draft' = draft
  <2>1. pages' = [pages EXCEPT ![t] = Closed] /\ errors' = [u \in Tabs |-> errors'[u]]
    BY <1>2, <1>5, <1>6
  <2>2. MaxRows \in Nat
    BY EditorAssumption
  <2>3. /\ Len(Closed.form.rows) <= MaxRows /\ Closed.seq <= draft.seq /\ Closed.at # "open"
        /\ Closed.at # "testing" /\ t \notin probing
    BY <1>1, <1>3, <2>2, ClosedPage
  <2> QED
    BY <1>2, <1>3, <1>6, <2>1, <2>3, ClosedPage, PageChanges
<1>7. CASE /\ SaveErrors(f) = {} /\ draft.seq < MaxSaves
           /\ draft' = [def |-> DefinitionOf(f), seq |-> draft.seq + 1]
  <2>1. /\ pages' \in [Tabs -> PageSpace] /\ pages'[t] = Closed /\ errors' = [u \in Tabs |-> errors'[u]]
        /\ \A u \in Tabs : u # t => pages'[u] = pages[u]
    BY <1>2, <1>5, <1>7, ClosedPage
  <2>2. draft'.def = DefinitionOf(f) /\ draft'.seq = draft.seq + 1 /\ draft'.seq \in 0..MaxSaves
    <3>1. MaxSaves \in Nat
      BY EditorAssumption
    <3> QED
      BY <1>1, <1>7, <3>1
  <2>3. Activatable(DefinitionOf(f))
    BY <1>1, <1>7, SavedCanBeActivated
  <2> DEFINE def == DefinitionOf(f)
  <2> HIDE DEF def, f
  <2>4. Activatable(draft.def)'
    BY <1>3, <2>2, <2>3 DEF def, Activatable, Roster, KnownRoles
  <2>5. \A u \in Tabs : PageHeld(u)'
    <3> SUFFICES ASSUME NEW u \in Tabs PROVE PageHeld(u)'
      OBVIOUS
    <3>1. CASE u = t
      <4>1. MaxRows \in Nat /\ t \notin probing'
        BY <1>1, <1>3, EditorAssumption
      <4>2. Len(pages'[u].form.rows) <= MaxRows /\ pages'[u].seq <= draft'.seq
        BY <1>1, <2>1, <2>2, <3>1, <4>1, ClosedPage
      <4> QED
        BY <2>1, <3>1, <4>1, <4>2, ClosedPage DEF PageHeld
    <3>2. CASE u # t
      <4>1. pages'[u] = pages[u] /\ pages[u].seq \in Nat /\ PageHeld(u)
        BY <1>2, <2>1, <3>2, PageTyped
      <4>2. pages[u].seq <= draft.seq
        BY <4>1 DEF PageHeld
      <4>3. pages'[u].seq <= draft'.seq /\ pages'[u].seq # draft'.seq
        BY <1>1, <2>2, <4>1, <4>2
      <4> QED
        BY <1>3, <4>1, <4>3 DEF PageHeld
    <3> QED
      BY <3>1, <3>2
  <2> QED
    BY <1>2, <1>3, <2>1, <2>2, <2>4, <2>5 DEF EditorInv
<1> QED
  BY <1>4, <1>6, <1>7 DEF Saves

LEMMA ChangesRolesStep == EditorInv /\ ChangesRoles => EditorInv'
<1> SUFFICES ASSUME EditorInv, ChangesRoles PROVE EditorInv'
  OBVIOUS
<1>1. /\ hasRole => \A i \in DOMAIN draft.def.reviewers : draft.def.reviewers[i].role # Custom
      /\ hasRole' = ~hasRole /\ draft' = draft /\ pages' = pages /\ errors' = errors /\ probing' = probing
  BY DEF ChangesRoles
<1>2. Activatable(draft.def) /\ hasRole \in BOOLEAN
  BY DEF EditorInv
<1> DEFINE rows == draft.def.reviewers
<1>3. \A i \in DOMAIN rows : rows[i].role \in KnownRoles'
  <2> SUFFICES ASSUME NEW i \in DOMAIN rows PROVE rows[i].role \in KnownRoles'
    OBVIOUS
  <2>1. rows[i].role \in KnownRoles
    BY <1>2 DEF Activatable, Roster
  <2> QED
    BY <1>1, <1>2, <2>1 DEF KnownRoles, AllRoles
<1>4. Roster(rows)'
  BY <1>1, <1>2, <1>3 DEF Activatable, Roster
<1>5. Activatable(draft.def)'
  BY <1>1, <1>2, <1>4 DEF Activatable
<1>6. \A u \in Tabs : PageHeld(u)'
  BY <1>1 DEF EditorInv, PageHeld, ValuesOf, Form
<1>7. hasRole' \in BOOLEAN
  BY <1>1
<1> QED
  BY <1>1, <1>5, <1>6, <1>7 DEF EditorInv

LEMMA EditorKept == EditorInv /\ [EditorNext]_editorVars => EditorInv'
<1> SUFFICES ASSUME EditorInv, [EditorNext]_editorVars PROVE EditorInv'
  OBVIOUS
<1>1. CASE \E t \in Tabs : OpensPage(t)
  BY <1>1, OpensPageStep
<1>2. CASE \E t \in Tabs : Types(t)
  BY <1>2, TypesStep
<1>3. CASE \E t \in Tabs : Clicks(t)
  BY <1>3, ClicksStep
<1>4. CASE \E t \in Tabs : Tests(t) \/ TestEnds(t)
  BY <1>4, TestsStep
<1>5. CASE \E t \in Tabs : Saves(t)
  BY <1>5, SavesStep
<1>6. CASE ChangesRoles
  BY <1>6, ChangesRolesStep
<1>7. CASE UNCHANGED editorVars
  BY <1>7 DEF editorVars, EditorInv, Activatable, Roster, KnownRoles, PageHeld, ValuesOf, Form
<1> QED
  BY <1>1, <1>2, <1>3, <1>4, <1>5, <1>6, <1>7 DEF EditorNext

LEMMA EditorSound == EditorSpec => []EditorInv
<1>1. EditorInit => EditorInv
  BY EditorStarts
<1>2. EditorInv /\ [EditorNext]_editorVars => EditorInv'
  BY EditorKept
<1> QED
  BY <1>1, <1>2, PTL DEF EditorSpec

LEMMA EditorTypes == EditorInv => EditorTypeOK
<1> SUFFICES ASSUME EditorInv PROVE EditorTypeOK
  OBVIOUS
<1>1. draft.def.reviewers \in Seq(FormRows) /\ draft.seq \in 0..MaxSaves /\ Cardinality(probing) <= 1
  BY DEF EditorInv, Activatable, Definition
<1>2. ToSet(draft.def.reviewers) \subseteq FormRows
  BY <1>1 DEF ToSet
<1>3. ASSUME NEW t \in Tabs
      PROVE  /\ pages[t].at \in {"closed", "open", "testing"} /\ pages[t].seq <= draft.seq
             /\ ToSet(pages[t].form.rows) \subseteq FormRows /\ Len(pages[t].form.rows) <= MaxRows
             /\ (t \in probing <=> pages[t].at = "testing")
  <2>1. pages[t] \in PageSpace /\ pages[t].form \in FormSpace /\ PageHeld(t)
    BY PageTyped DEF EditorInv
  <2>2. \A i \in DOMAIN pages[t].form.rows : pages[t].form.rows[i] \in FormRows
    BY <2>1, FormTyped
  <2>3. ToSet(pages[t].form.rows) \subseteq FormRows
    BY <2>2 DEF ToSet
  <2>4. pages[t].at \in {"closed", "open", "testing"}
    BY <2>1 DEF PageSpace
  <2> QED
    BY <2>1, <2>3, <2>4 DEF PageHeld
<1> QED
  BY <1>1, <1>2, <1>3 DEF EditorTypeOK

\* As many roles as rows.
LEMMA RolesCounted ==
  ASSUME NEW S, NEW rows \in Seq(S), \A i, k \in DOMAIN rows : rows[i].role = rows[k].role => i = k
  PROVE  Cardinality(RolesOf(rows)) = Len(rows)
<1> DEFINE n == Len(rows)
           R == RolesOf(rows)
           g == [i \in 1..n |-> rows[i].role]
<1>1. n \in Nat /\ DOMAIN rows = 1..n
  OBVIOUS
<1>2. n \in Nat /\ DOMAIN rows = 1..n /\ IsFiniteSet(1..n) /\ Cardinality(1..n) = n
  BY <1>1, FS_Interval
<1>3. /\ \A x \in R : \E i \in 1..n : x = rows[i].role
      /\ \A i \in 1..n : rows[i].role \in R
  BY <1>2 DEF RolesOf, ToSet
<1> HIDE DEF R, n
<1>4. g \in [1..n -> R] /\ \A x \in R : \E i \in 1..n : g[i] = x
  BY <1>3
<1>5. \A i, k \in 1..n : g[i] = g[k] => i = k
  BY <1>2
<1> HIDE DEF g
<1>6. g \in Surjection(1..n, R)
  BY <1>4 DEF Surjection
<1>7. g \in Injection(1..n, R)
  BY <1>4, <1>5 DEF Injection, IsInjective
<1>8. Cardinality(R) = Cardinality(1..n)
  BY <1>2, <1>6, <1>7, FS_Surjection
<1> QED
  BY <1>2, <1>8 DEF R, n

LEMMA SavedFacts == EditorInv => SavedIsSound
<1> SUFFICES ASSUME EditorInv PROVE SavedIsSound
  OBVIOUS
<1> DEFINE rows == draft.def.reviewers
<1>1. /\ rows \in Seq(FormRows) /\ rows # <<>> /\ draft.def.alert \subseteq RolesOf(rows) /\ draft.def.ceiling <= MaxCeiling
      /\ \A i \in DOMAIN rows : rows[i].role \in KnownRoles
      /\ \A i, k \in DOMAIN rows : rows[i].role = rows[k].role => i = k
  BY DEF EditorInv, Activatable, Definition, Roster
<1> HIDE DEF rows
<1>2. Cardinality(RolesOf(rows)) = Len(rows)
  BY <1>1, RolesCounted
<1>3. RolesOf(rows) \subseteq KnownRoles
  BY <1>1 DEF RolesOf, ToSet
<1> QED
  BY <1>1, <1>2, <1>3 DEF SavedIsSound, rows

LEMMA RoundTrips == TimesAreSaid /\ EditorInv => RoundTrip
<1> SUFFICES ASSUME TimesAreSaid, EditorInv, NEW t \in Tabs,
                    pages[t].at = "open", ~pages[t].own, pages[t].seq = draft.seq
             PROVE  SaveErrors(pages[t].form) = {} /\ DefinitionOf(pages[t].form) = draft.def
  BY DEF RoundTrip
<1>1. pages[t].form = ValuesOf(draft.def) /\ Activatable(draft.def)
  BY DEF EditorInv, PageHeld
<1> QED
  BY <1>1, DraftIsAccepted

\* Draft, pages and flags have their types and no more than one test runs.
THEOREM EditorWellTyped == EditorSpec => []EditorTypeOK
<1>1. EditorInv => EditorTypeOK
  BY EditorTypes
<1> QED
  BY <1>1, EditorSound, PTL

\* Whatever is typed, clicked and saved in whatever tabs, and whenever a custom
\* role comes and goes, the draft stored can be activated.
THEOREM SavedIsAlwaysSound == EditorSpec => []SavedIsSound
<1>1. EditorInv => SavedIsSound
  BY SavedFacts
<1> QED
  BY <1>1, EditorSound, PTL

\* A page posted as it was opened is accepted and yields its draft, when every
\* timeout stored is one that its decimal seconds can say.
THEOREM PageAlwaysRoundTrips ==
  ASSUME \A n \in Times : n <= MaxTime => Exact(n)
  PROVE  EditorSpec => []RoundTrip
<1>1. TimesAreSaid
  BY DEF TimesAreSaid
<1>2. EditorInv => RoundTrip
  BY <1>1, RoundTrips
<1> QED
  BY <1>2, EditorSound, PTL

\* Who a refused save flags.
LEMMA FlagStep ==
  ASSUME EditorInv, [EditorNext]_editorVars, NEW t \in Tabs, errors'[t] # errors[t], NEW e \in errors'[t], e[1] = "role"
  PROVE  LET rows == pages[t].form.rows IN
         e[2] \in DOMAIN rows /\ ~IsBlank(rows[e[2]])
         /\ (rows[e[2]].role \notin KnownRoles \/ e[2] \in Repeated(rows))
<1> DEFINE f    == pages[t].form
           rows == pages[t].form.rows
<1>1. errors = [u \in Tabs |-> errors[u]]
  BY DEF EditorInv
<1>2. ASSUME NEW u \in Tabs, NEW errs, errors' = [errors EXCEPT ![u] = errs] PROVE u = t /\ errors'[t] = errs
  BY <1>1, <1>2
<1>3. e # <<"form", 0>>
  BY ErrorsApart
<1>4. ASSUME NEW u \in Tabs, NEW g, Renders(u, g, {}) PROVE FALSE
  <2>1. errors' = [errors EXCEPT ![u] = {}]
    BY <1>4 DEF Renders
  <2> QED
    BY <1>2, <2>1
<1>5. ASSUME NEW u \in Tabs, NEW g, Renders(u, g, {<<"form", 0>>}) PROVE FALSE
  <2>1. errors' = [errors EXCEPT ![u] = {<<"form", 0>>}]
    BY <1>5 DEF Renders
  <2> QED
    BY <1>2, <1>3, <2>1
<1>6. ASSUME NEW u \in Tabs, Saves(u) PROVE u = t /\ e \in SaveErrors(f)
  <2>1. SaveErrors(pages[u].form) # {}
    <3> SUFFICES ASSUME SaveErrors(pages[u].form) = {} PROVE FALSE
      OBVIOUS
    <3>1. errors' = [errors EXCEPT ![u] = {}]
      BY <1>6 DEF Saves
    <3> QED
      BY <1>2, <3>1
  <2>2. errors' = [errors EXCEPT ![u] = SaveErrors(pages[u].form) \cup {<<"form", 0>>}]
    BY <1>6, <2>1 DEF Saves, Renders
  <2>3. u = t /\ errors'[t] = SaveErrors(pages[u].form) \cup {<<"form", 0>>}
    BY <1>2, <2>2
  <2> QED
    BY <1>3, <2>3
<1>7. e \in SaveErrors(f)
  <2>1. ASSUME NEW u \in Tabs, OpensPage(u) \/ TestEnds(u) PROVE FALSE
    <3>1. errors' = [errors EXCEPT ![u] = {}]
      BY <2>1 DEF OpensPage, TestEnds
    <3> QED
      BY <1>2, <3>1
  <2>2. ASSUME NEW u \in Tabs, Types(u) PROVE FALSE
    BY <2>2 DEF Types
  <2>3. ASSUME NEW u \in Tabs, Clicks(u) PROVE FALSE
    BY <1>4, <1>5, <2>3 DEF Clicks
  <2>4. ASSUME NEW u \in Tabs, Tests(u) PROVE FALSE
    BY <1>4, <2>4 DEF Tests
  <2>5. ~ChangesRoles
    BY DEF ChangesRoles
  <2>6. ~UNCHANGED editorVars
    BY DEF editorVars
  <2>7. EditorNext
    BY <2>6
  <2> QED
    BY <1>6, <2>1, <2>2, <2>3, <2>4, <2>5, <2>7 DEF EditorNext
<1>8. rows \in Seq(FormRows) /\ "" \notin AllRoles
  BY PageTyped, FormTyped, EditorAssumption DEF AllRoles
<1>9. CASE Refused(f) # {}
  <2>1. e \in Refused(f)
    BY <1>7, <1>9 DEF SaveErrors
  <2>2. \E i \in BadRows(rows) : e = <<"role", i>>
    <3>1. /\ e \notin {<<"timeout", i>> : i \in BadTimes(rows)}
          /\ e # <<"alert", 0>> /\ e # <<"ceiling", 0>>
      BY ErrorsApart
    <3> QED
      BY <1>3, <2>1, <3>1 DEF Refused, KeyIndex
  <2>3. PICK i \in BadRows(rows) : e = <<"role", i>>
    BY <2>2
  <2>4. e[2] = i
    BY <2>3
  <2> QED
    BY <2>4 DEF BadRows
<1>10. CASE Refused(f) = {}
  <2>1. PICK i \in Repeated(rows) : e = <<"role", i>>
    BY <1>7, <1>10 DEF SaveErrors
  <2>2. e[2] = i
    BY <2>1
  <2> QED
    BY <2>2 DEF Repeated, IsBlank
<1> QED
  BY <1>9, <1>10

\* A row that a refused save flags is, as the operator sees it, the one to blame.
THEOREM FlagsAreTrue == EditorSpec => FlagsTheRow
<1> DEFINE flag == \A t \in Tabs : errors'[t] # errors[t] =>
                     \A e \in errors'[t] : e[1] = "role" =>
                       LET rows == pages[t].form.rows IN
                       e[2] \in DOMAIN rows /\ ~IsBlank(rows[e[2]])
                       /\ (rows[e[2]].role \notin KnownRoles \/ e[2] \in Repeated(rows))
<1>1. EditorInv /\ [EditorNext]_editorVars => [flag]_editorVars
  <2> SUFFICES ASSUME EditorInv, [EditorNext]_editorVars PROVE flag
    OBVIOUS
  <2> QED
    BY FlagStep
<1> HIDE DEF flag
<1>2. EditorInv /\ [EditorNext]_editorVars => [flag]_editorVars
  BY <1>1
<1>3. EditorSpec => [][flag]_editorVars
  BY <1>2, EditorSound, PTL DEF EditorSpec
<1> QED
  BY <1>3 DEF FlagsTheRow, flag

\* The rows of one form are on the page that another is shown as, all but some.
RowsStay(was, now, gone) ==
  /\ Cardinality(gone) <= 1 /\ Len(now) >= Len(was) - Cardinality(gone)
  /\ (gone # {}) = (Len(now) < Len(was))
  /\ \A i \in DOMAIN was \ gone : was[i].role \in KnownRoles =>
       Cardinality({k \in DOMAIN now : now[k] = was[i]})
         >= Cardinality({k \in DOMAIN was \ gone : was[k] = was[i]})

LEMMA ShownKeepsRows ==
  ASSUME NEW f \in FormSpace, NEW g \in FormSpace, NEW gone \in SUBSET DOMAIN f.rows, NEW m,
         m \in [DOMAIN f.rows \ gone -> DOMAIN g.rows],
         \A i, k \in DOMAIN f.rows \ gone : m[i] = m[k] => i = k,
         \A k \in DOMAIN f.rows \ gone : g.rows[m[k]] = f.rows[k],
         Cardinality(gone) <= 1, Len(g.rows) >= Len(f.rows) - Cardinality(gone),
         gone # {} <=> Len(g.rows) < Len(f.rows)
  PROVE  RowsStay(f.rows, Shown(g).rows, gone)
<1> DEFINE was == f.rows
           new == g.rows
           now == Shown(g).rows
<1>1. /\ Shown(g) \in FormSpace /\ Len(now) = Len(new) /\ DOMAIN now = DOMAIN new
      /\ \A k \in DOMAIN new : new[k].role \in KnownRoles => now[k] = new[k]
  BY ShownForm
<1>2. now \in Seq(FormRows)
  BY <1>1, FormTyped
<1>3. IsFiniteSet(DOMAIN now)
  <2>1. DOMAIN now = 1..Len(now) /\ Len(now) \in Nat
    BY <1>2
  <2> QED
    BY <2>1, FS_Interval
<1>4. ASSUME NEW i \in DOMAIN was \ gone, was[i].role \in KnownRoles
      PROVE  Cardinality({k \in DOMAIN now : now[k] = was[i]})
               >= Cardinality({k \in DOMAIN was \ gone : was[k] = was[i]})
  <2> DEFINE A == {k \in DOMAIN was \ gone : was[k] = was[i]}
             B == {k \in DOMAIN now : now[k] = was[i]}
             h == [k \in A |-> m[k]]
  <2> HIDE DEF was, new, now
  <2>1. \A k \in A : m[k] \in B
    <3> SUFFICES ASSUME NEW k \in A PROVE m[k] \in B
      OBVIOUS
    <3>1. k \in DOMAIN was \ gone /\ was[k] = was[i]
      OBVIOUS
    <3>2. m[k] \in DOMAIN new /\ new[m[k]] = was[k]
      BY <3>1 DEF was, new
    <3>3. now[m[k]] = was[i]
      BY <1>1, <1>4, <3>1, <3>2
    <3> QED
      BY <1>1, <3>2, <3>3
  <2>2. \A j, k \in A : m[j] = m[k] => j = k
    BY DEF was
  <2>3. IsFiniteSet(B) /\ Cardinality(B) \in Nat
    BY <1>3, FS_Subset, FS_CardinalityType
  <2> HIDE DEF A, B
  <2>4. h \in Injection(A, B)
    BY <2>1, <2>2 DEF Injection, IsInjective
  <2>5. IsFiniteSet(A) /\ Cardinality(A) <= Cardinality(B)
    BY <2>3, <2>4, FS_Injection
  <2>6. Cardinality(A) \in Nat
    BY <2>5, FS_CardinalityType
  <2>7. Cardinality(B) >= Cardinality(A)
    BY <2>3, <2>5, <2>6
  <2> QED
    BY <2>7 DEF A, B
<1>5. (gone # {}) = (Len(now) < Len(was))
  BY <1>1
<1> QED
  BY <1>1, <1>4, <1>5 DEF RowsStay

LEMMA ButtonKeepsRows ==
  ASSUME NEW f \in FormSpace, Len(f.rows) <= MaxRows
  PROVE  /\ \E gone \in SUBSET DOMAIN f.rows : RowsStay(f.rows, Shown(f).rows, gone)
         /\ \E gone \in SUBSET DOMAIN f.rows : RowsStay(f.rows, Shown(AddsRow(f)).rows, gone)
         /\ \A i : \E gone \in SUBSET DOMAIN f.rows : RowsStay(f.rows, Shown(RemovesRow(f, i)).rows, gone)
         /\ \A i, k : \E gone \in SUBSET DOMAIN f.rows : RowsStay(f.rows, Shown(SwapsRows(f, i, k)).rows, gone)
<1> DEFINE rows == f.rows
           n    == Len(rows)
<1>1. rows \in Seq(FormRows) /\ n \in Nat /\ DOMAIN rows = 1..n
  BY FormTyped
<1>2. Cardinality({}) = 0 /\ \A x : Cardinality({x}) = 1
  BY FS_EmptySet, FS_Singleton
<1>3. ASSUME NEW g \in FormSpace, NEW m, m \in [DOMAIN rows -> DOMAIN g.rows],
             \A i, k \in DOMAIN rows : m[i] = m[k] => i = k,
             \A k \in DOMAIN rows : g.rows[m[k]] = rows[k], Len(g.rows) >= n
      PROVE  \E gone \in SUBSET DOMAIN rows : RowsStay(rows, Shown(g).rows, gone)
  <2>1. Len(g.rows) \in Nat
    BY FormTyped
  <2> DEFINE none == {i \in DOMAIN rows : FALSE}
  <2>2. none = {} /\ none \in SUBSET DOMAIN rows /\ Cardinality(none) = 0
    BY <1>2
  <2>3. ~(none # {}) /\ ~(Len(g.rows) < n) /\ Cardinality(none) <= 1 /\ Len(g.rows) >= n - Cardinality(none)
    BY <1>1, <1>3, <2>1, <2>2
  <2>4. /\ m \in [DOMAIN rows \ none -> DOMAIN g.rows]
        /\ \A i, k \in DOMAIN rows \ none : m[i] = m[k] => i = k
        /\ \A k \in DOMAIN rows \ none : g.rows[m[k]] = rows[k]
    BY <1>3, <2>2
  <2> HIDE DEF none
  <2>5. RowsStay(rows, Shown(g).rows, none)
    <3>1. none # {} <=> Len(g.rows) < n
      BY <2>3
    <3> QED
      BY <2>2, <2>3, <2>4, <3>1, ShownKeepsRows
  <2> QED
    BY <2>2, <2>5
<1>4. /\ AddsRow(f) \in FormSpace /\ \A i : RemovesRow(f, i) \in FormSpace
      /\ \A i, k : SwapsRows(f, i, k) \in FormSpace
  BY ButtonsKeepForm
<1> DEFINE same == [k \in DOMAIN rows |-> k]
<1>5. \E gone \in SUBSET DOMAIN rows : RowsStay(rows, Shown(f).rows, gone)
  <2>1. /\ same \in [DOMAIN rows -> DOMAIN f.rows] /\ \A i, k \in DOMAIN rows : same[i] = same[k] => i = k
        /\ \A k \in DOMAIN rows : f.rows[same[k]] = rows[k]
    OBVIOUS
  <2>2. Len(f.rows) >= n
    BY <1>1
  <2> HIDE DEF same
  <2> QED
    BY <1>3, <2>1, <2>2
<1>6. \E gone \in SUBSET DOMAIN rows : RowsStay(rows, Shown(AddsRow(f)).rows, gone)
  <2>1. CASE AddsRow(f) = f
    BY <1>5, <2>1
  <2>2. CASE AddsRow(f) # f
    <3>1. \E row : AddsRow(f) = [f EXCEPT !.rows = Append(rows, row)]
      BY <2>2 DEF AddsRow
    <3>2. PICK row : AddsRow(f) = [f EXCEPT !.rows = Append(rows, row)]
      BY <3>1
    <3> DEFINE new == AddsRow(f).rows
    <3>3. new = Append(rows, row)
      BY <3>2 DEF FormSpace
    <3> HIDE DEF new, rows
    <3>4. /\ Len(new) = n + 1 /\ DOMAIN new = 1..(n + 1) /\ \A k \in 1..n : new[k] = rows[k]
      BY <1>1, <3>3
    <3>5. /\ same \in [DOMAIN rows -> DOMAIN new] /\ \A i, k \in DOMAIN rows : same[i] = same[k] => i = k
          /\ \A k \in DOMAIN rows : new[same[k]] = rows[k]
      BY <1>1, <3>4
    <3>6. Len(new) >= n
      BY <1>1, <3>4
    <3> HIDE DEF same
    <3> QED
      BY <1>3, <1>4, <3>5, <3>6 DEF new
  <2> QED
    BY <2>1, <2>2
<1>7. ASSUME NEW i PROVE \E gone \in SUBSET DOMAIN rows : RowsStay(rows, Shown(RemovesRow(f, i)).rows, gone)
  <2>1. CASE i \notin DOMAIN rows
    <3>1. RemovesRow(f, i) = [f EXCEPT !.rows = rows]
      BY <2>1 DEF RemovesRow
    <3>2. RemovesRow(f, i) = f
      BY <3>1 DEF FormSpace
    <3> QED
      BY <1>5, <3>2
  <2>2. CASE i \in DOMAIN rows
    <3> DEFINE new == RemovesRow(f, i).rows
               m   == [k \in DOMAIN rows \ {i} |-> IF k < i THEN k ELSE k - 1]
    <3>1. new = RemoveAt(rows, i)
      BY <2>2 DEF RemovesRow, FormSpace
    <3>2. /\ new \in Seq(FormRows) /\ Len(new) = n - 1
          /\ \A k \in 1..(n - 1) : new[k] = IF k < i THEN rows[k] ELSE rows[k + 1]
      BY <1>1, <2>2, <3>1, RemovedRow
    <3> HIDE DEF new, rows, n
    <3>3. DOMAIN new = 1..(n - 1) /\ i \in 1..n
      BY <1>1, <2>2, <3>2
    <3>4. \A k \in DOMAIN rows \ {i} : m[k] \in 1..(n - 1) /\ new[m[k]] = rows[k]
      <4> SUFFICES ASSUME NEW k \in DOMAIN rows \ {i} PROVE m[k] \in 1..(n - 1) /\ new[m[k]] = rows[k]
        OBVIOUS
      <4>1. k \in 1..n /\ k # i
        BY <1>1
      <4>2. CASE k < i
        <5>1. m[k] = k /\ k \in 1..(n - 1)
          BY <1>1, <3>3, <4>1, <4>2
        <5> QED
          BY <3>2, <4>2, <5>1
      <4>3. CASE ~(k < i)
        <5>1. m[k] = k - 1 /\ k - 1 \in 1..(n - 1) /\ ~(k - 1 < i) /\ (k - 1) + 1 = k
          BY <1>1, <3>3, <4>1, <4>3
        <5> QED
          BY <3>2, <5>1
      <4> QED
        BY <4>2, <4>3
    <3>5. m \in [DOMAIN rows \ {i} -> DOMAIN new]
      BY <3>3, <3>4
    <3>6. \A j, k \in DOMAIN rows \ {i} : m[j] = m[k] => j = k
      <4> SUFFICES ASSUME NEW j \in 1..n, j # i, NEW k \in 1..n, k # i,
                          (IF j < i THEN j ELSE j - 1) = (IF k < i THEN k ELSE k - 1)
                   PROVE  j = k
        BY <1>1
      <4> QED
        BY <1>1, <3>3
    <3> HIDE DEF m
    <3>7. /\ Cardinality({i}) = 1 /\ {i} \in SUBSET DOMAIN rows /\ Cardinality({i}) <= 1
          /\ Len(new) >= n - Cardinality({i}) /\ {i} # {} /\ Len(new) < n
      <4>1. Cardinality({i}) = 1
        BY <1>2
      <4>2. Len(new) = n - 1 /\ n \in Nat
        BY <1>1, <3>2
      <4> QED
        BY <2>2, <4>1, <4>2
    <3>8. RowsStay(rows, Shown(RemovesRow(f, i)).rows, {i})
      <4> DEFINE g == RemovesRow(f, i)
      <4>1. g \in FormSpace /\ new = g.rows
        BY <1>4 DEF new
      <4> HIDE DEF g
      <4>2. /\ m \in [DOMAIN f.rows \ {i} -> DOMAIN g.rows]
            /\ \A j, k \in DOMAIN f.rows \ {i} : m[j] = m[k] => j = k
            /\ \A k \in DOMAIN f.rows \ {i} : g.rows[m[k]] = f.rows[k]
        BY <3>4, <3>5, <3>6, <4>1 DEF rows
      <4>3. /\ {i} \in SUBSET DOMAIN f.rows /\ Cardinality({i}) <= 1
            /\ Len(g.rows) >= Len(f.rows) - Cardinality({i}) /\ ({i} # {} <=> Len(g.rows) < Len(f.rows))
        BY <3>7, <4>1 DEF rows, n
      <4>4. RowsStay(f.rows, Shown(g).rows, {i})
        BY <4>1, <4>2, <4>3, ShownKeepsRows
      <4> QED
        BY <4>4 DEF g, rows
    <3> QED
      BY <3>7, <3>8
  <2> QED
    BY <2>1, <2>2
<1>8. ASSUME NEW i, NEW k PROVE \E gone \in SUBSET DOMAIN rows : RowsStay(rows, Shown(SwapsRows(f, i, k)).rows, gone)
  <2>1. CASE ~({i, k} \subseteq DOMAIN rows)
    <3>1. SwapsRows(f, i, k) = f
      BY <2>1 DEF SwapsRows
    <3> QED
      BY <1>5, <3>1
  <2>2. CASE {i, k} \subseteq DOMAIN rows
    <3> DEFINE new == SwapsRows(f, i, k).rows
               m   == [j \in DOMAIN rows |-> IF j = i THEN k ELSE IF j = k THEN i ELSE j]
    <3>1. new = [rows EXCEPT ![i] = rows[k], ![k] = rows[i]]
      BY <2>2 DEF SwapsRows, FormSpace
    <3> HIDE DEF new, rows, n
    <3>2. /\ DOMAIN new = DOMAIN rows /\ Len(new) = n
          /\ \A j \in DOMAIN rows : new[j] = IF j = k THEN rows[i] ELSE IF j = i THEN rows[k] ELSE rows[j]
      BY <1>1, <2>2, <3>1 DEF n
    <3>3. m \in [DOMAIN rows -> DOMAIN new]
      BY <2>2, <3>2
    <3>4. \A j \in DOMAIN rows : new[m[j]] = rows[j]
      BY <2>2, <3>2
    <3>5. \A j, l \in DOMAIN rows : m[j] = m[l] => j = l
      OBVIOUS
    <3> HIDE DEF m
    <3>6. Len(new) >= n
      BY <1>1, <3>2
    <3> QED
      BY <1>3, <1>4, <3>3, <3>4, <3>5, <3>6 DEF new
  <2> QED
    BY <2>1, <2>2
<1> QED
  BY <1>5, <1>6, <1>7, <1>8

LEMMA ClickStep ==
  ASSUME EditorInv, NEW t \in Tabs, Clicks(t)
  PROVE  \E gone \in SUBSET DOMAIN pages[t].form.rows :
           RowsStay(pages[t].form.rows, pages'[t].form.rows, gone)
<1> DEFINE f == pages[t].form
<1>1. f \in FormSpace /\ Len(f.rows) <= MaxRows /\ pages[t] \in PageSpace /\ pages \in [Tabs -> PageSpace]
  BY PageTyped DEF EditorInv
<1>2. ASSUME NEW g, NEW errs, Renders(t, g, errs) PROVE pages'[t].form = Shown(g)
  <2>1. pages' = [pages EXCEPT ![t] = [@ EXCEPT !.at = "open", !.form = Shown(g), !.seq = draft.seq, !.own = TRUE]]
    BY <1>2 DEF Renders
  <2> QED
    BY <1>1, <2>1 DEF PageSpace
<1>3. CASE Renders(t, AddsRow(f), {})
  BY <1>1, <1>2, <1>3, ButtonKeepsRows
<1>4. CASE Renders(t, f, {<<"form", 0>>})
  BY <1>1, <1>2, <1>4, ButtonKeepsRows
<1>5. CASE \E i : Renders(t, RemovesRow(f, i), {})
  BY <1>1, <1>2, <1>5, ButtonKeepsRows
<1>6. CASE \E i, k : Renders(t, SwapsRows(f, i, k), {})
  BY <1>1, <1>2, <1>6, ButtonKeepsRows
<1> QED
  BY <1>3, <1>4, <1>5, <1>6 DEF Clicks

\* Whatever row a button was pressed at, all rows but the one removed are still
\* there, as often as they were.
THEOREM ClicksLoseNothing == EditorSpec => ClicksKeepRows
<1> DEFINE keep == \A t \in Tabs : Clicks(t) =>
                     LET was == pages[t].form.rows
                         now == pages'[t].form.rows
                     IN  \E gone \in SUBSET DOMAIN was :
                           /\ Cardinality(gone) <= 1 /\ Len(now) >= Len(was) - Cardinality(gone)
                           /\ (gone # {}) = (Len(now) < Len(was))
                           /\ \A i \in DOMAIN was \ gone : was[i].role \in KnownRoles =>
                                Cardinality({k \in DOMAIN now : now[k] = was[i]})
                                  >= Cardinality({k \in DOMAIN was \ gone : was[k] = was[i]})
<1>1. EditorInv => keep
  <2> SUFFICES ASSUME EditorInv, NEW t \in Tabs, Clicks(t)
               PROVE  \E gone \in SUBSET DOMAIN pages[t].form.rows :
                        RowsStay(pages[t].form.rows, pages'[t].form.rows, gone)
    BY DEF RowsStay
  <2> QED
    BY ClickStep
<1> HIDE DEF keep
<1>2. EditorInv /\ [EditorNext]_editorVars => [keep]_editorVars
  BY <1>1
<1>3. EditorSpec => [][keep]_editorVars
  BY <1>2, EditorSound, PTL DEF EditorSpec
<1> QED
  BY <1>3, PTL DEF ClicksKeepRows, keep
-----------------------------------------------------------------------------
(* The settings of telemetry *)

\* The first endpoint there is, of four.
LEMMA FirstOfFour ==
  ASSUME NEW a, NEW b, NEW c, NEW d
  PROVE  FirstOf(<<a, b, c, d>>) =
           IF a # <<>> THEN a ELSE IF b # <<>> THEN b ELSE IF c # <<>> THEN c ELSE d
<1> DEFINE q   == <<a, b, c, d>>
           set == {i \in DOMAIN q : q[i] # <<>>}
           m   == CHOOSE i \in set : \A j \in set : i <= j
<1>1. DOMAIN q = {1, 2, 3, 4} /\ q[1] = a /\ q[2] = b /\ q[3] = c /\ q[4] = d
  OBVIOUS
<1>2. FirstOf(q) = IF set = {} THEN <<>> ELSE q[m]
  BY DEF FirstOf
<1> HIDE DEF q
<1>3. ASSUME NEW i \in set, \A j \in set : i <= j PROVE m = i
  <2>1. m \in set /\ \A j \in set : m <= j
    BY <1>3
  <2> HIDE DEF m
  <2> QED
    BY <2>1, <1>3, <1>1
<1> HIDE DEF m
<1>4. CASE a # <<>>
  <2>1. m = 1
    BY <1>1, <1>3, <1>4
  <2> QED
    BY <1>1, <1>2, <1>4, <2>1 DEF q
<1>5. CASE a = <<>> /\ b # <<>>
  <2>1. m = 2
    BY <1>1, <1>3, <1>5
  <2> QED
    BY <1>1, <1>2, <1>5, <2>1 DEF q
<1>6. CASE a = <<>> /\ b = <<>> /\ c # <<>>
  <2>1. m = 3
    BY <1>1, <1>3, <1>6
  <2> QED
    BY <1>1, <1>2, <1>6, <2>1 DEF q
<1>7. CASE a = <<>> /\ b = <<>> /\ c = <<>> /\ d # <<>>
  <2>1. m = 4
    BY <1>1, <1>3, <1>7
  <2> QED
    BY <1>1, <1>2, <1>7, <2>1 DEF q
<1>8. CASE a = <<>> /\ b = <<>> /\ c = <<>> /\ d = <<>>
  <2>1. set = {}
    BY <1>1, <1>8
  <2> QED
    BY <1>2, <1>8, <2>1 DEF q
<1> QED
  BY <1>4, <1>5, <1>6, <1>7, <1>8 DEF q

LEMMA FirstOfThree ==
  ASSUME NEW a, NEW b, NEW c
  PROVE  FirstOf(<<a, b, c>>) = IF a # <<>> THEN a ELSE IF b # <<>> THEN b ELSE c
<1> DEFINE q   == <<a, b, c>>
           set == {i \in DOMAIN q : q[i] # <<>>}
           m   == CHOOSE i \in set : \A j \in set : i <= j
<1>1. DOMAIN q = {1, 2, 3} /\ q[1] = a /\ q[2] = b /\ q[3] = c
  OBVIOUS
<1>2. FirstOf(q) = IF set = {} THEN <<>> ELSE q[m]
  BY DEF FirstOf
<1> HIDE DEF q
<1>3. ASSUME NEW i \in set, \A j \in set : i <= j PROVE m = i
  <2>1. m \in set /\ \A j \in set : m <= j
    BY <1>3
  <2> HIDE DEF m
  <2> QED
    BY <2>1, <1>3, <1>1
<1> HIDE DEF m
<1>4. CASE a # <<>>
  <2>1. m = 1
    BY <1>1, <1>3, <1>4
  <2> QED
    BY <1>1, <1>2, <1>4, <2>1 DEF q
<1>5. CASE a = <<>> /\ b # <<>>
  <2>1. m = 2
    BY <1>1, <1>3, <1>5
  <2> QED
    BY <1>1, <1>2, <1>5, <2>1 DEF q
<1>6. CASE a = <<>> /\ b = <<>> /\ c # <<>>
  <2>1. m = 3
    BY <1>1, <1>3, <1>6
  <2> QED
    BY <1>1, <1>2, <1>6, <2>1 DEF q
<1>7. CASE a = <<>> /\ b = <<>> /\ c = <<>>
  <2>1. set = {}
    BY <1>1, <1>7
  <2> QED
    BY <1>2, <1>7, <2>1 DEF q
<1> QED
  BY <1>4, <1>5, <1>6, <1>7 DEF q

\* What an endpoint is.
LEMMA Endpoints ==
  /\ \A u : (u = 0 => Endpoint(u) = <<>>) /\ (u # 0 => Endpoint(u) = <<u>> /\ Endpoint(u) # <<>>)
  /\ \A b, s : \/ (b = 0 \/ (channel = "logs" /\ s = 0)) /\ Derive(b, s) = <<>>
               \/ ~(b = 0 \/ (channel = "logs" /\ s = 0)) /\ channel = "logs" /\ Derive(b, s) = <<b, s>> /\ Derive(b, s) # <<>>
               \/ ~(b = 0 \/ (channel = "logs" /\ s = 0)) /\ channel # "logs" /\ Derive(b, s) = <<b, 0>> /\ Derive(b, s) # <<>>
BY DEF Endpoint, Derive

\* The fields of the environment: addresses or credentials.
LEMMA EnvironmentFields ==
  ASSUME environment \in Environments
  PROVE  /\ environment.url \in {0, EnvValue} /\ environment.base \in {0, EnvValue}
         /\ environment.stream \in {0, EnvValue}
         /\ environment.auth \subseteq Ingestion \cup {"user"}
<1>1. PICK u \in {0, EnvValue}, b \in {0, EnvValue}, s \in {0, EnvValue}, a \in SUBSET (Ingestion \cup {"user"}) :
         environment = [url |-> u, base |-> b, stream |-> s, auth |-> a]
  BY DEF Environments
<1> QED
  BY <1>1

\* A save keeps the types.
LEMMA SettingsKept == SettingsTypeOK /\ [SettingsNext]_settingsVars => SettingsTypeOK'
<1> SUFFICES ASSUME SettingsTypeOK, SettingsNext PROVE SettingsTypeOK'
  BY DEF SettingsTypeOK, settingsVars
<1>1. /\ channel' = channel /\ environment' = environment
      /\ \/ file' = file /\ damaged' = ~damaged
         \/ damaged' = damaged /\ file' \in [url : Typed, base : Typed, stream : Typed, auth : Methods, sharedAuth : Methods]
  <2>1. /\ 0 \in Typed /\ {} \in Methods
        /\ \A x, y \in Typed : Or(x, y) \in Typed
        /\ \A x, y \in Methods : SavedAuth(x, y) \in Methods
    BY DEF Typed, Methods, Or, SavedAuth, Ingestion
  <2> DEFINE F == [url : Typed, base : Typed, stream : Typed, auth : Methods, sharedAuth : Methods]
  <2>2. file \in F
    BY DEF SettingsTypeOK
  <2>3. ASSUME NEW base \in Typed, NEW stream \in Typed, NEW auth \in Methods, SavesShared(base, stream, auth)
        PROVE  <1>1!2 /\ channel' = channel /\ environment' = environment
    <3> DEFINE to == [file EXCEPT !.base = Or(base, @), !.stream = Or(stream, @), !.sharedAuth = SavedAuth(@, auth)]
    <3>1. to \in F
      BY <2>1, <2>2
    <3> QED
      BY <2>3, <3>1 DEF SavesShared, Writes
  <2>4. ASSUME NEW url \in Typed, NEW auth \in Methods, SavesChannel(url, auth)
        PROVE  <1>1!2 /\ channel' = channel /\ environment' = environment
    <3> DEFINE to == [file EXCEPT !.url = Or(url, @), !.auth = SavedAuth(@, auth)]
    <3>1. to \in F
      BY <2>1, <2>2
    <3> QED
      BY <2>4, <3>1 DEF SavesChannel, Writes
  <2>5. CASE ClearsAuth \/ ClearsShared \/ ClearsChannel
    <3>1. /\ [file EXCEPT !.sharedAuth = {}] \in F /\ [file EXCEPT !.base = 0, !.stream = 0, !.sharedAuth = {}] \in F
          /\ [file EXCEPT !.url = 0, !.auth = {}] \in F
      BY <2>1, <2>2
    <3> QED
      BY <2>5, <3>1 DEF ClearsAuth, ClearsShared, ClearsChannel, Writes
  <2> QED
    BY <2>3, <2>4, <2>5 DEF SettingsNext, EditsByHand
<1> QED
  BY <1>1 DEF SettingsTypeOK

LEMMA SettingsStart == SettingsInit => SettingsTypeOK
<1>1. 0 \in Typed /\ {} \in Methods
  BY DEF Typed, Methods
<1>2. Blank \in [url : Typed, base : Typed, stream : Typed, auth : Methods, sharedAuth : Methods]
  BY <1>1 DEF Blank
<1> QED
  BY <1>2 DEF SettingsInit, SettingsTypeOK

\* The fields of the settings keep their types, in memory and in the file.
THEOREM SettingsWellTyped == SettingsSpec => []SettingsTypeOK
<1> QED
  BY SettingsStart, SettingsKept, PTL DEF SettingsSpec

\* In every typed state the page's own resolution is the one exports use.
LEMMA PageFromTypes == SettingsTypeOK => PageSaysWhatIsSent
<1> SUFFICES ASSUME SettingsTypeOK PROVE PageSaysWhatIsSent
  OBVIOUS
<1>1. /\ environment.url \in {0, EnvValue} /\ environment.base \in {0, EnvValue}
      /\ environment.stream \in {0, EnvValue} /\ environment.auth \subseteq Ingestion \cup {"user"}
      /\ EnvValue # 0
  BY EnvironmentFields, TelemetrySettingsAssumption DEF SettingsTypeOK
<1>2. /\ Stored.url \in Typed /\ Stored.base \in Typed /\ Stored.stream \in Typed
      /\ Stored.auth \in Methods /\ Stored.sharedAuth \in Methods
      /\ damaged => Stored = Blank
  BY DEF SettingsTypeOK, Stored, Blank, Typed, Methods
<1>3. EnvValue \notin Typed
  BY TelemetrySettingsAssumption DEF Typed
<1> DEFINE A == Endpoint(environment.url)
           B == Derive(environment.base, environment.stream)
           C == Endpoint(Stored.url)
           D == Derive(Stored.base, Stored.stream)
           P == IF A # <<>> THEN <<>> ELSE B
           Q == IF A # <<>> \/ P # <<>> \/ C # <<>> THEN <<>> ELSE D
<1>4. ResolvedUrl = FirstOf(<<A, B, C, D>>) /\ Status.url = FirstOf(<<A, P, C, Q>>)
      /\ Status.source = (IF A # <<>> \/ P # <<>> THEN "environment"
                          ELSE IF C # <<>> \/ Q # <<>> THEN "stored" ELSE "none")
  BY DEF ResolvedUrl, Status
<1> DEFINE R == IF A # <<>> THEN A ELSE IF B # <<>> THEN B ELSE IF C # <<>> THEN C ELSE D
<1> HIDE DEF A, B, C, D
<1>5. ResolvedUrl = R /\ Status.url = R
  <2>1. ResolvedUrl = R
    BY <1>4, FirstOfFour
  <2>2. Status.url = IF A # <<>> THEN A ELSE IF P # <<>> THEN P ELSE IF C # <<>> THEN C ELSE Q
    BY <1>4, FirstOfFour
  <2> QED
    BY <2>1, <2>2
<1>6. A \in {<<>>, <<EnvValue>>} /\ B \in {<<>>, <<EnvValue, EnvValue>>, <<EnvValue, 0>>}
  BY <1>1, Endpoints DEF A, B
<1>7. C # <<>> => C = <<Stored.url>>
  BY Endpoints DEF C
<1>8. D # <<>> => D = <<Stored.base, Stored.stream>> \/ D = <<Stored.base, 0>>
  BY Endpoints DEF D
<1>9. Status.source = "stored" => A = <<>> /\ B = <<>> /\ (C # <<>> \/ D # <<>>)
  BY <1>4
<1>10. Status.source = "environment" => A # <<>> \/ B # <<>>
  BY <1>4
<1>11. damaged => C = <<>> /\ D = <<>>
  BY <1>2, Endpoints DEF C, D, Blank
<1>12. Status.source = "stored" => EnvValue \notin {ResolvedUrl[i] : i \in DOMAIN ResolvedUrl}
  <2> SUFFICES ASSUME Status.source = "stored" PROVE EnvValue \notin {ResolvedUrl[i] : i \in DOMAIN ResolvedUrl}
    OBVIOUS
  <2>1. \/ ResolvedUrl = <<Stored.url>> \/ ResolvedUrl = <<Stored.base, Stored.stream>>
        \/ ResolvedUrl = <<Stored.base, 0>>
    BY <1>5, <1>7, <1>8, <1>9
  <2> QED
    BY <2>1, <1>2, <1>3, <1>1
<1>13. Header(ResolvedAuth) # "none" => StatusAuth = IF Usable(environment.auth) THEN "environment" ELSE "stored"
  BY <1>1 DEF Header, ResolvedAuth, StatusAuth, Usable, Ingestion
<1> QED
  BY <1>5, <1>6, <1>9, <1>10, <1>11, <1>12, <1>13 DEF PageSaysWhatIsSent

\* What the page says is sent is what is sent, whatever the two layers hold.
THEOREM PageAlwaysSaysWhatIsSent == SettingsSpec => []PageSaysWhatIsSent
<1> QED
  BY SettingsWellTyped, PageFromTypes, PTL

\* Where the environment sets no address, a preview is what its save gives.
LEMMA PreviewStep ==
  ASSUME SettingsTypeOK, environment.url = 0, environment.base = 0, environment.stream = 0
  PROVE  /\ \A base \in Typed, stream \in Typed :
              SavesShared(base, stream, {}) => ResolvedUrl' = Preview(0, base, stream)
         /\ \A url \in Typed : SavesChannel(url, {}) => ResolvedUrl' = Preview(url, 0, 0)
<1> DEFINE u == file.url
           b == file.base
           s == file.stream
           C == Endpoint(u)
           D == Derive(b, s)
           None == Endpoint(0)
<1>1. file \in [url : Typed, base : Typed, stream : Typed, auth : Methods, sharedAuth : Methods]
  BY DEF SettingsTypeOK
<1>2. None = <<>> /\ Derive(0, 0) = <<>> /\ \A x : Or(0, x) = x
  BY Endpoints DEF Or
<1>3. ASSUME ~damaged
      PROVE  /\ Status.url = (IF C # <<>> THEN C ELSE D)
             /\ Pinned <=> C # <<>>
             /\ PageBase = b /\ PageStream = s
  <2>1. Stored = file
    BY <1>3 DEF Stored
  <2>2. Status = [url    |-> FirstOf(<<None, <<>>, C, IF C # <<>> THEN <<>> ELSE D>>),
                  source |-> IF C # <<>> \/ (C = <<>> /\ D # <<>>) THEN "stored" ELSE "none",
                  shared |-> C = <<>> /\ D # <<>>]
    BY <2>1, <1>2 DEF Status
  <2> HIDE DEF C, D, None
  <2>3. Status.url = (IF C # <<>> THEN C ELSE D)
    BY <2>2, <1>2, FirstOfFour
  <2>4. Pinned <=> C # <<>>
    BY <2>2 DEF Pinned
  <2> QED
    BY <2>1, <2>3, <2>4, <1>2 DEF PageBase, PageStream
<1>4. ASSUME NEW url, NEW base, NEW stream, ~damaged
      PROVE  Preview(url, base, stream) =
               IF Endpoint(url) # <<>> THEN Endpoint(url)
               ELSE IF C # <<>> THEN C
               ELSE IF Derive(Or(base, b), Or(stream, s)) # <<>> THEN Derive(Or(base, b), Or(stream, s))
               ELSE D
  <2> DEFINE shown == IF Pinned THEN Status.url ELSE Derive(Or(base, PageBase), Or(stream, PageStream))
  <2>1. Preview(url, base, stream) = FirstOf(<<Endpoint(url), shown, Status.url>>)
    BY DEF Preview
  <2>2. shown = IF C # <<>> THEN C ELSE Derive(Or(base, b), Or(stream, s))
    BY <1>3, <1>4
  <2> HIDE DEF shown, C, D
  <2>3. Preview(url, base, stream) = IF Endpoint(url) # <<>> THEN Endpoint(url) ELSE IF shown # <<>> THEN shown ELSE Status.url
    BY <2>1, FirstOfThree
  <2> QED
    BY <2>2, <2>3, <1>3, <1>4
<1>5. ASSUME UNCHANGED <<channel, environment, damaged>>, ~damaged
      PROVE  ResolvedUrl' = IF Endpoint(file'.url) # <<>> THEN Endpoint(file'.url) ELSE Derive(file'.base, file'.stream)
  <2>1. Stored' = file'
    BY <1>5 DEF Stored
  <2>2. ResolvedUrl' = FirstOf(<<None, <<>>, Endpoint(file'.url), Derive(file'.base, file'.stream)>>)
    BY <2>1, <1>2, <1>5 DEF ResolvedUrl, Derive, Endpoint, FirstOf
  <2> HIDE DEF None
  <2> QED
    BY <2>2, <1>2, FirstOfFour
<1>6. ASSUME NEW base \in Typed, NEW stream \in Typed, SavesShared(base, stream, {})
      PROVE  ResolvedUrl' = Preview(0, base, stream)
  <2>1. /\ ~damaged /\ UNCHANGED <<channel, environment, damaged>>
        /\ file'.url = u /\ file'.base = Or(base, b) /\ file'.stream = Or(stream, s)
    BY <1>1, <1>6 DEF SavesShared, Writes
  <2>2. Derive(Or(base, b), Or(stream, s)) = <<>> => D = <<>>
    BY Endpoints DEF Or
  <2> QED
    BY <2>1, <2>2, <1>2, <1>4, <1>5
<1>7. ASSUME NEW url \in Typed, SavesChannel(url, {})
      PROVE  ResolvedUrl' = Preview(url, 0, 0)
  <2>1. /\ ~damaged /\ UNCHANGED <<channel, environment, damaged>>
        /\ file'.url = Or(url, u) /\ file'.base = b /\ file'.stream = s
    BY <1>1, <1>7 DEF SavesChannel, Writes
  <2>2. Endpoint(Or(url, u)) = IF Endpoint(url) # <<>> THEN Endpoint(url) ELSE C
    BY Endpoints DEF Or
  <2> HIDE DEF C, D
  <2> QED
    BY <2>1, <2>2, <1>2, <1>4, <1>5 DEF D
<1> QED
  BY <1>6, <1>7

\* A page's preview of what is typed is the endpoint its save gives.
THEOREM PreviewIsTrue == SettingsSpec => PreviewIsWhatSaveGives
<1>1. SettingsTypeOK =>
        [file' # file /\ environment.url = 0 /\ environment.base = 0 /\ environment.stream = 0 =>
           /\ \A base \in Typed, stream \in Typed :
                SavesShared(base, stream, {}) => ResolvedUrl' = Preview(0, base, stream)
           /\ \A url \in Typed : SavesChannel(url, {}) => ResolvedUrl' = Preview(url, 0, 0)]_settingsVars
  BY PreviewStep
<1> QED
  BY <1>1, SettingsWellTyped, PTL DEF PreviewIsWhatSaveGives

-----------------------------------------------------------------------------
(* Pauses *)

PauseRow == [ended : {"no", "superseded", "operator"}, lapsed : BOOLEAN, whole : BOOLEAN]
PausedJob == [kind : Kinds, state : {"none", "queued", "running", "completed", "failed", "cancelled"},
              reason : {"none", "repo_paused", "reviews_paused"}]

PauseTypes ==
  /\ pauses \in Seq(PauseRow) /\ Len(pauses) <= MaxPauses
  /\ switchOn \in BOOLEAN /\ asking \subseteq {"review", "pause"}
  /\ handler \in {"none", "superseded", "inserted"} /\ tab \in 0..MaxPauses
  /\ pausable \in [RepoReviews -> PausedJob]
  /\ pauseUpsets \in 0..MaxPauseUpsets

\* One row is open at a time, none while a new one is made, and there is room for it.
OpenRows ==
  /\ \A i, k \in DOMAIN pauses : pauses[i].ended = "no" /\ pauses[k].ended = "no" => i = k
  /\ handler = "superseded" => \A i \in DOMAIN pauses : pauses[i].ended # "no"
  /\ "pause" \in asking \/ handler = "superseded" => Len(pauses) < MaxPauses
  /\ handler # "none" => "pause" \notin asking

PausesInv == PauseTypes /\ OpenRows /\ RepoPauseIsQuiet

LEMMA PauseBounds == MaxPauses \in Nat /\ MaxPauseUpsets \in Nat /\ NoReview \in PausedJob
BY PausesAssumption DEF NoReview, PausedJob, Kinds

\* A step that makes no pause stand whole, starts nothing under the switch and
\* gives an automatic review no work, keeps the quiet.
LEMMA QuietKept ==
  ASSUME RepoPauseIsQuiet,
         \A i \in DOMAIN pauses' : Standing(pauses'[i]) /\ pauses'[i].whole
           => i \in DOMAIN pauses /\ Standing(pauses[i]) /\ pauses[i].whole,
         \A r \in RepoReviews :
           /\ pausable'[r].kind = "automatic" /\ Pending(pausable'[r]) =>
                \/ pausable[r].kind = "automatic" /\ Pending(pausable[r])
                \/ ~ActivePause
           /\ switchOn' /\ pausable'[r].state = "running" => switchOn /\ pausable[r].state = "running"
  PROVE  RepoPauseIsQuiet'
BY DEF RepoPauseIsQuiet, ActivePause

\* The reviews: what enters, is claimed, ends or is asked for again.
LEMMA ReviewsKeep ==
  ASSUME PausesInv, PullDelivered \/ AskForReview \/ ForgeAnswers \/ MemberEnqueued \/ ClaimReview
                    \/ ReviewEnds \/ RetryReview
  PROVE  PausesInv'
<1>1. PauseTypes /\ OpenRows /\ RepoPauseIsQuiet /\ UNCHANGED <<pauses, switchOn, handler, tab>>
  BY DEF PausesInv, PullDelivered, AskForReview, ForgeAnswers, MemberEnqueued, ClaimReview, ReviewEnds, RetryReview
<1>2. /\ asking' \subseteq {"review", "pause"} /\ ("pause" \in asking' => "pause" \in asking)
      /\ pauseUpsets' \in 0..MaxPauseUpsets
  BY <1>1, PauseBounds
     DEF PauseTypes, PullDelivered, AskForReview, ForgeAnswers, MemberEnqueued, ClaimReview, ReviewEnds, RetryReview, PauseUpset
<1> DEFINE Fits(r, v) ==
             /\ v \in PausedJob
             /\ v.kind = "automatic" /\ Pending(v) =>
                  (pausable[r].kind = "automatic" /\ Pending(pausable[r])) \/ ~ActivePause
             /\ v.state = "running" => ~switchOn
<1>3. pausable' = pausable \/ \E r \in RepoReviews, v \in PausedJob : Fits(r, v) /\ pausable' = [pausable EXCEPT ![r] = v]
  <2>1. ASSUME NEW kind \in Kinds, NEW state \in {"queued", "running"}, EnqueueReview(kind, state),
               kind = "automatic" => ~ActivePause, state = "running" => ~switchOn
        PROVE  \E r \in RepoReviews, v \in PausedJob : Fits(r, v) /\ pausable' = [pausable EXCEPT ![r] = v]
    <3> DEFINE v == [NoReview EXCEPT !.kind = kind, !.state = state]
    <3>1. v \in PausedJob /\ v.kind = kind /\ v.state = state
      BY DEF NoReview, PausedJob
    <3> HIDE DEF v
    <3>2. PICK r \in RepoReviews : pausable' = [pausable EXCEPT ![r] = v]
      BY <2>1 DEF EnqueueReview, v
    <3> QED
      BY <2>1, <3>1, <3>2
  <2>2. CASE PullDelivered
    BY <2>1, <2>2 DEF PullDelivered, Kinds
  <2>3. CASE AskForReview
    BY <2>3 DEF AskForReview
  <2>4. CASE ForgeAnswers
    BY <2>1, <2>4 DEF ForgeAnswers, Kinds
  <2>5. CASE MemberEnqueued
    BY <2>1, <2>5 DEF MemberEnqueued, Kinds
  <2>6. CASE ClaimReview
    <3>1. PICK r \in RepoReviews : /\ pausable[r].state = "queued"
                                   /\ pausable' = [pausable EXCEPT ![r] = ClaimedReview(pausable[r])]
      BY <2>6 DEF ClaimReview
    <3> DEFINE v == ClaimedReview(pausable[r])
    <3>2. v \in PausedJob /\ v.kind = pausable[r].kind /\ (v.state = "running" => ~switchOn)
      BY <1>1 DEF ClaimedReview, PauseTypes, PausedJob
    <3> HIDE DEF v
    <3>3. Fits(r, v)
      BY <3>1, <3>2 DEF Pending
    <3> QED
      BY <3>1, <3>2, <3>3 DEF v
  <2>7. CASE ReviewEnds
    <3>1. PICK r \in RepoReviews, s \in {"completed", "failed"} : pausable' = [pausable EXCEPT ![r].state = s]
      BY <2>7 DEF ReviewEnds
    <3> DEFINE v == [pausable[r] EXCEPT !.state = s]
    <3>2. v \in PausedJob /\ v.state = s
      BY <1>1 DEF PauseTypes, PausedJob
    <3>3. pausable' = [pausable EXCEPT ![r] = v]
      BY <3>1
    <3> HIDE DEF v
    <3> QED
      BY <3>2, <3>3 DEF Pending
  <2>8. CASE RetryReview
    <3>1. PICK r \in RepoReviews : pausable' = [pausable EXCEPT ![r].kind = "manual", ![r].state = "queued"]
      BY <2>8 DEF RetryReview
    <3> DEFINE v == [pausable[r] EXCEPT !.kind = "manual", !.state = "queued"]
    <3>2. v \in PausedJob /\ v.state = "queued" /\ v.kind = "manual"
      BY <1>1 DEF PauseTypes, PausedJob, Kinds
    <3>3. pausable' = [pausable EXCEPT ![r] = v]
      BY <1>1, <3>1 DEF PauseTypes
    <3> HIDE DEF v
    <3> QED
      BY <3>2, <3>3
  <2> QED
    BY <2>2, <2>3, <2>4, <2>5, <2>6, <2>7, <2>8
<1>4. pausable \in [RepoReviews -> PausedJob]
  BY <1>1 DEF PauseTypes
<1>5. pausable' \in [RepoReviews -> PausedJob]
  BY <1>3, <1>4
<1>6. \A r \in RepoReviews : pausable'[r] = pausable[r] \/ Fits(r, pausable'[r])
  BY <1>3, <1>4
<1>7. RepoPauseIsQuiet'
  <2>1. \A i \in DOMAIN pauses' : Standing(pauses'[i]) /\ pauses'[i].whole
           => i \in DOMAIN pauses /\ Standing(pauses[i]) /\ pauses[i].whole
    BY <1>1
  <2>2. ASSUME NEW r \in RepoReviews
        PROVE  /\ pausable'[r].kind = "automatic" /\ Pending(pausable'[r]) =>
                    \/ pausable[r].kind = "automatic" /\ Pending(pausable[r])
                    \/ ~ActivePause
               /\ switchOn' /\ pausable'[r].state = "running" => switchOn /\ pausable[r].state = "running"
    <3>1. CASE pausable'[r] = pausable[r]
      BY <1>1, <3>1, Zenon
    <3>2. CASE Fits(r, pausable'[r])
      <4>1. switchOn' => switchOn
        BY <1>1
      <4>2. /\ pausable'[r].kind = "automatic" /\ Pending(pausable'[r]) =>
                 (pausable[r].kind = "automatic" /\ Pending(pausable[r])) \/ ~ActivePause
            /\ pausable'[r].state = "running" => ~switchOn
        BY <3>2
      <4> HIDE DEF Fits
      <4> QED
        BY ONLY <4>1, <4>2
    <3> QED
      BY <1>6, <3>1, <3>2
  <2> QED
    BY <1>1, <2>1, <2>2, QuietKept, Zenon
<1> QED
  BY <1>1, <1>2, <1>5, <1>7 DEF PausesInv, PauseTypes, OpenRows

\* A cancellation leaves nothing pending and nothing running.
LEMMA AllCancelled ==
  ASSUME PauseTypes, NEW reason \in {"repo_paused", "reviews_paused"}, pausable' = CancelReviews(reason)
  PROVE  /\ pausable' \in [RepoReviews -> PausedJob]
         /\ \A r \in RepoReviews : ~Pending(pausable'[r])
<1>1. \A r \in RepoReviews : CancelledFor(pausable[r], reason) \in PausedJob /\ ~Pending(CancelledFor(pausable[r], reason))
  BY DEF PauseTypes, PausedJob, CancelledFor, Pending
<1>2. pausable' = [r \in RepoReviews |-> IF Pending(pausable[r]) THEN CancelledFor(pausable[r], reason) ELSE pausable[r]]
  BY DEF CancelReviews
<1>3. \A r \in RepoReviews : pausable[r] \in PausedJob
  BY DEF PauseTypes
<1> HIDE DEF PausedJob
<1> QED
  BY <1>1, <1>2, <1>3

\* A row that changes its "ended" or "lapsed" keeps its place, and stands no more.
LEMMA RowsRetyped ==
  ASSUME PauseTypes, DOMAIN pauses' = DOMAIN pauses, pauses' \in [DOMAIN pauses -> PauseRow]
  PROVE  pauses' \in Seq(PauseRow) /\ Len(pauses') = Len(pauses)
<1>1. pauses \in Seq(PauseRow)
  BY DEF PauseTypes
<1> HIDE DEF PauseRow
<1>2. DOMAIN pauses = 1..Len(pauses) /\ Len(pauses) \in Nat
  BY <1>1, LenProperties
<1>3. pauses' \in Seq(PauseRow)
  BY <1>2, IsASeq
<1>4. DOMAIN pauses' = 1..Len(pauses') /\ Len(pauses') \in Nat
  BY <1>3, LenProperties
<1> QED
  BY <1>2, <1>3, <1>4

\* A step of the rows alone that ends or lets lapse, and gives none its "whole".
LEMMA RowsEnd ==
  ASSUME PausesInv, UNCHANGED <<switchOn, pausable>>, handler' = "none" \/ handler' = handler \/ handler' = "superseded",
         asking' \subseteq asking \union {"pause"}, tab' \in 0..MaxPauses, pauseUpsets' = pauseUpsets,
         DOMAIN pauses' = DOMAIN pauses, pauses' \in [DOMAIN pauses -> PauseRow],
         \A i \in DOMAIN pauses : pauses'[i].whole = pauses[i].whole /\ (Standing(pauses'[i]) => Standing(pauses[i]))
                                  /\ (pauses'[i].ended = "no" => pauses[i].ended = "no"),
         handler' = "superseded" => \A i \in DOMAIN pauses : pauses'[i].ended # "no",
         "pause" \in asking' \/ handler' = "superseded" => Len(pauses) < MaxPauses,
         handler' # "none" => "pause" \notin asking'
  PROVE  PausesInv'
<1>1. PauseTypes /\ OpenRows /\ RepoPauseIsQuiet
  BY DEF PausesInv
<1>2. pauses' \in Seq(PauseRow) /\ Len(pauses') = Len(pauses)
  BY <1>1, RowsRetyped
<1>3. PauseTypes'
  BY <1>1, <1>2 DEF PauseTypes
<1>4. OpenRows'
  BY <1>1, <1>2 DEF OpenRows
<1>5. \A i \in DOMAIN pauses' : Standing(pauses'[i]) /\ pauses'[i].whole
        => i \in DOMAIN pauses /\ Standing(pauses[i]) /\ pauses[i].whole
  BY Zenon
<1>6. RepoPauseIsQuiet'
  BY <1>1, <1>5, QuietKept, Zenon
<1> QED
  BY <1>3, <1>4, <1>6 DEF PausesInv

\* The pages: a pause that is asked for, lapses, is shown, or is ended there.
LEMMA PausePagesKeep ==
  ASSUME PausesInv, AskForPause \/ PauseLapses \/ PausePage \/ PostEnd
  PROVE  PausesInv'
<1>1. PauseTypes /\ OpenRows /\ RepoPauseIsQuiet /\ UNCHANGED <<switchOn, pausable, handler, pauseUpsets>>
  BY DEF PausesInv, AskForPause, PauseLapses, PausePage, PostEnd
<1>2. /\ pauses \in Seq(PauseRow) /\ pauses \in [DOMAIN pauses -> PauseRow] /\ DOMAIN pauses = 1..Len(pauses) /\ Len(pauses) \in Nat
      /\ Len(pauses) <= MaxPauses /\ MaxPauses \in Nat /\ tab \in 0..MaxPauses
  BY <1>1, PauseBounds DEF PauseTypes
<1>3. CASE AskForPause \/ PausePage
  <2>1. pauses' = pauses /\ asking' \subseteq asking \union {"pause"} /\ tab' \in 0..MaxPauses
    BY <1>2, <1>3 DEF AskForPause, PausePage
  <2>2. ("pause" \in asking' \/ handler' = "superseded" => Len(pauses) < MaxPauses)
        /\ (handler' # "none" => "pause" \notin asking')
    BY <1>1, <1>3 DEF AskForPause, PausePage, OpenRows, Serves
  <2>3. handler' = "superseded" => \A i \in DOMAIN pauses : pauses'[i].ended # "no"
    BY <1>1, <2>1 DEF OpenRows
  <2> QED
    BY <1>1, <1>2, <2>1, <2>2, <2>3, RowsEnd
<1>4. CASE PauseLapses
  <2>1. PICK i \in DOMAIN pauses : Standing(pauses[i]) /\ pauses' = [pauses EXCEPT ![i].lapsed = TRUE]
    BY <1>4 DEF PauseLapses
  <2> DEFINE v == [pauses[i] EXCEPT !.lapsed = TRUE]
  <2>2. v \in PauseRow /\ v.whole = pauses[i].whole /\ ~Standing(v) /\ v.ended = pauses[i].ended
    BY <1>2 DEF PauseRow, Standing
  <2>3. pauses' = [pauses EXCEPT ![i] = v]
    BY <2>1
  <2> HIDE DEF v
  <2>4. /\ DOMAIN pauses' = DOMAIN pauses /\ pauses' \in [DOMAIN pauses -> PauseRow]
        /\ \A k \in DOMAIN pauses : pauses'[k].whole = pauses[k].whole /\ (Standing(pauses'[k]) => Standing(pauses[k]))
                                    /\ (pauses'[k].ended = "no" => pauses[k].ended = "no")
    BY <1>2, <2>2, <2>3
  <2>5. handler = "none" /\ UNCHANGED <<asking, tab>>
    BY <1>4 DEF PauseLapses, Serves
  <2>6. ("pause" \in asking' \/ handler' = "superseded" => Len(pauses) < MaxPauses)
        /\ (handler' # "none" => "pause" \notin asking')
    BY <1>1, <2>5 DEF OpenRows
  <2> QED
    BY <1>1, <1>2, <2>4, <2>5, <2>6, RowsEnd
<1>5. CASE PostEnd
  <2>1. handler = "none" /\ UNCHANGED asking /\ tab' = 0 /\ pauses' = EndPause
    BY <1>5 DEF PostEnd, Serves
  <2> DEFINE v == [pauses[tab] EXCEPT !.ended = "operator"]
  <2>2. tab \in DOMAIN pauses => v \in PauseRow /\ v.whole = pauses[tab].whole /\ ~Standing(v) /\ v.ended = "operator"
    BY <1>2 DEF PauseRow, Standing
  <2>3. pauses' = [pauses EXCEPT ![tab] = v] \/ pauses' = pauses
    BY <2>1 DEF EndPause
  <2> HIDE DEF v
  <2>4. /\ DOMAIN pauses' = DOMAIN pauses /\ pauses' \in [DOMAIN pauses -> PauseRow]
        /\ \A k \in DOMAIN pauses : pauses'[k].whole = pauses[k].whole /\ (Standing(pauses'[k]) => Standing(pauses[k]))
                                    /\ (pauses'[k].ended = "no" => pauses[k].ended = "no")
    BY <1>2, <2>2, <2>3
  <2>5. ("pause" \in asking' \/ handler' = "superseded" => Len(pauses) < MaxPauses)
        /\ (handler' # "none" => "pause" \notin asking')
    BY <1>1, <2>1 DEF OpenRows
  <2> QED
    BY <1>1, <1>2, <2>1, <2>4, <2>5, RowsEnd
<1> QED
  BY <1>3, <1>4, <1>5

\* POST /pause: the old row ends, the new one comes, what is pending is cancelled.
LEMMA PostPauseKeeps ==
  ASSUME PausesInv, SupersedePauses \/ InsertPause \/ CancelForPause
  PROVE  PausesInv'
<1>1. PauseTypes /\ OpenRows /\ RepoPauseIsQuiet /\ UNCHANGED <<switchOn, tab, pauseUpsets>>
  BY DEF PausesInv, SupersedePauses, InsertPause, CancelForPause
<1>2. /\ pauses \in Seq(PauseRow) /\ pauses \in [DOMAIN pauses -> PauseRow] /\ DOMAIN pauses = 1..Len(pauses) /\ Len(pauses) \in Nat
      /\ Len(pauses) <= MaxPauses /\ MaxPauses \in Nat /\ tab \in 0..MaxPauses
  BY <1>1, PauseBounds DEF PauseTypes
<1>3. CASE SupersedePauses
  <2>1. /\ Serves /\ "pause" \in asking /\ asking' = asking \ {"pause"} /\ pausable' = pausable
        /\ (handler' = "superseded" /\ pauses' = Superseded) \/ UNCHANGED <<handler, pauses>>
    BY <1>3 DEF SupersedePauses
  <2>2. CASE handler' = "superseded" /\ pauses' = Superseded
    <3> DEFINE v(i) == [pauses[i] EXCEPT !.ended = "superseded"]
    <3>1. \A i \in DOMAIN pauses : /\ v(i) \in PauseRow /\ v(i).whole = pauses[i].whole
                                   /\ ~Standing(v(i)) /\ v(i).ended = "superseded"
      BY <1>2 DEF PauseRow, Standing
    <3>2. pauses' = [i \in DOMAIN pauses |-> IF pauses[i].ended = "no" THEN v(i) ELSE pauses[i]]
      BY <2>2 DEF Superseded
    <3> HIDE DEF v
    <3>3. /\ DOMAIN pauses' = DOMAIN pauses /\ pauses' \in [DOMAIN pauses -> PauseRow]
          /\ \A k \in DOMAIN pauses : /\ pauses'[k].whole = pauses[k].whole /\ (Standing(pauses'[k]) => Standing(pauses[k]))
                                      /\ pauses'[k].ended # "no"
      BY <1>2, <3>1, <3>2
    <3>4. Len(pauses) < MaxPauses
      BY <1>1, <2>1 DEF OpenRows
    <3> QED
      BY <1>1, <1>2, <2>1, <2>2, <3>3, <3>4, RowsEnd
  <2>3. CASE UNCHANGED <<handler, pauses>>
    <3>1. handler' = "none" /\ "pause" \notin asking'
      BY <2>1, <2>3 DEF Serves
    <3> QED
      BY <1>1, <1>2, <2>1, <2>3, <3>1, RowsEnd
  <2> QED
    BY <2>1, <2>2, <2>3
<1>4. CASE InsertPause
  <2> DEFINE v == [ended |-> "no", lapsed |-> FALSE, whole |-> FALSE]
  <2>1. /\ handler = "superseded" /\ handler' = "inserted" /\ pauses' = Append(pauses, v)
        /\ UNCHANGED <<pausable, asking>>
    BY <1>4 DEF InsertPause
  <2>2. v \in PauseRow /\ v.ended = "no" /\ ~v.whole
    BY DEF PauseRow
  <2> HIDE DEF v
  <2>3. /\ pauses' \in Seq(PauseRow) /\ Len(pauses') = Len(pauses) + 1 /\ pauses'[Len(pauses) + 1] = v
        /\ \A k \in DOMAIN pauses : pauses'[k] = pauses[k]
        /\ DOMAIN pauses' = DOMAIN pauses \union {Len(pauses) + 1}
    BY <1>2, <2>1, <2>2
  <2>4. Len(pauses) < MaxPauses /\ \A i \in DOMAIN pauses : pauses[i].ended # "no"
    BY <1>1, <2>1 DEF OpenRows
  <2>5. PauseTypes'
    BY <1>1, <1>2, <2>1, <2>3, <2>4 DEF PauseTypes
  <2>6. OpenRows'
    BY <1>1, <2>1, <2>2, <2>3, <2>4 DEF OpenRows
  <2>7. \A i \in DOMAIN pauses' : Standing(pauses'[i]) /\ pauses'[i].whole
        => i \in DOMAIN pauses /\ Standing(pauses[i]) /\ pauses[i].whole
    BY <2>2, <2>3
  <2>8. RepoPauseIsQuiet'
    BY <1>1, <2>1, <2>7, QuietKept
  <2> QED
    BY <2>5, <2>6, <2>8 DEF PausesInv
<1>5. CASE CancelForPause
  <2>1. /\ handler = "inserted" /\ handler' = "none" /\ pausable' = CancelReviews("repo_paused")
        /\ pauses' = [pauses EXCEPT ![Len(pauses)].whole = TRUE] /\ asking' = asking
    BY <1>5 DEF CancelForPause
  <2>2. pausable' \in [RepoReviews -> PausedJob] /\ \A r \in RepoReviews : ~Pending(pausable'[r])
    BY <1>1, <2>1, AllCancelled
  <2> DEFINE v == [pauses[Len(pauses)] EXCEPT !.whole = TRUE]
  <2>3. Len(pauses) \in DOMAIN pauses => v \in PauseRow /\ v.ended = pauses[Len(pauses)].ended
    BY <1>2 DEF PauseRow
  <2>4. pauses' = [pauses EXCEPT ![Len(pauses)] = v]
    BY <2>1
  <2> HIDE DEF v
  <2>5. /\ DOMAIN pauses' = DOMAIN pauses /\ pauses' \in [DOMAIN pauses -> PauseRow]
        /\ \A k \in DOMAIN pauses : pauses'[k].ended = pauses[k].ended
    BY <1>2, <2>3, <2>4
  <2>6. pauses' \in Seq(PauseRow) /\ Len(pauses') = Len(pauses)
    BY <1>1, <2>5, RowsRetyped
  <2>7. PauseTypes'
    BY <1>1, <2>1, <2>2, <2>6 DEF PauseTypes
  <2>8. OpenRows'
    BY <1>1, <2>1, <2>5, <2>6 DEF OpenRows
  <2>9. RepoPauseIsQuiet'
    BY <2>2 DEF RepoPauseIsQuiet, Pending
  <2> QED
    BY <2>7, <2>8, <2>9 DEF PausesInv
<1> QED
  BY <1>3, <1>4, <1>5

\* The switch, and a death.
LEMMA SwitchKeeps ==
  ASSUME PausesInv, TurnSwitch \/ PauseProcessDies
  PROVE  PausesInv'
<1>1. PauseTypes /\ OpenRows /\ RepoPauseIsQuiet /\ UNCHANGED <<pauses, tab>> /\ pauseUpsets' \in 0..MaxPauseUpsets
  BY PauseBounds DEF PausesInv, TurnSwitch, PauseProcessDies, PauseUpset, PauseTypes
<1>2. CASE TurnSwitch
  <2>1. /\ switchOn' = ~switchOn /\ UNCHANGED <<asking, handler>>
        /\ pausable' = IF switchOn THEN pausable ELSE CancelReviews("reviews_paused")
    BY <1>2 DEF TurnSwitch
  <2>2. /\ pausable' \in [RepoReviews -> PausedJob]
        /\ (switchOn /\ ~switchOn' /\ pausable' = pausable) \/ \A r \in RepoReviews : ~Pending(pausable'[r])
    <3>1. CASE switchOn
      BY <1>1, <2>1, <3>1 DEF PauseTypes
    <3>2. CASE ~switchOn
      BY <1>1, <2>1, <3>2, AllCancelled
    <3> QED
      BY <3>1, <3>2
  <2>3. switchOn' \in BOOLEAN
    BY <2>1
  <2>4. PauseTypes'
    BY <1>1, <2>1, <2>2, <2>3 DEF PauseTypes
  <2>5. OpenRows'
    BY <1>1, <2>1 DEF OpenRows
  <2>6. RepoPauseIsQuiet'
    BY <1>1, <2>2 DEF RepoPauseIsQuiet, Pending
  <2> QED
    BY <2>4, <2>5, <2>6 DEF PausesInv
<1>3. CASE PauseProcessDies
  <2>1. /\ handler' = "none" /\ asking' = {} /\ switchOn' = switchOn
        /\ pausable' = [r \in RepoReviews |-> IF Pending(pausable[r]) THEN [pausable[r] EXCEPT !.state = "queued"]
                                              ELSE pausable[r]]
    BY <1>3 DEF PauseProcessDies
  <2> DEFINE v(r) == [pausable[r] EXCEPT !.state = "queued"]
  <2>2. \A r \in RepoReviews : pausable[r] \in PausedJob /\ v(r) \in PausedJob /\ v(r).kind = pausable[r].kind
                               /\ v(r).state = "queued"
    BY <1>1 DEF PauseTypes, PausedJob
  <2>3. pausable' = [r \in RepoReviews |-> IF Pending(pausable[r]) THEN v(r) ELSE pausable[r]]
    BY <2>1
  <2> HIDE DEF v
  <2>4. /\ pausable' \in [RepoReviews -> PausedJob]
        /\ \A r \in RepoReviews : /\ pausable'[r].kind = pausable[r].kind
                                  /\ Pending(pausable'[r]) => Pending(pausable[r])
                                  /\ pausable'[r].state # "running"
    BY <2>2, <2>3 DEF Pending
  <2>5. PauseTypes'
    BY <1>1, <2>1, <2>4 DEF PauseTypes
  <2>6. OpenRows'
    BY <1>1, <2>1 DEF OpenRows
  <2>7. RepoPauseIsQuiet'
    BY <1>1, <2>1, <2>4, QuietKept
  <2> QED
    BY <2>5, <2>6, <2>7 DEF PausesInv
<1> QED
  BY <1>2, <1>3

LEMMA PausesStart == PausesInit => PausesInv
<1> SUFFICES ASSUME PausesInit PROVE PausesInv
  OBVIOUS
<1>1. PauseTypes
  <2>1. pauses \in Seq(PauseRow) /\ Len(pauses) = 0
    BY DEF PausesInit
  <2>2. pausable \in [RepoReviews -> PausedJob]
    BY PauseBounds DEF PausesInit
  <2>3. switchOn \in BOOLEAN
    BY Zenon DEF PausesInit
  <2>4. /\ asking \subseteq {"review", "pause"} /\ handler \in {"none", "superseded", "inserted"}
        /\ tab \in 0..MaxPauses /\ pauseUpsets \in 0..MaxPauseUpsets /\ Len(pauses) <= MaxPauses
    BY <2>1, PauseBounds DEF PausesInit
  <2> QED
    BY <2>1, <2>2, <2>3, <2>4 DEF PauseTypes
<1>2. OpenRows
  BY DEF PausesInit, OpenRows
<1>3. RepoPauseIsQuiet
  BY DEF PausesInit, RepoPauseIsQuiet
<1> QED
  BY <1>1, <1>2, <1>3 DEF PausesInv

LEMMA PausesNextKeeps == PausesInv /\ [PausesNext]_pauseVars => PausesInv'
<1> SUFFICES ASSUME PausesInv, [PausesNext]_pauseVars PROVE PausesInv'
  OBVIOUS
<1>1. CASE UNCHANGED pauseVars
  BY <1>1 DEF pauseVars, PausesInv, PauseTypes, OpenRows, RepoPauseIsQuiet
<1>2. CASE PausesNext
  BY <1>2, ReviewsKeep, PausePagesKeep, PostPauseKeeps, SwitchKeeps DEF PausesNext
<1> QED
  BY <1>1, <1>2

LEMMA PausesSound == PausesSpec => []PausesInv
<1> QED
  BY PausesStart, PausesNextKeeps, PTL DEF PausesSpec

\* Under a pause that took effect whole nothing automatic is pending, and under
\* the switch nothing runs, though forms and members come past gates they read
\* before an await (createPause, cancelPendingForPause).
THEOREM PausesAreQuiet == PausesSpec => []RepoPauseIsQuiet
<1>1. PausesInv => RepoPauseIsQuiet
  BY DEF PausesInv
<1> QED
  BY <1>1, PausesSound, PTL

\* The rows of pauses, the forms and the reviews have their types, and one row
\* of the repository is open at a time.
THEOREM PausesWellTyped == PausesSpec => []PausesTypeOK
<1>1. ASSUME PausesInv PROVE PausesTypeOK
  <2> DEFINE open == {i \in DOMAIN pauses : pauses[i].ended = "no"}
  <2>1. \A i, k \in open : i = k
    BY <1>1 DEF PausesInv, OpenRows
  <2>2. Cardinality(open) <= 1
    <3>1. CASE open = {}
      BY <3>1, FS_EmptySet
    <3>2. ASSUME NEW i \in open PROVE open = {i}
      BY <2>1, <3>2
    <3> QED
      BY <3>1, <3>2, FS_Singleton
  <2> QED
    BY <1>1, <2>2 DEF PausesInv, PauseTypes, PausesTypeOK, PauseRow, PausedJob
<1> QED
  BY <1>1, PausesSound, PTL

\* An "End" clicked on a stale page ends no pause but the one the page showed.
THEOREM ClicksEndTheirPause == PausesSpec => ClickEndsWhatItShows
<1>1. ASSUME PausesInv, [PausesNext]_pauseVars
      PROVE  [\A i \in DOMAIN pauses : pauses[i].ended = "no" /\ pauses'[i].ended = "operator" => i = tab]_pauseVars
  <2> SUFFICES ASSUME PausesNext, NEW i \in DOMAIN pauses, pauses[i].ended = "no", pauses'[i].ended = "operator"
               PROVE  i = tab
    BY <1>1
  <2>1. pauses \in Seq(PauseRow) /\ DOMAIN pauses = 1..Len(pauses) /\ pauses[i] \in PauseRow
    BY <1>1 DEF PausesInv, PauseTypes
  <2>2. CASE PostEnd
    BY <2>1, <2>2 DEF PostEnd, EndPause
  <2>3. CASE SupersedePauses
    <3>1. [pauses[i] EXCEPT !.ended = "superseded"].ended = "superseded"
      BY <2>1 DEF PauseRow
    <3>2. pauses'[i] = [pauses[i] EXCEPT !.ended = "superseded"] \/ pauses'[i] = pauses[i]
      BY <2>3 DEF SupersedePauses, Superseded
    <3> QED
      BY <3>1, <3>2
  <2>4. CASE InsertPause
    BY <2>1, <2>4, AppendProperties DEF InsertPause, PauseRow
  <2>5. CASE CancelForPause
    BY <2>1, <2>5 DEF CancelForPause, PauseRow
  <2>6. CASE PauseLapses
    BY <2>1, <2>6 DEF PauseLapses, PauseRow
  <2>7. CASE UNCHANGED pauses
    BY <2>7
  <2> QED
    BY <2>2, <2>3, <2>4, <2>5, <2>6, <2>7
       DEF PausesNext, PullDelivered, AskForReview, ForgeAnswers, MemberEnqueued, ClaimReview, ReviewEnds, RetryReview,
           AskForPause, PausePage, TurnSwitch, PauseProcessDies
<1> QED
  BY <1>1, PausesSound, PTL DEF PausesSpec, ClickEndsWhatItShows

-----------------------------------------------------------------------------
(* The migration *)

File == [shape : [Tables -> Nat], rows : [Tables -> SUBSET FileRows],
         aside : [of : Tables \union {"none"}, rows : SUBSET FileRows], indexes : SUBSET {"jobs", "findings"}, live : BOOLEAN]

\* The row of a member that is kept.
KeptOf(members) == IF Linked \in members THEN {Linked} ELSE members

\* A file between two rebuilds: it holds what was written, and has every
\* change that comes before the statement at which the start is.
Whole(f) ==
  /\ f \in File /\ f.aside.of = "none"
  /\ \A t \in Tables : t # "members" => f.rows[t] = written[t]
  /\ f.rows["members"] \subseteq {1, Linked} /\ written["members"] = KeptOf(f.rows["members"])
  /\ f.shape["jobs"] \in {0, 1, 2, 3, 4, Odd} /\ f.shape["findings"] \in {0, 1, 2}
  /\ f.shape["runs"] \in {0, 1, 2} /\ f.shape["members"] \in {0, 1}
  /\ at \notin {"down", "create"} => \A t \in Tables : f.shape[t] # 0
  /\ at \notin {"down", "create", "scope"} => f.shape["findings"] = 2 /\ f.shape["jobs"] # 1
  /\ at \notin {"down", "create", "scope", "index"} => "findings" \in f.indexes
  /\ at \notin {"down", "create", "scope", "index", "columns"} => f.shape["runs"] = 2
  /\ at \in {"jobIndex", "members", "runs", "up"} => f.shape["jobs"] = 4
  /\ at \in {"members", "runs", "up"} => "jobs" \in f.indexes
  /\ at \in {"runs", "up"} => f.rows["members"] = written["members"]
  /\ at = "up" => ~f.live

\* The database while f is the file a rollback restores: one table is aside.
Rebuilding(f) ==
  LET t == db.aside.of
  IN  /\ db \in File /\ t \in {"jobs", "findings"} /\ at \in {"scope", "rekey"} /\ (at = "rekey" => t = "jobs")
      /\ db.aside.rows = f.rows[t] /\ db.indexes = f.indexes /\ db.live = f.live
      /\ db.rows[t] \in {{}, f.rows[t]}
      /\ db.shape[t] \in {0, IF at = "scope" THEN 2 ELSE 4}
      /\ \A u \in Tables : u # t => db.rows[u] = f.rows[u] /\ db.shape[u] = f.shape[u]

MigrationInv ==
  /\ at \in {"create", "scope", "index", "columns", "rekey", "jobIndex", "members", "runs", "up", "down"}
  /\ boots \in 0..MaxStarts /\ written \in [Tables -> SUBSET FileRows]
  /\ \/ journal = {} /\ Whole(db)
     \/ \E f \in File : journal = {f} /\ Whole(f) /\ Rebuilding(f)

LEMMA StepsInOrder == NextAt["scope"] = "index" /\ NextAt["rekey"] = "jobIndex"
<1>1. "scope" \in {Steps[i] : i \in 1..7} /\ "rekey" \in {Steps[i] : i \in 1..7}
  <2>1. Steps[2] = "scope" /\ Steps[5] = "rekey"
    BY DEF Steps
  <2> QED
    BY <2>1
<1>2. /\ \A i \in 1..7 : Steps[i] = "scope" => i = 2
      /\ \A i \in 1..7 : Steps[i] = "rekey" => i = 5
  BY DEF Steps
<1>3. (CHOOSE i \in 1..7 : Steps[i] = "scope") = 2 /\ (CHOOSE i \in 1..7 : Steps[i] = "rekey") = 5
  <2>1. Steps[2] = "scope" /\ Steps[5] = "rekey"
    BY DEF Steps
  <2> QED
    BY <1>2, <2>1
<1> DEFINE next(s) == CHOOSE i \in 1..7 : Steps[i] = s
<1>4. \A s \in {Steps[i] : i \in 1..7} : NextAt[s] = Steps[1 + next(s)]
  BY DEF NextAt
<1>5. next("scope") = 2 /\ next("rekey") = 5
  BY <1>3
<1> HIDE DEF next
<1>6. NextAt["scope"] = Steps[1 + 2] /\ NextAt["rekey"] = Steps[1 + 5]
  BY <1>1, <1>4, <1>5
<1> QED
  BY <1>6 DEF Steps

\* What is committed is a whole file, and a table is aside just while one is open.
LEMMA CommittedIsWhole ==
  ASSUME MigrationInv
  PROVE  /\ Whole(Committed) /\ Committed \in File
         /\ ~Begun => journal = {} /\ Committed = db
         /\ Begun => Rebuilding(Committed) /\ journal = {Committed}
<1>1. CASE journal = {}
  BY <1>1 DEF MigrationInv, Committed, Begun, Whole
<1>2. ASSUME NEW f \in File, journal = {f}, Whole(f), Rebuilding(f)
      PROVE  Committed = f /\ Begun
  BY <1>2 DEF Committed, Begun
<1> QED
  BY <1>1, <1>2 DEF MigrationInv

LEMMA FileFields ==
  ASSUME NEW f \in File
  PROVE  /\ f.shape \in [Tables -> Nat] /\ f.rows \in [Tables -> SUBSET FileRows]
         /\ f.aside.of \in Tables \union {"none"} /\ f.aside.rows \subseteq FileRows
         /\ f.indexes \subseteq {"jobs", "findings"} /\ f.live \in BOOLEAN
BY DEF File

\* The statements that change a file by themselves.
LEMMA CreatesKeeps == ASSUME MigrationInv, CreatesTables PROVE MigrationInv'
<1>1. /\ at = "create" /\ journal' = journal /\ at' = "scope" /\ UNCHANGED <<boots, written>>
      /\ db' = [db EXCEPT !.shape = [t \in Tables |-> IF @[t] = 0 THEN Shape[t] ELSE @[t]]]
  BY DEF CreatesTables, Then
<1>2. ~Begun /\ journal = {} /\ Whole(db) /\ db \in File
  BY <1>1, CommittedIsWhole DEF Rebuilding
<1> DEFINE shape == [t \in Tables |-> IF db.shape[t] = 0 THEN Shape[t] ELSE db.shape[t]]
<1>3. /\ shape \in [Tables -> Nat] /\ \A t \in Tables : shape[t] # 0
      /\ shape["jobs"] \in {1, 2, 3, 4, Odd} /\ shape["findings"] \in {1, 2} /\ shape["runs"] \in {1, 2} /\ shape["members"] = 1
  <2>1. Shape["jobs"] = 4 /\ Shape["findings"] = 2 /\ Shape["runs"] = 2 /\ Shape["members"] = 1
    BY DEF Shape
  <2>2. db.shape \in [Tables -> Nat]
    BY <1>2, FileFields
  <2> QED
    BY <1>2, <2>1, <2>2 DEF Tables, Whole, Odd
<1>4. db' = [db EXCEPT !.shape = shape]
  BY <1>1
<1> HIDE DEF shape
<1>5. /\ db' \in File /\ db'.shape = shape /\ db'.rows = db.rows /\ db'.aside = db.aside
      /\ db'.indexes = db.indexes
  BY <1>2, <1>3, <1>4 DEF File
<1>6. Whole(db)'
  BY <1>1, <1>2, <1>3, <1>5 DEF Whole
<1> QED
  BY <1>1, <1>2, <1>6 DEF MigrationInv

LEMMA StatementsKeep ==
  ASSUME MigrationInv, IndexesTables \/ AddsColumns \/ IndexesJobs \/ SettlesRuns
  PROVE  MigrationInv'
<1>1. /\ journal' = journal /\ UNCHANGED <<boots, written>>
      /\ \/ at = "index" /\ at' = "columns" /\ db' = [db EXCEPT !.indexes = @ \cup {"findings"}]
         \/ at = "columns" /\ at' = "rekey" /\ db' = [db EXCEPT !.shape["runs"] = 2]
         \/ at = "jobIndex" /\ at' = "members" /\ db' = [db EXCEPT !.indexes = @ \cup {"jobs"}]
         \/ at = "runs" /\ at' = "up" /\ db' = [db EXCEPT !.live = FALSE]
  BY DEF IndexesTables, AddsColumns, IndexesJobs, IndexedJobs, SettlesRuns, Then
<1>2. ~Begun /\ journal = {} /\ Whole(db) /\ db \in File
  BY <1>1, CommittedIsWhole DEF Rebuilding
<1>3. /\ db' \in File /\ db'.rows = db.rows /\ db'.aside = db.aside
      /\ db'.shape = IF at = "columns" THEN [db.shape EXCEPT !["runs"] = 2] ELSE db.shape
      /\ db'.indexes = IF at = "index" THEN db.indexes \cup {"findings"}
                       ELSE IF at = "jobIndex" THEN db.indexes \cup {"jobs"} ELSE db.indexes
      /\ at = "runs" => ~db'.live
  <2>1. CASE at = "index" /\ db' = [db EXCEPT !.indexes = @ \cup {"findings"}]
    BY <1>2, <2>1 DEF File
  <2>2. CASE at = "columns" /\ db' = [db EXCEPT !.shape["runs"] = 2]
    <3>1. [db.shape EXCEPT !["runs"] = 2] \in [Tables -> Nat] /\ db' = [db EXCEPT !.shape = [db.shape EXCEPT !["runs"] = 2]]
      BY <1>2, <2>2 DEF File
    <3> HIDE DEF Tables
    <3> QED
      BY <1>2, <2>2, <3>1 DEF File
  <2>3. CASE at = "jobIndex" /\ db' = [db EXCEPT !.indexes = @ \cup {"jobs"}]
    BY <1>2, <2>3 DEF File
  <2>4. CASE at = "runs" /\ db' = [db EXCEPT !.live = FALSE]
    <3>1. db' \in File /\ db'.rows = db.rows /\ db'.aside = db.aside /\ db'.shape = db.shape /\ db'.indexes = db.indexes
      BY <1>2, <2>4 DEF File
    <3>2. ~db'.live
      BY <1>2, <2>4 DEF File
    <3> QED
      BY <2>4, <3>1, <3>2
  <2> QED
    BY <1>1, <2>1, <2>2, <2>3, <2>4
<1>4. db.shape \in [Tables -> Nat] /\ {"jobs", "findings", "runs", "members"} = Tables
  BY <1>2, FileFields DEF Tables
<1>5. Whole(db)'
  BY <1>1, <1>2, <1>3, <1>4 DEF Whole
<1>6. at' \in {"columns", "rekey", "members", "up"}
  BY <1>1
<1> QED
  BY <1>1, <1>2, <1>5, <1>6 DEF MigrationInv

LEMMA HealsKeeps == ASSUME MigrationInv, HealsMembers PROVE MigrationInv'
<1> DEFINE healed == db.rows["members"] \cap {IF Linked \in db.rows["members"] THEN Linked ELSE 1}
<1>1. /\ at = "members" /\ at' = "runs" /\ journal' = journal /\ UNCHANGED <<boots, written>>
      /\ db' = [db EXCEPT !.rows["members"] = healed]
  BY DEF HealsMembers, Then
<1>2. ~Begun /\ journal = {} /\ Whole(db) /\ db \in File
  BY <1>1, CommittedIsWhole DEF Rebuilding
<1>3. healed = KeptOf(db.rows["members"]) /\ healed = KeptOf(healed) /\ healed \subseteq {1, Linked}
  BY <1>2 DEF Whole, KeptOf, Linked
<1> HIDE DEF healed
<1>4. db.rows \in [Tables -> SUBSET FileRows] /\ "members" \in Tables
  BY <1>2, FileFields DEF Tables
<1> DEFINE rows == [db.rows EXCEPT !["members"] = healed]
<1>5. rows \in [Tables -> SUBSET FileRows] /\ rows["members"] = healed /\ \A t \in Tables : t # "members" => rows[t] = db.rows[t]
  <2>1. healed \subseteq FileRows
    BY <1>2, <1>3, <1>4 DEF KeptOf, Whole
  <2> QED
    BY <1>4, <2>1
<1>6. db' = [db EXCEPT !.rows = rows]
  BY <1>1, <1>2 DEF File
<1> HIDE DEF rows, Tables
<1>7. /\ db' \in File /\ db'.shape = db.shape /\ db'.rows = rows /\ db'.aside = db.aside
      /\ db'.indexes = db.indexes
  BY <1>2, <1>5, <1>6 DEF File
<1>8. Whole(db)'
  BY <1>1, <1>2, <1>3, <1>5, <1>7 DEF Whole
<1> QED
  BY <1>1, <1>2, <1>8 DEF MigrationInv

\* The four statements of a rebuild of table t to a shape.
LEMMA RebuildKeeps ==
  ASSUME MigrationInv, NEW t \in {"jobs", "findings"}, NEW shape \in {2, 4}, Rebuilds(t, shape),
         at \in {"scope", "rekey"}, shape = (IF at = "scope" THEN 2 ELSE 4), at = "rekey" => t = "jobs",
         ~Begun => db.shape[t] # 0
  PROVE  MigrationInv'
<1>1. UNCHANGED <<at, boots, written>> /\ t \in Tables /\ "none" \notin {"jobs", "findings"}
  BY DEF Rebuilds, Renames, Recreates, Copies, Drops, Then, Tables
<1>2. CASE Renames(t)
  <2> DEFINE aside == [of |-> t, rows |-> db.rows[t]]
             rows  == [db.rows EXCEPT ![t] = {}]
             shp   == [db.shape EXCEPT ![t] = 0]
  <2>1. ~Begun /\ journal' = {db} /\ db' = [db EXCEPT !.aside = aside, !.rows[t] = {}, !.shape[t] = 0]
    BY <1>2 DEF Renames, Begins, Then
  <2>2. Whole(db) /\ db \in File
    BY <2>1, CommittedIsWhole
  <2>3. db.rows \in [Tables -> SUBSET FileRows] /\ db.shape \in [Tables -> Nat]
    BY <2>2, FileFields
  <2>4. /\ aside.of = t /\ aside.rows = db.rows[t] /\ aside \in [of : Tables \union {"none"}, rows : SUBSET FileRows]
        /\ rows \in [Tables -> SUBSET FileRows] /\ rows[t] = {} /\ \A u \in Tables : u # t => rows[u] = db.rows[u]
        /\ shp \in [Tables -> Nat] /\ shp[t] = 0 /\ \A u \in Tables : u # t => shp[u] = db.shape[u]
    BY <1>1, <2>3
  <2>5. db' = [db EXCEPT !.aside = aside, !.rows = rows, !.shape = shp]
    BY <2>1, <2>2 DEF File
  <2> HIDE DEF aside, rows, shp
  <2>6. /\ db' \in File /\ db'.aside = aside /\ db'.rows = rows /\ db'.shape = shp
        /\ db'.indexes = db.indexes /\ db'.live = db.live
    BY <2>2, <2>4, <2>5 DEF File
  <2>7. \E f \in File : journal' = {f} /\ Whole(f)' /\ Rebuilding(f)'
    <3>1. Whole(db) /\ at' = at /\ written' = written
      BY <1>1, <2>2
    <3>2. PICK f0 \in File : f0 = db
      BY <2>2
    <3>3. Whole(f0)'
      BY <3>1, <3>2 DEF Whole
    <3>4. Rebuilding(f0)'
      BY <1>1, <2>4, <2>6, <3>2 DEF Rebuilding
    <3> QED
      BY <2>1, <3>2, <3>3, <3>4
  <2> QED
    BY <1>1, <2>7 DEF MigrationInv
<1>3. ASSUME db.aside.of = t
      PROVE  \E f \in File : Committed = f /\ journal = {f} /\ Whole(f) /\ Rebuilding(f)
  BY <1>1, <1>3, CommittedIsWhole DEF Whole
<1>4. ASSUME NEW f \in File, journal' = {f}, Whole(f), Rebuilding(f), db' \in File,
             db'.aside = db.aside, db'.indexes = db.indexes, db'.live = db.live,
             db'.rows[t] \in {{}, f.rows[t]}, db'.shape[t] \in {0, shape}, db.aside.of = t,
             \A u \in Tables : u # t => db'.rows[u] = db.rows[u] /\ db'.shape[u] = db.shape[u]
      PROVE  MigrationInv'
  <2>1. Whole(f)'
    BY <1>1, <1>4 DEF Whole
  <2>2. Rebuilding(f)'
    BY <1>1, <1>4 DEF Rebuilding
  <2> QED
    BY <1>1, <1>4, <2>1, <2>2 DEF MigrationInv
<1>5. CASE Recreates(t, shape)
  <2>1. db.aside.of = t /\ journal' = journal /\ db' = [db EXCEPT !.shape[t] = shape]
    BY <1>5 DEF Recreates, Then
  <2>2. PICK f \in File : journal = {f} /\ Whole(f) /\ Rebuilding(f)
    BY <1>3, <2>1
  <2>3. db \in File /\ db.shape \in [Tables -> Nat]
    BY <2>2, FileFields DEF Rebuilding
  <2> DEFINE shp == [db.shape EXCEPT ![t] = shape]
  <2>4. shp \in [Tables -> Nat] /\ shp[t] = shape /\ \A u \in Tables : u # t => shp[u] = db.shape[u]
    BY <1>1, <2>3
  <2>5. db' = [db EXCEPT !.shape = shp]
    BY <2>1, <2>3 DEF File
  <2> HIDE DEF shp
  <2>6. /\ db' \in File /\ db'.aside = db.aside /\ db'.rows = db.rows /\ db'.shape = shp
        /\ db'.indexes = db.indexes /\ db'.live = db.live
    BY <2>3, <2>4, <2>5 DEF File
  <2>7. db.rows[t] \in {{}, f.rows[t]}
    BY <2>1, <2>2 DEF Rebuilding
  <2> QED
    BY <1>4, <2>1, <2>2, <2>4, <2>6, <2>7
<1>6. CASE Copies(t)
  <2>1. db.aside.of = t /\ journal' = journal /\ db' = [db EXCEPT !.rows[t] = db.aside.rows]
    BY <1>6 DEF Copies, Then
  <2>2. PICK f \in File : journal = {f} /\ Whole(f) /\ Rebuilding(f)
    BY <1>3, <2>1
  <2>3. db \in File /\ db.rows \in [Tables -> SUBSET FileRows] /\ db.aside.rows \subseteq FileRows /\ db.aside.rows = f.rows[t]
    BY <2>1, <2>2, FileFields DEF Rebuilding
  <2> DEFINE rows == [db.rows EXCEPT ![t] = db.aside.rows]
  <2>4. rows \in [Tables -> SUBSET FileRows] /\ rows[t] = f.rows[t] /\ \A u \in Tables : u # t => rows[u] = db.rows[u]
    BY <1>1, <2>3
  <2>5. db' = [db EXCEPT !.rows = rows]
    BY <2>1, <2>3 DEF File
  <2> HIDE DEF rows
  <2>6. /\ db' \in File /\ db'.aside = db.aside /\ db'.rows = rows /\ db'.shape = db.shape
        /\ db'.indexes = db.indexes /\ db'.live = db.live
    BY <2>3, <2>4, <2>5 DEF File
  <2>7. db.shape[t] \in {0, shape}
    BY <2>1, <2>2 DEF Rebuilding
  <2> QED
    BY <1>4, <2>1, <2>2, <2>4, <2>6, <2>7
<1>7. CASE Drops(t)
  <2> DEFINE aside == [of |-> "none", rows |-> {}]
  <2>1. /\ db.aside.of = t /\ db.shape[t] # 0 /\ db.rows[t] = db.aside.rows /\ journal' = {}
        /\ db' = [db EXCEPT !.aside = aside, !.indexes = db.indexes \ {t}]
    BY <1>7 DEF Drops, Then
  <2>2. PICK f \in File : journal = {f} /\ Whole(f) /\ Rebuilding(f)
    BY <1>3, <2>1
  <2>3. /\ db \in File /\ aside \in [of : Tables \union {"none"}, rows : SUBSET FileRows] /\ aside.of = "none"
        /\ db.indexes \ {t} \subseteq {"jobs", "findings"}
    BY <2>2, FileFields DEF Rebuilding
  <2> HIDE DEF aside
  <2>4. /\ db' \in File /\ db'.aside = aside /\ db'.rows = db.rows /\ db'.shape = db.shape
        /\ db'.indexes = db.indexes \ {t}
    BY <2>1, <2>3 DEF File
  <2>5. /\ \A u \in Tables : db.rows[u] = f.rows[u] /\ (u # t => db.shape[u] = f.shape[u])
        /\ db.shape[t] = shape /\ db.indexes = f.indexes
    BY <1>1, <2>1, <2>2 DEF Rebuilding
  <2>6. {"jobs", "findings", "runs", "members"} = Tables
    BY DEF Tables
  <2>7. Whole(db)'
    BY <1>1, <2>2, <2>3, <2>4, <2>5, <2>6 DEF Whole
  <2> QED
    BY <1>1, <2>1, <2>7 DEF MigrationInv
<1> QED
  BY <1>2, <1>5, <1>6, <1>7 DEF Rebuilds

\* A statement that finds nothing to do.
LEMMA PassesKeep ==
  ASSUME MigrationInv, Passes, ~Begun,
         \/ at = "scope" /\ db.shape["findings"] # 1 /\ db.shape["jobs"] # 1
         \/ at = "rekey" /\ db.shape["jobs"] = 4
  PROVE  MigrationInv'
<1>1. /\ journal' = journal /\ db' = db /\ UNCHANGED <<boots, written>>
      /\ (at = "scope" /\ at' = "index") \/ (at = "rekey" /\ at' = "jobIndex")
  BY StepsInOrder DEF Passes, Then
<1>2. journal = {} /\ Whole(db)
  BY CommittedIsWhole
<1>3. {"jobs", "findings", "runs", "members"} = Tables
  BY DEF Tables
<1>4. Whole(db)'
  BY <1>1, <1>2, <1>3 DEF Whole
<1>5. at' \in {"index", "jobIndex"}
  BY <1>1
<1> QED
  BY <1>1, <1>2, <1>4, <1>5 DEF MigrationInv

LEMMA RebuildsKeep == ASSUME MigrationInv, ScopesTables \/ RekeysJobs PROVE MigrationInv'
<1>1. /\ ~Begun => db.aside.of = "none" /\ Whole(db)
      /\ Begun => db.aside.of \in {"jobs", "findings"} /\ (at = "rekey" => db.aside.of = "jobs")
  BY CommittedIsWhole DEF Whole, Rebuilding
<1>2. {"jobs", "findings"} \subseteq Tables
  BY DEF Tables
<1>3. ~Begun /\ at \in {"scope", "rekey"} => db.shape["jobs"] # 0 /\ db.shape["findings"] # 0
  BY <1>1, <1>2 DEF Whole
<1>4. CASE ScopesTables
  <2> DEFINE old == {t \in {"jobs", "findings"} : db.shape[t] = 1}
  <2>1. /\ at = "scope"
        /\ IF db.aside.of # "none" THEN Rebuilds(db.aside.of, 2)
           ELSE IF old = {} THEN Passes ELSE Rebuilds(IF "jobs" \in old THEN "jobs" ELSE "findings", 2)
    BY <1>4 DEF ScopesTables
  <2>2. CASE db.aside.of # "none"
    BY <1>1, <1>3, <2>1, <2>2, RebuildKeeps
  <2>3. CASE db.aside.of = "none" /\ old # {}
    <3>1. ~Begun
      BY <1>1, <2>3
    <3> DEFINE t == IF "jobs" \in old THEN "jobs" ELSE "findings"
    <3>2. t \in {"jobs", "findings"} /\ Rebuilds(t, 2) /\ db.shape[t] # 0
      BY <1>3, <2>1, <2>3, <3>1
    <3> HIDE DEF t
    <3> QED
      BY <2>1, <3>2, RebuildKeeps
  <2>4. CASE db.aside.of = "none" /\ old = {}
    BY <1>1, <2>1, <2>4, PassesKeep
  <2> QED
    BY <2>2, <2>3, <2>4
<1>5. CASE RekeysJobs
  <2>1. /\ at = "rekey"
        /\ IF db.aside.of # "none" \/ db.shape["jobs"] \in {2, 3} THEN Rebuilds("jobs", 4)
           ELSE db.shape["jobs"] = 4 /\ Passes
    BY <1>5 DEF RekeysJobs
  <2>2. CASE Rebuilds("jobs", 4)
    BY <1>3, <2>1, <2>2, RebuildKeeps
  <2>3. CASE db.aside.of = "none" /\ db.shape["jobs"] = 4 /\ Passes
    BY <1>1, <2>1, <2>3, PassesKeep
  <2> QED
    BY <2>1, <2>2, <2>3
<1> QED
  BY <1>4, <1>5

\* The service writes; a start is cut off; another begins.
LEMMA ServiceWritesKeeps ==
  ASSUME MigrationInv, NEW t \in Tables, NEW row \in FileRows, ServiceWrites(t, row)
  PROVE  MigrationInv'
<1> DEFINE all == db.rows[t] \cup {row}
           rows == [db.rows EXCEPT ![t] = all]
<1>1. /\ at = "up" /\ t # "members" /\ UNCHANGED <<journal, at, boots>>
      /\ db' = [db EXCEPT !.rows[t] = all] /\ written' = [written EXCEPT ![t] = written[t] \cup {row}]
  BY DEF ServiceWrites
<1>2. ~Begun /\ journal = {} /\ Whole(db) /\ db \in File
  BY <1>1, CommittedIsWhole DEF Rebuilding
<1>3. db.rows \in [Tables -> SUBSET FileRows] /\ written \in [Tables -> SUBSET FileRows] /\ "members" \in Tables
  BY <1>2, FileFields DEF MigrationInv, Tables
<1>4. /\ rows \in [Tables -> SUBSET FileRows] /\ rows[t] = all /\ \A u \in Tables : u # t => rows[u] = db.rows[u]
      /\ written' \in [Tables -> SUBSET FileRows] /\ written'[t] = all /\ \A u \in Tables : u # t => written'[u] = written[u]
  BY <1>1, <1>2, <1>3 DEF Whole
<1>5. db' = [db EXCEPT !.rows = rows]
  BY <1>1, <1>2 DEF File
<1> HIDE DEF all, rows
<1>6. /\ db' \in File /\ db'.shape = db.shape /\ db'.rows = rows /\ db'.aside = db.aside
      /\ db'.indexes = db.indexes /\ db'.live = db.live
  BY <1>2, <1>4, <1>5 DEF File
<1>7. Whole(db)'
  BY <1>1, <1>2, <1>3, <1>4, <1>6 DEF Whole
<1> QED
  BY <1>1, <1>2, <1>4, <1>7 DEF MigrationInv

LEMMA StopsKeep == ASSUME MigrationInv, Stops \/ Opens PROVE MigrationInv'
<1>1. /\ boots' \in 0..MaxStarts /\ written' = written
      /\ \/ at' = "down" /\ db' = Committed /\ journal' = {}
         \/ at = "down" /\ at' = "create" /\ UNCHANGED <<db, journal>>
  BY MigrationAssumption DEF Stops, Opens, MigrationInv
<1>2. Whole(Committed) /\ Committed \in File /\ (at = "down" => journal = {} /\ Committed = db)
  BY CommittedIsWhole DEF Rebuilding
<1>3. db' = Committed /\ journal' = {} /\ at' \in {"down", "create"}
  BY <1>1, <1>2
<1>4. Whole(db)'
  BY <1>1, <1>2, <1>3 DEF Whole
<1> QED
  BY <1>1, <1>3, <1>4 DEF MigrationInv

\* The files of earlier releases.
LEMMA MigrationStarts == MigrationInit => MigrationInv
<1> SUFFICES ASSUME MigrationInit PROVE MigrationInv
  OBVIOUS
<1>1. PICK r \in {0, 1, 2, 3, 4, Odd}, d \in BOOLEAN : db = FileOf(r, d)
  BY DEF MigrationInit
<1>2. /\ journal = {} /\ at = "down" /\ boots \in 0..MaxStarts
      /\ written = [t \in Tables |-> IF Linked \in db.rows[t] THEN {Linked} ELSE db.rows[t]]
  BY MigrationAssumption DEF MigrationInit
<1> DEFINE shape == [t \in Tables |-> IF t = "findings" THEN ScopedTables(r)[t] ELSE ReviewTables(r)[t]]
           rows  == [t \in Tables |-> IF shape[t] = 0 THEN {} ELSE IF t = "members" /\ d THEN {1, Linked} ELSE {1}]
           aside == [of |-> "none", rows |-> {}]
           indexes == {t \in {"jobs", "findings"} : shape[t] # 0}
<1>3. db = [shape |-> shape, rows |-> rows, aside |-> aside, indexes |-> indexes, live |-> r # 0]
  BY <1>1 DEF FileOf
<1>4. Tables = {"jobs", "findings", "runs", "members"}
  BY DEF Tables
<1>5. /\ shape \in [Tables -> Nat] /\ shape["jobs"] \in {0, 1, 2, 3, 4, Odd} /\ shape["findings"] \in {0, 1, 2}
      /\ shape["runs"] \in {0, 1, 2} /\ shape["members"] \in {0, 1}
  BY <1>4 DEF ScopedTables, ReviewTables, Odd
<1>6. {1, Linked} \subseteq FileRows /\ 1 # Linked
  BY MigrationAssumption DEF FileRows, Linked
<1> HIDE DEF shape
<1>7. /\ rows \in [Tables -> SUBSET FileRows] /\ \A t \in Tables : t # "members" => Linked \notin rows[t]
      /\ rows["members"] \subseteq {1, Linked}
  BY <1>4, <1>6
<1>8. aside \in [of : Tables \union {"none"}, rows : SUBSET FileRows] /\ aside.of = "none" /\ indexes \subseteq {"jobs", "findings"}
  BY <1>4
<1> HIDE DEF rows, aside, indexes
<1>9. db.shape = shape /\ db.rows = rows /\ db.aside = aside
  BY <1>3
<1>10. db \in File
  BY <1>3, <1>5, <1>7, <1>8 DEF File
<1>11. /\ written \in [Tables -> SUBSET FileRows] /\ \A t \in Tables : t # "members" => written[t] = rows[t]
       /\ written["members"] = KeptOf(rows["members"])
  BY <1>2, <1>4, <1>6, <1>7, <1>9 DEF KeptOf
<1>12. Whole(db)
  BY <1>2, <1>5, <1>7, <1>8, <1>9, <1>10, <1>11 DEF Whole
<1> QED
  BY <1>2, <1>11, <1>12 DEF MigrationInv

LEMMA MigrationNextKeeps == MigrationInv /\ [MigrationNext]_migrationVars => MigrationInv'
<1> SUFFICES ASSUME MigrationInv, [MigrationNext]_migrationVars PROVE MigrationInv'
  OBVIOUS
<1>1. CASE UNCHANGED migrationVars
  <2>1. UNCHANGED <<db, journal, at, boots, written>>
    BY <1>1 DEF migrationVars
  <2>2. Whole(db)' <=> Whole(db)
    BY <2>1 DEF Whole
  <2>3. \A f \in File : (Whole(f)' <=> Whole(f)) /\ (Rebuilding(f)' <=> Rebuilding(f))
    BY <2>1 DEF Whole, Rebuilding
  <2> QED
    BY <2>1, <2>2, <2>3 DEF MigrationInv
<1>2. CASE MigrationNext
  BY <1>2, CreatesKeeps, StatementsKeep, HealsKeeps, RebuildsKeep, ServiceWritesKeeps, StopsKeep DEF MigrationNext
<1> QED
  BY <1>1, <1>2

LEMMA MigrationSound == MigrationSpec => []MigrationInv
<1> QED
  BY MigrationStarts, MigrationNextKeeps, PTL DEF MigrationSpec

\* "any failure rolls the rename back, the legacy table and its rows survive
\* untouched, and the next start retries the migration" (db.ts:714-716), and a
\* service that is up has this release's tables and indexes, and every row.
THEOREM EveryRowSurvives == MigrationSpec => []MigratesWhole
<1>1. ASSUME MigrationInv PROVE MigratesWhole
  <2>1. Whole(Committed)
    BY <1>1, CommittedIsWhole
  <2>2. Committed.aside.of = "none" /\ \A t \in Tables : written[t] \subseteq Committed.rows[t]
    BY <2>1 DEF Whole, KeptOf
  <2>3. ASSUME at = "up"
        PROVE  db.shape = Shape /\ db.indexes = {"jobs", "findings"} /\ db.rows = written /\ ~db.live
    <3>1. Committed = db /\ db \in File
      BY <1>1, <2>3, CommittedIsWhole DEF Rebuilding
    <3>2. Whole(db) /\ Tables = {"jobs", "findings", "runs", "members"}
      BY <2>1, <3>1 DEF Tables
    <3>3. db.shape \in [Tables -> Nat] /\ db.rows \in [Tables -> SUBSET FileRows] /\ written \in [Tables -> SUBSET FileRows]
      BY <1>1, <3>1, FileFields DEF MigrationInv
    <3>4. db.shape = Shape
      <4>1. db.shape["jobs"] = 4 /\ db.shape["findings"] = 2 /\ db.shape["runs"] = 2 /\ db.shape["members"] = 1
        BY <2>3, <3>2 DEF Whole
      <4>2. Shape \in [Tables -> Nat] /\ Shape["jobs"] = 4 /\ Shape["findings"] = 2 /\ Shape["runs"] = 2 /\ Shape["members"] = 1
        BY <3>2 DEF Shape
      <4> QED
        BY <3>2, <3>3, <4>1, <4>2
    <3>5. db.rows = written
      BY <2>3, <3>2, <3>3 DEF Whole
    <3>6. db.indexes = {"jobs", "findings"}
      BY <2>3, <3>1, <3>2, FileFields DEF Whole
    <3> QED
      BY <2>3, <3>2, <3>4, <3>5, <3>6 DEF Whole
  <2> QED
    BY <2>2, <2>3 DEF MigratesWhole
<1> QED
  BY <1>1, MigrationSound, PTL

\* The file and the start have their types, and a table is renamed aside just
\* while a transaction is open that would put it back (db.ts:714).
THEOREM MigrationWellTyped == MigrationSpec => []MigrationTypeOK
<1>1. ASSUME MigrationInv PROVE MigrationTypeOK
  <2>1. Tables = {"jobs", "findings", "runs", "members"} /\ "none" \notin {"jobs", "findings"}
    BY DEF Tables
  <2>2. ASSUME NEW f \in File, Whole(f) PROVE \A t \in Tables : f.shape[t] \in 0..4 \cup {Odd}
    BY <2>1, <2>2 DEF Whole
  <2>3. /\ Whole(Committed) /\ Committed \in File /\ (~Begun => Committed = db)
        /\ Begun => Rebuilding(Committed)
    BY <1>1, CommittedIsWhole
  <2>4. db \in File /\ (Begun <=> db.aside.of # "none")
    BY <2>1, <2>3 DEF Whole, Rebuilding
  <2>5. \A t \in Tables : db.shape[t] \in 0..4 \cup {Odd}
    <3>1. CASE ~Begun
      BY <2>2, <2>3, <3>1
    <3>2. CASE Begun
      <4>1. \A t \in Tables : Committed.shape[t] \in 0..4 \cup {Odd}
        BY <2>2, <2>3
      <4> QED
        BY <2>3, <3>2, <4>1 DEF Rebuilding
    <3> QED
      BY <3>1, <3>2
  <2>6. \A t \in Tables : db.rows[t] \subseteq FileRows
    BY <2>4, FileFields
  <2>7. db.indexes \subseteq Tables
    BY <2>1, <2>4, FileFields
  <2>8. at \in {Steps[i] : i \in 1..8} \cup {"up", "down"}
    <3>1. /\ Steps[1] = "create" /\ Steps[2] = "scope" /\ Steps[3] = "index" /\ Steps[4] = "columns" /\ Steps[5] = "rekey"
          /\ Steps[6] = "jobIndex" /\ Steps[7] = "members" /\ Steps[8] = "runs"
      BY DEF Steps
    <3>2. {Steps[1], Steps[2], Steps[3], Steps[4], Steps[5], Steps[6], Steps[7], Steps[8]} \subseteq {Steps[i] : i \in 1..8}
      OBVIOUS
    <3> QED
      BY <1>1, <3>1, <3>2 DEF MigrationInv
  <2> QED
    BY <1>1, <2>4, <2>5, <2>6, <2>7, <2>8 DEF MigrationTypeOK, MigrationInv
<1> QED
  BY <1>1, MigrationSound, PTL

-----------------------------------------------------------------------------
(* Merge requests *)

Job == [state : {"none", "queued", "running", "completed", "failed", "stale", "cancelled"},
        accepted : SUBSET Spots, event : {"none", "COMMENT", "APPROVE"}]
RunRow == [at : {"idle", "diff", "checkout", "review", "list", "note", "inline", "approve", "record"},
           head : {0} \union Heads, diffOf : {0} \union Heads, found : SUBSET Spots, todo : SUBSET Spots,
           accepted : SUBSET Spots, unplaced : SUBSET Spots, warned : BOOLEAN, own : BOOLEAN]

RequestTypes ==
  /\ request \in [head : Heads, state : {"opened", "closed", "merged"}, draft : BOOLEAN]
  /\ answered \subseteq events /\ mergedPull \in BOOLEAN /\ allPaused \in BOOLEAN
  /\ edits \in Nat /\ retakes \in Nat /\ mishaps \in Nat

\* A run is of a job that is at work or was ended under it.
JobsInv ==
  /\ mrJobs \in [Heads -> Job] /\ run \in RunRow
  /\ run.at # "idle" => run.head \in Heads /\ mrJobs[run.head].state \in {"running", "stale", "cancelled"}

Prepares == {"diff", "checkout", "review", "list", "note"}

\* A run that is about to post its summary has seen that there is none, and one
\* that posts its findings has each of them placed, unplaced or still to post.
PostsInv ==
  /\ \A p \in posts : p.head \in Heads /\ p.diffOf \in {0} \union Heads
  /\ \A p, q \in posts : p.kind = "summary" /\ q.kind = "summary" /\ p.head = q.head => p = q
  /\ run.at \in Prepares => run.accepted = {}
  /\ run.at = "note" => SummariesOf(run.head) = {}
  /\ run.at = "inline" => /\ run.found \subseteq run.todo \union run.accepted \union run.unplaced
                          /\ run.accepted \subseteq InlineOf(run.head)
  /\ run.at = "approve" => run.warned \/ run.found \subseteq InlineOf(run.head) \union ListedOf(run.head)

RequestInv == RequestTypes /\ JobsInv /\ PostsInv

LEMMA RequestBounds == MaxHeads \in Nat \ {0} /\ NoJob \in Job /\ NoRun \in RunRow /\ NoRun.at = "idle"
BY MergeRequestAssumption DEF NoJob, NoRun, Job, RunRow

LEMMA RequestStarts == RequestInit => RequestInv
<1> SUFFICES ASSUME RequestInit PROVE RequestInv
  OBVIOUS
<1>1. PICK d \in BOOLEAN : request = [head |-> 1, state |-> "opened", draft |-> d]
  BY DEF RequestInit
<1>2. RequestTypes
  <2>1. 1 \in Heads
    BY RequestBounds DEF Heads
  <2>2. mergedPull \in BOOLEAN /\ allPaused \in BOOLEAN
    BY Zenon DEF RequestInit
  <2>3. request \in [head : Heads, state : {"opened", "closed", "merged"}, draft : BOOLEAN]
    BY <1>1, <2>1
  <2>4. answered \subseteq events /\ edits = 0 /\ retakes = 0 /\ mishaps = 0
    BY DEF RequestInit
  <2> QED
    BY <2>2, <2>3, <2>4 DEF RequestTypes
<1>3. JobsInv
  BY RequestBounds DEF RequestInit, JobsInv
<1>4. PostsInv
  BY RequestBounds DEF RequestInit, PostsInv, Prepares
<1> QED
  BY <1>2, <1>3, <1>4 DEF RequestInv

\* The instance moves.
LEMMA InstanceKeeps == ASSUME RequestInv, Pushes \/ Edits PROVE RequestInv'
<1>1. RequestTypes /\ JobsInv /\ PostsInv /\ MaxHeads \in Nat \ {0} /\ UNCHANGED <<answered, mergedPull, allPaused, mrJobs, run, posts, retakes, mishaps>>
  BY RequestBounds DEF RequestInv, Pushes, Edits, Instance
<1>2. events \subseteq events'
  BY DEF Pushes, Edits
<1>3. edits' \in Nat
  <2>1. edits' = edits \/ edits' = edits + 1
    BY Zenon DEF Pushes, Edits
  <2>2. edits \in Nat
    BY <1>1 DEF RequestTypes
  <2> QED
    BY <2>1, <2>2
<1>4. request' \in [head : Heads, state : {"opened", "closed", "merged"}, draft : BOOLEAN]
  <2>1. CASE Pushes
    BY <1>1, <2>1 DEF Pushes, RequestTypes, Heads
  <2>2. CASE Edits
    BY <1>1, <2>2 DEF Edits, RequestTypes
  <2> QED
    BY <2>1, <2>2
<1>5. RequestTypes'
  BY <1>1, <1>2, <1>3, <1>4 DEF RequestTypes
<1> QED
  BY <1>1, <1>5 DEF RequestInv, JobsInv, PostsInv, SummariesOf, InlineOf, ListedOf

\* What writes rows of jobs alone: to work comes only a job that is at work, or
\* one the step gives its head anew; what a run works on goes over at most.
LEMMA RowsWritten ==
  ASSUME JobsInv
  PROVE  /\ Cancelled \in [Heads -> Job]
         /\ \A h \in Heads : /\ Cancelled[h].state \notin Waits
                             /\ mrJobs[h].state \in {"running", "stale", "cancelled"} =>
                                  Cancelled[h].state \in {"running", "stale", "cancelled"}
         /\ \A g : /\ Enqueued(g) \in [Heads -> Job]
                   /\ \A h \in Heads : mrJobs[h].state \in {"running", "stale", "cancelled"} =>
                                         Enqueued(g)[h].state \in {"running", "stale", "cancelled"}
<1>1. \A h \in Heads : mrJobs[h] \in Job
  BY DEF JobsInv
<1>2. \A h \in Heads : /\ [mrJobs[h] EXCEPT !.state = "cancelled"] \in Job
                       /\ [mrJobs[h] EXCEPT !.state = "cancelled"].state = "cancelled"
                       /\ [mrJobs[h] EXCEPT !.state = "stale"] \in Job
                       /\ [mrJobs[h] EXCEPT !.state = "stale"].state = "stale"
  BY <1>1 DEF Job
<1>3. [NoJob EXCEPT !.state = "queued"] \in Job
  BY DEF NoJob, Job
<1> QED
  BY <1>1, <1>2, <1>3 DEF Cancelled, Enqueued, Waits, Over

LEMMA RowsKeep == ASSUME RequestInv, Delivers \/ Switches \/ (\E h \in Heads : Retakes(h)) PROVE RequestInv'
<1>1. RequestTypes /\ JobsInv /\ PostsInv /\ UNCHANGED <<request, events, run, posts, mishaps>>
  BY DEF RequestInv, Delivers, DeliversMerge, DeliversChange, Switches, Retakes, Kept
<1>2. /\ mrJobs' \in [Heads -> Job]
      /\ \A h \in Heads : mrJobs[h].state \in {"running", "stale", "cancelled"} =>
                            mrJobs'[h].state \in {"running", "stale", "cancelled"}
  <2>1. CASE mrJobs' = Cancelled \/ mrJobs' = mrJobs \/ \E g : mrJobs' = Enqueued(g)
    BY <1>1, <2>1, RowsWritten DEF JobsInv
  <2>2. ASSUME NEW h \in Heads, Retakes(h)
        PROVE  /\ mrJobs' \in [Heads -> Job]
               /\ \A g \in Heads : mrJobs[g].state \in {"running", "stale", "cancelled"} =>
                            mrJobs'[g].state \in {"running", "stale", "cancelled"}
    <3>1. mrJobs \in [Heads -> Job] /\ mrJobs[h].state \in {"completed", "failed"}
          /\ mrJobs' = [mrJobs EXCEPT ![h].state = "queued"]
      BY <1>1, <2>2 DEF Retakes, JobsInv
    <3>2. [mrJobs[h] EXCEPT !.state = "queued"] \in Job
      BY <3>1 DEF Job
    <3> QED
      BY <3>1, <3>2
  <2>3. CASE Delivers \/ Switches
    BY <2>1, <2>3 DEF Delivers, DeliversMerge, DeliversChange, Switches
  <2> QED
    BY <2>2, <2>3
<1>3. RequestTypes'
  <2>1. answered' \subseteq events'
    BY <1>1 DEF Delivers, DeliversMerge, DeliversChange, Switches, Retakes, Claims, RequestTypes
  <2>2. mergedPull' \in BOOLEAN
    <3>1. mergedPull' = TRUE \/ mergedPull' = mergedPull
      BY DEF Delivers, DeliversMerge, DeliversChange, Switches, Retakes, MarkPullMerged
    <3> QED
      BY <1>1, <3>1 DEF RequestTypes
  <2>3. allPaused' \in BOOLEAN
    <3>1. allPaused' = TRUE \/ allPaused' = FALSE \/ allPaused' = allPaused
      BY DEF Delivers, DeliversMerge, DeliversChange, Switches, Retakes, SetGlobalPause, EndGlobalPause
    <3> QED
      BY <1>1, <3>1 DEF RequestTypes
  <2>4. edits' \in Nat /\ retakes' \in Nat
    BY <1>1 DEF Delivers, DeliversMerge, DeliversChange, Switches, Retakes, Kept, RequestTypes
  <2> QED
    BY <1>1, <2>1, <2>2, <2>3, <2>4 DEF RequestTypes
<1>4. JobsInv'
  BY <1>1, <1>2 DEF JobsInv
<1> QED
  BY <1>1, <1>3, <1>4 DEF RequestInv, PostsInv, SummariesOf, InlineOf, ListedOf

\* A step of the run that leaves the posts and its findings alone.
LEMMA RunStepKeeps ==
  ASSUME RequestInv, RequestTypes', JobsInv', posts' = posts,
         run'.at \notin {"note", "inline", "approve"}, run'.at \in Prepares => run'.accepted = {}
  PROVE  RequestInv'
BY DEF RequestInv, PostsInv, SummariesOf

LEMMA RunTyped ==
  ASSUME RequestInv, RunOnly, mishaps' = mishaps \/ Mishap
  PROVE  RequestTypes'
<1>1. RequestTypes /\ UNCHANGED <<request, events, answered, mergedPull, allPaused, edits, retakes>>
      /\ (mishaps' = mishaps \/ mishaps' = mishaps + 1)
  BY DEF RequestInv, RunOnly, Mishap
<1> QED
  BY <1>1 DEF RequestTypes

\* A run that ends, whatever its row takes of it.
LEMMA RunEnded ==
  ASSUME RequestInv, run.at # "idle", NEW state \in {"completed", "failed"}, NEW accepted \in SUBSET Spots,
         NEW event \in {"none", "COMMENT", "APPROVE"}, Ends(state, accepted, event)
  PROVE  JobsInv' /\ run'.at = "idle" /\ \A h \in Heads : mrJobs'[h].state \in Waits => mrJobs[h].state \in Waits
<1>1. /\ mrJobs \in [Heads -> Job] /\ run.head \in Heads /\ run' = NoRun
      /\ mrJobs[run.head].state \in {"running", "stale", "cancelled"}
  BY DEF RequestInv, JobsInv, Ends
<1> DEFINE row == IF mrJobs[run.head].state \in Over THEN mrJobs[run.head]
                  ELSE [state |-> state, accepted |-> accepted, event |-> event]
<1>2. row \in Job /\ (row.state \in {"completed", "failed"} \/ row = mrJobs[run.head])
  BY <1>1 DEF Job
<1>3. mrJobs' = [mrJobs EXCEPT ![run.head] = row]
  BY DEF Ends, h0
<1> HIDE DEF row
<1>4. mrJobs' \in [Heads -> Job] /\ \A h \in Heads : mrJobs'[h] = mrJobs[h] \/ mrJobs'[h].state \in {"completed", "failed"}
  BY <1>1, <1>2, <1>3
<1> QED
  BY <1>1, <1>4, RequestBounds DEF JobsInv, Waits

LEMMA FailsAndRestarts ==
  ASSUME RequestInv, RunFails \/ Restarts \/ Records
  PROVE  RequestInv'
<1>1. RequestTypes'
  BY RunTyped DEF RunFails, Restarts, Records
<1>2. CASE RunFails \/ Records
  <2>1. run.at # "idle" /\ run.head \in Heads /\ mrJobs[run.head] \in Job /\ run \in RunRow /\ posts' = posts
    BY <1>2 DEF RequestInv, JobsInv, RunFails, Records
  <2>2. /\ mrJobs[run.head].accepted \in SUBSET Spots /\ mrJobs[run.head].event \in {"none", "COMMENT", "APPROVE"}
        /\ run.accepted \in SUBSET Spots /\ EventOf(run.found) \in {"none", "COMMENT", "APPROVE"}
    BY <2>1 DEF Job, RunRow, EventOf
  <2>3. \/ Ends("failed", mrJobs[run.head].accepted, mrJobs[run.head].event)
        \/ Ends("completed", run.accepted, EventOf(run.found))
    BY <1>2 DEF RunFails, Records, h0
  <2>4. JobsInv' /\ run'.at = "idle"
    BY <2>1, <2>2, <2>3, RunEnded
  <2> QED
    BY <1>1, <2>1, <2>4, RunStepKeeps DEF Prepares
<1>3. CASE Restarts
  <2>1. run' = NoRun /\ posts' = posts /\ mrJobs \in [Heads -> Job]
        /\ mrJobs' = [h \in Heads |-> IF mrJobs[h].state = "running" THEN [mrJobs[h] EXCEPT !.state = "queued"] ELSE mrJobs[h]]
    BY <1>3 DEF Restarts, RequestInv, JobsInv
  <2>2. \A h \in Heads : [mrJobs[h] EXCEPT !.state = "queued"] \in Job
    BY <2>1 DEF Job
  <2>3. mrJobs' \in [Heads -> Job]
    BY <2>1, <2>2
  <2>4. JobsInv' /\ run'.at = "idle"
    BY <2>1, <2>3, RequestBounds DEF JobsInv
  <2> QED
    BY <1>1, <2>1, <2>4, RunStepKeeps DEF Prepares
<1> QED
  BY <1>2, <1>3

LEMMA RunStartsKeeps == ASSUME RequestInv, NEW h \in Heads, RunStarts(h) PROVE RequestInv'
<1>1. /\ RequestTypes' /\ mrJobs \in [Heads -> Job] /\ run \in RunRow /\ run.at = "idle" /\ posts' = posts
  BY RunTyped DEF RunStarts, RequestInv, JobsInv
<1>2. [mrJobs[h] EXCEPT !.state = "cancelled"] \in Job
      /\ [mrJobs[h] EXCEPT !.state = "running"] \in Job /\ [mrJobs[h] EXCEPT !.state = "running"].state = "running"
  BY <1>1 DEF Job
<1>3. CASE mrJobs' = [mrJobs EXCEPT ![h].state = "cancelled"] /\ UNCHANGED run
  <2>1. mrJobs' \in [Heads -> Job]
    BY <1>1, <1>2, <1>3
  <2> QED
    BY <1>1, <1>3, <2>1, RunStepKeeps DEF JobsInv, Prepares
<1>4. CASE mrJobs' = [mrJobs EXCEPT ![h].state = "running"] /\ run' = [NoRun EXCEPT !.at = "diff", !.head = h]
  <2>1. mrJobs' \in [Heads -> Job] /\ mrJobs'[h].state = "running"
    BY <1>1, <1>2, <1>4
  <2>2. run' \in RunRow /\ run'.at = "diff" /\ run'.head = h /\ run'.accepted = {}
    BY <1>4 DEF NoRun, RunRow
  <2> QED
    BY <1>1, <2>1, <2>2, RunStepKeeps DEF JobsInv
<1> QED
  BY <1>3, <1>4 DEF RunStarts

\* A run that goes on with its job.
LEMMA RunGoesOn ==
  ASSUME RequestInv, run.at # "idle", mrJobs' = mrJobs, run' \in RunRow, run'.head = run.head
  PROVE  JobsInv'
BY DEF RequestInv, JobsInv

\* The diff, the checkout, the reviewers, and the look at what is there.
LEMMA PreparesAndLists ==
  ASSUME RequestInv, FetchesDiff \/ ChecksOut \/ (\E found \in SUBSET Spots : Reviews(found)) \/ Lists
  PROVE  RequestInv'
<1>1. RequestTypes' /\ run \in RunRow /\ run.at # "idle" /\ posts' = posts /\ run.head \in Heads
  BY RunTyped DEF FetchesDiff, ChecksOut, Reviews, Lists, RequestInv, JobsInv
<1>2. CASE FetchesDiff \/ ChecksOut \/ (\E found \in SUBSET Spots : Reviews(found))
  <2>1. /\ mrJobs' = mrJobs
        /\ \/ run' = [run EXCEPT !.at = "checkout", !.diffOf = request.head]
           \/ run' = [run EXCEPT !.at = "review"]
           \/ \E found \in SUBSET Spots : run' = [run EXCEPT !.at = "list", !.found = found]
    BY <1>2 DEF FetchesDiff, ChecksOut, Reviews
  <2>2. request.head \in Heads
    BY DEF RequestInv, RequestTypes
  <2>3. /\ run' \in RunRow /\ run'.head = run.head /\ run'.at \in {"checkout", "review", "list"}
        /\ run'.accepted = run.accepted
    BY <1>1, <2>1, <2>2 DEF RunRow
  <2>4. run.accepted = {}
    BY <1>2 DEF FetchesDiff, ChecksOut, Reviews, RequestInv, PostsInv, Prepares
  <2>5. JobsInv'
    BY <1>1, <2>1, <2>3, RunGoesOn
  <2> QED
    BY <1>1, <2>3, <2>5, <2>4, RunStepKeeps
<1>3. CASE Lists /\ Ends("completed", {}, "COMMENT")
  <2>1. JobsInv' /\ run'.at = "idle"
    BY <1>1, <1>3, RunEnded
  <2> QED
    BY <1>1, <2>1, RunStepKeeps DEF Prepares
<1>4. CASE /\ Lists /\ SummariesOf(run.head) = {}
           /\ run' = [run EXCEPT !.at = "note"] /\ UNCHANGED mrJobs
  <2>1. run' \in RunRow /\ run'.head = run.head /\ run'.at = "note" /\ run'.accepted = run.accepted
    BY <1>1, <1>4 DEF RunRow
  <2>2. JobsInv'
    BY <1>1, <1>4, <2>1, RunGoesOn
  <2>3. PostsInv'
    BY <1>1, <1>4, <2>1 DEF RequestInv, PostsInv, SummariesOf, Prepares, Lists
  <2> QED
    BY <1>1, <2>2, <2>3 DEF RequestInv
<1> QED
  BY <1>2, <1>3, <1>4 DEF Lists, h0

\* The summary goes out for a head that has none.
LEMMA SummaryPosted ==
  ASSUME RequestInv, run.at = "note", NEW spot, posts' = posts \cup {[Summary EXCEPT !.spot = spot]}
  PROVE  /\ \A p \in posts' : p.head \in Heads /\ p.diffOf \in {0} \union Heads
         /\ \A p, q \in posts' : p.kind = "summary" /\ q.kind = "summary" /\ p.head = q.head => p = q
<1>1. PostsInv /\ run.head \in Heads /\ run.diffOf \in {0} \union Heads
  BY DEF RequestInv, JobsInv, RunRow
<1> DEFINE new == [Summary EXCEPT !.spot = spot]
<1>2. new.kind = "summary" /\ new.head = run.head /\ new.diffOf = run.diffOf
  BY DEF Summary, Post, h0
<1> HIDE DEF new
<1>3. \A p \in posts : p.kind = "summary" => p.head # run.head
  BY <1>1 DEF PostsInv, SummariesOf
<1>4. \A p \in posts' : p \in posts \/ p = new
  BY DEF new
<1> QED
  BY <1>1, <1>2, <1>3, <1>4 DEF PostsInv

LEMMA NoteKeeps == ASSUME RequestInv, PostsNote \/ LosesNoteReply PROVE RequestInv'
<1>1. /\ RequestTypes' /\ run \in RunRow /\ run.at = "note" /\ run.head \in Heads
      /\ posts' = posts \cup {[Summary EXCEPT !.spot = Cardinality(SummariesOf(h0))]}
  BY RunTyped DEF PostsNote, LosesNoteReply, RequestInv, JobsInv
<1>2. /\ \A p \in posts' : p.head \in Heads /\ p.diffOf \in {0} \union Heads
      /\ \A p, q \in posts' : p.kind = "summary" /\ q.kind = "summary" /\ p.head = q.head => p = q
  BY <1>1, SummaryPosted
<1>3. CASE PostsNote
  <2>1. run' = [run EXCEPT !.at = "inline", !.todo = run.found, !.own = TRUE] /\ mrJobs' = mrJobs
    BY <1>3 DEF PostsNote
  <2>2. /\ run' \in RunRow /\ run'.head = run.head /\ run'.at = "inline" /\ run'.todo = run'.found
        /\ run'.accepted = run.accepted
    BY <1>1, <2>1 DEF RunRow
  <2>3. run.accepted = {}
    BY <1>1 DEF RequestInv, PostsInv, Prepares
  <2>4. JobsInv'
    BY <1>1, <2>1, <2>2, RunGoesOn
  <2> QED
    BY <1>1, <1>2, <2>1, <2>2, <2>3, <2>4, RunGoesOn DEF RequestInv, PostsInv, Prepares
<1>4. CASE LosesNoteReply
  <2>1. mrJobs[run.head] \in Job
    BY <1>1 DEF RequestInv, JobsInv
  <2>2. mrJobs[run.head].accepted \in SUBSET Spots /\ mrJobs[run.head].event \in {"none", "COMMENT", "APPROVE"}
    BY <2>1 DEF Job
  <2>3. Ends("failed", mrJobs[run.head].accepted, mrJobs[run.head].event)
    BY <1>4 DEF LosesNoteReply, h0
  <2>4. JobsInv' /\ run'.at = "idle"
    BY <1>1, <2>2, <2>3, RunEnded
  <2> QED
    BY <1>1, <1>2, <2>4 DEF RequestInv, PostsInv, Prepares
<1> QED
  BY <1>3, <1>4

\* What is posted of a head beside its summary.
LEMMA OthersPosted ==
  ASSUME RequestInv, NEW h \in Heads, NEW more, posts' = posts \cup more,
         \A p \in more : p.kind # "summary" /\ p.head = h /\ p.diffOf \in {0} \union Heads
  PROVE  /\ \A p \in posts' : p.head \in Heads /\ p.diffOf \in {0} \union Heads
         /\ \A p, q \in posts' : p.kind = "summary" /\ q.kind = "summary" /\ p.head = q.head => p = q
         /\ InlineOf(h) \subseteq InlineOf(h)' /\ ListedOf(h) \subseteq ListedOf(h)'
         /\ \A p \in more : /\ p.kind = "inline" => p.spot \in InlineOf(h)'
                            /\ p.kind = "listed" => p.spot \in ListedOf(h)'
<1>1. PostsInv
  BY DEF RequestInv
<1>2. \A p \in posts' : p \in posts \/ p \in more
  OBVIOUS
<1>3. \A p \in posts' : p.head \in Heads /\ p.diffOf \in {0} \union Heads
  BY <1>1, <1>2 DEF PostsInv
<1>4. \A p, q \in posts' : p.kind = "summary" /\ q.kind = "summary" /\ p.head = q.head => p = q
  BY <1>1, <1>2 DEF PostsInv
<1>5. InlineOf(h) \subseteq InlineOf(h)' /\ ListedOf(h) \subseteq ListedOf(h)'
  BY DEF InlineOf, ListedOf
<1>6. \A p \in more : /\ p.kind = "inline" => p.spot \in InlineOf(h)'
                      /\ p.kind = "listed" => p.spot \in ListedOf(h)'
  <2> SUFFICES ASSUME NEW p \in more
               PROVE  /\ p.kind = "inline" => p.spot \in InlineOf(h)'
                      /\ p.kind = "listed" => p.spot \in ListedOf(h)'
    OBVIOUS
  <2>1. p \in posts' /\ p.head = h
    OBVIOUS
  <2> QED
    BY <2>1 DEF InlineOf, ListedOf
<1> QED
  BY <1>3, <1>4, <1>5, <1>6

LEMMA InlineKeeps == ASSUME RequestInv, NEW s \in Spots, PostsInline(s) PROVE RequestInv'
<1>1. /\ RequestTypes' /\ run \in RunRow /\ run.at = "inline" /\ run.head \in Heads /\ mrJobs' = mrJobs /\ s \in run.todo
  BY RunTyped DEF PostsInline, RequestInv, JobsInv
<1>2. /\ run.found \subseteq run.todo \union run.accepted \union run.unplaced
      /\ run.accepted \subseteq InlineOf(run.head)
  BY <1>1 DEF RequestInv, PostsInv
<1>3. PICK h \in Heads : h = run.head
  BY <1>1
<1>4. CASE PostInline(s) /\ run' = [run EXCEPT !.todo = @ \ {s}, !.accepted = @ \cup {s}]
  <2> DEFINE p == Post("inline", h, s, run.diffOf, "none")
  <2>1. p.kind = "inline" /\ p.head = h /\ p.diffOf \in {0} \union Heads /\ p.spot = s
    BY <1>1 DEF Post, RunRow
  <2>2. posts' = posts \cup {p}
    BY <1>4, <1>3 DEF PostInline, h0
  <2> HIDE DEF p
  <2>3. \A q \in {p} : q.kind # "summary" /\ q.head = h /\ q.diffOf \in {0} \union Heads
    BY <2>1
  <2>4. /\ \A q \in posts' : q.head \in Heads /\ q.diffOf \in {0} \union Heads
        /\ \A q, o \in posts' : q.kind = "summary" /\ o.kind = "summary" /\ q.head = o.head => q = o
        /\ InlineOf(h) \subseteq InlineOf(h)' /\ s \in InlineOf(h)'
    <3> DEFINE more == {p}
    <3>1. posts' = posts \cup more /\ p \in more /\ \A q \in more : q.kind # "summary" /\ q.head = h /\ q.diffOf \in {0} \union Heads
      BY <2>2, <2>3
    <3> HIDE DEF more
    <3> QED
      BY <2>1, <3>1, OthersPosted
  <2>5. /\ run' \in RunRow /\ run'.head = run.head /\ run'.at = "inline" /\ run'.found = run.found
        /\ run'.todo = run.todo \ {s} /\ run'.accepted = run.accepted \cup {s} /\ run'.unplaced = run.unplaced
    BY <1>1, <1>4 DEF RunRow
  <2>6. (run.accepted \subseteq InlineOf(run.head))'
    BY <1>3, <1>2, <2>4, <2>5
  <2>7. run'.found \subseteq run'.todo \union run'.accepted \union run'.unplaced
    BY <1>2, <2>5
  <2>8. JobsInv'
    BY <1>1, <2>5, RunGoesOn
  <2> QED
    BY <1>1, <2>4, <2>5, <2>6, <2>7, <2>8 DEF RequestInv, PostsInv, Prepares
<1>5. CASE posts' = posts /\ run' = [run EXCEPT !.todo = @ \ {s}, !.unplaced = @ \cup {s}]
  <2>1. /\ run' \in RunRow /\ run'.head = run.head /\ run'.at = "inline" /\ run'.found = run.found
        /\ run'.todo = run.todo \ {s} /\ run'.accepted = run.accepted /\ run'.unplaced = run.unplaced \cup {s}
    BY <1>1, <1>5 DEF RunRow
  <2>2. (run.accepted \subseteq InlineOf(run.head))'
    BY <1>2, <1>5, <2>1 DEF InlineOf
  <2>3. run'.found \subseteq run'.todo \union run'.accepted \union run'.unplaced
    BY <1>2, <2>1
  <2>4. JobsInv'
    BY <1>1, <2>1, RunGoesOn
  <2> QED
    BY <1>1, <1>5, <2>1, <2>2, <2>3, <2>4 DEF RequestInv, PostsInv, Prepares
<1> QED
  BY <1>4, <1>5 DEF PostsInline

LEMMA UnplacedKeeps == ASSUME RequestInv, ListsUnplaced PROVE RequestInv'
<1>1. /\ RequestTypes' /\ run \in RunRow /\ run.at = "inline" /\ run.head \in Heads /\ mrJobs' = mrJobs /\ run.todo = {}
  BY RunTyped DEF ListsUnplaced, RequestInv, JobsInv
<1>2. run.found \subseteq run.accepted \union run.unplaced /\ run.accepted \subseteq InlineOf(run.head)
  BY <1>1 DEF RequestInv, PostsInv
<1>3. PICK h \in Heads : h = run.head
  BY <1>1
<1>4. CASE /\ posts' = posts \cup {Post("listed", h0, s, run.diffOf, "none") : s \in run.unplaced}
           /\ run' = [run EXCEPT !.at = "approve"]
  <2> DEFINE p(s) == Post("listed", h, s, run.diffOf, "none")
             more == {p(s) : s \in run.unplaced}
  <2>1. \A s : p(s).kind = "listed" /\ p(s).head = h /\ p(s).diffOf \in {0} \union Heads /\ p(s).spot = s
    BY <1>1 DEF Post, RunRow
  <2>2. posts' = posts \cup more
    BY <1>4, <1>3 DEF h0
  <2>3. \A s \in run.unplaced : p(s) \in more
    OBVIOUS
  <2>4. \A q \in more : q.kind # "summary" /\ q.head = h /\ q.diffOf \in {0} \union Heads
    BY <2>1
  <2> HIDE DEF p, more
  <2>5. /\ \A q \in posts' : q.head \in Heads /\ q.diffOf \in {0} \union Heads
        /\ \A q, o \in posts' : q.kind = "summary" /\ o.kind = "summary" /\ q.head = o.head => q = o
        /\ InlineOf(h) \subseteq InlineOf(h)'
        /\ \A q \in more : q.kind = "listed" => q.spot \in ListedOf(h)'
    BY <2>2, <2>4, OthersPosted
  <2>6. run.unplaced \subseteq ListedOf(h)'
    BY <2>1, <2>3, <2>5
  <2>7. run' \in RunRow /\ run'.head = run.head /\ run'.at = "approve" /\ run'.found = run.found
    BY <1>1, <1>4 DEF RunRow
  <2>8. (run.found \subseteq InlineOf(run.head) \union ListedOf(run.head))'
    BY <1>3, <1>2, <2>5, <2>6, <2>7
  <2>9. JobsInv'
    BY <1>1, <2>7, RunGoesOn
  <2> QED
    BY <1>1, <2>5, <2>7, <2>8, <2>9 DEF RequestInv, PostsInv, Prepares
<1>5. CASE posts' = posts /\ run' = [run EXCEPT !.at = "approve", !.warned = TRUE]
  <2>1. run' \in RunRow /\ run'.head = run.head /\ run'.at = "approve"
    BY <1>1, <1>5 DEF RunRow
  <2>2. run'.warned
    BY <1>1, <1>5 DEF RunRow
  <2>3. JobsInv'
    BY <1>1, <2>1, RunGoesOn
  <2> QED
    BY <1>1, <1>5, <2>1, <2>2, <2>3 DEF RequestInv, PostsInv, Prepares
<1> QED
  BY <1>4, <1>5 DEF ListsUnplaced

LEMMA ApprovesKeeps == ASSUME RequestInv, Approves PROVE RequestInv'
<1>1. /\ RequestTypes' /\ run \in RunRow /\ run.at = "approve" /\ run.head \in Heads /\ mrJobs' = mrJobs
      /\ run' = [run EXCEPT !.at = "record"]
  BY RunTyped DEF Approves, RequestInv, JobsInv
<1>2. run' \in RunRow /\ run'.head = run.head /\ run'.at = "record"
  BY <1>1 DEF RunRow
<1>3. JobsInv'
  BY <1>1, <1>2, RunGoesOn
<1>4. PostsInv /\ (posts' = posts \/ posts' = posts \cup {Approval(run.head)})
  BY DEF RequestInv, Approves, h0
<1>5. Approval(run.head).kind = "approval" /\ Approval(run.head).head = run.head /\ Approval(run.head).diffOf = 0
  BY DEF Approval, Post
<1> HIDE DEF Approval
<1>6. \A p \in posts' : p \in posts \/ p = Approval(run.head)
  BY <1>4
<1>7. PostsInv'
  BY <1>1, <1>2, <1>4, <1>5, <1>6 DEF PostsInv, Prepares
<1> QED
  BY <1>1, <1>3, <1>7 DEF RequestInv

LEMMA RequestNextKeeps == RequestInv /\ [RequestNext]_requestVars => RequestInv'
<1> SUFFICES ASSUME RequestInv, [RequestNext]_requestVars PROVE RequestInv'
  OBVIOUS
<1>1. CASE UNCHANGED requestVars
  BY <1>1 DEF requestVars, RequestInv, RequestTypes, JobsInv, PostsInv, SummariesOf, InlineOf, ListedOf
<1>2. CASE RequestNext
  BY <1>2, InstanceKeeps, RowsKeep, FailsAndRestarts, RunStartsKeeps, PreparesAndLists, NoteKeeps, InlineKeeps,
     UnplacedKeeps, ApprovesKeeps DEF RequestNext
<1> QED
  BY <1>1, <1>2

LEMMA RequestSound == RequestSpec => []RequestInv
<1> QED
  BY RequestStarts, RequestNextKeeps, PTL DEF RequestSpec

\* One note per head and every finding with it, though each call may fail or be
\* the last before a death (GitLabProvider's publication).
THEOREM EachHeadOnce == RequestSpec => []PublishesOnce
<1>1. ASSUME RequestInv PROVE PublishesOnce
  <2>1. ASSUME NEW h \in Heads PROVE Cardinality(SummariesOf(h)) <= 1
    <3>1. \A p, q \in SummariesOf(h) : p = q
      BY <1>1 DEF RequestInv, PostsInv, SummariesOf
    <3>2. CASE SummariesOf(h) = {}
      BY <3>2, FS_EmptySet
    <3>3. ASSUME NEW p \in SummariesOf(h) PROVE SummariesOf(h) = {p}
      BY <3>1, <3>3
    <3> QED
      BY <3>2, <3>3, FS_Singleton
  <2>2. NothingDropped
    BY <1>1 DEF NothingDropped, RequestInv, PostsInv, h0
  <2> QED
    BY <2>1, <2>2 DEF PublishesOnce, OneNotePerHead
<1> QED
  BY <1>1, RequestSound, PTL

\* Rows, run and posts have their types, and a run is of a job that is at work
\* or was ended under it.
THEOREM RequestWellTyped == RequestSpec => []RequestTypeOK
<1>1. ASSUME RequestInv PROVE RequestTypeOK
  <2>1. RequestTypes /\ JobsInv /\ PostsInv /\ \A h \in Heads : mrJobs[h] \in Job
    BY <1>1 DEF RequestInv, JobsInv
  <2>2. request.head \in Heads /\ request.state \in {"opened", "closed", "merged"} /\ {mergedPull, allPaused} \subseteq BOOLEAN
    BY <2>1 DEF RequestTypes
  <2>3. \A h \in Heads :
          /\ mrJobs[h].state \in {"none", "queued", "running", "completed", "failed"} \cup Over
          /\ mrJobs[h].accepted \subseteq Spots /\ mrJobs[h].event \in {"none", "COMMENT", "APPROVE"}
    BY <2>1 DEF Job, Over
  <2> QED
    BY <2>1, <2>2, <2>3 DEF RequestTypeOK, RequestTypes, JobsInv, PostsInv, Over, h0
<1> QED
  BY <1>1, RequestSound, PTL

\* A job is not put to work by a step but the start that runs it: what waits
\* after a step that no retry button caused waited before it, once the request
\* is merged.
LEMMA QuietStep ==
  ASSUME RequestInv, [RequestNext]_requestVars, mergedPull, retakes' = retakes, NEW h \in Heads, mrJobs'[h].state \in Waits
  PROVE  mrJobs[h].state \in Waits
<1>1. mrJobs \in [Heads -> Job] /\ run \in RunRow /\ retakes \in Nat
  BY DEF RequestInv, RequestTypes, JobsInv
<1>2. CASE mrJobs' = mrJobs
  BY <1>2
<1>3. CASE mrJobs' = Cancelled
  BY <1>3, RowsWritten DEF RequestInv
<1>4. CASE RunFails \/ LosesNoteReply \/ Records \/ Lists
  <2>1. run.at # "idle" /\ run.head \in Heads /\ mrJobs[run.head] \in Job
    BY <1>4 DEF RequestInv, JobsInv, RunFails, LosesNoteReply, Records, Lists
  <2>2. /\ mrJobs[run.head].accepted \in SUBSET Spots /\ mrJobs[run.head].event \in {"none", "COMMENT", "APPROVE"}
        /\ run.accepted \in SUBSET Spots /\ EventOf(run.found) \in {"none", "COMMENT", "APPROVE"}
    BY <1>1, <2>1 DEF Job, RunRow, EventOf
  <2>3. \/ Ends("failed", mrJobs[run.head].accepted, mrJobs[run.head].event)
        \/ Ends("completed", run.accepted, EventOf(run.found))
        \/ Ends("completed", {}, "COMMENT")
        \/ mrJobs' = mrJobs
    BY <1>4 DEF RunFails, LosesNoteReply, Records, Lists, h0
  <2> QED
    BY <1>2, <2>1, <2>2, <2>3, RunEnded
<1>5. CASE Restarts
  BY <1>1, <1>5 DEF Restarts, Waits
<1>6. ASSUME NEW g \in Heads, RunStarts(g) PROVE mrJobs[h].state \in Waits
  BY <1>1, <1>6 DEF RunStarts, Waits
<1>7. ASSUME NEW g \in Heads, Retakes(g) PROVE FALSE
  BY <1>1, <1>7 DEF Retakes
<1>8. CASE Delivers
  BY <1>2, <1>3, <1>8 DEF Delivers, DeliversMerge, DeliversChange, HasMergedPull
<1>9. CASE Switches
  BY <1>2, <1>3, <1>9 DEF Switches
<1>10. CASE Pushes \/ Edits
  BY <1>2, <1>10 DEF Pushes, Edits, Instance
<1>11. CASE FetchesDiff \/ ChecksOut \/ (\E found \in SUBSET Spots : Reviews(found)) \/ PostsNote
            \/ (\E s \in Spots : PostsInline(s)) \/ ListsUnplaced \/ Approves
  BY <1>2, <1>11 DEF FetchesDiff, ChecksOut, Reviews, PostsNote, PostsInline, ListsUnplaced, Approves
<1>12. CASE UNCHANGED requestVars
  BY <1>2, <1>12 DEF requestVars
<1> QED
  BY <1>4, <1>5, <1>6, <1>7, <1>8, <1>9, <1>10, <1>11, <1>12 DEF RequestNext

\* Once the merge was handled, no delivery of the request's earlier events, in
\* whatever order they come in, and no restart puts a job of it to work; only
\* the retry button does.
THEOREM MergedIsDone == RequestSpec => MergedStaysQuiet
<1>1. RequestInv /\ [RequestNext]_requestVars
        => [mergedPull /\ retakes' = retakes
              => \A h \in Heads : mrJobs'[h].state \in Waits => mrJobs[h].state \in Waits]_requestVars
  BY QuietStep
<1> QED
  BY <1>1, RequestSound, PTL DEF RequestSpec, MergedStaysQuiet

-----------------------------------------------------------------------------
(* The handlers beside one another *)

\* A handler's tables begin as it begins, and only its own scene moves them.
LEMMA HandlersStart ==
  HandlersInit => /\ RoutingInit /\ RequestInit /\ PausesInit /\ EditorInit /\ SettingsInit /\ MigrationInit
                  /\ scene \in HandlerScenes
BY DEF HandlersInit

LEMMA ScenesApart ==
  ASSUME [HandlersNext]_<<scene, commandVars, routingVars, requestVars, pauseVars, editorVars,
                          settingsVars, migrationVars>>
  PROVE  /\ [RoutingNext]_routingVars /\ [RequestNext]_requestVars /\ [PausesNext]_pauseVars
         /\ [EditorNext]_editorVars /\ [SettingsNext]_settingsVars /\ [MigrationNext]_migrationVars
         /\ UNCHANGED scene
<1>1. CASE HandlersNext
  BY <1>1 DEF HandlersNext, Plays
<1>2. CASE UNCHANGED <<scene, commandVars, routingVars, requestVars, pauseVars, editorVars,
                       settingsVars, migrationVars>>
  BY <1>2
<1> QED
  BY <1>1, <1>2

LEMMA HandlersPlay ==
  HandlersSpec => /\ RoutingSpec /\ RequestSpec /\ PausesSpec /\ EditorSpec /\ SettingsSpec /\ MigrationSpec
                  /\ [](scene \in HandlerScenes)
<1> DEFINE all == <<scene, commandVars, routingVars, requestVars, pauseVars, editorVars, settingsVars, migrationVars>>
<1>1. [HandlersNext]_all =>
        /\ [RoutingNext]_routingVars /\ [RequestNext]_requestVars /\ [PausesNext]_pauseVars
        /\ [EditorNext]_editorVars /\ [SettingsNext]_settingsVars /\ [MigrationNext]_migrationVars
  BY ScenesApart
<1>2. scene \in HandlerScenes /\ [HandlersNext]_all => (scene \in HandlerScenes)'
  BY ScenesApart
<1> QED
  BY <1>1, <1>2, HandlersStart, PTL
     DEF HandlersSpec, RoutingSpec, RequestSpec, PausesSpec, EditorSpec, SettingsSpec, MigrationSpec

\* In every scene but the walk's the stack commands' tables are their own.
LEMMA CommandsInScene == HandlersSpec => [](scene # "walk" => CommandsInv)
<1> DEFINE all == <<scene, commandVars, routingVars, requestVars, pauseVars, editorVars, settingsVars, migrationVars>>
           Inv == scene # "walk" => CommandsInv
<1>1. HandlersInit => Inv
  BY CommandsStart DEF HandlersInit
<1>2. Inv /\ [HandlersNext]_all => Inv'
  <2> SUFFICES ASSUME Inv, [HandlersNext]_all, scene' # "walk" PROVE CommandsInv'
    OBVIOUS
  <2>1. scene # "walk"
    BY ScenesApart
  <2>2. [StackCommandsNext]_commandVars
    BY <2>1 DEF HandlersNext, Plays
  <2> QED
    BY <2>1, <2>2, CommandsNextKeeps
<1> QED
  BY <1>1, <1>2, PTL DEF HandlersSpec

\* The walk's scene: any layout of the four pulls, and the starts.
WalkScene ==
  /\ layout.open \subseteq 1..4 /\ layout.base \in [1..4 -> Layouts!Branches]
  /\ layout = Layouts!LayoutOf(layout.open, layout.base)
  /\ \A p \in 1..3 : layout.base[p] # SharedBranch[p]
  /\ starts \in [Stacks -> 1..4 \cup {0}] /\ declared = {} /\ lastRun = [s \in Stacks |-> <<>>]
  /\ awaiting = [h \in {1} |-> awaiting[1]] /\ awaiting[1].at \in {"free", "find"}

LEMMA WalkStarts == Layouts!StackCommandsInit => WalkScene
<1> SUFFICES ASSUME Layouts!StackCommandsInit PROVE WalkScene
  OBVIOUS
<1>1. PICK base \in AnyBases : layout = Layouts!LayoutOf(1..4, base)
  BY DEF Layouts!StackCommandsInit
<1>2. layout.open = 1..4 /\ layout.base = base
  BY <1>1 DEF Layouts!LayoutOf
<1>3. ToSet(SharedBranch) = {SharedBranch[p] : p \in 1..4}
  BY DEF ToSet, SharedBranch
<1>4. base \in [1..4 -> Layouts!Branches] /\ \A p \in 1..3 : base[p] # SharedBranch[p]
  BY <1>3 DEF AnyBases, Layouts!Branches
<1>5. /\ starts = [s \in Stacks |-> 0] /\ declared = {} /\ lastRun = [s \in Stacks |-> <<>>]
      /\ awaiting = [h \in {1} |-> Layouts!Free]
  BY DEF Layouts!StackCommandsInit
<1>6. awaiting[1].at = "free" /\ awaiting = [h \in {1} |-> awaiting[1]]
  BY <1>5 DEF Layouts!Free
<1> QED
  BY <1>1, <1>2, <1>4, <1>5, <1>6 DEF WalkScene

LEMMA WalkRebases == ASSUME WalkScene, NEW p \in 1..4, Layouts!Rebases(p) PROVE WalkScene'
<1>1. UNCHANGED <<declared, starts, lastRun, awaiting>>
  BY DEF Layouts!Rebases
<1>2. layout = Layouts!LayoutOf(layout.open, layout.base)
  BY DEF WalkScene
<1>3. ASSUME NEW b \in Layouts!Branches, p \in 1..3 => b # SharedBranch[p], layout' = [layout EXCEPT !.base[p] = b]
      PROVE  WalkScene'
  <2> DEFINE base == [layout.base EXCEPT ![p] = b]
  <2>1. layout' = Layouts!LayoutOf(layout'.open, layout'.base) /\ layout'.open = layout.open /\ layout'.base = base
    BY <1>2, <1>3 DEF Layouts!LayoutOf
  <2>2. base \in [1..4 -> Layouts!Branches] /\ \A q \in 1..3 : base[q] # SharedBranch[q]
    BY <1>3 DEF WalkScene
  <2> HIDE DEF base
  <2> QED
    BY <1>1, <2>1, <2>2 DEF WalkScene
<1>4. ASSUME layout' = [layout EXCEPT !.open = @ \ {p}] PROVE WalkScene'
  <2>1. /\ layout' = Layouts!LayoutOf(layout'.open, layout'.base)
        /\ layout'.open = layout.open \ {p} /\ layout'.base = layout.base
    BY <1>2, <1>4 DEF Layouts!LayoutOf
  <2> QED
    BY <1>1, <2>1 DEF WalkScene
<1> QED
  <2>1. p \in {4} => p \notin 1..3
    OBVIOUS
  <2> QED
    BY <1>3, <1>4, <2>1 DEF Layouts!Rebases

LEMMA WalkGoesOn == ASSUME WalkScene, NEW p \in 1..4, NEW s \in Stacks, Layouts!Start(1, s, p) PROVE WalkScene'
<1>1. UNCHANGED <<layout, declared, lastRun>>
  BY DEF Layouts!Start
<1>2. starts' \in [Stacks -> 1..4 \cup {0}]
  BY DEF Layouts!Start, WalkScene
<1>3. awaiting' = [h \in {1} |-> awaiting'[1]] /\ awaiting'[1].at \in {"free", "find"}
  <2>1. CASE UNCHANGED awaiting
    BY <2>1 DEF WalkScene
  <2>2. CASE Layouts!Becomes(1, Layouts!Refreshing(s, <<p>>))
    <3>1. Layouts!Refreshing(s, <<p>>).at = "find"
      BY DEF Layouts!Refreshing, Layouts!Free
    <3> HIDE DEF Layouts!Refreshing
    <3> QED
      BY <2>2, <3>1 DEF Layouts!Becomes, WalkScene
  <2> QED
    BY <2>1, <2>2 DEF Layouts!Start
<1> QED
  BY <1>1, <1>2, <1>3 DEF WalkScene

LEMMA WalkInScene == HandlersSpec => [](scene = "walk" => WalkScene)
<1> DEFINE all == <<scene, commandVars, routingVars, requestVars, pauseVars, editorVars, settingsVars, migrationVars>>
           Inv == scene = "walk" => WalkScene
<1>1. HandlersInit => Inv
  BY WalkStarts DEF HandlersInit
<1>2. Inv /\ [HandlersNext]_all => Inv'
  <2> SUFFICES ASSUME Inv, [HandlersNext]_all, scene' = "walk" PROVE WalkScene'
    OBVIOUS
  <2>1. scene = "walk"
    BY ScenesApart
  <2>2. LayoutsMove \/ UNCHANGED commandVars
    BY <2>1 DEF HandlersNext, Plays
  <2>3. CASE LayoutsMove
    BY <2>1, <2>3, WalkRebases, WalkGoesOn DEF LayoutsMove
  <2>4. CASE UNCHANGED commandVars
    BY <2>1, <2>4 DEF commandVars, WalkScene
  <2> QED
    BY <2>2, <2>3, <2>4
<1> QED
  BY <1>1, <1>2, PTL DEF HandlersSpec

\* The walk of the scene is the walk.
LEMMA SameWalk ==
  ASSUME NEW l, NEW start, NEW marked, NEW end, NEW candidates
  PROVE  Layouts!FindsStackIn(l, start, marked, end, candidates)
           <=> FindsStackIn(l, start, marked, end, candidates)
BY Zenon DEF Layouts!FindsStackIn, FindsStackIn, Layouts!IsStackOf, IsStackOf, Layouts!ResolveStackChain, ResolveStackChain,
   Layouts!Walk, Walk, Layouts!Descends, Descends, Layouts!Bottom, Bottom, Layouts!OneBelow, OneBelow, Layouts!Below, Below,
   Layouts!Above, Above, Layouts!Cardinality, Cardinality, Layouts!Last, Last, Layouts!IsInjective, IsInjective,
   Layouts!ToSet, ToSet, Layouts!Unresolved, Unresolved, Layouts!MaxChain, MaxChain, Layouts!SameRepo, SameRepo

LEMMA WalkIsSound == WalkScene => Layouts!StackCommandsTypeOK /\ Layouts!WalkFindsTheStack
<1> SUFFICES ASSUME WalkScene PROVE Layouts!StackCommandsTypeOK /\ Layouts!WalkFindsTheStack
  OBVIOUS
<1>1. Layouts!StackCommandsTypeOK
  <2>1. layout \in {Layouts!LayoutOf(open, base) : open \in SUBSET (1..4), base \in [1..4 -> Layouts!Branches]}
    BY DEF WalkScene
  <2>2. \A s \in Stacks : IsInjective(lastRun[s]) /\ ToSet(lastRun[s]) \subseteq 1..4
    BY DEF WalkScene, IsInjective, ToSet
  <2> QED
    BY <2>1, <2>2 DEF WalkScene, Layouts!StackCommandsTypeOK, IsInjective, Layouts!IsInjective, ToSet, Layouts!ToSet
<1>2. /\ layout.open \subseteq 1..4 /\ IsFiniteSet(layout.open) /\ layout.open \subseteq Nat \ {0}
      /\ \A p \in layout.open : SameRepo(layout, p) => layout.base[p] # layout.head[p]
  <2>1. layout.open \subseteq 1..4 /\ layout = Layouts!LayoutOf(layout.open, layout.base)
        /\ \A p \in 1..3 : layout.base[p] # SharedBranch[p]
    BY DEF WalkScene
  <2>2. /\ Layouts!LayoutOf(layout.open, layout.base).head = SharedBranch
        /\ Layouts!LayoutOf(layout.open, layout.base).forks = {4}
    BY DEF Layouts!LayoutOf
  <2>3. IsFiniteSet(1..4)
    <3>1. 1 \in Int /\ 4 \in Int
      OBVIOUS
    <3> QED
      BY <3>1, FS_Interval, Zenon
  <2>4. \A p \in layout.open : SameRepo(layout, p) => p \in 1..3
    BY <2>1, <2>2 DEF SameRepo
  <2> QED
    BY <2>1, <2>2, <2>3, <2>4, FS_Subset
<1>3. ASSUME NEW end \in 1..4, NEW start, NEW marked
      PROVE  Layouts!FindsStackIn(layout, start, marked, end, Layouts!ListsUpTo[end])
  <2>1. \A d \in Layouts!ListsUpTo[end] : \E S : d \in Seq(S)
    <3>1. ASSUME NEW d \in Layouts!TopLists PROVE d \in Seq(1..4)
      <4>1. PICK m \in 0..Layouts!Cardinality(1..4) : d \in [1..m -> 1..4]
        BY DEF Layouts!TopLists, Layouts!SeqOf
      <4>2. m \in Nat
        BY <4>1
      <4> QED
        BY <4>1, <4>2
    <3> QED
      BY <3>1 DEF Layouts!ListsUpTo
  <2>2. FindsStackIn(layout, start, marked, end, Layouts!ListsUpTo[end])
    BY <1>2, <2>1, ResolutionIsTheStack
  <2> QED
    BY <2>2, SameWalk
<1>4. Layouts!WalkFindsTheStack
  BY <1>3 DEF Layouts!WalkFindsTheStack
<1> QED
  BY <1>1, <1>4

\* A stack is what its commands and branches say: positions are distinct, it ran
\* only when somebody asked (webhooks.ts:1278-1280), and the walk finds it over
\* whatever branches (commands.ts:184-187).
THEOREM StacksAreAsAsked == HandlersSpec => []StacksAsAsked
<1>1. (scene # "walk" => CommandsInv) /\ (scene = "walk" => WalkScene) => StacksAsAsked
  BY WalkIsSound DEF StacksAsAsked, CommandsInv, RowsSound, RunsSound
<1> QED
  BY <1>1, CommandsInScene, WalkInScene, PTL

\* Every table and every piece of memory of these handlers has its type.
THEOREM HandlersWellTyped == HandlersSpec => []HandlersTypeOK
<1> DEFINE typed == RoutingTypeOK /\ RequestTypeOK /\ PausesTypeOK /\ EditorTypeOK /\ SettingsTypeOK /\ MigrationTypeOK
           played == (scene # "walk" => CommandsInv) /\ (scene = "walk" => WalkScene)
<1>1. scene \in HandlerScenes /\ played /\ typed => HandlersTypeOK
  <2> SUFFICES ASSUME scene \in HandlerScenes, played, typed PROVE HandlersTypeOK
    OBVIOUS
  <2>1. (scene = "commands" => StackCommandsTypeOK) /\ (scene = "walk" => Layouts!StackCommandsTypeOK)
    BY WalkIsSound, CommandsTypes
  <2>2. scene \in HandlerScenes
    OBVIOUS
  <2> HIDE DEF played
  <2>3. CASE scene \in {"commands", "walk"}
    BY <2>1, <2>2, <2>3 DEF HandlersTypeOK
  <2>4. CASE scene \in {"routing", "requests", "pauses", "editor", "settings", "migration"}
    BY <2>2, <2>4 DEF HandlersTypeOK
  <2> QED
    BY <2>2, <2>3, <2>4 DEF HandlerScenes
<1> QED
  BY <1>1, HandlersPlay, CommandsInScene, WalkInScene, RoutingWellTyped, RequestWellTyped, PausesWellTyped,
     EditorWellTyped, SettingsWellTyped, MigrationWellTyped, PTL

\* A risky diff is answered and the panel is the decision's, also after restarts
\* under other modes (select.ts:160, pipeline.ts:1899): for all configured lists
\* and definitions, answers of the model, diffs and deaths.
THEOREM ReviewersAlwaysAnswer == HandlersSpec => []ReviewersAnswer
<1>1. RiskIsAnswered /\ PanelAnswersDecision => ReviewersAnswer
  BY DEF ReviewersAnswer
<1> QED
  BY <1>1, HandlersPlay, RiskIsAlwaysAnswered, PanelAlwaysAnswers, PTL

\* What an operator's page shows is so, and a page posted as it was opened is the
\* draft, when every timeout in range is one the page can say.
THEOREM PagesAreAlwaysTrue ==
  ASSUME \A n \in Times : n <= MaxTime => Exact(n)
  PROVE  HandlersSpec => []PagesAreTrue
<1>1. SavedIsSound /\ RoundTrip /\ PageSaysWhatIsSent => PagesAreTrue
  BY DEF PagesAreTrue
<1>2. EditorSpec => []RoundTrip
  BY PageAlwaysRoundTrips
<1> QED
  BY <1>1, <1>2, HandlersPlay, SavedIsAlwaysSound, PageAlwaysSaysWhatIsSent, PTL

\* What an operator presses does what the page showed, however stale it is.
THEOREM PressesAlwaysDo == HandlersSpec => PressesDoAsShown
BY HandlersPlay, ClicksEndTheirPause, FlagsAreTrue, ClicksLoseNothing, PreviewIsTrue, PTL DEF PressesDoAsShown

\* A head is published once and without loss, a merged request stays quiet, a
\* paused repository too, and a migration keeps every row.
THEOREM HandlersPromisesHold ==
  HandlersSpec => [](PublishesOnce /\ RepoPauseIsQuiet /\ MigratesWhole) /\ MergedStaysQuiet
BY HandlersPlay, EachHeadOnce, MergedIsDone, PausesAreQuiet, EveryRowSurvives, PTL
=============================================================================

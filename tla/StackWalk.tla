------------------------------ MODULE StackWalk ------------------------------
(***************************************************************************)
(* The walk that resolves a stack (resolveStackChain of stacks/commands.ts): *)
(* from the pull an end was given at down the branches to the start.  A      *)
(* layout says which pulls are open, what the head and the base branch of    *)
(* each is, and which have their head branch in a fork.                      *)
(***************************************************************************)
EXTENDS Naturals, Sequences, FiniteSets, SequencesExt

SameRepo(l, p) == p \notin l.forks

\* byHead: open pulls whose head is p's base.
Below(l, p) == {q \in l.open : SameRepo(l, q) /\ l.head[q] = l.base[p]}
Above(l, p) == {q \in l.open \ {p} : SameRepo(l, q) /\ l.base[q] = l.head[p]}

Unresolved == <<>>
MaxChain   == 100    \* "the chain exceeds 100 pull requests"

\* Mutant: of two pulls with one head the first is taken.
FirstBelow(l, chain) == Below(l, Head(chain)) # {}

\* One predecessor, or the chain is broken, ambiguous, or a loop.
OneBelow(l, chain) == Cardinality(Below(l, Head(chain))) = 1

\* The loop ends at the start; with none named (0), at the first pull that is
\* marked as one or has nothing below.
Bottom(l, start, marked, p) == p = start \/ (start = 0 /\ (p \in marked \/ Below(l, p) = {}))

\* One turn of the loop.
Descends(l, start, marked, chain) ==
  LET below == Below(l, Head(chain))
      next  == CHOOSE q \in below : \A r \in below : q <= r
  IN  IF chain = Unresolved \/ Bottom(l, start, marked, Head(chain)) THEN chain
      ELSE IF ~OneBelow(l, chain) \/ next \in ToSet(chain) \/ Len(chain) >= MaxChain THEN Unresolved
      ELSE <<next>> \o chain

\* No pull is met twice, so it has come to its end after so many turns.
Walk(l, start, marked, end) ==
  LET walk[n \in 0..Cardinality(l.open)] ==
        IF n = 0 THEN <<end>> ELSE Descends(l, start, marked, walk[n - 1])
  IN  walk[Cardinality(l.open)]

\* start is 0 where the command named no stack; marked are pulls with a start.
ResolveStackChain(l, start, marked, end) ==
  IF \/ end \notin l.open \/ Above(l, end) # {}
     \/ start # 0 /\ (start \notin l.open \/ start = end \/ Below(l, start) \ {start} # {})
  THEN Unresolved
  ELSE LET chain == Walk(l, start, marked, end)
       IN IF Len(chain) < 2 THEN Unresolved ELSE chain

-----------------------------------------------------------------------------
\* A stack by its meaning: different pulls from the start (or from the first
\* marked pull, or the last there is) up to the end, none above it, each one the
\* only open pull whose head the next is based on, and no more than are resolved.
IsStackOf(l, start, marked, end, c) ==
  /\ Len(c) \in 2..MaxChain /\ IsInjective(c) /\ Last(c) = end /\ ToSet(c) \subseteq l.open /\ Above(l, end) = {}
  /\ \A i \in 2..Len(c) :
       /\ c[i] # start /\ (start = 0 => c[i] \notin marked)
       /\ Below(l, c[i]) = {c[i - 1]}
  /\ IF start # 0 THEN c[1] = start /\ Below(l, start) = {} ELSE c[1] \in marked \/ Below(l, c[1]) = {}

\* The walk finds the stack among these candidates, and nothing if none is one.
FindsStackIn(l, start, marked, end, candidates) ==
  LET c == ResolveStackChain(l, start, marked, end)
  IN  IF c # Unresolved THEN IsStackOf(l, start, marked, end, c)
      ELSE \A d \in candidates : ~IsStackOf(l, start, marked, end, d)
=============================================================================

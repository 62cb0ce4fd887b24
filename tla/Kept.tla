--------------------------------- MODULE Kept ---------------------------------
(***************************************************************************)
(* What filter() leaves of a list: some of its members, in their order.      *)
(***************************************************************************)
EXTENDS Naturals, Sequences, FiniteSets, SequencesExt

\* The numbers of a set, from the least.
InOrder(I) == [k \in 1..Cardinality(I) |-> CHOOSE i \in I : Cardinality({j \in I : j <= i}) = k]

\* The members of a list at some of its places.
KeptAt(s, I) == [k \in 1..Cardinality(I) |-> s[InOrder(I)[k]]]

\* Those that are in a set.
Among(s, S) == KeptAt(s, {i \in DOMAIN s : s[i] \in S})
=============================================================================

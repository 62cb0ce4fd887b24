--------------------------- MODULE MCStackReview ---------------------------
(* StackReview for TLC; README.md gives the reason for each bound.           *)
EXTENDS StackProperties
CONSTANTS p1, p2, p3
OneLayout  == {<<p1, p2>>}
TwoLayouts == {<<p1, p2>>, <<p1, p3, p2>>}
=============================================================================

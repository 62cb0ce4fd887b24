--------------------------- MODULE MCReviewService ---------------------------
(***************************************************************************)
(* ReviewService for TLC, in the runs about jobs of pulls and their heads;   *)
(* README.md gives the reason for each bound.  Rows are numbered in the     *)
(* order of their creation, so they are integers and not a symmetry set.    *)
(***************************************************************************)
EXTENDS ReviewProperties
=============================================================================

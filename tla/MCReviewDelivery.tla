--------------------------- MODULE MCReviewDelivery ---------------------------
(***************************************************************************)
(* Small instances of ReviewDelivery: summaries a and b that are joined    *)
(* with those of other edges, and a regular event r.                       *)
(***************************************************************************)
EXTENDS ReviewDelivery, TLC

FlusherSymmetry == Permutations(Flushers)
=============================================================================

---------------------------- MODULE MCGoldenReview ----------------------------
(***************************************************************************)
(* Instances of GoldenReview for TLC.                                      *)
(***************************************************************************)
EXTENDS GoldenReview, TLC

CONSTANTS q1, q2, q3, a, b

\* Two candidates of one category, so that a bulk skip has something to skip.
MCCategoryOf == q1 :> a @@ q2 :> a @@ q3 :> b
=============================================================================

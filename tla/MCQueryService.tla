---------------------------- MODULE MCQueryService ----------------------------
(***************************************************************************)
(* Instances of QueryService for TLC.                                      *)
(***************************************************************************)
EXTENDS QueryService, TLC

CONSTANTS t1, t2, t3, c1, c2, c3, q1, q2

\* Each tenant has a collection of its own.
MCCollectionOf == [t \in Tenant |-> (t1 :> c1 @@ t2 :> c2 @@ t3 :> c3)[t]]

\* The ratio is not symmetric: a new q1 is a duplicate of a queued q2, a new q2
\* is not one of a queued q1.
MCSimilar == {<<q1, q1>>, <<q2, q2>>, <<q1, q2>>}
=============================================================================

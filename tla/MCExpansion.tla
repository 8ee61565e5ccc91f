------------------------------ MODULE MCExpansion ------------------------------
(* Constants of the run of Expansion. *)
EXTENDS Expansion

CONSTANTS q1, q2, q3, s1, u1, u2, net, rbac, vs, un, c1, c2, c3, c4

\* A question for each kind of job, two drafts of one topic, and two that the
\* corpus should not answer, one of which it does.
MCCategoryOf ==
    q1 :> net @@ q2 :> net @@ q3 :> rbac @@ s1 :> vs @@ u1 :> un @@ u2 :> un

\* Resemblance across categories, not symmetric and not transitive.
MCTwin == {<<q, q>> : q \in Question} \cup {<<q2, q1>>, <<q1, q2>>, <<q3, q1>>, <<u1, q2>>}

\* Most chunks are of one topic.
MCTopicOf == c1 :> net @@ c2 :> net @@ c3 :> net @@ c4 :> rbac
MCDraftsOf == c1 :> {q1, s1} @@ c2 :> {q2} @@ c3 :> {q1, q2} @@ c4 :> {q3}
MCRank == net :> 1 @@ rbac :> 2 @@ un :> 3 @@ vs :> 4
=============================================================================

---------------------------- MODULE GroundedAnswer ----------------------------
(***************************************************************************)
(* What corrective RAG promises (ADR-0007), with the factuality gateway:   *)
(* look for evidence a bounded number of times, answer only from evidence  *)
(* that was found, never with a draft that a check of its claims went      *)
(* against, and refuse only after the last look found no evidence.  It may *)
(* fail at any point.                                                      *)
(***************************************************************************)
EXTENDS Naturals

CONSTANTS
    MaxLooks,   \* retrievals allowed for one question
    TopK        \* passages a retrieval may return

VARIABLES
    looks,      \* retrievals made
    evidence,   \* positions of the passages the last look accepted
    flagged,    \* the check of the draft's claims went against one of them
    phase       \* what the loop is doing, or how it ended

groundedVars == <<looks, evidence, flagged, phase>>

Init ==
    /\ looks = 0
    /\ evidence = {}
    /\ flagged = FALSE
    /\ phase = "judged"

Look ==
    /\ phase = "judged"
    /\ evidence = {}
    /\ looks < MaxLooks
    /\ looks' = looks + 1
    /\ phase' = "looking"
    /\ UNCHANGED <<evidence, flagged>>

Judge ==
    /\ phase = "looking"
    /\ evidence' \in SUBSET (1 .. TopK)
    /\ phase' = "judged"
    /\ UNCHANGED <<looks, flagged>>

Flag ==
    /\ phase = "judged"
    /\ evidence # {}
    /\ ~ flagged
    /\ flagged' = TRUE
    /\ UNCHANGED <<looks, evidence, phase>>

\* The answer is the draft, or what was put in its place.
Answer ==
    /\ phase = "judged"
    /\ evidence # {}
    /\ phase' \in IF flagged THEN {"replaced"} ELSE {"answered", "replaced"}
    /\ UNCHANGED <<looks, evidence, flagged>>

Refuse ==
    /\ phase = "judged"
    /\ evidence = {}
    /\ looks = MaxLooks
    /\ phase' = "refused"
    /\ UNCHANGED <<looks, evidence, flagged>>

Fail ==
    /\ phase \in {"looking", "judged"}
    /\ phase' = "failed"
    /\ UNCHANGED <<looks, evidence, flagged>>

Next == Look \/ Judge \/ Flag \/ Answer \/ Refuse \/ Fail

Spec == Init /\ [][Next]_groundedVars
=============================================================================

------------------------------ MODULE MCRetrieval ------------------------------
(***************************************************************************)
(* An instance of Retrieval for TLC.                                       *)
(***************************************************************************)
EXTENDS Retrieval

CONSTANTS f, g, x, y, a, b

MCDoc == <<f, g>>

\* Commit b takes a section out of f, so that the chunk after it moves up.
MCSections ==
    [c \in Commit |->
        [d \in File |->
            IF d = g THEN <<x>> ELSE IF c = a THEN <<x, "left out", y>> ELSE <<y>>]]
=============================================================================

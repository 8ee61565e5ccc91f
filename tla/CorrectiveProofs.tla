--------------------------- MODULE CorrectiveProofs ---------------------------
(***************************************************************************)
(* Proofs about the corrective loop, for any thresholds, retries, passages *)
(* and replies of the critic and the judge: types, that only graded        *)
(* passages reach the generator, that routing and filtering agree, the     *)
(* cost bound, that a flagged draft is never returned, and that the loop   *)
(* implements GroundedAnswer.                                              *)
(***************************************************************************)
EXTENDS Corrective, TLAPS

\* A passage with a score above zero got it from the critic's reply.
ScoresGraded ==
    pc = "route" =>
        /\ DOMAIN scores = 1 .. retrieved
        /\ \A k \in DOMAIN scores : scores[k] > 0 => k \in graded

\* The passages to generate from are chosen when a verdict accepts them, by the
\* scores they still have.
SurvivorsChosen ==
    /\ pc \in {"retrieve", "retrieving", "score", "route", "reformulate"} => survivors = {}
    /\ pc \in {"generate", "verify", "regenerate"} =>
          /\ survivors = Survivors
          /\ survivors # {}
          /\ DOMAIN scores = 1 .. retrieved

\* A rejected batch has no passage to generate from.
NothingAccepted ==
    /\ pc \in {"retrieve", "retrieving", "score", "reformulate"} => Survivors = {}
    /\ pc = "retrieve" /\ attempts > MaxRetries => attempts = MaxRetries + 1

\* The calls a run has paid for by the time it reaches each step.
CallsSoFar ==
    /\ pc = "retrieve" /\ attempts <= MaxRetries => calls <= 2 * attempts
    /\ pc = "retrieve" /\ attempts > MaxRetries => calls <= 2 * MaxRetries + 1
    /\ pc \in {"retrieving", "score"} => 1 <= attempts /\ calls <= 2 * (attempts - 1)
    /\ pc \in {"route", "generate"} => 1 <= attempts /\ calls <= 2 * attempts - 1
    /\ pc = "reformulate" => 1 <= attempts /\ attempts <= MaxRetries /\ calls <= 2 * attempts - 1
    /\ pc = "verify" => calls <= 2 * attempts
    /\ pc = "regenerate" => calls <= 2 * attempts + 1
    /\ CostBounded

\* Until the judge has answered there is nothing to hold against the draft.
VerdictPending ==
    /\ pc # "done" => outcome = "none"
    /\ pc \notin {"regenerate", "done"} => judged = {}

IInv ==
    /\ TypeOK
    /\ OnlyGradedChunks
    /\ ScoresGraded
    /\ SurvivorsChosen
    /\ NothingAccepted
    /\ CallsSoFar
    /\ VerdictPending
    /\ FlaggedNeverServed

\* A function with a score for each passage is a batch.
LEMMA BatchIntro == ASSUME NEW n \in 0 .. TopK, NEW f \in [1 .. n -> Score] PROVE f \in Batch
BY DEF Batch

\* No scores at all are a batch.
LEMMA EmptyBatch == << >> \in Batch
<1>1. 0 \in 0 .. TopK
  BY CorrectiveAssumption
<1>2. << >> \in [1 .. 0 -> Score]
  OBVIOUS
<1>3. QED
  BY <1>1, <1>2 DEF Batch

\* What a batch is: scores by position, at most TopK of them.
LEMMA BatchElim ==
    ASSUME NEW f \in Batch
    PROVE  /\ DOMAIN f \subseteq 1 .. TopK
           /\ \A k \in DOMAIN f : f[k] \in Nat
<1>1. PICK n \in 0 .. TopK : f \in [1 .. n -> Score]
  BY DEF Batch
<1>2. TopK \in Nat /\ Score \subseteq Nat
  BY CorrectiveAssumption DEF Score
<1>3. DOMAIN f = 1 .. n /\ \A k \in 1 .. n : f[k] \in Score
  BY <1>1
<1>4. 1 .. n \subseteq 1 .. TopK
  BY <1>2
<1>5. QED
  BY <1>2, <1>3, <1>4

\* The initial state satisfies the inductive invariant.
LEMMA InitIInv == Init => IInv
<1> SUFFICES ASSUME Init PROVE IInv
  OBVIOUS
<1>1. TopK \in Nat /\ MaxRetries \in Nat
  BY CorrectiveAssumption
<1>2. scores \in [1 .. 0 -> Score] /\ DOMAIN scores = {}
  BY DEF Init
<1>3. scores \in Batch
  BY EmptyBatch DEF Init
<1>4. TypeOK
  BY <1>1, <1>3 DEF Init, TypeOK, Running
<1>5. OnlyGradedChunks /\ ScoresGraded /\ SurvivorsChosen
  BY DEF Init, OnlyGradedChunks, ScoresGraded, SurvivorsChosen
<1>6. NothingAccepted
  BY <1>1, <1>2 DEF Init, NothingAccepted, Survivors
<1>7. CallsSoFar /\ VerdictPending /\ FlaggedNeverServed
  BY <1>1 DEF Init, CallsSoFar, CostBounded, VerdictPending, FlaggedNeverServed
<1>8. QED
  BY <1>4, <1>5, <1>6, <1>7 DEF IInv

\* A batch of scores made by the critic is one score of the grid for each
\* passage.
LEMMA AlignedScores ==
    ASSUME TypeOK, NEW reply \in Reply
    PROVE  Aligned(reply) \in [1 .. retrieved -> Score]
<1> USE CorrectiveAssumption
<1>1. PICK m \in 0 .. TopK + 1 : reply \in [1 .. m -> RawScore]
  BY DEF Reply
<1>2. \A r \in RawScore : Clamp(r) \in Score
  BY DEF RawScore, Score, Clamp
<1>3. QED
  BY <1>1, <1>2 DEF Aligned, Score

\* Every step keeps the types.
LEMMA TypeStep == TypeOK /\ [Next]_vars => TypeOK'
<1> SUFFICES ASSUME TypeOK, [Next]_vars PROVE TypeOK'
  OBVIOUS
<1> USE DEF TypeOK, Running
<1>1. CASE Begin
  BY <1>1, CorrectiveAssumption DEF Begin, Goto
<1>2. CASE RetrieveReturns
  BY <1>2 DEF RetrieveReturns, Goto
<1>3. CASE RetrieveRaises
  BY <1>3 DEF RetrieveRaises, Raise, End
<1>4. ASSUME ScoreNothing \/ ScoreReplies \/ ScoreFails PROVE TypeOK'
  <2>1. retrieved \in 0 .. TopK /\ TopK \in Nat
    BY CorrectiveAssumption
  <2>2. scores' \in Batch
    <3>1. CASE ScoreNothing
      BY <3>1, EmptyBatch DEF ScoreNothing
    <3>2. CASE ScoreReplies
      BY <2>1, <3>2, AlignedScores, BatchIntro DEF ScoreReplies
    <3>3. CASE ScoreFails
      <4>1. 0 \in Score
        BY CorrectiveAssumption DEF Score
      <4>2. QED
        BY <2>1, <3>3, <4>1, BatchIntro DEF ScoreFails
    <3>4. QED
      BY <1>4, <3>1, <3>2, <3>3
  <2>3. graded' \subseteq 1 .. TopK
    <3>1. 1 .. retrieved \subseteq 1 .. TopK
      BY ONLY <2>1
    <3>2. graded' \subseteq 1 .. retrieved
      BY <1>4 DEF ScoreNothing, ScoreReplies, ScoreFails
    <3>3. QED
      BY <3>1, <3>2
  <2>4. pc' = "route" /\ (calls' = calls \/ calls' = calls + 1)
        /\ UNCHANGED <<attempts, query, retrieved, survivors, judged, answer, outcome>>
    BY <1>4 DEF ScoreNothing, ScoreReplies, ScoreFails, Goto, Call
  <2>5. QED
    BY <2>2, <2>3, <2>4
<1>5. CASE Accept
  <2>1. Survivors \subseteq 1 .. TopK
    BY BatchElim DEF Survivors
  <2>2. QED
    BY <1>5, <2>1 DEF Accept, Goto
<1>6. CASE Reject
  BY <1>6 DEF Reject, Goto
<1>7. CASE Reformulate
  BY <1>7 DEF Reformulate, Goto, Call
<1>8. CASE Refuse
  BY <1>8 DEF Refuse, End
<1>9. CASE Generate
  <2>1. calls' \in Nat /\ answer' \in {"none", "draft", "revised", "NO_INFO"}
    BY <1>9 DEF Generate
  <2>2. pc' \in Running \cup {"done"}
        /\ outcome' \in {"none", "answered", "refused", "OpenAIError", "TypeError", "OtherError"}
    BY <1>9 DEF Generate, Goto, End
  <2>3. UNCHANGED <<attempts, query, retrieved, scores, graded, survivors, judged>>
    BY <1>9 DEF Generate
  <2>4. QED
    BY <2>1, <2>2, <2>3
<1>10. CASE GenerateRaises
  BY <1>10 DEF GenerateRaises, Raise, End, Call
<1>11. CASE Verify
  BY <1>11 DEF Verify, Goto, End, Call
<1>12. CASE VerifyNotIterable
  BY <1>12 DEF VerifyNotIterable, End, Call
<1>13. CASE VerifyRaises
  BY <1>13 DEF VerifyRaises, Raise, End, Call
<1>14. CASE Regenerate
  BY <1>14 DEF Regenerate, End, Call
<1>15. CASE RegenerateRaises
  BY <1>15 DEF RegenerateRaises, Raise, End, Call
<1>16. CASE UNCHANGED vars
  BY <1>16 DEF vars
<1>17. QED
  BY <1>1, <1>2, <1>3, <1>4, <1>5, <1>6, <1>7, <1>8, <1>9, <1>10, <1>11, <1>12, <1>13,
     <1>14, <1>15, <1>16 DEF Next, Step, Stop

\* What the verdict says of a batch.
LEMMA VerdictMeaning ==
    ASSUME TypeOK
    PROVE  (Category = "incorrect") <=> (Survivors = {})
<1>1. /\ \A k \in DOMAIN scores : scores[k] \in Nat
      /\ IncorrectThreshold <= CorrectThreshold
      /\ IncorrectThreshold \in Nat /\ CorrectThreshold \in Nat
  BY BatchElim, CorrectiveAssumption DEF TypeOK
<1>2. QED
  BY <1>1 DEF Category, Survivors

\* The critic's steps leave a batch in which only graded passages score above
\* zero.
LEMMA ScoreStep ==
    ASSUME TypeOK, ScoreNothing \/ ScoreReplies \/ ScoreFails
    PROVE  /\ DOMAIN scores' = 1 .. retrieved
           /\ \A k \in DOMAIN scores' : scores'[k] > 0 => k \in graded'
<1>1. CASE ScoreNothing
  BY <1>1 DEF ScoreNothing
<1>2. CASE ScoreReplies
  <2>1. PICK reply \in Reply :
            scores' = Aligned(reply) /\ graded' = DOMAIN reply \cap 1 .. retrieved
    BY <1>2 DEF ScoreReplies
  <2>2. QED
    BY <2>1 DEF Aligned
<1>3. CASE ScoreFails
  BY <1>3 DEF ScoreFails
<1>4. QED
  BY <1>1, <1>2, <1>3

\* Which passages are scored, graded and kept survives every step.
LEMMA EvidenceStep ==
    IInv /\ [Next]_vars =>
        (OnlyGradedChunks /\ ScoresGraded /\ SurvivorsChosen /\ NothingAccepted)'
<1> DEFINE Goal == (OnlyGradedChunks /\ ScoresGraded /\ SurvivorsChosen /\ NothingAccepted)'
<1> SUFFICES ASSUME IInv, [Next]_vars PROVE Goal
  OBVIOUS
<1>0. TypeOK /\ OnlyGradedChunks /\ ScoresGraded /\ SurvivorsChosen /\ NothingAccepted
  BY DEF IInv
<1>1. ASSUME Begin \/ RetrieveReturns \/ Reformulate PROVE Goal
  <2>1. /\ pc \in {"retrieve", "retrieving", "reformulate"}
        /\ pc' \in {"retrieve", "retrieving", "score"}
        /\ pc' = "retrieve" => attempts' = attempts /\ pc = "reformulate"
        /\ UNCHANGED <<scores, graded, survivors>>
    BY <1>1 DEF Begin, RetrieveReturns, Reformulate, Goto
  <2>2. pc = "reformulate" => attempts <= MaxRetries
    BY DEF IInv, CallsSoFar
  <2>3. MaxRetries \in Nat /\ attempts \in Nat
    BY <1>0, CorrectiveAssumption DEF TypeOK
  <2>4. QED
    BY <1>0, <2>1, <2>2, <2>3 DEF OnlyGradedChunks, ScoresGraded, SurvivorsChosen,
                                  NothingAccepted, Survivors
<1>2. ASSUME ScoreNothing \/ ScoreReplies \/ ScoreFails PROVE Goal
  <2>1. pc = "score" /\ pc' = "route" /\ UNCHANGED <<retrieved, survivors>>
    BY <1>2 DEF ScoreNothing, ScoreReplies, ScoreFails, Goto
  <2>2. survivors = {}
    BY <1>0, <2>1 DEF SurvivorsChosen
  <2>3. QED
    BY <1>0, <1>2, <2>1, <2>2, ScoreStep DEF OnlyGradedChunks, ScoresGraded, SurvivorsChosen,
                                             NothingAccepted
<1>3. CASE Accept
  <2>1. /\ pc = "route" /\ pc' = "generate" /\ survivors' = Survivors
        /\ UNCHANGED <<scores, graded, retrieved>>
        /\ Survivors # {}
    BY <1>0, <1>3, VerdictMeaning DEF Accept, Goto
  <2>2. /\ DOMAIN scores = 1 .. retrieved
        /\ \A k \in DOMAIN scores : scores[k] > 0 => k \in graded
    BY <1>0, <2>1 DEF ScoresGraded
  <2>3. Survivors \subseteq graded
    <3>1. IncorrectThreshold \in Nat /\ 0 < IncorrectThreshold
      BY CorrectiveAssumption
    <3>2. \A k \in DOMAIN scores : scores[k] \in Nat
      BY <1>0, BatchElim DEF TypeOK
    <3>3. QED
      BY <2>2, <3>1, <3>2 DEF Survivors
  <2>4. Survivors' = Survivors
    BY <2>1 DEF Survivors
  <2>5. QED
    BY <2>1, <2>2, <2>3, <2>4 DEF OnlyGradedChunks, ScoresGraded, SurvivorsChosen,
                                  NothingAccepted
<1>4. CASE Reject
  <2>1. /\ pc = "route" /\ pc' \in {"reformulate", "retrieve"}
        /\ UNCHANGED <<scores, graded, retrieved, survivors, attempts>>
        /\ Survivors = {}
    BY <1>0, <1>4, VerdictMeaning DEF Reject, Goto
  <2>2. attempts > MaxRetries => attempts = MaxRetries + 1
    BY <1>0, CorrectiveAssumption DEF TypeOK
  <2>3. Survivors' = {}
    BY <2>1 DEF Survivors
  <2>4. survivors = {}
    BY <1>0, <2>1 DEF SurvivorsChosen
  <2>5. QED
    BY <2>1, <2>2, <2>3, <2>4 DEF OnlyGradedChunks, ScoresGraded, SurvivorsChosen,
                                  NothingAccepted
<1>5. CASE Refuse
  BY <1>5 DEF Refuse, End, OnlyGradedChunks, ScoresGraded, SurvivorsChosen, NothingAccepted
<1>6. ASSUME Generate \/ Verify PROVE Goal
  <2>1. /\ pc \in {"generate", "verify"} /\ pc' \in {"verify", "regenerate", "done"}
        /\ UNCHANGED <<scores, graded, retrieved, survivors>>
    BY <1>6 DEF Generate, Verify, Goto, End
  <2>2. QED
    BY <1>0, <2>1 DEF OnlyGradedChunks, ScoresGraded, SurvivorsChosen, NothingAccepted, Survivors
<1>7. ASSUME \/ RetrieveRaises \/ GenerateRaises \/ VerifyNotIterable \/ VerifyRaises
             \/ Regenerate \/ RegenerateRaises
      PROVE  Goal
  <2>1. pc' = "done" /\ UNCHANGED <<graded, survivors>>
    BY <1>7 DEF RetrieveRaises, GenerateRaises, VerifyNotIterable, VerifyRaises, Regenerate,
                RegenerateRaises, Raise, End
  <2>2. QED
    BY <1>0, <2>1 DEF OnlyGradedChunks, ScoresGraded, SurvivorsChosen, NothingAccepted
<1>8. CASE UNCHANGED vars
  BY <1>0, <1>8 DEF vars, OnlyGradedChunks, ScoresGraded, SurvivorsChosen, NothingAccepted,
                    Survivors
<1>9. QED
  BY <1>1, <1>2, <1>3, <1>4, <1>5, <1>6, <1>7, <1>8 DEF Next, Step, Stop

\* The bound on the calls made so far survives every step.
LEMMA CallsStep == IInv /\ [Next]_vars => CallsSoFar'
<1> SUFFICES ASSUME IInv, [Next]_vars PROVE CallsSoFar'
  OBVIOUS
<1>0. /\ CallsSoFar /\ VerdictPending
      /\ attempts \in Nat /\ attempts <= MaxRetries + 1 /\ calls \in Nat /\ MaxRetries \in Nat
  BY CorrectiveAssumption DEF IInv, TypeOK
<1> USE <1>0 DEF CallsSoFar, VerdictPending, CostBounded, Goto, End, Raise, Call
<1>1. CASE Begin
  BY <1>1 DEF Begin
<1>2. CASE RetrieveReturns
  BY <1>2 DEF RetrieveReturns
<1>3. CASE RetrieveRaises
  BY <1>3 DEF RetrieveRaises
<1>4. ASSUME ScoreNothing \/ ScoreReplies \/ ScoreFails PROVE CallsSoFar'
  <2>1. /\ pc = "score" /\ pc' = "route" /\ (calls' = calls \/ calls' = calls + 1)
        /\ UNCHANGED <<attempts, outcome>>
    BY <1>4 DEF ScoreNothing, ScoreReplies, ScoreFails
  <2>2. QED
    BY <2>1
<1>5. CASE Accept
  BY <1>5 DEF Accept
<1>6. CASE Reject
  BY <1>6 DEF Reject
<1>7. CASE Reformulate
  BY <1>7 DEF Reformulate
<1>8. CASE Refuse
  BY <1>8 DEF Refuse
<1>9. ASSUME Generate \/ GenerateRaises PROVE CallsSoFar'
  <2>1. /\ pc = "generate" /\ (calls' = calls \/ calls' = calls + 1)
        /\ pc' \in {"verify", "done"} /\ outcome' # "refused" /\ attempts' = attempts
    BY <1>9 DEF Generate, GenerateRaises
  <2>2. QED
    BY <2>1
<1>10. ASSUME Verify \/ VerifyNotIterable \/ VerifyRaises PROVE CallsSoFar'
  <2>1. /\ pc = "verify" /\ calls' = calls + 1
        /\ pc' \in {"regenerate", "done"} /\ outcome' # "refused" /\ attempts' = attempts
    BY <1>10 DEF Verify, VerifyNotIterable, VerifyRaises
  <2>2. QED
    BY <2>1
<1>11. ASSUME Regenerate \/ RegenerateRaises PROVE CallsSoFar'
  <2>1. /\ pc = "regenerate" /\ calls' = calls + 1
        /\ pc' = "done" /\ outcome' # "refused" /\ attempts' = attempts
    BY <1>11 DEF Regenerate, RegenerateRaises
  <2>2. QED
    BY <2>1
<1>12. CASE UNCHANGED vars
  BY <1>12 DEF vars
<1>13. QED
  BY <1>1, <1>2, <1>3, <1>4, <1>5, <1>6, <1>7, <1>8, <1>9, <1>10, <1>11, <1>12
     DEF Next, Step, Stop

\* Every step keeps a flagged draft out of the result.
LEMMA VerdictStep == IInv /\ [Next]_vars => (VerdictPending /\ FlaggedNeverServed)'
<1> SUFFICES ASSUME IInv, [Next]_vars PROVE (VerdictPending /\ FlaggedNeverServed)'
  OBVIOUS
<1>0. VerdictPending /\ FlaggedNeverServed
  BY DEF IInv
<1> USE <1>0 DEF VerdictPending, FlaggedNeverServed, Goto, End, Raise
<1>1. ASSUME \/ Begin \/ RetrieveReturns \/ RetrieveRaises
             \/ ScoreNothing \/ ScoreReplies \/ ScoreFails
             \/ Accept \/ Reject \/ Reformulate \/ Refuse
      PROVE  (VerdictPending /\ FlaggedNeverServed)'
  <2>1. /\ pc \notin {"regenerate", "done"} /\ judged' = judged
        /\ \/ pc' \notin {"regenerate", "done"} /\ outcome' = outcome
           \/ pc' = "done" /\ outcome' # "answered"
    BY <1>1 DEF Begin, RetrieveReturns, RetrieveRaises, ScoreNothing, ScoreReplies, ScoreFails,
                Accept, Reject, Reformulate, Refuse
  <2>2. QED
    BY <2>1
<1>2. ASSUME Generate \/ GenerateRaises PROVE (VerdictPending /\ FlaggedNeverServed)'
  <2>1. /\ pc = "generate" /\ judged' = judged
        /\ \/ pc' = "verify" /\ outcome' = outcome
           \/ pc' = "done"
    BY <1>2 DEF Generate, GenerateRaises
  <2>2. QED
    BY <2>1
<1>3. CASE Verify
  <2>1. judged' \subseteq Label
    BY <1>3 DEF Verify
  <2>2. ~Unsupported(judged') => judged' \subseteq {"grounded", "complementary"}
    BY <2>1 DEF Unsupported, Label
  <2>3. /\ pc = "verify"
        /\ \/ pc' = "regenerate" /\ outcome' = outcome
           \/ pc' = "done" /\ ~Unsupported(judged')
    BY <1>3 DEF Verify
  <2>4. QED
    BY <2>2, <2>3
<1>4. CASE VerifyNotIterable
  BY <1>4 DEF VerifyNotIterable
<1>5. CASE VerifyRaises
  BY <1>5 DEF VerifyRaises
<1>6. CASE Regenerate
  BY <1>6 DEF Regenerate
<1>7. CASE RegenerateRaises
  BY <1>7 DEF RegenerateRaises
<1>8. CASE UNCHANGED vars
  BY <1>8 DEF vars
<1>9. QED
  BY <1>1, <1>2, <1>3, <1>4, <1>5, <1>6, <1>7, <1>8 DEF Next, Step, Stop

\* The inductive invariant holds in every state.
THEOREM Inductive == Spec => []IInv
<1>1. IInv /\ [Next]_vars => IInv'
  BY TypeStep, EvidenceStep, CallsStep, VerdictStep DEF IInv
<1>2. QED
  BY InitIInv, <1>1, PTL DEF Spec

\* Types: in particular every score is on the grid, whatever the critic sent.
THEOREM TypeCorrect == Spec => []TypeOK
BY Inductive, PTL DEF IInv

\* For any replies of the critic, passages nobody graded are never generated
\* from.
THEOREM GradedTheorem == Spec => []OnlyGradedChunks
BY Inductive, PTL DEF IInv

\* For any thresholds in order, generation has passages, the best ones.
THEOREM BestTheorem == Spec => []BestChunksSurvive
<1>1. IInv => BestChunksSurvive
  <2> SUFFICES ASSUME IInv, pc \in {"generate", "verify", "regenerate"}
               PROVE  /\ survivors # {}
                      /\ \A k \in survivors, j \in DOMAIN scores \ survivors : scores[j] < scores[k]
    BY DEF BestChunksSurvive
  <2>1. survivors = Survivors /\ survivors # {}
    BY DEF IInv, SurvivorsChosen
  <2>2. /\ \A k \in DOMAIN scores : scores[k] \in Nat
        /\ IncorrectThreshold \in Nat
    BY BatchElim, CorrectiveAssumption DEF IInv, TypeOK
  <2>3. QED
    BY <2>1, <2>2 DEF Survivors
<1>2. QED
  BY Inductive, <1>1, PTL

\* For any number of retries, a run costs no more calls than ADR-0007 says.
THEOREM CostTheorem == Spec => []CostBounded
BY Inductive, PTL DEF IInv, CallsSoFar

\* A draft with an unsupported claim is never returned.
THEOREM FlaggedTheorem == Spec => []FlaggedNeverServed
BY Inductive, PTL DEF IInv

\* The loop implements GroundedAnswer: it answers only from evidence, never with
\* a draft that the judge went against, and refuses only after the last retrieval
\* it may make found none.
THEOREM ImplementsGrounded == Spec => GroundedSpec
<1> DEFINE ev == {k \in DOMAIN scores : scores[k] >= IncorrectThreshold}
           against == ~ judged \subseteq {"grounded", "complementary"}
<1>1. Init => Abstract!Init
  BY DEF Init, Abstract!Init, Phase
<1>2. IInv /\ IInv' /\ [Next]_vars => [Abstract!Next]_(Abstract!groundedVars)
  <2> SUFFICES ASSUME IInv, IInv', [Next]_vars
               PROVE  Abstract!Next \/ UNCHANGED Abstract!groundedVars
    OBVIOUS
  <2> USE DEF Goto, End, Raise, Phase
  <2>0. /\ TypeOK /\ SurvivorsChosen /\ NothingAccepted /\ VerdictPending
        /\ attempts \in Nat /\ MaxRetries \in Nat /\ attempts <= MaxRetries + 1
        /\ ev = Survivors
    BY CorrectiveAssumption DEF IInv, TypeOK, Survivors
  <2>1. CASE Begin
    <3>1. Phase = "judged" /\ Phase' = "looking" /\ ev' = ev /\ judged' = judged
      BY <2>1 DEF Begin
    <3>2. attempts' = attempts + 1 /\ attempts < MaxRetries + 1 /\ ev = {}
      BY <2>0, <2>1 DEF Begin, NothingAccepted
    <3>3. Abstract!Look
      BY <3>1, <3>2 DEF Abstract!Look
    <3>4. QED
      BY <3>3 DEF Abstract!Next
  <2>2. ASSUME ScoreNothing \/ ScoreReplies \/ ScoreFails PROVE Abstract!Next
    <3>1. Phase = "looking" /\ Phase' = "judged" /\ attempts' = attempts /\ judged' = judged
      BY <2>2 DEF ScoreNothing, ScoreReplies, ScoreFails
    <3>2. scores' \in Batch
      BY DEF IInv, TypeOK
    <3>3. ev' \subseteq 1 .. TopK
      BY <3>2, BatchElim
    <3>4. Abstract!Judge
      BY <3>1, <3>3 DEF Abstract!Judge
    <3>5. QED
      BY <3>4 DEF Abstract!Next
  <2>3. ASSUME \/ RetrieveReturns \/ Accept \/ Reject \/ Reformulate
        PROVE  UNCHANGED Abstract!groundedVars
    BY <2>3 DEF RetrieveReturns, Accept, Reject, Reformulate, Abstract!groundedVars
  <2>4. CASE Refuse
    <3>1. Phase = "judged" /\ Phase' = "refused" /\ UNCHANGED <<attempts, scores, judged>>
      BY <2>4 DEF Refuse
    <3>2. ev = {} /\ ev' = ev /\ attempts = MaxRetries + 1
      BY <2>0, <2>4, <3>1 DEF Refuse, NothingAccepted
    <3>3. Abstract!Refuse
      BY <3>1, <3>2 DEF Abstract!Refuse
    <3>4. QED
      BY <3>3 DEF Abstract!Next
  <2>5. ASSUME Generate \/ Verify \/ Regenerate
        PROVE  Abstract!Next \/ UNCHANGED Abstract!groundedVars
    <3>1. Phase = "judged" /\ UNCHANGED <<attempts, scores>>
      BY <2>5 DEF Generate, Verify, Regenerate
    <3>2. ev # {} /\ ev' = ev
      BY <2>0, <2>5, <3>1 DEF Generate, Verify, Regenerate, SurvivorsChosen
    <3>3. ASSUME against' = against, Phase' = "judged" PROVE UNCHANGED Abstract!groundedVars
      BY <3>1, <3>2, <3>3 DEF Abstract!groundedVars
    <3>4. ASSUME against' = against, Phase' = "replaced" PROVE Abstract!Next
      BY <3>1, <3>2, <3>4 DEF Abstract!Answer, Abstract!Next
    <3>5. ASSUME against' = against, against = FALSE, Phase' = "answered" PROVE Abstract!Next
      BY <3>1, <3>2, <3>5 DEF Abstract!Answer, Abstract!Next
    <3>6. CASE Generate
      <4>1. judged' = judged /\ judged = {}
        BY <2>0, <3>6 DEF Generate, VerdictPending
      <4>2. Phase' \in {"judged", "answered", "replaced"}
        BY <3>6 DEF Generate
      <4> QED
        BY <3>3, <3>4, <3>5, <4>1, <4>2
    <3>7. CASE Verify
      <4>1. judged = {} /\ judged' \subseteq Label
        BY <2>0, <3>7 DEF Verify, VerdictPending
      <4>2. Unsupported(judged') <=> against'
        BY <4>1 DEF Unsupported, Label
      <4>3. CASE Unsupported(judged')
        <5>1. Phase' = "judged"
          BY <3>7, <4>3 DEF Verify
        <5>2. Abstract!Flag
          BY <3>1, <3>2, <4>1, <4>2, <4>3, <5>1 DEF Abstract!Flag
        <5> QED
          BY <5>2 DEF Abstract!Next
      <4>4. CASE ~ Unsupported(judged')
        <5>1. Phase' \in {"answered", "replaced"}
          BY <3>7, <4>4 DEF Verify
        <5> QED
          BY <3>4, <3>5, <4>1, <4>2, <4>4, <5>1
      <4> QED
        BY <4>3, <4>4
    <3>8. CASE Regenerate
      <4>1. judged' = judged /\ Phase' = "replaced"
        BY <3>8 DEF Regenerate
      <4> QED
        BY <3>4, <4>1
    <3> QED
      BY <2>5, <3>6, <3>7, <3>8
  <2>6. ASSUME \/ RetrieveRaises \/ GenerateRaises \/ VerifyNotIterable \/ VerifyRaises
               \/ RegenerateRaises
        PROVE  Abstract!Next
    <3>1. /\ Phase \in {"looking", "judged"} /\ Phase' = "failed"
          /\ UNCHANGED <<attempts, scores, judged>>
      BY <2>6 DEF RetrieveRaises, GenerateRaises, VerifyNotIterable, VerifyRaises,
                  RegenerateRaises
    <3>2. Abstract!Fail
      BY <3>1 DEF Abstract!Fail
    <3>3. QED
      BY <3>2 DEF Abstract!Next
  <2>7. CASE UNCHANGED vars
    BY <2>7 DEF vars, Abstract!groundedVars
  <2>8. QED
    BY <2>1, <2>2, <2>3, <2>4, <2>5, <2>6, <2>7 DEF Next, Step, Stop
<1>3. QED
  BY Inductive, <1>1, <1>2, PTL DEF Spec, GroundedSpec, Abstract!Spec

=============================================================================
